SPECIFICATION FairSpec
CONSTANTS
    lisa = lisa
    mary = mary
    Flows = {lisa, mary}
    NoFlow = NoFlow
    AutoTranscribe = lisa
    WindowTtl = 3
    FlowTtl = 2
    Latency = 1
    MaxMessages = 3
    Posted <- Sample
    MaxLosses = 1
INVARIANTS
    NoContinuationDropped
    OnlyHeSummons
PROPERTIES
    SummonArrives
CHECK_DEADLOCK FALSE
