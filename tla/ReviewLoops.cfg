SPECIFICATION ReviewSpec
CONSTANTS
    Loops = {l1, l2}
    QueueMax = 4
    FlushMax = 3
    HookMax = 1
    SweepMax = 1
    None = None
    MaxTurns = 2
    MaxRestarts = 1
    MaxFaults = 1
INVARIANTS
    JudgedInContext
    DoneIsGraded
PROPERTIES
    QuietLoopsEndUp
CHECK_DEADLOCK FALSE
