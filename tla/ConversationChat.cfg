SPECIFICATION Spec
CONSTANTS
    Creates = {w1}
    Changes = {w2}
    Quiet = {}
    NoWrite = NoWrite
    MaxHuman = 3
    Speech <- Talk
    Window = 3
    MaxHops = 2
    MaxAttempts = 2
    Faults <- FaultKinds
    MaxFaults = 2
CONSTRAINTS Opened EndsOnHisYes Paired AnotherTurn
ACTION_CONSTRAINT Noticed
INVARIANTS
    OneYesOneWrite
    CarriedWasSeen
    RefusedStaysRefused
    OwnerIsHeard
PROPERTIES
    TurnsWindDown
CHECK_DEADLOCK FALSE
