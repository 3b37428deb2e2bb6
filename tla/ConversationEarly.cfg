SPECIFICATION Spec
CONSTANTS
    Creates = {w1}
    Changes = {w2}
    Quiet = {}
    NoWrite = NoWrite
    MaxHuman = 3
    Speech <- Tags
    Window = 3
    MaxHops = 1
    MaxAttempts = 1
    Faults <- Never
    MaxFaults = 0
ACTION_CONSTRAINT Noticed
INVARIANTS
    CarriedUnderCard
CHECK_DEADLOCK FALSE
