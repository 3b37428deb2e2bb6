SPECIFICATION Spec
CONSTANTS
    Procs = {a, b}
    Pulled = {2, 3, 7}
    Improved = {1, 4}
    MaxPulls = 1
    MaxKills = 1
SYMMETRY Twins
INVARIANTS
    NeverHalfMigrated
    AllCardsServed
PROPERTIES
    YoursKept
CHECK_DEADLOCK FALSE
