SPECIFICATION Spec
CONSTANTS
    Hours = 4
    DefaultHour = 1
    DefaultLength = 1
    Drafts <- MCDrafts
    Patches <- Fields
    Earlier <- Trip
    Edits <- MCEdits
    None = None
    Unknown = Unknown
    talk = talk
    walk = walk
    room = room
    ana = ana
    rui = rui
    MaxTurns = 2
    MaxFaults = 1
PROPERTIES
    ApprovedWhen
CHECK_DEADLOCK FALSE
