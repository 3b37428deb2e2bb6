SPECIFICATION Spec
CONSTANTS
    Hours = 4
    DefaultHour = 1
    DefaultLength = 1
    Drafts <- MCDrafts
    Patches <- Fields
    Earlier <- Timed
    Edits <- MCEdits
    None = None
    Unknown = Unknown
    talk = talk
    walk = walk
    room = room
    ana = ana
    rui = rui
    MaxTurns = 2
    MaxFaults = 1
INVARIANTS
    MailedOnce
PROPERTIES
    CardNamesEveryChange
    CreateIsTheCard
    OkMeansDone
    KeepsLength
