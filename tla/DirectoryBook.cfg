SPECIFICATION Spec
CONSTANTS
    Known <- TwoZens
    Fresh <- NewNames
    Said <- PairsSaid
    Turns <- TurnsSaid
    Leads <- ZenPrefix
    Emails = {"x", "y"}
    Attempts = 2
    Limit = 5
    MaxActs = 2
    MaxFaults = 1
    MaxKills = 1
INVARIANTS
    OwnersAddressesSurvive
    GivenItsTries
    RoomAnswersFirst
PROPERTIES
    BookSettles
CHECK_DEADLOCK FALSE
