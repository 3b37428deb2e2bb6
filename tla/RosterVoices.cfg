SPECIFICATION VoiceSpec
CONSTANTS
    mom = mom
    work = work
    club = club
    Contacts = {mom}
    Groups = {club}
    Alphabet <- TwoChats
    Asked = {"both"}
    Earlier <- Tables
    None = None
    MaxTurns = 3
    MaxMishaps = 1
    Notes = {1, 2, 3}
    Limit = 1
    LruMax = 1
CONSTRAINTS InTurn Spread
INVARIANTS
    HisWordIsStored
    RuleBounded
    PaidByJid
PROPERTIES
    RosterSettles
CHECK_DEADLOCK FALSE
