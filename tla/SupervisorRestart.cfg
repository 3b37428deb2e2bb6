SPECIFICATION FairSpec
CONSTANTS
    Cards = {c1}
    Threads = {}
    Tasks = {t1, t2}
    Msgs = {m1, m2}
    CarryOn = CarryOn
    Triage = Triage
    Nobody = Nobody
    MaxAttempts = 2
    MaxRounds = 2
    Quota <- RestartQuota
PROPERTIES
    RestartNeverCuts
    QueuedIsDelivered
    DrainWindsDown
    DrainEmpties
    EveryMessageAnswered
ACTION_CONSTRAINT QueueFits
CHECK_DEADLOCK FALSE
