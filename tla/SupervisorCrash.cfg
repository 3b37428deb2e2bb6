SPECIFICATION Spec
CONSTANTS
    Cards = {c1}
    Threads = {th1}
    Tasks = {t1, t2}
    Msgs = {m1}
    CarryOn = CarryOn
    Triage = Triage
    Nobody = Nobody
    MaxAttempts = 1
    MaxRounds = 1
    Quota <- CrashQuota
SYMMETRY Symmetry
INVARIANTS
    RunOnDisk
    OneAtATime
    StopMeetsEveryWorker
    NoStuckBusy
    ResumesBounded
CHECK_DEADLOCK FALSE
