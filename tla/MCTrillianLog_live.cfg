SPECIFICATION FairSpec
CONSTANTS
    s1 = s1
    s2 = s2
    f1 = f1
    f2 = f2
    Signer = {s1}
    Frontend = {f1, f2}
    Client = {s1, f1, f2}
    Leaf = {1, 2}
    Skew <- CommonClock
    MaxTime = 2
    QueueUntil = 1
    MaxFailures = 1
    MaxRequest = 2
    BatchSize = 1
    GuardWindow = 1
    MaxRootDuration = 0
    QuotaIncreaseFactor = 110
INVARIANT NoInsertCycle
PROPERTY AckedIsIntegrated
