SPECIFICATION Spec
CONSTANTS
    s1 = s1
    s2 = s2
    f1 = f1
    f2 = f2
    Signer = {s1, s2}
    Frontend = {f1}
    Client = {s1, s2, f1}
    Leaf = {1, 2}
    Skew <- SkewedClock
    MaxTime = 3
    QueueUntil = 1
    MaxFailures = 1
    MaxRequest = 2
    BatchSize = 1
    GuardWindow = 1
    MaxRootDuration = 2
    QuotaIncreaseFactor = 200
INVARIANTS IInv RootsConsistent RootsBacked NoLeafLostOrRepeated
PROPERTIES PublishedRootAdvances ImplementsAppendOnlyLog
