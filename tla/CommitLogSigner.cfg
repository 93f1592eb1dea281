SPECIFICATION FairSpec
CONSTANTS
    Signer = {"a", "b"}
    BatchSize = 2
    Election = TRUE
    SteppingClock = FALSE
    MaxLeaves = 3
    MaxTime = 1
    MaxSTHs = 4
INVARIANTS DatabasesAgree NoSurprise
PROPERTY LeavesAreIntegrated
