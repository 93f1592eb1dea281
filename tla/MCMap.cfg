CONSTANTS
    Byte = 1
    HashBits = 4
    Strata <- MCStrata
    QueueSize = 1
    Writer = {"w1", "w2"}
    OneWriter = "w1"
    MaxFaults = 1
    Clock = {1, 2, 3}
    HammerKeys <- MCHammerKeys
    NonexistentKey <- MCNonexistentKey
    Malformed <- MCMalformed
    CopyCount = 2
    SMRCount = 2
    InvalidStretch = 10
    MaxBatch = 2
    MaxRevision = 2
    Entries <- MCEntries
    HashDomain <- MCHashDomain
    LogBatchSize = 2
    MaxEmptyRuns = 1
    MaxTries = 2
    BatchSize = 2
    NumBatches = 2
    Modes = {"hammer", "mapper", "test", "init", "race", "early"}
    RaceBatches <- MCRaceBatches
    MaxRequests = 2
SPECIFICATION Spec
INVARIANTS RootsCommit LeavesAreHistory ClientsPass
PROPERTY SetAnswered
CHECK_DEADLOCK FALSE
