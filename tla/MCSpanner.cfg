CONSTANTS
    NumUnseqBuckets = 2
    NumMerkleBuckets = 2
    NumByteValues = 4
    HashesPerByte = 1
    ChunkSize = 2
    LogID = 1
    Signature = "ECDSA"
    Frontend = {f1}
    Signer = {s1, s2}
    Admin = {a1, a2}
    Leaves <- MCLeaves
    QTimes = {1}
    Seconds = 2
    Limit = 2
    Settings <- MCSettings
    Options <- MCOptions
    Distances <- MCDistances
    MaxBatch = 2
    MaxRevision = 1
    MaxFailures = 1
    TreeIDs = {1, 2}
    NewTrees <- MCNewTrees
    Updates <- MCUpdates
    Modes = {"log", "queue", "admin"}
SPECIFICATION Spec
INVARIANTS QueuedOrSequenced RootsAreHistory ReadsAgree
PROPERTY StoredIsSequenced
