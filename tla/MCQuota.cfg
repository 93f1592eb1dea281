SPECIFICATION Spec
CONSTANTS
    Quota = {"user", "t1", "t2", "global"}
    UserQuota = {"user"}
    TreeQuota = {"t1"}
    GlobalQuota = "global"
    MaxTokens = 6
    Frontend = {"f1", "f2"}
    Rpc = {"r1", "r2"}
    ServerOf <- TwoServers
    InitConfig <- MCInitConfig
    NewConfig <- MCNewConfig
    Skew <- MCSkew
    MinBatchSize = 1
    MaxEntries = 2
    DryRun = FALSE
    IncreaseFactor = 100
    MaxRequest = 2
    MaxRpcs = 2
    MaxTime = 1
    MaxFailures = 1
    MaxAdmin = 1
INVARIANTS TypeOK WithinCeiling TokensConserved RateLimited
