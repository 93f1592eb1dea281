SPECIFICATION FairSpec
CONSTANTS
    Instance = {i1, i2}
    Log = {1}
    MaxFailures = 1
    NumWorkers = 1
    PendingCap = 1
    Stoppable = {i1}
PROPERTY ExitsWhenTold
CHECK_DEADLOCK FALSE
