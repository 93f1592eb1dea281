SPECIFICATION Spec
CONSTANTS
    Frontend = {"f1", "f2"}
    Sequencer = {"s1"}
    Leaf = {0, 1, 99}
    BadLeaf = 99
    BatchSize = 2
    MaxRootDuration = 1
    MaxCalls = 2
    MaxTrees = 2
    MaxTime = 2
    MaxFaults = 1
    DumpSizes = {0, 1, 2, 3, 4, 5}
    DumpBatches = {1, 2, 3}
INVARIANTS StoreAgrees InOrder DumpPrints
PROPERTY CallsEnd
CHECK_DEADLOCK FALSE
