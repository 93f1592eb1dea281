SPECIFICATION FairSpec
CONSTANTS
    TreeId = {1, 2}
    Admin = {"a1", "a2"}
    PrivateKey = {"pem1", "pem2", "wrong"}
    KeyOf <- MCKeyOf
    CreateRequest <- MCCreateRequest
    UpdateRequest <- MCUpdateRequest
    MaxTime = 3
    Threshold = 1
    MaxCalls = 4
    Collector = {"g1"}
    Signer = {"s1"}
    Stuck = {1}
INVARIANT SignersMatchTrees
PROPERTIES NeverCollectedEarly DeletedIsCollected FrozenTreesSettle
