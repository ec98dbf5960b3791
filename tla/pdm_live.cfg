SPECIFICATION FairSpec
CONSTANTS
    k1 = k1
    k2 = k2
    Key <- TwoKeys
    Levels = {"Majority", "PersistToMajority"}
    Types = {"Prepare", "Commit", "Abort", "Mutation"}
    MaxSeqno = 3
    MaxConnects = 1
    Env = {"disk"}
PROPERTIES EventuallyAcked EventuallyReleased
CHECK_DEADLOCK FALSE
