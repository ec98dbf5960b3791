SPECIFICATION FairSpec
CONSTANTS
    k1 = k1
    k2 = k2
    Key <- TwoKeys
    Levels = {"PersistToMajority"}
    Types = {"Prepare"}
    MaxSeqno = 1
    MaxConnects = 2
    Env = {}
PROPERTIES EventuallyAcked
CHECK_DEADLOCK FALSE
