SPECIFICATION FairSpec
CONSTANTS
    k1 = k1
    k2 = k2
    Key <- TwoKeys
    Levels = {"Majority"}
    Types = {"Prepare", "Commit", "Abort"}
    MaxSeqno = 3
    MaxConnects = 2
    Env = {}
PROPERTIES EventuallyAcked
CHECK_DEADLOCK FALSE
