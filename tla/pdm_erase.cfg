SPECIFICATION Spec
CONSTANTS
    k1 = k1
    k2 = k2
    Key <- TwoKeys
    Levels = {"PersistToMajority"}
    Types = {"Prepare", "Commit", "Abort", "Drop"}
    MaxSeqno = 4
    MaxConnects = 1
    Env = {"compaction", "completedTracked"}
SYMMETRY KeySymmetry
INVARIANTS NoException
CHECK_DEADLOCK FALSE
