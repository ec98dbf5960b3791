SPECIFICATION Spec
CONSTANTS
    k1 = k1
    k2 = k2
    Key <- TwoKeys
    Levels = {"Majority", "PersistToMajority"}
    Types = {"Prepare", "Commit", "Mutation", "Drop"}
    MaxSeqno = 4
    MaxConnects = 1
    Env = {"disk", "compaction"}
SYMMETRY KeySymmetry
INVARIANTS TypeOK NoException NeverRejected  IteratorsValid
PROPERTIES RemovedOnlyWhenDone
CHECK_DEADLOCK FALSE
