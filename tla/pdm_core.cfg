SPECIFICATION Spec
CONSTANTS
    k1 = k1
    k2 = k2
    Key <- TwoKeys
    Levels = {"PersistToMajority"}
    Types = {"Prepare", "Commit", "Abort"}
    MaxSeqno = 4
    MaxConnects = 2
    Env = {"disk", "partialDiskThenMemory"}
SYMMETRY KeySymmetry
INVARIANTS NoException  HashTableMatchesTracked TracksWhatIsInFlight NothingInFlightBelowHCS
PROPERTIES AcksNeverGoBack
CHECK_DEADLOCK FALSE
