SPECIFICATION Spec
CONSTANTS
    na = na
    nb = nb
    nc = nc
    nu = nu
    none = none
    k1 = k1
    k2 = k2
    k3 = k3
    Node = {na, nb, nc}
    Self = na
    NoNode = none
    Undefined = nu
    Key <- MCKey
    KeyOf <- KeysDistinct
    MaxSeqno = 2
    Levels = {"Majority"}
    maxAllowedReplicas = 2
    Topologies <- PairOrFew
    FirstTopologies <- PairOrFew
    StartModes = {"warmup"}
    Env = {}
INVARIANTS InfiniteNeverAborted
