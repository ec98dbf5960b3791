SPECIFICATION FairSpec
CONSTANTS
    na = na
    nb = nb
    nc = nc
    nu = nu
    none = none
    k1 = k1
    k2 = k2
    k3 = k3
    Node = {na, nb}
    Self = na
    NoNode = none
    Undefined = nu
    Key <- MCKey
    KeyOf <- KeysDistinct
    MaxSeqno = 2
    Levels = {"Majority"}
    maxAllowedReplicas = 2
    Topologies <- Pair
    FirstTopologies <- Pair
    StartModes = {"fresh"}
    Env = {"timeout"}
PROPERTIES EventuallyTold
