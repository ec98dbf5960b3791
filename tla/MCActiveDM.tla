----------------------------- MODULE MCActiveDM -----------------------------
(***************************************************************************)
(* Small instances of ActiveDM.  The node na holds the vBucket; nu is an   *)
(* undefined replica.                                                      *)
(***************************************************************************)
EXTENDS ActiveDM

CONSTANTS na, nb, nc, nu, none, k1, k2, k3

KeysDistinct == [s \in Seqno |-> << k1, k2, k3 >>[s]]
MCKey == { KeysDistinct[s] : s \in Seqno }

\* Topologies: one replica, two replicas, a replica being replaced, the
\* vBucket being taken over by another node, and one without a majority.
TwoNodes == << << na, nb >> >>
ThreeNodes == << << na, nb, nc >> >>
SwapReplica == << << na, nb >>, << na, nc >> >>
TakeOver == << << na, nb >>, << nb, nc >> >>
TooFew == << << na, nu >> >>

Pair == {TwoNodes}
Single == {TwoNodes, ThreeNodes}
PairOrFew == {TwoNodes, TooFew}
AllPossible == {TwoNodes, ThreeNodes, SwapReplica, TakeOver}

=============================================================================
