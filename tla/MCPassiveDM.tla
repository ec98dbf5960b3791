---------------------------- MODULE MCPassiveDM -----------------------------
(***************************************************************************)
(* Small instances of PassiveDM.  The two keys play the same part.         *)
(***************************************************************************)
EXTENDS PassiveDM, TLC

CONSTANTS k1, k2

TwoKeys == {k1, k2}
KeySymmetry == Permutations(TwoKeys)

=============================================================================
