----------------------------- MODULE SeqnoSets ------------------------------
(***************************************************************************)
(* The std::list trackedWrites of both durability monitors is kept in seqno *)
(* order, so a set of seqnos stands for it; an iterator is the seqno of the *)
(* SyncWrite it points to, and 0 is end().                                 *)
(***************************************************************************)
EXTENDS Integers

MaxOf(S) == CHOOSE x \in S : \A y \in S : y <= x
MinOf(S) == CHOOSE x \in S : \A y \in S : x <= y

Front(T) == IF T = {} THEN 0 ELSE MinOf(T)              \* begin()
\* Mutant: the last element rather than the next.
LastIn(T, it) == MaxOf({ s \in T : s > it } \cup {0})
NextIn(T, it) == Front({ s \in T : s > it })            \* std::next(it)
PrevIn(T, it) == MaxOf({ s \in T : s < it } \cup {0})   \* std::prev(it)

=============================================================================
