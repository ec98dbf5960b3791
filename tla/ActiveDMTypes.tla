--------------------------- MODULE ActiveDMTypes ----------------------------
(***************************************************************************)
(* Type correctness of the ActiveDurabilityMonitor, for every set of nodes *)
(* and topologies, every number of SyncWrites and every environment; and   *)
(* what its larger operations do, as lemmas.                               *)
(***************************************************************************)
EXTENDS ActiveDM, SeqnoSetsProofs, FiniteSetTheorems, TLAPS

-----------------------------------------------------------------------------
(* Chains *)

\* The parts of a chain have their types.
LEMMA ChainParts ==
    ASSUME NEW c \in Chain
    PROVE  /\ c.active \in Node \cup {NoNode}
           /\ c.majority \in Nat
           /\ Members(c) \subseteq Node
           /\ c.pos \in [Members(c) -> Position]
<1>1. c.active \in Node \cup {NoNode} /\ c.majority \in Nat
  BY DEF Chain
<1>2. c.pos \in UNION { [N -> Position] : N \in SUBSET Node }
  BY DEF Chain
<1>3. PICK N \in SUBSET Node : c.pos \in [N -> Position]
  BY <1>2, Zenon
<1> QED
  BY <1>1, <1>3 DEF Members

\* Replacing the positions of a chain gives a chain.
LEMMA ChainWithPositions ==
    ASSUME NEW c \in Chain, NEW N \in SUBSET Node, NEW p \in [N -> Position]
    PROVE  /\ [c EXCEPT !.pos = p] \in Chain
           /\ [c EXCEPT !.pos = p].active = c.active
           /\ [c EXCEPT !.pos = p].majority = c.majority
           /\ [c EXCEPT !.pos = p].pos = p
           /\ Members([c EXCEPT !.pos = p]) = N
<1>1. p \in UNION { [M -> Position] : M \in SUBSET Node }
  BY Zenon
<1>2. DOMAIN p = N
  OBVIOUS
<1> QED
  BY <1>1, <1>2 DEF Chain, Members

\* No chain is a chain, without members.
LEMMA NoChainIsChain ==
    NoChain \in Chain /\ Members(NoChain) = {} /\ ~HasChain(NoChain)
<1>1. << >> \in [{} -> Position] /\ DOMAIN << >> = {}
  OBVIOUS
<1>2. << >> \in UNION { [M -> Position] : M \in SUBSET Node }
  BY <1>1, Zenon
<1> QED
  BY <1>1, <1>2 DEF NoChain, Chain, Members, HasChain

\* A seqno is a natural, so are the bounds of the sets of seqnos.
LEMMA SeqnoFacts ==
    /\ MaxSeqno \in Nat
    /\ Seqno \subseteq Nat \ {0}
    /\ SeqnoOr0 = Seqno \cup {0}
    /\ SeqnoOr0 \subseteq Nat
  BY ConstantsAssumption DEF Seqno, SeqnoOr0

\* An iterator whose element is removed moves back to the last one that is
\* left, so iterators keep their order.
RepositionIt(it, T) == IF it \in T \cup {0} THEN it ELSE PrevIn(T, it)

\* A moved iterator points into what is left of trackedWrites, at the last
\* element not after the one it pointed to.
LEMMA RepositionItBack ==
    ASSUME NEW T \in SUBSET Seqno, NEW it \in SeqnoOr0
    PROVE  /\ RepositionIt(it, T) \in T \cup {0}
           /\ RepositionIt(it, T) \in SeqnoOr0
           /\ RepositionIt(it, T) <= it
           /\ \A s \in T : s <= it => s <= RepositionIt(it, T)
<1>1. /\ PrevIn(T, it) \in T \cup {0}
      /\ PrevIn(T, it) <= it
      /\ \A s \in T : s < it => s <= PrevIn(T, it)
  BY SeqnoFacts, PrevInIsPrev DEF Seqno
<1>2. CASE it \in T \cup {0}
  BY <1>2, SeqnoFacts DEF RepositionIt
<1>3. CASE it \notin T \cup {0}
  <2>1. RepositionIt(it, T) = PrevIn(T, it)
    BY <1>3 DEF RepositionIt
  <2>2. \A s \in T : s <= it => s < it
    BY <1>3, SeqnoFacts
  <2> QED
    BY <1>1, <2>1, <2>2, SeqnoFacts
<1> QED
  BY <1>2, <1>3

\* Moving iterators back keeps their order.
LEMMA RepositionItMonotone ==
    ASSUME NEW T \in SUBSET Seqno, NEW i \in SeqnoOr0, NEW j \in SeqnoOr0,
           i <= j
    PROVE  RepositionIt(i, T) <= RepositionIt(j, T)
<1>1. RepositionIt(i, T) \in T \cup {0} /\ RepositionIt(i, T) <= i
  BY RepositionItBack
<1>2. /\ RepositionIt(j, T) \in SeqnoOr0
      /\ \A s \in T : s <= j => s <= RepositionIt(j, T)
  BY RepositionItBack
<1>3. i \in Nat /\ j \in Nat /\ RepositionIt(j, T) \in Nat
  BY <1>2, SeqnoFacts
<1>4. CASE RepositionIt(i, T) = 0
  BY <1>3, <1>4
<1>5. CASE RepositionIt(i, T) \in T
  <2>1. RepositionIt(i, T) \in Nat
    BY <1>5, SeqnoFacts
  <2>2. RepositionIt(i, T) <= j
    BY <1>1, <1>3, <2>1
  <2> QED
    BY <1>2, <1>5, <2>2
<1> QED
  BY <1>1, <1>4, <1>5

\* Reposition moves every iterator that way, and changes nothing else.
LEMMA RepositionChain ==
    ASSUME NEW c \in Chain, NEW T \in SUBSET Seqno
    PROVE  /\ Reposition(c, T) \in Chain
           /\ Reposition(c, T).active = c.active
           /\ Reposition(c, T).majority = c.majority
           /\ Members(Reposition(c, T)) = Members(c)
           /\ \A n \in Members(c) :
                 Reposition(c, T).pos[n].it = RepositionIt(c.pos[n].it, T)
<1> DEFINE p == [n \in Members(c) |->
                   IF c.pos[n].it \in T \cup {0} THEN c.pos[n]
                   ELSE [c.pos[n] EXCEPT !.it = PrevIn(T, @)]]
<1>1. Members(c) \in SUBSET Node /\ c.pos \in [Members(c) -> Position]
  BY ChainParts
<1>2. ASSUME NEW n \in Members(c)
      PROVE  p[n] \in Position /\ p[n].it = RepositionIt(c.pos[n].it, T)
  <2>1. c.pos[n] \in Position
    BY <1>1
  <2>2. RepositionIt(c.pos[n].it, T) \in SeqnoOr0
    BY <2>1, RepositionItBack DEF Position
  <2> QED
    BY <2>1, <2>2 DEF Position, RepositionIt
<1>3. p \in [Members(c) -> Position]
  BY <1>2
<1>4. Reposition(c, T) = [c EXCEPT !.pos = p]
  BY DEF Reposition
<1> HIDE DEF p
<1>5. /\ [c EXCEPT !.pos = p] \in Chain
      /\ [c EXCEPT !.pos = p].active = c.active
      /\ [c EXCEPT !.pos = p].majority = c.majority
      /\ [c EXCEPT !.pos = p].pos = p
      /\ Members([c EXCEPT !.pos = p]) = Members(c)
  BY <1>1, <1>3, ChainWithPositions
<1> QED
  BY <1>2, <1>4, <1>5

\* A new chain has its first node for active, which is a member, and every
\* iterator at the start.
LEMMA ReplicationChainIsChain ==
    ASSUME NEW t \in Topologies, NEW i \in 1 .. Len(t)
    PROVE  /\ ReplicationChain(t[i]) \in Chain
           /\ ReplicationChain(t[i]).active = t[i][1]
           /\ t[i][1] \in Members(ReplicationChain(t[i]))
           /\ HasChain(ReplicationChain(t[i]))
           /\ \A n \in Members(ReplicationChain(t[i])) :
                 ReplicationChain(t[i]).pos[n] = [it |-> 0, lastWrite |-> 0]
<1> DEFINE nodes == t[i]
           N == { nodes[k] : k \in 1 .. Len(nodes) } \ {Undefined}
           p == [n \in N |-> [it |-> 0, lastWrite |-> 0]]
<1>1. t \in Seq(Seq(Node \cup {Undefined})) /\ t[i] # << >> /\ t[i][1] \in Node
  BY ConstantsAssumption
<1>2. nodes \in Seq(Node \cup {Undefined})
  BY <1>1
<1>3. Len(nodes) \in Nat /\ Len(nodes) # 0
  BY <1>1, <1>2
<1>4. N \in SUBSET Node
  BY <1>2
<1>5. nodes[1] \in N
  BY <1>1, <1>3, ConstantsAssumption
<1>6. p \in [N -> Position]
  BY SeqnoFacts DEF Position
<1>7. p \in UNION { [M -> Position] : M \in SUBSET Node }
  BY <1>4, <1>6, Zenon
<1>8. Len(nodes) \div 2 + 1 \in Nat
  <2>1. \A k \in Nat : k \div 2 + 1 \in Nat
    OBVIOUS
  <2> QED
    BY <1>3, <2>1, Zenon
<1>9. ReplicationChain(nodes) = [active |-> nodes[1],
                                 majority |-> Len(nodes) \div 2 + 1, pos |-> p]
  BY DEF ReplicationChain
<1>10. nodes[1] # NoNode /\ nodes[1] \in Node
  BY <1>1, ConstantsAssumption
<1> HIDE DEF N, nodes, p
<1>11. ReplicationChain(nodes) \in Chain
  BY <1>7, <1>8, <1>9, <1>10 DEF Chain
<1>12. Members(ReplicationChain(nodes)) = N /\ ReplicationChain(nodes).pos = p
  BY <1>6, <1>9 DEF Members
<1>13. \A n \in N : p[n] = [it |-> 0, lastWrite |-> 0]
  BY DEF p
<1>14. ReplicationChain(nodes).active = nodes[1]
  BY <1>9
<1>15. nodes = t[i]
  BY DEF nodes
<1> QED
  BY <1>5, <1>10, <1>11, <1>12, <1>13, <1>14, <1>15 DEF HasChain

\* The SyncWrite after an iterator is tracked, if there is one.
LEMMA NextTracked ==
    ASSUME tracked \subseteq Seqno, NEW it \in SeqnoOr0
    PROVE  /\ NextIn(tracked, it) \in SeqnoOr0
           /\ NextIn(tracked, it) # 0 =>
                 NextIn(tracked, it) \in tracked /\ NextIn(tracked, it) > it
           /\ \A s \in tracked : s > it =>
                 NextIn(tracked, it) # 0 /\ NextIn(tracked, it) <= s
<1>1. tracked \in SUBSET (Nat \ {0}) /\ it \in Nat
  BY SeqnoFacts
<1>2. /\ NextIn(tracked, it) \in tracked \cup {0}
      /\ NextIn(tracked, it) # 0 => NextIn(tracked, it) > it
      /\ \A s \in tracked : s > it =>
            NextIn(tracked, it) # 0 /\ NextIn(tracked, it) <= s
  BY <1>1, NextInIsNext
<1>3. NextIn(tracked, it) \in SeqnoOr0
  BY <1>2, SeqnoFacts
<1> QED
  BY <1>2, <1>3

\* Advancing a node moves its iterator to the next SyncWrite.
LEMMA AdvanceInChain ==
    ASSUME NEW c \in Chain, NEW n, tracked \subseteq Seqno
    PROVE  /\ AdvanceIn(c, n) \in Chain
           /\ AdvanceIn(c, n).active = c.active
           /\ AdvanceIn(c, n).majority = c.majority
           /\ Members(AdvanceIn(c, n)) = Members(c)
           /\ \A m \in Members(c) :
                 AdvanceIn(c, n).pos[m].it =
                    IF m = n THEN NextIn(tracked, c.pos[m].it) ELSE c.pos[m].it
<1> DEFINE next == NextIn(tracked, c.pos[n].it)
           p == [c.pos EXCEPT ![n] = [it |-> next, lastWrite |-> next]]
<1>1. Members(c) \in SUBSET Node /\ c.pos \in [Members(c) -> Position]
  BY ChainParts
<1>2. CASE n \notin Members(c)
  <2>1. AdvanceIn(c, n) = c
    BY <1>2 DEF AdvanceIn
  <2> QED
    BY <1>2, <2>1
<1>3. CASE n \in Members(c)
  <2>1. c.pos[n].it \in SeqnoOr0
    BY <1>1, <1>3 DEF Position
  <2>2. next \in SeqnoOr0
    BY <2>1, NextTracked
  <2>3. p \in [Members(c) -> Position]
    <3> HIDE DEF next
    <3> QED
      BY <1>1, <2>2 DEF Position
  <2>4. p[n].it = next
    <3> HIDE DEF next
    <3> QED
      BY <1>1, <1>3
  <2>5. \A m \in Members(c) : m # n => p[m] = c.pos[m]
    BY <1>1
  <2>6. AdvanceIn(c, n) = [c EXCEPT !.pos = p]
    BY <1>3 DEF AdvanceIn, Chain
  <2> HIDE DEF p
  <2>7. /\ [c EXCEPT !.pos = p] \in Chain
        /\ [c EXCEPT !.pos = p].active = c.active
        /\ [c EXCEPT !.pos = p].majority = c.majority
        /\ [c EXCEPT !.pos = p].pos = p
        /\ Members([c EXCEPT !.pos = p]) = Members(c)
    BY <1>1, <2>3, ChainWithPositions
  <2> QED
    BY <2>4, <2>5, <2>6, <2>7
<1> QED
  BY <1>2, <1>3

\* Copied positions are those of the old second chain, else of the old first
\* chain, else what they were.
CopiedPosition(c, n) ==
    IF n \in Members(secondChain) THEN secondChain.pos[n]
    ELSE IF n \in Members(firstChain) THEN firstChain.pos[n]
    ELSE c.pos[n]

\* copyChainPositions changes positions only, to those of the old chains.
LEMMA CopyChain ==
    ASSUME NEW c \in Chain, firstChain \in Chain, secondChain \in Chain
    PROVE  /\ CopyChainPositions(c) \in Chain
           /\ CopyChainPositions(c).active = c.active
           /\ Members(CopyChainPositions(c)) = Members(c)
           /\ \A n \in Members(c) :
                 CopyChainPositions(c).pos[n] = CopiedPosition(c, n)
<1> DEFINE p == [n \in Members(c) |-> CopiedPosition(c, n)]
<1>1. /\ Members(c) \in SUBSET Node /\ c.pos \in [Members(c) -> Position]
      /\ firstChain.pos \in [Members(firstChain) -> Position]
      /\ secondChain.pos \in [Members(secondChain) -> Position]
  BY ChainParts
<1>2. p \in [Members(c) -> Position]
  BY <1>1 DEF CopiedPosition
<1>3. CopyChainPositions(c) = [c EXCEPT !.pos = p]
  BY DEF CopyChainPositions, CopiedPosition
<1>4. \A n \in Members(c) : p[n] = CopiedPosition(c, n)
  OBVIOUS
<1> HIDE DEF p
<1>5. /\ [c EXCEPT !.pos = p] \in Chain
      /\ [c EXCEPT !.pos = p].active = c.active
      /\ [c EXCEPT !.pos = p].pos = p
      /\ Members([c EXCEPT !.pos = p]) = Members(c)
  BY <1>1, <1>2, ChainWithPositions
<1> QED
  BY <1>3, <1>4, <1>5

\* The active of the first chain is this node, a member; and there is no
\* second chain without a first.
ChainInv ==
    /\ firstChain.active \in {Self, NoNode}
    /\ HasChain(firstChain) => Self \in Members(firstChain)
    /\ ~HasChain(firstChain) =>
          Members(firstChain) = {} /\ Members(secondChain) = {}

\* makeChain returns a chain of this node whose iterators are at the start.
LEMMA MakeFirstIsChain ==
    ASSUME NEW t \in Topologies, firstChain \in Chain, ChainInv
    PROVE  /\ MakeFirstChain(t[1]) \in Chain
           /\ MakeFirstChain(t[1]).active = Self
           /\ Self \in Members(MakeFirstChain(t[1]))
           /\ \A n \in Members(MakeFirstChain(t[1])) :
                 MakeFirstChain(t[1]).pos[n].it = 0
<1> DEFINE new == ReplicationChain(t[1])
           p == [new.pos EXCEPT ![Self].lastWrite =
                    firstChain.pos[firstChain.active].lastWrite]
<1>1. t[1][1] = Self /\ 1 \in 1 .. Len(t)
  BY ConstantsAssumption
<1>2. /\ new \in Chain /\ new.active = Self /\ Self \in Members(new)
      /\ \A n \in Members(new) : new.pos[n] = [it |-> 0, lastWrite |-> 0]
  BY <1>1, ReplicationChainIsChain
<1>3. Members(new) \in SUBSET Node /\ new.pos \in [Members(new) -> Position]
  BY <1>2, ChainParts
<1> HIDE DEF new
<1>4. CASE ~HasChain(firstChain)
  <2>1. MakeFirstChain(t[1]) = new
    BY <1>4 DEF MakeFirstChain, new
  <2> QED
    BY <1>2, <2>1
<1>5. CASE HasChain(firstChain)
  <2>1. firstChain.pos[firstChain.active] \in Position
    BY <1>5, ChainParts DEF ChainInv, HasChain
  <2>2. p \in [Members(new) -> Position]
    BY <1>2, <1>3, <2>1 DEF Position
  <2>3. \A n \in Members(new) : p[n].it = 0
    BY <1>2, <1>3
  <2>4. MakeFirstChain(t[1]) = [new EXCEPT !.pos = p]
    BY <1>2, <1>5 DEF MakeFirstChain, new, Chain
  <2> HIDE DEF p
  <2>5. /\ [new EXCEPT !.pos = p] \in Chain
        /\ [new EXCEPT !.pos = p].active = new.active
        /\ [new EXCEPT !.pos = p].pos = p
        /\ Members([new EXCEPT !.pos = p]) = Members(new)
    BY <1>2, <1>3, <2>2, ChainWithPositions
  <2> QED
    BY <1>2, <2>3, <2>4, <2>5
<1> QED
  BY <1>4, <1>5

\* The fence of a null topology is the HPS or the persisted seqno, whichever
\* is higher.
LEMMA FenceFacts ==
    ASSUME highPreparedSeqno \in SeqnoOr0, persistenceSeqno \in SeqnoOr0
    PROVE  /\ Fence \in {highPreparedSeqno, persistenceSeqno}
           /\ Fence \in SeqnoOr0
           /\ highPreparedSeqno <= Fence
<1>1. {highPreparedSeqno, persistenceSeqno} \in SUBSET (0 .. MaxSeqno)
  BY DEF SeqnoOr0
<1>2. /\ Fence \in {highPreparedSeqno, persistenceSeqno}
      /\ \A y \in {highPreparedSeqno, persistenceSeqno} : y <= Fence
  BY <1>1, MaxOfBounded, SeqnoFacts DEF Fence
<1> QED
  BY <1>2

\* transitionFromNullTopology moves this node alone, to the fence at most.
LEMMA TransitionChain ==
    ASSUME NEW c \in Chain, c.active = Self, Self \in Members(c),
           highPreparedSeqno \in SeqnoOr0, persistenceSeqno \in SeqnoOr0,
           tracked \subseteq Seqno
    PROVE  /\ TransitionFromNull(c) \in Chain
           /\ TransitionFromNull(c).active = c.active
           /\ Members(TransitionFromNull(c)) = Members(c)
           /\ TransitionFromNull(c).pos[Self].it \in tracked \cup {0}
           /\ TransitionFromNull(c).pos[Self].it <= Fence
           /\ \A n \in Members(c) : n # Self =>
                 TransitionFromNull(c).pos[n] = c.pos[n]
<1> DEFINE i == IF Fenced = {} THEN 0 ELSE MaxOf(Fenced)
           p == [c.pos EXCEPT ![Self] = [it |-> i, lastWrite |-> Fence]]
<1>1. Fence \in SeqnoOr0
  BY FenceFacts
<1>2. i \in tracked \cup {0} /\ i <= Fence
  <2>1. CASE Fenced = {}
    BY <2>1, <1>1, SeqnoFacts
  <2>2. CASE Fenced # {}
    <3>1. Fenced \in SUBSET (0 .. MaxSeqno)
      BY SeqnoFacts, Zenon DEF Fenced, SeqnoOr0
    <3>2. MaxOf(Fenced) \in Fenced
      BY <2>2, <3>1, MaxOfBounded, SeqnoFacts
    <3> QED
      BY <2>2, <3>2 DEF Fenced
  <2> QED
    BY <2>1, <2>2
<1> HIDE DEF i
<1>3. i \in SeqnoOr0
  BY <1>2, SeqnoFacts
<1>4. Members(c) \in SUBSET Node /\ c.pos \in [Members(c) -> Position]
  BY ChainParts
<1>5. p \in [Members(c) -> Position]
  BY <1>1, <1>3, <1>4 DEF Position
<1>6. p[Self].it = i /\ \A n \in Members(c) : n # Self => p[n] = c.pos[n]
  BY <1>4
<1>7. TransitionFromNull(c) = [c EXCEPT !.pos = p]
  BY DEF TransitionFromNull, Chain, i
<1> HIDE DEF p
<1>8. /\ [c EXCEPT !.pos = p] \in Chain
      /\ [c EXCEPT !.pos = p].active = c.active
      /\ [c EXCEPT !.pos = p].pos = p
      /\ Members([c EXCEPT !.pos = p]) = Members(c)
  BY <1>4, <1>5, ChainWithPositions
<1> QED
  BY <1>2, <1>6, <1>7, <1>8

-----------------------------------------------------------------------------
(* SyncWrites *)

\* Two states of a SyncWrite that differ in its status, chains and
\* ack-counters only.
SameRequest(w, v) ==
    /\ w.level = v.level
    /\ w.cookie = v.cookie

\* An ack changes the counters of a SyncWrite and nothing of its request.
LEMMA AckType ==
    ASSUME NEW w \in SyncWrite, NEW n, NEW first, NEW second
    PROVE  Ack(w, n, first, second) \in SyncWrite
           /\ SameRequest(Ack(w, n, first, second), w)
<1> DEFINE i == IF n \in Members(first) THEN 1 ELSE 0
           j == IF n \in Members(second) THEN 1 ELSE 0
<1>1. i \in Nat /\ j \in Nat
  OBVIOUS
<1>2. Ack(w, n, first, second) = [w EXCEPT !.ack1 = @ + i, !.ack2 = @ + j]
  BY DEF Ack
<1> HIDE DEF i, j
<1>3. w.ack1 + i \in Nat /\ w.ack2 + j \in Nat
  BY <1>1 DEF SyncWrite
<1>4. [w EXCEPT !.ack1 = w.ack1 + i, !.ack2 = w.ack2 + j] \in SyncWrite
  BY <1>3 DEF SyncWrite
<1>5. SameRequest([w EXCEPT !.ack1 = w.ack1 + i, !.ack2 = w.ack2 + j], w)
  BY DEF SyncWrite, SameRequest
<1> QED
  BY <1>2, <1>4, <1>5

\* resetChains leaves the request of a SyncWrite alone.
LEMMA ResetChainsType ==
    ASSUME NEW w \in SyncWrite
    PROVE  ResetChains(w) \in SyncWrite /\ SameRequest(ResetChains(w), w)
  BY DEF ResetChains, SyncWrite, SameRequest

\* Resolving a SyncWrite leaves its request alone.
LEMMA ResolveType ==
    ASSUME NEW w \in SyncWrite, NEW status \in Statuses
    PROVE  /\ ResetChains([w EXCEPT !.status = status]) \in SyncWrite
           /\ SameRequest(ResetChains([w EXCEPT !.status = status]), w)
  BY DEF ResetChains, SyncWrite, SameRequest

\* The counter that resetTopology computes is a number.
LEMMA AckCountType ==
    ASSUME NEW w \in SyncWrite, NEW s, NEW c \in Chain
    PROVE  AckCountForNewChain(w, s, c) \in Nat
<1>1. IsFiniteSet(Node)
  BY ConstantsAssumption
<1>2. { n \in Members(c) : \/ HasAcked(firstChain, n, s)
                           \/ HasAcked(secondChain, n, s) } \in SUBSET Node
  BY ChainParts
<1>3. Cardinality({ n \in Members(c) : \/ HasAcked(firstChain, n, s)
                           \/ HasAcked(secondChain, n, s) }) \in Nat
  BY <1>1, <1>2, FS_Subset, FS_CardinalityType
<1> QED
  BY <1>3 DEF AckCountForNewChain

\* resetTopology leaves the request of a SyncWrite alone.
LEMMA ResetTopologyType ==
    ASSUME NEW w \in SyncWrite, NEW s, NEW c \in Chain, NEW d \in Chain
    PROVE  /\ ResetTopology(w, s, c, d) \in SyncWrite
           /\ SameRequest(ResetTopology(w, s, c, d), w)
<1>1. AckCountForNewChain(w, s, c) \in Nat /\ AckCountForNewChain(w, s, d) \in Nat
  BY AckCountType
<1> QED
  BY <1>1 DEF ResetTopology, SyncWrite, SameRequest

\* Updates of the SyncWrites that change no request.
SameRequests(w, v) == \A s \in Seqno : SameRequest(w[s], v[s])

\* Advancing a node changes the counters of at most one SyncWrite.
LEMMA AckedWritesType ==
    ASSUME sw \in [Seqno -> SyncWrite], NEW n
    PROVE  AckedWrites(n) \in [Seqno -> SyncWrite] /\ SameRequests(AckedWrites(n), sw)
<1>1. CASE AckedBy(n) = 0
  BY <1>1 DEF AckedWrites, SameRequests, SameRequest
<1>2. CASE AckedBy(n) # 0
  <2> DEFINE a == AckedBy(n)
             v == Ack(sw[a], n, firstChain, secondChain)
  <2>1. AckedWrites(n) = [sw EXCEPT ![a] = v]
    BY <1>2 DEF AckedWrites
  <2>2. a \in Seqno => v \in SyncWrite /\ SameRequest(v, sw[a])
    BY AckType
  <2> HIDE DEF a, v
  <2> QED
    BY <2>1, <2>2 DEF SameRequests, SameRequest
<1> QED
  BY <1>1, <1>2

\* The greatest of some tracked SyncWrites, and the expiry to wait for.
LEMMA MaxOfTracked ==
    ASSUME NEW S \in SUBSET Seqno, S # {}
    PROVE  MaxOf(S) \in S /\ MaxOf(S) \in SeqnoOr0 /\ \A y \in S : y <= MaxOf(S)
<1>1. S \in SUBSET (0 .. MaxSeqno)
  BY SeqnoFacts, Zenon DEF SeqnoOr0
<1> QED
  BY <1>1, MaxOfBounded, SeqnoFacts

\* The timeout task waits for a SyncWrite or for none.
LEMMA NextExpiryType ==
    ASSUME NEW T \in SUBSET Seqno, NEW w
    PROVE  NextExpiry(T, w) \in SeqnoOr0
<1>1. T \in SUBSET (Nat \ {0})
  BY SeqnoFacts
<1>2. Front(T) \in T \cup {0}
  BY <1>1, FrontIsFirst
<1> QED
  BY <1>2, SeqnoFacts DEF NextExpiry

\* What resolving some SyncWrites does.
LEMMA ResolveWritesEffect ==
    ASSUME tracked \subseteq Seqno, timer \in SeqnoOr0,
           highEnqueuedSeqno \in SeqnoOr0,
           NEW S \in SUBSET tracked, NEW status \in Statuses,
           NEW w \in [Seqno -> SyncWrite], NEW c \in Chain, NEW d \in Chain,
           ResolveWrites(S, status, w, c, d)
    PROVE  /\ tracked' = tracked \ S
           /\ resolved' = resolved \cup S
           /\ sw' \in [Seqno -> SyncWrite] /\ SameRequests(sw', w)
           /\ firstChain' = Reposition(c, tracked \ S) /\ firstChain' \in Chain
           /\ secondChain' = Reposition(d, tracked \ S) /\ secondChain' \in Chain
           /\ timer' \in SeqnoOr0
           /\ highEnqueuedSeqno' \in SeqnoOr0
<1> DEFINE T == tracked \ S
<1>1. /\ tracked' = T
      /\ sw' = [s \in Seqno |-> IF s \in S
                  THEN ResetChains([w[s] EXCEPT !.status = status]) ELSE w[s]]
      /\ firstChain' = Reposition(c, T)
      /\ secondChain' = Reposition(d, T)
      /\ timer' = IF Front(tracked) \in S THEN NextExpiry(T, w) ELSE timer
      /\ resolved' = resolved \cup S
      /\ highEnqueuedSeqno' = IF S = {} THEN highEnqueuedSeqno ELSE MaxOf(S)
  BY DEF ResolveWrites
<1>2. sw' \in [Seqno -> SyncWrite] /\ SameRequests(sw', w)
  <2>1. \A s \in Seqno :
           /\ ResetChains([w[s] EXCEPT !.status = status]) \in SyncWrite
           /\ SameRequest(ResetChains([w[s] EXCEPT !.status = status]), w[s])
    BY ResolveType
  <2>2. \A s \in Seqno : SameRequest(w[s], w[s])
    BY DEF SameRequest
  <2> QED
    BY <1>1, <2>1, <2>2 DEF SameRequests
<1>3. T \in SUBSET Seqno
  OBVIOUS
<1>4. Reposition(c, T) \in Chain /\ Reposition(d, T) \in Chain
  BY <1>3, RepositionChain
<1>5. NextExpiry(T, w) \in SeqnoOr0
  BY <1>3, NextExpiryType
<1>6. S # {} => MaxOf(S) \in SeqnoOr0
  BY MaxOfTracked
<1> QED
  BY <1>1, <1>2, <1>4, <1>5, <1>6

-----------------------------------------------------------------------------
(* Type correctness *)

\* The chains after a warmup.
LEMMA AckedBySelfChain ==
    ASSUME NEW c \in Chain, highSeqno \in SeqnoOr0
    PROVE  /\ AckedBySelf(c) \in Chain
           /\ AckedBySelf(c).active = c.active
           /\ Members(AckedBySelf(c)) = Members(c)
           /\ \A n \in Members(c) : AckedBySelf(c).pos[n] =
                 IF n = Self THEN [it |-> highSeqno, lastWrite |-> highSeqno]
                 ELSE c.pos[n]
<1> DEFINE p == [n \in Members(c) |->
                   IF n = Self THEN [it |-> highSeqno, lastWrite |-> highSeqno]
                   ELSE c.pos[n]]
<1>1. Members(c) \in SUBSET Node /\ c.pos \in [Members(c) -> Position]
  BY ChainParts
<1>2. p \in [Members(c) -> Position]
  BY <1>1 DEF Position
<1>3. AckedBySelf(c) = [c EXCEPT !.pos = p]
  BY DEF AckedBySelf
<1>4. \A n \in Members(c) : p[n] =
         IF n = Self THEN [it |-> highSeqno, lastWrite |-> highSeqno]
         ELSE c.pos[n]
  OBVIOUS
<1> HIDE DEF p
<1>5. /\ [c EXCEPT !.pos = p] \in Chain
      /\ [c EXCEPT !.pos = p].active = c.active
      /\ [c EXCEPT !.pos = p].pos = p
      /\ Members([c EXCEPT !.pos = p]) = Members(c)
  BY <1>1, <1>2, ChainWithPositions
<1> QED
  BY <1>3, <1>4, <1>5

\* The three constructors establish the types and a well-formed first chain.
LEMMA InitType == Init => TypeOK /\ ChainInv
<1> USE SeqnoFacts, NoChainIsChain
<1> SUFFICES ASSUME Init PROVE TypeOK /\ ChainInv
  OBVIOUS
<1>1. InitCommon
  BY DEF Init
<1>2. NoSyncWrite \in SyncWrite
  BY DEF NoSyncWrite, SyncWrite, AllLevels, Statuses
<1>3. ASSUME /\ highSeqno \in SeqnoOr0 /\ persistenceSeqno \in SeqnoOr0
             /\ sw \in [Seqno -> SyncWrite] /\ tracked \subseteq Seqno
             /\ firstChain \in Chain /\ secondChain \in Chain
             /\ lastTrackedSeqno \in SeqnoOr0 /\ highPreparedSeqno \in SeqnoOr0
             /\ highCompletedSeqno \in SeqnoOr0
      PROVE  TypeOK
  BY <1>1, <1>3, ConstantsAssumption DEF InitCommon, TypeOK, NoOp, OpType, ConsumerType, Responses, Outcomes
<1>4. CASE InitFresh
  <2>1. TypeOK
    BY <1>2, <1>3, <1>4 DEF InitFresh
  <2>2. ChainInv
    BY <1>4 DEF InitFresh, ChainInv, NoChain, HasChain
  <2> QED
    BY <2>1, <2>2
<1>5. CASE InitPassive
  <2>1. /\ highSeqno \in SeqnoOr0 /\ persistenceSeqno \in SeqnoOr0
        /\ highPreparedSeqno \in SeqnoOr0 /\ highCompletedSeqno \in SeqnoOr0
        /\ lastTrackedSeqno \in SeqnoOr0
    <3>1. /\ highSeqno \in Seqno /\ persistenceSeqno \in 0 .. highSeqno
          /\ highPreparedSeqno \in 0 .. highSeqno
          /\ highCompletedSeqno \in 0 .. highSeqno
          /\ lastTrackedSeqno = highSeqno
      BY <1>5, Zenon DEF InitPassive
    <3> QED
      BY <3>1 DEF Seqno, SeqnoOr0
  <2>2. tracked \subseteq Seqno
    <3>1. {highPreparedSeqno, highCompletedSeqno} \in SUBSET Nat
      BY <2>1
    <3>2. MinOf({highPreparedSeqno, highCompletedSeqno}) \in Nat
      BY <3>1, MinOfNat
    <3>3. tracked = MinOf({highPreparedSeqno, highCompletedSeqno}) + 1 .. highSeqno
      BY <1>5, Zenon DEF InitPassive
    <3> QED
      BY <2>1, <3>2, <3>3 DEF Seqno, SeqnoOr0
  <2>3. sw \in [Seqno -> SyncWrite]
    <3>1. PICK level \in [Seqno -> Levels], finite \in SUBSET Seqno :
            sw = [s \in Seqno |->
                 IF s \notin tracked THEN NoSyncWrite
                 ELSE [NoSyncWrite EXCEPT
                         !.level = level[s],
                         !.infinite = s \notin finite,
                         !.status = IF s <= highCompletedSeqno
                                    THEN "Completed" ELSE "Pending"]]
      BY <1>5, Zenon DEF InitPassive
    <3>2. \A s \in Seqno : level[s] \in AllLevels
      BY ConstantsAssumption
    <3>3. \A s \in Seqno : [NoSyncWrite EXCEPT
                         !.level = level[s],
                         !.infinite = s \notin finite,
                         !.status = IF s <= highCompletedSeqno
                                    THEN "Completed" ELSE "Pending"] \in SyncWrite
      BY <1>2, <3>2 DEF SyncWrite, Statuses
    <3> QED
      BY <1>2, <3>1, <3>3
  <2>4. firstChain = NoChain /\ secondChain = NoChain
    BY <1>5 DEF InitPassive
  <2> QED
    BY <1>3, <2>1, <2>2, <2>3, <2>4 DEF ChainInv, NoChain, HasChain
<1>6. CASE InitWarmup
  <2>1. /\ highSeqno \in Seqno /\ persistenceSeqno = highSeqno
        /\ highCompletedSeqno \in 0 .. highSeqno - 1
        /\ tracked = highCompletedSeqno + 1 .. highSeqno
        /\ lastTrackedSeqno = highSeqno /\ highPreparedSeqno = highSeqno
    BY <1>6, Zenon DEF InitWarmup
  <2>2. /\ {highSeqno, persistenceSeqno, highCompletedSeqno, lastTrackedSeqno,
            highPreparedSeqno} \subseteq SeqnoOr0
        /\ tracked \subseteq Seqno
    BY <2>1 DEF Seqno, SeqnoOr0
  <2>3. PICK t \in Topologies :
           /\ firstChain = AckedBySelf(ReplicationChain(t[1]))
           /\ secondChain = IF Len(t) = 1 THEN NoChain
                            ELSE AckedBySelf(ReplicationChain(t[2]))
    BY <1>6, Zenon DEF InitWarmup
  <2>4. 1 \in 1 .. Len(t) /\ (Len(t) # 1 => 2 \in 1 .. Len(t)) /\ t[1][1] = Self
    <3>1. Len(t) \in 1 .. 2 /\ t[1][1] = Self
      BY ConstantsAssumption
    <3>2. \A l \in 1 .. 2 : 1 \in 1 .. l /\ (l # 1 => 2 \in 1 .. l)
      OBVIOUS
    <3> QED
      BY <3>1, <3>2, Zenon
  <2>5. /\ firstChain \in Chain /\ firstChain.active = Self
        /\ Self \in Members(firstChain)
    <3>1. /\ ReplicationChain(t[1]) \in Chain
          /\ ReplicationChain(t[1]).active = Self
          /\ Self \in Members(ReplicationChain(t[1]))
      BY <2>4, ReplicationChainIsChain
    <3> QED
      BY <2>2, <2>3, <3>1, AckedBySelfChain
  <2>6. secondChain \in Chain
    BY <2>2, <2>3, <2>4, ReplicationChainIsChain, AckedBySelfChain
  <2>7. sw \in [Seqno -> SyncWrite]
    <3>1. PICK level \in [Seqno -> Levels] :
             sw = [s \in Seqno |->
                 IF s \notin tracked THEN NoSyncWrite
                 ELSE Ack([NoSyncWrite EXCEPT !.level = level[s],
                                              !.chained = TRUE],
                          Self, firstChain, secondChain)]
      BY <1>6, Zenon DEF InitWarmup
    <3>2. \A s \in Seqno : level[s] \in AllLevels
      BY ConstantsAssumption
    <3>3. \A s \in Seqno :
             [NoSyncWrite EXCEPT !.level = level[s], !.chained = TRUE] \in SyncWrite
      BY <1>2, <3>2 DEF SyncWrite
    <3>4. \A s \in Seqno :
             Ack([NoSyncWrite EXCEPT !.level = level[s], !.chained = TRUE],
                 Self, firstChain, secondChain) \in SyncWrite
      BY <3>3, AckType
    <3> QED
      BY <1>2, <3>1, <3>4
  <2>8. TypeOK
    BY <1>3, <2>2, <2>5, <2>6, <2>7
  <2>9. ChainInv
    BY <2>5, ConstantsAssumption DEF ChainInv, HasChain
  <2> QED
    BY <2>8, <2>9
<1> QED
  BY <1>4, <1>5, <1>6 DEF Init

-----------------------------------------------------------------------------
(* What the larger operations do *)

\* Some SyncWrites move from trackedWrites to the resolvedQueue.
Moved == \E S \in SUBSET tracked : tracked' = tracked \ S /\ resolved' = resolved \cup S

\* What advancing a node by one SyncWrite does to lists, chains and timer.
LEMMA AdvanceEffect ==
    ASSUME TypeOK, NEW n, NEW check, NEW expects, NEW fails,
           AdvanceAndResolve(n, check, expects, fails)
    PROVE  /\ Moved /\ tracked' \subseteq Seqno /\ resolved' \subseteq Seqno
           /\ sw' \in [Seqno -> SyncWrite] /\ SameRequests(sw', sw)
           /\ firstChain' = Reposition(AdvanceIn(firstChain, n), tracked')
           /\ secondChain' = Reposition(AdvanceIn(secondChain, n), tracked')
           /\ firstChain' \in Chain /\ secondChain' \in Chain
           /\ firstChain'.active = firstChain.active
           /\ Members(firstChain') = Members(firstChain)
           /\ Members(secondChain') = Members(secondChain)
           /\ timer' \in SeqnoOr0 /\ highEnqueuedSeqno' \in SeqnoOr0
<1> DEFINE c == AdvanceIn(firstChain, n)
           d == AdvanceIn(secondChain, n)
           w == AckedWrites(n)
           S == { s \in {check} \cap tracked : IsSatisfied(w[s], s, c, d) }
<1>1. ResolveWrites(S, "ToCommit", w, c, d)
  BY DEF AdvanceAndResolve
<1>2. /\ tracked \subseteq Seqno /\ timer \in SeqnoOr0
      /\ highEnqueuedSeqno \in SeqnoOr0 /\ resolved \subseteq Seqno
      /\ sw \in [Seqno -> SyncWrite]
      /\ firstChain \in Chain /\ secondChain \in Chain
  BY DEF TypeOK
<1>3. /\ c \in Chain /\ c.active = firstChain.active
      /\ Members(c) = Members(firstChain)
  BY <1>2, AdvanceInChain
<1>4. d \in Chain /\ Members(d) = Members(secondChain)
  BY <1>2, AdvanceInChain
<1>5. w \in [Seqno -> SyncWrite] /\ SameRequests(w, sw)
  BY <1>2, AckedWritesType
<1>6. S \in SUBSET tracked /\ "ToCommit" \in Statuses
  BY DEF Statuses
<1> HIDE DEF S, w, c, d
<1>7. /\ tracked' = tracked \ S
      /\ resolved' = resolved \cup S
      /\ sw' \in [Seqno -> SyncWrite] /\ SameRequests(sw', w)
      /\ firstChain' = Reposition(c, tracked \ S) /\ firstChain' \in Chain
      /\ secondChain' = Reposition(d, tracked \ S) /\ secondChain' \in Chain
      /\ timer' \in SeqnoOr0
      /\ highEnqueuedSeqno' \in SeqnoOr0
  BY <1>1, <1>2, <1>3, <1>4, <1>5, <1>6, ResolveWritesEffect
<1>8. tracked \ S \in SUBSET Seqno
  BY <1>2
<1>9. /\ Reposition(c, tracked \ S).active = c.active
      /\ Members(Reposition(c, tracked \ S)) = Members(c)
      /\ Members(Reposition(d, tracked \ S)) = Members(d)
  BY <1>3, <1>4, <1>8, RepositionChain
<1>10. SameRequests(sw', sw)
  BY <1>5, <1>7 DEF SameRequests, SameRequest
<1>11. Moved
  BY <1>6, <1>7, Zenon DEF Moved
<1>12. tracked' \subseteq Seqno /\ resolved' \subseteq Seqno
  BY <1>2, <1>6, <1>7, Zenon
<1>13. /\ firstChain' = Reposition(AdvanceIn(firstChain, n), tracked')
       /\ secondChain' = Reposition(AdvanceIn(secondChain, n), tracked')
  BY <1>7, Zenon DEF c, d
<1>14. /\ firstChain'.active = firstChain.active
       /\ Members(firstChain') = Members(firstChain)
       /\ Members(secondChain') = Members(secondChain)
  BY <1>3, <1>4, <1>7, <1>9, Zenon
<1> QED
  BY <1>7, <1>10, <1>11, <1>12, <1>13, <1>14, Zenon

\* The chains a topology change builds, before the positions are copied.
NewFirst(t) ==
    IF ~HasChain(firstChain) /\ tracked # {}
    THEN TransitionFromNull(MakeFirstChain(t[1])) ELSE MakeFirstChain(t[1])
NewSecond(t) == IF Len(t) = 2 THEN ReplicationChain(t[2]) ELSE NoChain

\* The chains that setReplicationTopology builds before it copies positions.
LEMMA NewChains ==
    ASSUME TypeOK, ChainInv, NEW t \in Topologies
    PROVE  /\ NewFirst(t) \in Chain /\ NewFirst(t).active = Self
           /\ Self \in Members(NewFirst(t))
           /\ \A n \in Members(NewFirst(t)) :
                 /\ NewFirst(t).pos[n].it \in tracked \cup {0}
                 /\ n # Self \/ HasChain(firstChain) \/ tracked = {}
                    => NewFirst(t).pos[n].it = 0
                 /\ NewFirst(t).pos[n].it <= Fence
           /\ NewSecond(t) \in Chain
           /\ \A n \in Members(NewSecond(t)) : NewSecond(t).pos[n].it = 0
<1> DEFINE m == MakeFirstChain(t[1])
<1>1. /\ tracked \subseteq Seqno /\ firstChain \in Chain
      /\ highPreparedSeqno \in SeqnoOr0 /\ persistenceSeqno \in SeqnoOr0
  BY DEF TypeOK
<1>2. /\ m \in Chain /\ m.active = Self /\ Self \in Members(m)
      /\ \A n \in Members(m) : m.pos[n].it = 0
  BY <1>1, MakeFirstIsChain
<1>3. Fence \in Nat
  BY <1>1, FenceFacts, SeqnoFacts
<1> HIDE DEF m
<1>4. /\ TransitionFromNull(m) \in Chain
      /\ TransitionFromNull(m).active = Self
      /\ Members(TransitionFromNull(m)) = Members(m)
      /\ TransitionFromNull(m).pos[Self].it \in tracked \cup {0}
      /\ TransitionFromNull(m).pos[Self].it <= Fence
      /\ \A n \in Members(m) : n # Self =>
                 TransitionFromNull(m).pos[n] = m.pos[n]
  BY <1>1, <1>2, TransitionChain
<1>5. /\ NewFirst(t) \in Chain /\ NewFirst(t).active = Self
      /\ Self \in Members(NewFirst(t))
      /\ \A n \in Members(NewFirst(t)) :
            /\ NewFirst(t).pos[n].it \in tracked \cup {0}
            /\ n # Self \/ HasChain(firstChain) \/ tracked = {}
               => NewFirst(t).pos[n].it = 0
            /\ NewFirst(t).pos[n].it <= Fence
  <2>1. CASE ~HasChain(firstChain) /\ tracked # {}
    <3>1. NewFirst(t) = TransitionFromNull(m)
      BY <2>1 DEF NewFirst, m
    <3> QED
      <4>1. ASSUME NEW n \in Members(m)
            PROVE  /\ NewFirst(t).pos[n].it \in tracked \cup {0}
                   /\ n # Self => NewFirst(t).pos[n].it = 0
                   /\ NewFirst(t).pos[n].it <= Fence
        <5>1. CASE n = Self
          BY <1>4, <3>1, <5>1, Zenon
        <5>2. CASE n # Self
          <6>1. NewFirst(t).pos[n].it = 0
            BY <1>2, <1>4, <3>1, <5>2
          <6> QED
            BY <1>3, <6>1
        <5> QED
          BY <5>1, <5>2
      <4> QED
        BY <1>2, <1>4, <2>1, <3>1, <4>1, Zenon
  <2>2. CASE ~(~HasChain(firstChain) /\ tracked # {})
    <3>1. NewFirst(t) = m
      BY <2>2 DEF NewFirst, m
    <3> QED
      <4>1. 0 <= Fence
        BY <1>3
      <4> QED
        BY <1>2, <2>2, <3>1, <4>1, Zenon
  <2> QED
    BY <2>1, <2>2
<1>6. /\ NewSecond(t) \in Chain
      /\ \A n \in Members(NewSecond(t)) : NewSecond(t).pos[n].it = 0
  <2>1. CASE Len(t) = 2
    <3>1. NewSecond(t) = ReplicationChain(t[2]) /\ 2 \in 1 .. Len(t)
      BY <2>1 DEF NewSecond
    <3>2. /\ ReplicationChain(t[2]) \in Chain
          /\ \A n \in Members(ReplicationChain(t[2])) :
                ReplicationChain(t[2]).pos[n] = [it |-> 0, lastWrite |-> 0]
      BY <3>1, ReplicationChainIsChain
    <3> QED
      BY <3>1, <3>2
  <2>2. CASE Len(t) # 2
    BY <2>2, NoChainIsChain DEF NewSecond
  <2> QED
    BY <2>1, <2>2
<1> QED
  BY <1>5, <1>6

\* What setReplicationTopology does before the queued acks are performed.
LEMMA TopologyEffect ==
    ASSUME TypeOK, ChainInv, NEW t \in Topologies, SetReplicationTopology(t)
    PROVE  /\ Moved /\ tracked' \subseteq Seqno /\ resolved' \subseteq Seqno
           /\ sw' \in [Seqno -> SyncWrite] /\ SameRequests(sw', sw)
           /\ firstChain' = Reposition(CopyChainPositions(NewFirst(t)), tracked')
           /\ secondChain' = Reposition(CopyChainPositions(NewSecond(t)), tracked')
           /\ firstChain' \in Chain /\ secondChain' \in Chain
           /\ firstChain'.active = Self
           /\ Members(firstChain') = Members(NewFirst(t))
           /\ Members(secondChain') = Members(NewSecond(t))
           /\ timer' \in SeqnoOr0 /\ highEnqueuedSeqno' \in SeqnoOr0
           /\ highPreparedSeqno' =
                IF ~HasChain(firstChain) /\ tracked # {} THEN Fence
                ELSE highPreparedSeqno
           /\ op' = Op("topo")
<1> DEFINE first  == MakeFirstChain(t[1])
           second == NewSecond(t)
           fromNull == ~HasChain(firstChain) /\ tracked # {}
           reset  == [s \in Seqno |-> IF s \in tracked
                        THEN ResetTopology(sw[s], s, first, second) ELSE sw[s]]
           w      == [s \in Seqno |-> IF fromNull /\ s \in Fenced
                        THEN Ack(reset[s], first.active, first, second)
                        ELSE reset[s]]
           S      == AbortNoLongerPossible(first, second)
           c      == CopyChainPositions(NewFirst(t))
           d      == CopyChainPositions(NewSecond(t))
<1>1. /\ ResolveWrites(S, "ToAbort", w, c, d)
      /\ highPreparedSeqno' = IF fromNull THEN Fence ELSE highPreparedSeqno
      /\ op' = Op("topo")
  BY DEF SetReplicationTopology, NewFirst, NewSecond
<1>2. /\ tracked \subseteq Seqno /\ timer \in SeqnoOr0
      /\ highEnqueuedSeqno \in SeqnoOr0 /\ resolved \subseteq Seqno
      /\ sw \in [Seqno -> SyncWrite]
      /\ firstChain \in Chain /\ secondChain \in Chain
  BY DEF TypeOK
<1>3. /\ NewFirst(t) \in Chain /\ NewFirst(t).active = Self
      /\ second \in Chain
  BY NewChains
<1>4. first \in Chain
  BY <1>2, MakeFirstIsChain
<1>5. S \in SUBSET tracked /\ "ToAbort" \in Statuses
  BY DEF AbortNoLongerPossible, Statuses
<1>6. /\ c \in Chain /\ c.active = Self /\ Members(c) = Members(NewFirst(t))
      /\ d \in Chain /\ Members(d) = Members(NewSecond(t))
  BY <1>2, <1>3, CopyChain
<1> HIDE DEF first, second, fromNull, c, d, S
<1>7. reset \in [Seqno -> SyncWrite] /\ SameRequests(reset, sw)
  <2>1. \A s \in Seqno : /\ ResetTopology(sw[s], s, first, second) \in SyncWrite
                         /\ SameRequest(ResetTopology(sw[s], s, first, second), sw[s])
    BY <1>2, <1>3, <1>4, ResetTopologyType
  <2>2. \A s \in Seqno : SameRequest(sw[s], sw[s])
    BY DEF SameRequest
  <2> QED
    BY <1>2, <2>1, <2>2 DEF SameRequests
<1>8. w \in [Seqno -> SyncWrite] /\ SameRequests(w, reset)
  <2> HIDE DEF reset
  <2>1. \A s \in Seqno :
           /\ Ack(reset[s], first.active, first, second) \in SyncWrite
           /\ SameRequest(Ack(reset[s], first.active, first, second), reset[s])
    BY <1>7, AckType
  <2>2. \A s \in Seqno : SameRequest(reset[s], reset[s])
    BY DEF SameRequest
  <2> QED
    BY <1>7, <2>1, <2>2 DEF SameRequests
<1> HIDE DEF w, reset
<1>9. /\ tracked' = tracked \ S
      /\ resolved' = resolved \cup S
      /\ sw' \in [Seqno -> SyncWrite] /\ SameRequests(sw', w)
      /\ firstChain' = Reposition(c, tracked \ S) /\ firstChain' \in Chain
      /\ secondChain' = Reposition(d, tracked \ S) /\ secondChain' \in Chain
      /\ timer' \in SeqnoOr0
      /\ highEnqueuedSeqno' \in SeqnoOr0
  BY <1>1, <1>2, <1>5, <1>6, <1>8, ResolveWritesEffect
<1>10. tracked \ S \in SUBSET Seqno
  BY <1>2
<1>11. /\ Reposition(c, tracked \ S).active = c.active
       /\ Members(Reposition(c, tracked \ S)) = Members(c)
       /\ Members(Reposition(d, tracked \ S)) = Members(d)
  BY <1>6, <1>10, RepositionChain
<1>12. SameRequests(sw', sw)
  BY <1>7, <1>8, <1>9 DEF SameRequests, SameRequest
<1>13. Moved /\ tracked' \subseteq Seqno /\ resolved' \subseteq Seqno
  BY <1>2, <1>5, <1>9, Zenon DEF Moved
<1>14. /\ firstChain' = Reposition(CopyChainPositions(NewFirst(t)), tracked')
       /\ secondChain' = Reposition(CopyChainPositions(NewSecond(t)), tracked')
  BY <1>9, Zenon DEF c, d
<1>15. /\ firstChain'.active = Self
       /\ Members(firstChain') = Members(NewFirst(t))
       /\ Members(secondChain') = Members(NewSecond(t))
  BY <1>6, <1>9, <1>11, Zenon
<1>16. highPreparedSeqno' = IF ~HasChain(firstChain) /\ tracked # {} THEN Fence
                            ELSE highPreparedSeqno
  BY <1>1 DEF fromNull
<1> QED
  BY <1>1, <1>9, <1>12, <1>13, <1>14, <1>15, <1>16, Zenon

-----------------------------------------------------------------------------
\* What the start of updateHighPreparedSeqno does.
LEMMA StartUpdateType ==
    ASSUME TypeOK, ChainInv, StartUpdateHPS
    PROVE  /\ tracked' \subseteq tracked
           /\ highPreparedSeqno' \in SeqnoOr0
           /\ op' \in OpType
           /\ op' # op => op' = Op("hpsPersisted")
           /\ notified' \in BOOLEAN
           /\ HasChain(firstChain) => highPreparedSeqno' = highPreparedSeqno
           /\ HasChain(firstChain) => tracked' = tracked
<1>1. NullTopologyPassed \in SUBSET tracked /\ tracked \in SUBSET Seqno
  BY DEF NullTopologyPassed, TypeOK
<1>2. NullTopologyPassed # {} => MaxOf(NullTopologyPassed) \in SeqnoOr0
  BY <1>1, MaxOfTracked
<1>3. Op("hpsPersisted") \in OpType
  BY SeqnoFacts DEF Op, NoOp, OpType
<1>4. CASE tracked # {} /\ HasChain(firstChain)
  BY <1>3, <1>4 DEF StartUpdateHPS, TypeOK
<1>5. CASE tracked # {} /\ ~HasChain(firstChain)
  BY <1>2, <1>5 DEF StartUpdateHPS, TypeOK, WakeIfResolved
<1>6. CASE tracked = {}
  BY <1>6 DEF StartUpdateHPS, TypeOK, WakeIfResolved
<1> QED
  BY <1>4, <1>5, <1>6

\* Every step of every handler preserves the types and the first chain.
LEMMA StepType == TypeOK /\ ChainInv /\ [Next]_vars => TypeOK' /\ ChainInv'
<1> SUFFICES ASSUME TypeOK, ChainInv, [Next]_vars
             PROVE  TypeOK' /\ ChainInv'
  OBVIOUS
<1> USE SeqnoFacts
<1> USE DEF frontVars, flushVars, chainVars, seqnoVars, queueVars, ackVars, clientVars
<1>ops. \A kind \in {"none", "hpsPersisted", "hpsMajority", "topo"} :
           Op(kind) \in OpType
  BY DEF Op, NoOp, OpType
<1>noop. NoOp \in OpType
  BY DEF NoOp, OpType
<1>chains. ASSUME UNCHANGED chainVars
           PROVE  ChainInv'
  BY <1>chains DEF ChainInv, HasChain, Members
<1>repos. ASSUME NEW T \in SUBSET Seqno,
                 firstChain' = Reposition(firstChain, T),
                 secondChain' = Reposition(secondChain, T)
          PROVE  firstChain' \in Chain /\ secondChain' \in Chain /\ ChainInv'
  <2>1. firstChain \in Chain /\ secondChain \in Chain
    BY DEF TypeOK
  <2>2. /\ firstChain' \in Chain /\ firstChain'.active = firstChain.active
        /\ Members(firstChain') = Members(firstChain)
        /\ secondChain' \in Chain
        /\ Members(secondChain') = Members(secondChain)
    BY <1>repos, <2>1, RepositionChain
  <2> QED
    BY <1>repos, <2>2 DEF ChainInv, HasChain
<1>1. CASE AddSyncWrite
  <2>1. NextExpiry({front}, sw) \in SeqnoOr0 /\ front \in Seqno
    BY <1>1, NextExpiryType DEF AddSyncWrite, TypeOK
  <2>2. sw' \in [Seqno -> SyncWrite]
    <3>1. sw[front] \in SyncWrite /\ sw \in [Seqno -> SyncWrite]
      BY <2>1 DEF TypeOK
    <3>2. [sw[front] EXCEPT !.chained = TRUE] \in SyncWrite
      BY <3>1 DEF SyncWrite
    <3>3. sw' = [sw EXCEPT ![front] = [sw[front] EXCEPT !.chained = TRUE]]
      BY <1>1 DEF AddSyncWrite
    <3> QED
      BY <3>1, <3>2, <3>3
  <2> QED
    BY <1>1, <2>1, <2>2, <1>chains DEF AddSyncWrite, TypeOK
<1>2. CASE LocalSyncWrite
  <2>1. /\ tracked' \subseteq tracked
        /\ highPreparedSeqno' \in SeqnoOr0
        /\ op' \in OpType
        /\ notified' \in BOOLEAN
    BY <1>2, StartUpdateType, Zenon DEF LocalSyncWrite
  <2>2. localNotify' \in Nat
    <3>1. localNotify > 0 /\ localNotify' = localNotify - 1
      BY <1>2, Zenon DEF LocalSyncWrite
    <3>2. localNotify \in Nat
      BY Zenon DEF TypeOK
    <3> QED
      BY <3>1, <3>2
  <2> QED
    BY <1>2, <1>chains, <2>1, <2>2 DEF LocalSyncWrite, TypeOK
<1>3. CASE NotifyPersistence
  <2>1. /\ tracked' \subseteq tracked
        /\ highPreparedSeqno' \in SeqnoOr0
        /\ op' \in OpType
        /\ notified' \in BOOLEAN
    <3>1. CASE StartUpdateHPS
      BY <3>1, StartUpdateType, Zenon
    <3>2. CASE UNCHANGED << tracked, highPreparedSeqno, op, notified, failed >>
      BY <3>2 DEF TypeOK
    <3> QED
      BY <1>3, <3>1, <3>2 DEF NotifyPersistence
  <2> QED
    <3>1. flushed' = FALSE /\
          UNCHANGED << vbState, frontVars, persistenceSeqno, sw, expired, timer,
                       chainVars, seqnoVars, queuedSeqnoAcks, queueVars,
                       consumer, dropped, ackVars, clientVars >>
      BY <1>3 DEF NotifyPersistence
    <3> QED
      <4>1. tracked' \subseteq Seqno
        BY <2>1 DEF TypeOK
      <4>2. flushed' \in BOOLEAN
        BY <3>1
      <4> QED
        BY <1>chains, <2>1, <3>1, <4>1, <4>2 DEF TypeOK
<1>5. CASE PersistedDone
  BY <1>5, <1>ops, <1>chains DEF PersistedDone, TypeOK
<1>7. CASE MajorityDone
  BY <1>7, <1>noop, <1>chains DEF MajorityDone, TypeOK, WakeIfResolved
<1>9. CASE AckDone
  <2>1. op' \in OpType
    BY <1>9, <1>ops, <1>noop DEF AckDone
  <2>2. queuedSeqnoAcks' \in [Node -> SeqnoOr0]
    BY <1>9 DEF AckDone, TypeOK, OpType
  <2>3. notified' \in BOOLEAN
    BY <1>9 DEF AckDone, TypeOK, WakeIfResolved
  <2> QED
    BY <1>9, <1>chains, <2>1, <2>2, <2>3 DEF AckDone, TypeOK
<1>10. ASSUME NEW n \in Node, PerformQueuedAck(n)
       PROVE  TypeOK' /\ ChainInv'
  BY <1>10, <1>chains DEF PerformQueuedAck, TypeOK, OpType
<1>13. CASE StartCompletion
  BY <1>13, <1>chains DEF StartCompletion, TypeOK, ConsumerType
<1>14. CASE CompleteSyncWrite
  <2>1. consumer' \in ConsumerType
        /\ resolved' \subseteq Seqno
    <3>1. resolved \in SUBSET Nat /\ resolved # {}
      BY <1>14 DEF CompleteSyncWrite, TypeOK
    <3>2. MinOf(resolved) \in resolved
      BY <3>1, MinOfNat
    <3> QED
      BY <1>14, <3>2 DEF CompleteSyncWrite, TypeOK, ConsumerType
  <2>2. outcome' \in [Seqno -> Outcomes]
    BY <1>14 DEF CompleteSyncWrite, TypeOK, Outcomes
  <2>3. response' \in [Seqno -> Responses]
    BY <1>14 DEF CompleteSyncWrite, TypeOK, Tell, Responses
  <2> QED
    BY <1>14, <1>chains, <2>1, <2>2, <2>3 DEF CompleteSyncWrite, TypeOK
<1>15. CASE UpdateCompletedSeqno
  <2>1. lastCommittedSeqno' \in SeqnoOr0 /\ lastAbortedSeqno' \in SeqnoOr0
    BY <1>15 DEF UpdateCompletedSeqno, TypeOK, ConsumerType
  <2>2. {highCompletedSeqno, lastCommittedSeqno', lastAbortedSeqno'}
           \in SUBSET (0 .. MaxSeqno)
    BY <2>1 DEF TypeOK, SeqnoOr0
  <2>3. MaxOf({highCompletedSeqno, lastCommittedSeqno', lastAbortedSeqno'})
           \in SeqnoOr0
    BY <2>2, MaxOfBounded DEF SeqnoOr0
  <2> QED
    BY <1>15, <1>chains, <2>1, <2>3 DEF UpdateCompletedSeqno, TypeOK, ConsumerType
<1>16. CASE StopCompletion
  BY <1>16, <1>chains DEF StopCompletion, TypeOK, ConsumerType
<1>17. ASSUME NEW level \in Levels, QueueDirty(level)
       PROVE  TypeOK' /\ ChainInv'
  <2>1. highSeqno + 1 \in Seqno /\ highSeqno' = highSeqno + 1 /\ front' = highSeqno + 1
    <3>1. highSeqno \in SeqnoOr0
      BY Zenon DEF TypeOK
    <3>2. highSeqno < MaxSeqno /\ highSeqno' = highSeqno + 1 /\ front' = highSeqno + 1
      BY <1>17 DEF QueueDirty
    <3> QED
      BY <3>1, <3>2 DEF Seqno, SeqnoOr0
  <2>2. NewSyncWrite(level, FALSE) \in SyncWrite
    BY ConstantsAssumption DEF NewSyncWrite, SyncWrite, Statuses
  <2>3. sw' \in [Seqno -> SyncWrite]
    BY <1>17, <2>1, <2>2 DEF QueueDirty, TypeOK
  <2> QED
    <3>1. UNCHANGED << vbState, localNotify, flushVars, expired, timer, tracked,
                    chainVars, seqnoVars, highPreparedSeqno, queuedSeqnoAcks,
                    queueVars, op, consumer, notified, dropped, ackVars,
                    clientVars, failed >>
      BY <1>17 DEF QueueDirty
    <3>2. highSeqno' \in SeqnoOr0 /\ front' \in SeqnoOr0
      BY <2>1
    <3> QED
      BY <1>chains, <2>3, <3>1, <3>2 DEF TypeOK
<1>18. CASE Flush
  <2>1. persistenceSeqno' \in SeqnoOr0
    <3>1. persistenceSeqno \in SeqnoOr0 /\ highSeqno \in SeqnoOr0
      BY Zenon DEF TypeOK
    <3>2. persistenceSeqno' \in persistenceSeqno + 1 .. highSeqno
      BY <1>18, Zenon DEF Flush
    <3> QED
      BY <3>1, <3>2 DEF SeqnoOr0
  <2> QED
    BY <1>18, <1>chains, <2>1 DEF Flush, TypeOK
<1>19. ASSUME NEW n \in Node, NEW s \in Seqno, SeqnoAck(n, s)
       PROVE  TypeOK' /\ ChainInv'
  <2>1. /\ acked' \in [Node -> SeqnoOr0] /\ everAcked' \in [Node -> SeqnoOr0]
        /\ queuedSeqnoAcks' \in [Node -> SeqnoOr0]
    <3>1. s \in SeqnoOr0
      BY SeqnoFacts
    <3>2. acked \in [Node -> SeqnoOr0] /\ everAcked \in [Node -> SeqnoOr0]
          /\ queuedSeqnoAcks \in [Node -> SeqnoOr0]
      BY Zenon DEF TypeOK
    <3>3. /\ acked' = [acked EXCEPT ![n] = s]
          /\ everAcked' = [everAcked EXCEPT ![n] = IF s > @ THEN s ELSE @]
          /\ \/ queuedSeqnoAcks' = queuedSeqnoAcks
             \/ queuedSeqnoAcks' = [queuedSeqnoAcks EXCEPT ![n] = s]
      BY <1>19, Zenon DEF SeqnoAck
    <3> QED
      BY <3>1, <3>2, <3>3
  <2>2. /\ op' \in OpType
        /\ notified' \in BOOLEAN
    <3>1. CASE vbState = "dead"
      BY <1>19, <3>1 DEF SeqnoAck, TypeOK
    <3>2. CASE HasChain(firstChain) /\ vbState = "active"
      <4>1. /\ op' = [kind |-> "ack", node |-> n, seqno |-> s, topo |-> FALSE]
            /\ UNCHANGED notified
        BY <1>19, <3>2 DEF SeqnoAck
      <4> QED
        BY <4>1 DEF TypeOK, OpType
    <3>3. CASE ~HasChain(firstChain) /\ vbState = "active"
      BY <1>19, <3>3 DEF SeqnoAck, TypeOK, WakeIfResolved
    <3> QED
      BY <3>1, <3>2, <3>3 DEF TypeOK
  <2> QED
    BY <1>19, <1>chains, <2>1, <2>2 DEF SeqnoAck, TypeOK
<1>20. ASSUME NEW n \in Node, StreamEnd(n)
       PROVE  TypeOK' /\ ChainInv'
  BY <1>20, <1>chains DEF StreamEnd, TypeOK
<1>22. ASSUME NEW s \in Seqno, Expire(s)
       PROVE  TypeOK' /\ ChainInv'
  BY <1>22, <1>chains DEF Expire, TypeOK
<1>23. ASSUME NEW k \in Key, DropCollection(k)
       PROVE  TypeOK' /\ ChainInv'
  BY <1>23, <1>chains DEF DropCollection, TypeOK
<1>28. CASE SetActiveNoTopology
  BY <1>28, <1>chains DEF SetActiveNoTopology, TypeOK
<1>hps. ASSUME NEW next \in SeqnoOr0, AdvanceHPS(next)
        PROVE  TypeOK' /\ ChainInv'
  <2>1. AdvanceAndResolve(firstChain.active, next, Statuses,
                          Fails("hps", next < highPreparedSeqno))
    BY <1>hps DEF AdvanceHPS
  <2>2. /\ tracked' \subseteq Seqno /\ resolved' \subseteq Seqno
        /\ sw' \in [Seqno -> SyncWrite]
        /\ firstChain' \in Chain /\ secondChain' \in Chain
        /\ firstChain'.active = firstChain.active
        /\ Members(firstChain') = Members(firstChain)
        /\ Members(secondChain') = Members(secondChain)
        /\ timer' \in SeqnoOr0 /\ highEnqueuedSeqno' \in SeqnoOr0
    BY <2>1, AdvanceEffect
  <2>3. TypeOK'
    BY <1>hps, <2>2 DEF AdvanceHPS, TypeOK
  <2> QED
    BY <2>2, <2>3 DEF ChainInv, HasChain
<1>next. ASSUME NEW n PROVE NodeNext(n) \in SeqnoOr0
  <2>1. \A c \in Chain : \A m : m \in Members(c) => c.pos[m].it \in SeqnoOr0
    BY ChainParts DEF Position
  <2>2. tracked \subseteq Seqno /\ firstChain \in Chain /\ secondChain \in Chain
    BY DEF TypeOK
  <2> QED
    BY <2>1, <2>2, NextTracked DEF NodeNext
<1>4. CASE AdvancePersisted
  BY <1>4, <1>hps, <1>next DEF AdvancePersisted
<1>6. CASE AdvanceMajority
  BY <1>6, <1>hps, <1>next DEF AdvanceMajority
<1>8. CASE AckAdvance
  <2>1. AdvanceAndResolve(op.node, AckedBy(op.node), {"Pending"}, {})
    BY <1>8 DEF AckAdvance
  <2>2. /\ tracked' \subseteq Seqno /\ resolved' \subseteq Seqno
        /\ sw' \in [Seqno -> SyncWrite]
        /\ firstChain' \in Chain /\ secondChain' \in Chain
        /\ firstChain'.active = firstChain.active
        /\ Members(firstChain') = Members(firstChain)
        /\ Members(secondChain') = Members(secondChain)
        /\ timer' \in SeqnoOr0 /\ highEnqueuedSeqno' \in SeqnoOr0
    BY <2>1, AdvanceEffect
  <2>3. TypeOK'
    BY <1>8, <2>2 DEF AckAdvance, TypeOK
  <2> QED
    BY <2>2, <2>3 DEF ChainInv, HasChain
<1>11. CASE CleanUpTrackedWrites
  <2> DEFINE completed == { s \in tracked : sw[s].status = "Completed" }
             satisfied == { s \in tracked \ completed :
                              IsSatisfied(sw[s], s, firstChain, secondChain) }
             T == tracked \ (completed \cup satisfied)
  <2>1. /\ tracked' = T
        /\ sw' = [s \in Seqno |->
                       IF s \in completed THEN ResetChains(sw[s])
                       ELSE IF s \in satisfied
                            THEN ResetChains([sw[s] EXCEPT !.status = "ToCommit"])
                            ELSE sw[s]]
        /\ firstChain' = Reposition(firstChain, T)
        /\ secondChain' = Reposition(secondChain, T)
        /\ timer' = IF Front(tracked) \in T \cup {0} THEN timer
                    ELSE NextExpiry(T, sw)
        /\ resolved' = resolved \cup satisfied
        /\ highEnqueuedSeqno' = IF satisfied = {} THEN highEnqueuedSeqno
                                ELSE MaxOf(satisfied)
        /\ notified' = (notified \/ resolved \cup satisfied # {})
        /\ op' = NoOp
        /\ UNCHANGED << vbState, frontVars, flushVars, expired, seqnoVars,
                    highPreparedSeqno, queuedSeqnoAcks, consumer, dropped,
                    ackVars, clientVars >>
    BY <1>11 DEF CleanUpTrackedWrites, WakeIfResolved
  <2>2. tracked \in SUBSET Seqno /\ T \in SUBSET Seqno /\ satisfied \in SUBSET Seqno
    BY DEF TypeOK
  <2> HIDE DEF completed, satisfied, T
  <2>3. firstChain' \in Chain /\ secondChain' \in Chain /\ ChainInv'
    BY <1>repos, <2>1, <2>2
  <2>4. sw' \in [Seqno -> SyncWrite]
    <3>1. \A s \in Seqno : sw[s] \in SyncWrite
      BY DEF TypeOK
    <3>2. \A s \in Seqno : /\ ResetChains(sw[s]) \in SyncWrite
                           /\ ResetChains([sw[s] EXCEPT !.status = "ToCommit"]) \in SyncWrite
      BY <3>1, ResetChainsType, ResolveType DEF Statuses
    <3> QED
      BY <2>1, <3>1, <3>2
  <2>5. timer' \in SeqnoOr0
    <3>1. NextExpiry(T, sw) \in SeqnoOr0
      BY <2>2, NextExpiryType
    <3> QED
      BY <2>1, <3>1 DEF TypeOK
  <2>6. highEnqueuedSeqno' \in SeqnoOr0
    <3>1. satisfied # {} => MaxOf(satisfied) \in SeqnoOr0
      BY <2>2, MaxOfTracked
    <3> QED
      BY <2>1, <3>1 DEF TypeOK
  <2>7. tracked' \subseteq Seqno /\ resolved' \subseteq Seqno /\ notified' \in BOOLEAN
    BY <2>1, <2>2 DEF TypeOK
  <2>8. /\ op' = NoOp
        /\ UNCHANGED << vbState, frontVars, flushVars, expired, seqnoVars,
                    highPreparedSeqno, queuedSeqnoAcks, consumer, dropped,
                    ackVars, clientVars >>
    BY <2>1
  <2> QED
    BY <1>noop, <2>3, <2>4, <2>5, <2>6, <2>7, <2>8 DEF TypeOK
<1>12. CASE ProcessTimeout
  <2> DEFINE gone == { s \in tracked : \A u \in tracked : u <= s => u \in expired }
  <2>1. /\ ResolveWrites(gone, "ToAbort", sw, firstChain, secondChain)
        /\ notified' = (notified \/ resolved \cup gone # {})
        /\ UNCHANGED << vbState, frontVars, flushVars, expired, seqnoVars,
                    highPreparedSeqno, queuedSeqnoAcks, op, consumer, dropped,
                    ackVars, clientVars >>
    BY <1>12 DEF ProcessTimeout, WakeIfResolved
  <2>2. gone \in SUBSET tracked /\ "ToAbort" \in Statuses
    BY DEF Statuses
  <2> HIDE DEF gone
  <2>3. /\ tracked \subseteq Seqno /\ timer \in SeqnoOr0
        /\ highEnqueuedSeqno \in SeqnoOr0 /\ resolved \subseteq Seqno
        /\ sw \in [Seqno -> SyncWrite]
        /\ firstChain \in Chain /\ secondChain \in Chain
    BY DEF TypeOK
  <2>4. /\ tracked' = tracked \ gone
        /\ resolved' = resolved \cup gone
        /\ sw' \in [Seqno -> SyncWrite]
        /\ firstChain' = Reposition(firstChain, tracked \ gone)
        /\ secondChain' = Reposition(secondChain, tracked \ gone)
        /\ timer' \in SeqnoOr0
        /\ highEnqueuedSeqno' \in SeqnoOr0
    BY <2>1, <2>2, <2>3, ResolveWritesEffect
  <2>5. tracked \ gone \in SUBSET Seqno
    BY <2>3
  <2>6. firstChain' \in Chain /\ secondChain' \in Chain /\ ChainInv'
    BY <1>repos, <2>4, <2>5
  <2>7. resolved' \subseteq Seqno
    BY <2>2, <2>3, <2>4
  <2> QED
    BY <2>1, <2>4, <2>5, <2>6, <2>7 DEF TypeOK
<1>topo. ASSUME NEW t \in Topologies, SetReplicationTopology(t),
                UNCHANGED << frontVars, flushVars, expired, seqnoVars,
                             queuedSeqnoAcks, consumer, notified, dropped,
                             ackVars, clientVars >>,
                vbState' \in {"active", "dead"}
         PROVE  TypeOK' /\ ChainInv'
  <2>1. /\ tracked' \subseteq Seqno /\ resolved' \subseteq Seqno
        /\ sw' \in [Seqno -> SyncWrite]
        /\ firstChain' \in Chain /\ secondChain' \in Chain
        /\ firstChain'.active = Self
        /\ Members(firstChain') = Members(NewFirst(t))
        /\ timer' \in SeqnoOr0 /\ highEnqueuedSeqno' \in SeqnoOr0
        /\ highPreparedSeqno' =
                IF ~HasChain(firstChain) /\ tracked # {} THEN Fence
                ELSE highPreparedSeqno
        /\ op' = Op("topo")
    BY <1>topo, TopologyEffect
  <2>2. Fence \in SeqnoOr0
    BY FenceFacts DEF TypeOK
  <2>3. highPreparedSeqno' \in SeqnoOr0
    BY <2>1, <2>2 DEF TypeOK
  <2>4. Self \in Members(NewFirst(t))
    BY NewChains
  <2>5. ChainInv'
    BY <2>1, <2>4, ConstantsAssumption DEF ChainInv, HasChain
  <2> QED
    BY <1>topo, <1>ops, <2>1, <2>3, <2>5 DEF TypeOK
<1>21. ASSUME NEW t \in Topologies, SetTopology(t)
       PROVE  TypeOK' /\ ChainInv'
  BY <1>21, <1>topo DEF SetTopology, TypeOK
<1>27. ASSUME NEW t \in Topologies, SetActive(t)
       PROVE  TypeOK' /\ ChainInv'
  BY <1>27, <1>topo DEF SetActive, TypeOK
<1>24. ASSUME NEW k \in Key, DropPendingKey(k)
       PROVE  TypeOK' /\ ChainInv'
  <2> DEFINE s == MaxOf({ u \in 1 .. highSeqno : KeyOf[u] = k })
             gone == IF MinOf({ u \in tracked : KeyOf[u] = k }) = s THEN {s} ELSE {}
             T == tracked \ gone
  <2>1. /\ tracked' = T
        /\ firstChain' = Reposition(firstChain, T)
        /\ secondChain' = Reposition(secondChain, T)
        /\ response' = IF gone # {} /\ sw[s].cookie
                       THEN Tell(response, s, "ambiguous") ELSE response
        /\ outcome' = [outcome EXCEPT ![s] = IF gone # {} THEN "dropped" ELSE @]
        /\ UNCHANGED timer
        /\ UNCHANGED << vbState, frontVars, flushVars, sw, expired, seqnoVars,
                    highPreparedSeqno, queuedSeqnoAcks, queueVars, op,
                    consumer, notified, dropped, ackVars >>
    BY <1>24 DEF DropPendingKey, EraseSyncWrite
  <2>2. T \in SUBSET Seqno
    BY DEF TypeOK
  <2> HIDE DEF T, gone, s
  <2>3. firstChain' \in Chain /\ secondChain' \in Chain /\ ChainInv'
    BY <1>repos, <2>1, <2>2
  <2>4. /\ response' \in [Seqno -> Responses]
        /\ outcome' \in [Seqno -> Outcomes]
    BY <2>1 DEF TypeOK, Tell, Responses, Outcomes
  <2> QED
    BY <2>1, <2>2, <2>3, <2>4 DEF TypeOK
<1>tell. ASSUME TellInFlight(tracked \cup resolved)
         PROVE  /\ sw' \in [Seqno -> SyncWrite]
                /\ response' \in [Seqno -> Responses]
  <2>1. \A s \in Seqno : [sw[s] EXCEPT !.cookie = FALSE] \in SyncWrite
    <3>1. \A w \in SyncWrite : [w EXCEPT !.cookie = FALSE] \in SyncWrite
      BY DEF SyncWrite
    <3> QED
      BY <3>1 DEF TypeOK
  <2>2. sw' \in [Seqno -> SyncWrite]
    BY <1>tell, <2>1 DEF TellInFlight, WithoutCookies, TypeOK
  <2>3. response' \in [Seqno -> Responses]
    BY <1>tell DEF TellInFlight, TypeOK, Tell, Responses
  <2> QED
    BY <2>2, <2>3
<1>25. CASE ReleaseBlockedCookies
  <2>1. highEnqueuedSeqno' \in SeqnoOr0
    <3>1. resolved # {} => MaxOf(resolved) \in SeqnoOr0
      BY MaxOfTracked DEF TypeOK
    <3> QED
      BY <1>25, <3>1 DEF ReleaseBlockedCookies
  <2> QED
    BY <1>25, <1>chains, <1>tell, <2>1 DEF ReleaseBlockedCookies, TypeOK
<1>26. CASE SetDead
  BY <1>26, <1>chains, <1>tell DEF SetDead, TypeOK
<1>29. CASE UNCHANGED vars
  BY <1>29, <1>chains DEF vars, TypeOK
<1>30. CASE Handlers
  BY <1>1, <1>2, <1>3, <1>4, <1>5, <1>6, <1>7, <1>8, <1>9, <1>10, <1>11, <1>12,
     <1>13, <1>14, <1>15, <1>16, <1>30, Zenon DEF Handlers
<1>31. CASE Environment
  BY <1>17, <1>18, <1>19, <1>20, <1>21, <1>22, <1>23, <1>24, <1>25, <1>26, <1>27,
     <1>28, <1>31, Zenon DEF Environment
<1> QED
  BY <1>29, <1>30, <1>31, Zenon DEF Next

\* Every variable of the monitor keeps its type: no position, counter or ack
\* leaves its range, and the chain in use always has the active for a member.
THEOREM TypeCorrect == Spec => []TypeOK
<1>1. Spec => [](TypeOK /\ ChainInv)
  BY InitType, StepType, PTL DEF Spec
<1> QED
  BY <1>1, PTL

=============================================================================
