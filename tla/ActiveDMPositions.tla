------------------------- MODULE ActiveDMPositions --------------------------
(***************************************************************************)
(* Theorems about the positions of the nodes in the chains: iterators into *)
(* trackedWrites never dangle, and the high prepared seqno stops at a      *)
(* prepare that is not persisted.                                          *)
(***************************************************************************)
EXTENDS ActiveDMTypes

\* Every iterator of a chain points into T or nowhere.
ValidIn(c, T) == \A n \in Members(c) : c.pos[n].it \in T \cup {0}

\* This node is never ahead of the HPS h, nor further in the second chain d
\* than in the first chain c.
SelfBehind(c, d, h) ==
    Self \in Members(c) =>
        /\ c.pos[Self].it <= h
        /\ Self \in Members(d) => d.pos[Self].it <= c.pos[Self].it

PosInv ==
    /\ ValidIn(firstChain, tracked) /\ ValidIn(secondChain, tracked)
    /\ SelfBehind(firstChain, secondChain, highPreparedSeqno)
    /\ op.kind = "ack" => op.node # Self
    /\ queuedSeqnoAcks[Self] = 0

\* The iterator of a member of a chain is a seqno or none.
LEMMA ItType ==
    ASSUME NEW c \in Chain, NEW n \in Members(c)
    PROVE  c.pos[n].it \in SeqnoOr0
  BY ChainParts DEF Position

\* Repositioning makes iterators valid again and keeps this node behind.
LEMMA RepositionPos ==
    ASSUME NEW c \in Chain, NEW d \in Chain, NEW T \in SUBSET Seqno,
           NEW h \in SeqnoOr0, SelfBehind(c, d, h)
    PROVE  /\ ValidIn(Reposition(c, T), T) /\ ValidIn(Reposition(d, T), T)
           /\ SelfBehind(Reposition(c, T), Reposition(d, T), h)
<1>1. /\ Members(Reposition(c, T)) = Members(c)
      /\ \A n \in Members(c) :
            Reposition(c, T).pos[n].it = RepositionIt(c.pos[n].it, T)
  BY RepositionChain
<1>2. /\ Members(Reposition(d, T)) = Members(d)
      /\ \A n \in Members(d) :
            Reposition(d, T).pos[n].it = RepositionIt(d.pos[n].it, T)
  BY RepositionChain
<1>3. \A n \in Members(c) : RepositionIt(c.pos[n].it, T) \in T \cup {0}
  BY ItType, RepositionItBack
<1>4. \A n \in Members(d) : RepositionIt(d.pos[n].it, T) \in T \cup {0}
  BY ItType, RepositionItBack
<1>5. ASSUME Self \in Members(c)
      PROVE  RepositionIt(c.pos[Self].it, T) <= h
  <2>1. c.pos[Self].it \in SeqnoOr0 /\ c.pos[Self].it <= h
    BY <1>5, ItType DEF SelfBehind
  <2>2. /\ RepositionIt(c.pos[Self].it, T) <= c.pos[Self].it
        /\ RepositionIt(c.pos[Self].it, T) \in SeqnoOr0
    BY <2>1, RepositionItBack
  <2>3. /\ c.pos[Self].it \in Nat /\ h \in Nat
        /\ RepositionIt(c.pos[Self].it, T) \in Nat
    BY <2>1, <2>2, SeqnoFacts
  <2> QED
    BY <2>1, <2>2, <2>3
<1>6. ASSUME Self \in Members(c), Self \in Members(d)
      PROVE  RepositionIt(d.pos[Self].it, T) <= RepositionIt(c.pos[Self].it, T)
  BY <1>6, ItType, RepositionItMonotone DEF SelfBehind
<1> QED
  BY <1>1, <1>2, <1>3, <1>4, <1>5, <1>6 DEF ValidIn, SelfBehind

\* Steps that leave the chains and the HPS alone.
LEMMA PosFrame ==
    ASSUME TypeOK, PosInv, tracked \subseteq tracked',
           UNCHANGED << firstChain, secondChain, highPreparedSeqno >>,
           op'.kind = "ack" => op'.node # Self, queuedSeqnoAcks'[Self] = 0
    PROVE  PosInv'
<1>1. ValidIn(firstChain, tracked)' /\ ValidIn(secondChain, tracked)'
  BY DEF PosInv, ValidIn, Members
<1>2. SelfBehind(firstChain, secondChain, highPreparedSeqno)'
  BY DEF PosInv, SelfBehind, Members
<1> QED
  BY <1>1, <1>2 DEF PosInv

\* Steps that remove SyncWrites and reposition the iterators.
LEMMA PosRemoved ==
    ASSUME TypeOK, PosInv, NEW T \in SUBSET Seqno, tracked' = T,
           firstChain' = Reposition(firstChain, T),
           secondChain' = Reposition(secondChain, T),
           UNCHANGED << highPreparedSeqno, queuedSeqnoAcks >>,
           op'.kind = "ack" => op'.node # Self
    PROVE  PosInv'
<1>1. /\ ValidIn(Reposition(firstChain, T), T)
      /\ ValidIn(Reposition(secondChain, T), T)
      /\ SelfBehind(Reposition(firstChain, T), Reposition(secondChain, T),
                    highPreparedSeqno)
  BY RepositionPos DEF PosInv, TypeOK
<1>2. ValidIn(firstChain, tracked)' /\ ValidIn(secondChain, tracked)'
  BY <1>1 DEF ValidIn, Members
<1>3. SelfBehind(firstChain, secondChain, highPreparedSeqno)'
  BY <1>1 DEF SelfBehind, Members
<1> QED
  BY <1>2, <1>3 DEF PosInv

\* Without a chain the active has no next SyncWrite; with one it is this node.
LEMMA ActiveNext ==
    ASSUME TypeOK, ChainInv, NodeNext(firstChain.active) # 0
    PROVE  /\ firstChain.active = Self /\ Self \in Members(firstChain)
           /\ NodeNext(firstChain.active) = NextIn(tracked, firstChain.pos[Self].it)
<1>1. firstChain.active \in Members(firstChain) \cup Members(secondChain)
  BY DEF NodeNext
<1>2. firstChain.active = Self /\ Self \in Members(firstChain)
  BY <1>1 DEF ChainInv, HasChain
<1> QED
  BY <1>2 DEF NodeNext

\* updateHighPreparedSeqno moves this node and the HPS together.
LEMMA PosAdvanceHPS ==
    ASSUME TypeOK, ChainInv, PosInv, NodeNext(firstChain.active) # 0,
           AdvanceHPS(NodeNext(firstChain.active))
    PROVE  PosInv'
<1> DEFINE next == NodeNext(firstChain.active)
           c == AdvanceIn(firstChain, Self)
           d == AdvanceIn(secondChain, Self)
<1>1. /\ firstChain.active = Self /\ Self \in Members(firstChain)
      /\ next = NextIn(tracked, firstChain.pos[Self].it)
  BY ActiveNext
<1>2. AdvanceAndResolve(Self, next, Statuses, Fails("hps", next < highPreparedSeqno))
  BY <1>1 DEF AdvanceHPS
<1>3. /\ tracked' \subseteq Seqno
      /\ firstChain' = Reposition(c, tracked')
      /\ secondChain' = Reposition(d, tracked')
  BY <1>2, AdvanceEffect
<1>4. /\ highPreparedSeqno' = next
      /\ UNCHANGED << op, queuedSeqnoAcks >>
  BY DEF AdvanceHPS
<1>5. /\ tracked \subseteq Seqno /\ firstChain \in Chain /\ secondChain \in Chain
  BY DEF TypeOK
<1>6. /\ c \in Chain /\ Members(c) = Members(firstChain)
      /\ c.pos[Self].it = NextIn(tracked, firstChain.pos[Self].it)
  BY <1>1, <1>5, AdvanceInChain
<1>7. /\ d \in Chain /\ Members(d) = Members(secondChain)
      /\ Self \in Members(d) =>
            d.pos[Self].it = NextIn(tracked, secondChain.pos[Self].it)
  BY <1>5, AdvanceInChain
<1>8. /\ next \in SeqnoOr0 /\ next \in tracked
      /\ next > firstChain.pos[Self].it
  BY <1>1, <1>5, ItType, NextTracked
<1>9. ASSUME Self \in Members(d)
      PROVE  d.pos[Self].it <= c.pos[Self].it
  <2>1. /\ secondChain.pos[Self].it <= firstChain.pos[Self].it
        /\ secondChain.pos[Self].it \in SeqnoOr0
        /\ firstChain.pos[Self].it \in SeqnoOr0
    BY <1>1, <1>5, <1>7, <1>9, ItType DEF PosInv, SelfBehind
  <2>2. next > secondChain.pos[Self].it
    <3>1. /\ next \in Nat /\ secondChain.pos[Self].it \in Nat
          /\ firstChain.pos[Self].it \in Nat
      BY <1>8, <2>1, SeqnoFacts
    <3> HIDE DEF next
    <3> QED
      BY <1>8, <2>1, <3>1
  <2>3. NextIn(tracked, secondChain.pos[Self].it) <= next
    BY <1>5, <1>8, <2>1, <2>2, NextTracked
  <2> QED
    BY <1>1, <1>6, <1>7, <1>9, <2>3
<1> HIDE DEF next, c, d
<1>10. next <= next
  BY <1>8, SeqnoFacts
<1>11. SelfBehind(c, d, next)
  BY <1>1, <1>6, <1>9, <1>10 DEF SelfBehind
<1>12. /\ ValidIn(Reposition(c, tracked'), tracked')
       /\ ValidIn(Reposition(d, tracked'), tracked')
       /\ SelfBehind(Reposition(c, tracked'), Reposition(d, tracked'), next)
  BY <1>3, <1>6, <1>7, <1>8, <1>11, RepositionPos
<1>13. ValidIn(firstChain, tracked)' /\ ValidIn(secondChain, tracked)'
  BY <1>3, <1>12 DEF ValidIn, Members
<1>14. SelfBehind(firstChain, secondChain, highPreparedSeqno)'
  BY <1>3, <1>4, <1>12 DEF SelfBehind, Members
<1> QED
  BY <1>4, <1>13, <1>14 DEF PosInv

\* setReplicationTopology keeps the iterators valid and this node behind.
LEMMA PosTopology ==
    ASSUME TypeOK, ChainInv, PosInv, NEW t \in Topologies,
           SetReplicationTopology(t), UNCHANGED queuedSeqnoAcks
    PROVE  PosInv'
<1> DEFINE c == CopyChainPositions(NewFirst(t))
           d == CopyChainPositions(NewSecond(t))
           h == IF ~HasChain(firstChain) /\ tracked # {} THEN Fence
                ELSE highPreparedSeqno
<1>1. /\ tracked' \subseteq Seqno
      /\ firstChain' = Reposition(c, tracked')
      /\ secondChain' = Reposition(d, tracked')
      /\ highPreparedSeqno' = h
      /\ op' = Op("topo")
  BY TopologyEffect
<1>2. /\ NewFirst(t) \in Chain /\ Self \in Members(NewFirst(t))
      /\ \A n \in Members(NewFirst(t)) :
            /\ n # Self \/ HasChain(firstChain) \/ tracked = {}
               => NewFirst(t).pos[n].it = 0
            /\ NewFirst(t).pos[n].it <= Fence
      /\ NewSecond(t) \in Chain
      /\ \A n \in Members(NewSecond(t)) : NewSecond(t).pos[n].it = 0
  BY NewChains
<1>3. firstChain \in Chain /\ secondChain \in Chain /\ tracked \subseteq Seqno
      /\ highPreparedSeqno \in SeqnoOr0 /\ persistenceSeqno \in SeqnoOr0
  BY DEF TypeOK
<1>4. /\ c \in Chain /\ Members(c) = Members(NewFirst(t))
      /\ c.pos[Self] = CopiedPosition(NewFirst(t), Self)
      /\ d \in Chain /\ Members(d) = Members(NewSecond(t))
      /\ Self \in Members(d) => d.pos[Self] = CopiedPosition(NewSecond(t), Self)
  BY <1>2, <1>3, CopyChain
<1>5. h \in SeqnoOr0
  BY <1>3, FenceFacts
<1> HIDE DEF c, d
<1>6. SelfBehind(c, d, h)
  <2>1. CASE HasChain(firstChain)
    <3>1. Self \in Members(firstChain) /\ h = highPreparedSeqno
      BY <2>1 DEF ChainInv
    <3>2. CASE Self \in Members(secondChain)
      <4>1. /\ c.pos[Self] = secondChain.pos[Self]
            /\ Self \in Members(d) => d.pos[Self] = secondChain.pos[Self]
        BY <1>4, <3>2 DEF CopiedPosition
      <4>2. /\ secondChain.pos[Self].it <= firstChain.pos[Self].it
            /\ firstChain.pos[Self].it <= highPreparedSeqno
        BY <3>1, <3>2 DEF PosInv, SelfBehind
      <4>3. /\ secondChain.pos[Self].it \in Nat /\ firstChain.pos[Self].it \in Nat
            /\ highPreparedSeqno \in Nat
        BY <1>3, <3>1, <3>2, ItType, SeqnoFacts
      <4>4. secondChain.pos[Self].it <= highPreparedSeqno
        BY <4>2, <4>3
      <4>5. secondChain.pos[Self].it <= secondChain.pos[Self].it
        BY <4>3
      <4> QED
        BY <3>1, <4>1, <4>4, <4>5, Zenon DEF SelfBehind
    <3>3. CASE Self \notin Members(secondChain)
      <4>1. /\ c.pos[Self] = firstChain.pos[Self]
            /\ Self \in Members(d) => d.pos[Self] = firstChain.pos[Self]
        BY <1>4, <3>1, <3>3 DEF CopiedPosition
      <4>2. firstChain.pos[Self].it <= highPreparedSeqno
        BY <3>1 DEF PosInv, SelfBehind
      <4>3. firstChain.pos[Self].it \in Nat
        BY <1>3, <3>1, ItType, SeqnoFacts
      <4>4. firstChain.pos[Self].it <= firstChain.pos[Self].it
        BY <4>3
      <4> QED
        BY <3>1, <4>1, <4>2, <4>4, Zenon DEF SelfBehind
    <3> QED
      BY <3>2, <3>3
  <2>2. CASE ~HasChain(firstChain)
    <3>1. Self \notin Members(firstChain) /\ Self \notin Members(secondChain)
      BY <2>2 DEF ChainInv
    <3>2. /\ c.pos[Self] = NewFirst(t).pos[Self]
          /\ Self \in Members(d) => d.pos[Self] = NewSecond(t).pos[Self]
      BY <1>4, <3>1 DEF CopiedPosition
    <3>3. Self \in Members(d) => d.pos[Self].it = 0
      BY <1>2, <1>4, <3>2
    <3>4. c.pos[Self].it \in Nat
      BY <1>2, <1>4, ItType, SeqnoFacts
    <3>5. c.pos[Self].it <= h
      <4>1. CASE tracked # {}
        BY <1>2, <2>2, <3>2, <4>1
      <4>2. CASE tracked = {}
        <5>1. c.pos[Self].it = 0 /\ h = highPreparedSeqno
          BY <1>2, <3>2, <4>2
        <5> QED
          BY <1>3, <5>1, SeqnoFacts
      <4> QED
        BY <4>1, <4>2
    <3>6. 0 <= c.pos[Self].it
      BY <3>4
    <3> QED
      BY <3>3, <3>5, <3>6 DEF SelfBehind
  <2> QED
    BY <2>1, <2>2
<1> HIDE DEF h
<1>7. /\ ValidIn(Reposition(c, tracked'), tracked')
      /\ ValidIn(Reposition(d, tracked'), tracked')
      /\ SelfBehind(Reposition(c, tracked'), Reposition(d, tracked'), h)
  BY <1>1, <1>4, <1>5, <1>6, RepositionPos
<1>8. ValidIn(firstChain, tracked)' /\ ValidIn(secondChain, tracked)'
  BY <1>1, <1>7 DEF ValidIn, Members
<1>9. SelfBehind(firstChain, secondChain, highPreparedSeqno)'
  BY <1>1, <1>7 DEF SelfBehind, Members
<1>10. op'.kind # "ack"
  BY <1>1 DEF Op, NoOp
<1> QED
  BY <1>8, <1>9, <1>10 DEF PosInv

\* The constructors leave the iterators valid.
LEMMA PosInit == Init => PosInv
<1> SUFFICES ASSUME Init PROVE PosInv
  OBVIOUS
<1>1. TypeOK /\ ChainInv
  BY InitType
<1>2. op = NoOp /\ queuedSeqnoAcks = [n \in Node |-> 0]
  BY DEF Init, InitCommon
<1>3. op.kind # "ack" /\ queuedSeqnoAcks[Self] = 0
  BY <1>2, ConstantsAssumption DEF NoOp
<1>4. CASE InitFresh \/ InitPassive
  <2>1. Members(firstChain) = {} /\ Members(secondChain) = {}
    BY <1>4, NoChainIsChain, Zenon DEF InitFresh, InitPassive
  <2> QED
    BY <1>3, <2>1 DEF PosInv, ValidIn, SelfBehind
<1>5. CASE InitWarmup
  <2>1. /\ highSeqno \in Seqno
        /\ highCompletedSeqno \in 0 .. highSeqno - 1
        /\ tracked = highCompletedSeqno + 1 .. highSeqno
        /\ highPreparedSeqno = highSeqno
    BY <1>5, Zenon DEF InitWarmup
  <2>2. highSeqno \in tracked /\ highSeqno \in SeqnoOr0 /\ highSeqno \in Nat
    BY <2>1, SeqnoFacts
  <2>3. PICK t \in Topologies :
           /\ firstChain = AckedBySelf(ReplicationChain(t[1]))
           /\ secondChain = IF Len(t) = 1 THEN NoChain
                            ELSE AckedBySelf(ReplicationChain(t[2]))
    BY <1>5, Zenon DEF InitWarmup
  <2>4. 1 \in 1 .. Len(t) /\ (Len(t) # 1 => 2 \in 1 .. Len(t))
    <3>1. Len(t) \in 1 .. 2
      BY ConstantsAssumption
    <3>2. \A l \in 1 .. 2 : 1 \in 1 .. l /\ (l # 1 => 2 \in 1 .. l)
      OBVIOUS
    <3> QED
      BY <3>1, <3>2, Zenon
  <2>5. ASSUME NEW i \in 1 .. Len(t)
        PROVE  \A n \in Members(AckedBySelf(ReplicationChain(t[i]))) :
                  AckedBySelf(ReplicationChain(t[i])).pos[n].it =
                     IF n = Self THEN highSeqno ELSE 0
    <3>1. /\ ReplicationChain(t[i]) \in Chain
          /\ \A n \in Members(ReplicationChain(t[i])) :
                ReplicationChain(t[i]).pos[n] = [it |-> 0, lastWrite |-> 0]
      BY ReplicationChainIsChain
    <3> HIDE DEF Chain
    <3>2. \A n \in Members(ReplicationChain(t[i])) :
             ReplicationChain(t[i]).pos[n].it = 0
      BY <3>1
    <3> QED
      BY <2>2, <3>1, <3>2, AckedBySelfChain
  <2>6. \A n \in Members(firstChain) :
           firstChain.pos[n].it = IF n = Self THEN highSeqno ELSE 0
    BY <2>3, <2>4, <2>5
  <2>7. \A n \in Members(secondChain) :
           secondChain.pos[n].it = IF n = Self THEN highSeqno ELSE 0
    BY <2>3, <2>4, <2>5, NoChainIsChain
  <2>8. ValidIn(firstChain, tracked) /\ ValidIn(secondChain, tracked)
    BY <2>2, <2>6, <2>7 DEF ValidIn
  <2>9. SelfBehind(firstChain, secondChain, highPreparedSeqno)
    BY <2>1, <2>2, <2>6, <2>7 DEF SelfBehind
  <2> QED
    BY <1>3, <2>8, <2>9 DEF PosInv
<1> QED
  BY <1>4, <1>5 DEF Init

\* Every step of every handler keeps the iterators valid and this node behind
\* the HPS.
LEMMA PosStep ==
    TypeOK /\ ChainInv /\ PosInv /\ [Next]_vars => PosInv'
<1> SUFFICES ASSUME TypeOK, ChainInv, PosInv, [Next]_vars
             PROVE  PosInv'
  OBVIOUS
<1> USE DEF frontVars, flushVars, chainVars, seqnoVars, queueVars, ackVars, clientVars
<1>ack. (op.kind = "ack" => op.node # Self) /\ queuedSeqnoAcks[Self] = 0
  BY DEF PosInv
<1>none. NoOp.kind # "ack" /\ \A k : k # "ack" => Op(k).kind # "ack"
  BY DEF NoOp, Op
<1>frame. ASSUME tracked \subseteq tracked',
                 UNCHANGED << firstChain, secondChain, highPreparedSeqno, op,
                              queuedSeqnoAcks >>
          PROVE  PosInv'
  BY <1>ack, <1>frame, PosFrame
<1>start. ASSUME StartUpdateHPS, UNCHANGED << firstChain, secondChain, queuedSeqnoAcks >>
          PROVE  PosInv'
  <2>1. /\ op' # op => op' = Op("hpsPersisted")
        /\ HasChain(firstChain) => highPreparedSeqno' = highPreparedSeqno
        /\ HasChain(firstChain) => tracked' = tracked
    BY <1>start, StartUpdateType
  <2>2. op'.kind = "ack" => op'.node # Self
    BY <1>ack, <1>none, <2>1
  <2>3. CASE HasChain(firstChain)
    BY <1>ack, <1>start, <2>1, <2>2, <2>3, PosFrame
  <2>4. CASE ~HasChain(firstChain)
    <3>1. Members(firstChain) = {} /\ Members(secondChain) = {}
      BY <2>4 DEF ChainInv
    <3>2. Members(firstChain') = {} /\ Members(secondChain') = {}
      BY <1>start, <3>1
    <3> QED
      BY <1>ack, <1>start, <2>2, <3>2 DEF PosInv, ValidIn, SelfBehind, Members
  <2> QED
    BY <2>3, <2>4
<1>1. CASE AddSyncWrite
  BY <1>1, <1>frame DEF AddSyncWrite
<1>2. CASE LocalSyncWrite
  BY <1>2, <1>start DEF LocalSyncWrite
<1>3. CASE NotifyPersistence
  <2>1. UNCHANGED << firstChain, secondChain, queuedSeqnoAcks >>
    BY <1>3 DEF NotifyPersistence
  <2>2. CASE StartUpdateHPS
    BY <1>start, <2>1, <2>2
  <2>3. CASE UNCHANGED << tracked, highPreparedSeqno, op, notified, failed >>
    BY <1>frame, <2>1, <2>3
  <2> QED
    BY <1>3, <2>2, <2>3 DEF NotifyPersistence
<1>4. CASE AdvancePersisted
  BY <1>4, PosAdvanceHPS DEF AdvancePersisted
<1>5. CASE PersistedDone
  BY <1>5, <1>ack, <1>none, PosFrame DEF PersistedDone
<1>6. CASE AdvanceMajority
  BY <1>6, PosAdvanceHPS DEF AdvanceMajority
<1>7. CASE MajorityDone
  BY <1>7, <1>ack, <1>none, PosFrame DEF MajorityDone
<1>8. CASE AckAdvance
  <2> DEFINE n == op.node
             c == AdvanceIn(firstChain, n)
             d == AdvanceIn(secondChain, n)
  <2>1. /\ AdvanceAndResolve(n, AckedBy(n), {"Pending"}, {})
        /\ n # Self
        /\ UNCHANGED << highPreparedSeqno, op, queuedSeqnoAcks >>
    BY <1>8, <1>ack DEF AckAdvance
  <2>2. /\ tracked' \subseteq Seqno
        /\ firstChain' = Reposition(c, tracked')
        /\ secondChain' = Reposition(d, tracked')
    BY <2>1, AdvanceEffect
  <2>3. /\ tracked \subseteq Seqno /\ firstChain \in Chain /\ secondChain \in Chain
        /\ highPreparedSeqno \in SeqnoOr0
    BY DEF TypeOK
  <2> HIDE DEF n
  <2>4. /\ c \in Chain /\ Members(c) = Members(firstChain)
        /\ Self \in Members(firstChain) => c.pos[Self].it = firstChain.pos[Self].it
    BY <2>1, <2>3, AdvanceInChain
  <2>5. /\ d \in Chain /\ Members(d) = Members(secondChain)
        /\ Self \in Members(secondChain) => d.pos[Self].it = secondChain.pos[Self].it
    BY <2>1, <2>3, AdvanceInChain
  <2> HIDE DEF c, d
  <2>6. SelfBehind(c, d, highPreparedSeqno)
    BY <2>4, <2>5 DEF SelfBehind, PosInv
  <2>7. /\ ValidIn(Reposition(c, tracked'), tracked')
        /\ ValidIn(Reposition(d, tracked'), tracked')
        /\ SelfBehind(Reposition(c, tracked'), Reposition(d, tracked'),
                      highPreparedSeqno)
    BY <2>2, <2>3, <2>4, <2>5, <2>6, RepositionPos
  <2>8. ValidIn(firstChain, tracked)' /\ ValidIn(secondChain, tracked)'
    BY <2>2, <2>7 DEF ValidIn, Members
  <2>9. SelfBehind(firstChain, secondChain, highPreparedSeqno)'
    BY <2>1, <2>2, <2>7 DEF SelfBehind, Members
  <2> QED
    BY <1>ack, <2>1, <2>8, <2>9 DEF PosInv
<1>9. CASE AckDone
  <2>1. /\ UNCHANGED << tracked, firstChain, secondChain, highPreparedSeqno >>
        /\ op' = IF op.topo THEN Op("topo") ELSE NoOp
    BY <1>9 DEF AckDone
  <2>2. queuedSeqnoAcks'[Self] = 0
    BY <1>9, <1>ack, ConstantsAssumption DEF AckDone, TypeOK
  <2>3. op'.kind # "ack"
    BY <1>none, <2>1
  <2> QED
    BY <2>1, <2>2, <2>3, PosFrame
<1>10. ASSUME NEW n \in Node, PerformQueuedAck(n)
       PROVE  PosInv'
  <2>1. n # Self
    BY <1>10, <1>ack DEF PerformQueuedAck, QueuedIn
  <2>2. op'.node = n
    BY <1>10 DEF PerformQueuedAck
  <2> QED
    BY <1>10, <1>ack, <2>1, <2>2, PosFrame DEF PerformQueuedAck
<1>11. CASE CleanUpTrackedWrites
  <2>1. /\ firstChain' = Reposition(firstChain, tracked')
        /\ secondChain' = Reposition(secondChain, tracked')
        /\ tracked' \subseteq tracked
        /\ op' = NoOp
        /\ UNCHANGED << highPreparedSeqno, queuedSeqnoAcks >>
    BY <1>11 DEF CleanUpTrackedWrites
  <2>2. tracked' \in SUBSET Seqno
    BY <2>1 DEF TypeOK
  <2> QED
    BY <1>none, <2>1, <2>2, PosRemoved
<1>12. CASE ProcessTimeout
  <2> DEFINE gone == { s \in tracked : \A u \in tracked : u <= s => u \in expired }
  <2>1. /\ ResolveWrites(gone, "ToAbort", sw, firstChain, secondChain)
        /\ UNCHANGED << highPreparedSeqno, queuedSeqnoAcks, op >>
    BY <1>12 DEF ProcessTimeout
  <2>2. /\ tracked' = tracked \ gone
        /\ firstChain' = Reposition(firstChain, tracked \ gone)
        /\ secondChain' = Reposition(secondChain, tracked \ gone)
    BY <2>1 DEF ResolveWrites
  <2>3. tracked \ gone \in SUBSET Seqno
    BY DEF TypeOK
  <2> QED
    BY <1>ack, <2>1, <2>2, <2>3, PosRemoved
<1>13. CASE StartCompletion
  BY <1>13, <1>frame DEF StartCompletion
<1>14. CASE CompleteSyncWrite
  BY <1>14, <1>frame DEF CompleteSyncWrite
<1>15. CASE UpdateCompletedSeqno
  BY <1>15, <1>frame DEF UpdateCompletedSeqno
<1>16. CASE StopCompletion
  BY <1>16, <1>frame DEF StopCompletion
<1>17. ASSUME NEW level \in Levels, QueueDirty(level)
       PROVE  PosInv'
  BY <1>17, <1>frame DEF QueueDirty
<1>18. CASE Flush
  BY <1>18, <1>frame DEF Flush
<1>19. ASSUME NEW n \in Node, NEW s \in Seqno, SeqnoAck(n, s)
       PROVE  PosInv'
  <2>1. /\ n # Self
        /\ UNCHANGED << tracked, firstChain, secondChain, highPreparedSeqno >>
    BY <1>19 DEF SeqnoAck
  <2>2. op'.kind = "ack" => op'.node # Self
    <3>1. \/ op' = op
          \/ op' = [kind |-> "ack", node |-> n, seqno |-> s, topo |-> FALSE]
      BY <1>19, Zenon DEF SeqnoAck
    <3> QED
      BY <1>ack, <2>1, <3>1
  <2>3. queuedSeqnoAcks'[Self] = 0
    <3>1. \/ queuedSeqnoAcks' = queuedSeqnoAcks
          \/ queuedSeqnoAcks' = [queuedSeqnoAcks EXCEPT ![n] = s]
      BY <1>19 DEF SeqnoAck
    <3>2. DOMAIN queuedSeqnoAcks = Node /\ Self \in Node
      BY ConstantsAssumption DEF TypeOK
    <3> QED
      BY <1>ack, <2>1, <3>1, <3>2
  <2> QED
    BY <2>1, <2>2, <2>3, PosFrame
<1>20. ASSUME NEW n \in Node, StreamEnd(n)
       PROVE  PosInv'
  <2>1. queuedSeqnoAcks'[Self] = 0
    <3>1. /\ n # Self
          /\ queuedSeqnoAcks' = [queuedSeqnoAcks EXCEPT ![n] =
                                    IF vbState = "active" THEN 0 ELSE @]
      BY <1>20, Zenon DEF StreamEnd
    <3>2. DOMAIN queuedSeqnoAcks = Node /\ Self \in Node
      BY ConstantsAssumption DEF TypeOK
    <3> QED
      BY <1>ack, <3>1, <3>2
  <2> QED
    BY <1>20, <1>ack, <2>1, PosFrame DEF StreamEnd
<1>21. ASSUME NEW t \in Topologies, SetTopology(t)
       PROVE  PosInv'
  BY <1>21, PosTopology DEF SetTopology
<1>22. ASSUME NEW s \in Seqno, Expire(s)
       PROVE  PosInv'
  BY <1>22, <1>frame DEF Expire
<1>23. ASSUME NEW k \in Key, DropCollection(k)
       PROVE  PosInv'
  BY <1>23, <1>frame DEF DropCollection
<1>24. ASSUME NEW k \in Key, DropPendingKey(k)
       PROVE  PosInv'
  <2>1. /\ tracked' \subseteq tracked
        /\ firstChain' = Reposition(firstChain, tracked')
        /\ secondChain' = Reposition(secondChain, tracked')
        /\ UNCHANGED << highPreparedSeqno, queuedSeqnoAcks, op >>
    BY <1>24 DEF DropPendingKey, EraseSyncWrite
  <2>2. tracked' \in SUBSET Seqno
    BY <2>1 DEF TypeOK
  <2> QED
    BY <1>ack, <2>1, <2>2, PosRemoved
<1>25. CASE ReleaseBlockedCookies
  BY <1>25, <1>frame DEF ReleaseBlockedCookies
<1>26. CASE SetDead
  BY <1>26, <1>frame DEF SetDead
<1>27. ASSUME NEW t \in Topologies, SetActive(t)
       PROVE  PosInv'
  BY <1>27, PosTopology DEF SetActive
<1>28. CASE SetActiveNoTopology
  BY <1>28, <1>frame DEF SetActiveNoTopology
<1>29. CASE UNCHANGED vars
  BY <1>29, <1>frame DEF vars
<1>30. CASE Handlers
  BY <1>1, <1>2, <1>3, <1>4, <1>5, <1>6, <1>7, <1>8, <1>9, <1>10, <1>11, <1>12,
     <1>13, <1>14, <1>15, <1>16, <1>30, Zenon DEF Handlers
<1>31. CASE Environment
  BY <1>17, <1>18, <1>19, <1>20, <1>21, <1>22, <1>23, <1>24, <1>25, <1>26, <1>27,
     <1>28, <1>31, Zenon DEF Environment
<1> QED
  BY <1>29, <1>30, <1>31, Zenon DEF Next

PositionsInv == TypeOK /\ ChainInv /\ PosInv

\* The inductive invariant of the positions holds always.
LEMMA PositionsInvariant == Spec => []PositionsInv
<1>1. Init => PositionsInv
  BY InitType, PosInit DEF PositionsInv
<1>2. PositionsInv /\ [Next]_vars => PositionsInv'
  BY StepType, PosStep DEF PositionsInv
<1> QED
  BY <1>1, <1>2, PTL DEF Spec

\* The iterators of both chains always point to a tracked SyncWrite or to
\* none, whatever SyncWrites are removed and however the topology changes.
THEOREM IteratorsAlwaysValid == Spec => []IteratorsValid
<1>1. PositionsInv => IteratorsValid
  BY DEF PositionsInv, PosInv, ValidIn, IteratorsValid
<1> QED
  BY <1>1, PositionsInvariant, PTL

\* A step that leaves the HPS alone passes nothing.
LEMMA FenceSame ==
    ASSUME TypeOK, UNCHANGED highPreparedSeqno
    PROVE  HPSNotPastUnpersisted
<1>1. highPreparedSeqno \in Nat /\ tracked \subseteq Nat
  BY SeqnoFacts DEF TypeOK
<1> QED
  BY <1>1 DEF HPSNotPastUnpersisted

\* updateHighPreparedSeqno, and the end of a null topology.
LEMMA FenceStep ==
    ASSUME TypeOK, ChainInv, PosInv, [Next]_vars, HasChain(firstChain)'
    PROVE  HPSNotPastUnpersisted
<1> USE DEF frontVars, flushVars, chainVars, seqnoVars, queueVars, ackVars, clientVars
<1>nat. /\ highPreparedSeqno \in Nat /\ persistenceSeqno \in Nat
        /\ tracked \subseteq Nat
  BY SeqnoFacts DEF TypeOK
<1>start. ASSUME StartUpdateHPS, UNCHANGED firstChain
          PROVE  HPSNotPastUnpersisted
  <2>1. HasChain(firstChain)
    BY <1>start DEF HasChain
  <2> QED
    BY <1>start, <2>1, StartUpdateType, FenceSame
<1>topo. ASSUME NEW t \in Topologies, SetReplicationTopology(t)
         PROVE  HPSNotPastUnpersisted
  <2>1. highPreparedSeqno' \in {highPreparedSeqno, persistenceSeqno}
    BY <1>topo, TopologyEffect, FenceFacts DEF TypeOK
  <2> QED
    BY <1>nat, <2>1 DEF HPSNotPastUnpersisted
<1>1. CASE LocalSyncWrite
  BY <1>1, <1>start DEF LocalSyncWrite
<1>2. CASE NotifyPersistence
  <2>1. CASE StartUpdateHPS
    BY <1>2, <1>start, <2>1 DEF NotifyPersistence
  <2>2. CASE UNCHANGED << tracked, highPreparedSeqno, op, notified, failed >>
    BY <2>2, FenceSame
  <2> QED
    BY <1>2, <2>1, <2>2 DEF NotifyPersistence
<1>3. CASE AdvancePersisted
  <2>1. highPreparedSeqno' <= persistenceSeqno /\ highPreparedSeqno' \in tracked
    <3> DEFINE next == NodeNext(firstChain.active)
    <3>1. next # 0 /\ next <= persistenceSeqno /\ highPreparedSeqno' = next
      BY <1>3 DEF AdvancePersisted, AdvanceHPS
    <3>2. /\ Self \in Members(firstChain)
          /\ next = NextIn(tracked, firstChain.pos[Self].it)
      BY <3>1, ActiveNext
    <3>3. firstChain.pos[Self].it \in SeqnoOr0
      BY <3>2, ItType DEF TypeOK
    <3>4. next \in tracked
      BY <3>1, <3>2, <3>3, NextTracked DEF TypeOK
    <3> QED
      BY <3>1, <3>4
  <2> QED
    BY <1>nat, <2>1 DEF HPSNotPastUnpersisted
<1>4. CASE AdvanceMajority
  <2> DEFINE next == NodeNext(firstChain.active)
             it == firstChain.pos[Self].it
  <2>1. next # 0 /\ ~IsPersistLevel(next) /\ highPreparedSeqno' = next
    BY <1>4 DEF AdvanceMajority, AdvanceHPS
  <2>2. Self \in Members(firstChain) /\ next = NextIn(tracked, it)
    BY <2>1, ActiveNext
  <2>3. it \in SeqnoOr0 /\ it <= highPreparedSeqno
    BY <2>2, ItType DEF TypeOK, PosInv, SelfBehind
  <2>4. next \in tracked /\ \A s \in tracked : s > it => next <= s
    BY <2>1, <2>2, <2>3, NextTracked DEF TypeOK
  <2>5. it \in Nat
    BY <2>3, SeqnoFacts
  <2> HIDE DEF next, it
  <2>6. ASSUME NEW s \in tracked, highPreparedSeqno < s, s <= next
        PROVE  s = next
    <3>1. s \in Nat /\ next \in Nat
      BY <1>nat, <2>4
    <3>2. s > it
      BY <1>nat, <2>3, <2>5, <2>6, <3>1
    <3>3. next <= s
      BY <2>4, <3>2
    <3> QED
      BY <2>6, <3>1, <3>3
  <2> QED
    BY <2>1, <2>6 DEF HPSNotPastUnpersisted
<1>5. ASSUME NEW t \in Topologies, SetTopology(t)
      PROVE  HPSNotPastUnpersisted
  BY <1>5, <1>topo DEF SetTopology
<1>6. ASSUME NEW t \in Topologies, SetActive(t)
      PROVE  HPSNotPastUnpersisted
  BY <1>6, <1>topo DEF SetActive
<1>7. CASE AddSyncWrite \/ PersistedDone \/ MajorityDone \/ AckAdvance \/ AckDone
           \/ CleanUpTrackedWrites \/ ProcessTimeout \/ StartCompletion
           \/ CompleteSyncWrite \/ UpdateCompletedSeqno \/ StopCompletion
  BY <1>7, FenceSame DEF AddSyncWrite, PersistedDone, MajorityDone, AckAdvance, AckDone,
     CleanUpTrackedWrites, ProcessTimeout, StartCompletion, CompleteSyncWrite,
     UpdateCompletedSeqno, StopCompletion
<1>8. CASE \/ \E n \in Node : PerformQueuedAck(n) \/ StreamEnd(n)
           \/ \E n \in Node, s \in Seqno : SeqnoAck(n, s)
           \/ \E s \in Seqno : Expire(s)
           \/ \E l \in Levels : QueueDirty(l)
           \/ Flush
  BY <1>8, FenceSame DEF PerformQueuedAck, StreamEnd, SeqnoAck, Expire, QueueDirty, Flush
<1>9. CASE \/ \E k \in Key : DropCollection(k) \/ DropPendingKey(k)
           \/ ReleaseBlockedCookies \/ SetDead \/ SetActiveNoTopology
           \/ UNCHANGED vars
  BY <1>9, FenceSame DEF DropCollection, DropPendingKey, EraseSyncWrite,
     ReleaseBlockedCookies, SetDead, SetActiveNoTopology, vars
<1>10. CASE Handlers
  BY <1>1, <1>2, <1>3, <1>4, <1>7, <1>8, <1>10, Zenon DEF Handlers
<1>11. CASE Environment
  BY <1>5, <1>6, <1>8, <1>9, <1>11, Zenon DEF Environment
<1> QED
  BY <1>9, <1>10, <1>11, Zenon DEF Next

\* updateHighPreparedSeqno, and the topology that ends a null topology, never
\* move the HPS past a prepare that has to be persisted on the active and is
\* not.
THEOREM HPSStopsAtUnpersisted == Spec => FenceAtUnpersisted
<1>1. PositionsInv /\ [Next]_vars
      => [HasChain(firstChain)' => HPSNotPastUnpersisted]_vars
  BY FenceStep DEF PositionsInv
<1> QED
  BY <1>1, PositionsInvariant, PTL DEF Spec, FenceAtUnpersisted

=============================================================================
