--------------------------- MODULE ActiveDMProofs ---------------------------
(***************************************************************************)
(* Theorems about the ActiveDurabilityMonitor, for every set of nodes and  *)
(* topologies, every number of SyncWrites and every environment.           *)
(***************************************************************************)
EXTENDS ActiveDMTypes

-----------------------------------------------------------------------------
(* Clients *)

\* Whoever is tracked, resolved or about to be tracked has not been completed;
\* prepares that are still to come have told nobody anything.
InFlight == tracked \cup resolved \cup ({front} \ {0})

ClientInv ==
    /\ ClientToldOnce
    /\ tracked \cap resolved = {}
    /\ front \notin tracked \cup resolved
    /\ \A s \in InFlight : s <= highSeqno /\ outcome[s] = "none"
    /\ \A s \in Seqno : s > highSeqno =>
          outcome[s] = "none" /\ response[s] = "none"

\* A step that answers or completes one SyncWrite, and does it properly.
LEMMA OneTold ==
    ASSUME NEW s \in Seqno, ClientToldOnce,
           \A u \in Seqno : u # s => /\ sw'[u] = sw[u]
                                    /\ outcome'[u] = outcome[u]
                                    /\ response'[u] = response[u],
           response'[s] # "twice",
           response'[s] = "success" => outcome'[s] = "committed",
           sw'[s].cookie /\ outcome'[s] = "committed" => response'[s] = "success",
           sw'[s].cookie /\ outcome'[s] = "none" => response'[s] = "none"
    PROVE  ClientToldOnce'
<1> SUFFICES ASSUME NEW u \in Seqno
             PROVE  /\ response'[u] # "twice"
                    /\ response'[u] = "success" => outcome'[u] = "committed"
                    /\ sw'[u].cookie /\ outcome'[u] = "committed"
                       => response'[u] = "success"
                    /\ sw'[u].cookie /\ outcome'[u] = "none"
                       => response'[u] = "none"
  BY Zenon DEF ClientToldOnce
<1>1. CASE u = s
  BY <1>1, Zenon
<1>2. CASE u # s
  BY <1>2, Zenon DEF ClientToldOnce
<1> QED
  BY <1>1, <1>2

\* A step that leaves clients alone and moves no SyncWrite into flight.
LEMMA ClientFrame ==
    ASSUME TypeOK, TypeOK', ClientInv,
           SameRequests(sw', sw),
           UNCHANGED << response, outcome, highSeqno >>,
           InFlight' \subseteq InFlight,
           tracked' \cap resolved' = {}, front' \notin tracked' \cup resolved'
    PROVE  ClientInv'
<1>1. \A s \in Seqno : sw'[s].cookie = sw[s].cookie
  BY DEF SameRequests, SameRequest
<1>2. ClientToldOnce'
  BY <1>1 DEF ClientInv, ClientToldOnce
<1>3. \A s \in InFlight' : s <= highSeqno' /\ outcome'[s] = "none"
  BY DEF ClientInv
<1>4. \A s \in Seqno : s > highSeqno' =>
          outcome'[s] = "none" /\ response'[s] = "none"
  BY DEF ClientInv
<1> QED
  BY <1>2, <1>3, <1>4 DEF ClientInv

\* Resolving tracked SyncWrites tells no client anything.
LEMMA ClientMoved ==
    ASSUME TypeOK, TypeOK', ClientInv, SameRequests(sw', sw), Moved,
           UNCHANGED << response, outcome, highSeqno, front >>
    PROVE  ClientInv'
<1>1. PICK S \in SUBSET tracked : tracked' = tracked \ S /\ resolved' = resolved \cup S
  BY DEF Moved
<1>2. /\ InFlight' \subseteq InFlight
      /\ tracked' \cap resolved' = {}
      /\ front' \notin tracked' \cup resolved'
  BY <1>1 DEF InFlight, ClientInv
<1> QED
  BY <1>2, ClientFrame

\* A step that only shrinks trackedWrites tells no client anything.
LEMMA ClientUnchanged ==
    ASSUME TypeOK, TypeOK', ClientInv, tracked' \subseteq tracked,
           UNCHANGED << sw, response, outcome, highSeqno, front, resolved >>
    PROVE  ClientInv'
<1>1. SameRequests(sw', sw)
  BY DEF SameRequests, SameRequest
<1>2. /\ InFlight' \subseteq InFlight
      /\ tracked' \cap resolved' = {}
      /\ front' \notin tracked' \cup resolved'
  BY DEF InFlight, ClientInv
<1> QED
  BY <1>1, <1>2, ClientFrame

\* At the start no client has been told anything.
LEMMA ClientInit == Init => ClientInv
<1> SUFFICES ASSUME Init PROVE ClientInv
  OBVIOUS
<1>1. TypeOK
  BY InitType
<1>2. /\ front = 0 /\ resolved = {}
      /\ response = [s \in Seqno |-> "none"] /\ outcome = [s \in Seqno |-> "none"]
  BY DEF Init, InitCommon
<1>3. \A s \in tracked : s <= highSeqno
  <2>1. CASE InitFresh
    BY <2>1 DEF InitFresh
  <2>2. CASE InitWarmup
    <3>1. /\ tracked = highCompletedSeqno + 1 .. highSeqno
          /\ highCompletedSeqno \in 0 .. highSeqno - 1
      BY <2>2, Zenon DEF InitWarmup
    <3> QED
      BY <1>1, <3>1, SeqnoFacts DEF TypeOK
  <2>3. CASE InitPassive
    <3>1. tracked = MinOf({highPreparedSeqno, highCompletedSeqno}) + 1 .. highSeqno
      BY <2>3, Zenon DEF InitPassive
    <3>a. /\ highPreparedSeqno \in SeqnoOr0 /\ highCompletedSeqno \in SeqnoOr0
          /\ highSeqno \in SeqnoOr0
      BY <1>1, Zenon DEF TypeOK
    <3>2. {highPreparedSeqno, highCompletedSeqno} \in SUBSET Nat /\ highSeqno \in Nat
      BY <3>a, SeqnoFacts
    <3>3. MinOf({highPreparedSeqno, highCompletedSeqno}) \in Nat
      BY <3>2, MinOfNat
    <3> QED
      BY <3>1, <3>2, <3>3
  <2> QED
    BY <2>1, <2>2, <2>3 DEF Init
<1>4. ClientToldOnce
  BY <1>2 DEF ClientToldOnce
<1>5. 0 \notin tracked /\ InFlight = tracked /\ tracked \subseteq Seqno
  BY <1>1, <1>2, SeqnoFacts DEF InFlight, TypeOK
<1> QED
  BY <1>2, <1>3, <1>4, <1>5 DEF ClientInv

\* Every step of every handler preserves what is known of the clients.
LEMMA ClientStep ==
    TypeOK /\ ChainInv /\ ClientInv /\ [Next]_vars => ClientInv'
<1> SUFFICES ASSUME TypeOK, ChainInv, ClientInv, [Next]_vars
             PROVE  ClientInv'
  OBVIOUS
<1> USE DEF frontVars, flushVars, chainVars, seqnoVars, queueVars, ackVars, clientVars
<1>type. TypeOK'
  BY StepType
<1>1. CASE AddSyncWrite
  <2>1. SameRequests(sw', sw)
    <3>1. \A s \in Seqno : SameRequest([sw[s] EXCEPT !.chained = TRUE], sw[s])
      BY DEF TypeOK, SyncWrite, SameRequest
    <3>2. \A s \in Seqno : SameRequest(sw[s], sw[s])
      BY DEF SameRequest
    <3>3. sw' = [sw EXCEPT ![front] = [sw[front] EXCEPT !.chained = TRUE]]
      BY <1>1 DEF AddSyncWrite
    <3> QED
      BY <3>1, <3>2, <3>3 DEF SameRequests, TypeOK
  <2>2. /\ tracked' = tracked \cup {front} /\ front' = 0 /\ front # 0
        /\ UNCHANGED << resolved, response, outcome, highSeqno >>
    BY <1>1 DEF AddSyncWrite
  <2>3. /\ InFlight' \subseteq InFlight
        /\ tracked' \cap resolved' = {}
    BY <2>2 DEF InFlight, ClientInv
  <2>4. front' \notin tracked' \cup resolved'
    BY <1>type, <2>2, SeqnoFacts DEF TypeOK
  <2> QED
    BY <1>type, <2>1, <2>2, <2>3, <2>4, ClientFrame
<1>2. CASE LocalSyncWrite
  <2>1. tracked' \subseteq tracked
    BY <1>2, StartUpdateType DEF LocalSyncWrite
  <2> QED
    BY <1>2, <1>type, <2>1, ClientUnchanged DEF LocalSyncWrite
<1>3. CASE NotifyPersistence
  <2>1. tracked' \subseteq tracked
    BY <1>3, StartUpdateType DEF NotifyPersistence
  <2> QED
    BY <1>3, <1>type, <2>1, ClientUnchanged DEF NotifyPersistence
<1>hps. ASSUME NEW next, AdvanceHPS(next)
        PROVE  ClientInv'
  <2>1. Moved /\ SameRequests(sw', sw)
    BY <1>hps, AdvanceEffect DEF AdvanceHPS
  <2>2. UNCHANGED << response, outcome, highSeqno, front >>
    BY <1>hps DEF AdvanceHPS
  <2> QED
    BY <1>type, <2>1, <2>2, ClientMoved
<1>4. CASE AdvancePersisted
  BY <1>4, <1>hps DEF AdvancePersisted
<1>5. CASE PersistedDone
  BY <1>5, <1>type, ClientUnchanged DEF PersistedDone
<1>6. CASE AdvanceMajority
  BY <1>6, <1>hps DEF AdvanceMajority
<1>7. CASE MajorityDone
  BY <1>7, <1>type, ClientUnchanged DEF MajorityDone
<1>8. CASE AckAdvance
  <2>1. Moved /\ SameRequests(sw', sw)
    BY <1>8, AdvanceEffect DEF AckAdvance
  <2>2. UNCHANGED << response, outcome, highSeqno, front >>
    BY <1>8 DEF AckAdvance
  <2> QED
    BY <1>type, <2>1, <2>2, ClientMoved
<1>9. CASE AckDone
  BY <1>9, <1>type, ClientUnchanged DEF AckDone
<1>10. ASSUME NEW n \in Node, PerformQueuedAck(n)
       PROVE  ClientInv'
  BY <1>10, <1>type, ClientUnchanged DEF PerformQueuedAck
<1>11. CASE CleanUpTrackedWrites
  <2> DEFINE completed == { s \in tracked : sw[s].status = "Completed" }
             satisfied == { s \in tracked \ completed :
                              IsSatisfied(sw[s], s, firstChain, secondChain) }
  <2>1. /\ tracked' = tracked \ (completed \cup satisfied)
        /\ resolved' = resolved \cup satisfied
        /\ sw' = [s \in Seqno |->
                    IF s \in completed THEN ResetChains(sw[s])
                    ELSE IF s \in satisfied
                         THEN ResetChains([sw[s] EXCEPT !.status = "ToCommit"])
                         ELSE sw[s]]
        /\ UNCHANGED << response, outcome, highSeqno, front >>
    BY <1>11 DEF CleanUpTrackedWrites
  <2>2. satisfied \subseteq tracked
    OBVIOUS
  <2> HIDE DEF completed, satisfied
  <2>3. SameRequests(sw', sw)
    <3>1. \A s \in Seqno : sw[s] \in SyncWrite
      BY DEF TypeOK
    <3>2. \A s \in Seqno :
             /\ SameRequest(ResetChains(sw[s]), sw[s])
             /\ SameRequest(ResetChains([sw[s] EXCEPT !.status = "ToCommit"]), sw[s])
             /\ SameRequest(sw[s], sw[s])
      BY <3>1, ResetChainsType, ResolveType DEF Statuses, SameRequest
    <3> QED
      BY <2>1, <3>2 DEF SameRequests
  <2>4. /\ InFlight' \subseteq InFlight
        /\ tracked' \cap resolved' = {}
        /\ front' \notin tracked' \cup resolved'
    BY <2>1, <2>2 DEF InFlight, ClientInv
  <2> QED
    BY <1>type, <2>1, <2>3, <2>4, ClientFrame
<1>12. CASE ProcessTimeout
  <2> DEFINE gone == { s \in tracked : \A u \in tracked : u <= s => u \in expired }
  <2>1. /\ ResolveWrites(gone, "ToAbort", sw, firstChain, secondChain)
        /\ UNCHANGED << response, outcome, highSeqno, front >>
    BY <1>12 DEF ProcessTimeout
  <2>2. gone \in SUBSET tracked /\ "ToAbort" \in Statuses
    BY DEF Statuses
  <2> HIDE DEF gone
  <2>3. /\ tracked' = tracked \ gone /\ resolved' = resolved \cup gone
        /\ SameRequests(sw', sw)
    BY <2>1, <2>2, ResolveWritesEffect DEF TypeOK
  <2>4. Moved
    BY <2>2, <2>3 DEF Moved
  <2> QED
    BY <1>type, <2>1, <2>3, <2>4, ClientMoved
<1>13. CASE StartCompletion
  BY <1>13, <1>type, ClientUnchanged DEF StartCompletion
<1>15. CASE UpdateCompletedSeqno
  BY <1>15, <1>type, ClientUnchanged DEF UpdateCompletedSeqno
<1>16. CASE StopCompletion
  BY <1>16, <1>type, ClientUnchanged DEF StopCompletion
<1>18. CASE Flush
  BY <1>18, <1>type, ClientUnchanged DEF Flush
<1>19. ASSUME NEW n \in Node, NEW s \in Seqno, SeqnoAck(n, s)
       PROVE  ClientInv'
  BY <1>19, <1>type, ClientUnchanged DEF SeqnoAck
<1>20. ASSUME NEW n \in Node, StreamEnd(n)
       PROVE  ClientInv'
  BY <1>20, <1>type, ClientUnchanged DEF StreamEnd
<1>topo. ASSUME NEW t \in Topologies, SetReplicationTopology(t),
                UNCHANGED << response, outcome, highSeqno, front >>
         PROVE  ClientInv'
  <2>1. Moved /\ SameRequests(sw', sw)
    BY <1>topo, TopologyEffect
  <2> QED
    BY <1>topo, <1>type, <2>1, ClientMoved
<1>21. ASSUME NEW t \in Topologies, SetTopology(t)
       PROVE  ClientInv'
  BY <1>21, <1>topo DEF SetTopology
<1>22. ASSUME NEW s \in Seqno, Expire(s)
       PROVE  ClientInv'
  BY <1>22, <1>type, ClientUnchanged DEF Expire
<1>23. ASSUME NEW k \in Key, DropCollection(k)
       PROVE  ClientInv'
  BY <1>23, <1>type, ClientUnchanged DEF DropCollection
<1>27. ASSUME NEW t \in Topologies, SetActive(t)
       PROVE  ClientInv'
  BY <1>27, <1>topo DEF SetActive
<1>28. CASE SetActiveNoTopology
  BY <1>28, <1>type, ClientUnchanged DEF SetActiveNoTopology
<1>29. CASE UNCHANGED vars
  BY <1>29, <1>type, ClientUnchanged DEF vars
<1>14. CASE CompleteSyncWrite
  <2> DEFINE s == MinOf(resolved)
             gone == KeyOf[s] \in dropped
             committing == sw[s].status = "ToCommit"
  <2>1. /\ resolved' = resolved \ {s}
        /\ outcome' = [outcome EXCEPT ![s] =
             IF gone THEN "dropped"
             ELSE IF committing THEN "committed" ELSE "aborted"]
        /\ response' =
             IF ~sw[s].cookie THEN response
             ELSE Tell(response, s, IF committing /\ ~gone THEN "success"
                                    ELSE "ambiguous")
        /\ UNCHANGED << sw, tracked, highSeqno, front >>
    BY <1>14 DEF CompleteSyncWrite
  <2>2. s \in resolved /\ s \in Seqno
    <3>1. resolved \in SUBSET Nat /\ resolved # {} /\ resolved \subseteq Seqno
      BY <1>14, SeqnoFacts DEF CompleteSyncWrite, TypeOK
    <3> QED
      BY <3>1, MinOfNat
  <2> HIDE DEF s, gone, committing
  <2>3. outcome[s] = "none" /\ s <= highSeqno /\ s \notin tracked /\ s # front
    BY <2>2 DEF ClientInv, InFlight
  <2>4. ClientToldOnce'
    <3>1. ASSUME NEW u \in Seqno, u # s
          PROVE  outcome'[u] = outcome[u] /\ response'[u] = response[u]
      BY <2>1, <2>2, <3>1 DEF TypeOK, Tell
    <3>2. outcome'[s] = IF gone THEN "dropped"
                        ELSE IF committing THEN "committed" ELSE "aborted"
      BY <2>1, <2>2 DEF TypeOK
    <3>3. CASE sw[s].cookie
      <4>1. response[s] = "none"
        BY <2>2, <2>3, <3>3 DEF ClientInv, ClientToldOnce
      <4>2. response'[s] = IF committing /\ ~gone THEN "success" ELSE "ambiguous"
        BY <2>1, <2>2, <3>3, <4>1 DEF TypeOK, Tell
      <4>3. /\ response'[s] # "twice" /\ outcome'[s] # "none"
            /\ response'[s] = "success" <=> outcome'[s] = "committed"
        BY <3>2, <4>2
      <4>4. ASSUME NEW u \in Seqno, u # s
            PROVE  sw'[u] = sw[u] /\ outcome'[u] = outcome[u]
                   /\ response'[u] = response[u]
        BY <2>1, <3>1, <4>4, Zenon
      <4> QED
        BY <2>2, <4>3, <4>4, OneTold, Zenon DEF ClientInv
    <3>4. CASE ~sw[s].cookie
      <4>1. response'[s] = response[s] /\ response[s] # "success" /\ response[s] # "twice"
        BY <2>1, <2>2, <2>3, <3>4 DEF ClientInv, ClientToldOnce
      <4>2. \A u \in Seqno : u # s => /\ sw'[u] = sw[u]
                                     /\ outcome'[u] = outcome[u]
                                     /\ response'[u] = response[u]
        BY <2>1, <3>1, Zenon
      <4>3. sw'[s] = sw[s] /\ ~sw[s].cookie
        BY <2>1, <3>4, Zenon
      <4> QED
        BY <2>2, <4>1, <4>2, <4>3, OneTold, Zenon DEF ClientInv
    <3> QED
      BY <3>3, <3>4
  <2>5. ASSUME NEW u \in Seqno, u > highSeqno'
        PROVE  outcome'[u] = "none" /\ response'[u] = "none"
    <3>1. highSeqno \in Nat /\ highSeqno' = highSeqno
      BY <2>1, SeqnoFacts, Zenon DEF TypeOK
    <3>2. u # s /\ u > highSeqno
      BY <2>2, <2>3, <2>5, <3>1, SeqnoFacts
    <3>3. outcome[u] = "none" /\ response[u] = "none"
      BY <3>2, Zenon DEF ClientInv
    <3> QED
      BY <2>1, <2>2, <3>2, <3>3 DEF TypeOK, Tell
  <2>6. \A u \in InFlight' : u <= highSeqno' /\ outcome'[u] = "none"
    BY <2>1, <2>2, <2>3, SeqnoFacts DEF ClientInv, InFlight, TypeOK
  <2> QED
    BY <2>1, <2>4, <2>5, <2>6 DEF ClientInv
<1>17. ASSUME NEW level \in Levels, QueueDirty(level)
       PROVE  ClientInv'
  <2> DEFINE s == highSeqno + 1
  <2>1. /\ highSeqno' = s /\ front' = s /\ s \in Seqno /\ s > highSeqno
        /\ front = 0
        /\ sw' = [sw EXCEPT ![s] = NewSyncWrite(level, FALSE)]
        /\ UNCHANGED << tracked, resolved, response, outcome >>
    <3>1. s \in Seqno /\ s > highSeqno
      <4>1. highSeqno \in SeqnoOr0
        BY Zenon DEF TypeOK
      <4>2. highSeqno < MaxSeqno
        BY <1>17, Zenon DEF QueueDirty
      <4> QED
        BY <4>1, <4>2, SeqnoFacts DEF Seqno, SeqnoOr0
    <3> QED
      BY <1>17, <3>1 DEF QueueDirty
  <2> HIDE DEF s
  <2>2. outcome[s] = "none" /\ response[s] = "none"
    BY <2>1 DEF ClientInv
  <2>3. ClientToldOnce'
    <3>1. \A u \in Seqno : u # s => sw'[u] = sw[u]
      BY <2>1 DEF TypeOK
    <3> QED
      BY <2>1, <2>2, <3>1 DEF ClientInv, ClientToldOnce
  <2>4. s \notin tracked \cup resolved
    BY <2>1, SeqnoFacts DEF ClientInv, InFlight, TypeOK
  <2>5. ASSUME NEW u \in InFlight'
        PROVE  u <= highSeqno' /\ outcome'[u] = "none"
    <3>1. CASE u = s
      BY <2>1, <2>2, <3>1, SeqnoFacts
    <3>2. CASE u \in tracked \cup resolved
      <4>1. u <= highSeqno /\ outcome[u] = "none" /\ u \in Nat
        BY <3>2, SeqnoFacts DEF ClientInv, InFlight, TypeOK
      <4> QED
        BY <2>1, <4>1, SeqnoFacts DEF TypeOK
    <3> QED
      BY <2>1, <3>1, <3>2 DEF InFlight
  <2>6. ASSUME NEW u \in Seqno, u > highSeqno'
        PROVE  outcome'[u] = "none" /\ response'[u] = "none"
    <3>1. u > highSeqno
      BY <2>1, <2>6, SeqnoFacts DEF TypeOK
    <3> QED
      BY <2>1, <3>1 DEF ClientInv
  <2> QED
    BY <2>1, <2>3, <2>4, <2>5, <2>6 DEF ClientInv
<1>24. ASSUME NEW k \in Key, DropPendingKey(k)
       PROVE  ClientInv'
  <2> DEFINE s == MaxOf({ u \in 1 .. highSeqno : KeyOf[u] = k })
             ofKey == { u \in tracked : KeyOf[u] = k }
             gone == IF MinOf(ofKey) = s THEN {s} ELSE {}
  <2>1. /\ tracked' = tracked \ gone /\ ofKey # {}
        /\ response' = IF gone # {} /\ sw[s].cookie
                       THEN Tell(response, s, "ambiguous") ELSE response
        /\ outcome' = [outcome EXCEPT ![s] = IF gone # {} THEN "dropped" ELSE @]
        /\ UNCHANGED << sw, resolved, highSeqno, front >>
    BY <1>24 DEF DropPendingKey, EraseSyncWrite
  <2>2. MinOf(ofKey) \in tracked
    <3>1. ofKey \in SUBSET Nat /\ ofKey \subseteq tracked
      BY SeqnoFacts DEF TypeOK
    <3> QED
      BY <2>1, <3>1, MinOfNat
  <2>3. gone = {} \/ (gone = {s} /\ s \in tracked)
    BY <2>2
  <2> HIDE DEF s, ofKey, gone
  <2>4. CASE gone = {}
    <3>1. UNCHANGED << tracked, response >> /\ outcome' = outcome
      BY <2>1, <2>4 DEF TypeOK
    <3> QED
      BY <1>type, <2>1, <3>1, ClientUnchanged
  <2>5. CASE gone = {s} /\ s \in tracked
    <3>1. s \in Seqno /\ outcome[s] = "none" /\ s \notin resolved /\ s # front
          /\ s <= highSeqno
      BY <2>5 DEF ClientInv, InFlight, TypeOK
    <3>2. outcome'[s] = "dropped"
      BY <2>1, <2>5, <3>1 DEF TypeOK
    <3>3. \A u \in Seqno : u # s =>
             outcome'[u] = outcome[u] /\ response'[u] = response[u]
      BY <2>1, <3>1 DEF TypeOK, Tell
    <3>4. response'[s] # "twice" /\ response'[s] # "success"
      <4>1. CASE sw[s].cookie
        <5>1. response[s] = "none"
          BY <3>1, <4>1 DEF ClientInv, ClientToldOnce
        <5> QED
          BY <2>1, <2>5, <3>1, <4>1, <5>1 DEF TypeOK, Tell
      <4>2. CASE ~sw[s].cookie
        BY <2>1, <3>1, <4>2 DEF ClientInv, ClientToldOnce
      <4> QED
        BY <4>1, <4>2
    <3>5. ClientToldOnce'
      <4>1. ASSUME NEW u \in Seqno, u # s
            PROVE  sw'[u] = sw[u] /\ outcome'[u] = outcome[u]
                   /\ response'[u] = response[u]
        BY <2>1, <3>3, <4>1, Zenon
      <4>2. outcome'[s] = "dropped" /\ response'[s] # "twice" /\ response'[s] # "success"
        BY <3>2, <3>4
      <4>3. "dropped" # "committed" /\ "dropped" # "none"
        OBVIOUS
      <4> QED
        BY <3>1, <4>1, <4>2, <4>3, OneTold, Zenon DEF ClientInv
    <3>6. \A u \in InFlight' : u <= highSeqno' /\ outcome'[u] = "none"
      <4>1. InFlight' \subseteq InFlight /\ s \notin InFlight'
        BY <2>1, <2>5, <3>1 DEF InFlight
      <4>2. InFlight \subseteq Seqno
        BY SeqnoFacts DEF InFlight, TypeOK
      <4> QED
        BY <2>1, <3>3, <4>1, <4>2 DEF ClientInv
    <3>7. ASSUME NEW u \in Seqno, u > highSeqno'
          PROVE  outcome'[u] = "none" /\ response'[u] = "none"
      <4>1. u # s
        <5>1. highSeqno \in Nat /\ highSeqno' = highSeqno
          BY <2>1, SeqnoFacts, Zenon DEF TypeOK
        <5> QED
          BY <3>1, <3>7, <5>1, SeqnoFacts
      <4> QED
        BY <2>1, <3>3, <3>7, <4>1 DEF ClientInv
    <3> QED
      BY <2>1, <3>5, <3>6, <3>7 DEF ClientInv
  <2> QED
    BY <2>3, <2>4, <2>5
<1>tell. ASSUME TellInFlight(tracked \cup resolved), front = 0 \/ UNCHANGED tracked,
                UNCHANGED << highSeqno, front, outcome >>,
                tracked' \cup resolved' = tracked \cup resolved,
                tracked' \cap resolved' = {}
         PROVE  ClientInv'
  <2> DEFINE S == tracked \cup resolved
  <2>1. /\ sw' = WithoutCookies(sw, S)
        /\ response' = [s \in Seqno |-> IF s \in S /\ sw[s].cookie
                                        THEN Tell(response, s, "ambiguous")[s]
                                        ELSE response[s]]
    BY <1>tell DEF TellInFlight
  <2>2. S \subseteq Seqno /\ S \subseteq InFlight
    BY DEF TypeOK, InFlight
  <2> HIDE DEF S
  <2>3. ASSUME NEW s \in Seqno
        PROVE  /\ response'[s] # "twice"
               /\ response'[s] = "success" => outcome'[s] = "committed"
               /\ sw'[s].cookie /\ outcome'[s] = "committed" => response'[s] = "success"
               /\ sw'[s].cookie /\ outcome'[s] = "none" => response'[s] = "none"
    <3>1. CASE s \in S
      <4>1. outcome[s] = "none" /\ sw[s] \in SyncWrite
        BY <2>2, <3>1 DEF ClientInv, TypeOK
      <4>2. sw'[s].cookie = FALSE
        BY <2>1, <3>1, <4>1 DEF WithoutCookies, SyncWrite
      <4>3. CASE sw[s].cookie
        <5>1. response[s] = "none"
          BY <4>1, <4>3 DEF ClientInv, ClientToldOnce
        <5>2. response'[s] = "ambiguous"
          BY <2>1, <3>1, <4>3, <5>1 DEF Tell, TypeOK
        <5> QED
          BY <4>2, <5>2
      <4>4. CASE ~sw[s].cookie
        <5>1. response'[s] = response[s]
          BY <2>1, <4>4
        <5> QED
          BY <1>tell, <4>1, <4>2, <5>1 DEF ClientInv, ClientToldOnce
      <4> QED
        BY <4>3, <4>4
    <3>2. CASE s \notin S
      <4>1. sw'[s] = sw[s] /\ response'[s] = response[s]
        BY <2>1, <3>2 DEF WithoutCookies
      <4> QED
        BY <1>tell, <4>1 DEF ClientInv, ClientToldOnce
    <3> QED
      BY <3>1, <3>2
  <2>4. ClientToldOnce'
    BY <2>3 DEF ClientToldOnce
  <2>5. InFlight' = InFlight
    BY <1>tell DEF InFlight
  <2>6. ASSUME NEW u \in Seqno, u > highSeqno'
        PROVE  outcome'[u] = "none" /\ response'[u] = "none"
    <3>1. u \notin S
      <4>1. highSeqno \in Nat
        BY SeqnoFacts, Zenon DEF TypeOK
      <4>2. \A v \in S : v <= highSeqno
        BY <2>2, Zenon DEF ClientInv
      <4> QED
        BY <1>tell, <2>6, <4>1, <4>2, SeqnoFacts
    <3> QED
      BY <1>tell, <2>1, <2>6, <3>1 DEF ClientInv
  <2>7. \A s \in InFlight' : s <= highSeqno' /\ outcome'[s] = "none"
    BY <1>tell, <2>5 DEF ClientInv
  <2>8. front' \notin tracked' \cup resolved'
    BY <1>tell DEF ClientInv
  <2> QED
    BY <1>tell, <2>4, <2>6, <2>7, <2>8 DEF ClientInv
<1>25. CASE ReleaseBlockedCookies
  <2>1. /\ TellInFlight(tracked \cup resolved)
        /\ UNCHANGED << highSeqno, front, outcome, tracked, resolved >>
    BY <1>25 DEF ReleaseBlockedCookies
  <2> QED
    BY <1>tell, <2>1 DEF ClientInv
<1>26. CASE SetDead
  <2>1. /\ TellInFlight(tracked \cup resolved) /\ front = 0
        /\ tracked' = tracked \cup resolved /\ resolved' = {}
        /\ UNCHANGED << highSeqno, front, outcome >>
    BY <1>26 DEF SetDead, VBStateExclusive
  <2> QED
    BY <1>tell, <2>1
<1>30. CASE Handlers
  BY <1>1, <1>2, <1>3, <1>4, <1>5, <1>6, <1>7, <1>8, <1>9, <1>10, <1>11, <1>12,
     <1>13, <1>14, <1>15, <1>16, <1>30, Zenon DEF Handlers
<1>31. CASE Environment
  BY <1>17, <1>18, <1>19, <1>20, <1>21, <1>22, <1>23, <1>24, <1>25, <1>26, <1>27,
     <1>28, <1>31, Zenon DEF Environment
<1> QED
  BY <1>29, <1>30, <1>31, Zenon DEF Next

\* The client of a SyncWrite is told at most once, and success exactly when
\* the SyncWrite was committed while the client waited: through every
\* interleaving of completion, timeouts, dropped collections, released
\* cookies and active->dead->active.
THEOREM ClientsToldOnce == Spec => []ClientToldOnce
<1>1. Init => TypeOK /\ ChainInv /\ ClientInv
  BY InitType, ClientInit
<1>2. TypeOK /\ ChainInv /\ ClientInv /\ [Next]_vars
      => (TypeOK /\ ChainInv /\ ClientInv)'
  BY StepType, ClientStep
<1>3. ClientInv => ClientToldOnce
  BY DEF ClientInv
<1> QED
  BY <1>1, <1>2, <1>3, PTL DEF Spec

=============================================================================
