------------------------------ MODULE ActiveDM ------------------------------
(***************************************************************************)
(* The ActiveDurabilityMonitor of one vBucket, with the parts of VBucket   *)
(* and KVBucket that drive it: front-end threads preparing SyncWrites, the *)
(* flusher, replicas acknowledging seqnos, ns_server setting the           *)
(* replication topology and the vBucket state, the timeout task, the       *)
(* completion task and the purge of dropped collections.                   *)
(*                                                                         *)
(* A SyncWrite is identified by the seqno of its prepare.  Seqnos of other *)
(* items are left out: every guard compares a seqno with that of a prepare.*)
(* The list trackedWrites is the set `tracked' (SeqnoSets).  The           *)
(* resolvedQueue is FIFO and enqueue() throws unless seqnos increase, so   *)
(* it is the set `resolved' too.                                           *)
(*                                                                         *)
(* The loops that run under the State lock take one step per iteration;    *)
(* `op' says which handler holds the lock.  Exceptions and failed contract *)
(* checks (Monotonic<.., ThrowExceptionPolicy>, Expects, Ensures) put a    *)
(* name into `failed', and the program goes no further.                    *)
(***************************************************************************)
EXTENDS Integers, FiniteSets, Sequences, SeqnoSets

CONSTANTS
    Node,               \* names of the nodes of the cluster
    Self,               \* the node that holds this (active) vBucket
    NoNode,             \* no node: the active of a null chain
    Undefined,          \* an undefined (null) member of a chain
    Key,                \* document keys, each in a collection of its own
    KeyOf,              \* the key of the n-th prepare
    MaxSeqno,           \* bound: number of prepares
    Levels,             \* durability levels the clients use
    maxAllowedReplicas, \* limit above which SyncWrites are refused
    Topologies,         \* topologies ns_server may set
    FirstTopologies,    \* topologies it may set while there is none
    StartModes,         \* how the monitor came into being
    Env                 \* optional behaviours of the environment

Seqno == 1 .. MaxSeqno
SeqnoOr0 == 0 .. MaxSeqno

AllLevels == {"Majority", "MajorityAndPersistOnMaster", "PersistToMajority"}
Statuses == {"Pending", "ToCommit", "ToAbort", "Completed"}

ASSUME ConstantsAssumption ==
    /\ MaxSeqno \in Nat
    /\ IsFiniteSet(Node)
    /\ Self \in Node
    /\ NoNode \notin Node
    /\ Undefined \notin Node
    /\ KeyOf \in [Seqno -> Key]
    /\ Levels \subseteq AllLevels
    /\ maxAllowedReplicas \in Nat
    /\ FirstTopologies \subseteq Topologies
    /\ \A t \in Topologies :
          /\ Len(t) \in 1 .. 2
          /\ t \in Seq(Seq(Node \cup {Undefined}))
          /\ \A i \in 1 .. Len(t) : t[i] # << >> /\ t[i][1] \in Node
          /\ \A i \in 1 .. Len(t) : \A j, k \in 1 .. Len(t[i]) :
                t[i][j] = t[i][k] => j = k \/ t[i][j] = Undefined
          /\ t[1][1] = Self

VARIABLES
    vbState,            \* VBucket::state: "active" or "dead"
    highSeqno,          \* last prepare queued in the CheckpointManager
    persistenceSeqno,   \* VBucket::persistenceSeqno
    flushed,            \* flusher moved persistenceSeqno, DM not told yet
    front,              \* prepare queued but not tracked yet (dmQueueMutex)
    localNotify,        \* front-end threads yet to call checkForCommit
    sw,                 \* the ActiveSyncWrite of each prepare
    expired,            \* SyncWrites whose expiry time has passed
    timer,              \* SyncWrite whose expiry the timeout task waits for
    tracked,            \* State::trackedWrites
    firstChain, secondChain,
    lastTrackedSeqno, lastCommittedSeqno, lastAbortedSeqno,
    highPreparedSeqno, highCompletedSeqno,
    queuedSeqnoAcks,    \* 0: no ack queued for the node
    resolved, highEnqueuedSeqno,     \* ResolvedQueue
    op,                 \* the handler that holds the State lock
    consumer,           \* DurabilityCompletionTask and its SyncWrite in hand
    notified,           \* the completion task has been woken
    dropped,            \* keys whose collection has been dropped
    acked,              \* last seqno each replica acked on its stream
    everAcked,          \* history: highest seqno each replica ever acked
    response,           \* what the client of each SyncWrite was told
    outcome,            \* what was done to each SyncWrite
    failed              \* checks that failed

frontVars == << highSeqno, front, localNotify >>
flushVars == << persistenceSeqno, flushed >>
chainVars == << firstChain, secondChain >>
seqnoVars == << lastTrackedSeqno, lastCommittedSeqno, lastAbortedSeqno,
                highCompletedSeqno >>
queueVars == << resolved, highEnqueuedSeqno >>
ackVars == << acked, everAcked >>
clientVars == << response, outcome >>
vars == << vbState, frontVars, flushVars, sw, expired, timer, tracked,
           chainVars, seqnoVars, highPreparedSeqno, queuedSeqnoAcks,
           queueVars, op, consumer, notified, dropped, ackVars, clientVars,
           failed >>

-----------------------------------------------------------------------------
(* Helpers *)

Fails(name, cond) == IF cond THEN {name} ELSE {}
Running == failed = {}

IsPersistLevel(s) ==
    sw[s].level \in {"MajorityAndPersistOnMaster", "PersistToMajority"}

-----------------------------------------------------------------------------
(* ReplicationChain *)

NoChain == [active |-> NoNode, majority |-> 0, pos |-> << >>]
HasChain(c) == c.active # NoNode
Members(c) == DOMAIN c.pos

ReplicationChain(nodes) ==
    [active   |-> nodes[1],
     majority |-> Len(nodes) \div 2 + 1,
     pos      |-> [n \in { nodes[i] : i \in 1 .. Len(nodes) } \ {Undefined}
                      |-> [it |-> 0, lastWrite |-> 0]]]

IsDurabilityPossible(c) ==
    /\ Cardinality(Members(c)) <= maxAllowedReplicas + 1
    /\ Cardinality(Members(c)) >= c.majority

DurabilityPossible(first, second) ==
    /\ HasChain(first)
    /\ IsDurabilityPossible(first)
    /\ HasChain(second) => IsDurabilityPossible(second)

HasAcked(c, n, s) == n \in Members(c) /\ c.pos[n].lastWrite >= s

\* Mutant: the iterators are left where they are.
RepositionForgotten(c, T) == c

\* Iterators into the list are moved to the previous element before the
\* element they point to is removed; T is what remains of the list.
Reposition(c, T) ==
    [c EXCEPT !.pos = [n \in Members(c) |->
        IF c.pos[n].it \in T \cup {0} THEN c.pos[n]
        ELSE [c.pos[n] EXCEPT !.it = PrevIn(T, @)]]]

-----------------------------------------------------------------------------
(* ActiveSyncWrite *)

NewSyncWrite(level, infinite) ==
    [level |-> level, infinite |-> infinite, expiry |-> ~infinite,
     cookie |-> TRUE, status |-> "Pending", chained |-> FALSE,
     ack1 |-> 0, ack2 |-> 0]

\* ActiveSyncWrite::ack: count the node in every chain it is a member of.
Ack(w, n, first, second) ==
    [w EXCEPT !.ack1 = @ + (IF n \in Members(first) THEN 1 ELSE 0),
              !.ack2 = @ + (IF n \in Members(second) THEN 1 ELSE 0)]


\* ActiveSyncWrite::isSatisfied
IsSatisfied(w, s, first, second) ==
    /\ w.ack1 >= first.majority
    /\ HasAcked(first, first.active, s)
    /\ HasChain(second) =>
         /\ w.ack2 >= second.majority
         /\ \/ second.active = first.active
            \/ HasAcked(second, second.active, s)

\* Mutant: the old counter is taken over, whoever the members are now.
AckCountKept(w, s, new) == IF w.chained /\ HasChain(new) THEN w.ack1 ELSE 0

\* ActiveSyncWrite::resetTopology: acks given in the old chains still count.
AckCountForNewChain(w, s, new) ==
    IF w.chained
    THEN Cardinality({ n \in Members(new) : \/ HasAcked(firstChain, n, s)
                                            \/ HasAcked(secondChain, n, s) })
    ELSE 0

ResetTopology(w, s, first, second) ==
    [w EXCEPT !.chained = TRUE,
              !.ack1 = AckCountForNewChain(w, s, first),
              !.ack2 = AckCountForNewChain(w, s, second)]

ResetChains(w) == [w EXCEPT !.chained = FALSE, !.ack1 = 0, !.ack2 = 0]

\* What the client is told; a client told twice is recorded as such.
Tell(resp, s, what) ==
    [resp EXCEPT ![s] = IF @ = "none" THEN what ELSE "twice"]

-----------------------------------------------------------------------------
(* Locks.  The vBucket stateLock is held shared by every operation below   *)
(* and exclusively by a change of state or topology; the State lock is     *)
(* held by the handler `op' names.                                         *)

NoOp == [kind |-> "none", node |-> NoNode, seqno |-> 0, topo |-> FALSE]
Op(kind) == [NoOp EXCEPT !.kind = kind]
StateUnlocked == op = NoOp
VBStateShared == op.kind # "topo" /\ ~op.topo
VBStateExclusive ==
    /\ StateUnlocked
    /\ front = 0
    /\ localNotify = 0
    /\ ~consumer.running

\* checkForResolvedSyncWrites: wake the completion task, after the handler
\* has released the State lock, if the resolvedQueue is not empty.
WakeIfResolved(q) == notified' = (notified \/ q # {})

\* State::scheduleTimeoutCallback
NextExpiry(T, w) == IF T # {} /\ w[Front(T)].expiry THEN Front(T) ELSE 0

-----------------------------------------------------------------------------
(* Moving SyncWrites out of trackedWrites *)

\* Mutant: removing the first SyncWrite does not reschedule the timeout.
ResolveWithoutReschedule(S, status, w, first, second) ==
    LET T == tracked \ S IN
    /\ tracked' = T
    /\ sw' = [s \in Seqno |-> IF s \in S
                               THEN ResetChains([w[s] EXCEPT !.status = status])
                               ELSE w[s]]
    /\ firstChain' = Reposition(first, T)
    /\ secondChain' = Reposition(second, T)
    /\ resolved' = resolved \cup S
    /\ highEnqueuedSeqno' = IF S = {} THEN highEnqueuedSeqno ELSE MaxOf(S)
    /\ UNCHANGED timer

\* State::removeSyncWrite and ResolvedQueue::enqueue for the SyncWrites of S,
\* in seqno order, from trackedWrites w with the positions of the two chains.
ResolveWrites(S, status, w, first, second) ==
    LET T == tracked \ S IN
    /\ tracked' = T
    /\ sw' = [s \in Seqno |-> IF s \in S
                               THEN ResetChains([w[s] EXCEPT !.status = status])
                               ELSE w[s]]
    /\ firstChain' = Reposition(first, T)
    /\ secondChain' = Reposition(second, T)
    /\ timer' = IF Front(tracked) \in S THEN NextExpiry(T, w) ELSE timer
    /\ resolved' = resolved \cup S
    /\ highEnqueuedSeqno' = IF S = {} THEN highEnqueuedSeqno ELSE MaxOf(S)

\* highEnqueuedSeqno is Monotonic: enqueue() throws out of seqno order.
EnqueueFails(S) ==
    Fails("enqueueOrder", \E s \in S : s <= highEnqueuedSeqno)

-----------------------------------------------------------------------------
(* Front-end: VBucket::queueItem for a prepare, then checkForCommit *)

PendingInHashTable(k) ==
    \E s \in tracked \cup resolved \cup {front} :
        s # 0 /\ KeyOf[s] = k /\ sw[s].status # "Completed"

\* The prepare gets its seqno and becomes visible to the DCP streams ...
QueueDirty(level) ==
    /\ Running /\ vbState = "active" /\ VBStateShared
    /\ front = 0 /\ highSeqno < MaxSeqno
    /\ DurabilityPossible(firstChain, secondChain)
    /\ LET s == highSeqno + 1 IN
       /\ ~PendingInHashTable(KeyOf[s])
       /\ KeyOf[s] \notin dropped
       /\ highSeqno' = s
       /\ front' = s
       /\ sw' = [sw EXCEPT ![s] = NewSyncWrite(level, FALSE)]
    /\ UNCHANGED << vbState, localNotify, flushVars, expired, timer, tracked,
                    chainVars, seqnoVars, highPreparedSeqno, queuedSeqnoAcks,
                    queueVars, op, consumer, notified, dropped, ackVars,
                    clientVars, failed >>

\* ... and only then is it tracked, still under dmQueueMutex.
AddSyncWrite ==
    /\ Running /\ front # 0 /\ StateUnlocked
    /\ tracked' = tracked \cup {front}
    /\ sw' = [sw EXCEPT ![front].chained = TRUE]
    /\ timer' = IF tracked = {} THEN NextExpiry({front}, sw) ELSE timer
    /\ lastTrackedSeqno' = front
    /\ failed' = Fails("lastTracked", front <= lastTrackedSeqno)
    /\ front' = 0
    /\ localNotify' = localNotify + 1
    /\ UNCHANGED << vbState, highSeqno, flushVars, expired, chainVars,
                    lastCommittedSeqno, lastAbortedSeqno, highCompletedSeqno,
                    highPreparedSeqno, queuedSeqnoAcks, queueVars, op,
                    consumer, notified, dropped, ackVars, clientVars >>

-----------------------------------------------------------------------------
(* updateHighPreparedSeqno *)

\* With no topology only SyncWrites the PassiveDM had completed are passed.
NullTopologyPassed ==
    { s \in tracked : \A t \in tracked :
        t <= s => /\ sw[t].status = "Completed"
                  /\ ~(IsPersistLevel(t) /\ t < persistenceSeqno) }

StartUpdateHPS ==
    LET passed == NullTopologyPassed IN
    \/ /\ tracked # {} /\ HasChain(firstChain)
       /\ op' = Op("hpsPersisted")
       /\ UNCHANGED << tracked, highPreparedSeqno, notified, failed >>
    \/ /\ tracked # {} /\ ~HasChain(firstChain)
       /\ tracked' = tracked \ passed
       /\ highPreparedSeqno' =
             IF passed = {} THEN highPreparedSeqno ELSE MaxOf(passed)
       /\ failed' = Fails("hps", \E s \in passed : s < highPreparedSeqno)
       /\ WakeIfResolved(resolved)
       /\ UNCHANGED op
    \/ /\ tracked = {}
       /\ WakeIfResolved(resolved)
       /\ UNCHANGED << tracked, highPreparedSeqno, op, failed >>

\* Mutant: not preceded by an addSyncWrite.
LocalSyncWriteUnasked ==
    /\ Running /\ StateUnlocked
    /\ localNotify' = localNotify - 1
    /\ StartUpdateHPS
    /\ UNCHANGED << vbState, highSeqno, front, flushVars, sw, expired, timer,
                    chainVars, seqnoVars, queuedSeqnoAcks, queueVars,
                    consumer, dropped, ackVars, clientVars >>

\* VBucket::notifyActiveDMOfLocalSyncWrite
LocalSyncWrite ==
    /\ Running /\ localNotify > 0 /\ StateUnlocked
    /\ localNotify' = localNotify - 1
    /\ StartUpdateHPS
    /\ UNCHANGED << vbState, highSeqno, front, flushVars, sw, expired, timer,
                    chainVars, seqnoVars, queuedSeqnoAcks, queueVars,
                    consumer, dropped, ackVars, clientVars >>

\* The flusher commits a batch and publishes the persisted seqno ...
Flush ==
    /\ Running /\ ~flushed
    /\ persistenceSeqno' \in persistenceSeqno + 1 .. highSeqno
    /\ flushed' = TRUE
    /\ UNCHANGED << vbState, frontVars, sw, expired, timer, tracked,
                    chainVars, seqnoVars, highPreparedSeqno, queuedSeqnoAcks,
                    queueVars, op, consumer, notified, dropped, ackVars,
                    clientVars, failed >>

\* ... and then tells the monitor, unless the vBucket is dead by now.
NotifyPersistence ==
    /\ Running /\ flushed /\ StateUnlocked
    /\ flushed' = FALSE
    /\ \/ vbState = "active" /\ StartUpdateHPS
       \/ /\ vbState = "dead"
          /\ UNCHANGED << tracked, highPreparedSeqno, op, notified, failed >>
    /\ UNCHANGED << vbState, frontVars, persistenceSeqno, sw, expired, timer,
                    chainVars, seqnoVars, queuedSeqnoAcks, queueVars,
                    consumer, dropped, ackVars, clientVars >>

-----------------------------------------------------------------------------
(* Advancing the position of a node *)

\* State::getNodeNext
NodeNext(n) ==
    IF n \in Members(firstChain) THEN NextIn(tracked, firstChain.pos[n].it)
    ELSE IF n \in Members(secondChain)
         THEN NextIn(tracked, secondChain.pos[n].it)
         ELSE 0

\* State::advanceAndAckForPosition, but for the ack
AdvanceIn(c, n) ==
    IF n \notin Members(c) THEN c
    ELSE LET next == NextIn(tracked, c.pos[n].it) IN
         [c EXCEPT !.pos[n] = [it |-> next, lastWrite |-> next]]

AdvanceFails(c, n) ==
    LET next == NextIn(tracked, c.pos[n].it) IN
    IF n \notin Members(c) THEN {}
    ELSE Fails("advanceToEnd", next = 0)
         \cup Fails("lastWriteSeqno", next < c.pos[n].lastWrite)

\* State::advanceNodePosition: a node in both chains advances in both and
\* acks once, the SyncWrite its position in the second chain points to.
AckedBy(n) ==
    IF n \in Members(secondChain)
    THEN NextIn(tracked, secondChain.pos[n].it)
    ELSE NextIn(tracked, firstChain.pos[n].it)

AckedWrites(n) ==
    IF AckedBy(n) = 0 THEN sw
    ELSE [sw EXCEPT ![AckedBy(n)] = Ack(@, n, firstChain, secondChain)]

AdvanceNodeFails(n) ==
    AdvanceFails(firstChain, n) \cup AdvanceFails(secondChain, n)
    \cup Fails("ackWithoutChain", AckedBy(n) # 0 /\ ~sw[AckedBy(n)].chained)

\* Advance node n, then resolve SyncWrite `check' if that satisfies it; its
\* status must then be in `expects'.
AdvanceAndResolve(n, check, expects, fails) ==
    LET first  == AdvanceIn(firstChain, n)
        second == AdvanceIn(secondChain, n)
        w      == AckedWrites(n)
        done   == { s \in {check} \cap tracked :
                      IsSatisfied(w[s], s, first, second) }
    IN  /\ ResolveWrites(done, "ToCommit", w, first, second)
        /\ failed' =
             UNION { fails, AdvanceNodeFails(n), EnqueueFails(done),
                     Fails("status", \E s \in done : sw[s].status \notin expects) }

-----------------------------------------------------------------------------
(* updateHighPreparedSeqno, one iteration of its loops at a time *)

AdvanceHPS(next) ==
    /\ highPreparedSeqno' = next
    /\ AdvanceAndResolve(firstChain.active, next, Statuses,
                         Fails("hps", next < highPreparedSeqno))
    /\ UNCHANGED << vbState, frontVars, flushVars, expired, seqnoVars,
                    queuedSeqnoAcks, op, consumer, notified, dropped, ackVars,
                    clientVars >>

\* First blindly up to the persisted seqno ...
AdvancePersisted ==
    /\ Running /\ op = Op("hpsPersisted")
    /\ LET next == NodeNext(firstChain.active) IN
       /\ next # 0 /\ next <= persistenceSeqno
       /\ AdvanceHPS(next)

PersistedDone ==
    /\ Running /\ op = Op("hpsPersisted")
    /\ LET next == NodeNext(firstChain.active) IN
       next # 0 => next > persistenceSeqno
    /\ op' = Op("hpsMajority")
    /\ UNCHANGED << vbState, frontVars, flushVars, sw, expired, timer,
                    tracked, chainVars, seqnoVars, highPreparedSeqno,
                    queuedSeqnoAcks, queueVars, consumer, notified, dropped,
                    ackVars, clientVars, failed >>

\* ... then over the Majority prepares up to the first that has to persist.
AdvanceMajority ==
    /\ Running /\ op = Op("hpsMajority")
    /\ LET next == NodeNext(firstChain.active) IN
       /\ next # 0 /\ ~IsPersistLevel(next)
       /\ AdvanceHPS(next)

MajorityDone ==
    /\ Running /\ op = Op("hpsMajority")
    /\ LET next == NodeNext(firstChain.active) IN
       next # 0 => IsPersistLevel(next)
    /\ op' = NoOp
    /\ WakeIfResolved(resolved)
    /\ UNCHANGED << vbState, frontVars, flushVars, sw, expired, timer,
                    tracked, chainVars, seqnoVars, highPreparedSeqno,
                    queuedSeqnoAcks, queueVars, consumer, dropped, ackVars,
                    clientVars, failed >>

-----------------------------------------------------------------------------
(* seqnoAckReceived *)

QueueAckFails(n, s) == Fails("queuedSeqnoAck", s <= queuedSeqnoAcks[n])

\* A replica acks a seqno it has been sent; a dead vBucket ignores it, and
\* with no topology the ack is queued.
SeqnoAck(n, s) ==
    /\ Running /\ StateUnlocked /\ n # Self
    /\ s \in acked[n] + 1 .. highSeqno
    /\ acked' = [acked EXCEPT ![n] = s]
    /\ everAcked' = [everAcked EXCEPT ![n] = IF s > @ THEN s ELSE @]
    /\ \/ /\ vbState = "dead"
          /\ UNCHANGED << queuedSeqnoAcks, op, notified, failed >>
       \/ /\ vbState = "active" /\ HasChain(firstChain)
          /\ op' = [kind |-> "ack", node |-> n, seqno |-> s, topo |-> FALSE]
          /\ failed' = Fails("ackFromActive", n = firstChain.active)
          /\ UNCHANGED << queuedSeqnoAcks, notified >>
       \/ /\ vbState = "active" /\ ~HasChain(firstChain)
          /\ "earlyAck" \in Env
          /\ queuedSeqnoAcks' = [queuedSeqnoAcks EXCEPT ![n] = s]
          /\ failed' = QueueAckFails(n, s)
          /\ WakeIfResolved(resolved)
          /\ UNCHANGED op
    /\ UNCHANGED << vbState, frontVars, flushVars, sw, expired, timer,
                    tracked, chainVars, seqnoVars, highPreparedSeqno,
                    queueVars, consumer, dropped, clientVars >>

\* One iteration of the loop of processSeqnoAck.
AckAdvance ==
    /\ Running /\ op.kind = "ack"
    /\ NodeNext(op.node) # 0 /\ NodeNext(op.node) <= op.seqno
    /\ AdvanceAndResolve(op.node, AckedBy(op.node), {"Pending"}, {})
    /\ UNCHANGED << vbState, frontVars, flushVars, expired, seqnoVars,
                    highPreparedSeqno, queuedSeqnoAcks, op, consumer,
                    notified, dropped, ackVars, clientVars >>

\* Mutant: a queued ack that is processed counts for nothing.
AckDoneTooSoon ==
    /\ Running /\ op.kind = "ack"
    /\ op.topo \/ NodeNext(op.node) = 0 \/ NodeNext(op.node) > op.seqno
    /\ queuedSeqnoAcks' = [queuedSeqnoAcks EXCEPT ![op.node] =
           IF op.topo \/ op.node \in Members(firstChain) THEN 0 ELSE op.seqno]
    /\ op' = IF op.topo THEN Op("topo") ELSE NoOp
    /\ UNCHANGED << vbState, frontVars, flushVars, sw, expired, timer,
                    tracked, chainVars, seqnoVars, highPreparedSeqno, notified,
                    queueVars, consumer, dropped, ackVars, clientVars, failed >>

\* updateNodeAck: the ack of a node that is in neither chain is queued.  An
\* ack processed because of a topology change was queued and is forgotten.
AckDone ==
    /\ Running /\ op.kind = "ack"
    /\ NodeNext(op.node) # 0 => NodeNext(op.node) > op.seqno
    /\ LET unknown == op.node \notin Members(firstChain) \cup Members(secondChain)
       IN  /\ failed' = IF unknown THEN QueueAckFails(op.node, op.seqno) ELSE {}
           /\ queuedSeqnoAcks' =
                [queuedSeqnoAcks EXCEPT ![op.node] =
                    IF op.topo THEN 0 ELSE IF unknown THEN op.seqno ELSE @]
    /\ op' = IF op.topo THEN Op("topo") ELSE NoOp
    /\ IF op.topo THEN UNCHANGED notified ELSE WakeIfResolved(resolved)
    /\ UNCHANGED << vbState, frontVars, flushVars, sw, expired, timer,
                    tracked, chainVars, seqnoVars, highPreparedSeqno,
                    queueVars, consumer, dropped, ackVars, clientVars >>

\* The stream to a replica ends: its queued ack is forgotten, and the
\* replica may ack anew from the start when it comes back.
StreamEnd(n) ==
    /\ Running /\ "streamEnd" \in Env /\ StateUnlocked /\ n # Self
    /\ acked[n] # 0
    /\ acked' = [acked EXCEPT ![n] = 0]
    /\ queuedSeqnoAcks' = [queuedSeqnoAcks EXCEPT ![n] =
                              IF vbState = "active" THEN 0 ELSE @]
    /\ UNCHANGED << vbState, frontVars, flushVars, sw, expired, timer,
                    tracked, chainVars, seqnoVars, highPreparedSeqno,
                    queueVars, op, consumer, notified, dropped, everAcked,
                    clientVars, failed >>

-----------------------------------------------------------------------------
(* setReplicationTopology *)

\* State::makeChain: the active of a new first chain keeps the HPS.
MakeFirstChain(nodes) ==
    LET new == ReplicationChain(nodes) IN
    IF ~HasChain(firstChain) THEN new
    ELSE [new EXCEPT !.pos[new.active].lastWrite =
                         firstChain.pos[firstChain.active].lastWrite]

\* Mutant: the positions in the old second chain are forgotten.
CopyFirstPositions(c) ==
    [c EXCEPT !.pos = [n \in Members(c) |->
        IF n \in Members(firstChain) THEN firstChain.pos[n] ELSE c.pos[n]]]

\* State::copyChainPositions: positions in the old second chain come last.
CopyChainPositions(c) ==
    [c EXCEPT !.pos = [n \in Members(c) |->
        IF n \in Members(secondChain) THEN secondChain.pos[n]
        ELSE IF n \in Members(firstChain) THEN firstChain.pos[n]
        ELSE c.pos[n]]]

\* lastWriteSeqno is WeaklyMonotonic, and so is its copy-assignment: first
\* from the old first chain, then from the old second chain.
CopyFails(c) ==
    LET from(old, n, prev) == IF n \in Members(old) THEN old.pos[n].lastWrite
                              ELSE prev
    IN  Fails("position", \E n \in Members(c) :
            LET p0 == c.pos[n].lastWrite
                p1 == from(firstChain, n, p0)
                p2 == from(secondChain, n, p1)
            IN  p1 < p0 \/ p2 < p1)

\* Mutant: all that has been queued is taken as prepared.
FenceTooHigh == highSeqno

\* State::transitionFromNullTopology: the active has acked all up to `fence'.
Fence == MaxOf({highPreparedSeqno, persistenceSeqno})
Fenced == { s \in tracked : s <= Fence }

TransitionFromNull(c) ==
    [c EXCEPT !.pos[c.active] =
        [it |-> IF Fenced = {} THEN 0 ELSE MaxOf(Fenced), lastWrite |-> Fence]]

\* State::abortNoLongerPossibleSyncWrites: one SyncWrite, always the one at
\* the front, for every SyncWrite whose requirements have a finite timeout.
AbortNoLongerPossible(first, second) ==
    IF DurabilityPossible(first, second) THEN {}
    ELSE LET finite == { s \in tracked : ~sw[s].infinite } IN
         { s \in tracked : Cardinality({ t \in tracked : t < s })
                             < Cardinality(finite) }

SetReplicationTopology(topology) ==
    LET first   == MakeFirstChain(topology[1])
        second  == IF Len(topology) = 2 THEN ReplicationChain(topology[2])
                   ELSE NoChain
        fromNull == ~HasChain(firstChain) /\ tracked # {}
        reset   == [s \in Seqno |-> IF s \in tracked
                       THEN ResetTopology(sw[s], s, first, second) ELSE sw[s]]
        w       == [s \in Seqno |-> IF fromNull /\ s \in Fenced
                       THEN Ack(reset[s], first.active, first, second)
                       ELSE reset[s]]
        first2  == IF fromNull THEN TransitionFromNull(first) ELSE first
        gone    == AbortNoLongerPossible(first, second)
    IN  /\ ResolveWrites(gone, "ToAbort", w,
                         CopyChainPositions(first2), CopyChainPositions(second))
        /\ highPreparedSeqno' = IF fromNull THEN Fence ELSE highPreparedSeqno
        /\ failed' = UNION { Fails("removeWithoutChain",
                                   gone # {} /\ ~HasChain(firstChain)),
                             EnqueueFails(gone),
                             CopyFails(first2), CopyFails(second) }
        /\ op' = Op("topo")

\* ns_server gives the active vBucket a topology.
SetTopology(topology) ==
    /\ Running /\ vbState = "active" /\ VBStateExclusive
    /\ ~HasChain(firstChain) => topology \in FirstTopologies
    /\ SetReplicationTopology(topology)
    /\ UNCHANGED << vbState, frontVars, flushVars, expired, seqnoVars,
                    queuedSeqnoAcks, consumer, notified, dropped, ackVars,
                    clientVars >>

\* State::performQueuedAckForChain, the first chain before the second.
QueuedIn(c) == { n \in Members(c) : queuedSeqnoAcks[n] # 0 }

PerformQueuedAck(n) ==
    /\ Running /\ op = Op("topo")
    /\ n \in QueuedIn(firstChain)
       \/ (QueuedIn(firstChain) = {} /\ n \in QueuedIn(secondChain))
    /\ op' = [kind |-> "ack", node |-> n, seqno |-> queuedSeqnoAcks[n],
              topo |-> TRUE]
    /\ failed' = Fails("ackFromActive", n = firstChain.active)
    /\ UNCHANGED << vbState, frontVars, flushVars, sw, expired, timer,
                    tracked, chainVars, seqnoVars, highPreparedSeqno,
                    queuedSeqnoAcks, queueVars, consumer, notified, dropped,
                    ackVars, clientVars >>

\* State::cleanUpTrackedWritesPostTopologyChange, the end of the change.
CleanUpTrackedWrites ==
    /\ Running /\ op = Op("topo")
    /\ QueuedIn(firstChain) \cup QueuedIn(secondChain) = {}
    /\ LET completed == { s \in tracked : sw[s].status = "Completed" }
           satisfied == { s \in tracked \ completed :
                            IsSatisfied(sw[s], s, firstChain, secondChain) }
           T == tracked \ (completed \cup satisfied)
       IN  /\ tracked' = T
           /\ sw' = [s \in Seqno |->
                       IF s \in completed THEN ResetChains(sw[s])
                       ELSE IF s \in satisfied
                            THEN ResetChains([sw[s] EXCEPT !.status = "ToCommit"])
                            ELSE sw[s]]
           /\ firstChain' = Reposition(firstChain, T)
           /\ secondChain' = Reposition(secondChain, T)
           /\ timer' = IF Front(tracked) \in T \cup {0} THEN timer
                       ELSE NextExpiry(T, sw)
           /\ resolved' = resolved \cup satisfied
           /\ highEnqueuedSeqno' = IF satisfied = {} THEN highEnqueuedSeqno
                                   ELSE MaxOf(satisfied)
           /\ failed' = EnqueueFails(satisfied)
           /\ WakeIfResolved(resolved \cup satisfied)
    /\ op' = NoOp
    /\ UNCHANGED << vbState, frontVars, flushVars, expired, seqnoVars,
                    highPreparedSeqno, queuedSeqnoAcks, consumer, dropped,
                    ackVars, clientVars >>

-----------------------------------------------------------------------------
(* Timeouts *)

\* Time passes the expiry time of a SyncWrite.
Expire(s) ==
    /\ Running /\ "timeout" \in Env
    /\ s \in (tracked \cup {timer}) \ expired /\ s # 0
    /\ sw[s].expiry
    /\ expired' = expired \cup {s}
    /\ UNCHANGED << vbState, frontVars, flushVars, sw, timer, tracked,
                    chainVars, seqnoVars, highPreparedSeqno, queuedSeqnoAcks,
                    queueVars, op, consumer, notified, dropped, ackVars,
                    clientVars, failed >>


ProcessTimeoutQuietly ==
    /\ Running /\ StateUnlocked /\ vbState = "active"
    /\ timer \in expired
    /\ LET gone == { s \in tracked : \A t \in tracked : t <= s => t \in expired }
       IN  /\ ResolveWrites(gone, "ToAbort", sw, firstChain, secondChain)
           /\ failed' = EnqueueFails(gone)
    /\ UNCHANGED << vbState, frontVars, flushVars, expired, seqnoVars,
                    highPreparedSeqno, queuedSeqnoAcks, op, consumer, dropped,
                    ackVars, clientVars, notified >>

\* VBucketSyncWriteTimeoutTask::run, processTimeout and removeExpired: abort
\* from the front up to the first SyncWrite that has not expired.
ProcessTimeout ==
    /\ Running /\ StateUnlocked /\ vbState = "active"
    /\ timer \in expired
    /\ LET gone == { s \in tracked : \A t \in tracked : t <= s => t \in expired }
       IN  /\ ResolveWrites(gone, "ToAbort", sw, firstChain, secondChain)
           /\ failed' = EnqueueFails(gone)
           /\ WakeIfResolved(resolved \cup gone)
    /\ UNCHANGED << vbState, frontVars, flushVars, expired, seqnoVars,
                    highPreparedSeqno, queuedSeqnoAcks, op, consumer, dropped,
                    ackVars, clientVars >>

-----------------------------------------------------------------------------
(* DurabilityCompletionTask: processCompletedSyncWriteQueue *)

StartCompletion ==
    /\ Running /\ notified /\ ~consumer.running /\ VBStateShared
    /\ notified' = FALSE
    /\ consumer' = [consumer EXCEPT !.running = (vbState = "active")]
    /\ UNCHANGED << vbState, frontVars, flushVars, sw, expired, timer,
                    tracked, chainVars, seqnoVars, highPreparedSeqno,
                    queuedSeqnoAcks, queueVars, op, dropped, ackVars,
                    clientVars, failed >>

\* Mutant: the SyncWrite stays in the resolvedQueue.
CompleteWithoutDequeue ==
    /\ Running /\ consumer.running /\ consumer.inHand = 0 /\ resolved # {}
    /\ LET s == MinOf(resolved)
           committing == sw[s].status = "ToCommit"
       IN  /\ consumer' = [consumer EXCEPT !.inHand = s]
           /\ outcome' = [outcome EXCEPT ![s] =
                IF committing THEN "committed" ELSE "aborted"]
           /\ response' =
                IF ~sw[s].cookie THEN response
                ELSE Tell(response, s, IF committing THEN "success"
                                       ELSE "ambiguous")
    /\ UNCHANGED << vbState, frontVars, flushVars, sw, expired, timer,
                    tracked, chainVars, seqnoVars, highPreparedSeqno, queueVars,
                    queuedSeqnoAcks, op, notified, dropped, ackVars, failed >>

\* ADM::commit and ADM::abort up to the end of VBucket::commit/abort, which
\* take no State lock.  With the collection gone only the client is told;
\* abort() does not ask whether there is a client.
CompleteSyncWrite ==
    /\ Running /\ consumer.running /\ consumer.inHand = 0 /\ resolved # {}
    /\ LET s == MinOf(resolved)
           gone == KeyOf[s] \in dropped
           committing == sw[s].status = "ToCommit"
       IN  /\ resolved' = resolved \ {s}
           /\ consumer' = [consumer EXCEPT !.inHand = IF gone THEN 0 ELSE s]
           /\ outcome' = [outcome EXCEPT ![s] =
                IF gone THEN "dropped"
                ELSE IF committing THEN "committed" ELSE "aborted"]
           /\ response' =
                IF ~sw[s].cookie THEN response
                ELSE Tell(response, s, IF committing /\ ~gone THEN "success"
                                       ELSE "ambiguous")
           /\ failed' =
                Fails("status", sw[s].status \notin {"ToCommit", "ToAbort"})
                \cup Fails("cookie", gone /\ ~committing /\ ~sw[s].cookie)
    /\ UNCHANGED << vbState, frontVars, flushVars, sw, expired, timer,
                    tracked, chainVars, seqnoVars, highPreparedSeqno,
                    queuedSeqnoAcks, highEnqueuedSeqno, op, notified, dropped,
                    ackVars >>

\* The end of ADM::commit and ADM::abort, under the State lock.
\* highCompletedSeqno ignores a value that is not higher.
UpdateCompletedSeqno ==
    /\ Running /\ consumer.inHand # 0 /\ StateUnlocked
    /\ LET s == consumer.inHand
           committing == sw[s].status = "ToCommit"
           last == IF committing THEN lastCommittedSeqno ELSE lastAbortedSeqno
       IN  /\ lastCommittedSeqno' = IF committing THEN s ELSE lastCommittedSeqno
           /\ lastAbortedSeqno' = IF committing THEN lastAbortedSeqno ELSE s
           /\ highCompletedSeqno' =
                MaxOf({highCompletedSeqno, lastCommittedSeqno', lastAbortedSeqno'})
           /\ failed' = Fails("lastCompleted", s <= last)
                        \cup Fails("committedAboveHPS",
                                   committing /\ s > highPreparedSeqno)
    /\ consumer' = [consumer EXCEPT !.inHand = 0]
    /\ UNCHANGED << vbState, frontVars, flushVars, sw, expired, timer,
                    tracked, chainVars, lastTrackedSeqno, highPreparedSeqno,
                    queuedSeqnoAcks, queueVars, op, notified, dropped,
                    ackVars, clientVars >>

StopCompletion ==
    /\ Running /\ consumer.running /\ consumer.inHand = 0 /\ resolved = {}
    /\ consumer' = [consumer EXCEPT !.running = FALSE]
    /\ UNCHANGED << vbState, frontVars, flushVars, sw, expired, timer,
                    tracked, chainVars, seqnoVars, highPreparedSeqno,
                    queuedSeqnoAcks, queueVars, op, notified, dropped,
                    ackVars, clientVars, failed >>

-----------------------------------------------------------------------------
(* Dropped collections *)

\* Commit, abort and the front-end hold a read handle on the manifest.
DropCollection(k) ==
    /\ Running /\ "drop" \in Env /\ k \notin dropped
    /\ front = 0 /\ consumer.inHand = 0
    /\ dropped' = dropped \cup {k}
    /\ UNCHANGED << vbState, frontVars, flushVars, sw, expired, timer,
                    tracked, chainVars, seqnoVars, highPreparedSeqno,
                    queuedSeqnoAcks, queueVars, op, consumer, notified,
                    ackVars, clientVars, failed >>

\* Mutant: the iterators are left behind.
EraseUnderIterators(k, s) ==
    /\ \E t \in tracked : KeyOf[t] = k
    /\ tracked' = tracked \ {s}
    /\ response' = IF sw[s].cookie THEN Tell(response, s, "ambiguous")
                   ELSE response
    /\ outcome' = [outcome EXCEPT ![s] = "dropped"]
    /\ UNCHANGED << chainVars, timer, failed >>

\* Compaction meets the last prepare s of key k on disk: VBucket::
\* dropPendingKey and eraseSyncWrite.  The drop of the collection was
\* persisted after the prepare.  The timeout task is not rescheduled.
EraseSyncWrite(k, s) ==
    LET ofKey == { t \in tracked : KeyOf[t] = k }
        gone == IF MinOf(ofKey) = s THEN {s} ELSE {}
        T == tracked \ gone
    IN  /\ ofKey # {}
        /\ failed' = Fails("eraseSeqno", gone = {})
        /\ tracked' = T
        /\ firstChain' = Reposition(firstChain, T)
        /\ secondChain' = Reposition(secondChain, T)
        /\ response' = IF gone # {} /\ sw[s].cookie
                       THEN Tell(response, s, "ambiguous") ELSE response
        /\ outcome' = [outcome EXCEPT ![s] = IF gone # {} THEN "dropped" ELSE @]
        /\ UNCHANGED timer

DropPendingKey(k) ==
    /\ Running /\ k \in dropped /\ vbState = "active" /\ StateUnlocked
    /\ LET prepares == { s \in 1 .. highSeqno : KeyOf[s] = k } IN
       /\ prepares # {} /\ MaxOf(prepares) <= persistenceSeqno
       /\ EraseSyncWrite(k, MaxOf(prepares))
    /\ UNCHANGED << vbState, frontVars, flushVars, sw, expired, seqnoVars,
                    highPreparedSeqno, queuedSeqnoAcks, queueVars, op,
                    consumer, notified, dropped, ackVars >>

-----------------------------------------------------------------------------
(* Giving up the clients, and leaving the active state *)

WithoutCookies(w, S) ==
    [s \in Seqno |-> IF s \in S THEN [w[s] EXCEPT !.cookie = FALSE] ELSE w[s]]

\* Mutant: the cookies are not cleared.
TellAndKeepCookies(S) ==
    /\ response' = [s \in Seqno |-> IF s \in S /\ sw[s].cookie
                                    THEN Tell(response, s, "ambiguous")[s]
                                    ELSE response[s]]
    /\ UNCHANGED sw

\* getCookiesForInFlightSyncWrites, and the RespondAmbiguousNotification
\* task the cookies are handed to.
TellInFlight(S) ==
    /\ sw' = WithoutCookies(sw, S)
    /\ response' = [s \in Seqno |-> IF s \in S /\ sw[s].cookie
                                    THEN Tell(response, s, "ambiguous")[s]
                                    ELSE response[s]]

\* KVBucket::releaseBlockedCookies: the resolvedQueue is drained, reset and
\* filled again.
ReleaseBlockedCookies ==
    /\ Running /\ "release" \in Env /\ vbState = "active" /\ StateUnlocked
    /\ ~consumer.running
    /\ \E s \in tracked \cup resolved : sw[s].cookie
    /\ TellInFlight(tracked \cup resolved)
    /\ highEnqueuedSeqno' = IF resolved = {} THEN 0 ELSE MaxOf(resolved)
    /\ UNCHANGED << vbState, frontVars, flushVars, expired, timer, tracked,
                    chainVars, seqnoVars, highPreparedSeqno, queuedSeqnoAcks,
                    resolved, op, consumer, notified, dropped, ackVars,
                    outcome, failed >>

\* setVBucketState to dead: prepareTransitionAwayFromActive puts the resolved
\* SyncWrites back in front of trackedWrites as they are; the ADM stays.
SetDead ==
    /\ Running /\ "dead" \in Env /\ vbState = "active" /\ VBStateExclusive
    /\ vbState' = "dead"
    /\ tracked' = tracked \cup resolved
    /\ resolved' = {}
    /\ highEnqueuedSeqno' = 0
    /\ TellInFlight(tracked \cup resolved)
    /\ UNCHANGED << frontVars, flushVars, expired, timer, chainVars,
                    seqnoVars, highPreparedSeqno, queuedSeqnoAcks, op,
                    consumer, notified, dropped, ackVars, outcome, failed >>

\* setVBucketState back to active, with a topology.
SetActive(topology) ==
    /\ Running /\ vbState = "dead" /\ VBStateExclusive
    /\ vbState' = "active"
    /\ SetReplicationTopology(topology)
    /\ UNCHANGED << frontVars, flushVars, expired, seqnoVars, queuedSeqnoAcks,
                    consumer, notified, dropped, ackVars, clientVars >>

\* ... and without one: the monitor keeps the chains it had.
SetActiveNoTopology ==
    /\ Running /\ vbState = "dead" /\ VBStateExclusive
    /\ vbState' = "active"
    /\ UNCHANGED << frontVars, flushVars, sw, expired, timer, tracked,
                    chainVars, seqnoVars, highPreparedSeqno, queuedSeqnoAcks,
                    queueVars, op, consumer, notified, dropped, ackVars,
                    clientVars, failed >>

-----------------------------------------------------------------------------
(* Initial states: the three constructors *)

NoSyncWrite ==
    [level |-> "Majority", infinite |-> TRUE, expiry |-> FALSE,
     cookie |-> FALSE, status |-> "Pending", chained |-> FALSE,
     ack1 |-> 0, ack2 |-> 0]

InitCommon ==
    /\ vbState = "active"
    /\ flushed = FALSE /\ front = 0 /\ localNotify = 0
    /\ expired = {} /\ timer = 0
    /\ lastCommittedSeqno = 0 /\ lastAbortedSeqno = 0
    /\ queuedSeqnoAcks = [n \in Node |-> 0]
    /\ resolved = {} /\ highEnqueuedSeqno = 0
    /\ op = NoOp
    /\ consumer = [running |-> FALSE, inHand |-> 0]
    /\ notified = FALSE
    /\ dropped = {}
    /\ acked = [n \in Node |-> 0]
    /\ everAcked = [n \in Node |-> 0]
    /\ response = [s \in Seqno |-> "none"]
    /\ outcome = [s \in Seqno |-> "none"]
    /\ failed = {}

\* A new active vBucket: no topology yet, no SyncWrite.
InitFresh ==
    /\ "fresh" \in StartModes
    /\ highSeqno = 0 /\ persistenceSeqno = 0
    /\ sw = [s \in Seqno |-> NoSyncWrite]
    /\ tracked = {}
    /\ firstChain = NoChain /\ secondChain = NoChain
    /\ lastTrackedSeqno = 0 /\ highPreparedSeqno = 0 /\ highCompletedSeqno = 0

\* Warmup: the outstanding prepares are on disk, in-order completion left
\* them after the persisted completed seqno, and the constructor acked them
\* for this node.  Topologies in which that is a majority come later, by
\* SetTopology.
AckedBySelf(c) ==
    [c EXCEPT !.pos = [n \in Members(c) |->
        IF n = Self THEN [it |-> highSeqno, lastWrite |-> highSeqno]
        ELSE c.pos[n]]]

InitWarmup ==
    /\ "warmup" \in StartModes
    /\ highSeqno \in Seqno /\ persistenceSeqno = highSeqno
    /\ highCompletedSeqno \in 0 .. highSeqno - 1
    /\ tracked = highCompletedSeqno + 1 .. highSeqno
    /\ lastTrackedSeqno = highSeqno /\ highPreparedSeqno = highSeqno
    /\ \E topology \in Topologies :
       /\ firstChain = AckedBySelf(ReplicationChain(topology[1]))
       /\ secondChain = IF Len(topology) = 1 THEN NoChain
                        ELSE AckedBySelf(ReplicationChain(topology[2]))
    /\ firstChain.majority > 1
    /\ \E level \in [Seqno -> Levels] :
       /\ \A s \in Seqno \ tracked : level[s] = "Majority"
       /\ sw = [s \in Seqno |->
                 IF s \notin tracked THEN NoSyncWrite
                 ELSE Ack([NoSyncWrite EXCEPT !.level = level[s],
                                              !.chained = TRUE],
                          Self, firstChain, secondChain)]

\* Conversion of a PassiveDM: no topology; completed SyncWrites the HPS has
\* not passed are still tracked, in front.  SyncWrites that were prepared
\* here before this node became a replica keep the finite timeout of their
\* requirements ("finite"), though they no longer expire.
InitPassive ==
    /\ "passive" \in StartModes
    /\ highSeqno \in Seqno /\ persistenceSeqno \in 0 .. highSeqno
    /\ highPreparedSeqno \in 0 .. highSeqno
    /\ highCompletedSeqno \in 0 .. highSeqno
    /\ "completed" \notin Env => highCompletedSeqno <= highPreparedSeqno
    /\ tracked = MinOf({highPreparedSeqno, highCompletedSeqno}) + 1 .. highSeqno
    /\ lastTrackedSeqno = highSeqno
    /\ firstChain = NoChain /\ secondChain = NoChain
    /\ \E level \in [Seqno -> Levels], finite \in SUBSET Seqno :
       /\ \A s \in Seqno \ tracked : level[s] = "Majority"
       /\ finite \subseteq tracked /\ ("finite" \notin Env => finite = {})
       /\ \A s \in tracked : level[s] = "PersistToMajority"
             /\ s > persistenceSeqno => s > highPreparedSeqno
       /\ sw = [s \in Seqno |->
                 IF s \notin tracked THEN NoSyncWrite
                 ELSE [NoSyncWrite EXCEPT
                         !.level = level[s],
                         !.infinite = s \notin finite,
                         !.status = IF s <= highCompletedSeqno
                                    THEN "Completed" ELSE "Pending"]]

Init == InitCommon /\ (InitFresh \/ InitWarmup \/ InitPassive)

-----------------------------------------------------------------------------
Handlers ==
    \/ AddSyncWrite \/ LocalSyncWrite \/ NotifyPersistence
    \/ AdvancePersisted \/ PersistedDone \/ AdvanceMajority \/ MajorityDone
    \/ AckAdvance \/ AckDone
    \/ \E n \in Node : PerformQueuedAck(n)
    \/ CleanUpTrackedWrites
    \/ ProcessTimeout
    \/ StartCompletion \/ CompleteSyncWrite \/ UpdateCompletedSeqno
    \/ StopCompletion

Environment ==
    \/ \E level \in Levels : QueueDirty(level)
    \/ Flush
    \/ \E n \in Node, s \in Seqno : SeqnoAck(n, s)
    \/ \E n \in Node : StreamEnd(n)
    \/ \E topology \in Topologies : SetTopology(topology)
    \/ \E s \in Seqno : Expire(s)
    \/ \E k \in Key : DropCollection(k) \/ DropPendingKey(k)
    \/ ReleaseBlockedCookies
    \/ SetDead
    \/ \E topology \in Topologies : SetActive(topology)
    \/ SetActiveNoTopology

Next == Handlers \/ Environment

Spec == Init /\ [][Next]_vars

\* A handler that holds the State lock runs on; whoever waits for a lock gets
\* it in the end; a task that has been woken runs; time passes.
LockHolder ==
    \/ AdvancePersisted \/ PersistedDone \/ AdvanceMajority \/ MajorityDone
    \/ AckAdvance \/ AckDone
    \/ \E n \in Node : PerformQueuedAck(n)
    \/ CleanUpTrackedWrites
    \/ CompleteSyncWrite \/ StopCompletion

Fairness ==
    /\ WF_vars(LockHolder)
    /\ SF_vars(AddSyncWrite) /\ SF_vars(LocalSyncWrite)
    /\ SF_vars(NotifyPersistence) /\ SF_vars(ProcessTimeout)
    /\ SF_vars(StartCompletion) /\ SF_vars(UpdateCompletedSeqno)
    /\ \A s \in Seqno : WF_vars(Expire(s))

FairSpec == Spec /\ Fairness

-----------------------------------------------------------------------------
(* Properties *)

Position == [it : SeqnoOr0, lastWrite : SeqnoOr0]
Chain == [active : Node \cup {NoNode}, majority : Nat,
          pos : UNION { [N -> Position] : N \in SUBSET Node }]
SyncWrite == [level : AllLevels, infinite : BOOLEAN, expiry : BOOLEAN,
              cookie : BOOLEAN, status : Statuses, chained : BOOLEAN,
              ack1 : Nat, ack2 : Nat]
OpType == [kind : {"none", "hpsPersisted", "hpsMajority", "ack", "topo"},
           node : Node \cup {NoNode}, seqno : SeqnoOr0, topo : BOOLEAN]
ConsumerType == [running : BOOLEAN, inHand : SeqnoOr0]
Responses == {"none", "success", "ambiguous", "twice"}
Outcomes == {"none", "committed", "aborted", "dropped"}

\* Every variable has its type.
TypeOK ==
    /\ vbState \in {"active", "dead"}
    /\ highSeqno \in SeqnoOr0 /\ persistenceSeqno \in SeqnoOr0
    /\ flushed \in BOOLEAN /\ front \in SeqnoOr0 /\ localNotify \in Nat
    /\ sw \in [Seqno -> SyncWrite]
    /\ expired \subseteq Seqno /\ timer \in SeqnoOr0 /\ tracked \subseteq Seqno
    /\ firstChain \in Chain /\ secondChain \in Chain
    /\ lastTrackedSeqno \in SeqnoOr0 /\ lastCommittedSeqno \in SeqnoOr0
    /\ lastAbortedSeqno \in SeqnoOr0 /\ highPreparedSeqno \in SeqnoOr0
    /\ highCompletedSeqno \in SeqnoOr0 /\ highEnqueuedSeqno \in SeqnoOr0
    /\ queuedSeqnoAcks \in [Node -> SeqnoOr0]
    /\ resolved \subseteq Seqno
    /\ op \in OpType
    /\ consumer \in ConsumerType
    /\ notified \in BOOLEAN
    /\ dropped \subseteq Key
    /\ acked \in [Node -> SeqnoOr0] /\ everAcked \in [Node -> SeqnoOr0]
    /\ response \in [Seqno -> Responses]
    /\ outcome \in [Seqno -> Outcomes]

\* No Monotonic counter of the monitor is ever assigned out of order and no
\* Expects, Ensures or logic_error of it ever fires, whatever the order in
\* which acks, persistence, timeouts, topology changes and completions come.
NoException == failed = {}

Holds(n, s) == IF n = Self THEN highPreparedSeqno >= s ELSE everAcked[n] >= s
HasMajority(c, s) ==
    Cardinality({ n \in Members(c) : Holds(n, s) }) >= c.majority

\* A SyncWrite moves to the resolvedQueue to be committed only when this
\* node has prepared it and so have, really and not just by the ack-counters
\* that processSeqnoAck and resetTopology maintain, a majority of the first
\* chain and of the second chain of the topology of that moment.
CommitHasMajority ==
    [][\A s \in resolved' \ resolved :
          sw'[s].status = "ToCommit" =>
             /\ highPreparedSeqno' >= s
             /\ HasMajority(firstChain, s)'
             /\ (HasChain(secondChain) => HasMajority(secondChain, s))']_vars

\* SyncWrites are resolved in the order they were tracked: whatever is in
\* the resolvedQueue or being completed precedes all that is tracked still.
ResolvedInOrder ==
    \A s \in resolved \cup {consumer.inHand}, t \in tracked : s < t

\* The ack-counters, an optimisation, agree with the positions of the nodes:
\* a counter is the number of members whose position has reached the
\* SyncWrite, through any number of topology changes.
AckCountExact ==
    \A s \in tracked : sw[s].chained =>
        /\ sw[s].ack1 = Cardinality({ n \in Members(firstChain) :
                                        HasAcked(firstChain, n, s) })
        /\ sw[s].ack2 = Cardinality({ n \in Members(secondChain) :
                                        HasAcked(secondChain, n, s) })

\* No position of a chain ever points to a SyncWrite that is not in
\* trackedWrites any more: removeSyncWrite and eraseSyncWrite reposition the
\* iterators of both chains, and a topology change copies only valid ones.
IteratorsValid ==
    \A c \in {firstChain, secondChain} : \A n \in Members(c) :
        c.pos[n].it \in tracked \cup {0}

\* updateHighPreparedSeqno, or the topology that ends a null topology, never
\* moves the HPS past a prepare that has to be persisted on the active and is
\* not.
HPSNotPastUnpersisted ==
    \A s \in tracked :
        IsPersistLevel(s) /\ highPreparedSeqno < s /\ s <= highPreparedSeqno'
        => s <= persistenceSeqno

FenceAtUnpersisted ==
    [][HasChain(firstChain)' => HPSNotPastUnpersisted]_vars

\* The queued ack of a node that a topology change brings into a chain is
\* forgotten only when it has been counted for every SyncWrite it covers.
QueuedAckApplied ==
    [][\A n \in Node :
          op.topo /\ queuedSeqnoAcks[n] # 0 /\ queuedSeqnoAcks'[n] = 0 =>
            \A s \in tracked : s <= queuedSeqnoAcks[n] =>
                /\ n \in Members(firstChain) => HasAcked(firstChain, n, s)
                /\ n \in Members(secondChain) => HasAcked(secondChain, n, s)
      ]_vars

\* The client of a SyncWrite is told at most once, and told success exactly
\* when the SyncWrite was committed while the client still waited.
ClientToldOnce ==
    \A s \in Seqno :
        /\ response[s] # "twice"
        /\ response[s] = "success" => outcome[s] = "committed"
        /\ sw[s].cookie /\ outcome[s] = "committed" => response[s] = "success"
        /\ sw[s].cookie /\ outcome[s] = "none" => response[s] = "none"

\* The timeout task is scheduled for the expiry of the SyncWrite at the head of
\* trackedWrites, if that can expire.
TimerArmed ==
    op = NoOp /\ tracked # {} /\ sw[Front(tracked)].expiry
    => timer = Front(tracked)

\* Every client is answered in the end, by the completion task or because its
\* collection is dropped, whether or not the replicas ever acknowledge.
EventuallyTold ==
    \A s \in Seqno :
        sw[s].cookie /\ response[s] = "none" ~> response[s] # "none"

\* SyncWrites from a warmup or a Passive->Active transition, and any other
\* with an infinite timeout, are never aborted.
InfiniteNeverAborted ==
    \A s \in Seqno : sw[s].status = "ToAbort" => sw[s].expiry

=============================================================================
