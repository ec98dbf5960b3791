----------------------------- MODULE PassiveDM ------------------------------
(***************************************************************************)
(* The PassiveDurabilityMonitor of one replica vBucket, with the parts of  *)
(* PassiveStream and VBucket that drive it.  Four threads meet here: the   *)
(* DCP consumer processing the messages of the active, the flusher, the    *)
(* front-end thread that accepts a stream, and the compactor that erases   *)
(* the items of dropped collections.                                       *)
(*                                                                         *)
(* `log' is everything the active will ever do to this vBucket: item s has *)
(* seqno s.  How far the active has got is not a variable: it may end a    *)
(* snapshot at any seqno, so every moment at which it could have cut one   *)
(* is covered.  A memory snapshot carries every item, a disk snapshot what *)
(* deduplication on the active's disk left.                                *)
(*                                                                         *)
(* `dm' is PassiveDurabilityMonitor::State.  trackedWrites is a set of     *)
(* seqnos and iterators are seqnos (SeqnoSets).  Exceptions and failed     *)
(* contract checks put a name into `failed', and the program goes no       *)
(* further; an error code returned to the consumer puts a name into        *)
(* `rejected' and the connection is closed.                                *)
(***************************************************************************)
EXTENDS Integers, FiniteSets, Sequences, SeqnoSets

CONSTANTS
    Key,            \* document keys, each in a collection of its own
    Levels,         \* durability levels the clients use
    Types,          \* types of items the active logs
    MaxSeqno,       \* bound: number of items in the active's log
    MaxConnects,    \* bound: number of streams; the last one is not lost
    Env             \* optional behaviours of the environment

Seqno == 1 .. MaxSeqno
SeqnoOr0 == 0 .. MaxSeqno

ASSUME ConstantsAssumption ==
    /\ MaxSeqno \in Nat
    /\ MaxConnects \in Nat
    /\ Levels \subseteq {"Majority", "MajorityAndPersistOnMaster",
                         "PersistToMajority"}

VARIABLES
    log,            \* the active's items, in seqno order
    conn,           \* PassiveStream::state_: "dead", "pending", "reading"
    connects,       \* streams opened so far
    toSend,         \* items of the current snapshot still on their way
    snap,           \* the current snapshot: start, end, disk, and the end of
                    \*   the last disk snapshot
    curSnapshotPrepare,  \* PassiveStream::cur_snapshot_prepare
    msg,            \* the message in hand and how far it has been processed
    accepting,      \* acceptStream: the high prepared seqno it has read
    highSeqno,      \* last item queued in the CheckpointManager
    completeEnd,    \* history: end of the last snapshot received in full
    pending,        \* HashTable: seqno of the pending prepare of each key, or 0
    threshold,      \* VBucket::allowedDuplicatePrepareThreshold
    persistenceSeqno,    \* VBucket::persistenceSeqno
    flushed,        \* flusher moved persistenceSeqno, PDM not told yet
    dm,             \* PassiveDurabilityMonitor::State
    updater,        \* the thread in updateHighPreparedSeqno, and prevHps
    seqnoToAck,     \* PassiveDurabilityMonitor::seqnoToAck
    ackers,         \* threads about to call sendSeqnoAck
    acked,          \* last ack pushed onto the current stream, or 0
    rejected,       \* messages refused with an error code
    failed          \* checks that failed

streamVars == << conn, connects, toSend, snap, curSnapshotPrepare, accepting >>
vbVars == << highSeqno, completeEnd, pending, threshold >>
flushVars == << persistenceSeqno, flushed >>
ackVars == << seqnoToAck, ackers, acked >>
vars == << log, streamVars, msg, vbVars, flushVars, dm, updater, ackVars,
           rejected, failed >>

Fails(name, cond) == IF cond THEN {name} ELSE {}
Running == failed = {}

-----------------------------------------------------------------------------
(* The active: what it may log, and what it sends *)

Prepares(l, n) == { s \in 1 .. n : l[s].type = "Prepare" }
Completions(l, n) == { s \in 1 .. n : l[s].type \in {"Commit", "Abort"} }
DropSeqno(l, n, k) ==
    Front({ s \in 1 .. n : l[s].type = "Drop" /\ l[s].key = k })
IsDropped(l, n, k) == DropSeqno(l, n, k) # 0

\* Prepares of the first n items that have not been completed by then.
InFlight(l, n) ==
    { s \in Prepares(l, n) : \A c \in Completions(l, n) : l[c].prep # s }
LiveInFlight(l, n) == { s \in InFlight(l, n) : ~IsDropped(l, n, l[s].key) }

Item(type, k, lvl, p) == [type |-> type, key |-> k, level |-> lvl, prep |-> p]

\* SyncWrites complete in seqno order, a key has one in flight at a time and
\* nothing happens to a key whose collection has been dropped.
NextItems(l) ==
    LET n == Len(l)
        first == Front(LiveInFlight(l, n))
        live == { k \in Key : ~IsDropped(l, n, k) }
        idle == { k \in live : \A s \in InFlight(l, n) : l[s].key # k }
        completing == IF first = 0 THEN {}
                      ELSE { Item(t, l[first].key, "None", first)
                                : t \in {"Commit", "Abort"} }
    IN  { i \in { Item("Prepare", k, lvl, 0) : k \in idle, lvl \in Levels }
                \cup { Item("Mutation", k, "None", 0) : k \in idle }
                \cup { Item("Drop", k, "None", 0) : k \in live }
                \cup completing : i.type \in Types }

Logs[n \in Nat] ==
    IF n = 0 THEN { << >> }
    ELSE UNION { { Append(l, i) : i \in NextItems(l) } : l \in Logs[n - 1] }

PreparedType == {"Prepare", "Abort"}
CommittedType == {"Mutation", "Commit"}
CompletedSeqno(l, n) == MaxOf({ l[c].prep : c \in Completions(l, n) } \cup {0})
SameNamespace(i, j) ==
    \E ns \in {PreparedType, CommittedType} : i.type \in ns /\ j.type \in ns

\* Mutant: the backfill filter uses the prepared seqno.
OnDiskNoPrepares(d) ==
    { s \in 1 .. d :
        \/ log[s].type = "Drop"
        \/ /\ ~IsDropped(log, d, log[s].key)
           /\ log[s].type # "Prepare"
           /\ \A t \in s + 1 .. d :
                 log[t].key = log[s].key => ~SameNamespace(log[s], log[t]) }

\* The items on the active's disk once it has persisted the first d: the
\* last one of each key in the committed namespace and in the prepare
\* namespace.  The backfill leaves out prepares up to the persisted completed
\* seqno and items of dropped collections.
OnDisk(d) ==
    { s \in 1 .. d :
        \/ log[s].type = "Drop"
        \/ /\ ~IsDropped(log, d, log[s].key)
           /\ log[s].type = "Prepare" => s > CompletedSeqno(log, d)
           /\ \A t \in s + 1 .. d :
                 log[t].key = log[s].key => ~SameNamespace(log[s], log[t]) }

\* Mutant: commits are sent as they are.
TypeLogged(s) == log[s].type

\* Commits are sent as mutations in a disk snapshot.
TypeSent(s) ==
    IF snap.disk /\ log[s].type = "Commit" THEN "Mutation" ELSE log[s].type

-----------------------------------------------------------------------------
(* PassiveDurabilityMonitor::State *)

KeyOf(s) == log[s].key

\* Mutant: the iterators are left where they are.
SafeEraseOnly(d, run) == [d EXCEPT !.tracked = @ \ run, !.done = @ \ run]

\* safeEraseSyncWrite of a run of consecutive tracked writes: iterators into
\* it move to the element before it.
SafeErase(d, run) ==
    LET valid == PrevIn(d.tracked, Front(run))
    IN  [d EXCEPT !.tracked = @ \ run,
                  !.done = @ \ run,
                  !.hpsIt = IF @ \in run THEN valid ELSE @,
                  !.hcsIt = IF @ \in run THEN valid ELSE @]

\* Mutant: completed prepares go whether they are prepared here or not.
RemoveCompleted(d) ==
    LET removed == { s \in d.tracked :
                        \A t \in d.tracked : t <= s => t \in d.done }
    IN  [d EXCEPT !.tracked = @ \ removed,
                  !.done = @ \ removed,
                  !.hpsIt = IF @ \in removed THEN 0 ELSE @,
                  !.hcsIt = IF @ \in removed THEN 0 ELSE @]

CheckForAndRemovePrepares(d) ==
    LET removed == { s \in d.tracked :
                        /\ s <= d.hps
                        /\ \A t \in d.tracked : t <= s => t \in d.done }
    IN  [d EXCEPT !.tracked = @ \ removed,
                  !.done = @ \ removed,
                  !.hpsIt = IF @ \in removed THEN 0 ELSE @,
                  !.hcsIt = IF @ \in removed THEN 0 ELSE @]

CheckForAndRemoveDroppedCollections(d) ==
    [d EXCEPT !.droppedCollections = [k \in Key |->
        IF d.tracked = {} \/ @[k] < Front(d.tracked) THEN 0 ELSE @[k]]]

Uncompleted(d, k) == { s \in d.tracked : KeyOf(s) = k /\ s \notin d.done }

\* Mutant: the prepare it overwrites stays tracked.
AddSyncWriteOnly(d, s, overwriting) ==
    [CheckForAndRemoveDroppedCollections(d) EXCEPT !.tracked = @ \cup {s}]

\* addSyncWrite(s); `overwriting' is overwritingPrepareSeqno, 0 if there is
\* none.
AddSyncWrite(d, s, overwriting) ==
    LET d1 == CheckForAndRemoveDroppedCollections(d)
        old == Front(Uncompleted(d1, KeyOf(s)))
        d2 == IF overwriting # 0 /\ old # 0 THEN SafeErase(d1, {old}) ELSE d1
    IN  [d2 EXCEPT !.tracked = @ \cup {s}]

AddSyncWriteFails(d, s, overwriting) ==
    LET old == Front(Uncompleted(d, KeyOf(s)))
    IN  Fails("overwritingOtherPrepare",
              overwriting # 0 /\ old \notin {0, overwriting})
        \cup Fails("duplicateSyncWrite",
                   IF overwriting = 0 THEN old # 0
                   ELSE Cardinality(Uncompleted(d, KeyOf(s))) > 1)

\* Mutant: nothing is skipped.
NothingSkipped(d, k) == {}

\* completeSyncWrite: in a memory snapshot the next write after the high
\* completed seqno must be the one completed, once those of dropped
\* collections have been erased; in a disk snapshot it is searched for.
SkippedAsDropped(d, k) ==
    LET next == NextIn(d.tracked, d.hcsIt)
        run == { s \in d.tracked :
                    /\ s >= next
                    /\ \A t \in d.tracked : t \in next .. s =>
                          d.droppedCollections[KeyOf(t)] # 0 }
    IN  IF ~snap.disk /\ next # 0 /\ KeyOf(next) # k THEN run ELSE {}

\* Mutant: a completed prepare of the key is found as well.
FirstToComplete(d, k) ==
    IF snap.disk THEN Front({ s \in d.tracked : KeyOf(s) = k })
    ELSE NextIn(d.tracked \ SkippedAsDropped(d, k), d.hcsIt)

NextToComplete(d, k) ==
    IF snap.disk THEN Front(Uncompleted(d, k))
    ELSE NextIn(d.tracked \ SkippedAsDropped(d, k), d.hcsIt)

CompleteSyncWriteFails(d, k, res, prep) ==
    LET next == NextToComplete(d, k)
    IN  IF next = 0
        THEN Fails("noPrepare", ~(snap.disk /\ res = "Abort"))
        ELSE Fails("unexpectedCompletion",
                   KeyOf(next) # k \/ (prep # 0 /\ prep # next))
             \cup Fails("hcsMonotonic", ~snap.disk /\ next < d.hcs)
             \cup Fails("completedTwice", next \in d.done)

\* Mutant: the last tracked prepare counts as completed.
HCSAfterLast(d, next) == MaxOf(d.tracked)
HCSAfter(d, next) == IF ~snap.disk \/ next > d.hcs THEN next ELSE d.hcs

CompleteSyncWrite(d, k) ==
    LET next == NextToComplete(d, k)
        skipped == SkippedAsDropped(d, k)
        d1 == IF skipped = {} THEN d ELSE SafeErase(d, skipped)
        d2 == [d1 EXCEPT !.hcs = HCSAfter(d, next),
                         !.hcsIt = IF ~snap.disk \/ next > d.hcs THEN next
                                   ELSE @,
                         !.done = @ \cup {next}]
    IN  IF next = 0 THEN d1
        ELSE CheckForAndRemoveDroppedCollections(CheckForAndRemovePrepares(d2))

\* eraseSyncWrite: the first tracked write of the key, completed or not.
FirstOfKey(d, k) == Front({ s \in d.tracked : KeyOf(s) = k })
EraseSyncWrite(d, k) ==
    LET s == FirstOfKey(d, k)
    IN  IF s = 0 THEN d ELSE SafeErase(d, {s})
EraseSyncWriteFails(d, k, seqno) ==
    Fails("eraseSeqno", FirstOfKey(d, k) \notin {0, seqno})

\* One iteration of updateHighPreparedSeqno, for the front of
\* receivedSnapshotEnds.
FullyPersisted(d) == persistenceSeqno >= Head(d.ends).seqno
CanAdvanceOver(d, s) ==
    \/ FullyPersisted(d)
    \/ ~Head(d.ends).disk /\ log[s].level # "PersistToMajority"
AdvancedOver(d) ==
    { s \in d.tracked :
        /\ s > d.hpsIt
        /\ s <= Head(d.ends).seqno
        /\ \A t \in d.tracked : t > d.hpsIt /\ t <= s => CanAdvanceOver(d, t) }
JumpsToEnd(d) == Head(d.ends).disk /\ FullyPersisted(d)
IteratorAfter(d) == MaxOf(AdvancedOver(d) \cup {d.hpsIt})
\* Mutant: one beyond the end of the disk snapshot.
HPSAfterPast(d) ==
    IF JumpsToEnd(d) THEN Head(d.ends).seqno + 1
    ELSE IF AdvancedOver(d) = {} THEN d.hps ELSE MaxOf(AdvancedOver(d))
HPSAfter(d) ==
    IF JumpsToEnd(d) THEN Head(d.ends).seqno
    ELSE IF AdvancedOver(d) = {} THEN d.hps ELSE MaxOf(AdvancedOver(d))
StopsAtEnd(d) ==
    \/ Head(d.ends).disk /\ ~FullyPersisted(d)
    \/ NextIn(d.tracked, IteratorAfter(d)) \in 1 .. Head(d.ends).seqno

AdvanceFails(d) ==
    Fails("hpsMonotonic",
          \/ \E s \in AdvancedOver(d) : s < d.hps
          \/ JumpsToEnd(d) /\ \E s \in AdvancedOver(d) \cup {d.hps} :
                                 s > Head(d.ends).seqno)
Advance(d) ==
    [d EXCEPT !.hps = HPSAfter(d),
              !.hpsIt = IteratorAfter(d),
              !.ends = IF StopsAtEnd(d) THEN @ ELSE Tail(@)]

-----------------------------------------------------------------------------
(* PassiveStream: opening and losing a stream *)

NoUpdater == [who |-> "none", prevHps |-> 0]
Idle == [seqno |-> 0, stage |-> "idle"]
StateUnlocked == updater.who = "none"
NotAccepting == -1
StreamThreadFree ==
    msg = Idle /\ updater.who # "stream" /\ "stream" \notin ackers

Disconnect ==
    /\ Running /\ connects < MaxConnects
    /\ StreamThreadFree
    /\ conn # "dead" /\ accepting = NotAccepting
    /\ conn' = "dead"
    /\ toSend' = {}
    /\ acked' = 0
    /\ UNCHANGED << log, connects, snap, curSnapshotPrepare, accepting, msg,
                    vbVars, flushVars, dm, updater, seqnoToAck, ackers,
                    rejected, failed >>

\* A new PassiveStream asks the active for the items after highSeqno.
AddStream ==
    /\ Running /\ conn = "dead" /\ connects < MaxConnects
    /\ conn' = "pending"
    /\ connects' = connects + 1
    /\ curSnapshotPrepare' = FALSE
    /\ UNCHANGED << log, toSend, snap, accepting, msg, vbVars, flushVars, dm,
                    updater, ackVars, rejected, failed >>

\* acceptStream reads the high prepared seqno before it takes streamMutex,
AcceptStreamRead ==
    /\ Running /\ conn = "pending" /\ accepting = NotAccepting
    /\ StateUnlocked
    /\ accepting' = dm.hps
    /\ UNCHANGED << log, conn, connects, toSend, snap, curSnapshotPrepare, msg,
                    vbVars, flushVars, dm, updater, ackVars, rejected, failed >>

\* and under it acks that seqno again and starts reading.
AcceptStream ==
    /\ Running /\ accepting # NotAccepting
    /\ acked' = accepting
    /\ conn' = "reading"
    /\ accepting' = NotAccepting
    /\ UNCHANGED << log, connects, toSend, snap, curSnapshotPrepare, msg,
                    vbVars, flushVars, dm, updater, seqnoToAck, ackers,
                    rejected, failed >>

-----------------------------------------------------------------------------
(* PassiveStream: messages *)

MidSnapshot == completeEnd # highSeqno

\* VBucket::setDuplicatePrepareWindow.
DuplicatePrepareWindow == MaxOf(dm.tracked \cup {0})

\* A snapshot marker.  A stream that resumes within a snapshot is sent the
\* rest of it, from memory when the active still has the items there.
SnapshotMarker(end, disk) ==
    /\ Running /\ conn = "reading" /\ StreamThreadFree /\ toSend = {}
    /\ disk => "disk" \in Env
    /\ end >= IF disk THEN snap.diskEnd ELSE snap.end
    /\ ~disk /\ snap.disk /\ MidSnapshot => "partialDiskThenMemory" \in Env
    /\ snap' = [start |-> IF MidSnapshot THEN snap.start ELSE highSeqno + 1,
                end |-> end, disk |-> disk,
                diskEnd |-> IF disk THEN end ELSE snap.diskEnd]
    /\ toSend' = IF disk THEN OnDisk(end) \ 1 .. highSeqno
                 ELSE highSeqno + 1 .. end
    /\ threshold' = IF disk THEN DuplicatePrepareWindow ELSE threshold
    /\ UNCHANGED << log, conn, connects, curSnapshotPrepare, accepting, msg,
                    highSeqno, completeEnd, pending, flushVars, dm, updater,
                    ackVars, rejected, failed >>

\* What VBucket::commit, abort, prepare and processSet refuse, with an error
\* code or with an exception.
Refused(s) ==
    LET p == pending[KeyOf(s)]
    IN  CASE TypeSent(s) = "Commit" -> p = 0
          [] TypeSent(s) = "Abort" -> p = 0 /\ ~snap.disk
          [] TypeSent(s) = "Prepare" -> p > threshold /\ ~snap.disk
          [] TypeSent(s) = "Mutation" -> p # 0 /\ ~snap.disk
          [] OTHER -> FALSE

Throws(s) ==
    LET p == pending[KeyOf(s)]
    IN  CASE TypeSent(s) \in {"Commit", "Abort"} ->
                Fails("completesOtherPrepare",
                      p # 0 /\ p # log[s].prep
                        /\ (~snap.disk \/ log[s].prep < snap.start))
                \cup CompleteSyncWriteFails(dm, KeyOf(s), TypeSent(s),
                        IF TypeSent(s) = "Commit" THEN p ELSE 0)
          [] TypeSent(s) = "Prepare" ->
                Fails("prepareOverPrepare", p > threshold /\ snap.disk)
          [] TypeSent(s) = "Mutation" /\ p # 0 ->
                CompleteSyncWriteFails(dm, KeyOf(s), "Commit", p)
          [] OTHER -> {}

\* processMessage, processCommit and processAbort, each followed by
\* handleSnapshotEnd: the PDM is told if a prepare was seen on this stream
\* in the snapshot, or if it is a disk snapshot.
Takes(s) ==
    /\ Running /\ conn = "reading" /\ StreamThreadFree
    /\ toSend # {} /\ s = MinOf(toSend)

\* Mutant: disk snapshots without a prepare do not count.
NotifiesIfPrepare(prepareSeen) == prepareSeen
NotifiesPDM(prepareSeen) == prepareSeen \/ snap.disk

HandleSnapshotEnd(s, prepareSeen) ==
    /\ curSnapshotPrepare' = prepareSeen
    /\ IF s = snap.end /\ NotifiesPDM(prepareSeen)
       THEN msg' = [seqno |-> s, stage |-> "end"]
       ELSE msg' = Idle
    /\ completeEnd' = IF s = snap.end THEN s ELSE completeEnd

Process(s) ==
    /\ Takes(s) /\ ~Refused(s)
    /\ failed' = Throws(s)
    /\ toSend' = toSend \ {s}
    /\ highSeqno' = s
    /\ UNCHANGED << log, conn, connects, snap, accepting, threshold,
                    flushVars, updater, ackVars, rejected >>

\* In a disk snapshot a mutation completes the pending prepare of its key.
ReceiveMutation(s) ==
    LET k == KeyOf(s)
        implicit == pending[k] # 0
    IN  /\ TypeSent(s) = "Mutation"
        /\ implicit => StateUnlocked
        /\ Process(s)
        /\ dm' = IF implicit THEN CompleteSyncWrite(dm, k) ELSE dm
        /\ pending' = [pending EXCEPT ![k] = 0]
        /\ HandleSnapshotEnd(s, curSnapshotPrepare)

ReceiveCompletion(s) ==
    /\ TypeSent(s) \in {"Commit", "Abort"}
    /\ StateUnlocked
    /\ Process(s)
    /\ dm' = CompleteSyncWrite(dm, KeyOf(s))
    /\ pending' = [pending EXCEPT ![KeyOf(s)] = 0]
    /\ HandleSnapshotEnd(s, curSnapshotPrepare)

ReceiveDrop(s) ==
    /\ TypeSent(s) = "Drop"
    /\ StateUnlocked
    /\ Process(s)
    /\ dm' = [dm EXCEPT !.droppedCollections[KeyOf(s)] = s]
    /\ HandleSnapshotEnd(s, curSnapshotPrepare)
    /\ UNCHANGED pending

\* A prepare is queued in the CheckpointManager, where the flusher can find
\* it, before the PDM tracks it.
ReceivePrepare(s) ==
    /\ TypeSent(s) = "Prepare"
    /\ Process(s)
    /\ msg' = [seqno |-> s, stage |-> "queued"]
    /\ UNCHANGED << dm, pending, curSnapshotPrepare, completeEnd >>

TrackPrepare ==
    LET s == msg.seqno
        k == KeyOf(s)
        overwriting == IF pending[k] <= threshold THEN pending[k] ELSE 0
    IN  /\ Running /\ StateUnlocked
        /\ msg.stage = "queued"
        /\ dm' = AddSyncWrite(dm, s, overwriting)
        /\ failed' = AddSyncWriteFails(dm, s, overwriting)
        /\ pending' = [pending EXCEPT ![k] = s]
        /\ HandleSnapshotEnd(s, TRUE)
        /\ UNCHANGED << log, conn, connects, toSend, snap, accepting,
                        highSeqno, threshold, flushVars, updater, ackVars,
                        rejected >>

Reject(s) ==
    /\ Takes(s) /\ Refused(s)
    /\ rejected' = rejected \cup {log[s].type}
    /\ conn' = "dead"
    /\ toSend' = {}
    /\ acked' = 0
    /\ UNCHANGED << log, connects, snap, curSnapshotPrepare, accepting, msg,
                    vbVars, flushVars, dm, updater, seqnoToAck, ackers, failed >>

NotifySnapshotEndReceived ==
    /\ Running /\ msg.stage = "end" /\ StateUnlocked
    /\ msg' = Idle
    /\ curSnapshotPrepare' = FALSE
    /\ dm' = [dm EXCEPT !.ends =
                 Append(@, [seqno |-> snap.end, disk |-> snap.disk])]
    /\ updater' = [who |-> "stream", prevHps |-> dm.hps]
    /\ UNCHANGED << log, conn, connects, toSend, snap, accepting, vbVars,
                    flushVars, ackVars, rejected, failed >>

-----------------------------------------------------------------------------
(* The flusher and the compactor *)

\* Mutant: prepares are not removed when the high prepared seqno moves.
EndUpdateKeeping(d, t, prevHps) ==
    /\ dm' = CheckForAndRemoveDroppedCollections(d)
    /\ seqnoToAck' = IF d.hps # prevHps /\ seqnoToAck < d.hps
                     THEN d.hps ELSE seqnoToAck
    /\ ackers' = IF seqnoToAck' = 0 THEN ackers ELSE ackers \cup {t}
    /\ updater' = NoUpdater

\* The end of notifySnapshotEndReceived and notifyLocalPersistence under the
\* State lock: storeSeqnoAck, after which thread t has an ack to send.
EndUpdate(d, t, prevHps) ==
    /\ dm' = CheckForAndRemoveDroppedCollections(
                IF d.hps # prevHps THEN CheckForAndRemovePrepares(d) ELSE d)
    /\ seqnoToAck' = IF d.hps # prevHps /\ seqnoToAck < d.hps
                     THEN d.hps ELSE seqnoToAck
    /\ ackers' = IF seqnoToAck' = 0 THEN ackers ELSE ackers \cup {t}
    /\ updater' = NoUpdater

Flush(n) ==
    /\ Running /\ ~flushed /\ "flusher" \notin ackers
    /\ updater.who # "flusher"
    /\ n \in persistenceSeqno + 1 .. highSeqno
    /\ persistenceSeqno' = n
    /\ flushed' = TRUE
    /\ UNCHANGED << log, streamVars, msg, vbVars, dm, updater, ackVars,
                    rejected, failed >>

NotifyLocalPersistence ==
    /\ Running /\ flushed /\ StateUnlocked
    /\ flushed' = FALSE
    /\ IF dm.ends = << >>
       THEN EndUpdate(dm, "flusher", dm.hps)
       ELSE /\ updater' = [who |-> "flusher", prevHps |-> dm.hps]
            /\ UNCHANGED << dm, seqnoToAck, ackers >>
    /\ UNCHANGED << log, streamVars, msg, vbVars, persistenceSeqno, acked,
                    rejected, failed >>

\* Compaction erases a persisted prepare of a collection whose drop has been
\* persisted, from the PDM and from the HashTable.
EraseDroppedPrepare(k) ==
    /\ Running /\ StateUnlocked /\ "compaction" \in Env
    /\ DropSeqno(log, highSeqno, k) \in 1 .. persistenceSeqno
    /\ pending[k] # 0
    /\ FirstOfKey(dm, k) \in dm.done => "completedTracked" \in Env
    /\ dm' = EraseSyncWrite(dm, k)
    /\ failed' = EraseSyncWriteFails(dm, k, pending[k])
    /\ pending' = [pending EXCEPT ![k] = 0]
    /\ UNCHANGED << log, streamVars, msg, highSeqno, completeEnd, threshold,
                    flushVars, updater, ackVars, rejected >>

-----------------------------------------------------------------------------
(* PassiveDurabilityMonitor: moving the high prepared seqno and acking it *)

UpdateHighPreparedSeqno ==
    /\ Running /\ ~StateUnlocked
    /\ failed' = AdvanceFails(dm)
    /\ \E d \in {Advance(dm)} :
          IF StopsAtEnd(dm) \/ d.ends = << >>
          THEN EndUpdate(d, updater.who, updater.prevHps)
          ELSE dm' = d /\ UNCHANGED << updater, seqnoToAck, ackers >>
    /\ UNCHANGED << log, streamVars, msg, vbVars, flushVars, acked, rejected >>

\* Mutant: a stream that has not been accepted yet acks too.
CanAckPending == conn # "dead"
CanAck == conn = "reading"

\* PassiveStream::seqnoAck drops the ack unless the stream is reading.
SendSeqnoAck(t) ==
    /\ Running /\ t \in ackers
    /\ acked' = IF seqnoToAck # 0 /\ CanAck THEN seqnoToAck ELSE acked
    /\ seqnoToAck' = 0
    /\ ackers' = ackers \ {t}
    /\ UNCHANGED << log, streamVars, msg, vbVars, flushVars, dm, updater,
                    rejected, failed >>

-----------------------------------------------------------------------------

Init ==
    /\ log \in Logs[MaxSeqno] /\ log[1].type = "Prepare"
    /\ conn = "dead" /\ connects = 0
    /\ toSend = {} /\ snap = [start |-> 0, end |-> 0, disk |-> FALSE, diskEnd |-> 0]
    /\ curSnapshotPrepare = FALSE
    /\ accepting = NotAccepting
    /\ msg = Idle
    /\ highSeqno = 0 /\ completeEnd = 0
    /\ pending = [k \in Key |-> 0] /\ threshold = 0
    /\ persistenceSeqno = 0 /\ flushed = FALSE
    /\ dm = [tracked |-> {}, done |-> {}, hps |-> 0, hpsIt |-> 0,
             hcs |-> 0, hcsIt |-> 0, ends |-> << >>,
             droppedCollections |-> [k \in Key |-> 0]]
    /\ updater = NoUpdater
    /\ seqnoToAck = 0 /\ ackers = {} /\ acked = 0
    /\ rejected = {} /\ failed = {}

StreamStep ==
    \/ AcceptStreamRead \/ AcceptStream
    \/ \E end \in highSeqno + 1 .. MaxSeqno, disk \in BOOLEAN :
          SnapshotMarker(end, disk)
    \/ \E s \in Seqno : \/ ReceiveMutation(s) \/ ReceiveCompletion(s)
                        \/ ReceiveDrop(s) \/ ReceivePrepare(s)
    \/ TrackPrepare \/ NotifySnapshotEndReceived
    \/ SendSeqnoAck("stream")

FlusherStep ==
    \/ \E n \in Seqno : Flush(n)
    \/ NotifyLocalPersistence
    \/ SendSeqnoAck("flusher")

Next ==
    \/ StreamStep \/ FlusherStep \/ UpdateHighPreparedSeqno
    \/ AddStream \/ Disconnect
    \/ \E s \in Seqno : Reject(s)
    \/ \E k \in Key : EraseDroppedPrepare(k)

Spec == Init /\ [][Next]_vars

\* Every behaviour ends (the log and the number of streams are bounded), so
\* it is enough that while a thread has something to do, one of them does it.
FairSpec == Spec /\ WF_vars(Next)

-----------------------------------------------------------------------------
(* Properties *)

\* Type invariant.
TypeOK ==
    /\ conn \in {"dead", "pending", "reading"}
    /\ connects \in 0 .. MaxConnects
    /\ toSend \subseteq Seqno
    /\ snap \in [start : 0 .. MaxSeqno + 1, end : SeqnoOr0, disk : BOOLEAN,
                diskEnd : SeqnoOr0]
    /\ curSnapshotPrepare \in BOOLEAN
    /\ accepting \in SeqnoOr0 \cup {NotAccepting}
    /\ msg \in [seqno : SeqnoOr0, stage : {"idle", "queued", "end"}]
    /\ highSeqno \in SeqnoOr0 /\ completeEnd \in SeqnoOr0
    /\ pending \in [Key -> SeqnoOr0] /\ threshold \in SeqnoOr0
    /\ persistenceSeqno \in SeqnoOr0 /\ flushed \in BOOLEAN
    /\ dm.tracked \subseteq Seqno /\ dm.done \subseteq dm.tracked
    /\ {dm.hps, dm.hpsIt, dm.hcs, dm.hcsIt} \subseteq SeqnoOr0
    /\ dm.ends \in Seq([seqno : Seqno, disk : BOOLEAN])
    /\ dm.droppedCollections \in [Key -> SeqnoOr0]
    /\ updater \in [who : {"none", "stream", "flusher"}, prevHps : SeqnoOr0]
    /\ seqnoToAck \in SeqnoOr0 /\ acked \in SeqnoOr0
    /\ ackers \subseteq {"stream", "flusher"}

\* No exception is thrown and no contract check fails, whatever the active
\* logs and however it cuts its snapshots.
NoException == failed = {}

\* No message of a correct active is refused: a replica that refuses one
\* drops the connection and is sent the same message again.
NeverRejected == rejected = {}


\* Between messages, the pending prepares of the HashTable are the
\* uncompleted prepares the monitor tracks, collections that are being
\* dropped aside.
HashTableMatchesTracked ==
    msg = Idle /\ Running =>
        \A k \in Key : ~IsDropped(log, highSeqno, k) =>
            Uncompleted(dm, k) = {pending[k]} \ {0}

\* At the end of a snapshot the uncompleted prepares tracked are those the
\* active has in flight: the ones a promoted replica has to carry on with.
TracksWhatIsInFlight ==
    msg = Idle /\ ~MidSnapshot /\ Running =>
        { s \in dm.tracked \ dm.done : ~IsDropped(log, highSeqno, KeyOf(s)) }
            = LiveInFlight(log, highSeqno)

\* The iterators point into the list or are end(), at or below the seqnos
\* they stand for.
IteratorsValid ==
    /\ dm.hpsIt \in dm.tracked \cup {0} /\ dm.hpsIt <= dm.hps
    /\ dm.hcsIt \in dm.tracked \cup {0} /\ dm.hcsIt <= dm.hcs

\* At the end of a snapshot every prepare still in flight is beyond the high
\* completed seqno, below which a promoted replica takes all to be completed.
NothingInFlightBelowHCS ==
    msg = Idle /\ ~MidSnapshot /\ Running =>
        \A s \in LiveInFlight(log, highSeqno) : s > dm.hcs

\* Acks on one stream never go back, and the high seqnos never do.
AcksNeverGoBack ==
    [][ /\ dm'.hps >= dm.hps /\ dm'.hcs >= dm.hcs
        /\ conn' # "dead" => acked' >= acked ]_vars

\* An uncompleted prepare leaves the list only if the same key is prepared
\* again or its collection has been dropped, and a completed one only once
\* the high prepared seqno covers it.
RemovedOnlyWhenDone ==
    [][ \A s \in dm.tracked \ dm'.tracked :
          \/ s \in dm'.done \cup dm.done \cup {dm'.hcs} /\ s <= dm'.hps
          \/ IsDropped(log, highSeqno, KeyOf(s))
          \/ \E t \in dm'.tracked \ dm.tracked : KeyOf(t) = KeyOf(s) ]_vars

\* A replica whose stream stays up in the end acks every prepare of the
\* active, those of dropped collections aside: a SyncWrite that needs this
\* replica's ack is not left waiting for it.
EventuallyAcked ==
    <>(\A s \in Prepares(log, MaxSeqno) :
          s <= acked \/ IsDropped(log, MaxSeqno, KeyOf(s)))

\* Completed prepares are eventually released.
EventuallyReleased == <>[](dm.done = {})

=============================================================================
