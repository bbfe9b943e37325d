--------------------------- MODULE RelayTheorems ---------------------------
(***************************************************************************)
(* What holds of the Human relay for all sets of intents, grants, workers  *)
(* and requests, in memory and over a file, through any number of crashes, *)
(* failing syncs, power losses and clock corrections.                      *)
(***************************************************************************)
EXTENDS RelaySteps

\* While an intent is queued its last event is its first.
LEMMA QueuedSince ==
    ASSUME ConstantsOK, IndInv, NEW i \in Intent, Recorded(i), Status(i) = "QUEUED"
    PROVE  UpdatedAt(i) = QueuedAt(i) /\ attempts[i] = 0
<1>1. records[i] \in RecordOf(i) /\ records \in Found
  BY Zenon, FoundIsLoadable, RecordsAreRecords DEF Recorded
<1>2. UpdatedAt(i) = QueuedAt(i)
  BY Zenon, <1>1, HistoryLength DEF RecordOf, Status, UpdatedAt, QueuedAt, Told, ConstantsOK
<1>3. StatusIn(records, i) = "QUEUED"
  BY Zenon DEF StatusIn, Recorded, Status
<1>4. ~(attempts[i] > 0)
  BY Zenon, <1>1, <1>3 DEF IndInv, AttemptIsRecorded
<1> QED
  BY <1>2, <1>4 DEF IndInv, TypeOK

LEMMA InOrder ==
    ASSUME ConstantsOK, IndInv, NEW i \in Intent, Recorded(i), clock >= UpdatedAt(i)
    PROVE  UpdatedAt(i) <= clock
<1>1. UpdatedAt(i) \in Int /\ clock \in Int
  BY FoundIsLoadable, RecordsAreRecords, HistoryLength
     DEF Recorded, RecordOf, UpdatedAt, Events, ConstantsOK, IndInv, TypeOK, DirectoryTypeOK
<1> QED
  BY Zenon, <1>1

\* A dispatch knows its intent by name only.
LEMMA DispatchedIntent ==
    ASSUME ConstantsOK, IndInv, NEW p \in Process,
           op[p].at \in {"DISPATCH", "CANCEL", "SYNC_CALL", "CALL", "ACK"}
    PROVE  /\ op[p].request = [intent |-> op[p].request.intent]
           /\ op[p].request.intent \in Intent /\ Recorded(op[p].request.intent)
           /\ op[p].request \notin RelayRequest
<1>1. /\ op[p].request = [intent |-> op[p].request.intent]
      /\ op[p].request.intent \in Intent /\ Recorded(op[p].request.intent)
  BY Zenon DEF IndInv, OnCourse
<1> QED
  BY Zenon, <1>1 DEF ConstantsOK

LEMMA ReconcileKeeps ==
    ASSUME ConstantsOK, IndInv, NEW p \in Process, NEW i \in Intent, Reconcile(p, i)
    PROVE  IndInv'
<1>1. /\ op[p].at = "IDLE" /\ lock = Nobody /\ lock' = IF FileBacked THEN p ELSE Nobody
      /\ Recorded(i) /\ Status(i) = "DISPATCHING" /\ i \in accepted /\ clock >= UpdatedAt(i)
      /\ AppendEvent(p, i, "PROVIDER_ACKNOWLEDGED", "IDLE")
      /\ UNCHANGED <<reachVars, guard, provider, receipts, failures>>
  BY Zenon DEF Reconcile, At, EnterStore, MayEnter, EvidenceFound, NotBefore
<1>2. UpdatedAt(i) <= clock
  BY Zenon, <1>1, InOrder
<1>3. PICK record \in RecordOf(i) :
         /\ CommitRecord(p, i, record, "IDLE") /\ Told(record.events) = "PROVIDER_ACKNOWLEDGED"
         /\ record.request = records[i].request
  BY <1>1, <1>2, AppendCommits
<1>4. op[p].request \notin RelayRequest /\ p # guard
  <2>1. op[p] = Idle /\ p # guard
    BY Zenon, <1>1 DEF IndInv, OnCourse, HoldsLocks
  <2>2. Idle.request = [intent |-> Nobody]
    BY Zenon DEF Idle, NoRequest
  <2> QED
    BY Zenon, <2>1, <2>2 DEF ConstantsOK
<1>5. IF FileBacked THEN op'[p].at = "SYNC" /\ op'[p].request = op[p].request ELSE op'[p] = Idle
  BY Zenon, <1>3, CommitMoves DEF IndInv, TypeOK, Sync
<1>6. HoldsLocks(p)' /\ OnCourse(p)'
  BY <1>1, <1>4, <1>5 DEF HoldsLocks, OnCourse, Idle, ConstantsOK
<1>7. attempts[i] > 0 /\ Moves(guard, guard', p) /\ Moves(lock, lock', p)
  BY <1>1 DEF IndInv, Moves
<1> QED
  BY Zenon, <1>1, <1>3, <1>6, <1>7, CommitKeeps

LEMMA DispatchCancelKeeps ==
    ASSUME ConstantsOK, IndInv, NEW p \in Process, DispatchCancel(p)
    PROVE  IndInv'
<1> DEFINE i == op[p].request.intent
<1>1. /\ op[p].at = "CANCEL" /\ lock \in {p, Nobody}
      /\ UNCHANGED <<reachVars, provider, receipts, failures>>
  BY Zenon DEF DispatchCancel, At, MayLook
<1>2. i \in Intent /\ Recorded(i) /\ op[p].request \notin RelayRequest
  BY Zenon, <1>1, DispatchedIntent
<1> HIDE DEF i
<1>3. CASE Return(p) /\ UNCHANGED <<store, blocked>>
  BY Zenon, <1>1, <1>3, ReturnKeeps DEF IndInv, TypeOK
<1>4. CASE StillQueued(i) /\ NotBefore(QueuedAt(i)) /\ AppendEvent(p, i, "CANCELED", "IDLE") /\ UNCHANGED locks
  <2>1. Status(i) = "QUEUED" /\ UpdatedAt(i) <= clock /\ attempts[i] = 0
    BY Zenon, <1>2, <1>4, QueuedSince, InOrder DEF StillQueued, NotBefore
  <2>2. PICK record \in RecordOf(i) :
           /\ CommitRecord(p, i, record, "IDLE") /\ Told(record.events) = "CANCELED"
           /\ record.request = records[i].request
    BY <1>2, <1>4, <2>1, AppendCommits
  <2>3. IF FileBacked THEN op'[p].at = "SYNC" /\ op'[p].request = op[p].request ELSE op'[p] = Idle
    BY Zenon, <2>2, CommitMoves DEF IndInv, TypeOK, Sync
  <2>4. guard' = guard /\ lock' = lock
    BY Zenon, <1>4 DEF locks
  <2>5. HoldsLocks(p)' /\ OnCourse(p)'
    <3>1. HoldsLocks(p)
      BY Zenon DEF IndInv
    <3>2. HoldsLocks(p)'
      BY <1>1, <2>3, <2>4, <3>1 DEF HoldsLocks, Idle
    <3> QED
      BY <1>2, <2>3, <3>2 DEF OnCourse, Idle
  <2> QED
    BY <1>1, <1>2, <2>1, <2>2, <2>4, <2>5, CommitKeeps DEF Moves
<1> QED
  BY Zenon, <1>3, <1>4 DEF DispatchCancel, i

LEMMA DispatchAckKeeps ==
    ASSUME ConstantsOK, IndInv, NEW p \in Process, DispatchAck(p)
    PROVE  IndInv'
<1> DEFINE i == op[p].request.intent
<1>1. op[p].at = "ACK" /\ UNCHANGED <<reachVars, provider, receipts, failures>>
  BY Zenon DEF DispatchAck, At
<1>2. i \in Intent /\ Recorded(i) /\ op[p].request \notin RelayRequest
  BY Zenon, <1>1, DispatchedIntent
<1>3. Status(i) = "DISPATCHING" /\ attempts[i] = 1 /\ i \in accepted /\ guard = p /\ lock = p
  BY Zenon, <1>1 DEF IndInv, OnCourse, HoldsLocks
<1> HIDE DEF i
<1>4. CASE Return(p) /\ UNCHANGED <<store, blocked>>
  BY Zenon, <1>1, <1>4, ReturnKeeps DEF IndInv, TypeOK
<1>5. CASE /\ NotBefore(UpdatedAt(i)) /\ AppendEvent(p, i, "PROVIDER_ACKNOWLEDGED", "IDLE")
           /\ IF FileBacked THEN UNCHANGED locks ELSE guard' = Nobody /\ lock' = Nobody
  <2>1. UpdatedAt(i) <= clock
    BY Zenon, <1>2, <1>5, InOrder DEF NotBefore
  <2>2. PICK record \in RecordOf(i) :
           /\ CommitRecord(p, i, record, "IDLE") /\ Told(record.events) = "PROVIDER_ACKNOWLEDGED"
           /\ record.request = records[i].request
    BY <1>2, <1>3, <1>5, <2>1, AppendCommits
  <2>3. IF FileBacked THEN op'[p].at = "SYNC" /\ op'[p].request = op[p].request ELSE op'[p] = Idle
    BY Zenon, <2>2, CommitMoves DEF IndInv, TypeOK, Sync
  <2>4. IF FileBacked THEN guard' = p /\ lock' = p ELSE guard' = Nobody /\ lock' = Nobody
    BY Zenon, <1>3, <1>5 DEF locks
  <2>5. HoldsLocks(p)'
    BY <2>3, <2>4 DEF HoldsLocks, Idle, ConstantsOK
  <2>6. OnCourse(p)'
    BY <1>2, <2>3 DEF OnCourse, Idle
  <2>7. Moves(guard, guard', p) /\ Moves(lock, lock', p)
    BY Zenon, <1>3, <2>4 DEF Moves
  <2> QED
    BY <1>1, <1>2, <1>3, <2>2, <2>5, <2>6, <2>7, CommitKeeps
<1> QED
  BY Zenon, <1>4, <1>5 DEF DispatchAck, i

LEMMA DispatchReserveKeeps ==
    ASSUME ConstantsOK, IndInv, NEW p \in Process, DispatchReserve(p)
    PROVE  IndInv'
<1>1. /\ op[p].at = "DISPATCH" /\ guard = Nobody /\ lock \in {p, Nobody}
      /\ UNCHANGED <<reachVars, provider, receipts, failures>> /\ op \in [Process -> Operation]
  BY Zenon DEF DispatchReserve, At, MayLook, IndInv, TypeOK
<1>2. PICK i \in Intent :
         /\ i = op[p].request.intent /\ op[p].request = [intent |-> i]
         /\ Recorded(i) /\ op[p].request \notin RelayRequest
  BY Zenon, <1>1, DispatchedIntent
<1> DEFINE q == records[i].request
<1>3. HoldsLocks(p)
  BY Zenon DEF IndInv
<1>4. CASE Goto(p, "CANCEL") /\ UNCHANGED <<store, blocked, locks>>
  <2>1. /\ op' \in [Process -> Operation] /\ op'[p].at = "CANCEL" /\ op'[p].request = op[p].request
        /\ \A r \in Process \ {p} : op'[r] = op[r]
    BY Zenon, <1>1, <1>4, GotoMoves DEF Goto
  <2>2. guard' = guard /\ lock' = lock /\ records' = records
    BY Zenon, <1>4 DEF locks, store
  <2>3. HoldsLocks(p)'
    BY Zenon, <1>1, <1>3, <2>1, <2>2 DEF HoldsLocks
  <2>4. OnCourse(p)'
    <3>1. op'[p].request.intent = i
      BY Zenon, <1>2, <2>1
    <3> QED
      BY Zenon, <1>2, <2>1, <2>2, <3>1 DEF OnCourse, Recorded
  <2> QED
    BY Zenon, <1>1, <1>4, <2>1, <2>2, <2>3, <2>4, QuietKeeps DEF Moves, IndInv, TypeOK
<1>5. CASE Return(p) /\ UNCHANGED <<store, blocked>>
  BY Zenon, <1>1, <1>5, ReturnKeeps DEF IndInv, TypeOK
<1>6. ASSUME NEW g \in Authorized(q), StillQueued(i), g.session = records[i].session, NotBefore(QueuedAt(i)),
             AppendEvent(p, i, "DISPATCHING", "CALL"), guard' = p, lock' = p
      PROVE  IndInv'
  <2>1. Status(i) = "QUEUED" /\ UpdatedAt(i) <= clock /\ attempts[i] = 0
    BY Zenon, <1>2, <1>6, QueuedSince, InOrder DEF StillQueued, NotBefore
  <2>2. PICK record \in RecordOf(i) :
           /\ CommitRecord(p, i, record, "CALL") /\ Told(record.events) = "DISPATCHING"
           /\ record.request = q /\ record.session = records[i].session
    BY SMTT(30), <1>2, <1>6, <2>1, AppendCommits
  <2>3. op'[p].at = (IF FileBacked THEN "SYNC_CALL" ELSE "CALL") /\ op'[p].request = op[p].request
    BY Zenon, <1>1, <2>2, CommitMoves DEF Sync
  <2>4. records'[i] = record /\ record # NoRecord /\ StatusIn(records', i) = "DISPATCHING"
    BY <1>2, <2>2, CommitStores
  <2>5. HoldsLocks(p)'
    BY Zenon, <1>6, <2>3 DEF HoldsLocks
  <2>6. Cleared(i)'
    <3>1. /\ g \in grants /\ g.id = q.grant /\ g.requester \in Agent \cap Active /\ g.human \in Human \cap Active
          /\ GrantStands(g)
      BY Zenon, <1>6 DEF Authorized, GrantActive
    <3>2. grants' = grants /\ GrantStands(g)'
      BY Zenon, <1>1, <3>1 DEF reachVars, directory, GrantStands, Revoked, Withdrawn
    <3> QED
      BY Zenon, <1>6, <2>2, <2>4, <3>1, <3>2 DEF Cleared
  <2>7. OnCourse(p)'
    <3>1. op'[p].request.intent = i /\ op'[p].request = [intent |-> i]
      BY Zenon, <1>2, <2>3
    <3>2. Recorded(i)' /\ Status(i)' = "DISPATCHING" /\ attempts'[i] = 0
      BY Zenon, <1>1, <2>1, <2>2, <2>4 DEF Recorded, Status, Told, provider
    <3>3. op'[p].at = "CALL" => \A s \in Found' : StatusIn(s, i) = "DISPATCHING"
      BY Zenon, <2>3, <2>4 DEF Found
    <3> QED
      BY Zenon, <1>2, <2>3, <2>6, <3>1, <3>2, <3>3 DEF OnCourse
  <2>8. Moves(guard, guard', p) /\ Moves(lock, lock', p)
    BY Zenon, <1>1, <1>6 DEF Moves
  <2> QED
    BY Zenon, <1>1, <1>2, <2>1, <2>2, <2>5, <2>7, <2>8, CommitKeeps
<1> QED
  BY Zenon, <1>2, <1>4, <1>5, <1>6 DEF DispatchReserve

LEMMA QueueCommitKeeps ==
    ASSUME ConstantsOK, IndInv, NEW p \in Process, QueueCommit(p)
    PROVE  IndInv'
<1> DEFINE first == <<[status |-> "QUEUED", at |-> op[p].time]>>
<1>1. /\ op[p].at = "QUEUE_COMMIT" /\ guard = Nobody /\ lock \in {p, Nobody}
      /\ UNCHANGED <<reachVars, provider, failures>> /\ op \in [Process -> Operation]
  BY Zenon DEF QueueCommit, At, MayLook, IndInv, TypeOK
<1>2. PICK q \in RelayRequest : q = op[p].request /\ op[p].time \in 1..MaxClock /\ q.intent \in Intent
  <2>1. op[p].request \in RelayRequest /\ op[p].time # 0
    BY Zenon, <1>1 DEF IndInv, OnCourse
  <2>2. op[p] \in Operation
    BY Zenon, <1>1
  <2>3. op[p].time \in 0..MaxClock /\ MaxClock \in Nat
    BY Zenon, <2>2 DEF Operation, ConstantsOK
  <2> QED
    BY <2>1, <2>3 DEF Intent
<1>3. CASE /\ Return(p) /\ UNCHANGED <<store, blocked>>
           /\ receipts' = receipts \/ (AnswersRetry(q) /\ receipts' = receipts \cup {Receipt(q)})
  <2>1. AnswersRetry(q) => AnswersRetry(q)'
    BY Zenon, <1>1, <1>3, SameStore
  <2>2. receipts' \subseteq receipts \cup {r \in Receipts : Backed(r)'}
    <3>1. AnswersRetry(q) => Receipt(q) \in {r \in Receipts : Backed(r)'}
      BY Zenon, <2>1, ReceiptIsBacked
    <3> QED
      BY Zenon, <1>3, <3>1
  <2> QED
    BY Zenon, <1>1, <1>3, <2>2, ReturnKeeps DEF IndInv, TypeOK
<1>4. ASSUME NEW g \in Authorized(q), ~Recorded(q.intent), GrantUnused(q),
             CommitRecord(p, q.intent, [request |-> q, session |-> g.session, events |-> first], "IDLE"),
             receipts' = IF FileBacked THEN receipts ELSE receipts \cup {Receipt(q)},
             guard' = IF FileBacked THEN p ELSE Nobody, lock' = lock
      PROVE  IndInv'
  <2> DEFINE record == [request |-> q, session |-> g.session, events |-> first]
  <2>1. first \in History /\ Told(first) = "QUEUED"
    BY Zenon, <1>2, FirstEvent DEF ConstantsOK
  <2>2. g \in GrantRequest
    BY Zenon, <1>4 DEF Authorized, IndInv, TypeOK, DirectoryTypeOK
  <2> HIDE DEF first
  <2>3. record \in RecordOf(q.intent) /\ record.request = q /\ Told(record.events) = "QUEUED"
    BY Zenon, <1>2, <2>1, <2>2 DEF RecordOf, RelayRecord, History
  <2>4. CommitRecord(p, q.intent, record, "IDLE")
    BY Zenon, <1>4 DEF first
  <2> HIDE DEF record
  <2>5. IF FileBacked THEN op'[p].at = "SYNC" /\ op'[p].request = q ELSE op'[p] = Idle
    BY Zenon, <1>1, <1>2, <2>4, CommitMoves DEF Sync
  <2>6. records'[q.intent] = record /\ record # NoRecord
    BY <1>2, <1>4, <2>3, <2>4, CommitStores
  <2>7. AnswersRetry(q)'
    BY Zenon, <2>3, <2>6 DEF AnswersRetry, Recorded
  <2>8. HoldsLocks(p)
    BY Zenon DEF IndInv
  <2>9. HoldsLocks(p)'
    BY <1>1, <1>4, <2>5, <2>8 DEF HoldsLocks, Idle, ConstantsOK
  <2>10. OnCourse(p)'
    BY <2>5, <2>7 DEF OnCourse, Idle
  <2>11. ~(attempts[q.intent] > 0)
    <3>1. StatusIn(records, q.intent) = "NONE" /\ records \in Found
      BY Zenon, <1>4, FoundIsLoadable DEF StatusIn, Recorded
    <3> QED
      BY Zenon, <1>2, <3>1 DEF IndInv, AttemptIsRecorded
  <2>12. Moves(guard, guard', p) /\ Moves(lock, lock', p)
    BY Zenon, <1>1, <1>4 DEF Moves
  <2>13. receipts' \subseteq receipts \cup {r \in Receipts : Backed(r)'}
    BY Zenon, <1>4, <2>7, ReceiptIsBacked
  <2> QED
    BY Zenon, <1>1, <1>2, <1>4, <2>3, <2>4, <2>9, <2>10, <2>11, <2>12, <2>13, CommitKeeps
<1> QED
  <2>1. \/ /\ Return(p) /\ UNCHANGED <<store, blocked>>
           /\ receipts' = receipts \/ (AnswersRetry(q) /\ receipts' = receipts \cup {Receipt(q)})
        \/ \E g \in Authorized(q) :
           /\ ~Recorded(q.intent) /\ GrantUnused(q)
           /\ CommitRecord(p, q.intent, [request |-> q, session |-> g.session, events |-> first], "IDLE")
           /\ receipts' = IF FileBacked THEN receipts ELSE receipts \cup {Receipt(q)}
           /\ guard' = IF FileBacked THEN p ELSE Nobody
           /\ lock' = lock
    BY <1>2, Zenon DEF QueueCommit
  <2> QED
    BY Zenon, <1>3, <1>4, <2>1
-----------------------------------------------------------------------------
(* Steps of the disk, of the provider and of the world. *)

\* The directory is synced: one content is left to be found.
LEMMA SyncKeeps ==
    ASSUME ConstantsOK, IndInv, NEW p \in Process, FileBacked, lock = p,
           survivors' = {records}, UNCHANGED <<reachVars, records, provider, failures>>,
           op' \in [Process -> Operation], \A q \in Process \ {p} : op'[q] = op[q],
           Moves(guard, guard', p), Moves(lock, lock', p), HoldsLocks(p)', OnCourse(p)',
           receipts' \subseteq receipts \cup {r \in Receipts : Backed(r)'},
           blocked' = blocked \ {p}
    PROVE  IndInv'
<1>1. /\ \A q \in Process : HoldsLocks(q)'
      /\ {guard, lock}' \subseteq Process \cup {Nobody}
      /\ \A holder \in {guard', lock'} \ {Nobody} : op'[holder].at # "IDLE"
  BY Zenon, LocksKeep DEF IndInv, TypeOK
<1>2. Found' = {records} /\ records \in Found
  BY Zenon, FoundIsLoadable DEF Found
<1>3. records' = records /\ attempts' = attempts /\ accepted' = accepted /\ failures' = failures
  BY Zenon DEF provider
<1>4. GrantsAreSound' /\ DirectoryTypeOK'
  BY Zenon DEF IndInv, TypeOK, reachVars, directory, GrantsAreSound, DirectoryTypeOK
<1>5. receipts' \subseteq Receipts /\ ReceiptIsKept' /\ ReceiptIsDurable'
  <2>1. \A r \in receipts : AnswersRetry(r.request)'
    BY Zenon, <1>3 DEF IndInv, ReceiptIsKept, AnswersRetry, Recorded
  <2>2. \A r \in receipts, s \in Found' : r.file = "SYNCED" => s[r.request.intent] # NoRecord
    BY Zenon, <1>2 DEF IndInv, ReceiptIsDurable
  <2> QED
    BY Zenon, <2>1, <2>2, ReceiptsKeep DEF IndInv
<1>6. TypeOK'
  BY Zenon, <1>1, <1>3, <1>4, <1>5 DEF IndInv, TypeOK, Receipts
<1>7. SurvivorsAreOlder'
  BY Zenon, <1>3 DEF SurvivorsAreOlder, Recorded
<1>8. AttemptIsRecorded' /\ StoreIsLoadable'
  BY Zenon, <1>2, <1>3 DEF IndInv, AttemptIsRecorded, StoreIsLoadable
<1>9. ASSUME NEW q \in Process \ {p} PROVE OnCourse(q)'
  <2>1. op'[q] = op[q] /\ OnCourse(q) /\ HoldsLocks(q)
    BY Zenon DEF IndInv
  <2>2. op[q].at \notin {"SYNC", "SYNC_CALL", "CALL", "ACK"}
    BY Zenon, <2>1 DEF HoldsLocks
  <2> QED
    BY <1>3, <2>1, <2>2 DEF OnCourse, Recorded
<1>10. \A i \in Intent : attempts'[i] <= 1 /\ (i \in accepted' => attempts'[i] = 1)
  BY Zenon, <1>3 DEF IndInv
<1> QED
  BY Zenon, <1>1, <1>4, <1>5, <1>6, <1>7, <1>8, <1>9, <1>10 DEF IndInv

LEMMA PersistDoneKeeps ==
    ASSUME ConstantsOK, IndInv, NEW p \in Process, PersistDone(p)
    PROVE  IndInv'
<1>1. UNCHANGED <<reachVars, records, provider, failures>> /\ blocked' = blocked \ {p} /\ survivors' = {records}
  BY Zenon DEF PersistDone, SyncDone
<1>2. HoldsLocks(p) /\ OnCourse(p) /\ op \in [Process -> Operation]
  BY Zenon DEF IndInv, TypeOK
<1>3. op[p].at \in {"SYNC", "SYNC_CALL"} /\ FileBacked /\ lock = p
  BY Zenon, <1>2 DEF PersistDone, SyncDone, At, Sync, HoldsLocks
<1>4. CASE /\ op[p].at = "SYNC" /\ Return(p)
           /\ receipts' = receipts \cup {Receipt(q) : q \in {op[p].request} \cap RelayRequest}
  <2>1. op' \in [Process -> Operation] /\ op'[p] = Idle /\ \A q \in Process \ {p} : op'[q] = op[q]
    <3>1. Idle \in Operation
      BY DEF Idle, Operation, NoRequest, ConstantsOK
    <3> QED
      BY Zenon, <1>2, <1>4, <3>1 DEF Return
  <2>2. Moves(guard, guard', p) /\ Moves(lock, lock', p) /\ p \notin {guard', lock'}
    BY Zenon, <1>4 DEF Return, Free, Moves, ConstantsOK
  <2>3. HoldsLocks(p)' /\ OnCourse(p)'
    BY <2>1, <2>2 DEF HoldsLocks, OnCourse, Idle
  <2>4. \A q \in {op[p].request} \cap RelayRequest : AnswersRetry(q)'
    BY Zenon, <1>1, <1>2, <1>4 DEF OnCourse, AnswersRetry, Recorded
  <2>5. receipts' \subseteq receipts \cup {r \in Receipts : Backed(r)'}
    BY Zenon, <1>4, <2>4, ReceiptIsBacked
  <2> QED
    BY Zenon, <1>1, <1>3, <2>1, <2>2, <2>3, <2>5, SyncKeeps
<1>5. CASE op[p].at = "SYNC_CALL" /\ Goto(p, "CALL") /\ UNCHANGED <<locks, receipts>>
  <2>1. /\ op' \in [Process -> Operation] /\ op'[p].at = "CALL" /\ op'[p].request = op[p].request
        /\ \A r \in Process \ {p} : op'[r] = op[r]
    BY Zenon, <1>2, <1>5, GotoMoves DEF Goto
  <2>2. guard' = guard /\ lock' = lock /\ guard = p
    BY Zenon, <1>2, <1>5 DEF locks, HoldsLocks
  <2>3. HoldsLocks(p)'
    BY Zenon, <1>3, <2>1, <2>2 DEF HoldsLocks
  <2>4. PICK i \in Intent :
           /\ i = op[p].request.intent /\ op[p].request = [intent |-> i] /\ Recorded(i)
           /\ Status(i) = "DISPATCHING" /\ attempts[i] = 0 /\ Cleared(i)
    BY Zenon, <1>2, <1>5, DispatchedIntent DEF OnCourse
  <2>5. /\ Recorded(i)' /\ Status(i)' = "DISPATCHING" /\ attempts'[i] = 0
        /\ \A s \in Found' : StatusIn(s, i) = "DISPATCHING"
    BY Zenon, <1>1, <1>3, <2>4 DEF Recorded, Status, provider, Found, StatusIn
  <2>6. Cleared(i)'
    BY Zenon, <1>1, <2>4 DEF Cleared, reachVars, directory, GrantStands, Revoked, Withdrawn
  <2>7. OnCourse(p)'
    <3>1. op'[p].request.intent = i /\ op'[p].request = [intent |-> i]
      BY Zenon, <2>1, <2>4
    <3> QED
      BY Zenon, <2>1, <2>5, <2>6, <3>1 DEF OnCourse
  <2> QED
    BY Zenon, <1>1, <1>3, <1>5, <2>1, <2>2, <2>3, <2>7, SyncKeeps DEF Moves
<1> QED
  BY Zenon, <1>4, <1>5 DEF PersistDone, SyncDone, At, Sync

LEMMA PowerLossKeeps ==
    ASSUME ConstantsOK, IndInv, PowerLoss
    PROVE  IndInv'
<1>1. PICK left \in survivors : records' = left /\ survivors' = {left}
  BY Zenon DEF PowerLoss
<1>2. /\ FileBacked /\ blocked' = {} /\ guard' = Nobody /\ lock' = Nobody
      /\ op' = [p \in Process |-> Idle] /\ attempts' = attempts /\ accepted' = accepted
      /\ receipts' = {r \in receipts : r.file = "SYNCED" \/ left[r.request.intent] # NoRecord}
      /\ UNCHANGED reachVars
  BY Zenon, <1>1 DEF PowerLoss, provider
<1>3. failures' \in 0..MaxFailures
  BY DEF PowerLoss, IndInv, TypeOK, ConstantsOK
<1>4. Found' = {left} /\ left \in Found
  BY Zenon, <1>1, <1>2 DEF Found
<1>5. GrantsAreSound' /\ DirectoryTypeOK'
  BY Zenon, <1>2 DEF IndInv, TypeOK, reachVars, directory, GrantsAreSound, DirectoryTypeOK
<1>6. op' \in [Process -> Operation] /\ \A p \in Process : op'[p] = Idle
  <2>1. Idle \in Operation
    BY DEF Idle, Operation, NoRequest, ConstantsOK
  <2> QED
    BY Zenon, <1>2, <2>1
<1>7. TypeOK'
  BY Zenon, <1>1, <1>2, <1>3, <1>5, <1>6 DEF IndInv, TypeOK
<1>8. SurvivorsAreOlder'
  BY Zenon, <1>1 DEF SurvivorsAreOlder, Recorded
<1>9. \A p \in Process : HoldsLocks(p)' /\ OnCourse(p)'
  BY <1>2, <1>6 DEF HoldsLocks, OnCourse, Idle, ConstantsOK
<1>10. AttemptIsRecorded' /\ StoreIsLoadable'
  BY Zenon, <1>2, <1>4 DEF IndInv, AttemptIsRecorded, StoreIsLoadable
<1>11. ReceiptIsKept' /\ ReceiptIsDurable'
  <2>1. \A r \in receipts' : r \in receipts /\ r.request.intent \in Intent /\ left[r.request.intent] # NoRecord
    BY Zenon, <1>2, <1>4 DEF IndInv, TypeOK, Intent, ReceiptIsDurable
  <2>2. \A i \in Intent : left[i] # NoRecord => left[i].request = records[i].request
    BY Zenon, <1>1, <1>2 DEF IndInv, SurvivorsAreOlder
  <2>3. \A r \in receipts' : AnswersRetry(r.request)'
    BY Zenon, <1>1, <2>1, <2>2 DEF IndInv, ReceiptIsKept, AnswersRetry, Recorded
  <2> QED
    BY Zenon, <1>4, <2>1, <2>3 DEF ReceiptIsKept, ReceiptIsDurable
<1>12. \A i \in Intent : attempts'[i] <= 1 /\ (i \in accepted' => attempts'[i] = 1)
  BY Zenon, <1>2 DEF IndInv
<1> QED
  BY Zenon, <1>5, <1>7, <1>8, <1>9, <1>10, <1>11, <1>12 DEF IndInv

\* Calls and acceptances are added where every content says DISPATCHING or more.
LEMMA ProviderKeeps ==
    ASSUME ConstantsOK, IndInv, UNCHANGED <<reachVars, store, blocked, receipts, failures>>,
           attempts' \in [Intent -> Nat], accepted \subseteq accepted', accepted' \subseteq Intent,
           \A j \in Intent : attempts'[j] <= 1 /\ attempts[j] <= attempts'[j] /\ (j \in accepted' => attempts'[j] = 1),
           \A s \in Found, j \in Intent :
               attempts'[j] > 0 => StatusIn(s, j) \in {"DISPATCHING", "PROVIDER_ACKNOWLEDGED"},
           op' \in [Process -> Operation], {guard, lock}' \subseteq Process \cup {Nobody},
           \A holder \in {guard', lock'} \ {Nobody} : op'[holder].at # "IDLE",
           \A p \in Process : HoldsLocks(p)' /\ OnCourse(p)'
    PROVE  IndInv'
<1>1. records' = records /\ survivors' = survivors /\ receipts' = receipts /\ Found' = Found
  BY Zenon DEF store, Found
<1>2. GrantsAreSound' /\ DirectoryTypeOK'
  BY Zenon DEF IndInv, TypeOK, reachVars, directory, GrantsAreSound, DirectoryTypeOK
<1>3. TypeOK'
  BY Zenon, <1>1, <1>2 DEF IndInv, TypeOK
<1>4. SurvivorsAreOlder' /\ StoreIsLoadable' /\ ReceiptIsKept' /\ ReceiptIsDurable'
  BY Zenon, <1>1 DEF IndInv, SurvivorsAreOlder, StoreIsLoadable, ReceiptIsKept, ReceiptIsDurable, AnswersRetry, Recorded
<1>5. AttemptIsRecorded'
  <2>1. \A j \in Intent : attempts[j] > 0 => attempts'[j] > 0
    BY DEF IndInv, TypeOK
  <2> QED
    BY Zenon, <1>1, <2>1 DEF IndInv, AttemptIsRecorded
<1> QED
  BY Zenon, <1>2, <1>3, <1>4, <1>5 DEF IndInv

LEMMA CallProviderKeeps ==
    ASSUME ConstantsOK, IndInv, NEW p \in Process, CallProvider(p)
    PROVE  IndInv'
<1>1. op[p].at = "CALL" /\ UNCHANGED <<reachVars, store, blocked, receipts, failures>>
  BY Zenon DEF CallProvider, At
<1>2. HoldsLocks(p) /\ OnCourse(p) /\ guard = p /\ lock = p /\ op \in [Process -> Operation]
  BY Zenon, <1>1 DEF IndInv, TypeOK, HoldsLocks
<1>3. PICK i \in Intent :
         /\ i = op[p].request.intent /\ op[p].request = [intent |-> i] /\ Recorded(i)
         /\ Status(i) = "DISPATCHING" /\ attempts[i] = 0 /\ \A s \in Found : StatusIn(s, i) = "DISPATCHING"
  BY Zenon, <1>1, <1>2, DispatchedIntent DEF OnCourse
<1>4. CASE Return(p) /\ UNCHANGED provider
  BY Zenon, <1>1, <1>4, ReturnKeeps DEF IndInv, TypeOK
<1>5. ASSUME attempts' = [attempts EXCEPT ![i] = @ + 1],
             \/ accepted' = accepted \cup {i} /\ Goto(p, "ACK") /\ UNCHANGED locks
             \/ accepted' \in {accepted, accepted \cup {i}} /\ Return(p)
      PROVE  IndInv'
  <2>1. attempts \in [Intent -> Nat] /\ accepted \subseteq Intent
    BY Zenon DEF IndInv, TypeOK
  <2>2. attempts' \in [Intent -> Nat] /\ attempts'[i] = 1 /\ \A j \in Intent \ {i} : attempts'[j] = attempts[j]
    BY <1>3, <1>5, <2>1
  <2>3. accepted \subseteq accepted' /\ accepted' \subseteq accepted \cup {i}
    BY Zenon, <1>5
  <2>4. \A j \in Intent : attempts'[j] <= 1 /\ attempts[j] <= attempts'[j] /\ (j \in accepted' => attempts'[j] = 1)
    BY <1>3, <2>1, <2>2, <2>3 DEF IndInv
  <2>5. \A s \in Found, j \in Intent :
           attempts'[j] > 0 => StatusIn(s, j) \in {"DISPATCHING", "PROVIDER_ACKNOWLEDGED"}
    BY <1>3, <2>2 DEF IndInv, AttemptIsRecorded
  <2>6. /\ op' \in [Process -> Operation] /\ \A q \in Process \ {p} : op'[q] = op[q]
        /\ \/ /\ op'[p].at = "ACK" /\ op'[p].request = op[p].request /\ guard' = p /\ lock' = p
              /\ i \in accepted'
           \/ op'[p] = Idle /\ guard' = Nobody /\ lock' = Nobody
    <3>1. CASE accepted' = accepted \cup {i} /\ Goto(p, "ACK") /\ UNCHANGED locks
      BY Zenon, <1>2, <3>1, GotoMoves DEF Goto, locks
    <3>2. CASE Return(p)
      <4>1. Idle \in Operation
        BY DEF Idle, Operation, NoRequest, ConstantsOK
      <4> QED
        BY Zenon, <1>2, <3>2, <4>1 DEF Return, Free
    <3> QED
      BY Zenon, <1>5, <3>1, <3>2
  <2>7. HoldsLocks(p)'
    BY <2>6 DEF HoldsLocks, Idle, ConstantsOK
  <2>8. Moves(guard, guard', p) /\ Moves(lock, lock', p)
    BY Zenon, <1>2, <2>6 DEF Moves
  <2>9. /\ \A q \in Process : HoldsLocks(q)'
        /\ {guard, lock}' \subseteq Process \cup {Nobody}
        /\ \A holder \in {guard', lock'} \ {Nobody} : op'[holder].at # "IDLE"
    BY Zenon, <2>6, <2>7, <2>8, LocksKeep DEF IndInv, TypeOK
  <2>10. records' = records
    BY Zenon, <1>1 DEF store
  <2>11. OnCourse(p)'
    <3>1. Recorded(i)' /\ Status(i)' = "DISPATCHING"
      BY Zenon, <1>3, <2>10 DEF Recorded, Status
    <3>2. CASE op'[p] = Idle
      BY <3>2 DEF OnCourse, Idle
    <3>3. CASE op'[p].at = "ACK" /\ op'[p].request = op[p].request /\ i \in accepted'
      <4>1. op'[p].request.intent = i /\ op'[p].request = [intent |-> i]
        BY Zenon, <1>3, <3>3
      <4> QED
        BY Zenon, <2>2, <3>1, <3>3, <4>1 DEF OnCourse
    <3> QED
      BY Zenon, <2>6, <3>2, <3>3
  <2>12. ASSUME NEW q \in Process \ {p} PROVE OnCourse(q)'
    <3>1. op'[q] = op[q] /\ OnCourse(q) /\ HoldsLocks(q)
      BY Zenon, <2>6 DEF IndInv
    <3>2. op[q].at \notin {"SYNC_CALL", "CALL", "ACK"}
      BY Zenon, <1>2, <3>1 DEF HoldsLocks
    <3> QED
      BY Zenon, <2>10, <3>1, <3>2 DEF OnCourse, Recorded, AnswersRetry
  <2> QED
    BY Zenon, <1>1, <2>1, <2>2, <2>3, <2>4, <2>5, <2>6, <2>9, <2>11, <2>12, ProviderKeeps
<1> QED
  BY Zenon, <1>3, <1>4, <1>5 DEF CallProvider

LEMMA ProviderAcceptsLateKeeps ==
    ASSUME ConstantsOK, IndInv, NEW i \in Intent, ProviderAcceptsLate(i)
    PROVE  IndInv'
<1>1. /\ UNCHANGED <<reachVars, store, blocked, receipts, failures>> /\ op' = op /\ attempts' = attempts
      /\ attempts[i] > 0 /\ accepted' = accepted \cup {i} /\ guard' = guard /\ lock' = lock
  BY Zenon DEF ProviderAcceptsLate, locks
<1>2. /\ attempts \in [Intent -> Nat] /\ accepted' \subseteq Intent /\ op \in [Process -> Operation]
      /\ {guard, lock} \subseteq Process \cup {Nobody}
      /\ \A holder \in {guard, lock} \ {Nobody} : op[holder].at # "IDLE"
  BY Zenon, <1>1 DEF IndInv, TypeOK
<1>3. \A j \in Intent : attempts'[j] <= 1 /\ attempts[j] <= attempts'[j] /\ (j \in accepted' => attempts'[j] = 1)
  BY <1>1, <1>2 DEF IndInv
<1>4. \A s \in Found, j \in Intent :
         attempts'[j] > 0 => StatusIn(s, j) \in {"DISPATCHING", "PROVIDER_ACKNOWLEDGED"}
  BY Zenon, <1>1 DEF IndInv, AttemptIsRecorded
<1>5. \A p \in Process : HoldsLocks(p)'
  BY Zenon, <1>1 DEF IndInv, HoldsLocks
<1>6. ASSUME NEW p \in Process PROVE OnCourse(p)'
  <2>1. Found' = Found /\ records' = records /\ OnCourse(p)
    BY Zenon, <1>1 DEF Found, store, IndInv
  <2>2. \A j : Cleared(j)' = Cleared(j) /\ Recorded(j)' = Recorded(j) /\ Status(j)' = Status(j)
    BY Zenon, <1>1, <2>1 DEF Cleared, Recorded, Status, reachVars, directory, GrantStands, Revoked, Withdrawn
  <2>3. \A q : AnswersRetry(q)' = AnswersRetry(q)
    BY Zenon, <2>1 DEF AnswersRetry, Recorded
  <2> QED
    BY <1>1, <2>1, <2>2, <2>3 DEF OnCourse
<1> QED
  BY Zenon, <1>1, <1>2, <1>3, <1>4, <1>5, <1>6, ProviderKeeps

\* What the directory's writes do to grants and consents.
LEMMA DirectoryWriteGrows ==
    ASSUME DirectoryTypeOK, GrantsAreSound, DirectoryWrite, UNCHANGED <<clock, reading>>
    PROVE  DirectoryTypeOK' /\ GrantsAreSound'
<1>1. /\ consents \subseteq consents' /\ consents' \subseteq ConsentRequest
      /\ grants \subseteq grants' /\ grants' \subseteq GrantRequest
      /\ withdrawals' \subseteq WithdrawalRequest /\ revocations' \subseteq RevocationRequest
  BY Zenon DEF DirectoryWrite, RegisterHumanMatchConsent, RevokeHumanMatchConsent, IssueHumanReachabilityGrant,
         RevokeHumanReachabilityGrant, DirectoryTypeOK
<1>2. DirectoryTypeOK'
  <2>1. (SUBSET consents) \cup (SUBSET grants) \subseteq (SUBSET consents') \cup (SUBSET grants')
    BY Zenon, <1>1
  <2>2. reading \in [Reader -> [phase : {"NONE", "MATCH", "MATCH_AGAIN", "LOAD", "LOAD_AGAIN", "ANSWERED"},
                                now : 0..MaxClock,
                                found : (SUBSET consents') \cup (SUBSET grants')]]
    BY Zenon, <2>1 DEF DirectoryTypeOK
  <2> QED
    BY Zenon, <1>1, <2>2 DEF DirectoryTypeOK
<1>3. ASSUME grants' = grants PROVE GrantsAreSound'
  BY Zenon, <1>1, <1>3 DEF GrantsAreSound, WithinConsent
<1>4. ASSUME NEW g \in GrantRequest, g \notin grants, IssueHumanReachabilityGrant(g)
      PROVE  GrantsAreSound'
  <2>1. /\ \A h \in grants : h.id # g.id
        /\ \E c \in consents : c.id = g.consent /\ WithinConsent(g, c)
        /\ grants' = grants \cup {g} /\ consents' = consents
    BY Zenon, <1>4 DEF IssueHumanReachabilityGrant, GrantAcceptable
  <2> QED
    BY <2>1 DEF GrantsAreSound, WithinConsent
<1>5. ASSUME NEW g \in grants, IssueHumanReachabilityGrant(g) PROVE grants' = grants
  BY Zenon, <1>5 DEF IssueHumanReachabilityGrant
<1> QED
  BY Zenon, <1>2, <1>3, <1>4, <1>5
     DEF DirectoryWrite, RegisterHumanMatchConsent, RevokeHumanMatchConsent, RevokeHumanReachabilityGrant

LEMMA EnvironmentKeeps ==
    ASSUME ConstantsOK, IndInv, Environment
    PROVE  IndInv'
<1>1. UNCHANGED relayVars
  BY Zenon DEF Environment
<1>2. /\ records' = records /\ survivors' = survivors /\ blocked' = blocked /\ guard' = guard /\ lock' = lock
      /\ op' = op /\ attempts' = attempts /\ accepted' = accepted /\ receipts' = receipts /\ failures' = failures
  BY Zenon, <1>1 DEF relayVars, store, locks, provider
<1>3. DirectoryTypeOK' /\ GrantsAreSound'
  <2>1. CASE DirectoryWrite /\ UNCHANGED <<clock, reading>>
    BY Zenon, <2>1, DirectoryWriteGrows DEF IndInv, TypeOK
  <2>2. CASE Tick
    BY Zenon, <2>2 DEF Tick, directory, IndInv, TypeOK, DirectoryTypeOK, GrantsAreSound
  <2> QED
    BY Zenon, <2>1, <2>2 DEF Environment
<1>4. TypeOK'
  BY Zenon, <1>2, <1>3 DEF IndInv, TypeOK
<1>5. Found' = Found
  BY Zenon, <1>2 DEF Found
<1>6. SurvivorsAreOlder' /\ AttemptIsRecorded' /\ StoreIsLoadable' /\ ReceiptIsKept' /\ ReceiptIsDurable'
  BY <1>2, <1>5 DEF IndInv, SurvivorsAreOlder, AttemptIsRecorded, StoreIsLoadable, ReceiptIsKept, ReceiptIsDurable,
                    AnswersRetry, Recorded
<1>7. \A p \in Process : HoldsLocks(p)'
  BY Zenon, <1>2 DEF IndInv, HoldsLocks
<1>8. ASSUME NEW p \in Process PROVE OnCourse(p)'
  <2>1. OnCourse(p) /\ HoldsLocks(p)
    BY Zenon DEF IndInv
  <2>2. \A j : Recorded(j)' = Recorded(j) /\ Status(j)' = Status(j)
    BY Zenon, <1>2 DEF Recorded, Status
  <2>3. \A q : AnswersRetry(q)' = AnswersRetry(q)
    BY Zenon, <1>2 DEF AnswersRetry, Recorded
  <2>4. ASSUME op[p].at \in {"SYNC_CALL", "CALL"}, NEW i, Cleared(i) PROVE Cleared(i)'
    <3>1. guard # Nobody
      BY Zenon, <2>1, <2>4 DEF HoldsLocks, ConstantsOK
    <3>2. Tick
      BY Zenon, <3>1 DEF Environment
    <3> QED
      BY Zenon, <1>2, <2>4, <3>2 DEF Tick, directory, Cleared, GrantStands, Revoked, Withdrawn
  <2> QED
    BY <1>2, <1>5, <2>1, <2>2, <2>3, <2>4 DEF OnCourse
<1>9. \A i \in Intent : attempts'[i] <= 1 /\ (i \in accepted' => attempts'[i] = 1)
  BY Zenon, <1>2 DEF IndInv
<1> QED
  BY Zenon, <1>3, <1>4, <1>6, <1>7, <1>8, <1>9 DEF IndInv
-----------------------------------------------------------------------------
(* The theorems. *)

LEMMA InitIndInv ==
    ASSUME ConstantsOK, Init
    PROVE  IndInv
<1>1. /\ records = [i \in Intent |-> NoRecord] /\ survivors = {records}
      /\ blocked = {} /\ guard = Nobody /\ lock = Nobody /\ op = [p \in Process |-> Idle]
      /\ attempts = [i \in Intent |-> 0] /\ accepted = {} /\ receipts = {} /\ failures = 0
  BY Zenon DEF Init, RelayInit
<1>2. DirectoryTypeOK /\ GrantsAreSound
  <2>1. /\ clock = 1 /\ consents = {} /\ withdrawals = {} /\ grants = {} /\ revocations = {}
        /\ reading = [r \in Reader |-> NoRead]
    BY Zenon DEF Init, DirectoryInit
  <2>2. NoRead \in [phase : {"NONE", "MATCH", "MATCH_AGAIN", "LOAD", "LOAD_AGAIN", "ANSWERED"}, now : 0..MaxClock,
                     found : (SUBSET consents) \cup (SUBSET grants)]
    BY DEF NoRead, ConstantsOK
  <2>3. clock \in 1..MaxClock
    BY <2>1 DEF ConstantsOK
  <2> QED
    BY Zenon, <2>1, <2>2, <2>3 DEF DirectoryTypeOK, GrantsAreSound
<1>3. records \in Contents /\ \A i \in Intent : records[i] = NoRecord
  BY Zenon, <1>1 DEF Contents
<1>4. op \in [Process -> Operation] /\ \A p \in Process : op[p] = Idle
  <2>1. Idle \in Operation
    BY DEF Idle, Operation, NoRequest, ConstantsOK
  <2> QED
    BY Zenon, <1>1, <2>1
<1>5. TypeOK
  BY <1>1, <1>2, <1>3, <1>4 DEF TypeOK, ConstantsOK
<1>6. \A p \in Process : HoldsLocks(p) /\ OnCourse(p)
  BY Zenon, <1>1, <1>4 DEF HoldsLocks, OnCourse, Idle, ConstantsOK
<1>7. SurvivorsAreOlder /\ Found = {records}
  BY Zenon, <1>1, <1>3 DEF SurvivorsAreOlder, Found
<1>8. AttemptIsRecorded /\ StoreIsLoadable /\ ReceiptIsKept /\ ReceiptIsDurable
  BY <1>1, <1>3, <1>7 DEF AttemptIsRecorded, StoreIsLoadable, ValidateRelayState, ReceiptIsKept, ReceiptIsDurable, StatusIn
<1> QED
  BY <1>1, <1>2, <1>5, <1>6, <1>7, <1>8 DEF IndInv

LEMMA StutterKeeps ==
    ASSUME IndInv, UNCHANGED vars
    PROVE  IndInv'
<1>1. /\ UNCHANGED <<reachVars, store, provider>> /\ op' = op /\ guard' = guard /\ lock' = lock
      /\ blocked' = blocked /\ receipts' = receipts /\ failures' = failures
  BY Zenon DEF vars, relayVars, locks
<1>2. /\ \A q \in Process : OnCourse(q)'
      /\ SurvivorsAreOlder' /\ AttemptIsRecorded' /\ StoreIsLoadable' /\ GrantsAreSound' /\ DirectoryTypeOK'
  BY Zenon, <1>1, SameStore DEF IndInv, TypeOK
<1>3. \A q \in Process : HoldsLocks(q)'
  BY Zenon, <1>1 DEF IndInv, HoldsLocks
<1>4. ReceiptIsKept' /\ ReceiptIsDurable'
  BY Zenon, <1>1, SameStore DEF IndInv, ReceiptIsKept, ReceiptIsDurable
<1>5. TypeOK' /\ \A i \in Intent : attempts'[i] <= 1 /\ (i \in accepted' => attempts'[i] = 1)
  BY Zenon, <1>1, <1>2 DEF IndInv, TypeOK, store, provider
<1> QED
  BY Zenon, <1>2, <1>3, <1>4, <1>5 DEF IndInv

LEMMA NextIndInv ==
    ASSUME ConstantsOK, IndInv, [Next]_vars
    PROVE  IndInv'
<1>1. ASSUME NEW p \in Process, Continue(p) PROVE IndInv'
  BY Zenon, <1>1, QueueLookKeeps, QueueCommitKeeps, DispatchReserveKeeps, CallProviderKeeps, DispatchAckKeeps,
     DispatchCancelKeeps, PersistDoneKeeps DEF Continue
<1>2. ASSUME NEW p \in Process, Fail(p) \/ Crash(p) \/ Reopen(p) PROVE IndInv'
  BY Zenon, <1>2, FailKeeps, ReopenKeeps
<1>3. ASSUME NEW p \in Process, NEW q \in RelayRequest, QueueBegin(p, q) PROVE IndInv'
  BY Zenon, <1>3, QueueBeginKeeps
<1>4. ASSUME NEW p \in Process, NEW i \in Intent, DispatchBegin(p, i) \/ Reconcile(p, i) PROVE IndInv'
  BY Zenon, <1>4, DispatchBeginKeeps, ReconcileKeeps
<1>5. ASSUME Environment \/ PowerLoss \/ \E i \in Intent : ProviderAcceptsLate(i) PROVE IndInv'
  BY Zenon, <1>5, EnvironmentKeeps, PowerLossKeeps, ProviderAcceptsLateKeeps
<1> QED
  BY Zenon, <1>1, <1>2, <1>3, <1>4, <1>5, StutterKeeps DEF Next

\* The inductive invariant of the relay: whoever is between a reservation and the
\* end of its provider call holds both locks, what it reserved is in every content
\* that a power loss may leave, and the grant it relies on stands.
THEOREM Invariant == ASSUME ConstantsOK PROVE Spec => []IndInv
BY InitIndInv, NextIndInv, PTL DEF Spec

\* CommitAuthorizedDispatch calls the provider at most once for an intent, and for
\* at most one intent of a grant, whatever races, crashes or loses power.
THEOREM OneCallPerGrant == ASSUME ConstantsOK PROVE Spec => []OneAttempt
<1>1. ASSUME IndInv PROVE OneAttempt
  <2> SUFFICES ASSUME NEW i \in Intent, NEW j \in Intent
               PROVE  /\ attempts[i] <= 1
                      /\ attempts[i] + attempts[j] = 2 /\ i # j
                            => records[i].request.grant # records[j].request.grant
    BY Zenon DEF OneAttempt
  <2>1. attempts[i] \in 0..1 /\ attempts[j] \in 0..1
    BY <1>1 DEF IndInv, TypeOK
  <2>2. Loadable(records) /\ records \in Found
    BY Zenon, <1>1, FoundIsLoadable
  <2>3. ASSUME attempts[i] = 1, attempts[j] = 1, i # j
        PROVE  records[i].request.grant # records[j].request.grant
    <3>1. StatusIn(records, i) # "NONE" /\ StatusIn(records, j) # "NONE"
      BY <1>1, <2>2, <2>3 DEF IndInv, AttemptIsRecorded
    <3>2. records[i] # NoRecord /\ records[j] # NoRecord
      BY Zenon, <3>1 DEF StatusIn
    <3> QED
      BY Zenon, <2>2, <2>3, <3>2 DEF Loadable, ValidateRelayState
  <2> QED
    BY <2>1, <2>3
<1> QED
  BY <1>1, Invariant, PTL

\* After a call, every content the store may come back with says DISPATCHING or
\* PROVIDER_ACKNOWLEDGED: the reservation is durable before the provider is called.
THEOREM ReservedBeforeCall == ASSUME ConstantsOK PROVE Spec => []AttemptIsRecorded
<1>1. IndInv => AttemptIsRecorded
  BY Zenon DEF IndInv
<1> QED
  BY <1>1, Invariant, PTL

\* validateRelayState accepts every content that persist may leave, with clocks set
\* back at any point.  A receipt is never turned into another's, no crash makes it
\* forgotten, and no power loss either if it was given from a file already synced.
THEOREM StoreStaysLoadable == ASSUME ConstantsOK PROVE Spec => [](StoreIsLoadable /\ ReceiptIsKept)
<1>1. IndInv => StoreIsLoadable /\ ReceiptIsKept
  BY Zenon DEF IndInv
<1> QED
  BY <1>1, Invariant, PTL

\* The provider is only called under a grant that stands, is within its window and
\* within its consent's, and is the one whose session the intent was queued under.
THEOREM CallUnderStandingGrant == ASSUME ConstantsOK PROVE Spec => AttemptIsAuthorized
<1>1. ASSUME IndInv, [Next]_vars PROVE CallIsAuthorized
  <2> SUFFICES ASSUME NEW i \in Intent, attempts'[i] # attempts[i]
               PROVE  \E g \in grants :
                         /\ g.id = records[i].request.grant /\ g.session = records[i].session
                         /\ GrantActive(g)
                         /\ \E c \in consents : c.id = g.consent /\ Within(clock, c)
    BY Zenon DEF CallIsAuthorized
  <2>1. PICK p \in Process : CallProvider(p) /\ StillAuthorized(op[p].request.intent)
                            /\ op[p].request.intent = i
    <3>1. ~UNCHANGED provider
      BY Zenon DEF provider
    <3>2. PICK p \in Process : CallProvider(p)
      <4>1. ~UNCHANGED vars /\ ~Environment /\ ~PowerLoss /\ ~\E j \in Intent : ProviderAcceptsLate(j)
        BY Zenon, <3>1 DEF vars, relayVars, Environment, PowerLoss, ProviderAcceptsLate, provider
      <4>2. ASSUME NEW p \in Process
            PROVE  /\ ~Fail(p) /\ ~Crash(p) /\ ~Reopen(p)
                   /\ \A q \in RelayRequest : ~QueueBegin(p, q)
                   /\ \A j \in Intent : ~DispatchBegin(p, j) /\ ~Reconcile(p, j)
        BY Zenon, <3>1 DEF Fail, Crash, Reopen, QueueBegin, DispatchBegin, Reconcile
      <4>3. ASSUME NEW p \in Process
            PROVE  /\ ~QueueLook(p) /\ ~QueueCommit(p) /\ ~DispatchReserve(p)
                   /\ ~DispatchAck(p) /\ ~DispatchCancel(p) /\ ~PersistDone(p)
        BY Zenon, <3>1 DEF QueueLook, QueueCommit, DispatchReserve, DispatchAck, DispatchCancel, PersistDone
      <4> QED
        BY Zenon, <1>1, <4>1, <4>2, <4>3 DEF Next, Continue
    <3>3. op[p].request.intent \in Intent
      BY Zenon, <1>1, <3>2, DispatchedIntent DEF CallProvider, At
    <3>4. /\ StillAuthorized(op[p].request.intent)
          /\ attempts' = [attempts EXCEPT ![op[p].request.intent] = @ + 1]
      BY Zenon, <3>1, <3>2 DEF CallProvider
    <3>5. attempts \in [Intent -> Nat]
      BY Zenon, <1>1 DEF IndInv, TypeOK
    <3> QED
      BY Zenon, <3>2, <3>3, <3>4, <3>5
  <2>2. Cleared(i)
    BY Zenon, <1>1, <2>1 DEF IndInv, OnCourse, CallProvider, At
  <2>3. PICK g \in grants :
           /\ g.id = records[i].request.grant /\ g.session = records[i].session
           /\ g.requester \in Agent \cap Active /\ g.human \in Human \cap Active /\ GrantStands(g)
    BY Zenon, <2>2 DEF Cleared
  <2>4. Within(clock, g)
    <3>1. PICK h \in grants : h.id = records[i].request.grant /\ Within(clock, h)
      BY Zenon, <2>1 DEF StillAuthorized
    <3> QED
      BY Zenon, <1>1, <2>3, <3>1 DEF IndInv, GrantsAreSound
  <2>5. PICK c \in consents : c.id = g.consent /\ WithinConsent(g, c)
    BY Zenon, <1>1 DEF IndInv, GrantsAreSound
  <2>6. Within(clock, c)
    <3>1. /\ c.from \in Nat /\ c.until \in Nat /\ g.from \in Nat /\ g.until \in Nat /\ clock \in Nat
      BY SMTT(30), <1>1 DEF ConstantsOK, IndInv, TypeOK, DirectoryTypeOK
    <3> QED
      BY <2>4, <2>5, <3>1 DEF Within, WithinConsent
  <2> QED
    BY Zenon, <2>3, <2>4, <2>5, <2>6 DEF GrantActive
<1> QED
  BY <1>1, Invariant, PTL DEF Spec, AttemptIsAuthorized
=============================================================================
