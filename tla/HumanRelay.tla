----------------------------- MODULE HumanRelay -----------------------------
(***************************************************************************)
(* The Agent-to-Human relay of pkg/humanrelay on top of the reachability   *)
(* directory: Service.Queue, Worker.Dispatch and Worker.Reconcile, in the  *)
(* in-process MemoryStore and in the FileStore that runs it over a file.   *)
(*                                                                         *)
(* A process runs one operation at a time, step by step.  Two locks order  *)
(* them.  "guard" is the directory's: it is held from the grant decision   *)
(* to the end of the relay's callback, provider call included, and every   *)
(* directory write needs it.  "lock" is the relay's: with FileBacked it is *)
(* the flock around a whole operation, otherwise the mutex of MemoryStore, *)
(* taken for each look at the records and for the dispatch callback.       *)
(*                                                                         *)
(* FileStore replaces its state file by rename and then syncs the parent   *)
(* directory.  Between the two the new content is visible but may not      *)
(* survive a power loss: "survivors" are the contents that may be found    *)
(* after one.  A receipt is the last event of its intent.  It comes from a *)
(* synced file, or from one that another handle renamed and failed to sync. *)
(***************************************************************************)
EXTENDS Reachability, Sequences

CONSTANTS
    Process,
    Nobody,
    RelayRequest,      \* [intent, grant, requester, scope, content, until]: until is
                       \* the end of the authorization presented with the request
    FileBacked,        \* TRUE: FileStore, FALSE: MemoryStore
    MaxFailures        \* crashes, power losses and failing operations, a bound

Intent == {q.intent : q \in RelayRequest}

VARIABLES
    records,           \* Intent -> its record: the file, or the map of MemoryStore
    survivors,         \* the file contents a power loss may leave
    blocked,           \* the processes whose FileStore handle is fenced
    guard, lock,       \* the holders, or Nobody
    op,                \* Process -> the operation it is in
    attempts,          \* Intent -> provider calls made
    accepted,          \* the intents the provider has accepted
    receipts,          \* requests answered with a receipt, and from which file
    failures

store == <<records, survivors>>
locks == <<guard, lock>>
provider == <<attempts, accepted>>
relayVars == <<store, blocked, locks, op, provider, receipts, failures>>
vars == <<reachVars, relayVars>>

NoRequest == [intent |-> Nobody]
NoRecord == [request |-> NoRequest, session |-> Nobody, events |-> <<>>]
Idle == [at |-> "IDLE", request |-> NoRequest, time |-> 0]

\* sameQueueCommit and sameBusinessIntent: everything but the authorization.
Business(q) == <<q.intent, q.grant, q.requester, q.scope, q.content>>

Last(events) == events[Len(events)]

Recorded(i) == records[i] # NoRecord
Status(i) == Last(records[i].events).status
UpdatedAt(i) == Last(records[i].events).at
QueuedAt(i) == Head(records[i].events).at
-----------------------------------------------------------------------------
(* Locks, commits and how operations end. *)

At(p, where) == op[p].at = where

Goto(p, where) == op' = [op EXCEPT ![p].at = where]

Free(holder, p) == IF holder = p THEN Nobody ELSE holder

\* The operation returns and its deferred unlocks run.
Return(p) ==
    /\ op' = [op EXCEPT ![p] = Idle]
    /\ guard' = Free(guard, p) /\ lock' = Free(lock, p)

Fenced(p) == FileBacked /\ p \in blocked

\* withStore: a fenced handle is refused, the flock is held to the end.
MayEnter(p) == lock = Nobody /\ ~Fenced(p)

EnterStore(p) == MayEnter(p) /\ lock' = IF FileBacked THEN p ELSE Nobody

\* In MemoryStore the records cannot be looked at while another holds the mutex.
MayLook(p) == lock \in {p, Nobody}

Sync(where) == IF where = "IDLE" THEN "SYNC" ELSE "SYNC_CALL"

\* commitRecord: the map is replaced; with FileStore persist renames the new
\* file into place first and fences the handle until the directory is synced.
CommitRecord(p, i, record, then) ==
    /\ records' = [records EXCEPT ![i] = record]
    /\ IF FileBacked
       THEN /\ survivors' = survivors \cup {records'}
            /\ blocked' = blocked \cup {p}
            /\ op' = [op EXCEPT ![p].at = Sync(then)]
       ELSE /\ UNCHANGED <<survivors, blocked>>
            /\ op' = [op EXCEPT ![p] = IF then = "IDLE" THEN Idle ELSE [@ EXCEPT !.at = then]]

\* The receipt of q, which the caller reads in the file as it is after this step.
Receipt(q) ==
    [request |-> q, file |-> IF FileBacked => survivors' = {records'} THEN "SYNCED" ELSE "UNSYNCED"]

AppendEvent(p, i, status, then) ==
    CommitRecord(p, i, [records[i] EXCEPT !.events = Append(@, [status |-> status, at |-> clock])], then)

\* Mutation: the parent directory is not synced.
SyncDoneWithoutDirectory(p, then) ==
    /\ At(p, Sync(then))
    /\ UNCHANGED survivors

\* The rest of persist: the directory is synced, the handle is usable again.
SyncDone(p, then) ==
    /\ At(p, Sync(then))
    /\ survivors' = {records}

\* A request whose first commit is synced gets its receipt.
PersistDone(p) ==
    /\ UNCHANGED records
    /\ \/ SyncDone(p, "IDLE") /\ Return(p)
          /\ receipts' = receipts \cup {Receipt(q) : q \in {op[p].request} \cap RelayRequest}
       \/ SyncDone(p, "CALL") /\ Goto(p, "CALL") /\ UNCHANGED <<locks, receipts>>
    /\ blocked' = blocked \ {p}
    /\ UNCHANGED <<reachVars, provider, failures>>
-----------------------------------------------------------------------------
(* Service.Queue and CommitAuthorizedIntent. *)

\* Queue reads the clock before the Store is entered.
QueueBegin(p, q) ==
    /\ At(p, "IDLE") /\ clock < q.until
    /\ op' = [op EXCEPT ![p] = [at |-> "QUEUE", request |-> q, time |-> clock]]
    /\ UNCHANGED <<reachVars, store, blocked, locks, provider, receipts, failures>>

AnswersRetry(q) == Recorded(q.intent) /\ Business(records[q.intent].request) = Business(q)

\* An exact retry is answered from the record, whatever became of the grant.
QueueLook(p) ==
    /\ At(p, "QUEUE") /\ UNCHANGED store
    /\ LET q == op[p].request IN
       \/ Fenced(p) /\ Return(p) /\ UNCHANGED receipts
       \/ MayEnter(p) /\ AnswersRetry(q) /\ Return(p) /\ receipts' = receipts \cup {Receipt(q)}
       \/ /\ EnterStore(p) /\ ~AnswersRetry(q)
          /\ Goto(p, "QUEUE_COMMIT") /\ UNCHANGED <<guard, receipts>>
    /\ UNCHANGED <<reachVars, blocked, provider, failures>>

GrantUnused(q) == \A i \in Intent : Recorded(i) => records[i].request.grant # q.grant

\* The directory's decision: an active grant of this very requester and scope.
Authorized(q) ==
    {g \in grants : g.id = q.grant /\ g.requester = q.requester /\ g.scope = q.scope /\ GrantActive(g)}

\* Under the guard: the grant decision, then commitIntent.  A commit that
\* another process made meanwhile is answered as a retry or refused.
QueueCommit(p) ==
    /\ At(p, "QUEUE_COMMIT") /\ guard = Nobody /\ MayLook(p)
    /\ LET q == op[p].request IN
       \/ /\ Authorized(q) = {} \/ clock >= q.until
          /\ Return(p) /\ UNCHANGED <<store, blocked, receipts>>
       \/ /\ Authorized(q) # {} /\ clock < q.until /\ Recorded(q.intent)
          /\ UNCHANGED <<store, blocked>>
          /\ receipts' = IF AnswersRetry(q) THEN receipts \cup {Receipt(q)} ELSE receipts
          /\ Return(p)
       \/ /\ Authorized(q) # {} /\ clock < q.until /\ ~Recorded(q.intent) /\ ~GrantUnused(q)
          /\ Return(p) /\ UNCHANGED <<store, blocked, receipts>>
       \/ \E g \in Authorized(q) :
          /\ clock < q.until /\ ~Recorded(q.intent) /\ GrantUnused(q)
          /\ CommitRecord(p, q.intent,
                [request |-> q, session |-> g.session,
                 events |-> <<[status |-> "QUEUED", at |-> op[p].time]>>], "IDLE")
          /\ receipts' = IF FileBacked THEN receipts ELSE receipts \cup {Receipt(q)}
          /\ guard' = IF FileBacked THEN p ELSE Nobody
          /\ UNCHANGED lock
    /\ UNCHANGED <<reachVars, provider, failures>>
-----------------------------------------------------------------------------
(* Worker.Dispatch: CommitAuthorizedDispatch. *)

\* Anything but a QUEUED intent is answered with its receipt: no step.
DispatchBegin(p, i) ==
    /\ At(p, "IDLE") /\ EnterStore(p)
    /\ Recorded(i) /\ Status(i) = "QUEUED"
    /\ op' = [op EXCEPT ![p] = [at |-> "DISPATCH", request |-> [intent |-> i], time |-> 0]]
    /\ UNCHANGED <<reachVars, store, blocked, guard, provider, receipts, failures>>

StillQueued(i) == Status(i) = "QUEUED"

NotBefore(t) == clock >= t

\* Under the guard and the relay's lock: reserve the one provider call.
DispatchReserve(p) ==
    /\ At(p, "DISPATCH") /\ guard = Nobody /\ MayLook(p)
    /\ LET i == op[p].request.intent
           q == records[i].request IN
       \/ /\ Authorized(q) = {}
          /\ Goto(p, "CANCEL") /\ UNCHANGED <<store, blocked, locks>>
       \/ \E g \in Authorized(q) :
          IF StillQueued(i) /\ g.session = records[i].session /\ NotBefore(QueuedAt(i))
          THEN /\ AppendEvent(p, i, "DISPATCHING", "CALL")
               /\ guard' = p /\ lock' = p
          ELSE Return(p) /\ UNCHANGED <<store, blocked>>
    /\ UNCHANGED <<reachVars, provider, receipts, failures>>

\* Mutation: slow storage is not noticed.
StillAuthorizedThen(i) == TRUE

\* The clock is compared with the grant again after the reservation is durable.
StillAuthorized(i) ==
    /\ \E g \in grants : g.id = records[i].request.grant /\ Within(clock, g)
    /\ clock >= UpdatedAt(i)

\* The provider's answer may be an acknowledgement, or an error that says
\* nothing about what the provider did.
CallProvider(p) ==
    /\ At(p, "CALL")
    /\ LET i == op[p].request.intent IN
       IF StillAuthorized(i)
       THEN /\ attempts' = [attempts EXCEPT ![i] = @ + 1]
            /\ \/ accepted' = accepted \cup {i} /\ Goto(p, "ACK") /\ UNCHANGED locks
               \/ accepted' \in {accepted, accepted \cup {i}} /\ Return(p)
       ELSE Return(p) /\ UNCHANGED provider
    /\ UNCHANGED <<reachVars, store, blocked, receipts, failures>>

\* The acknowledgement ends the operation; its locks go with it.
DispatchAck(p) ==
    /\ At(p, "ACK")
    /\ LET i == op[p].request.intent IN
       IF NotBefore(UpdatedAt(i))
       THEN /\ AppendEvent(p, i, "PROVIDER_ACKNOWLEDGED", "IDLE")
            /\ IF FileBacked THEN UNCHANGED locks
               ELSE guard' = Nobody /\ lock' = Nobody
       ELSE Return(p) /\ UNCHANGED <<store, blocked>>
    /\ UNCHANGED <<reachVars, provider, receipts, failures>>

\* cancelQueuedIntent: the guard is not held any more.
DispatchCancel(p) ==
    /\ At(p, "CANCEL") /\ MayLook(p)
    /\ LET i == op[p].request.intent IN
       IF StillQueued(i) /\ NotBefore(QueuedAt(i))
       THEN AppendEvent(p, i, "CANCELED", "IDLE") /\ UNCHANGED locks
       ELSE Return(p) /\ UNCHANGED <<store, blocked>>
    /\ UNCHANGED <<reachVars, provider, receipts, failures>>
-----------------------------------------------------------------------------
(* Worker.Reconcile, and what processes and the world do to operations. *)

\* Mutation: reconciliation asks for the authority a dispatch needs.
EvidenceFoundWhileActive(i) == i \in accepted /\ Authorized(records[i].request) # {}

EvidenceFound(i) == i \in accepted

\* ReconcileDispatch holds the relay's lock over the lookup; a lookup that
\* fails or finds nothing changes nothing.
Reconcile(p, i) ==
    /\ At(p, "IDLE") /\ EnterStore(p)
    /\ Recorded(i) /\ Status(i) = "DISPATCHING"
    /\ EvidenceFound(i) /\ NotBefore(UpdatedAt(i))
    /\ AppendEvent(p, i, "PROVIDER_ACKNOWLEDGED", "IDLE")
    /\ UNCHANGED <<reachVars, guard, provider, receipts, failures>>

\* A call the worker gave up on may still arrive.
ProviderAcceptsLate(i) ==
    /\ attempts[i] > 0 /\ i \notin accepted
    /\ accepted' = accepted \cup {i}
    /\ UNCHANGED <<reachVars, store, blocked, locks, op, attempts, receipts, failures>>

\* The operation fails where it stands: a deadline, an error before the rename,
\* or a failing sync, after which the handle stays fenced.
Fail(p) ==
    /\ op[p].at # "IDLE" /\ failures < MaxFailures /\ failures' = failures + 1
    /\ Return(p)
    /\ UNCHANGED <<reachVars, store, blocked, provider, receipts>>

\* The process dies; the kernel drops its locks and the next handle is fresh.
Crash(p) ==
    /\ FileBacked /\ failures < MaxFailures /\ failures' = failures + 1
    /\ op[p].at # "IDLE"
    /\ Return(p)
    /\ blocked' = blocked \ {p}
    /\ UNCHANGED <<reachVars, store, provider, receipts>>

\* OpenFileStore: a fenced handle is replaced by a new one.
Reopen(p) ==
    /\ p \in blocked /\ At(p, "IDLE")
    /\ blocked' = blocked \ {p}
    /\ UNCHANGED <<reachVars, store, locks, op, provider, receipts, failures>>

\* Every process dies and the file is one of those that may have survived.
\* A receipt read from an unsynced file may be gone with it ("unknown durability
\* result", docs/agent-to-human-relay-v1.md:242); no other one is given up.
PowerLoss ==
    /\ FileBacked /\ failures < MaxFailures /\ failures' = failures + 1
    /\ \E left \in survivors : records' = left /\ survivors' = {left}
    /\ blocked' = {} /\ guard' = Nobody /\ lock' = Nobody
    /\ op' = [p \in Process |-> Idle]
    /\ receipts' = {r \in receipts : r.file = "SYNCED" \/ records'[r.request.intent] # NoRecord}
    /\ UNCHANGED <<reachVars, provider>>
-----------------------------------------------------------------------------
RelayInit ==
    /\ records = [i \in Intent |-> NoRecord]
    /\ survivors = {records}
    /\ blocked = {} /\ guard = Nobody /\ lock = Nobody
    /\ op = [p \in Process |-> Idle]
    /\ attempts = [i \in Intent |-> 0] /\ accepted = {}
    /\ receipts = {} /\ failures = 0

Init == DirectoryInit /\ RelayInit

\* Directory writes wait for the guard; the clock waits for nobody.
Environment ==
    \/ DirectoryWrite /\ guard = Nobody /\ UNCHANGED <<clock, reading, relayVars>>
    \/ Tick /\ UNCHANGED relayVars

Continue(p) ==
    \/ QueueLook(p) \/ QueueCommit(p)
    \/ DispatchReserve(p) \/ CallProvider(p) \/ DispatchAck(p) \/ DispatchCancel(p)
    \/ PersistDone(p)

Next ==
    \/ Environment
    \/ PowerLoss
    \/ \E i \in Intent : ProviderAcceptsLate(i)
    \/ \E p \in Process :
        \/ Continue(p) \/ Fail(p) \/ Crash(p) \/ Reopen(p)
        \/ \E q \in RelayRequest : QueueBegin(p, q)
        \/ \E i \in Intent : DispatchBegin(p, i) \/ Reconcile(p, i)

Spec == Init /\ [][Next]_vars

\* A started operation goes on.  Of the deployment's worker, which is not in the
\* repository, it is assumed that it reopens a fenced handle and that it comes back to
\* every intent Pending lists as long as it can do something for it.
Fairness ==
    /\ \A p \in Process : WF_vars(Continue(p)) /\ WF_vars(Reopen(p))
    /\ \A i \in Intent :
        /\ SF_vars(\E p \in Process : DispatchBegin(p, i))
        /\ SF_vars(\E p \in Process : Reconcile(p, i))

FairSpec == Spec /\ Fairness
-----------------------------------------------------------------------------
(* Properties. *)

Events == [status : {"QUEUED", "DISPATCHING", "PROVIDER_ACKNOWLEDGED", "CANCELED"}, at : 1..MaxClock]

RelayRecord ==
    [request : RelayRequest, session : {g.session : g \in GrantRequest}, events : Seq(Events)]

Contents ==
    {s \in [Intent -> RelayRecord \cup {NoRecord}] :
        \A i \in Intent : s[i] # NoRecord => s[i].request.intent = i /\ Len(s[i].events) \in 1..3}

\* A look at one intent has its name only, an operation without one not even that.
Operation ==
    [at : {"IDLE", "QUEUE", "QUEUE_COMMIT", "DISPATCH", "CALL", "ACK", "CANCEL", "SYNC", "SYNC_CALL"},
     request : RelayRequest \cup [intent : Intent \cup {Nobody}],
     time : 0..MaxClock]

\* Records, locks and operations have the shape of memoryRecord, of the two locks
\* and of the operations' locals, and a lock is only held by an operation in progress.
TypeOK ==
    /\ DirectoryTypeOK
    /\ records \in Contents /\ survivors \subseteq Contents
    /\ blocked \subseteq Process
    /\ {guard, lock} \subseteq Process \cup {Nobody}
    /\ \A holder \in {guard, lock} \ {Nobody} : op[holder].at # "IDLE"
    /\ op \in [Process -> Operation]
    /\ attempts \in [Intent -> Nat] /\ accepted \subseteq Intent
    /\ receipts \subseteq [request : RelayRequest, file : {"SYNCED", "UNSYNCED"}] /\ failures \in 0..MaxFailures

\* What a reader of the store can find now or after a power loss.
Found == IF FileBacked THEN survivors ELSE {records}

StatusIn(s, i) == IF s[i] = NoRecord THEN "NONE" ELSE Last(s[i].events).status

\* However many workers race for an intent, and wherever they crash, fail or lose
\* power, CommitAuthorizedDispatch calls the provider at most once for an intent
\* and for at most one intent of a grant.
OneAttempt ==
    \A i, j \in Intent :
        /\ attempts[i] <= 1
        /\ attempts[i] + attempts[j] = 2 /\ i # j
            => records[i].request.grant # records[j].request.grant

\* Once the provider was called, every content the store may come back with says
\* so: DISPATCHING or PROVIDER_ACKNOWLEDGED.  In particular CANCELED asserts that
\* no call was made, and acknowledgement that the provider accepted the intent.
AttemptIsRecorded ==
    \A s \in Found, i \in Intent :
        /\ attempts[i] > 0 => StatusIn(s, i) \in {"DISPATCHING", "PROVIDER_ACKNOWLEDGED"}
        /\ StatusIn(s, i) = "PROVIDER_ACKNOWLEDGED" => attempts[i] > 0 /\ i \in accepted

\* The events of a record, in the order validateRelayState asks for.
ValidEvents(e) ==
    /\ e[1].status = "QUEUED"
    /\ \A n \in 2..Len(e) :
        /\ e[n - 1].at <= e[n].at
        /\ \/ e[n - 1].status = "QUEUED" /\ e[n].status \in {"DISPATCHING", "CANCELED"}
           \/ e[n - 1].status = "DISPATCHING" /\ e[n].status = "PROVIDER_ACKNOWLEDGED"

\* validateRelayState, which load and persist apply to the whole file.
ValidateRelayState(s) ==
    \A i \in Intent : s[i] # NoRecord =>
        /\ \A j \in Intent : j # i /\ s[j] # NoRecord => s[j].request.grant # s[i].request.grant
        /\ ValidEvents(s[i].events)

\* The store never brings itself into a state it would refuse to load, even
\* when the clock is set back between two steps of a dispatch: an invalid file
\* would make every later operation on every intent unavailable.
StoreIsLoadable == \A s \in Found : ValidateRelayState(s)

\* A receipt stands for its request: the same intent is never answered with the
\* record of a different request, and a receipt is not forgotten, at a power loss
\* either when it was read from a synced file.
ReceiptIsKept == \A r \in receipts : AnswersRetry(r.request)

CallIsAuthorized ==
    \A i \in Intent : attempts'[i] # attempts[i] =>
        \E g \in grants :
            /\ g.id = records[i].request.grant /\ g.session = records[i].session
            /\ GrantActive(g)
            /\ \E c \in consents : c.id = g.consent /\ Within(clock, c)

\* A revocation or withdrawal that was committed first, or an expiry that came
\* while the reservation was being written, prevents the provider call.
AttemptIsAuthorized == [][CallIsAuthorized]_vars

Settled(i) ==
    \/ Status(i) \in {"PROVIDER_ACKNOWLEDGED", "CANCELED"}
    \/ Status(i) = "DISPATCHING" /\ i \notin accepted

\* Every queued intent is eventually sent or canceled, and every acceptance of the
\* provider eventually recorded: no crash, fenced handle or lost acknowledgement
\* leaves an intent behind that Pending lists and nobody can move.
EventuallySettled ==
    \A i \in Intent : records[i] # NoRecord ~> (records[i] = NoRecord \/ Settled(i))
-----------------------------------------------------------------------------
(***************************************************************************)
(* The inductive invariant.  An operation between its reservation and the  *)
(* end of its provider call holds both locks, and nobody else changes the  *)
(* records or the directory; what it reserved is durable before it calls.  *)
(***************************************************************************)
ConstantsOK ==
    /\ MaxClock \in Nat \ {0} /\ MaxFailures \in Nat /\ FileBacked \in BOOLEAN
    /\ Nobody \notin Process \cup Intent
    /\ \A window \in ConsentRequest \cup GrantRequest : window.from \in Nat /\ window.until \in Nat
    /\ \A i \in Intent \cup {Nobody} : [intent |-> i] \notin RelayRequest

\* Grants have one name each and lie within their consent.
GrantsAreSound ==
    /\ \A g, h \in grants : g.id = h.id => g = h
    /\ \A g \in grants : \E c \in consents : c.id = g.consent /\ WithinConsent(g, c)

\* The grant of the intent i is the one it was queued under, and stands.
Cleared(i) ==
    \E g \in grants :
        /\ g.id = records[i].request.grant /\ g.session = records[i].session
        /\ g.requester \in Agent \cap Active /\ g.human \in Human \cap Active /\ GrantStands(g)

\* An operation that has entered FileStore holds its flock; MemoryStore's mutex is
\* held, as the guard is, over the provider call.
HoldsLocks(p) ==
    /\ op[p].at \in {"SYNC_CALL", "CALL", "ACK"} => guard = p /\ lock = p
    /\ op[p].at \in {"SYNC", "SYNC_CALL"} => FileBacked
    /\ FileBacked /\ op[p].at \notin {"IDLE", "QUEUE"} => lock = p
    /\ p \in {guard, lock} =>
           /\ op[p].at \notin {"IDLE", "QUEUE"}
           /\ ~FileBacked => op[p].at \in {"CALL", "ACK"}

\* What is true of the intent that the operation of p is about.
OnCourse(p) ==
    LET i == op[p].request.intent IN
    /\ op[p].at = "IDLE" => op[p] = Idle
    /\ op[p].at \in {"QUEUE", "QUEUE_COMMIT"} => op[p].request \in RelayRequest /\ op[p].time # 0
    /\ op[p].at \in {"DISPATCH", "CANCEL", "SYNC_CALL", "CALL", "ACK"} =>
           op[p].request = [intent |-> i] /\ i \in Intent /\ Recorded(i)
    /\ op[p].at \in {"SYNC_CALL", "CALL"} => Status(i) = "DISPATCHING" /\ attempts[i] = 0 /\ Cleared(i)
    /\ op[p].at = "CALL" => \A s \in Found : StatusIn(s, i) = "DISPATCHING"
    /\ op[p].at = "ACK" => Status(i) = "DISPATCHING" /\ attempts[i] = 1 /\ i \in accepted
    /\ op[p].at = "SYNC" /\ op[p].request \in RelayRequest => AnswersRetry(op[p].request)

\* A content that may be left agrees with the newest one on what it knows.
SurvivorsAreOlder ==
    FileBacked =>
        /\ records \in survivors
        /\ \A s \in survivors, i \in Intent :
               s[i] # NoRecord => Recorded(i) /\ s[i].request = records[i].request

\* Every content that may be left has the record of a receipt from a synced file.
ReceiptIsDurable ==
    \A r \in receipts, s \in Found : r.file = "SYNCED" => s[r.request.intent] # NoRecord

IndInv ==
    /\ TypeOK /\ GrantsAreSound /\ SurvivorsAreOlder
    /\ \A p \in Process : HoldsLocks(p) /\ OnCourse(p)
    /\ \A i \in Intent : attempts[i] <= 1 /\ (i \in accepted => attempts[i] = 1)
    /\ AttemptIsRecorded /\ StoreIsLoadable /\ ReceiptIsKept /\ ReceiptIsDurable
=============================================================================
