--------------------------- MODULE RedisTaskStore ---------------------------
(***************************************************************************)
(* RedisTaskCoordStore of pkg/production: TaskCoord shared by several      *)
(* service processes.  A mutation first loads what it validates against,   *)
(* then one Lua script re-checks and writes the values, the event's commit *)
(* marker and its outbox row.  A script that wrote is followed by WAIT.    *)
(* An exact retry writes a replication barrier, so that it is waited for   *)
(* as well.                                                                *)
(*                                                                         *)
(* Replication and failover are as in RedisJournal.  TaskStore has the     *)
(* transition rules; here an Assignment is its revision and the event that *)
(* wrote it, and a refused validation is an abandoned call.  A marker is   *)
(* the digest of the mutation's content.                                   *)
(***************************************************************************)
EXTENDS Naturals, FiniteSets, Sequences

CONSTANTS
    Assignment, Event, Interaction, Participant, None,
    ParticipantRequest, \* [participant, status]
    AssignmentRequest,  \* [a, expected, event, content]
    DelegationRequest,  \* [a, expected, event, content, child, childEvent]
    InteractionRequest, \* [a, event, interaction, kind, replyTo, supersedes, participant]
    Client, Replica, RequiredAcks,
    MaxHistory,         \* events of an interaction (MaxInteractionHistoryBytes)
    Consumer, LeaseID, MaxBatch, LeaseDuration,
    MaxTime, MaxFailures

VARIABLES
    primary, held, clock,
    call,      \* Client -> its call: loaded what it validates against, or waiting
    answered,  \* <<event, marker>> of every commit that was answered, retries too
    delivered, \* events whose claim was answered to a consumer
    failures

vars == <<primary, held, clock, call, answered, delivered, failures>>

NoValue == [revision |-> 0, by |-> None]
NoMarker == [kind |-> "NONE"]
NoRow == [status |-> "NONE", score |-> 0, lease |-> None, consumer |-> None]

EmptyStore ==
    [participant |-> [w \in Participant |-> None],
     assignment  |-> [a \in Assignment |-> NoValue],
     event       |-> [e \in Event |-> NoMarker],
     delegation  |-> [e \in Event |-> NoMarker],
     interaction |-> [e \in Event |-> NoMarker],
     order       |-> [i \in Interaction |-> <<>>],
     outbox      |-> [e \in Event |-> NoRow],
     base        |-> [e \in Event |-> None]]  \* what the event was validated against

NoCall == [pc |-> "IDLE"]

\* redisTaskEvent
AssignmentMarker(a, revision, content) ==
    [kind |-> "ASSIGNMENT", a |-> a, revision |-> revision, content |-> content]
DelegationMarker(q) ==
    [kind |-> "DELEGATION", a |-> q.a, revision |-> q.expected + 1, content |-> q.content,
     child |-> q.child, childEvent |-> q.childEvent]
InteractionMarker(q) == [kind |-> "INTERACTION", content |-> q]
-----------------------------------------------------------------------------
(* The scripts.  A reply is the store left and the status. *)

Reply(s, status) == [store |-> s, status |-> status]

RegisterParticipantScript(s, q) ==
    IF s.participant[q.participant] = None
    THEN Reply([s EXCEPT !.participant[q.participant] = q.status], "REGISTERED")
    ELSE Reply(s, IF s.participant[q.participant] = q.status THEN "IDEMPOTENT_BARRIER" ELSE "ALREADY_EXISTS")

\* A commit's event, its marker and its outbox row, ready from now.
Committed(s, e, marker) ==
    [s EXCEPT !.event[e] = marker, !.outbox[e] = [NoRow EXCEPT !.status = "READY", !.score = clock]]

\* Mutation: the revision is compared, the value is not.
UnchangedRevision(s, q, seen) == s.assignment[q.a].revision = q.expected

\* The value is still the one the transition was validated against.
UnchangedSince(s, q, seen) ==
    /\ s.assignment[q.a].revision = q.expected
    /\ q.expected # 0 => s.assignment[q.a] = seen

CommitAssignmentScript(s, q, seen) ==
    LET marker == AssignmentMarker(q.a, q.expected + 1, q.content)
    IN  IF s.event[q.event] # NoMarker
        THEN Reply(s, IF s.event[q.event] = marker THEN "IDEMPOTENT_BARRIER" ELSE "EVENT_CONFLICT")
        ELSE IF s.outbox[q.event] # NoRow THEN Reply(s, "CORRUPT")
        ELSE IF ~UnchangedSince(s, q, seen)
        THEN Reply(s, IF q.expected = 0 THEN "ALREADY_EXISTS" ELSE "REVISION_CONFLICT")
        ELSE Reply([Committed(s, q.event, marker) EXCEPT
                        !.assignment[q.a] = [revision |-> q.expected + 1, by |-> q.event],
                        !.base[q.event] = seen.by],
                   "CREATED")

CommittedDelegation(s, e, marker) == Committed(s, e, marker)

CommitDelegationScript(s, q, seen) ==
    LET parent == DelegationMarker(q)
        child  == AssignmentMarker(q.child, 1, q.content)
        isSeen == s.event[q.event] # NoMarker \/ s.event[q.childEvent] # NoMarker
        exact  == s.event[q.event] = parent /\ s.event[q.childEvent] = child /\ s.delegation[q.event] = parent
    IN  IF isSeen THEN Reply(s, IF exact THEN "IDEMPOTENT_BARRIER" ELSE "EVENT_CONFLICT")
        ELSE IF s.outbox[q.event] # NoRow THEN Reply(s, "CORRUPT")
        ELSE IF ~UnchangedSince(s, q, seen) THEN Reply(s, "REVISION_CONFLICT")
        ELSE IF s.assignment[q.child] # NoValue \/ s.delegation[q.event] # NoMarker
        THEN Reply(s, "ALREADY_EXISTS")
        ELSE Reply([CommittedDelegation(s, q.event, parent) EXCEPT
                        !.assignment[q.a] = [revision |-> q.expected + 1, by |-> q.event],
                        !.assignment[q.child] = [revision |-> 1, by |-> q.childEvent],
                        !.event[q.childEvent] = child, !.delegation[q.event] = parent,
                        !.base[q.event] = seen.by],
                   "CREATED")

\* The interaction event x belongs to the same thread as q.
SameThread(s, x, q) ==
    /\ x # None /\ s.interaction[x] # NoMarker
    /\ s.interaction[x].content.interaction = q.interaction /\ s.interaction[x].content.a = q.a

FirstOfThread(s, q) == s.order[q.interaction] = <<>>

ValidLineage(s, q) ==
    LET to == s.interaction[q.replyTo].content
        old == s.interaction[q.supersedes].content
    IN  IF q.kind = "QUESTION" /\ q.replyTo = None THEN FirstOfThread(s, q)
        ELSE /\ SameThread(s, q.replyTo, q)
             /\ IF q.kind = "QUESTION" THEN to.kind \in {"RESPONSE", "CORRECTION"} ELSE to.kind = "QUESTION"
             /\ q.kind \notin {"QUESTION", "RESPONSE"} =>
                    /\ SameThread(s, q.supersedes, q)
                    /\ old.replyTo = q.replyTo /\ old.kind \in {"RESPONSE", "CORRECTION"}
                    /\ old.participant = q.participant

AppendInteractionScript(s, q) ==
    LET marker == InteractionMarker(q)
    IN  IF s.event[q.event] # NoMarker
        THEN Reply(s, IF s.event[q.event] = marker THEN "IDEMPOTENT_BARRIER" ELSE "EVENT_CONFLICT")
        ELSE IF s.interaction[q.event] # NoMarker THEN Reply(s, "EVENT_CONFLICT")
        ELSE IF s.outbox[q.event] # NoRow THEN Reply(s, "CORRUPT")
        ELSE IF s.assignment[q.a] = NoValue \/ s.participant[q.participant] = None THEN Reply(s, "NOT_FOUND")
        ELSE IF s.participant[q.participant] # "ACTIVE" THEN Reply(s, "PARTICIPANT_UNAVAILABLE")
        ELSE IF ~ValidLineage(s, q) THEN Reply(s, "INVALID_INTERACTION")
        ELSE IF Len(s.order[q.interaction]) + 1 > MaxHistory THEN Reply(s, "LIMIT_REACHED")
        ELSE Reply([Committed(s, q.event, marker) EXCEPT
                        !.interaction[q.event] = marker,
                        !.order[q.interaction] = Append(@, q.event)],
                   "APPENDED")

Expired(s, e) == s.outbox[e].status = "LEASED" /\ s.outbox[e].score <= clock
Claimable(s) == {e \in Event : Expired(s, e) \/ s.outbox[e].status = "READY"}

\* Expired leases before ready rows, each in the order of their scores.
Before(s, x, y) ==
    IF Expired(s, x) = Expired(s, y) THEN s.outbox[x].score < s.outbox[y].score ELSE Expired(s, x)

\* Rows of one score come in the order of their digests, any order here.
Batches(s, limit) ==
    {b \in SUBSET Claimable(s) :
        /\ Cardinality(b) = limit \/ (b = Claimable(s) /\ Cardinality(b) < limit)
        /\ \A x \in b, y \in Claimable(s) \ b : ~Before(s, y, x)}

PollOutboxScript(s, batch, lease, consumer) ==
    IF batch = {} THEN Reply(s, "EMPTY")
    ELSE Reply([s EXCEPT !.outbox = [e \in Event |->
                    IF e \in batch
                    THEN [status |-> "LEASED", score |-> clock + LeaseDuration,
                          lease |-> lease, consumer |-> consumer]
                    ELSE @[e]]],
               "CLAIMED")

AcknowledgeOutboxScript(s, e, lease, consumer) ==
    IF s.outbox[e].status # "LEASED" \/ s.outbox[e].lease # lease \/ s.outbox[e].consumer # consumer
    THEN Reply(s, "OUTBOX_CONFLICT")
    ELSE IF s.outbox[e].score <= clock THEN Reply(s, "LEASE_EXPIRED")
    ELSE Reply([s EXCEPT !.outbox[e] = NoRow], "ACKED")
-----------------------------------------------------------------------------
(* Calls. *)

\* Mutation: an exact retry is answered without waiting for the replicas.
redisTaskCoordWriteStatusFirst(status) == status \in {"REGISTERED", "CREATED", "APPENDED", "CLAIMED", "ACKED"}

redisTaskCoordWriteStatus(status) ==
    status \in {"REGISTERED", "CREATED", "APPENDED", "CLAIMED", "ACKED", "IDEMPOTENT_BARRIER"}

\* What the caller learns: commits is what its mutation committed, claims the
\* events it was given.
Answer(status, commits, claims) ==
    /\ answered' = IF status \in {"CREATED", "APPENDED", "IDEMPOTENT_BARRIER"}
                   THEN answered \cup commits ELSE answered
    /\ delivered' = IF status = "CLAIMED" THEN delivered \cup claims ELSE delivered

\* runTaskCoordScript
Eval(p, reply, commits, claims) ==
    /\ primary' = reply.store
    /\ IF redisTaskCoordWriteStatus(reply.status)
       THEN /\ call' = [call EXCEPT ![p] = [pc |-> "WAIT", status |-> reply.status, commits |-> commits,
                                            claims |-> claims, acked |-> {}]]
            /\ UNCHANGED <<answered, delivered>>
       ELSE call' = [call EXCEPT ![p] = NoCall] /\ Answer(reply.status, commits, claims)
    /\ UNCHANGED <<held, clock, failures>>

\* The value the caller validated against, or none when it was at another revision.
Seen(q) == IF primary.assignment[q.a].revision = q.expected THEN primary.assignment[q.a] ELSE NoValue

\* CommitAssignment and CommitDelegation up to the script.
LoadCurrent(p, kind, q) ==
    /\ call[p] = NoCall
    /\ call' = [call EXCEPT ![p] = [pc |-> kind, q |-> q, seen |-> Seen(q)]]
    /\ UNCHANGED <<primary, held, clock, answered, delivered, failures>>

\* AppendInteractionEvent validates against the loaded events and loads again
\* in the script, which decides.
LoadThread(p, q) ==
    /\ call[p] = NoCall
    /\ primary.assignment[q.a] # NoValue /\ primary.participant[q.participant] = "ACTIVE"
    /\ \A x \in {q.replyTo, q.supersedes} \ {None} : primary.interaction[x] # NoMarker
    /\ q.replyTo # None => ValidLineage(primary, q)
    /\ call' = [call EXCEPT ![p] = [pc |-> "INTERACT", q |-> q]]
    /\ UNCHANGED <<primary, held, clock, answered, delivered, failures>>

RegisterParticipant(p, q) ==
    /\ call[p] = NoCall
    /\ Eval(p, RegisterParticipantScript(primary, q), {}, {})

CommitAssignment(p) ==
    LET q == call[p].q
    IN  /\ call[p].pc = "ASSIGN"
        /\ Eval(p, CommitAssignmentScript(primary, q, call[p].seen),
                {<<q.event, AssignmentMarker(q.a, q.expected + 1, q.content)>>}, {})

CommitDelegation(p) ==
    LET q == call[p].q
    IN  /\ call[p].pc = "DELEGATE"
        /\ Eval(p, CommitDelegationScript(primary, q, call[p].seen),
                {<<q.event, DelegationMarker(q)>>, <<q.childEvent, AssignmentMarker(q.child, 1, q.content)>>}, {})

AppendInteractionEvent(p) ==
    LET q == call[p].q
    IN  /\ call[p].pc = "INTERACT"
        /\ Eval(p, AppendInteractionScript(primary, q), {<<q.event, InteractionMarker(q)>>}, {})

PollOutbox(p, lease, consumer) ==
    /\ call[p] = NoCall
    /\ \E limit \in 1..MaxBatch : \E batch \in Batches(primary, limit) :
           Eval(p, PollOutboxScript(primary, batch, lease, consumer), {}, batch)

AcknowledgeOutbox(p, e, lease, consumer) ==
    /\ call[p] = NoCall /\ e \in delivered
    /\ Eval(p, AcknowledgeOutboxScript(primary, e, lease, consumer), {}, {})

WaitAnswered(p) ==
    /\ call[p].pc = "WAIT" /\ Cardinality(call[p].acked) >= RequiredAcks
    /\ call' = [call EXCEPT ![p] = NoCall]
    /\ Answer(call[p].status, call[p].commits, call[p].claims)
    /\ UNCHANGED <<primary, held, clock, failures>>

\* A refused validation, a failed WAIT, a lost connection, a canceled context.
Abandon(p) ==
    /\ call[p] # NoCall
    /\ call' = [call EXCEPT ![p] = NoCall]
    /\ UNCHANGED <<primary, held, clock, answered, delivered, failures>>

Replicate(r) ==
    /\ held' = [held EXCEPT ![r] = primary]
    /\ call' = [p \in Client |->
                   IF call[p].pc = "WAIT" THEN [call[p] EXCEPT !.acked = @ \cup {r}] ELSE call[p]]
    /\ UNCHANGED <<primary, clock, answered, delivered, failures>>

\* A call that has loaded opens its next connection to the new primary.
Failover(r) ==
    /\ failures < MaxFailures /\ failures' = failures + 1
    /\ primary' = held[r]
    /\ call' = [p \in Client |-> IF call[p].pc = "WAIT" THEN NoCall ELSE call[p]]
    /\ UNCHANGED <<held, clock, answered, delivered>>

Tick ==
    /\ clock < MaxTime /\ clock' = clock + 1
    /\ UNCHANGED <<primary, held, call, answered, delivered, failures>>

Init ==
    /\ primary = EmptyStore /\ held = [r \in Replica |-> EmptyStore] /\ clock = 1
    /\ call = [p \in Client |-> NoCall] /\ answered = {} /\ delivered = {} /\ failures = 0

Next ==
    \/ \E p \in Client :
           \/ \E q \in ParticipantRequest : RegisterParticipant(p, q)
           \/ \E q \in AssignmentRequest : LoadCurrent(p, "ASSIGN", q)
           \/ \E q \in DelegationRequest : LoadCurrent(p, "DELEGATE", q)
           \/ \E q \in InteractionRequest : LoadThread(p, q)
           \/ CommitAssignment(p) \/ CommitDelegation(p) \/ AppendInteractionEvent(p)
           \/ \E lease \in LeaseID, consumer \in Consumer :
                  \/ PollOutbox(p, lease, consumer)
                  \/ \E e \in Event : AcknowledgeOutbox(p, e, lease, consumer)
           \/ WaitAnswered(p) \/ Abandon(p)
    \/ \E r \in Replica : Replicate(r) \/ Failover(r)
    \/ Tick

Spec == Init /\ [][Next]_vars
-----------------------------------------------------------------------------
Stores == {primary} \cup {held[r] : r \in Replica}

(* Revisions and markers agree on every node: an Assignment's last event is  *)
(* marked with its revision.                                                 *)
TypeOK ==
    \A s \in Stores, a \in Assignment :
        s.assignment[a] # NoValue =>
            /\ s.event[s.assignment[a].by].a = a
            /\ s.event[s.assignment[a].by].revision = s.assignment[a].revision

(***************************************************************************)
(* When every replica has to acknowledge, a mutation that was answered, as *)
(* new or as an exact retry of one whose answer was lost, is on every node *)
(* for good.                                                               *)
(***************************************************************************)
AnsweredIsReplicated == \A s \in Stores, c \in answered : s.event[c[1]] = c[2]

(***************************************************************************)
(* A transition is stored only on top of the transition it was validated   *)
(* against, although the load and the script are two connections and a     *)
(* failover between them can replace the value at the same revision.       *)
(***************************************************************************)
ChainIsUnbroken ==
    \A s \in Stores, e \in Event :
        s.event[e].kind \in {"ASSIGNMENT", "DELEGATION"} /\ s.event[e].revision > 1 =>
            /\ s.base[e] # None
            /\ s.event[s.base[e]].a = s.event[e].a
            /\ s.event[s.base[e]].revision + 1 = s.event[e].revision

(***************************************************************************)
(* A committed event stays in the outbox of every node that has it until a *)
(* consumer was given it, whatever polls, acknowledgements and failovers   *)
(* happen.  A delegated child's OFFER travels in its parent's event.       *)
(***************************************************************************)
ChildOffers(s) == {s.event[e].childEvent : e \in {e \in Event : s.event[e].kind = "DELEGATION"}}

EveryEventIsDelivered ==
    \A s \in Stores : \A e \in Event \ ChildOffers(s) :
        s.event[e] # NoMarker => s.outbox[e] # NoRow \/ e \in delivered

(***************************************************************************)
(* A thread has one root, its first event, and each other event answers    *)
(* an event before it, although the appends of several processes validate  *)
(* against threads they loaded earlier.                                    *)
(***************************************************************************)
OneRootPerThread ==
    \A s \in Stores, i \in Interaction : \A n \in DOMAIN s.order[i] :
        LET q == s.interaction[s.order[i][n]].content
        IN  IF n = 1 THEN q.kind = "QUESTION" /\ q.replyTo = None
            ELSE \E m \in 1..(n - 1) : s.order[i][m] = q.replyTo
=============================================================================
