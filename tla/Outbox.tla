------------------------------- MODULE Outbox -------------------------------
(***************************************************************************)
(* The transactional outbox of pkg/taskcoord/sqlitestore.                  *)
(*                                                                         *)
(* A SQLite write transaction is one step: run and runOutboxWrite take the *)
(* write reservation before they read anything, so transactions are serial *)
(* across processes, and a rolled back one changes nothing.  What is not   *)
(* atomic is everything around them: a consumer polls, publishes and       *)
(* acknowledges in separate transactions, may be slow, may crash, may not  *)
(* learn that its commit succeeded; a stored row may rot.                  *)
(*                                                                         *)
(* TaskStore has the mutations in full.  Here a mutation is its event, the *)
(* Assignment revision it makes and how it was committed; the payload of a *)
(* row is the kind of mutation it projects, or Corrupt.                    *)
(*                                                                         *)
(* A lease's expiry is the time it still has.                              *)
(***************************************************************************)
EXTENDS Naturals, FiniteSets, Sequences

CONSTANTS
    Assignment, Event,
    Consumer, LeaseID, QuarantineID,
    Limits,             \* batch sizes of a poll
    LeaseDuration,
    MaxJournalRecords,  \* rows, lease IDs and quarantine records the store keeps
    MaxRevision,        \* bound of the instance
    MaxFaults           \* rows that rot, a bound of the instance

VARIABLES
    revision,    \* Assignment -> the revision stored, 0 for none
    history,     \* Event -> the mutation it committed
    outbox,      \* the rows, in rowid order
    leases,      \* outbox_leases
    quarantine,  \* QuarantineID -> its record
    held,        \* Consumer -> the deliveries it was given and has not settled
    faults

vars == <<revision, history, outbox, leases, quarantine, held, faults>>

Nobody == "nobody"

Corrupt == "CORRUPT"

Uncommitted == [via |-> "NONE", assignment |-> Nobody, revision |-> 0, child |-> Nobody]

NoQuarantine == [delivery |-> Nobody, document |-> "NONE", restored |-> FALSE]

Mutation(via, a, r, child) == [via |-> via, assignment |-> a, revision |-> r, child |-> child]

Unleased(row) == [row EXCEPT !.consumer = Nobody, !.lease = Nobody, !.remaining = 0]

-----------------------------------------------------------------------------
(***************************************************************************)
(* The mutating half: transaction.CommitAssignment, CommitDelegation and   *)
(* AppendInteractionEvent.                                                 *)
(***************************************************************************)

RowOf(id) == {i \in DOMAIN outbox : outbox[i].id = id}

\* enqueue: an identical row is kept, another one under the ID is a conflict.
Enqueue(id, kind) ==
    IF RowOf(id) # {}
    THEN /\ \A i \in RowOf(id) : outbox[i].document = kind
         /\ UNCHANGED outbox
    ELSE /\ Len(outbox) < MaxJournalRecords
         /\ outbox' = Append(outbox, [id |-> id, document |-> kind, consumer |-> Nobody,
                                      lease |-> Nobody, remaining |-> 0, acknowledged |-> FALSE])

\* MemoryStore.CommitAssignment finds its event committed: a delegated child's
\* OFFER counts, a parent's DELEGATE does not (it needs CommitDelegation).
AssignmentReplays(id, a, expected) ==
    history[id] \in {Mutation(via, a, expected + 1, Nobody) : via \in {"ASSIGNMENT", "CHILD_OFFER"}}

\* newMutation, computed before the commit.
NewMutation(a, expected) == revision[a] = expected

CommitAssignment(a, expected, id) ==
    /\ expected < MaxRevision
    /\ \/ AssignmentReplays(id, a, expected) /\ UNCHANGED <<revision, history>>
       \/ /\ history[id] = Uncommitted /\ revision[a] = expected
          /\ revision' = [revision EXCEPT ![a] = expected + 1]
          /\ history' = [history EXCEPT ![id] = Mutation("ASSIGNMENT", a, expected + 1, Nobody)]
    /\ IF NewMutation(a, expected) THEN Enqueue(id, "ASSIGNMENT") ELSE UNCHANGED outbox
    /\ UNCHANGED <<leases, quarantine, held, faults>>

DelegationReplays(id, a, expected, child, childID) ==
    /\ history[id] = Mutation("DELEGATION", a, expected + 1, child)
    /\ history[childID] = Mutation("CHILD_OFFER", child, 1, Nobody)

CommitDelegation(a, expected, id, child, childID) ==
    /\ expected \in 1 .. MaxRevision - 1 /\ a # child /\ id # childID
    /\ \/ DelegationReplays(id, a, expected, child, childID) /\ UNCHANGED <<revision, history>>
       \/ /\ history[id] = Uncommitted /\ history[childID] = Uncommitted
          /\ revision[a] = expected /\ revision[child] = 0
          /\ revision' = [revision EXCEPT ![a] = expected + 1, ![child] = 1]
          /\ history' = [history EXCEPT ![id] = Mutation("DELEGATION", a, expected + 1, child),
                                        ![childID] = Mutation("CHILD_OFFER", child, 1, Nobody)]
    /\ IF NewMutation(a, expected) THEN Enqueue(id, "DELEGATION") ELSE UNCHANGED outbox
    /\ UNCHANGED <<leases, quarantine, held, faults>>

AppendInteractionEvent(a, id) ==
    /\ revision[a] > 0
    /\ \/ history[id] = Mutation("INTERACTION", a, 0, Nobody) /\ UNCHANGED <<history, outbox>>
       \/ /\ history[id] = Uncommitted
          /\ history' = [history EXCEPT ![id] = Mutation("INTERACTION", a, 0, Nobody)]
          /\ Enqueue(id, "INTERACTION")
    /\ UNCHANGED <<revision, leases, quarantine, held, faults>>

-----------------------------------------------------------------------------
(***************************************************************************)
(* The delivery half.                                                      *)
(***************************************************************************)

\* NOT EXISTS(... q.restored_at = 0)
Quarantined(id) ==
    \E q \in QuarantineID : quarantine[q].delivery = id /\ ~quarantine[q].restored

\* Mutation: quarantined rows are polled like others.
DeliverableQuarantined(i) == ~outbox[i].acknowledged /\ outbox[i].remaining = 0

Deliverable(i) ==
    ~outbox[i].acknowledged /\ outbox[i].remaining = 0 /\ ~Quarantined(outbox[i].id)

\* ORDER BY rowid LIMIT limit
Batch(limit) ==
    {i \in DOMAIN outbox : Deliverable(i) /\ Cardinality({j \in 1 .. i : Deliverable(j)}) <= limit}

\* Mutation: the lease ID is not reserved for good.
FreshLeaseUnlessCurrent(lease) ==
    \A i \in DOMAIN outbox : outbox[i].lease # lease \/ outbox[i].remaining = 0

\* INSERT INTO outbox_leases ... ON CONFLICT DO NOTHING
FreshLease(lease) == lease \notin leases

\* One undecodable row fails the whole batch.  `lost`: the transaction commits
\* and the consumer is told that it may not have.
PollOutbox(c, lease, limit, lost) ==
    LET batch == Batch(limit) IN
    /\ batch # {}
    /\ \A i \in batch : outbox[i].document # Corrupt
    /\ Cardinality(leases) < MaxJournalRecords
    /\ FreshLease(lease)
    /\ leases' = leases \cup {lease}
    /\ outbox' = [i \in DOMAIN outbox |->
                    IF i \in batch
                    THEN [outbox[i] EXCEPT !.consumer = c, !.lease = lease,
                                           !.remaining = LeaseDuration]
                    ELSE outbox[i]]
    /\ held' = IF lost THEN held
               ELSE [held EXCEPT ![c] = @ \cup {[id |-> outbox[i].id, lease |-> lease,
                                                 document |-> outbox[i].document,
                                                 remaining |-> LeaseDuration] : i \in batch}]
    /\ UNCHANGED <<revision, history, quarantine, faults>>

MayAcknowledge(c, d, row) ==
    row.consumer = c /\ row.lease = d.lease /\ ~row.acknowledged /\ row.remaining > 0

\* The consumer has published the delivery.  A refusal tells it to forget it.
AcknowledgeOutbox(c, d) ==
    /\ outbox' = [i \in DOMAIN outbox |->
                    IF outbox[i].id = d.id /\ MayAcknowledge(c, d, outbox[i])
                    THEN [outbox[i] EXCEPT !.acknowledged = TRUE] ELSE outbox[i]]
    /\ held' = [held EXCEPT ![c] = @ \ {d}]
    /\ UNCHANGED <<revision, history, leases, quarantine, faults>>

\* The consumer process dies with what it was given.
ConsumerCrash(c) ==
    /\ held[c] # {} /\ held' = [held EXCEPT ![c] = {}]
    /\ UNCHANGED <<revision, history, outbox, leases, quarantine, faults>>

\* A stored document rots.
Rot(i) ==
    /\ faults < MaxFaults /\ faults' = faults + 1
    /\ ~outbox[i].acknowledged /\ outbox[i].document # Corrupt
    /\ outbox' = [outbox EXCEPT ![i].document = Corrupt]
    /\ UNCHANGED <<revision, history, leases, quarantine, held>>

MayIsolate(i) ==
    ~outbox[i].acknowledged /\ outbox[i].remaining = 0 /\ outbox[i].document = Corrupt

Isolated(q, i) ==
    quarantine' = [quarantine EXCEPT ![q] = [delivery |-> outbox[i].id, restored |-> FALSE,
                                             document |-> outbox[i].document]]

\* An operator isolates a row that cannot be decoded.  The unique index lets a
\* row have one open record.
QuarantineOutbox(q, i) ==
    /\ quarantine[q] = NoQuarantine /\ ~Quarantined(outbox[i].id)
    /\ MayIsolate(i)
    /\ Cardinality({x \in QuarantineID : quarantine[x] # NoQuarantine}) < MaxJournalRecords
    /\ Isolated(q, i)
    /\ outbox' = [outbox EXCEPT ![i] = Unleased(@)]
    /\ UNCHANGED <<revision, history, leases, held, faults>>

\* Mutation: a decodable replacement is good enough.
HistoricalIfDecodable(id, kind) == TRUE

\* validateHistoricalOutbox: the replacement replays without a change.
Historical(id, kind) ==
    CASE kind = "ASSIGNMENT" -> history[id].via \in {"ASSIGNMENT", "CHILD_OFFER"}
      [] kind = "DELEGATION" -> history[id].via = "DELEGATION"
      [] kind = "INTERACTION" -> history[id].via = "INTERACTION"

RestoreQuarantinedOutbox(q, kind) ==
    \E i \in RowOf(quarantine[q].delivery) :
        /\ ~quarantine[q].restored
        /\ ~outbox[i].acknowledged /\ outbox[i].document = quarantine[q].document
        /\ Historical(outbox[i].id, kind)
        /\ outbox' = [outbox EXCEPT ![i] = [Unleased(@) EXCEPT !.document = kind]]
        /\ quarantine' = [quarantine EXCEPT ![q].restored = TRUE]
        /\ UNCHANGED <<revision, history, leases, held, faults>>

Aged(x) == [x EXCEPT !.remaining = IF @ > 0 THEN @ - 1 ELSE 0]

Tick ==
    /\ \E i \in DOMAIN outbox : outbox[i].remaining > 0
    /\ outbox' = [i \in DOMAIN outbox |-> Aged(outbox[i])]
    /\ held' = [c \in Consumer |-> {Aged(d) : d \in held[c]}]
    /\ UNCHANGED <<revision, history, leases, quarantine, faults>>

-----------------------------------------------------------------------------

Init ==
    /\ revision = [a \in Assignment |-> 0]
    /\ history = [id \in Event |-> Uncommitted]
    /\ outbox = <<>>
    /\ leases = {}
    /\ quarantine = [q \in QuarantineID |-> NoQuarantine]
    /\ held = [c \in Consumer |-> {}]
    /\ faults = 0

Mutate ==
    \E a \in Assignment, id \in Event :
        \/ AppendInteractionEvent(a, id)
        \/ \E expected \in 0 .. MaxRevision :
              \/ CommitAssignment(a, expected, id)
              \/ \E child \in Assignment, childID \in Event :
                    CommitDelegation(a, expected, id, child, childID)

Poll ==
    \E c \in Consumer, lease \in LeaseID, limit \in Limits, lost \in BOOLEAN :
        PollOutbox(c, lease, limit, lost)

Isolate == \E q \in QuarantineID, i \in DOMAIN outbox : QuarantineOutbox(q, i)

Next ==
    \/ Mutate
    \/ Poll
    \/ \E c \in Consumer : \E d \in held[c] : AcknowledgeOutbox(c, d)
    \/ \E c \in Consumer : ConsumerCrash(c)
    \/ \E i \in DOMAIN outbox : Rot(i)
    \/ Isolate
    \/ \E q \in QuarantineID, kind \in {"ASSIGNMENT", "DELEGATION", "INTERACTION"} :
          RestoreQuarantinedOutbox(q, kind)
    \/ Tick

Spec == Init /\ [][Next]_vars

\* Consumers keep polling, time passes, and an operator isolates rows that
\* cannot be decoded.  Nobody has to have a backup to restore them from.
FairSpec == Spec /\ WF_vars(Poll) /\ WF_vars(Tick) /\ WF_vars(Isolate)
                 /\ \A c \in Consumer : WF_vars(\E d \in held[c] : AcknowledgeOutbox(c, d))

-----------------------------------------------------------------------------
(***************************************************************************)
(* Properties.                                                             *)
(***************************************************************************)

Row == [id : Event, document : {"ASSIGNMENT", "DELEGATION", "INTERACTION", Corrupt},
        consumer : Consumer \cup {Nobody}, lease : LeaseID \cup {Nobody},
        remaining : 0 .. LeaseDuration, acknowledged : BOOLEAN]

\* Every variable holds values of the shape of its table.
TypeOK ==
    /\ revision \in [Assignment -> 0 .. MaxRevision]
    /\ history \in [Event -> [via : {"NONE", "ASSIGNMENT", "DELEGATION", "CHILD_OFFER", "INTERACTION"},
                              assignment : Assignment \cup {Nobody}, revision : 0 .. MaxRevision,
                              child : Assignment \cup {Nobody}]]
    /\ outbox \in Seq(Row)
    /\ leases \subseteq LeaseID
    /\ quarantine \in [QuarantineID -> [delivery : Event \cup {Nobody}, restored : BOOLEAN,
                                        document : {"NONE", Corrupt}]]
    /\ held \in [Consumer -> SUBSET [id : Event, lease : LeaseID, remaining : 0 .. LeaseDuration,
                                     document : {"ASSIGNMENT", "DELEGATION", "INTERACTION"}]]
    /\ faults \in 0 .. MaxFaults

\* The mutations that are announced on their own.
Announced(id) == history[id].via \in {"ASSIGNMENT", "DELEGATION", "INTERACTION"}

\* Each committed mutation has exactly one row and every row projects the
\* mutation its event committed, through retries, replays of a delegated
\* child's OFFER, decay and repair (enqueue, RestoreQuarantinedOutbox).
OutboxMatchesHistory ==
    /\ \A id \in Event : Cardinality(RowOf(id)) = IF Announced(id) THEN 1 ELSE 0
    /\ \A i \in DOMAIN outbox : outbox[i].document \in {Corrupt, history[outbox[i].id].via}

\* No two consumers, and no two polls of one consumer, have a live lease on one
\* delivery (PollOutbox).
OneLiveHolder ==
    \A c1, c2 \in Consumer : \A d1 \in held[c1], d2 \in held[c2] :
        d1.id = d2.id /\ d1.remaining > 0 /\ d2.remaining > 0 => c1 = c2 /\ d1 = d2

\* What a consumer was given is what the mutation was, whatever has become of
\* the stored row since.
DeliveredIsHistory ==
    \A c \in Consumer : \A d \in held[c] : d.document = history[d.id].via

\* No committed mutation is lost or garbled on its way to a consumer, and no two
\* consumers have it at a time.
DeliveriesAreSound == OutboxMatchesHistory /\ DeliveredIsHistory /\ OneLiveHolder

AcknowledgedLive ==
    \A i \in DOMAIN outbox : ~outbox[i].acknowledged /\ outbox'[i].acknowledged =>
        \E c \in Consumer : \E d \in held[c] \ held'[c] : d.id = outbox[i].id /\ d.remaining > 0

KeptWhileQuarantined ==
    \A q \in QuarantineID : quarantine[q] # NoQuarantine =>
        /\ quarantine'[q].delivery = quarantine[q].delivery
        /\ quarantine'[q].document = quarantine[q].document
        /\ quarantine[q].restored => quarantine'[q].restored
        /\ ~quarantine[q].restored /\ ~quarantine'[q].restored =>
             \A i \in RowOf(quarantine[q].delivery) : outbox'[i] = outbox[i]

\* Only a worker whose own lease is still live settles a delivery: one that
\* overslept, whose row was given to another or was repaired meanwhile, cannot
\* (AcknowledgeOutbox; lease IDs stay reserved).  While a row is in quarantine nobody
\* leases, changes or settles it, and the record of what was found is never
\* rewritten (QuarantineOutbox).
StaleWorkerNeverSettles == [][AcknowledgedLive /\ KeptWhileQuarantined]_vars

Settled(i) ==
    \/ i \in DOMAIN outbox /\ (outbox[i].acknowledged \/ Quarantined(outbox[i].id))
    \/ Cardinality(leases) = MaxJournalRecords

\* Every row is eventually acknowledged, even behind rows that rotted and are
\* never repaired, unless it rotted itself or the store's lifetime supply of
\* lease IDs runs out first.
EventuallySettled ==
    \A i \in 1 .. MaxJournalRecords : i \in DOMAIN outbox ~> Settled(i)
-----------------------------------------------------------------------------
(***************************************************************************)
(* The inductive invariant.  A delivery in a consumer's hands and the row  *)
(* under its lease age together, because a lease ID is never used twice    *)
(* and a row in quarantine has no live lease.                              *)
(***************************************************************************)
ConstantsOK ==
    /\ LeaseDuration \in Nat \ {0} /\ MaxRevision \in Nat /\ MaxFaults \in Nat
    /\ Nobody \notin Consumer /\ Nobody \notin LeaseID /\ Nobody \notin Event /\ Nobody \notin Assignment

\* An Assignment is at least at the revisions its events made.
RevisionsAreKept ==
    \A id \in Event : history[id].via \in {"ASSIGNMENT", "DELEGATION", "CHILD_OFFER"} =>
        /\ history[id].assignment \in Assignment
        /\ history[id].revision <= revision[history[id].assignment]

RowsMatch ==
    /\ \A i, j \in DOMAIN outbox : outbox[i].id = outbox[j].id => i = j
    /\ \A id \in Event : Announced(id) => \E i \in DOMAIN outbox : outbox[i].id = id
    /\ \A i \in DOMAIN outbox :
           /\ Announced(outbox[i].id) /\ outbox[i].document \in {Corrupt, history[outbox[i].id].via}
           /\ outbox[i].lease \in leases \cup {Nobody}

\* The delivery d of consumer c and the row it is of.
HoldingMatches(c, d) ==
    /\ d.document = history[d.id].via /\ d.lease \in leases
    /\ \A i \in DOMAIN outbox : outbox[i].id = d.id /\ outbox[i].lease = d.lease =>
           outbox[i].consumer = c /\ outbox[i].remaining = d.remaining
    /\ d.remaining > 0 => \E i \in DOMAIN outbox : outbox[i].id = d.id /\ outbox[i].lease = d.lease

Open(q) == quarantine[q] # NoQuarantine /\ ~quarantine[q].restored

QuarantineMatches ==
    /\ \A q, x \in QuarantineID : Open(q) /\ Open(x) /\ quarantine[q].delivery = quarantine[x].delivery => q = x
    /\ \A q \in QuarantineID : Open(q) =>
           /\ RowOf(quarantine[q].delivery) # {}
           /\ \A i \in RowOf(quarantine[q].delivery) : outbox[i].remaining = 0 /\ outbox[i].document = Corrupt

IndInv ==
    /\ TypeOK /\ RevisionsAreKept /\ RowsMatch /\ QuarantineMatches
    /\ \A c \in Consumer : \A d \in held[c] : HoldingMatches(c, d)
=============================================================================
