---------------------------- MODULE RedisJournal ----------------------------
(***************************************************************************)
(* RedisAcceptanceStore of pkg/production: the operation journal shared by *)
(* the replicas of a service, each state change one Lua script on a Redis  *)
(* primary.  A script that wrote is followed by WAIT on the same           *)
(* connection; the call answers only when enough replicas acknowledged.    *)
(* Replication is asynchronous: held[r] is what replica r has, some older  *)
(* content of the primary, and a failover promotes any replica.  Redis     *)
(* itself is modelled from how the store uses it.                          *)
(***************************************************************************)
EXTENDS Naturals, FiniteSets, Sequences

CONSTANTS
    Operation, Digest, Outcome, Sealed, ReplayKey, OutcomeOf(_), None, MaxTime,
    Client,            \* connections of the service's replicas
    Replica,           \* Redis replicas
    RequiredAcks,      \* RequiredReplicaAcknowledgements
    AcceptanceRequest, \* [key, until, op, digest]
    Decision,          \* [state, outcome, sealed]
    MaxReplayTTL,
    ClockStep,
    MaxFailures        \* failovers, a bound

VARIABLES
    primary, held, clock,
    call,              \* Client -> the call whose WAIT is outstanding, or NoCall
    starts,            \* Operation -> answers with started=true
    acceptances,       \* answered acceptances
    decisions,         \* answered decisions; firm: written and waited for by that call
    failures

vars == <<primary, held, clock, call, starts, acceptances, decisions, failures>>

\* The FileStore of the same contract, on the primary's content.
File == INSTANCE OperationJournal WITH journal <- primary, survivors <- {primary}

\* Redis removes a key at the end of its time to live.
Live(j) == [j EXCEPT !.replay = [k \in ReplayKey |-> IF clock < @[k] THEN @[k] ELSE 0]]
-----------------------------------------------------------------------------
(* The scripts.  A reply is the journal left, the status and the record. *)

Status(j, status) == [journal |-> j, status |-> status, record |-> File!NoRecord]
Found(j, status, record) == [journal |-> j, status |-> status, record |-> record]
Set(j, o, status, record) == Found([j EXCEPT !.records[o] = record], status, record)

\* The checks of decode_record on a record that is there.
decode_record(r) ==
    /\ r.createdAt >= 1 /\ r.updatedAt >= r.createdAt
    /\ r.startedAt <= r.updatedAt /\ (r.startedAt # 0 => r.startedAt >= r.createdAt)
    /\ r.completedAt <= r.updatedAt
    /\ CASE r.state = "ACCEPTED" -> r.startedAt = 0 /\ r.completedAt = 0 /\ r.outcome = None
         [] r.state \in {"RUNNING", "INDETERMINATE"} ->
                r.startedAt >= r.createdAt /\ r.completedAt = 0 /\ r.outcome = None
         [] r.state \in {"SUCCEEDED", "FAILED"} ->
                r.startedAt >= r.createdAt /\ r.completedAt = r.updatedAt
         [] r.state = "CANCELED" -> r.completedAt = r.updatedAt
         [] OTHER -> FALSE

\* The problem exact_record reports, "" when there is none.
exact_record(j, o, d) ==
    IF j.records[o] = File!NoRecord THEN "NOT_FOUND"
    ELSE IF ~decode_record(j.records[o]) THEN "CORRUPT"
    ELSE IF j.records[o].digest # d THEN "CONFLICT"
    ELSE ""

Exact(j, o, d, reply) == IF exact_record(j, o, d) = "" THEN reply ELSE Status(j, exact_record(j, o, d))

\* A later time than the record's latest, also when the primary's clock is behind.
NotBefore(record) == IF clock < record.updatedAt THEN record.updatedAt ELSE clock

NewRecord(d) ==
    [File!NoRecord EXCEPT !.state = "ACCEPTED", !.digest = d, !.createdAt = clock, !.updatedAt = clock]

ReserveScript(j, o, d) ==
    IF exact_record(j, o, d) = "NOT_FOUND" THEN Set(j, o, "CREATED", NewRecord(d))
    ELSE Exact(j, o, d, Found(j, "EXISTING", j.records[o]))

\* SET NX PX on the replay key, in the script that writes the record.
ReserveAcceptanceScript(j, k, until, o, d) ==
    LET kept == [j EXCEPT !.replay[k] = until]
    IN  IF j.replay[k] # 0 THEN Status(j, "REPLAY")
        ELSE IF until <= clock THEN Status(j, "EXPIRED")
        ELSE IF until - clock > MaxReplayTTL THEN Status(j, "TTL_TOO_LONG")
        ELSE IF exact_record(j, o, d) = "NOT_FOUND" THEN Set(kept, o, "CREATED", NewRecord(d))
        ELSE Exact(j, o, d, Found(kept, "REPLAY_RESERVED", j.records[o]))

LookupScript(j, o, d) == Exact(j, o, d, Found(j, "FOUND", j.records[o]))

MarkRunningScript(j, o, d) ==
    LET record == j.records[o]
        now    == NotBefore(record)
    IN  Exact(j, o, d,
              IF record.state = "RUNNING" THEN Found(j, "IDEMPOTENT", record)
              ELSE IF record.state # "ACCEPTED" THEN Status(j, "INVALID_TRANSITION")
              ELSE Set(j, o, "UPDATED", [record EXCEPT !.state = "RUNNING", !.startedAt = now, !.updatedAt = now]))

MarkIndeterminateScript(j, o, d) ==
    LET record == j.records[o]
    IN  Exact(j, o, d,
              IF record.state = "INDETERMINATE" THEN Found(j, "IDEMPOTENT", record)
              ELSE IF record.state # "RUNNING" THEN Status(j, "INVALID_TRANSITION")
              ELSE Set(j, o, "UPDATED",
                       [record EXCEPT !.state = "INDETERMINATE", !.updatedAt = NotBefore(record)]))

Final(record, state, outcome) ==
    [record EXCEPT !.state = state, !.outcome = outcome,
                   !.updatedAt = NotBefore(record), !.completedAt = NotBefore(record)]

FinalizeScript(j, o, d, state, outcome) ==
    LET record == j.records[o]
    IN  Exact(j, o, d,
              IF record.state \in {"SUCCEEDED", "FAILED", "CANCELED"}
              THEN IF record.state = state /\ record.outcome = outcome
                   THEN Found(j, "IDEMPOTENT", record) ELSE Status(j, "CONFLICT")
              ELSE IF record.state = "ACCEPTED" /\ state # "CANCELED" THEN Status(j, "INVALID_TRANSITION")
              ELSE Set(j, o, "UPDATED", Final(record, state, outcome)))

\* Mutation: a result may be added to a decision made without one.
FinalizeResultScriptLate(j, o, d, sealed) ==
    LET record == j.records[o]
        done   == Final(record, "SUCCEEDED", OutcomeOf(sealed))
    IN  Exact(j, o, d,
              IF record.state = "SUCCEEDED" /\ j.results[o] = sealed THEN Found(j, "IDEMPOTENT", record)
              ELSE IF record.state \in {"FAILED", "CANCELED"} THEN Status(j, "CONFLICT")
              ELSE IF record.state = "ACCEPTED" THEN Status(j, "INVALID_TRANSITION")
              ELSE Set([j EXCEPT !.results[o] = sealed], o, "COMPLETED", done))

FinalizeResultScript(j, o, d, sealed) ==
    LET record == j.records[o]
        done   == Final(record, "SUCCEEDED", OutcomeOf(sealed))
    IN  Exact(j, o, d,
              IF record.state = "SUCCEEDED"
              THEN IF record.outcome = OutcomeOf(sealed) /\ j.results[o] = sealed
                   THEN Found(j, "IDEMPOTENT", record) ELSE Status(j, "CONFLICT")
              ELSE IF record.state \in {"FAILED", "CANCELED"} THEN Status(j, "CONFLICT")
              ELSE IF j.results[o] # None THEN Status(j, "CORRUPT")
              ELSE IF record.state = "ACCEPTED" THEN Status(j, "INVALID_TRANSITION")
              ELSE Set([j EXCEPT !.results[o] = sealed], o, "COMPLETED", done))

LookupResultScript(j, o, d) ==
    LET record == j.records[o]
    IN  Exact(j, o, d,
              IF record.state # "SUCCEEDED" \/ record.outcome = None THEN Status(j, "INVALID_TRANSITION")
              ELSE IF j.results[o] = None THEN Status(j, "NO_RESULT")
              ELSE Found(j, "FOUND_RESULT", record))

\* journalStatusError
Error(status) ==
    CASE status \in {"CREATED", "EXISTING", "REPLAY_RESERVED", "FOUND", "UPDATED", "IDEMPOTENT",
                     "COMPLETED", "FOUND_RESULT"} -> "OK"
      [] status = "REPLAY" -> "REPLAY"
      [] status = "CONFLICT" -> "CONFLICT"
      [] status \in {"NOT_FOUND", "NO_RESULT"} -> "NOT_FOUND"
      [] status \in {"EXPIRED", "TTL_TOO_LONG"} -> "INVALID"
      [] status = "INVALID_TRANSITION" -> "TRANSITION"
      [] OTHER -> "UNAVAILABLE"
-----------------------------------------------------------------------------
(* Calls, WAIT, replication and failover. *)

NoCall == [kind |-> "NONE"]

\* Mutation: an acceptance that only reserves its replay key is not waited for.
redisJournalWriteStatusNew(status) == status \in {"CREATED", "UPDATED", "COMPLETED"}

redisJournalWriteStatus(status) == status \in {"CREATED", "REPLAY_RESERVED", "UPDATED", "COMPLETED"}

\* What the caller learns when its call is answered.
Answer(c) ==
    /\ starts' = IF c.kind = "START" /\ c.status = "UPDATED" THEN [starts EXCEPT ![c.op] = @ + 1] ELSE starts
    /\ acceptances' = IF c.kind = "ACCEPT" THEN acceptances \cup {c.what} ELSE acceptances
    /\ decisions' = IF c.kind = "DECIDE"
                    THEN decisions \cup {[op |-> c.op, what |-> c.what,
                                          firm |-> redisJournalWriteStatus(c.status)]}
                    ELSE decisions

\* EVAL: the script runs on the primary.  A written reply still has to be waited
\* for, any other reply is answered.
Eval(p, kind, o, what, reply) ==
    LET c == [kind |-> kind, op |-> o, what |-> what, status |-> reply.status, acked |-> {}]
    IN  /\ call[p] = NoCall
        /\ primary' = reply.journal
        /\ IF redisJournalWriteStatus(reply.status)
           THEN call' = [call EXCEPT ![p] = c] /\ UNCHANGED <<starts, acceptances, decisions>>
           ELSE /\ UNCHANGED call
                /\ IF Error(reply.status) = "OK" THEN Answer(c)
                   ELSE UNCHANGED <<starts, acceptances, decisions>>
        /\ UNCHANGED <<held, clock, failures>>

Reserve(p, o, d) == Eval(p, "NOTED", o, None, ReserveScript(Live(primary), o, d))

ReserveAcceptance(p, q) ==
    Eval(p, "ACCEPT", q.op,
         [key |-> q.key, at |-> clock, until |-> q.until, op |-> q.op, digest |-> q.digest],
         ReserveAcceptanceScript(Live(primary), q.key, q.until, q.op, q.digest))

MarkRunning(p, o, d) == Eval(p, "START", o, None, MarkRunningScript(Live(primary), o, d))

MarkIndeterminate(p, o, d) == Eval(p, "NOTED", o, None, MarkIndeterminateScript(Live(primary), o, d))

Finalize(p, o, d, t) ==
    Eval(p, "DECIDE", o, t,
         IF t.sealed = None THEN FinalizeScript(Live(primary), o, d, t.state, t.outcome)
         ELSE FinalizeResultScript(Live(primary), o, d, t.sealed))

\* Mutation: WAIT is satisfied by one acknowledgement fewer.
AcknowledgedAlmost(c) == Cardinality(c.acked) + 1 >= RequiredAcks

Acknowledged(c) == Cardinality(c.acked) >= RequiredAcks

WaitAnswered(p) ==
    /\ call[p] # NoCall /\ Acknowledged(call[p])
    /\ call' = [call EXCEPT ![p] = NoCall]
    /\ Answer(call[p])
    /\ UNCHANGED <<primary, held, clock, failures>>

\* WAIT times out or the connection breaks: ErrUnavailable, the write may stand.
WaitFails(p) ==
    /\ call[p] # NoCall
    /\ call' = [call EXCEPT ![p] = NoCall]
    /\ UNCHANGED <<primary, held, clock, starts, acceptances, decisions, failures>>

\* The replica catches up, and every write so far is on it.
Replicate(r) ==
    /\ held' = [held EXCEPT ![r] = primary]
    /\ call' = [p \in Client |-> IF call[p] = NoCall THEN NoCall ELSE [call[p] EXCEPT !.acked = @ \cup {r}]]
    /\ UNCHANGED <<primary, clock, starts, acceptances, decisions, failures>>

\* Replica r becomes the primary and connections break.
Failover(r) ==
    /\ failures < MaxFailures /\ failures' = failures + 1
    /\ primary' = held[r]
    /\ call' = [p \in Client |-> NoCall]
    /\ UNCHANGED <<held, clock, starts, acceptances, decisions>>

Tick ==
    /\ \E s \in ClockStep : clock + s \in 1..MaxTime /\ clock' = clock + s
    /\ UNCHANGED <<primary, held, call, starts, acceptances, decisions, failures>>

Init ==
    /\ primary = File!EmptyJournal /\ held = [r \in Replica |-> File!EmptyJournal] /\ clock = 1
    /\ call = [p \in Client |-> NoCall]
    /\ starts = [o \in Operation |-> 0] /\ acceptances = {} /\ decisions = {} /\ failures = 0

Next ==
    \/ \E p \in Client :
           \/ \E o \in Operation, d \in Digest :
                  \/ Reserve(p, o, d) \/ MarkRunning(p, o, d) \/ MarkIndeterminate(p, o, d)
                  \/ \E t \in Decision : Finalize(p, o, d, t)
           \/ \E q \in AcceptanceRequest : ReserveAcceptance(p, q)
           \/ WaitAnswered(p) \/ WaitFails(p)
    \/ \E r \in Replica : Replicate(r) \/ Failover(r)
    \/ Tick

Spec == Init /\ [][Next]_vars
-----------------------------------------------------------------------------
(* Every journal the primary or a replica holds is one the scripts accept. *)
TypeOK ==
    /\ {primary} \cup {held[r] : r \in Replica} \subseteq File!Journal
    /\ \A o \in Operation : primary.records[o] = File!NoRecord \/ decode_record(primary.records[o])
    /\ starts \in [Operation -> Nat]

(***************************************************************************)
(* The Lua scripts and the Go FileStore are one contract: on whatever the  *)
(* primary can hold, each script leaves the same journal and answers with  *)
(* the same error and record as the FileStore method, clock set back or    *)
(* not.  They differ in two named cases of ReserveAcceptance: a script     *)
(* reports a live replay key before an expired retention, and it bounds    *)
(* the retention by MaxReplayTTL.                                          *)
(***************************************************************************)
Agree(reply, effect) ==
    /\ Error(reply.status) = effect.error /\ reply.record = effect.record
    /\ Live(reply.journal) = Live(effect.journal)

ScriptsMatchFileStore ==
    LET j == Live(primary)
    IN  /\ \A o \in Operation, d \in Digest :
               /\ Agree(ReserveScript(j, o, d), File!Reserve(j, o, d))
               /\ Agree(LookupScript(j, o, d), File!Lookup(j, o, d))
               /\ Agree(LookupResultScript(j, o, d), File!LookupResult(j, o, d))
               /\ Agree(MarkRunningScript(j, o, d), File!MarkRunning(j, o, d))
               /\ Agree(MarkIndeterminateScript(j, o, d), File!MarkIndeterminate(j, o, d))
               /\ \A t \in Decision :
                      IF t.sealed = None
                      THEN Agree(FinalizeScript(j, o, d, t.state, t.outcome),
                                 File!Finalize(j, o, d, t.state, t.outcome))
                      ELSE Agree(FinalizeResultScript(j, o, d, t.sealed),
                                 File!FinalizeWithResult(j, o, d, t.sealed))
        /\ \A q \in AcceptanceRequest :
               clock < q.until /\ q.until - clock <= MaxReplayTTL =>
                   Agree(ReserveAcceptanceScript(j, q.key, q.until, q.op, q.digest),
                         File!ReserveAcceptance(j, q.key, q.until, q.op, q.digest))

(***************************************************************************)
(* When every replica has to acknowledge, no failover makes the store      *)
(* answer started=true twice for an operation.                             *)
(***************************************************************************)
StartedOnce == \A o \in Operation : starts[o] <= 1

(***************************************************************************)
(* When every replica has to acknowledge, an acceptance that was answered  *)
(* survives every failover, so its replay key admits nothing else before   *)
(* its retention has passed.                                               *)
(***************************************************************************)
ReplayKeyOnce ==
    \A a, b \in acceptances :
        a.key = b.key /\ a # b => a.until <= b.at \/ b.until <= a.at

(***************************************************************************)
(* When every replica has to acknowledge, a decision whose own WAIT was    *)
(* answered is on every replica for good, with its sealed result.          *)
(***************************************************************************)
FirmDecisionIsFinal ==
    \A t \in decisions : t.firm =>
        \A r \in Replica :
            LET j == held[r]
            IN  /\ j.records[t.op].state = t.what.state /\ j.records[t.op].outcome = t.what.outcome
                /\ t.what.sealed # None => j.results[t.op] = t.what.sealed
=============================================================================
