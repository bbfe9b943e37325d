-------------------------- MODULE ActionLifecycle --------------------------
(***************************************************************************)
(* The Action state machine of pkg/actionlifecycle: the durable Snapshot,  *)
(* the Event that asks to change it, Apply (what each event kind requires  *)
(* and does) and Snapshot.Validate (what every durable snapshot obeys).    *)
(*                                                                         *)
(* Apply is a pure function, so this module has no variables.  An event    *)
(* kind is an operator that returns [ok, next]: whether its case of the    *)
(* switch accepts the event, and the snapshot it builds.  ActionStore      *)
(* gives the machine its callers, its store and its clock.                 *)
(*                                                                         *)
(* Times are natural numbers.  An authenticated operation is its actor and *)
(* its expiry: it is issued when the event is, and the digests that bind   *)
(* it to the event's content are equalities the model has by construction. *)
(* A lease ID is its generation, the fencing token.                        *)
(***************************************************************************)
EXTENDS Naturals, FiniteSets

State ==
    {"ACCEPTED", "RUNNING", "WAITING", "PAUSED", "ORPHANED", "CANCELING",
     "INDETERMINATE", "SUCCEEDED", "FAILED", "CANCELED"}

Terminal(state) == state \in {"SUCCEEDED", "FAILED", "CANCELED"}

RequiresExecutorLease(state) == state \in {"RUNNING", "CANCELING"}

NoOne == "nobody"

NoLease == [executor |-> NoOne, generation |-> 0, issuedAt |-> 0, expiresAt |-> 0]

\* A condition on a Task's dependencies is a SIGNAL that hashes the waiting
\* revision and the dependency topology: the model keeps the pair itself.
NoCondition == [type |-> "NONE", notBefore |-> 0, revision |-> 0, topology |-> {}]

NoReconciliation == [status |-> "NONE", attempt |-> 0, result |-> "NONE"]

NoAction ==
    [revision |-> 0, state |-> "ACCEPTED", generation |-> 0, lease |-> NoLease,
     condition |-> NoCondition, checkpoint |-> 0,
     policy |-> [mode |-> "MANUAL", maxAttempts |-> 0], attempts |-> 0,
     reconciliation |-> NoReconciliation, outcome |-> "NONE",
     createdAt |-> 0, updatedAt |-> 0,
     last |-> [event |-> 0, kind |-> "NONE", from |-> "NONE", to |-> "NONE", at |-> 0,
               actor |-> NoOne, evidence |-> {}, generation |-> 0]]

-----------------------------------------------------------------------------
(***************************************************************************)
(* Snapshot.Validate.                                                      *)
(***************************************************************************)

\* The edges each event kind may record.
TransitionAllowed(kind, from, to) ==
    \/ kind = "START" /\ from = "ACCEPTED" /\ to = "RUNNING"
    \/ kind = "WAIT" /\ from = "RUNNING" /\ to = "WAITING"
    \/ kind = "PAUSE" /\ from \in {"RUNNING", "WAITING"} /\ to = "PAUSED"
    \/ kind = "RESUME" /\ from \in {"WAITING", "PAUSED"} /\ to = "RUNNING"
    \/ /\ kind = "REQUEST_CANCEL"
       /\ \/ from = "RUNNING" /\ to = "CANCELING"
          \/ from \in {"ACCEPTED", "WAITING", "PAUSED"} /\ to = "CANCELED"
          \/ from = "ORPHANED" /\ to = "INDETERMINATE"
    \/ kind = "COMPLETE" /\ RequiresExecutorLease(from) /\ to = "SUCCEEDED"
    \/ kind = "FAIL" /\ RequiresExecutorLease(from) /\ to = "FAILED"
    \/ kind = "CONFIRM_CANCELED" /\ from = "CANCELING" /\ to = "CANCELED"
    \/ /\ kind = "MARK_INDETERMINATE"
       /\ from \in {"RUNNING", "CANCELING", "ORPHANED"} /\ to = "INDETERMINATE"
    \/ kind = "LEASE_EXPIRED" /\ RequiresExecutorLease(from) /\ to = "ORPHANED"
    \/ kind = "TAKEOVER" /\ from = "ORPHANED" /\ to = "RUNNING"
    \/ /\ kind = "BEGIN_RECONCILIATION"
       /\ from \in {"INDETERMINATE", "ORPHANED"} /\ to = "INDETERMINATE"
    \/ /\ kind = "RESOLVE_RECONCILIATION" /\ from = "INDETERMINATE"
       /\ to \in {"PAUSED", "SUCCEEDED", "FAILED", "CANCELED"}
    \/ kind = "RENEW_LEASE" /\ RequiresExecutorLease(from) /\ to = from

\* The earliest revision at which `kind` may follow `from`.
MinimumTransitionRevision(kind, from) ==
    CASE kind = "RESOLVE_RECONCILIATION" -> 5
      [] from = "ACCEPTED" -> 2
      [] from = "RUNNING" -> 3
      [] OTHER -> 4

ReconciliationValid(r) ==
    \/ r.status = "REQUIRED" /\ r.attempt = 0 /\ r.result = "NONE"
    \/ r.status = "RUNNING" /\ r.attempt > 0 /\ r.result = "NONE"
    \/ r.status = "RESOLVED" /\ r.attempt > 0 /\ r.result # "NONE"

LastTransitionValid(a) ==
    /\ a.last.to = a.state /\ a.last.generation = a.generation /\ a.last.at = a.updatedAt
    /\ (a.last.actor = NoOne) <=> (a.last.kind = "LEASE_EXPIRED")
    /\ IF a.last.kind = "ACCEPT"
       THEN /\ a.last.from = "NONE" /\ a.state = "ACCEPTED" /\ a.revision = 1
            /\ a.createdAt = a.updatedAt /\ a.generation = 0 /\ a.attempts = 0
            /\ a.checkpoint = 0 /\ a.reconciliation = NoReconciliation
       ELSE /\ TransitionAllowed(a.last.kind, a.last.from, a.last.to)
            /\ a.revision >= MinimumTransitionRevision(a.last.kind, a.last.from)

Valid(a) ==
    /\ a.revision > 0 /\ a.state \in State /\ a.updatedAt >= a.createdAt
    /\ a.policy.maxAttempts > 0 /\ a.attempts <= a.policy.maxAttempts
    /\ RequiresExecutorLease(a.state) <=> (a.lease # NoLease)
    /\ a.lease # NoLease => /\ a.lease.generation = a.generation
                            /\ a.lease.issuedAt >= a.createdAt
                            /\ a.lease.expiresAt > a.lease.issuedAt
    /\ (a.state = "WAITING") <=> (a.condition # NoCondition)
    /\ (a.state = "INDETERMINATE") <=> (a.reconciliation.status \in {"REQUIRED", "RUNNING"})
    /\ a.reconciliation # NoReconciliation => ReconciliationValid(a.reconciliation)
    /\ a.outcome = (IF Terminal(a.state) THEN a.state ELSE "NONE")
    /\ LastTransitionValid(a)

-----------------------------------------------------------------------------
(***************************************************************************)
(* Apply.  An event e has the fields                                       *)
(*   id, kind, expected (revision), at, actor, expires (of the operation), *)
(*   fence, lease, condition, checkpoint, evidence, result                 *)
(***************************************************************************)

\* validateEvent, validateAuthenticatedOperation: the event does not precede
\* the snapshot, and every event but the lease monitor's carries an operation
\* that is current at the event's time.
EventValid(a, e) ==
    /\ e.at >= a.updatedAt
    /\ IF e.kind = "LEASE_EXPIRED" THEN e.actor = NoOne
       ELSE e.actor # NoOne /\ e.expires > e.at

\* acquireLease: the next generation, issued now, to the authenticated actor,
\* not beyond the operation that authorizes it.
AcquiresLease(a, e) ==
    /\ e.lease.generation = a.generation + 1
    /\ e.lease.issuedAt = e.at /\ e.lease.expiresAt > e.at
    /\ e.lease.executor = e.actor /\ e.lease.expiresAt <= e.expires

Leased(a, e) ==
    [a EXCEPT !.lease = e.lease, !.generation = e.lease.generation, !.state = "RUNNING"]

\* requireCurrentExecutor: an unexpired lease, its exact fence, its executor.
CurrentExecutor(a, e) ==
    /\ a.lease # NoLease /\ e.at < a.lease.expiresAt
    /\ e.fence = [executor |-> a.lease.executor, generation |-> a.lease.generation]
    /\ e.actor = a.lease.executor

\* updateCheckpoint: none, or one whose sequence increases.
CheckpointAdvances(a, e) == e.checkpoint = 0 \/ e.checkpoint > a.checkpoint

Checkpointed(a, e) == IF e.checkpoint = 0 THEN a.checkpoint ELSE e.checkpoint

\* resumeSatisfied
ResumeSatisfied(condition, e) ==
    IF condition.type = "TIME" THEN e.at >= condition.notBefore ELSE e.evidence # {}

RequiredReconciliation == [status |-> "REQUIRED", attempt |-> 0, result |-> "NONE"]

Start(a, e) == [ok |-> a.state = "ACCEPTED" /\ AcquiresLease(a, e), next |-> Leased(a, e)]

Wait(a, e) ==
    [ok   |-> /\ a.state = "RUNNING" /\ CurrentExecutor(a, e)
              /\ e.condition # NoCondition /\ CheckpointAdvances(a, e),
     next |-> [a EXCEPT !.state = "WAITING", !.lease = NoLease, !.condition = e.condition,
                        !.checkpoint = Checkpointed(a, e)]]

Pause(a, e) ==
    [ok   |-> /\ \/ a.state = "RUNNING" /\ CurrentExecutor(a, e)
                 \/ a.state = "WAITING"
              /\ CheckpointAdvances(a, e),
     next |-> [a EXCEPT !.state = "PAUSED", !.lease = NoLease, !.condition = NoCondition,
                        !.checkpoint = Checkpointed(a, e)]]

Resume(a, e) ==
    [ok   |-> /\ \/ a.state = "WAITING" /\ ResumeSatisfied(a.condition, e)
                 \/ a.state = "PAUSED"
              /\ AcquiresLease(a, e),
     next |-> [Leased(a, e) EXCEPT !.condition = NoCondition]]

RequestCancel(a, e) ==
    [ok   |-> a.state \in {"RUNNING", "ACCEPTED", "WAITING", "PAUSED", "ORPHANED"},
     next |-> CASE a.state = "RUNNING" -> [a EXCEPT !.state = "CANCELING"]
                [] a.state = "ORPHANED" ->
                     [a EXCEPT !.state = "INDETERMINATE", !.reconciliation = RequiredReconciliation]
                [] OTHER -> [a EXCEPT !.state = "CANCELED", !.lease = NoLease,
                                      !.condition = NoCondition, !.outcome = "CANCELED"]]

\* COMPLETE, FAIL and CONFIRM_CANCELED: the executor reports a known result.
Finish(a, e, from, result) ==
    [ok   |-> a.state \in from /\ CurrentExecutor(a, e),
     next |-> [a EXCEPT !.state = result, !.lease = NoLease, !.outcome = result]]

MarkIndeterminate(a, e) ==
    [ok   |-> \/ RequiresExecutorLease(a.state) /\ CurrentExecutor(a, e)
              \/ a.state = "ORPHANED",
     next |-> [a EXCEPT !.state = "INDETERMINATE", !.lease = NoLease,
                        !.condition = NoCondition, !.reconciliation = RequiredReconciliation]]

\* Mutation: only a running Action is expected to lose its lease.
LeaseExpiredRunning(a, e) ==
    [ok   |-> a.state = "RUNNING" /\ e.at >= a.lease.expiresAt,
     next |-> [a EXCEPT !.state = "ORPHANED", !.lease = NoLease]]

LeaseExpired(a, e) ==
    [ok   |-> RequiresExecutorLease(a.state) /\ e.at >= a.lease.expiresAt,
     next |-> [a EXCEPT !.state = "ORPHANED", !.lease = NoLease]]

Takeover(a, e) ==
    [ok   |-> /\ a.state = "ORPHANED" /\ a.attempts < a.policy.maxAttempts
              /\ \/ a.policy.mode = "RESUME_FROM_CHECKPOINT" /\ a.checkpoint > 0
                 \/ a.policy.mode = "RESTART_IDEMPOTENT"
                 \/ a.policy.mode = "MANUAL" /\ e.evidence # {}
              /\ AcquiresLease(a, e),
     next |-> [Leased(a, e) EXCEPT !.attempts = @ + 1]]

\* The attempt counts on from the reconciliation the snapshot still holds.
BeginReconciliation(a, e) ==
    [ok   |-> a.state \in {"INDETERMINATE", "ORPHANED"},
     next |-> [a EXCEPT !.state = "INDETERMINATE", !.lease = NoLease,
                        !.reconciliation = [status |-> "RUNNING", attempt |-> @.attempt + 1,
                                            result |-> "NONE"]]]

ResolveReconciliation(a, e) ==
    [ok   |-> /\ a.state = "INDETERMINATE" /\ a.reconciliation.status = "RUNNING"
              /\ e.result \in {"NO_EFFECT", "SUCCEEDED", "FAILED", "CANCELED"}
              /\ e.evidence # {},
     next |-> [a EXCEPT !.reconciliation.status = "RESOLVED", !.reconciliation.result = e.result,
                        !.state = IF e.result = "NO_EFFECT" THEN "PAUSED" ELSE e.result,
                        !.outcome = IF e.result = "NO_EFFECT" THEN "NONE" ELSE e.result]]

RenewLease(a, e) ==
    [ok   |-> /\ RequiresExecutorLease(a.state) /\ CurrentExecutor(a, e)
              /\ e.lease = [a.lease EXCEPT !.expiresAt = e.lease.expiresAt]
              /\ e.lease.expiresAt > a.lease.expiresAt /\ e.lease.expiresAt <= e.expires,
     next |-> [a EXCEPT !.lease = e.lease]]

Switch(a, e) ==
    CASE e.kind = "START" -> Start(a, e)
      [] e.kind = "WAIT" -> Wait(a, e)
      [] e.kind = "PAUSE" -> Pause(a, e)
      [] e.kind = "RESUME" -> Resume(a, e)
      [] e.kind = "REQUEST_CANCEL" -> RequestCancel(a, e)
      [] e.kind = "COMPLETE" -> Finish(a, e, {"RUNNING", "CANCELING"}, "SUCCEEDED")
      [] e.kind = "FAIL" -> Finish(a, e, {"RUNNING", "CANCELING"}, "FAILED")
      [] e.kind = "CONFIRM_CANCELED" -> Finish(a, e, {"CANCELING"}, "CANCELED")
      [] e.kind = "MARK_INDETERMINATE" -> MarkIndeterminate(a, e)
      [] e.kind = "LEASE_EXPIRED" -> LeaseExpired(a, e)
      [] e.kind = "TAKEOVER" -> Takeover(a, e)
      [] e.kind = "BEGIN_RECONCILIATION" -> BeginReconciliation(a, e)
      [] e.kind = "RESOLVE_RECONCILIATION" -> ResolveReconciliation(a, e)
      [] e.kind = "RENEW_LEASE" -> RenewLease(a, e)

\* The checks before the switch and the switch's own.
Accepts(a, e) ==
    /\ e.expected = a.revision /\ ~Terminal(a.state)
    /\ EventValid(a, e) /\ Switch(a, e).ok

\* The tail of Apply: revision, time and the transition record.
Derived(a, e) ==
    LET next == Switch(a, e).next
    IN  [next EXCEPT
           !.revision = @ + 1, !.updatedAt = e.at,
           !.last = [event |-> e.id, kind |-> e.kind, from |-> a.state, to |-> next.state,
                     at |-> e.at, actor |-> e.actor, evidence |-> e.evidence,
                     generation |-> next.generation]]

\* Apply(a, e) returns Derived(a, e) without an error.
Applies(a, e) == Valid(a) /\ Accepts(a, e) /\ Valid(Derived(a, e))

\* NewSnapshot
NewSnapshot(event, actor, policy, at) ==
    [NoAction EXCEPT
       !.revision = 1, !.policy = policy, !.createdAt = at, !.updatedAt = at,
       !.last = [event |-> event, kind |-> "ACCEPT", from |-> "NONE", to |-> "ACCEPTED",
                 at |-> at, actor |-> actor, evidence |-> {}, generation |-> 0]]
=============================================================================
