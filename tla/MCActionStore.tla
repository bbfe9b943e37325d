--------------------------- MODULE MCActionStore ---------------------------
(***************************************************************************)
(* Four small instances of ActionStore for TLC.  An initial state belongs  *)
(* to one of them, and "instance" says to which:                           *)
(*   FENCING       two executors, leases that are renewed, expire and are  *)
(*                 taken over, an Assignment that may end                  *)
(*   LIFECYCLE     every event kind, one call after the other              *)
(*   DEPENDENCIES  waits on three edges whose facts and topology change    *)
(*   ACCEPTANCE    rival acceptances whose answers get lost                *)
(***************************************************************************)
EXTENDS Naturals, FiniteSets, TLC

CONSTANTS a1, a2, s1, s2, x1, x2, d1, d2, d3, p1, p2

VARIABLES
    instance, clock, assignments, dependencies, actions, bindings, actionByAssignment, waits,
    events, calls, answers

vars == <<instance, clock, assignments, dependencies, actions, bindings, actionByAssignment, waits,
          events, calls, answers>>

Restart(n) == [mode |-> "RESTART_IDEMPOTENT", maxAttempts |-> n]

Acceptance(event, action, assignment, policy, proof, expires) ==
    [event |-> event, action |-> action, assignment |-> assignment, revision |-> 2,
     policy |-> policy, proof |-> proof, actor |-> "owner", expires |-> expires]

OneAcceptance == {Acceptance(1, a1, s1, Restart(1), "proof", 1)}

\* One acceptance, under either of the guarded recovery modes.
AnyPolicy ==
    {Acceptance(1, a1, s1, [mode |-> m, maxAttempts |-> 1], "proof", 1)
       : m \in {"RESUME_FROM_CHECKPOINT", "MANUAL"}}

\* The same request again, with another proof, with a proof that runs out, under
\* a used event, for a bound Assignment.
RivalAcceptances ==
    {Acceptance(1, a1, s1, Restart(1), "first", 1), Acceptance(1, a1, s1, Restart(1), "second", 2),
     Acceptance(1, a2, s1, Restart(1), "first", 2), Acceptance(2, a2, s1, Restart(2), "third", 2),
     Acceptance(3, a2, s2, Restart(1), "fourth", 2)}

Edge(id, group, mode, quorum, satisfied) ==
    [id |-> id, group |-> group, mode |-> mode, quorum |-> quorum, satisfied |-> satisfied]

Quorum2Of3 == {Edge(d, "g", "QUORUM", 2, d = d1) : d \in {d1, d2, d3}}

AllAndAny ==
    {Edge(d1, "g", "ALL", 0, FALSE), Edge(d2, "h", "ANY", 0, TRUE), Edge(d3, "h", "ANY", 0, FALSE)}

TimeOrApproval ==
    {[type |-> t, notBefore |-> IF t = "TIME" THEN 1 ELSE 0, revision |-> 0, topology |-> {}]
       : t \in {"TIME", "APPROVAL"}}

AllKinds ==
    {"START", "WAIT", "PAUSE", "RESUME", "REQUEST_CANCEL", "COMPLETE", "FAIL", "CONFIRM_CANCELED",
     "MARK_INDETERMINATE", "TAKEOVER", "BEGIN_RECONCILIATION", "RESOLVE_RECONCILIATION",
     "RENEW_LEASE"}

Fencing == INSTANCE ActionStore WITH
    Process <- {p1, p2}, Lossy <- {}, ActionID <- {a1}, AssignmentID <- {s1}, Executor <- {x1, x2},
    Kinds <- {"START", "RENEW_LEASE", "TAKEOVER", "COMPLETE"}, AcceptRequests <- OneAcceptance,
    Graphs <- {{}}, Conditions <- {}, LeaseTerms <- {1, 2}, OperationTerms <- {2}, Checkpoints <- {0},
    Evidence <- {{"evidence"}}, ReuseIDs <- FALSE, MaxTime <- 3, MaxRevision <- 5

Lifecycle == INSTANCE ActionStore WITH
    Process <- {p1}, Lossy <- {}, ActionID <- {a1}, AssignmentID <- {s1}, Executor <- {x1},
    Kinds <- AllKinds, AcceptRequests <- AnyPolicy, Graphs <- {{}}, Conditions <- TimeOrApproval,
    LeaseTerms <- {1}, OperationTerms <- {1}, Checkpoints <- {0, 1}, Evidence <- {{}, {"evidence"}},
    ReuseIDs <- FALSE, MaxTime <- 2, MaxRevision <- 5

Dependencies == INSTANCE ActionStore WITH
    Process <- {p1}, Lossy <- {}, ActionID <- {a1}, AssignmentID <- {s1}, Executor <- {x1},
    Kinds <- {"START"}, AcceptRequests <- OneAcceptance, Graphs <- {{}, Quorum2Of3, AllAndAny},
    Conditions <- {}, LeaseTerms <- {2}, OperationTerms <- {2}, Checkpoints <- {0},
    Evidence <- {{"evidence"}}, ReuseIDs <- FALSE, MaxTime <- 1, MaxRevision <- 4

Accepting == INSTANCE ActionStore WITH
    Process <- {p1, p2}, Lossy <- {p1}, ActionID <- {a1, a2}, AssignmentID <- {s1, s2},
    Executor <- {x1}, Kinds <- {"START"}, AcceptRequests <- RivalAcceptances, Graphs <- {{}},
    Conditions <- {}, LeaseTerms <- {1}, OperationTerms <- {1}, Checkpoints <- {0},
    Evidence <- {{"evidence"}}, ReuseIDs <- TRUE, MaxTime <- 1, MaxRevision <- 2

\* Waits on dependencies that are paused and resumed.
Bypass == INSTANCE ActionStore WITH
    Process <- {p1}, Lossy <- {}, ActionID <- {a1}, AssignmentID <- {s1}, Executor <- {x1},
    Kinds <- {"START", "WAIT", "PAUSE", "RESUME"}, AcceptRequests <- OneAcceptance,
    Graphs <- {Quorum2Of3}, Conditions <- {}, LeaseTerms <- {2}, OperationTerms <- {2},
    Checkpoints <- {0}, Evidence <- {{"evidence"}}, ReuseIDs <- FALSE, MaxTime <- 2, MaxRevision <- 5
-----------------------------------------------------------------------------
(* The behaviours explored. *)

\* A call is overtaken when the Action or the clock has moved since it began.
Overtaken(p) ==
    LET c == calls[p] IN
    CASE c.path = "IDLE" -> FALSE
      [] c.path = "ACCEPT" -> clock > 0 \/ actions[c.request.action].revision > 0
      [] OTHER -> c.current # actions[c.action] \/ c.event.at # clock

\* Callers come once the Action is accepted, and at most so many are overtaken.
Bounded(overtaken) ==
    /\ clock = 0 \/ \E id \in DOMAIN actions : actions[id].revision > 0
    /\ Cardinality({p \in DOMAIN calls : Overtaken(p)}) <= overtaken

Undisturbed == \A s \in DOMAIN assignments : assignments[s].status = "ACCEPTED"

Explored ==
    CASE instance = "FENCING" -> Bounded(1)
      [] instance = "LIFECYCLE" -> Bounded(0) /\ Undisturbed
      [] instance = "DEPENDENCIES" -> Bounded(1) /\ Undisturbed
      [] instance = "ACCEPTANCE" -> TRUE

Init ==
    \/ instance = "FENCING" /\ Fencing!Init
    \/ instance = "LIFECYCLE" /\ Lifecycle!Init
    \/ instance = "DEPENDENCIES" /\ Dependencies!Init
    \/ instance = "ACCEPTANCE" /\ Accepting!Init

Next ==
    \/ instance = "FENCING" /\ Fencing!Next /\ UNCHANGED instance
    \/ instance = "LIFECYCLE" /\ Lifecycle!Next /\ UNCHANGED instance
    \/ instance = "DEPENDENCIES" /\ Dependencies!Next /\ UNCHANGED instance
    \/ instance = "ACCEPTANCE" /\ Accepting!Next /\ UNCHANGED instance

Spec == Init /\ [][Next]_vars

BypassSpec ==
    /\ instance = "BYPASS" /\ Bypass!Init
    /\ [][Bypass!Next /\ UNCHANGED instance]_vars

Symmetry == Permutations({p1, p2}) \cup Permutations({x1, x2})
-----------------------------------------------------------------------------
(* The properties of ActionStore, each on the instances that put it at risk. *)

\* Every variable keeps its type.
TypeOK ==
    /\ instance = "FENCING" => Fencing!TypeOK
    /\ instance = "LIFECYCLE" => Lifecycle!TypeOK
    /\ instance = "DEPENDENCIES" => Dependencies!TypeOK
    /\ instance = "ACCEPTANCE" => Accepting!TypeOK

\* Two executors never hold live leases on one Action at the same time, whatever
\* renewals, expiry observations and takeovers race.
LeasesDoNotOverlap == instance = "FENCING" => Fencing!LeasesDoNotOverlap

\* What a write relied on when it was derived still holds when it is committed:
\* a lease fence is that of the stored, unexpired lease; execution starts,
\* resumes or is taken over only while the stored Assignment is accepted; a
\* dependency wait ends only on satisfied dependencies of the topology it was
\* bound to; and a terminal outcome is never replaced.
CommitIsCurrent ==
    [][/\ instance = "FENCING" => Fencing!FenceHeld /\ Fencing!ExecutionAuthorized /\ Fencing!OutcomeKept
       /\ instance = "DEPENDENCIES" => Dependencies!ResumedOnFacts]_vars

\* The code's own checks accept its own work: Snapshot.Validate what Apply's
\* switch has derived, RestoreMemoryStore what ExportState writes.
OwnChecksPass ==
    /\ TypeOK
    /\ instance = "LIFECYCLE" => Lifecycle!DerivedIsValid
    /\ instance = "DEPENDENCIES" => Dependencies!RestoreAccepts

\* An unfinished Action can always be moved on by the lease monitor, a cancel
\* request or a reconciler.
NeverStuck == instance = "LIFECYCLE" => Lifecycle!NeverStuck

\* An Assignment has at most one Action, the tables of the join agree, and every
\* caller that is told an acceptance succeeded is told the same View.
AcceptanceAnswersAgree ==
    instance = "ACCEPTANCE" => Accepting!OneActionPerAssignment /\ Accepting!AcceptanceAnswersAgree

\* An Action that went into a dependency wait runs again only with the evidence
\* of ResumeDependencyWait that its dependencies were satisfied.
TopologyCheckNotBypassed == Bypass!TopologyCheckNotBypassed
=============================================================================
