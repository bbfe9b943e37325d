---------------------------- MODULE ActionStore ----------------------------
(***************************************************************************)
(* Task-linked Actions: pkg/taskcoord/actionbinding.                       *)
(*                                                                         *)
(* Service calls read the store without holding its lock, derive a         *)
(* transition with actionlifecycle.Apply, and commit it under the lock.    *)
(* Between the read and the commit anything may happen: other calls,       *)
(* lease expiry, the end of the Assignment, new dependency facts.  A call  *)
(* is therefore two steps (Begin..., Commit...) of a Process, which may    *)
(* also be abandoned or have its commit delivered again.                   *)
(*                                                                         *)
(* The Assignment's own life is TaskStore's; here it is accepted and ends. *)
(***************************************************************************)
EXTENDS ActionLifecycle, Integers, Sequences, FiniteSetsExt, TLC

CONSTANTS
    Process,        \* concurrent Service calls
    Lossy,          \* those whose answers may be lost, so that they commit again
    ActionID, AssignmentID,
    Executor,       \* authenticated actors
    Kinds,          \* the event kinds callers use
    AcceptRequests, \* the acceptances callers hold
    Graphs,         \* the dependency graphs the application installs
    Conditions,     \* the resume conditions of ordinary waits
    LeaseTerms, OperationTerms,   \* durations of leases and operations
    Checkpoints,    \* checkpoint sequences callers offer, 0 for none
    Evidence,       \* evidence callers offer, {} for none
    ReuseIDs,       \* whether callers present used event IDs again
    MaxTime, MaxRevision          \* bounds of the instance

VARIABLES
    clock,
    assignments,        \* AssignmentID -> [revision, status]
    dependencies,       \* the stored edges of the bound Task
    actions,            \* ActionID -> Snapshot, NoAction if absent
    bindings,           \* ActionID -> AssignmentID, NoOne if absent
    actionByAssignment, \* AssignmentID -> ActionID, NoOne if absent
    waits,              \* ActionID -> the DependencyWait documents
    events,             \* event ID -> the commit it named
    calls,              \* Process -> the call in flight
    answers             \* the acceptance Views callers were given

vars == <<clock, assignments, dependencies, actions, bindings, actionByAssignment,
          waits, events, calls, answers>>

stored == <<dependencies, actions, bindings, actionByAssignment, waits, events>>

Idle == [path |-> "IDLE"]

NoAssignment == [revision |-> 0, status |-> "NONE"]

NoFence == [executor |-> NoOne, generation |-> 0]

AcceptEvent(n) == <<"caller", "ACCEPT", NoOne, n>>

\* leaseExpiryEventID
LeaseExpiryEvent(id, a) == <<"lease", "LEASE_EXPIRED", id, a.lease.generation>>

Exists(id) == actions[id].revision > 0

-----------------------------------------------------------------------------
(***************************************************************************)
(* Dependencies.                                                           *)
(***************************************************************************)

\* Groups are conjunctive; the edges of a group share its mode and quorum.
DependenciesSatisfied(edges) ==
    \A g \in {e.group : e \in edges} :
        LET members == {e \in edges : e.group = g}
            met     == Cardinality({e \in members : e.satisfied})
        IN  \A e \in members : CASE e.mode = "ALL" -> met = Cardinality(members)
                                 [] e.mode = "ANY" -> met > 0
                                 [] e.mode = "QUORUM" -> met >= e.quorum

\* canonicalDependencies without the satisfaction flags
Topology(edges) == {[e EXCEPT !.satisfied = FALSE] : e \in edges}

\* DependencyWaitSignal, as a resume condition
DependencySignal(revision, edges) ==
    [type |-> "SIGNAL", notBefore |-> 0, revision |-> revision, topology |-> Topology(edges)]

\* Mutation: the document is stamped when it is written.
DependencyWaitStamped(next, edges) ==
    [revision |-> next.revision, topology |-> Topology(edges), createdAt |-> clock]

\* NewDependencyWait
DependencyWait(next, edges) ==
    [revision |-> next.revision, topology |-> Topology(edges), createdAt |-> next.updatedAt]

\* dependencyResumeEvidence: which edges the resume found satisfied
ResumeEvidence(edges) == {e.id : e \in {x \in edges : x.satisfied}}

\* validateCurrentWait
CurrentWait(a, w, edges) ==
    /\ a.state = "WAITING" /\ w.revision = a.revision /\ w.createdAt = a.updatedAt
    /\ edges # {} /\ w.topology = Topology(edges)
    /\ a.condition = DependencySignal(w.revision, edges)

-----------------------------------------------------------------------------
(***************************************************************************)
(* What callers ask for.                                                   *)
(***************************************************************************)

\* A caller names its event after what it asks for and the revision it asks it
\* of.  It may also present a used name again.
OfferedIDs(a, kind, actor) ==
    {<<"caller", kind, actor, a.revision>>} \cup {id \in DOMAIN events : ReuseIDs}

Requests(a, kind, actor) ==
    [kind : {kind}, id : OfferedIDs(a, kind, actor), expected : {a.revision - 1, a.revision},
     at : {clock}, actor : {actor}, expires : {clock + t : t \in OperationTerms},
     fence : {NoFence}, lease : {NoLease}, condition : {NoCondition}, checkpoint : {0},
     evidence : {{}}, result : {"NONE"}]

Fenced(a, r) ==
    {[r EXCEPT !.fence = [executor |-> r.actor, generation |-> g]] : g \in 1 .. a.generation}

Claiming(a, r) ==
    {[r EXCEPT !.lease = [executor |-> r.actor, generation |-> a.generation + 1,
                          issuedAt |-> r.at, expiresAt |-> r.at + t], !.evidence = v]
       : t \in LeaseTerms, v \in IF r.kind = "START" THEN {{}} ELSE Evidence}

Checkpointing(rs) == {[r EXCEPT !.checkpoint = c] : r \in rs, c \in Checkpoints}

\* The payloads that go with an event kind.
Filled(a, r) ==
    CASE r.kind \in {"START", "RESUME", "TAKEOVER"} -> Claiming(a, r)
      [] r.kind = "WAIT" ->
           Checkpointing({[f EXCEPT !.condition = c] : f \in Fenced(a, r), c \in Conditions})
      [] r.kind = "PAUSE" -> Checkpointing(Fenced(a, r) \cup {r})
      [] r.kind = "MARK_INDETERMINATE" -> Fenced(a, r) \cup {r}
      [] r.kind = "RENEW_LEASE" ->
           {[f EXCEPT !.lease = [a.lease EXCEPT !.expiresAt = r.at + t]]
              : f \in Fenced(a, r), t \in LeaseTerms}
      [] r.kind = "RESOLVE_RECONCILIATION" ->
           {[r EXCEPT !.result = s, !.evidence = {"evidence"}]
              : s \in {"NO_EFFECT", "SUCCEEDED", "FAILED", "CANCELED"}}
      [] r.kind \in {"REQUEST_CANCEL", "BEGIN_RECONCILIATION"} -> {r}
      [] OTHER -> Fenced(a, r)

-----------------------------------------------------------------------------
(***************************************************************************)
(* The first half of a call: read the store, derive the transition.        *)
(***************************************************************************)

Init ==
    /\ clock = 0
    /\ assignments = [s \in AssignmentID |-> [revision |-> 2, status |-> "ACCEPTED"]]
    /\ dependencies \in Graphs
    /\ actions = [id \in ActionID |-> NoAction]
    /\ bindings = [id \in ActionID |-> NoOne]
    /\ actionByAssignment = [s \in AssignmentID |-> NoOne]
    /\ waits = [id \in ActionID |-> {}]
    /\ events = <<>>
    /\ calls = [p \in Process |-> Idle]
    /\ answers = {}

Tick ==
    /\ clock < MaxTime /\ clock' = clock + 1
    /\ UNCHANGED <<assignments, stored, calls, answers>>

\* RELEASE, REVOKE, FULFILL or SUPERSEDE of the Assignment, told apart by
\* nothing here.
EndAssignment(s) ==
    /\ assignments[s].status = "ACCEPTED"
    /\ assignments' = [assignments EXCEPT ![s] = [revision |-> @.revision + 1, status |-> "ENDED"]]
    /\ UNCHANGED <<clock, stored, calls, answers>>

SetDependencySatisfied(e) ==
    /\ dependencies' = (dependencies \ {e}) \cup {[e EXCEPT !.satisfied = ~@]}
    /\ UNCHANGED <<clock, assignments, actions, bindings, actionByAssignment, waits, events,
                   calls, answers>>

SetDependencies ==
    /\ dependencies' \in Graphs
    /\ UNCHANGED <<clock, assignments, actions, bindings, actionByAssignment, waits, events,
                   calls, answers>>

Calling(p, call) ==
    /\ calls[p] = Idle
    /\ calls' = [calls EXCEPT ![p] = call]
    /\ UNCHANGED <<clock, assignments, stored, answers>>

\* Service.Accept
BeginAccept(p) ==
    \E r \in AcceptRequests :
        Calling(p, [path |-> "ACCEPT", event |-> [id |-> AcceptEvent(r.event)], request |-> r,
                    assignment |-> assignments[r.assignment]])

\* Service.Load and actionlifecycle.Apply, as every other call begins.  The
\* Assignment, the Action and the dependencies are read one after the other;
\* reading all of them at the last read is the same, for a commit that uses one
\* compares it with the store again.
Deriving(p, path, id, e) ==
    LET a == actions[id] IN
    /\ a.revision < MaxRevision
    /\ Applies(a, e)
    /\ Calling(p, [path |-> path, action |-> id, current |-> a, event |-> e,
                   next |-> Derived(a, e), assignment |-> assignments[bindings[id]],
                   dependencies |-> dependencies])

StartsOrExtendsExecution(kind) == kind \in {"START", "RESUME", "TAKEOVER", "RENEW_LEASE"}

\* Service.Transition: a dependency wait and its resume have operations of
\* their own.
BeginTransition(p, id) ==
    \E kind \in Kinds, actor \in Executor :
    \E r \in Requests(actions[id], kind, actor) : \E e \in Filled(actions[id], r) :
        /\ e.kind = "RESUME" => actions[id].condition.type # "SIGNAL"
        /\ StartsOrExtendsExecution(e.kind) => assignments[bindings[id]].status = "ACCEPTED"
        /\ Deriving(p, IF StartsOrExtendsExecution(e.kind) THEN "EXECUTION" ELSE "AUTHORIZED", id, e)

\* Service.WaitForDependencies
BeginDependencyWait(p, id) ==
    \E actor \in Executor :
    \E r \in Requests(actions[id], "WAIT", actor) : \E f \in Fenced(actions[id], r) :
        /\ actions[id].state = "RUNNING"
        /\ assignments[bindings[id]].status = "ACCEPTED"
        /\ dependencies # {} /\ ~DependenciesSatisfied(dependencies)
        /\ Deriving(p, "WAIT", id,
                    [f EXCEPT !.condition =
                                DependencySignal(actions[id].revision + 1, dependencies)])

\* Service.ResumeDependencyWait
BeginDependencyResume(p, id) ==
    \E actor \in Executor, w \in waits[id] :
    \E r \in Requests(actions[id], "RESUME", actor) : \E e \in Claiming(actions[id], r) :
        /\ w.revision = actions[id].revision
        /\ assignments[bindings[id]].status = "ACCEPTED"
        /\ CurrentWait(actions[id], w, dependencies) /\ DependenciesSatisfied(dependencies)
        /\ Deriving(p, "RESUME", id, [e EXCEPT !.evidence = ResumeEvidence(dependencies)])

\* Service.ExpireLease: the trusted monitor builds the event itself.
BeginLeaseExpiry(p, id) ==
    /\ RequiresExecutorLease(actions[id].state)
    /\ Deriving(p, "EXPIRY", id,
                [id |-> LeaseExpiryEvent(id, actions[id]), kind |-> "LEASE_EXPIRED",
                 expected |-> actions[id].revision, at |-> clock, actor |-> NoOne,
                 expires |-> 0, fence |-> NoFence, lease |-> NoLease,
                 condition |-> NoCondition, checkpoint |-> 0, evidence |-> {}, result |-> "NONE"])

\* The caller has its answer, or has given up.
Return(p) ==
    /\ calls[p] # Idle
    /\ calls' = [calls EXCEPT ![p] = Idle]
    /\ UNCHANGED <<clock, assignments, stored, answers>>

-----------------------------------------------------------------------------
(***************************************************************************)
(* The second half: the commit, under the store's lock.                    *)
(***************************************************************************)

\* checkActionCommitLocked finds the exact commit: the call succeeds and
\* changes nothing.
Retried(c) ==
    /\ c.event.id \in DOMAIN events
    /\ events[c.event.id].action = c.action /\ events[c.event.id].snapshot = c.next

\* Mutation: a later revision passes the comparison.
ActionNotOlder(c) ==
    /\ c.event.id \notin DOMAIN events
    /\ actions[c.action].revision >= c.current.revision

\* checkActionCommitLocked lets a new commit through, and the stored Action
\* is the one the transition was derived from.
ActionUnchanged(c) ==
    /\ c.event.id \notin DOMAIN events
    /\ actions[c.action] = c.current

\* Mutation: the Assignment read by the call is trusted.
AssignmentTrusted(c) == c.assignment.status = "ACCEPTED"

\* compareLinkedInputsLocked; the Binding is immutable.
AssignmentUnchanged(c) == assignments[bindings[c.action]] = c.assignment

\* compareInputsLocked: satisfaction flags included.
DependenciesUnchanged(c) == dependencies = c.dependencies

\* validateAuthenticatedCommitAt: the transaction clock decides.
AuthenticatedCommitAt(c) ==
    /\ c.event.at <= clock /\ clock < c.event.expires
    /\ c.event.fence # NoFence /\ c.current.lease # NoLease => clock < c.current.lease.expiresAt
    /\ c.next.lease # NoLease => clock < c.next.lease.expiresAt

\* The call returns, or its answer is lost and it is in flight still.
Answered(p) == calls' \in {[calls EXCEPT ![p] = Idle]} \cup {c \in {calls} : p \in Lossy}

\* writeActionCommitLocked
WriteActionCommit(c) ==
    /\ actions' = [actions EXCEPT ![c.action] = c.next]
    /\ events' = events @@ (c.event.id :> [action |-> c.action, snapshot |-> c.next,
                                           proof |-> NoOne, assignment |-> NoAssignment])

CommitAuthorizedTransition(p) ==
    LET c == calls[p] IN
    /\ c.path = "AUTHORIZED"
    /\ ActionUnchanged(c) /\ AuthenticatedCommitAt(c)
    /\ WriteActionCommit(c) /\ Answered(p)
    /\ UNCHANGED <<clock, assignments, dependencies, bindings, actionByAssignment, waits, answers>>

CommitExecutionTransition(p) ==
    LET c == calls[p] IN
    /\ c.path = "EXECUTION"
    /\ ActionUnchanged(c) /\ AssignmentUnchanged(c) /\ AuthenticatedCommitAt(c)
    /\ WriteActionCommit(c) /\ Answered(p)
    /\ UNCHANGED <<clock, assignments, dependencies, bindings, actionByAssignment, waits, answers>>

\* Also records the immutable wait document.
CommitDependencyWait(p) ==
    LET c == calls[p] IN
    /\ c.path = "WAIT"
    /\ ActionUnchanged(c) /\ AssignmentUnchanged(c) /\ DependenciesUnchanged(c)
    /\ \A w \in waits[c.action] : w.revision # c.next.revision
    /\ AuthenticatedCommitAt(c)
    /\ WriteActionCommit(c) /\ Answered(p)
    /\ waits' = [waits EXCEPT ![c.action] = @ \cup {DependencyWait(c.next, c.dependencies)}]
    /\ UNCHANGED <<clock, assignments, dependencies, bindings, actionByAssignment, answers>>

CommitDependencyResume(p) ==
    LET c == calls[p] IN
    /\ c.path = "RESUME"
    /\ ActionUnchanged(c) /\ AssignmentUnchanged(c) /\ DependenciesUnchanged(c)
    /\ \E w \in waits[c.action] : CurrentWait(c.current, w, c.dependencies)
    /\ AuthenticatedCommitAt(c)
    /\ WriteActionCommit(c) /\ Answered(p)
    /\ UNCHANGED <<clock, assignments, dependencies, bindings, actionByAssignment, waits, answers>>

CommitTrustedLeaseExpiry(p) ==
    LET c == calls[p] IN
    /\ c.path = "EXPIRY"
    /\ ActionUnchanged(c)
    /\ clock >= c.current.lease.expiresAt
    /\ c.event.at >= c.current.lease.expiresAt /\ c.event.at <= clock
    /\ WriteActionCommit(c) /\ Answered(p)
    /\ UNCHANGED <<clock, assignments, dependencies, bindings, actionByAssignment, waits, answers>>

\* A commit delivered again after its answer was lost.
RetryCommit(p) ==
    /\ calls[p].path \notin {"IDLE", "ACCEPT"} /\ Retried(calls[p])
    /\ UNCHANGED vars

View(id, commit) ==
    [action |-> id, assignmentID |-> bindings[id], assignment |-> commit.assignment,
     snapshot |-> commit.snapshot]

Answer(r, view) ==
    answers' = answers \cup {[event |-> r.event, proof |-> r.proof, view |-> view]}

\* Mutation: the retry is told the Action as it is now.
AcceptanceRetryCurrent(r) ==
    LET commit == events[AcceptEvent(r.event)] IN
    /\ commit.action = r.action /\ commit.snapshot.last.kind = "ACCEPT"
    /\ bindings[r.action] = r.assignment /\ commit.snapshot.policy = r.policy
    /\ commit.assignment.revision = r.revision
    /\ commit.proof = r.proof
    /\ Answer(r, View(r.action, [commit EXCEPT !.snapshot = actions[r.action]]))

\* acceptanceRetryLocked: the same acceptance event, the same business request
\* and the same proof attempt get the first View again, at any later time.
AcceptanceRetry(r) ==
    LET commit == events[AcceptEvent(r.event)] IN
    /\ commit.action = r.action /\ commit.snapshot.last.kind = "ACCEPT"
    /\ bindings[r.action] = r.assignment /\ commit.snapshot.policy = r.policy
    /\ commit.assignment.revision = r.revision
    /\ commit.proof = r.proof
    /\ Answer(r, View(r.action, commit))

Unbound(r) ==
    actionByAssignment[r.assignment] = NoOne /\ ~Exists(r.action) /\ bindings[r.action] = NoOne

CommitAcceptance(p) ==
    LET c == calls[p]
        r == calls[p].request
    IN
    /\ c.path = "ACCEPT"
    /\ UNCHANGED <<clock, assignments, dependencies, waits>>
    /\ Answered(p)
    /\ \/ /\ AcceptEvent(r.event) \in DOMAIN events
          /\ AcceptanceRetry(r)
          /\ UNCHANGED <<actions, bindings, actionByAssignment, events>>
       \/ /\ AcceptEvent(r.event) \notin DOMAIN events
          /\ assignments[r.assignment] = c.assignment
          /\ c.assignment.status = "ACCEPTED" /\ c.assignment.revision = r.revision
          /\ clock < r.expires
          /\ Unbound(r)
          /\ LET next == NewSnapshot(AcceptEvent(r.event), r.actor, r.policy, clock)
             IN  /\ actions' = [actions EXCEPT ![r.action] = next]
                 /\ events' = events @@
                      (AcceptEvent(r.event) :> [action |-> r.action, snapshot |-> next,
                                                proof |-> r.proof, assignment |-> c.assignment])
                 /\ bindings' = [bindings EXCEPT ![r.action] = r.assignment]
                 /\ actionByAssignment' = [actionByAssignment EXCEPT ![r.assignment] = r.action]
                 /\ Answer(r, [action |-> r.action, assignmentID |-> r.assignment,
                               assignment |-> c.assignment, snapshot |-> next])

Begin(p) ==
    \/ BeginAccept(p)
    \/ \E id \in {x \in ActionID : Exists(x)} :
          \/ BeginTransition(p, id) \/ BeginLeaseExpiry(p, id)
          \/ BeginDependencyWait(p, id) \/ BeginDependencyResume(p, id)

Next ==
    \/ Tick
    \/ \E s \in AssignmentID : EndAssignment(s)
    \/ \E e \in dependencies : SetDependencySatisfied(e)
    \/ SetDependencies
    \/ \E p \in Process :
          \/ Begin(p) \/ Return(p) \/ RetryCommit(p)
          \/ CommitAcceptance(p) \/ CommitAuthorizedTransition(p) \/ CommitExecutionTransition(p)
          \/ CommitDependencyWait(p) \/ CommitDependencyResume(p)
          \/ CommitTrustedLeaseExpiry(p)

Spec == Init /\ [][Next]_vars

-----------------------------------------------------------------------------
(***************************************************************************)
(* The history the store keeps, and RestoreMemoryStore on what ExportState *)
(* wrote.                                                                  *)
(***************************************************************************)

Committed(id) == {e \in DOMAIN events : events[e].action = id}

Snap(e) == events[e].snapshot

StoredHistoryValid(id) ==
    LET es == Committed(id) IN
    /\ {Snap(e).revision : e \in es} = 1 .. actions[id].revision
    /\ Cardinality(es) = actions[id].revision
    /\ \A e \in es :
         /\ Snap(e).revision = 1 => /\ Snap(e).last.kind = "ACCEPT"
                                    /\ Snap(e).policy = actions[id].policy
                                    /\ Snap(e).createdAt = actions[id].createdAt
         /\ Snap(e).revision = actions[id].revision => Snap(e) = actions[id]
         /\ \A f \in es : Snap(f).revision = Snap(e).revision + 1 =>
              Snap(f).last.from = Snap(e).last.to /\ Snap(f).last.at >= Snap(e).last.at

StoredEventValid(e) ==
    /\ Snap(e).last.event = e /\ Exists(events[e].action)
    /\ IF Snap(e).last.kind = "ACCEPT"
       THEN Snap(e).revision = 1 /\ events[e].proof # NoOne /\ events[e].assignment.status = "ACCEPTED"
       ELSE events[e].proof = NoOne
    /\ LET ws == {w \in waits[events[e].action] : w.revision = Snap(e).revision}
       IN  /\ (ws # {}) <=> (Snap(e).last.kind = "WAIT" /\ Snap(e).condition.type = "SIGNAL")
           /\ \A w \in ws : w.createdAt = Snap(e).last.at

StoredActionValid(id) ==
    /\ bindings[id] # NoOne /\ actionByAssignment[bindings[id]] = id
    /\ Valid(actions[id])
    /\ StoredHistoryValid(id)
    /\ \A w \in waits[id] : w.revision <= actions[id].revision

-----------------------------------------------------------------------------
(***************************************************************************)
(* Properties.                                                             *)
(***************************************************************************)

\* Every variable holds values of the shape the code's types have.
TypeOK ==
    /\ clock \in 0 .. MaxTime
    /\ assignments \in [AssignmentID -> [revision : 2 .. 3, status : {"ACCEPTED", "ENDED"}]]
    /\ \A id \in ActionID :
         /\ actions[id].state \in State /\ actions[id].revision \in 0 .. MaxRevision
         /\ actions[id].lease.executor \in Executor \cup {NoOne}
         /\ bindings[id] \in AssignmentID \cup {NoOne}
         /\ \A w \in waits[id] : w.revision \in 2 .. MaxRevision
    /\ actionByAssignment \in [AssignmentID -> ActionID \cup {NoOne}]
    /\ \A e \in DOMAIN events : events[e].action \in ActionID
    /\ \A p \in Process :
         calls[p].path \in {"IDLE", "ACCEPT", "AUTHORIZED", "EXECUTION", "WAIT", "RESUME", "EXPIRY"}

\* An Assignment has at most one Action, and the three tables of the join
\* agree, however acceptances race (CommitAcceptance, ASB-HC-TA-001).
OneActionPerAssignment ==
    \A id \in ActionID :
        /\ Exists(id) <=> bindings[id] # NoOne
        /\ Exists(id) => actionByAssignment[bindings[id]] = id
        /\ \A other \in ActionID : Exists(id) /\ bindings[other] = bindings[id] => other = id

\* Every caller that is told an acceptance succeeded is told the same first
\* View, also when the Action has moved on or the proof has expired since
\* (acceptanceRetryLocked).
AcceptanceAnswersAgree ==
    \A x, y \in answers :
        x.event = y.event => x.view = y.view /\ x.proof = y.proof

Acquisition(e) == Snap(e).last.kind \in {"START", "RESUME", "TAKEOVER"}

\* The executor gave the lease up: it went from a leased state to an unleased
\* one, and not because the lease expired.
Relinquished(e) ==
    /\ RequiresExecutorLease(Snap(e).last.from) /\ ~RequiresExecutorLease(Snap(e).state)
    /\ Snap(e).last.kind # "LEASE_EXPIRED"

\* Two executors never hold live leases on one Action at the same time: no two
\* leases share a fencing token, and a lease is issued after the previous holder
\* gave its own up, or after the previous lease with all its renewals had
\* expired, whatever renewals, expiry observations and takeovers race.
LeasesDoNotOverlap ==
    \A id \in ActionID : \A e, f \in {x \in Committed(id) : Acquisition(x)} :
        e # f =>
            /\ Snap(e).generation # Snap(f).generation
            /\ Snap(e).generation < Snap(f).generation =>
                 \/ \E g \in Committed(id) :
                      /\ Snap(g).revision > Snap(e).revision /\ Snap(g).revision < Snap(f).revision
                      /\ Snap(g).generation = Snap(e).generation /\ Relinquished(g)
                 \/ \A g \in Committed(id) :
                      Snap(g).lease.generation = Snap(e).generation =>
                          Snap(g).lease.expiresAt <= Snap(f).lease.issuedAt

\* What ExportState writes, RestoreMemoryStore accepts: no sequence of commits
\* leaves a durable state that a restart refuses.
RestoreAccepts ==
    /\ \A id \in {x \in ActionID : Exists(x)} : StoredActionValid(id)
    /\ \A e \in DOMAIN events : StoredEventValid(e)

\* Snapshot.Validate never refuses what Apply's switch has derived, so an event
\* the machine allows is never lost to its own consistency check
\* (minimumTransitionRevision is exact).
DerivedIsValid ==
    \A id \in {x \in ActionID : Exists(x)}, kind \in Kinds, actor \in Executor :
    \A r \in Requests(actions[id], kind, actor) : \A e \in Filled(actions[id], r) :
        Accepts(actions[id], e) => Valid(Derived(actions[id], e))

\* An event nobody's lease, Assignment or policy has to permit.
SettlingEvent(a, kind, actor) ==
    LET at == Max({clock, a.lease.expiresAt}) IN
    [id |-> AcceptEvent(0), kind |-> kind, expected |-> a.revision, at |-> at,
     actor |-> IF kind = "LEASE_EXPIRED" THEN NoOne ELSE actor, expires |-> at + 1,
     fence |-> NoFence, lease |-> NoLease, condition |-> NoCondition, checkpoint |-> 0,
     evidence |-> {"evidence"}, result |-> "NO_EFFECT"]

\* An unfinished Action is never stuck: whatever its executor, its Assignment
\* and its recovery attempts have come to, the lease monitor, a cancel request
\* or a reconciler can move it on.
NeverStuck ==
    \A id \in {x \in ActionID : Exists(x) /\ ~Terminal(actions[x].state)} :
        \E kind \in {"LEASE_EXPIRED", "REQUEST_CANCEL", "BEGIN_RECONCILIATION",
                      "RESOLVE_RECONCILIATION"}, actor \in Executor :
            Applies(actions[id], SettlingEvent(actions[id], kind, actor))

Writes(p) ==
    /\ calls[p].path \notin {"IDLE", "ACCEPT"}
    /\ actions[calls[p].action] # calls[p].next
    /\ actions'[calls[p].action] = calls[p].next

FenceHeld ==
    \A p \in Process : Writes(p) /\ calls[p].event.fence # NoFence =>
        LET a == actions[calls[p].action] IN
        a.lease # NoLease =>
            /\ calls[p].event.fence.generation = a.generation
            /\ clock < a.lease.expiresAt

\* A write that presents a lease fence lands only while that very lease is the
\* stored one and, by the store's clock, unexpired: an executor that was paused
\* or slow never changes the Action after its lease ran out or passed on
\* (requireCurrentExecutor, validateAuthenticatedCommitAt).
StaleExecutorNeverWrites == [][FenceHeld]_vars

ExecutionAuthorized ==
    \A id \in ActionID :
        /\ actions'[id].lease # actions[id].lease /\ actions'[id].lease # NoLease
        => assignments[bindings[id]].status = "ACCEPTED"

\* Execution starts, resumes, is taken over or has its lease extended only
\* while the stored Assignment is accepted: a release or revocation that lands
\* between a call's read and its commit stops the call
\* (CommitExecutionTransition).
ExecutionNeedsAssignment == [][ExecutionAuthorized]_vars

ResumedOnFacts ==
    \A id \in ActionID :
        actions[id].condition.type = "SIGNAL" /\ actions'[id].state = "RUNNING" =>
            /\ DependenciesSatisfied(dependencies)
            /\ actions[id].condition.topology = Topology(dependencies)

\* A dependency wait ends in RUNNING only when, at the commit, the stored
\* dependencies have the topology the wait was bound to and are satisfied
\* (CommitDependencyResume).
DependencyResumeIsCurrent == [][ResumedOnFacts]_vars

OutcomeKept ==
    \A id \in ActionID : Terminal(actions[id].state) => actions'[id] = actions[id]

\* A terminal outcome is never replaced, whichever of completion, failure,
\* cancellation and reconciliation race.
OutcomeIsFinal == [][OutcomeKept]_vars

\* An Action that went into a dependency wait runs again only with the
\* evidence of ResumeDependencyWait, that its dependencies were satisfied.
TopologyCheckNotBypassed ==
    \A id \in ActionID : \A e, f \in Committed(id) :
        /\ Snap(e).condition.type = "SIGNAL"
        /\ Snap(f).last.kind = "RESUME" /\ Snap(f).revision > Snap(e).revision
        /\ \A g \in Committed(id) :
              Snap(e).revision < Snap(g).revision /\ Snap(g).revision < Snap(f).revision =>
                  Snap(g).last.kind = "PAUSE"
        => Snap(f).last.evidence # {"evidence"} /\ Snap(f).last.evidence # {}
=============================================================================
