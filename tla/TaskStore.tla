------------------------------ MODULE TaskStore ------------------------------
(***************************************************************************)
(* The Assignment state machine of pkg/taskcoord (Offer, Apply, Delegate)  *)
(* and the Store it commits to (MemoryStore, which the SQLite adapter      *)
(* restores, drives and exports inside one transaction).                   *)
(*                                                                         *)
(* A caller loads a snapshot, lets the machine compute the next one and    *)
(* sends the result to the Store.  What it sends is a request; requests    *)
(* stay in the set "requests" for ever, so that a request may reach the    *)
(* Store late, after others, and any number of times: this is the caller   *)
(* that retries after a lost answer.  "acked" holds the requests the Store *)
(* has answered without an error.                                          *)
(*                                                                         *)
(* A snapshot hash is the snapshot itself.  Absent map entries are the     *)
(* value with revision 0 (assignments, events), NoDelegation or            *)
(* NoInteraction.  Task identifiers, digests, references and proofs are    *)
(* copied by the code and never decide anything here: they are left out.   *)
(***************************************************************************)
EXTENDS Naturals, Sequences, FiniteSets

CONSTANTS ParticipantID,   \* participants a caller can name
          AssignmentID,    \* assignment identifiers a caller can choose
          EventID,         \* event identifiers a caller can choose
          InteractionID,   \* interaction identifiers a caller can choose
          Time,            \* the instants a caller can put in an event
          Registrable,     \* the participant records offered for registration
          None,            \* the empty identifier
          MaxRequests      \* bound: how many requests callers prepare

ASSUME TimeAssumption == Time \subseteq Nat \ {0}
ASSUME NoneAssumption ==
  None \notin ParticipantID \cup AssignmentID \cup EventID \cup InteractionID
ASSUME RegistrableAssumption ==
  Registrable \subseteq [status : {"ACTIVE", "SUSPENDED", "REVOKED"},
                         mayDelegate : BOOLEAN]
ASSUME MaxRequestsAssumption == MaxRequests \in Nat

VARIABLES participants,       \* the registry: [status, mayDelegate]
          assignments,        \* current snapshot of every Assignment
          delegations,        \* provenance edges, by event
          events,             \* committed transitions, by event
          interactionEvents,  \* appended interaction events, by event
          interactionOrder,   \* append order of each interaction
          requests,           \* what callers have sent to the Store
          acked               \* the requests the Store answered without error

store == <<participants, assignments, delegations, events,
           interactionEvents, interactionOrder>>
vars == <<store, requests, acked>>
-----------------------------------------------------------------------------
(* The values of the model. *)

ParticipantStatus == {"ACTIVE", "SUSPENDED", "REVOKED"}
AssignmentStatus ==
  {"OFFERED", "ACCEPTED", "DECLINED", "RELEASED", "REVOKED", "FULFILLED"}
TerminalStatus == {"DECLINED", "RELEASED", "REVOKED", "FULFILLED"}
OperationKind ==
  {"OFFER", "ACCEPT", "DECLINE", "RELEASE", "REVOKE", "FULFILL", "DELEGATE"}
InteractionKind == {"QUESTION", "RESPONSE", "CORRECTION", "WITHDRAWAL"}

Participant ==
  [status : ParticipantStatus \cup {"UNREGISTERED"}, mayDelegate : BOOLEAN]

TransitionRecord ==
  [event : EventID \cup {None}, assignment : AssignmentID \cup {None},
   revision : Nat, kind : OperationKind \cup {"NONE"},
   from : AssignmentStatus \cup {"NONE"}, to : AssignmentStatus \cup {"NONE"},
   at : Nat, participant : ParticipantID \cup {None}]

Assignment ==
  [participant : ParticipantID \cup {None},
   offeredBy : ParticipantID \cup {None},
   parent : AssignmentID \cup {None},
   revision : Nat, status : AssignmentStatus \cup {"NONE"},
   createdAt : Nat, updatedAt : Nat,
   acceptedAt : Nat,                           \* 0: not accepted
   last : TransitionRecord]

Delegation ==
  [parent : AssignmentID \cup {None}, child : AssignmentID \cup {None},
   from : ParticipantID \cup {None}, to : ParticipantID \cup {None}, at : Nat]

Interaction ==
  [interaction : InteractionID \cup {None},
   assignment : AssignmentID \cup {None},
   kind : InteractionKind \cup {"NONE"},
   reply : EventID \cup {None}, supersedes : EventID \cup {None},
   participant : ParticipantID \cup {None}, at : Nat]

Request == [expected : Nat, next : Assignment, child : Assignment]

NoRecord ==
  [event |-> None, assignment |-> None, revision |-> 0, kind |-> "NONE",
   from |-> "NONE", to |-> "NONE", at |-> 0, participant |-> None]
NoAssignment ==
  [participant |-> None, offeredBy |-> None, parent |-> None, revision |-> 0,
   status |-> "NONE", createdAt |-> 0, updatedAt |-> 0, acceptedAt |-> 0,
   last |-> NoRecord]
NoDelegation ==
  [parent |-> None, child |-> None, from |-> None, to |-> None, at |-> 0]
NoInteraction ==
  [interaction |-> None, assignment |-> None, kind |-> "NONE",
   reply |-> None, supersedes |-> None, participant |-> None, at |-> 0]

Exists(snapshot) == snapshot.revision > 0
Delegated(e) == delegations[e] # NoDelegation
Appended(e) == interactionEvents[e] # NoInteraction
-----------------------------------------------------------------------------
(* The Assignment state machine. *)

\* nextStatus: what Apply may do.  A terminal status has no way out.
LifecycleStep ==
  {<<"OFFERED", "ACCEPT", "ACCEPTED">>, <<"OFFERED", "DECLINE", "DECLINED">>,
   <<"OFFERED", "REVOKE", "REVOKED">>, <<"ACCEPTED", "RELEASE", "RELEASED">>,
   <<"ACCEPTED", "REVOKE", "REVOKED">>,
   <<"ACCEPTED", "FULFILL", "FULFILLED">>}

\* allowedTransition: what a stored snapshot may say of its last transition.
AllowedTransition ==
  LifecycleStep \cup {<<"ACCEPTED", "DELEGATE", "ACCEPTED">>}

AssigneeKind == {"ACCEPT", "DECLINE", "RELEASE", "FULFILL"}

\* Assignment.Validate
ValidAssignment(a) ==
  /\ a.parent # a.last.assignment
  /\ a.revision > 0
  /\ a.status \in AssignmentStatus
  /\ 0 < a.createdAt /\ a.createdAt <= a.updatedAt
  /\ a.acceptedAt # 0 =>
       a.createdAt <= a.acceptedAt /\ a.acceptedAt <= a.updatedAt
  /\ a.status \in {"OFFERED", "DECLINED"} => a.acceptedAt = 0
  /\ a.status \in {"ACCEPTED", "RELEASED", "FULFILLED"} => a.acceptedAt # 0
  /\ a.last.revision = a.revision
  /\ a.last.to = a.status
  /\ a.last.at = a.updatedAt
  /\ IF a.revision = 1
       THEN a.last.kind = "OFFER" /\ a.last.from = "NONE"
                                  /\ a.status = "OFFERED"
       ELSE <<a.last.from, a.last.kind, a.last.to>> \in AllowedTransition
  /\ a.status = "REVOKED" =>
       /\ a.last.from = "OFFERED" => a.acceptedAt = 0
       /\ a.last.from = "ACCEPTED" => a.acceptedAt # 0

\* The snapshot that carries the record and is otherwise the current one.
Rewrite(current, record) ==
  [current EXCEPT !.revision = current.revision + 1,
                  !.status = record.to,
                  !.updatedAt = record.at,
                  !.acceptedAt = IF record.kind = "ACCEPT" THEN record.at
                                                           ELSE @,
                  !.last = record]

\* initialOfferRecord with the snapshot Offer and Delegate build around it
OfferSnapshot(e, a, p, by, parent, at) ==
  [participant |-> p, offeredBy |-> by, parent |-> parent, revision |-> 1,
   status |-> "OFFERED", createdAt |-> at, updatedAt |-> at,
   acceptedAt |-> 0,
   last |-> [event |-> e, assignment |-> a, revision |-> 1, kind |-> "OFFER",
             from |-> "NONE", to |-> "OFFERED", at |-> at,
             participant |-> by]]

\* transitionRecord, for the Assignment a whose snapshot is current
RecordOf(current, a, e, kind, to, by, at) ==
  [event |-> e, assignment |-> a, revision |-> current.revision + 1,
   kind |-> kind, from |-> current.status, to |-> to, at |-> at,
   participant |-> by]

Send(r) ==
  /\ Cardinality(requests) < MaxRequests
  /\ requests' = requests \cup {r}
  /\ UNCHANGED <<store, acked>>

\* Offer: a root Assignment for an active participant.
Offer(e, a, p, by, at) ==
  /\ participants[p].status = "ACTIVE"
  /\ ValidAssignment(OfferSnapshot(e, a, p, by, None, at))
  /\ Send([expected |-> 0, child |-> NoAssignment,
           next |-> OfferSnapshot(e, a, p, by, None, at)])

\* Apply: the snapshot is the one the Store holds when the caller loads it.
Apply(e, a, kind, by, at) ==
  LET current == assignments[a]
  IN /\ Exists(current)
     /\ at >= current.updatedAt
     /\ current.status \notin TerminalStatus
     /\ kind \in AssigneeKind => by = current.participant
     /\ \E to \in AssignmentStatus :
          /\ <<current.status, kind, to>> \in LifecycleStep
          /\ LET next == Rewrite(current,
                                 RecordOf(current, a, e, kind, to, by, at))
             IN /\ ValidAssignment(next)
                /\ Send([expected |-> current.revision, next |-> next,
                         child |-> NoAssignment])

\* Delegate: the parent keeps ACCEPTED, the child starts OFFERED, in one commit.
Delegate(e, childEvent, a, c, p, at) ==
  LET parent == assignments[a]
  IN /\ Exists(parent)
     /\ parent.status = "ACCEPTED"
     /\ participants[parent.participant] = [status |-> "ACTIVE",
                                            mayDelegate |-> TRUE]
     /\ participants[p].status = "ACTIVE"
     /\ p # parent.participant
     /\ c # a
     /\ childEvent # e
     /\ at >= parent.updatedAt
     /\ LET next == Rewrite(parent, RecordOf(parent, a, e, "DELEGATE",
                                    "ACCEPTED", parent.participant, at))
            child == OfferSnapshot(childEvent, c, p, parent.participant, a, at)
        IN /\ ValidAssignment(next)
           /\ ValidAssignment(child)
           /\ Send([expected |-> parent.revision, next |-> next,
                    child |-> child])
-----------------------------------------------------------------------------
(* The Store. *)

\* RegisterParticipant: a registered record is never replaced; registering the
\* identical record again succeeds and changes nothing.
RegisterParticipant(p, record) ==
  /\ participants[p].status = "UNREGISTERED" \/ participants[p] = record
  /\ participants' = [participants EXCEPT ![p] = record]
  /\ UNCHANGED <<assignments, delegations, events, interactionEvents,
                 interactionOrder, requests, acked>>

\* Mutation: a transition at the very instant of the last one is refused.
ValidTransitionStrict(current, next) ==
  /\ ValidAssignment(current)
  /\ ValidAssignment(next)
  /\ next.revision = current.revision + 1
  /\ next.last.from = current.status
  /\ next.last.at > current.updatedAt
  /\ next.last.kind \in AssigneeKind =>
       next.last.participant = current.participant
  /\ next = Rewrite(current, next.last)

\* ValidateAssignmentTransition
ValidTransition(current, next) ==
  /\ ValidAssignment(current)
  /\ ValidAssignment(next)
  /\ next.revision = current.revision + 1
  /\ next.last.from = current.status
  /\ next.last.at >= current.updatedAt
  /\ next.last.kind \in AssigneeKind =>
       next.last.participant = current.participant
  /\ next = Rewrite(current, next.last)

\* Mutation: the initial offer does not check that the Assignment is new.
RevisionIsUnlessInitial(a, expected) ==
  expected = 0 \/ assignments[a].revision = expected

\* The compare half of compare-and-set; 0 stands for "does not exist yet".
RevisionIs(a, expected) == assignments[a].revision = expected

\* Exact retry: the event was committed with this very snapshot.
Committed(snapshot) == events[snapshot.last.event] = snapshot

\* An identifier nobody has used, neither for a transition nor an interaction.
Unused(e) == ~Exists(events[e]) /\ ~Appended(e)

\* CommitAssignment
CommitAssignment(r) ==
  LET e == r.next.last.event
      a == r.next.last.assignment
  IN /\ r.child = NoAssignment
     /\ ValidAssignment(r.next)
     /\ r.next.revision = r.expected + 1
     /\ r.expected # 0 => r.next.last.kind # "DELEGATE"
     /\ ~Appended(e)
     /\ \/ /\ Committed(r.next)
           /\ UNCHANGED <<assignments, events>>
        \/ /\ Unused(e)
           /\ RevisionIs(a, r.expected)
           /\ r.expected # 0 => ValidTransition(assignments[a], r.next)
           /\ assignments' = [assignments EXCEPT ![a] = r.next]
           /\ events' = [events EXCEPT ![e] = r.next]
     /\ acked' = acked \cup {r}
     /\ UNCHANGED <<participants, delegations, interactionEvents,
                    interactionOrder, requests>>

DelegationOf(r) ==
  [parent |-> r.next.last.assignment, child |-> r.child.last.assignment,
   from |-> r.next.participant, to |-> r.child.participant,
   at |-> r.next.last.at]

\* validateDelegationTransition
ValidDelegation(expected, next, child, edge) ==
  /\ ValidAssignment(next) /\ ValidAssignment(child)
  /\ next.revision = expected + 1 /\ child.revision = 1
  /\ next.status = "ACCEPTED" /\ next.last.kind = "DELEGATE"
  /\ next.last.from = "ACCEPTED"
  /\ edge.parent = next.last.assignment
  /\ edge.child = child.last.assignment
  /\ edge.parent # edge.child
  /\ child.parent = next.last.assignment
  /\ edge.from = next.participant /\ edge.to = child.participant
  /\ edge.from # edge.to
  /\ child.offeredBy = next.participant
  /\ next.last.participant = next.participant
  /\ child.last.participant = next.participant
  /\ edge.at = next.last.at /\ edge.at = child.createdAt
                            /\ edge.at = child.updatedAt
  /\ next.last.event # child.last.event

\* What CommitDelegation writes: both snapshots, both events and the edge.
WriteDelegation(r) ==
  /\ assignments' = [assignments EXCEPT ![r.next.last.assignment] = r.next,
                                        ![r.child.last.assignment] = r.child]
  /\ events' = [events EXCEPT ![r.next.last.event] = r.next,
                              ![r.child.last.event] = r.child]
  /\ delegations' = [delegations EXCEPT ![r.next.last.event] = DelegationOf(r)]

\* Mutation: an existing Assignment may become the child.
ChildMayExist(r) == ~Delegated(r.next.last.event)

ChildIsFree(r) ==
  /\ ~Exists(assignments[r.child.last.assignment])
  /\ ~Delegated(r.next.last.event)

\* CommitDelegation
CommitDelegation(r) ==
  LET e == r.next.last.event
      a == r.next.last.assignment
  IN /\ r.child # NoAssignment
     /\ ValidDelegation(r.expected, r.next, r.child, DelegationOf(r))
     /\ ~Appended(e) /\ ~Appended(r.child.last.event)
     /\ \/ /\ Committed(r.next) /\ Committed(r.child)
           /\ delegations[e] = DelegationOf(r)
           /\ UNCHANGED <<assignments, events, delegations>>
        \/ /\ Unused(e) /\ Unused(r.child.last.event)
           /\ RevisionIs(a, r.expected)
           /\ ValidTransition(assignments[a], r.next)
           /\ ChildIsFree(r)
           /\ WriteDelegation(r)
     /\ acked' = acked \cup {r}
     /\ UNCHANGED <<participants, interactionEvents, interactionOrder,
                    requests>>
-----------------------------------------------------------------------------
(* Interactions. *)

\* InteractionEvent.Validate: which relations each kind has.
ValidInteraction(e, x) ==
  /\ x.reply # e /\ x.supersedes # e
  /\ x.kind = "QUESTION" => x.supersedes = None
  /\ x.kind = "RESPONSE" => x.reply # None /\ x.supersedes = None
  /\ x.kind \in {"CORRECTION", "WITHDRAWAL"} =>
       x.reply # None /\ x.supersedes # None /\ x.reply # x.supersedes

SameContext(x, y) ==
  x.interaction = y.interaction /\ x.assignment = y.assignment

\* Mutation: anybody may correct or withdraw a response.
AnybodySupersedes(x, old) ==
  /\ SameContext(x, old)
  /\ old.reply = x.reply
  /\ x.at >= old.at
  /\ old.kind \in {"RESPONSE", "CORRECTION"}

\* The response or correction that x corrects or withdraws.
MaySupersede(x, old) ==
  /\ SameContext(x, old)
  /\ old.reply = x.reply
  /\ x.at >= old.at
  /\ old.kind \in {"RESPONSE", "CORRECTION"}
  /\ old.participant = x.participant

\* validateInteractionRelations, against the events "earlier" of the log and
\* with hasRoot telling whether the interaction already has an event.
ValidRelations(x, earlier, hasRoot) ==
  IF x.kind = "QUESTION" /\ x.reply = None
  THEN ~hasRoot
  ELSE LET target == interactionEvents[x.reply]
       IN /\ x.reply \in earlier
          /\ SameContext(x, target)
          /\ x.at >= target.at
          /\ x.kind = "QUESTION" => target.kind \in {"RESPONSE", "CORRECTION"}
          /\ x.kind # "QUESTION" => target.kind = "QUESTION"
          /\ x.kind \in {"CORRECTION", "WITHDRAWAL"} =>
               /\ x.supersedes \in earlier
               /\ MaySupersede(x, interactionEvents[x.supersedes])

AppendedEvents == {e \in EventID : Appended(e)}

\* AppendInteractionEvent.  The second case is the identical retry.
AppendInteractionEvent(e, x) ==
  /\ ValidInteraction(e, x)
  /\ \/ /\ Unused(e)
        /\ Exists(assignments[x.assignment])
        /\ participants[x.participant].status = "ACTIVE"
        /\ ValidRelations(x, AppendedEvents,
                          interactionOrder[x.interaction] # <<>>)
        /\ interactionEvents' = [interactionEvents EXCEPT ![e] = x]
        /\ interactionOrder' = [interactionOrder EXCEPT
                                  ![x.interaction] = Append(@, e)]
     \/ /\ interactionEvents[e] = x
        /\ UNCHANGED <<interactionEvents, interactionOrder>>
  /\ UNCHANGED <<participants, assignments, delegations, events,
                 requests, acked>>

InteractionInput ==
  [interaction : InteractionID, assignment : AssignmentID,
   kind : InteractionKind, reply : EventID \cup {None},
   supersedes : EventID \cup {None}, participant : ParticipantID, at : Time]
-----------------------------------------------------------------------------
Init ==
  /\ participants = [p \in ParticipantID |->
                       [status |-> "UNREGISTERED", mayDelegate |-> FALSE]]
  /\ assignments = [a \in AssignmentID |-> NoAssignment]
  /\ delegations = [e \in EventID |-> NoDelegation]
  /\ events = [e \in EventID |-> NoAssignment]
  /\ interactionEvents = [e \in EventID |-> NoInteraction]
  /\ interactionOrder = [i \in InteractionID |-> <<>>]
  /\ requests = {}
  /\ acked = {}

Next ==
  \/ \E p \in ParticipantID, record \in Registrable :
       RegisterParticipant(p, record)
  \/ \E e \in EventID, a \in AssignmentID, p, by \in ParticipantID, t \in Time :
       Offer(e, a, p, by, t)
  \/ \E e \in EventID, a \in AssignmentID, k \in OperationKind,
        by \in ParticipantID, t \in Time : Apply(e, a, k, by, t)
  \/ \E e, ce \in EventID, a, c \in AssignmentID, p \in ParticipantID,
        t \in Time : Delegate(e, ce, a, c, p, t)
  \/ \E r \in requests : CommitAssignment(r)
  \/ \E r \in requests : CommitDelegation(r)
  \/ \E e \in EventID, x \in InteractionInput : AppendInteractionEvent(e, x)

Spec == Init /\ [][Next]_vars
-----------------------------------------------------------------------------
(* ExportState and RestoreMemoryStore: what a restart checks before it      *)
(* takes an exported state back.                                           *)

History(a) == {e \in EventID : Exists(events[e])
                               /\ events[e].last.assignment = a}

\* acceptedAt as the replay has it after revision n of a
AcceptedBy(a, n) ==
  LET accepts == {e \in History(a) : events[e].last.kind = "ACCEPT"
                                     /\ events[e].last.revision <= n}
  IN IF accepts = {} THEN 0
     ELSE events[CHOOSE e \in accepts :
                   \A f \in accepts : events[f].last.revision
                                        <= events[e].last.revision].last.at

\* The snapshot the replay rebuilds from the current one and the record of e.
Rebuilt(a, e) ==
  LET record == events[e].last
  IN [assignments[a] EXCEPT !.revision = record.revision,
                            !.status = record.to,
                            !.updatedAt = record.at,
                            !.acceptedAt = AcceptedBy(a, record.revision),
                            !.last = record]

\* validateStoredAssignments, for one Assignment
HistoryAccepted(a) ==
  /\ assignments[a].last.assignment = a
  /\ Cardinality(History(a)) = assignments[a].revision
  /\ {events[e].revision : e \in History(a)} = 1 .. assignments[a].revision
  /\ \A e \in History(a) :
       /\ Rebuilt(a, e) = events[e]
       /\ ValidAssignment(events[e])
       /\ events[e].revision = assignments[a].revision =>
            events[e] = assignments[a]
       /\ \A f \in History(a) :
            events[f].revision = events[e].revision + 1 =>
              ValidTransition(events[e], events[f])

\* validateStoredAssignments, for one delegation edge
EdgeAccepted(d) ==
  LET edge == delegations[d]
  IN /\ Exists(events[d]) /\ events[d].revision >= 2
     /\ \E c \in History(edge.child) :
          /\ events[c].revision = 1
          /\ ValidDelegation(events[d].revision - 1, events[d], events[c], edge)

\* RestoreMemoryStore: the replay of one interaction
InteractionAccepted(i) ==
  LET order == interactionOrder[i]
  IN \A n \in 1 .. Len(order) :
       LET x == interactionEvents[order[n]]
           earlier == {order[m] : m \in 1 .. n - 1}
       IN /\ Appended(order[n])
          /\ order[n] \notin earlier
          /\ ~Exists(events[order[n]])
          /\ x.interaction = i
          /\ Exists(assignments[x.assignment])
          /\ participants[x.participant].status # "UNREGISTERED"
          /\ ValidInteraction(order[n], x)
          /\ ValidRelations(x, earlier, n > 1)

RestoreAccepts ==
  /\ \A e \in EventID : Exists(events[e]) =>
       /\ events[e].last.event = e
       /\ Exists(assignments[events[e].last.assignment])
       /\ events[e].last.kind = "DELEGATE" => Delegated(e)
  /\ \A a \in AssignmentID : Exists(assignments[a]) => HistoryAccepted(a)
  /\ \A d \in EventID : Delegated(d) => EdgeAccepted(d)
  /\ \A i \in InteractionID : InteractionAccepted(i)
  /\ AppendedEvents = UNION {{interactionOrder[i][n] :
                                n \in 1 .. Len(interactionOrder[i])} :
                              i \in InteractionID}
-----------------------------------------------------------------------------
(* Properties. *)

TypeOK ==
  /\ participants \in [ParticipantID -> Participant]
  /\ assignments \in [AssignmentID -> Assignment]
  /\ delegations \in [EventID -> Delegation]
  /\ events \in [EventID -> Assignment]
  /\ interactionEvents \in [EventID -> Interaction]
  /\ interactionOrder \in [InteractionID -> Seq(EventID)]
  /\ requests \subseteq Request
  /\ acked \subseteq requests

\* Two callers that started from the same revision of an Assignment are never
\* both told that their change was committed, unless it is the same change:
\* the compare-and-set of CommitAssignment and CommitDelegation loses no update,
\* whatever the order, delay and repetition of the calls.
OneWinnerPerRevision ==
  \A r, q \in acked :
    (/\ r.next.last.assignment = q.next.last.assignment
     /\ r.expected = q.expected) => r.next = q.next

\* A commit the Store has acknowledged stays in the event log as it was sent,
\* with its child and its edge when it is a delegation: no later commit, retry
\* or interaction with a reused event identifier replaces it.
AckedIsDurable ==
  \A r \in acked :
    /\ Committed(r.next)
    /\ r.child # NoAssignment =>
         /\ Committed(r.child)
         /\ delegations[r.next.last.event] = DelegationOf(r)

\* The machine and the Store agree: a request that the machine prepared is
\* never refused by ValidateAssignmentTransition when the revision still is the
\* one the caller loaded, however many other requests came in between.
PreparedIsAcceptable ==
  \A r \in requests :
    LET a == r.next.last.assignment
    IN r.expected # 0 /\ RevisionIs(a, r.expected) =>
         ValidTransition(assignments[a], r.next)

\* A delegated Assignment, its parent and the edge between them appear
\* together: an Assignment has a parent iff exactly one stored edge leads to it,
\* the edge comes from that parent, was made by the parent's assignee, and the
\* parent had been accepted by then (CommitDelegation is all or nothing).
DelegationIsAtomic ==
  \A c \in AssignmentID :
    LET edges == {d \in EventID : Delegated(d) /\ delegations[d].child = c}
    IN /\ Exists(assignments[c]) /\ assignments[c].parent # None =>
            \E d \in edges :
              LET parent == assignments[assignments[c].parent]
              IN /\ edges = {d}
                 /\ delegations[d].parent = assignments[c].parent
                 /\ delegations[d].from = parent.participant
                 /\ parent.acceptedAt # 0
                 /\ parent.acceptedAt <= assignments[c].createdAt
       /\ edges # {} => Exists(assignments[c]) /\ assignments[c].parent # None

\* No chain of delegations comes back to where it started: every non-empty set
\* of Assignments has one whose parent is outside the set.
DelegationIsAcyclic ==
  \A S \in SUBSET AssignmentID :
    S # {} => \E a \in S : assignments[a].parent \notin S

\* A restart never fails on what the Store exported: in every state the
\* histories, the edges and the interactions pass the replay of
\* RestoreMemoryStore (no gap in revisions, every snapshot rebuilt exactly).
ExportIsRestorable == RestoreAccepts

\* All events of an interaction are about one Assignment, a root question opens
\* it and no other event is one, and a chain of corrections and withdrawals
\* under a question has a single author (validateInteractionRelations looks
\* only one step back).
InteractionLineage ==
  \A i \in InteractionID :
    LET order == interactionOrder[i]
    IN \A n \in 1 .. Len(order) :
         LET x == interactionEvents[order[n]]
         IN /\ x.assignment = interactionEvents[order[1]].assignment
            /\ x.reply = None <=> n = 1
            /\ x.supersedes # None =>
                 \E m \in 1 .. n - 1 :
                   LET y == interactionEvents[order[m]]
                   IN /\ y.kind = "RESPONSE" /\ y.reply = x.reply
                      /\ y.participant = x.participant /\ y.at <= x.at

\* An Assignment that has reached a terminal status keeps its last snapshot
\* (no late ACCEPT after a REVOKE, no DELEGATE after a RELEASE).
TerminalKept ==
  \A a \in AssignmentID :
    assignments[a].status \in TerminalStatus => assignments'[a] = assignments[a]
TerminalIsFinal == [][TerminalKept]_vars

\* Who is assigned, by whom, under which parent and since when never changes
\* once an Assignment exists, and its history and its interactions only grow.
IdentityKept ==
  /\ \A a \in AssignmentID : Exists(assignments[a]) =>
       /\ assignments'[a].participant = assignments[a].participant
       /\ assignments'[a].offeredBy = assignments[a].offeredBy
       /\ assignments'[a].parent = assignments[a].parent
       /\ assignments'[a].createdAt = assignments[a].createdAt
       /\ assignments'[a].revision >= assignments[a].revision
  /\ \A e \in EventID :
       /\ Exists(events[e]) => events'[e] = events[e]
       /\ Delegated(e) => delegations'[e] = delegations[e]
       /\ Appended(e) => interactionEvents'[e] = interactionEvents[e]
IdentityIsImmutable == [][IdentityKept]_vars
-----------------------------------------------------------------------------
(* The inductive invariant behind them. *)

\* A request names what it changes, and was prepared from a revision that the
\* Assignment has had; only an offer without a parent starts from nothing.
RequestsWellFormed ==
  \A r \in requests :
    /\ r.next.last.event \in EventID
    /\ r.next.last.assignment \in AssignmentID
    /\ r.next.revision = r.expected + 1
    /\ r.expected <= assignments[r.next.last.assignment].revision
    /\ r.child # NoAssignment => /\ r.child.last.event \in EventID
                                /\ r.child.last.assignment \in AssignmentID
    /\ r.expected = 0 => r.child = NoAssignment /\ r.next.parent = None

\* A stored Assignment is valid, stored under its name, and its parent exists.
AssignmentsWellFormed ==
  \A a \in AssignmentID :
    IF Exists(assignments[a])
    THEN /\ ValidAssignment(assignments[a])
         /\ assignments[a].last.assignment = a
         /\ assignments[a].parent # None =>
              /\ assignments[a].parent \in AssignmentID
              /\ Exists(assignments[assignments[a].parent])
    ELSE assignments[a] = NoAssignment

\* A committed event is stored under its name, with a revision that its
\* Assignment has reached.
EventsWellFormed ==
  \A e \in EventID :
    Exists(events[e]) =>
      /\ events[e].last.event = e
      /\ events[e].last.assignment \in AssignmentID
      /\ events[e].revision <= assignments[events[e].last.assignment].revision

\* No two committed events made the same revision of an Assignment.
RevisionsAreUnique ==
  \A e, f \in EventID :
    (/\ Exists(events[e]) /\ Exists(events[f])
     /\ events[e].last.assignment = events[f].last.assignment
     /\ events[e].revision = events[f].revision) => e = f

\* The child of an acknowledged delegation is a first offer.
AckedChildren ==
  \A r \in acked : r.child # NoAssignment => r.child.revision = 1

IndInv ==
  /\ TypeOK
  /\ RequestsWellFormed
  /\ AssignmentsWellFormed
  /\ EventsWellFormed
  /\ RevisionsAreUnique
  /\ AckedChildren
  /\ AckedIsDurable
  /\ PreparedIsAcceptable
  /\ DelegationIsAcyclic
=============================================================================
