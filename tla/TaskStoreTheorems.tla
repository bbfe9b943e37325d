------------------------- MODULE TaskStoreTheorems -------------------------
(***************************************************************************)
(* What holds of TaskStore for all sets of participants, Assignments,      *)
(* events, interactions and instants.                                      *)
(***************************************************************************)
EXTENDS TaskStore, TLAPS

-----------------------------------------------------------------------------
(* Types, and why a caller's step (Offer, Apply, Delegate) keeps the          *)
(* inductive invariant: what it prepares is acceptable.                       *)

\* The placeholders of absent map entries have the types of the entries.
LEMMA AbsentType ==
  /\ NoRecord \in TransitionRecord
  /\ NoAssignment \in Assignment
  /\ NoDelegation \in Delegation
  /\ NoInteraction \in Interaction
BY Zenon DEF NoRecord, NoAssignment, NoDelegation, NoInteraction, TransitionRecord,
       Assignment, Delegation, Interaction

\* The snapshot of a first offer (Offer, Delegate) is an Assignment.
LEMMA OfferSnapshotType ==
  ASSUME NEW e \in EventID, NEW a \in AssignmentID, NEW p \in ParticipantID,
         NEW by \in ParticipantID, NEW parent \in AssignmentID \cup {None},
         NEW at \in Nat
  PROVE  OfferSnapshot(e, a, p, by, parent, at) \in Assignment
BY Zenon DEF OfferSnapshot, Assignment, TransitionRecord, OperationKind,
       AssignmentStatus

\* The record of a transition is a TransitionRecord.
LEMMA RecordOfType ==
  ASSUME NEW current \in Assignment, NEW a \in AssignmentID,
         NEW e \in EventID, NEW kind \in OperationKind,
         NEW to \in AssignmentStatus,
         NEW by \in ParticipantID \cup {None}, NEW at \in Nat
  PROVE  RecordOf(current, a, e, kind, to, by, at) \in TransitionRecord
BY DEF RecordOf, Assignment, TransitionRecord

\* Applying a record to an Assignment gives an Assignment.
LEMMA RewriteType ==
  ASSUME NEW current \in Assignment, NEW record \in TransitionRecord
  PROVE  Rewrite(current, record) \in Assignment
<1> DEFINE accepted == IF record.kind = "ACCEPT" THEN record.at
                                                 ELSE current.acceptedAt
<1>1. /\ record.to \in AssignmentStatus \cup {"NONE"}
      /\ record.at \in Nat
  BY Zenon DEF TransitionRecord
<1>2. /\ current.acceptedAt \in Nat
      /\ current.revision + 1 \in Nat
  BY DEF Assignment
<1>3. accepted \in Nat
  BY Zenon, <1>1, <1>2
<1>4. Rewrite(current, record) =
        [current EXCEPT !.revision = current.revision + 1,
                        !.status = record.to,
                        !.updatedAt = record.at,
                        !.acceptedAt = accepted,
                        !.last = record]
  BY Zenon DEF Rewrite
<1> HIDE DEF accepted
<1> QED
  BY Zenon, <1>1, <1>2, <1>3, <1>4 DEF Assignment

\* What an edge records are identifiers of its two Assignments.
LEMMA DelegationOfType ==
  ASSUME NEW r \in Request
  PROVE  DelegationOf(r) \in Delegation
BY Zenon DEF Request, DelegationOf, Delegation, Assignment, TransitionRecord

\* One step keeps the types.
LEMMA TypeStep == TypeOK /\ [Next]_vars => TypeOK'
<1> SUFFICES ASSUME TypeOK, [Next]_vars
             PROVE  TypeOK'
  BY Zenon
<1>1. ASSUME NEW p \in ParticipantID, NEW record \in Registrable,
             RegisterParticipant(p, record)
      PROVE  TypeOK'
  BY Zenon, <1>1, RegistrableAssumption
  DEF RegisterParticipant, TypeOK, Participant, ParticipantStatus
<1>2. ASSUME NEW r \in Request, Send(r)
      PROVE  TypeOK'
  BY Zenon, <1>2 DEF Send, TypeOK, store
<1>3. ASSUME NEW e \in EventID, NEW a \in AssignmentID,
             NEW p \in ParticipantID, NEW by \in ParticipantID,
             NEW t \in Time, Offer(e, a, p, by, t)
      PROVE  TypeOK'
  <2>1. OfferSnapshot(e, a, p, by, None, t) \in Assignment
    BY Zenon, OfferSnapshotType, TimeAssumption
  <2>2. [expected |-> 0, child |-> NoAssignment,
         next |-> OfferSnapshot(e, a, p, by, None, t)] \in Request
    BY Zenon, <2>1, AbsentType DEF Request
  <2> QED
    BY Zenon, <1>2, <1>3, <2>2 DEF Offer
<1>4. ASSUME NEW e \in EventID, NEW a \in AssignmentID,
             NEW k \in OperationKind, NEW by \in ParticipantID,
             NEW t \in Time, Apply(e, a, k, by, t)
      PROVE  TypeOK'
  <2>1. assignments[a] \in Assignment
    BY Zenon DEF TypeOK
  <2>2. PICK to \in AssignmentStatus :
          Send([expected |-> assignments[a].revision,
                next |-> Rewrite(assignments[a],
                           RecordOf(assignments[a], a, e, k, to, by, t)),
                child |-> NoAssignment])
    BY Zenon, <1>4 DEF Apply
  <2>3. Rewrite(assignments[a], RecordOf(assignments[a], a, e, k, to, by, t))
          \in Assignment
    BY Zenon, <2>1, RecordOfType, RewriteType, TimeAssumption
  <2>4. assignments[a].revision \in Nat
    BY Zenon, <2>1 DEF Assignment
  <2> QED
    BY Zenon, <1>2, <2>2, <2>3, <2>4, AbsentType DEF Request
<1>5. ASSUME NEW e \in EventID, NEW ce \in EventID, NEW a \in AssignmentID,
             NEW c \in AssignmentID, NEW p \in ParticipantID, NEW t \in Time,
             Delegate(e, ce, a, c, p, t)
      PROVE  TypeOK'
  <2> DEFINE by == assignments[a].participant
             next == Rewrite(assignments[a],
                       RecordOf(assignments[a], a, e, "DELEGATE",
                                "ACCEPTED", by, t))
             child == OfferSnapshot(ce, c, p, by, a, t)
  <2>1. assignments[a] \in Assignment
    BY Zenon DEF TypeOK
  <2>2. by \in ParticipantID \cup {None} /\ assignments[a].revision \in Nat
    BY Zenon, <2>1 DEF Assignment
  <2>3. next \in Assignment
    BY Zenon, <2>1, <2>2, RecordOfType, RewriteType, TimeAssumption
    DEF OperationKind, AssignmentStatus
  <2>4. child \in Assignment
    BY Zenon, <2>2, TimeAssumption
    DEF OfferSnapshot, Assignment, TransitionRecord, OperationKind,
        AssignmentStatus
  <2>5. Send([expected |-> assignments[a].revision, next |-> next,
              child |-> child])
    BY Zenon, <1>5 DEF Delegate
  <2> HIDE DEF next, child
  <2> QED
    BY Zenon, <1>2, <2>2, <2>3, <2>4, <2>5 DEF Request
<1>6. ASSUME NEW r \in requests, CommitAssignment(r)
      PROVE  TypeOK'
  <2>1. r \in Request /\ r.next \in Assignment
    BY Zenon DEF TypeOK, Request
  <2>2. /\ assignments' \in [AssignmentID -> Assignment]
        /\ events' \in [EventID -> Assignment]
    BY Zenon, <1>6, <2>1 DEF CommitAssignment, TypeOK
  <2> QED
    BY Zenon, <1>6, <2>2 DEF CommitAssignment, TypeOK
<1>7. ASSUME NEW r \in requests, CommitDelegation(r)
      PROVE  TypeOK'
  <2>1. r \in Request /\ r.next \in Assignment /\ r.child \in Assignment
    BY Zenon DEF TypeOK, Request
  <2>2. /\ assignments' \in [AssignmentID -> Assignment]
        /\ events' \in [EventID -> Assignment]
        /\ delegations' \in [EventID -> Delegation]
    <3>1. CASE UNCHANGED <<assignments, events, delegations>>
      BY Zenon, <3>1 DEF TypeOK
    <3>2. CASE WriteDelegation(r)
      <4>1. assignments' \in [AssignmentID -> Assignment] /\ events' \in [EventID -> Assignment]
        BY Zenon, <2>1, <3>2 DEF WriteDelegation, TypeOK
      <4>2. delegations' \in [EventID -> Delegation]
        BY Zenon, <1>7, <2>1, <3>2, DelegationOfType DEF CommitDelegation, WriteDelegation, TypeOK
      <4> QED
        BY Zenon, <4>1, <4>2
    <3> QED
      BY Zenon, <1>7, <3>1, <3>2 DEF CommitDelegation
  <2> QED
    BY Zenon, <1>7, <2>2 DEF CommitDelegation, TypeOK
<1>8. ASSUME NEW e \in EventID, NEW x \in InteractionInput,
             AppendInteractionEvent(e, x)
      PROVE  TypeOK'
  <2>1. x \in Interaction
    BY Zenon, TimeAssumption DEF InteractionInput, Interaction
  <2>2. x.interaction \in InteractionID
    BY Zenon DEF InteractionInput
  <2>3. interactionEvents' \in [EventID -> Interaction]
    BY <1>8, <2>1 DEF AppendInteractionEvent, TypeOK
  <2>4. Append(interactionOrder[x.interaction], e) \in Seq(EventID)
    BY <2>2 DEF TypeOK
  <2>5. interactionOrder' \in [InteractionID -> Seq(EventID)]
    BY Zenon, <1>8, <2>4 DEF AppendInteractionEvent, TypeOK
  <2> QED
    BY Zenon, <1>8, <2>3, <2>5 DEF AppendInteractionEvent, TypeOK
<1>9. CASE UNCHANGED vars
  BY Zenon, <1>9 DEF TypeOK, vars, store
<1> QED
  BY Zenon, <1>1, <1>3, <1>4, <1>5, <1>6, <1>7, <1>8, <1>9 DEF Next

\* Every variable of the Store keeps its type in every reachable state.
THEOREM TypeCorrect == Spec => []TypeOK
<1>1. Init => TypeOK
  BY AbsentType DEF Init, TypeOK, Participant
<1> QED
  BY <1>1, TypeStep, PTL DEF Spec
-----------------------------------------------------------------------------
(* The inductive invariant, one lemma per kind of step. *)

\* What a rewritten snapshot has from the current one and from the record.
LEMMA RewriteFields ==
  ASSUME NEW current \in Assignment, NEW record \in TransitionRecord
  PROVE  /\ Rewrite(current, record).last = record
         /\ Rewrite(current, record).revision = current.revision + 1
         /\ Rewrite(current, record).status = record.to
         /\ Rewrite(current, record).participant = current.participant
         /\ Rewrite(current, record).offeredBy = current.offeredBy
         /\ Rewrite(current, record).parent = current.parent
         /\ Rewrite(current, record).createdAt = current.createdAt
BY Zenon DEF Rewrite, Assignment

\* The initial state satisfies the invariant.
LEMMA InitInvariant == Init => IndInv
<1> SUFFICES ASSUME Init PROVE IndInv
  BY Zenon
<1>1. TypeOK
  BY AbsentType DEF Init, TypeOK, Participant
<1>2. NoAssignment.revision = 0 /\ NoAssignment.parent = None
  BY Zenon DEF NoAssignment
<1>3. DelegationIsAcyclic
  BY Zenon, <1>2, NoneAssumption DEF Init, DelegationIsAcyclic
<1> QED
  BY <1>1, <1>2, <1>3
  DEF Init, IndInv, RequestsWellFormed, AssignmentsWellFormed,
      EventsWellFormed, RevisionsAreUnique, AckedChildren, AckedIsDurable,
      PreparedIsAcceptable, Exists

\* A step that leaves Assignments, events, edges and requests alone.
LEMMA QuietStep ==
  ASSUME IndInv, TypeOK',
         UNCHANGED <<assignments, delegations, events, requests, acked>>
  PROVE  IndInv'
<1>1. (/\ RequestsWellFormed /\ AssignmentsWellFormed /\ EventsWellFormed
       /\ RevisionsAreUnique /\ AckedChildren)'
  BY DEF IndInv, RequestsWellFormed, AssignmentsWellFormed, EventsWellFormed,
         RevisionsAreUnique, AckedChildren, Exists
<1>2. (AckedIsDurable /\ PreparedIsAcceptable /\ DelegationIsAcyclic)'
  BY Zenon DEF IndInv, AckedIsDurable, PreparedIsAcceptable, DelegationIsAcyclic,
         Committed, RevisionIs
<1> QED
  BY Zenon, <1>1, <1>2 DEF IndInv

\* A caller prepares a request that is well formed and acceptable.
LEMMA SendStep ==
  ASSUME IndInv, TypeOK', NEW r \in Request, Send(r),
         r.next.last.event \in EventID,
         r.next.last.assignment \in AssignmentID,
         r.next.revision = r.expected + 1,
         r.expected = 0 \/ r.expected =
                             assignments[r.next.last.assignment].revision,
         r.child # NoAssignment =>
           r.child.last.event \in EventID
             /\ r.child.last.assignment \in AssignmentID,
         r.expected = 0 => r.child = NoAssignment /\ r.next.parent = None,
         r.expected # 0 =>
           ValidTransition(assignments[r.next.last.assignment], r.next)
  PROVE  IndInv'
<1>1. /\ requests' = requests \cup {r}
      /\ UNCHANGED <<assignments, delegations, events, acked>>
  BY Zenon DEF Send, store
<1>2. \A a \in AssignmentID : assignments[a].revision \in Nat
  BY Zenon DEF IndInv, TypeOK, Assignment
<1>3. RequestsWellFormed'
  BY <1>1, <1>2 DEF IndInv, RequestsWellFormed
<1>4. (/\ AssignmentsWellFormed /\ EventsWellFormed
       /\ RevisionsAreUnique /\ AckedChildren)'
  BY Zenon, <1>1 DEF IndInv, AssignmentsWellFormed, EventsWellFormed,
         RevisionsAreUnique, AckedChildren, Exists
<1>5. (AckedIsDurable /\ DelegationIsAcyclic)'
  BY Zenon, <1>1 DEF IndInv, AckedIsDurable, DelegationIsAcyclic, Committed
<1>6. PreparedIsAcceptable'
  BY Zenon, <1>1 DEF IndInv, PreparedIsAcceptable, RevisionIs
<1> QED
  BY Zenon, <1>3, <1>4, <1>5, <1>6 DEF IndInv

\* Offer prepares an acceptable request.
LEMMA OfferStep ==
  ASSUME IndInv, TypeOK', NEW e \in EventID, NEW a \in AssignmentID,
         NEW p \in ParticipantID, NEW by \in ParticipantID, NEW t \in Time,
         Offer(e, a, p, by, t)
  PROVE  IndInv'
<1> DEFINE next == OfferSnapshot(e, a, p, by, None, t)
           r == [expected |-> 0, child |-> NoAssignment, next |-> next]
<1>1. next \in Assignment
  BY Zenon, OfferSnapshotType, TimeAssumption
<1>2. r \in Request
  BY Zenon, <1>1, AbsentType DEF Request
<1>3. /\ next.last.event = e /\ next.last.assignment = a
      /\ next.revision = 1 /\ next.parent = None
  BY Zenon DEF OfferSnapshot
<1>4. Send(r)
  BY Zenon DEF Offer
<1> HIDE DEF next
<1> QED
  BY <1>2, <1>3, <1>4, SendStep

\* What Apply and Delegate prepare is a valid transition of what they loaded.
LEMMA PreparedTransition ==
  ASSUME IndInv, NEW e \in EventID, NEW a \in AssignmentID,
         NEW kind \in OperationKind, NEW to \in AssignmentStatus,
         NEW by \in ParticipantID \cup {None}, NEW at \in Nat,
         Exists(assignments[a]), at >= assignments[a].updatedAt,
         kind \in AssigneeKind => by = assignments[a].participant,
         ValidAssignment(Rewrite(assignments[a],
           RecordOf(assignments[a], a, e, kind, to, by, at)))
  PROVE  LET current == assignments[a]
             next == Rewrite(current,
                             RecordOf(current, a, e, kind, to, by, at))
         IN /\ next \in Assignment
            /\ next.last.event = e /\ next.last.assignment = a
            /\ next.revision = current.revision + 1
            /\ current.revision \in Nat /\ current.revision # 0
            /\ ValidTransition(current, next)
<1> DEFINE current == assignments[a]
           record == RecordOf(current, a, e, kind, to, by, at)
           next == Rewrite(current, record)
<1>1. current \in Assignment /\ ValidAssignment(current)
  BY DEF IndInv, TypeOK, AssignmentsWellFormed
<1>2. current.revision \in Nat /\ current.revision # 0
  BY <1>1 DEF Assignment, Exists
<1>3. record \in TransitionRecord
  BY Zenon, <1>1, RecordOfType
<1>4. /\ record.event = e /\ record.assignment = a
      /\ record.from = current.status /\ record.kind = kind
      /\ record.at = at /\ record.participant = by
  BY Zenon DEF RecordOf
<1>5. next \in Assignment /\ next.last = record
        /\ next.revision = current.revision + 1
  BY Zenon, <1>1, <1>3, RewriteType, RewriteFields
<1>6. ValidAssignment(next)
  BY Zenon
<1>7. next = Rewrite(current, next.last)
  BY Zenon, <1>5
<1> HIDE DEF record, next, current
<1>8. at >= current.updatedAt /\ (kind \in AssigneeKind => by = current.participant)
  BY Zenon DEF current
<1>9. ValidTransition(current, next)
  BY Zenon, <1>1, <1>4, <1>5, <1>6, <1>7, <1>8 DEF ValidTransition
<1> QED
  BY Zenon, <1>2, <1>4, <1>5, <1>9 DEF record, next, current

\* Apply prepares an acceptable request.
LEMMA ApplyStep ==
  ASSUME IndInv, TypeOK', NEW e \in EventID, NEW a \in AssignmentID,
         NEW k \in OperationKind, NEW by \in ParticipantID, NEW t \in Time,
         Apply(e, a, k, by, t)
  PROVE  IndInv'
<1> DEFINE current == assignments[a]
           next(to) == Rewrite(current, RecordOf(current, a, e, k, to, by, t))
           r(to) == [expected |-> current.revision, next |-> next(to),
                     child |-> NoAssignment]
<1>1. PICK to \in AssignmentStatus : ValidAssignment(next(to)) /\ Send(r(to))
  BY Zenon DEF Apply
<1>2. /\ next(to) \in Assignment
      /\ next(to).last.event = e /\ next(to).last.assignment = a
      /\ next(to).revision = current.revision + 1
      /\ current.revision \in Nat /\ current.revision # 0
      /\ ValidTransition(current, next(to))
  BY Zenon, <1>1, PreparedTransition, TimeAssumption DEF Apply
<1>3. r(to) \in Request
  BY Zenon, <1>2, AbsentType DEF Request
<1> HIDE DEF next
<1> QED
  BY Zenon, <1>1, <1>2, <1>3, SendStep

\* Delegate prepares an acceptable request.
LEMMA DelegateStep ==
  ASSUME IndInv, TypeOK', NEW e \in EventID, NEW ce \in EventID,
         NEW a \in AssignmentID, NEW c \in AssignmentID,
         NEW p \in ParticipantID, NEW t \in Time,
         Delegate(e, ce, a, c, p, t)
  PROVE  IndInv'
<1> DEFINE current == assignments[a]
           by == current.participant
           next == Rewrite(current, RecordOf(current, a, e, "DELEGATE",
                                             "ACCEPTED", by, t))
           child == OfferSnapshot(ce, c, p, by, a, t)
           r == [expected |-> current.revision, next |-> next,
                 child |-> child]
<1>1. current \in Assignment /\ by \in ParticipantID \cup {None}
  BY Zenon DEF IndInv, TypeOK, Assignment
<1>2. ValidAssignment(next) /\ Send(r)
  BY Zenon DEF Delegate
<1>3. /\ next \in Assignment
      /\ next.last.event = e /\ next.last.assignment = a
      /\ next.revision = current.revision + 1
      /\ current.revision \in Nat /\ current.revision # 0
      /\ ValidTransition(current, next)
  BY Zenon, <1>1, <1>2, PreparedTransition, TimeAssumption
  DEF Delegate, OperationKind, AssignmentStatus
<1>4. /\ child \in Assignment
      /\ child.last.event = ce /\ child.last.assignment = c
  BY <1>1, TimeAssumption
  DEF OfferSnapshot, Assignment, TransitionRecord, OperationKind,
      AssignmentStatus
<1>5. r \in Request
  BY Zenon, <1>3, <1>4 DEF Request
<1> HIDE DEF next, child
<1> QED
  BY Zenon, <1>2, <1>3, <1>4, <1>5, SendStep
-----------------------------------------------------------------------------
(* Why CommitAssignment and CommitDelegation keep the inductive invariant. *)

\* The parents of the Assignments are what DelegationIsAcyclic is about.
LEMMA SameParents ==
  ASSUME DelegationIsAcyclic,
         \A a \in AssignmentID : assignments'[a].parent = assignments[a].parent
  PROVE  DelegationIsAcyclic'
BY Zenon DEF DelegationIsAcyclic

\* An absent Assignment has no revision, no status and no parent.
LEMMA AbsentFields ==
  /\ NoAssignment.revision = 0
  /\ NoAssignment.status = "NONE"
  /\ NoAssignment.parent = None
BY Zenon DEF NoAssignment

\* What a commit of a later revision leaves as it was.
LEMMA TransitionFields ==
  ASSUME NEW current \in Assignment, NEW next \in Assignment,
         ValidTransition(current, next)
  PROVE  /\ ValidAssignment(next)
         /\ next.revision = current.revision + 1
         /\ next.participant = current.participant
         /\ next.offeredBy = current.offeredBy
         /\ next.parent = current.parent
         /\ next.createdAt = current.createdAt
<1>1. next.last \in TransitionRecord
  BY Zenon DEF Assignment
<1>2. /\ next = Rewrite(current, next.last)
      /\ ValidAssignment(next) /\ next.revision = current.revision + 1
  BY Zenon DEF ValidTransition
<1> QED
  BY <1>1, <1>2, RewriteFields

\* The Store answers a retry of a plain commit: only "acked" grows.
LEMMA RetryStep ==
  ASSUME IndInv, TypeOK', NEW r \in requests,
         UNCHANGED <<assignments, delegations, events, requests>>,
         acked' = acked \cup {r},
         Committed(r.next),
         r.child # NoAssignment => /\ r.child.revision = 1
                                   /\ Committed(r.child)
                                   /\ delegations[r.next.last.event] =
                                        DelegationOf(r)
  PROVE  IndInv'
<1>1. (/\ RequestsWellFormed /\ AssignmentsWellFormed /\ EventsWellFormed
       /\ RevisionsAreUnique /\ AckedChildren)'
  BY DEF IndInv, RequestsWellFormed, AssignmentsWellFormed, EventsWellFormed,
         RevisionsAreUnique, AckedChildren, Exists
<1>2. (AckedIsDurable /\ PreparedIsAcceptable /\ DelegationIsAcyclic)'
  BY Zenon DEF IndInv, AckedIsDurable, PreparedIsAcceptable, DelegationIsAcyclic,
         Committed, RevisionIs
<1> QED
  BY Zenon, <1>1, <1>2 DEF IndInv

\* Requests stay well formed while the revisions of Assignments only grow.
LEMMA RevisionsGrow ==
  ASSUME IndInv, TypeOK', UNCHANGED requests,
         \A b \in AssignmentID :
           assignments[b].revision <= assignments'[b].revision
  PROVE  RequestsWellFormed'
<1> SUFFICES ASSUME NEW q \in requests
             PROVE  q.expected <= assignments'[q.next.last.assignment].revision
  BY Zenon DEF IndInv, RequestsWellFormed
<1> DEFINE b == q.next.last.assignment
<1>1. /\ b \in AssignmentID /\ q.expected \in Nat
      /\ q.expected <= assignments[b].revision
  BY Zenon DEF IndInv, TypeOK, Request, RequestsWellFormed
<1>2. assignments[b].revision \in Nat /\ assignments'[b].revision \in Nat
  BY Zenon, <1>1 DEF IndInv, TypeOK, Assignment
<1> HIDE DEF b
<1>3. q.expected <= assignments'[b].revision
  BY <1>1, <1>2
<1> QED
  BY Zenon, <1>3 DEF b

\* CommitAssignment keeps the invariant.
LEMMA CommitAssignmentStep ==
  ASSUME IndInv, TypeOK', NEW r \in requests, CommitAssignment(r)
  PROVE  IndInv'
<1> DEFINE e == r.next.last.event
           a == r.next.last.assignment
<1>1. /\ r \in Request /\ r.next \in Assignment /\ r.expected \in Nat
      /\ e \in EventID /\ a \in AssignmentID
      /\ r.child = NoAssignment /\ r.next.revision = r.expected + 1
      /\ ValidAssignment(r.next) /\ acked' = acked \cup {r}
      /\ UNCHANGED <<delegations, requests>>
  BY Zenon DEF IndInv, TypeOK, Request, RequestsWellFormed, CommitAssignment
<1>2. CASE Committed(r.next) /\ UNCHANGED <<assignments, events>>
  BY Zenon, <1>1, <1>2, RetryStep
<1>3. CASE /\ Unused(e) /\ RevisionIs(a, r.expected)
           /\ r.expected # 0 => ValidTransition(assignments[a], r.next)
           /\ assignments' = [assignments EXCEPT ![a] = r.next]
           /\ events' = [events EXCEPT ![e] = r.next]
  <2> HIDE DEF e, a
  <2>1. /\ assignments \in [AssignmentID -> Assignment]
        /\ events \in [EventID -> Assignment]
        /\ \A b \in AssignmentID : assignments[b].revision \in Nat
        /\ \A f \in EventID : events[f].revision \in Nat
        /\ acked \subseteq requests
    BY Zenon DEF IndInv, TypeOK, Assignment
  <2>2. /\ assignments'[a] = r.next
        /\ \A b \in AssignmentID \ {a} : assignments'[b] = assignments[b]
        /\ events'[e] = r.next
        /\ \A f \in EventID \ {e} : events'[f] = events[f]
    BY Zenon, <1>1, <1>3, <2>1
  <2>3. /\ assignments[a].revision = r.expected
        /\ assignments'[a].revision = r.expected + 1
        /\ ~Exists(events[e]) /\ Exists(events'[e])
    BY <1>1, <1>3, <2>2 DEF RevisionIs, Unused, Exists
  <2>4. assignments'[a].parent = assignments[a].parent
    <3>1. CASE r.expected = 0
      <4>1. ~Exists(assignments[a])
        BY <2>3, <3>1 DEF Exists
      <4>2. assignments[a] = NoAssignment
        BY Zenon, <1>1, <4>1 DEF IndInv, AssignmentsWellFormed
      <4>3. r.next.parent = None
        BY Zenon, <3>1 DEF IndInv, RequestsWellFormed
      <4> QED
        BY Zenon, <2>2, <4>2, <4>3, AbsentFields
    <3>2. CASE r.expected # 0
      BY <1>1, <1>3, <2>1, <2>2, <3>2, TransitionFields
    <3> QED
      BY Zenon, <3>1, <3>2
  <2>5. \A b \in AssignmentID : Exists(assignments[b]) => Exists(assignments'[b])
    BY Zenon, <1>1, <2>1, <2>2, <2>3 DEF Exists
  <2>6. RequestsWellFormed'
    BY <1>1, <2>1, <2>2, <2>3, RevisionsGrow
  <2>7. AssignmentsWellFormed'
    <3> SUFFICES ASSUME NEW b \in AssignmentID
                 PROVE  IF Exists(assignments'[b])
                        THEN /\ ValidAssignment(assignments'[b])
                             /\ assignments'[b].last.assignment = b
                             /\ assignments'[b].parent # None =>
                                 /\ assignments'[b].parent \in AssignmentID
                                 /\ Exists(assignments'[assignments'[b].parent])
                        ELSE assignments'[b] = NoAssignment
      BY Zenon DEF AssignmentsWellFormed, Exists
    <3>1. assignments'[b].parent = assignments[b].parent
      BY Zenon, <2>2, <2>4
    <3>2. assignments[b].parent # None =>
            /\ assignments[b].parent \in AssignmentID
            /\ Exists(assignments[assignments[b].parent])
      BY Zenon, AbsentFields DEF IndInv, AssignmentsWellFormed
    <3>3. CASE b = a
      BY <1>1, <2>2, <2>3, <2>5, <3>1, <3>2, <3>3 DEF a, Exists
    <3>4. CASE b # a
      BY <2>2, <2>5, <3>1, <3>2, <3>4 DEF IndInv, AssignmentsWellFormed
    <3> QED
      BY Zenon, <3>3, <3>4
  <2>8. EventsWellFormed'
    <3> SUFFICES ASSUME NEW f \in EventID, Exists(events'[f])
                 PROVE  LET b == events'[f].last.assignment
                        IN /\ events'[f].last.event = f
                           /\ b \in AssignmentID
                           /\ events'[f].revision <= assignments'[b].revision
      BY Zenon DEF EventsWellFormed, Exists
    <3>1. CASE f = e
      <4>1. events'[f] = r.next /\ assignments'[a] = r.next
        BY Zenon, <2>2, <3>1
      <4>2. r.next.revision \in Nat
        BY <1>1
      <4> QED
        BY <1>1, <3>1, <4>1, <4>2 DEF e, a
    <3>2. CASE f # e
      <4> DEFINE b == events[f].last.assignment
      <4>1. events'[f] = events[f]
        BY Zenon, <2>2, <3>2
      <4>2. events[f].last.event = f /\ b \in AssignmentID /\ events[f].revision <= assignments[b].revision
        BY Zenon, <4>1 DEF IndInv, EventsWellFormed, Exists
      <4>3. assignments[b].revision <= assignments'[b].revision
        <5> HIDE DEF b
        <5>1. CASE b = a
          BY <1>1, <2>3, <5>1
        <5>2. CASE b # a
          BY <2>1, <2>2, <4>2, <5>2
        <5> QED
          BY Zenon, <5>1, <5>2
      <4>4. /\ events[f].revision \in Nat /\ assignments[b].revision \in Nat
            /\ assignments'[b].revision \in Nat
        BY Zenon, <2>1, <4>2 DEF TypeOK, Assignment
      <4> QED
        BY <4>1, <4>2, <4>3, <4>4
    <3> QED
      BY Zenon, <3>1, <3>2
  <2>9. RevisionsAreUnique'
    <3> SUFFICES ASSUME NEW f \in EventID, NEW g \in EventID,
                        Exists(events'[f]), Exists(events'[g]),
                        events'[f].last.assignment = events'[g].last.assignment,
                        events'[f].revision = events'[g].revision
                 PROVE  f = g
      BY Zenon DEF RevisionsAreUnique, Exists
    <3>1. events'[e].last.assignment = a /\ events'[e].revision = assignments[a].revision + 1
      BY Zenon, <2>2, <2>3 DEF a
    <3>2. \A h \in EventID \ {e} : Exists(events'[h]) =>
            /\ events'[h] = events[h]
            /\ events'[h].last.assignment = a =>
                 events'[h].revision # assignments[a].revision + 1
      <4> TAKE h \in EventID \ {e}
      <4> HAVE Exists(events'[h])
      <4>1. events'[h] = events[h]
        BY Zenon, <2>2
      <4>2. ASSUME events'[h].last.assignment = a
            PROVE  events'[h].revision # assignments[a].revision + 1
        <5>1. events[h].revision <= assignments[a].revision
          BY Zenon, <4>1, <4>2 DEF IndInv, EventsWellFormed, Exists
        <5>2. events[h].revision \in Nat /\ assignments[a].revision \in Nat
          BY Zenon, <1>1, <2>1
        <5> QED
          BY <4>1, <5>1, <5>2
      <4> QED
        BY Zenon, <4>1, <4>2
    <3>3. CASE f = e \/ g = e
      BY Zenon, <3>1, <3>2, <3>3
    <3>4. CASE f # e /\ g # e
      BY Zenon, <3>2, <3>4 DEF IndInv, RevisionsAreUnique
    <3> QED
      BY Zenon, <3>3, <3>4
  <2>10. AckedChildren'
    BY Zenon, <1>1 DEF IndInv, AckedChildren
  <2>11. AckedIsDurable'
    <3> SUFFICES ASSUME NEW q \in acked'
                 PROVE  /\ events'[q.next.last.event] = q.next
                        /\ q.child # NoAssignment =>
                            /\ events'[q.child.last.event] = q.child
                            /\ delegations'[q.next.last.event] = DelegationOf(q)
      BY Zenon DEF AckedIsDurable, Committed
    <3>1. CASE q = r
      BY Zenon, <1>1, <2>2, <3>1 DEF e
    <3>2. CASE q \in acked
      <4>1. /\ q \in requests
            /\ q.next.last.event \in EventID
            /\ q.next.revision > 0
            /\ q.child # NoAssignment => /\ q.child.last.event \in EventID
                                         /\ q.child.revision > 0
        BY <2>1, <3>2
        DEF IndInv, TypeOK, Request, RequestsWellFormed, AckedChildren
      <4> QED
        BY Zenon, <1>1, <2>2, <2>3, <3>2, <4>1
        DEF IndInv, AckedIsDurable, Committed, Exists
    <3> QED
      BY Zenon, <1>1, <3>1, <3>2
  <2>12. PreparedIsAcceptable'
    <3> SUFFICES ASSUME NEW q \in requests, q.expected # 0,
                        assignments'[q.next.last.assignment].revision =
                          q.expected
                 PROVE  ValidTransition(assignments'[q.next.last.assignment],
                                        q.next)
      BY Zenon, <1>1 DEF PreparedIsAcceptable, RevisionIs
    <3>1. /\ q.next.last.assignment \in AssignmentID
          /\ q.expected <= assignments[q.next.last.assignment].revision
          /\ q.expected \in Nat
      BY Zenon DEF IndInv, TypeOK, Request, RequestsWellFormed
    <3>2. q.next.last.assignment # a
      BY <1>1, <2>3, <3>1
    <3> QED
      BY Zenon, <2>2, <3>1, <3>2 DEF IndInv, PreparedIsAcceptable, RevisionIs
  <2>13. DelegationIsAcyclic'
    BY Zenon, <2>2, <2>4, SameParents DEF IndInv
  <2> QED
    BY Zenon, <2>6, <2>7, <2>8, <2>9, <2>10, <2>11, <2>12, <2>13 DEF IndInv
<1> QED
  BY Zenon, <1>2, <1>3 DEF CommitAssignment

\* CommitDelegation keeps the invariant.
LEMMA CommitDelegationStep ==
  ASSUME IndInv, TypeOK', NEW r \in requests, CommitDelegation(r)
  PROVE  IndInv'
<1> DEFINE e == r.next.last.event
           a == r.next.last.assignment
           ce == r.child.last.event
           c == r.child.last.assignment
<1>1. /\ r \in Request /\ r.next \in Assignment /\ r.child \in Assignment
      /\ r.expected \in Nat /\ e \in EventID /\ a \in AssignmentID
      /\ r.child # NoAssignment /\ ce \in EventID /\ c \in AssignmentID
      /\ acked' = acked \cup {r} /\ UNCHANGED requests
  BY Zenon DEF IndInv, TypeOK, Request, RequestsWellFormed, CommitDelegation
<1>2. /\ r.next.revision = r.expected + 1 /\ r.child.revision = 1
      /\ ValidAssignment(r.next) /\ ValidAssignment(r.child)
      /\ a # c /\ e # ce /\ r.child.parent = a
  BY Zenon DEF CommitDelegation, ValidDelegation, DelegationOf
<1>3. CASE /\ Committed(r.next) /\ Committed(r.child)
           /\ delegations[e] = DelegationOf(r)
           /\ UNCHANGED <<assignments, events, delegations>>
  BY Zenon, <1>1, <1>2, <1>3, RetryStep
<1>4. CASE /\ Unused(e) /\ Unused(ce) /\ RevisionIs(a, r.expected)
           /\ ValidTransition(assignments[a], r.next)
           /\ ChildIsFree(r) /\ WriteDelegation(r)
  <2>1. /\ assignments \in [AssignmentID -> Assignment]
        /\ events \in [EventID -> Assignment]
        /\ delegations \in [EventID -> Delegation]
        /\ \A b \in AssignmentID : assignments[b].revision \in Nat
        /\ \A f \in EventID : events[f].revision \in Nat
        /\ acked \subseteq requests
    BY Zenon DEF IndInv, TypeOK, Assignment
  <2>2. /\ assignments' = [assignments EXCEPT ![a] = r.next, ![c] = r.child]
        /\ events' = [events EXCEPT ![e] = r.next, ![ce] = r.child]
        /\ delegations' = [delegations EXCEPT ![e] = DelegationOf(r)]
        /\ ~Exists(assignments[c])
    BY Zenon, <1>4 DEF WriteDelegation, ChildIsFree
  <2> HIDE DEF e, a, ce, c
  <2>3. /\ assignments'[a] = r.next /\ assignments'[c] = r.child
        /\ \A b \in AssignmentID \ {a, c} : assignments'[b] = assignments[b]
        /\ events'[e] = r.next /\ events'[ce] = r.child
        /\ \A f \in EventID \ {e, ce} : events'[f] = events[f]
        /\ delegations'[e] = DelegationOf(r)
        /\ \A f \in EventID \ {e} : delegations'[f] = delegations[f]
    BY Zenon, <1>1, <1>2, <2>1, <2>2
  <2>4. /\ assignments[a].revision = r.expected
        /\ assignments'[a].revision = r.expected + 1
        /\ assignments[c].revision = 0 /\ assignments'[c].revision = 1
        /\ ~Exists(events[e]) /\ ~Exists(events[ce])
    <3>1. assignments[a].revision = r.expected
      BY Zenon, <1>4 DEF RevisionIs
    <3>2. assignments'[a].revision = r.expected + 1 /\ assignments'[c].revision = 1
      BY Zenon, <1>2, <2>3
    <3>3. assignments[c].revision \in Nat /\ ~(assignments[c].revision > 0)
      BY Zenon, <1>1, <2>1, <2>2 DEF Exists
    <3>4. assignments[c].revision = 0
      BY <3>3
    <3>5. ~Exists(events[e]) /\ ~Exists(events[ce])
      BY Zenon, <1>4 DEF Unused
    <3> QED
      BY Zenon, <3>1, <3>2, <3>4, <3>5
  <2>5. assignments[a].revision > 0
    BY Zenon, <1>1, <1>4, <2>1, <2>4 DEF ValidTransition, ValidAssignment
  <2>6. r.next.parent = assignments[a].parent
    BY Zenon, <1>1, <1>4, <2>1, TransitionFields
  <2>7. \A b \in AssignmentID :
          assignments[b].revision <= assignments'[b].revision
    <3> TAKE b \in AssignmentID
    <3>1. CASE b = a
      BY <1>1, <2>4, <3>1
    <3>2. CASE b = c
      BY <2>4, <3>2
    <3>3. CASE b # a /\ b # c
      <4>1. assignments'[b] = assignments[b]
        BY Zenon, <2>3, <3>3
      <4> QED
        BY <2>1, <4>1
    <3> QED
      BY Zenon, <3>1, <3>2, <3>3
  <2>8. RequestsWellFormed'
    BY Zenon, <1>1, <2>7, RevisionsGrow
  <2>9. \A b \in AssignmentID : Exists(assignments[b]) => Exists(assignments'[b])
    BY <1>1, <2>1, <2>3, <2>4 DEF Exists
  <2>10. \A b \in AssignmentID :
           assignments[b].parent # None =>
             /\ assignments[b].parent \in AssignmentID
             /\ Exists(assignments[assignments[b].parent])
    BY Zenon, AbsentFields DEF IndInv, AssignmentsWellFormed
  <2>11. AssignmentsWellFormed'
    <3> SUFFICES ASSUME NEW b \in AssignmentID
                 PROVE  IF Exists(assignments'[b])
                        THEN /\ ValidAssignment(assignments'[b])
                             /\ assignments'[b].last.assignment = b
                             /\ assignments'[b].parent # None =>
                                 /\ assignments'[b].parent \in AssignmentID
                                 /\ Exists(assignments'[assignments'[b].parent])
                        ELSE assignments'[b] = NoAssignment
      BY Zenon DEF AssignmentsWellFormed, Exists
    <3>1. CASE b = a
      <4>1. assignments'[b] = r.next
        BY Zenon, <2>3, <3>1
      <4>2. ValidAssignment(assignments'[b]) /\ assignments'[b].last.assignment = b
        BY Zenon, <1>2, <3>1, <4>1 DEF a
      <4>3. ASSUME assignments'[b].parent # None
            PROVE  /\ assignments'[b].parent \in AssignmentID
                   /\ Exists(assignments'[assignments'[b].parent])
        <5>1. assignments'[b].parent = assignments[a].parent
          BY Zenon, <2>6, <4>1
        <5>2. /\ assignments[a].parent \in AssignmentID
              /\ Exists(assignments[assignments[a].parent])
          BY Zenon, <1>1, <2>10, <4>3, <5>1
        <5> QED
          BY Zenon, <2>9, <5>1, <5>2
      <4>4. Exists(assignments'[b])
        <5>1. r.expected + 1 > 0
          BY <1>1
        <5> QED
          BY Zenon, <2>4, <3>1, <5>1 DEF Exists
      <4> QED
        BY Zenon, <4>2, <4>3, <4>4
    <3>2. CASE b = c
      <4>1. assignments'[b] = r.child
        BY Zenon, <2>3, <3>2
      <4>2. ValidAssignment(assignments'[b]) /\ assignments'[b].last.assignment = b
        BY Zenon, <1>2, <3>2, <4>1 DEF c
      <4>3. Exists(assignments'[b]) /\ Exists(assignments'[a])
        <5>1. r.expected + 1 > 0
          BY <1>1
        <5> QED
          BY <2>4, <3>2, <5>1 DEF Exists
      <4>4. assignments'[b].parent = a
        BY Zenon, <1>2, <4>1
      <4> QED
        BY Zenon, <1>1, <4>2, <4>3, <4>4
    <3>3. CASE b # a /\ b # c
      <4>1. assignments'[b] = assignments[b]
        BY Zenon, <2>3, <3>3
      <4>2. IF Exists(assignments[b])
            THEN ValidAssignment(assignments[b]) /\ assignments[b].last.assignment = b
            ELSE assignments[b] = NoAssignment
        BY Zenon DEF IndInv, AssignmentsWellFormed
      <4>3. ASSUME assignments[b].parent # None
            PROVE  /\ assignments[b].parent \in AssignmentID
                   /\ Exists(assignments'[assignments[b].parent])
        BY Zenon, <2>9, <2>10, <4>3
      <4> QED
        BY Zenon, <4>1, <4>2, <4>3
    <3> QED
      BY Zenon, <3>1, <3>2, <3>3
  <2>12. \A f \in EventID : Exists(events[f]) =>
           /\ f # e /\ f # ce
           /\ events[f].last.event = f
           /\ events[f].last.assignment \in AssignmentID \ {c}
           /\ events[f].revision <=
                assignments[events[f].last.assignment].revision
    BY <1>1, <2>1, <2>4 DEF IndInv, EventsWellFormed, Exists
  <2>13. EventsWellFormed'
    <3> SUFFICES ASSUME NEW f \in EventID, Exists(events'[f])
                 PROVE  LET b == events'[f].last.assignment
                        IN /\ events'[f].last.event = f
                           /\ b \in AssignmentID
                           /\ events'[f].revision <= assignments'[b].revision
      BY Zenon DEF EventsWellFormed, Exists
    <3>1. CASE f = e
      <4>1. events'[f] = r.next /\ assignments'[a] = r.next
        BY Zenon, <2>3, <3>1
      <4>2. r.next.revision \in Nat
        BY <1>1, <1>2
      <4> QED
        BY <1>1, <3>1, <4>1, <4>2 DEF e, a
    <3>2. CASE f = ce
      <4>1. events'[f] = r.child /\ assignments'[c] = r.child
        BY Zenon, <2>3, <3>2
      <4>2. r.child.revision \in Nat
        BY <1>2
      <4> QED
        BY <1>1, <3>2, <4>1, <4>2 DEF ce, c
    <3>3. CASE f # e /\ f # ce
      <4> DEFINE b == events[f].last.assignment
      <4>1. events'[f] = events[f]
        BY Zenon, <2>3, <3>3
      <4>2. events[f].last.event = f /\ b \in AssignmentID /\ events[f].revision <= assignments[b].revision
        BY Zenon, <2>12, <4>1
      <4>3. assignments[b].revision <= assignments'[b].revision
        BY Zenon, <2>7, <4>2
      <4>4. /\ events[f].revision \in Nat /\ assignments[b].revision \in Nat
            /\ assignments'[b].revision \in Nat
        BY Zenon, <2>1, <4>2 DEF TypeOK, Assignment
      <4> QED
        BY <4>1, <4>2, <4>3, <4>4
    <3> QED
      BY Zenon, <3>1, <3>2, <3>3
  <2>14. RevisionsAreUnique'
    <3> SUFFICES ASSUME NEW f \in EventID, NEW g \in EventID,
                        Exists(events'[f]), Exists(events'[g]),
                        events'[f].last.assignment = events'[g].last.assignment,
                        events'[f].revision = events'[g].revision
                 PROVE  f = g
      BY Zenon DEF RevisionsAreUnique, Exists
    <3>1. /\ events'[e].last.assignment = a
          /\ events'[e].revision = assignments[a].revision + 1
          /\ events'[ce].last.assignment = c
      BY Zenon, <1>2, <2>3, <2>4 DEF a, c
    <3>2. \A h \in EventID \ {e, ce} : Exists(events'[h]) =>
            /\ events'[h] = events[h]
            /\ events'[h].last.assignment # c
            /\ events'[h].last.assignment = a =>
                 events'[h].revision # assignments[a].revision + 1
      <4> TAKE h \in EventID \ {e, ce}
      <4> HAVE Exists(events'[h])
      <4>1. events'[h] = events[h]
        BY Zenon, <2>3
      <4>2. events'[h].last.assignment # c
        BY Zenon, <2>12, <4>1
      <4>3. ASSUME events'[h].last.assignment = a
            PROVE  events'[h].revision # assignments[a].revision + 1
        <5>1. events[h].revision <= assignments[a].revision
          BY Zenon, <2>12, <4>1, <4>3
        <5>2. events[h].revision \in Nat /\ assignments[a].revision \in Nat
          BY Zenon, <1>1, <2>1
        <5> QED
          BY <4>1, <5>1, <5>2
      <4> QED
        BY Zenon, <4>1, <4>2, <4>3
    <3>3. CASE f \in {e, ce} \/ g \in {e, ce}
      BY <1>2, <3>1, <3>2, <3>3
    <3>4. CASE f \notin {e, ce} /\ g \notin {e, ce}
      BY Zenon, <3>2, <3>4 DEF IndInv, RevisionsAreUnique
    <3> QED
      BY Zenon, <3>3, <3>4
  <2>15. AckedChildren'
    BY Zenon, <1>1, <1>2 DEF IndInv, AckedChildren
  <2>16. AckedIsDurable'
    <3> SUFFICES ASSUME NEW q \in acked'
                 PROVE  /\ events'[q.next.last.event] = q.next
                        /\ q.child # NoAssignment =>
                            /\ events'[q.child.last.event] = q.child
                            /\ delegations'[q.next.last.event] = DelegationOf(q)
      BY Zenon DEF AckedIsDurable, Committed
    <3>1. CASE q = r
      BY Zenon, <2>3, <3>1 DEF e, ce
    <3>2. CASE q \in acked
      <4>1. /\ q \in requests
            /\ q.next.last.event \in EventID
            /\ q.next.revision > 0
            /\ q.child # NoAssignment => /\ q.child.last.event \in EventID
                                         /\ q.child.revision > 0
        BY <2>1, <3>2
        DEF IndInv, TypeOK, Request, RequestsWellFormed, AckedChildren
      <4> QED
        BY <2>3, <2>4, <3>2, <4>1 DEF IndInv, AckedIsDurable, Committed, Exists
    <3> QED
      BY Zenon, <1>1, <3>1, <3>2
  <2>17. PreparedIsAcceptable'
    <3> SUFFICES ASSUME NEW q \in requests, q.expected # 0,
                        assignments'[q.next.last.assignment].revision =
                          q.expected
                 PROVE  ValidTransition(assignments'[q.next.last.assignment],
                                        q.next)
      BY Zenon, <1>1 DEF PreparedIsAcceptable, RevisionIs
    <3>1. /\ q.next.last.assignment \in AssignmentID
          /\ q.expected <= assignments[q.next.last.assignment].revision
          /\ q.expected \in Nat
      BY Zenon DEF IndInv, TypeOK, Request, RequestsWellFormed
    <3>2. q.next.last.assignment # a /\ q.next.last.assignment # c
      BY <1>1, <2>4, <3>1
    <3> QED
      BY Zenon, <2>3, <3>1, <3>2 DEF IndInv, PreparedIsAcceptable, RevisionIs
  <2>18. DelegationIsAcyclic'
    <3> SUFFICES ASSUME NEW S \in SUBSET AssignmentID, S # {}
                 PROVE  \E b \in S : assignments'[b].parent \notin S
      BY Zenon DEF DelegationIsAcyclic
    <3>1. \A b \in AssignmentID \ {c} :
            assignments'[b].parent = assignments[b].parent
      BY Zenon, <2>3, <2>6
    <3>2. \A b \in AssignmentID : assignments[b].parent # c
      BY Zenon, <1>1, <2>2, <2>10, NoneAssumption
    <3>3. CASE c \notin S
      BY Zenon, <3>1, <3>3 DEF IndInv, DelegationIsAcyclic
    <3>4. CASE S = {c}
      BY Zenon, <1>2, <2>3, <3>4
    <3>5. CASE c \in S /\ S # {c}
      <4>1. PICK b \in S \ {c} : assignments[b].parent \notin S \ {c}
        BY Zenon, <3>5 DEF IndInv, DelegationIsAcyclic
      <4> QED
        BY Zenon, <3>1, <3>2, <4>1
    <3> QED
      BY Zenon, <3>3, <3>4, <3>5
  <2> QED
    BY Zenon, <2>8, <2>11, <2>13, <2>14, <2>15, <2>16, <2>17, <2>18 DEF IndInv
<1> QED
  BY Zenon, <1>3, <1>4 DEF CommitDelegation

\* Every step keeps the invariant.
LEMMA InvariantStep == IndInv /\ [Next]_vars => IndInv'
<1> SUFFICES ASSUME IndInv, [Next]_vars
             PROVE  IndInv'
  BY Zenon
<1>1. TypeOK'
  BY Zenon, TypeStep DEF IndInv
<1>2. ASSUME NEW p \in ParticipantID, NEW record \in Registrable,
             RegisterParticipant(p, record)
      PROVE  IndInv'
  BY Zenon, <1>1, <1>2, QuietStep DEF RegisterParticipant
<1>3. ASSUME NEW e \in EventID, NEW x \in InteractionInput,
             AppendInteractionEvent(e, x)
      PROVE  IndInv'
  BY Zenon, <1>1, <1>3, QuietStep DEF AppendInteractionEvent
<1>4. CASE UNCHANGED vars
  BY Zenon, <1>1, <1>4, QuietStep DEF vars, store
<1> QED
  BY Zenon, <1>1, <1>2, <1>3, <1>4, OfferStep, ApplyStep, DelegateStep,
     CommitAssignmentStep, CommitDelegationStep
  DEF Next

\* The inductive invariant holds in every reachable state.
THEOREM Invariant == Spec => []IndInv
BY InitInvariant, InvariantStep, PTL DEF Spec
-----------------------------------------------------------------------------
(* The theorems. *)

\* The compare-and-set of CommitAssignment and CommitDelegation: of all the
\* callers that start from one revision, one change at most is acknowledged.
THEOREM NoLostUpdate == Spec => []OneWinnerPerRevision
<1>1. IndInv => OneWinnerPerRevision
  <2> SUFFICES ASSUME IndInv, NEW r \in acked, NEW q \in acked,
                      r.next.last.assignment = q.next.last.assignment,
                      r.expected = q.expected
               PROVE  r.next = q.next
    BY Zenon DEF OneWinnerPerRevision
  <2> DEFINE e == r.next.last.event
             f == q.next.last.event
  <2>1. /\ e \in EventID /\ f \in EventID
        /\ events[e] = r.next /\ events[f] = q.next
        /\ r.next.revision = r.expected + 1
        /\ q.next.revision = q.expected + 1
        /\ r.expected \in Nat
    BY Zenon DEF IndInv, TypeOK, Request, RequestsWellFormed, AckedIsDurable,
           Committed
  <2> HIDE DEF e, f
  <2>2. Exists(events[e]) /\ Exists(events[f])
    BY <2>1 DEF Exists
  <2> QED
    BY Zenon, <2>1, <2>2 DEF IndInv, RevisionsAreUnique
<1> QED
  BY <1>1, Invariant, PTL

\* An acknowledged commit is never overwritten in the event log.
THEOREM NoForgottenCommit == Spec => []AckedIsDurable
<1>1. IndInv => AckedIsDurable
  BY Zenon DEF IndInv
<1> QED
  BY <1>1, Invariant, PTL

\* The machine and the Store agree on what a legal transition is.
THEOREM MachineMatchesStore == Spec => []PreparedIsAcceptable
<1>1. IndInv => PreparedIsAcceptable
  BY Zenon DEF IndInv
<1> QED
  BY <1>1, Invariant, PTL

\* Delegations never form a cycle.
THEOREM NoDelegationCycle == Spec => []DelegationIsAcyclic
<1>1. IndInv => DelegationIsAcyclic
  BY Zenon DEF IndInv
<1> QED
  BY <1>1, Invariant, PTL

\* Which steps write to the Store: the two commits and the append.
LEMMA WritingSteps ==
  ASSUME [Next]_vars
  PROVE  \/ \E r \in requests : CommitAssignment(r)
         \/ \E r \in requests : CommitDelegation(r)
         \/ \E e \in EventID, x \in InteractionInput :
              AppendInteractionEvent(e, x)
         \/ UNCHANGED <<assignments, events, delegations, interactionEvents>>
<1>1. ASSUME NEW p \in ParticipantID, NEW record \in Registrable,
             RegisterParticipant(p, record)
      PROVE  UNCHANGED <<assignments, events, delegations, interactionEvents>>
  BY Zenon, <1>1 DEF RegisterParticipant
<1>2. ASSUME NEW r, Send(r)
      PROVE  UNCHANGED <<assignments, events, delegations, interactionEvents>>
  BY Zenon, <1>2 DEF Send, store
<1>3. ASSUME NEW e \in EventID, NEW a \in AssignmentID,
             NEW p \in ParticipantID, NEW by \in ParticipantID, NEW t \in Time,
             Offer(e, a, p, by, t)
      PROVE  \E r : Send(r)
  BY Zenon, <1>3 DEF Offer
<1>4. ASSUME NEW e \in EventID, NEW a \in AssignmentID,
             NEW k \in OperationKind, NEW by \in ParticipantID, NEW t \in Time,
             Apply(e, a, k, by, t)
      PROVE  \E r : Send(r)
  BY Zenon, <1>4 DEF Apply
<1>5. ASSUME NEW e \in EventID, NEW ce \in EventID, NEW a \in AssignmentID,
             NEW c \in AssignmentID, NEW p \in ParticipantID, NEW t \in Time,
             Delegate(e, ce, a, c, p, t)
      PROVE  \E r : Send(r)
  BY Zenon, <1>5 DEF Delegate
<1>6. CASE UNCHANGED vars
  BY Zenon, <1>6 DEF vars, store
<1> QED
  BY Zenon, <1>1, <1>2, <1>3, <1>4, <1>5, <1>6 DEF Next

\* What a step may do to the snapshot of an Assignment: nothing, create it, or
\* commit a valid transition of it.
LEMMA SnapshotStep ==
  ASSUME IndInv, [Next]_vars, NEW b \in AssignmentID
  PROVE  \/ assignments'[b] = assignments[b]
         \/ assignments[b] = NoAssignment
         \/ /\ assignments'[b] \in Assignment
            /\ ValidTransition(assignments[b], assignments'[b])
<1> USE DEF IndInv, TypeOK
<1>1. ASSUME NEW r \in requests, CommitAssignment(r)
      PROVE  \/ assignments'[b] = assignments[b]
             \/ assignments[b] = NoAssignment
             \/ /\ assignments'[b] \in Assignment
                /\ ValidTransition(assignments[b], assignments'[b])
  <2> DEFINE a == r.next.last.assignment
  <2>1. a \in AssignmentID /\ r.next \in Assignment /\ r.expected \in Nat
    BY Zenon DEF RequestsWellFormed, Request
  <2>2. CASE assignments' = assignments
    BY Zenon, <2>2
  <2>3. CASE /\ RevisionIs(a, r.expected)
             /\ r.expected # 0 => ValidTransition(assignments[a], r.next)
             /\ assignments' = [assignments EXCEPT ![a] = r.next]
    <3> HIDE DEF a
    <3>1. CASE r.expected = 0 /\ b = a
      <4>1. ~Exists(assignments[b])
        BY <2>3, <3>1 DEF RevisionIs, Exists
      <4> QED
        BY Zenon, <4>1 DEF AssignmentsWellFormed
    <3>2. CASE r.expected # 0 /\ b = a
      BY Zenon, <2>1, <2>3, <3>2
    <3>3. CASE b # a
      BY Zenon, <2>3, <3>3
    <3> QED
      BY Zenon, <3>1, <3>2, <3>3
  <2> QED
    BY Zenon, <1>1, <2>2, <2>3 DEF CommitAssignment
<1>2. ASSUME NEW r \in requests, CommitDelegation(r)
      PROVE  \/ assignments'[b] = assignments[b]
             \/ assignments[b] = NoAssignment
             \/ /\ assignments'[b] \in Assignment
                /\ ValidTransition(assignments[b], assignments'[b])
  <2> DEFINE a == r.next.last.assignment
             c == r.child.last.assignment
  <2>1. /\ a \in AssignmentID /\ r.next \in Assignment
        /\ r.child # NoAssignment /\ c \in AssignmentID
    BY Zenon, <1>2 DEF RequestsWellFormed, Request, CommitDelegation
  <2>2. CASE assignments' = assignments
    BY Zenon, <2>2
  <2>3. CASE /\ ValidTransition(assignments[a], r.next)
             /\ ChildIsFree(r) /\ WriteDelegation(r)
    <3>1. /\ assignments' = [assignments EXCEPT ![a] = r.next, ![c] = r.child]
          /\ ~Exists(assignments[c])
      BY Zenon, <2>3 DEF WriteDelegation, ChildIsFree
    <3> HIDE DEF a, c
    <3>2. CASE b = c
      BY Zenon, <2>1, <3>1, <3>2 DEF AssignmentsWellFormed
    <3>3. CASE b = a /\ b # c
      BY Zenon, <2>1, <2>3, <3>1, <3>3
    <3>4. CASE b # a /\ b # c
      BY Zenon, <3>1, <3>4
    <3> QED
      BY Zenon, <3>2, <3>3, <3>4
  <2> QED
    BY Zenon, <1>2, <2>2, <2>3 DEF CommitDelegation
<1>3. CASE UNCHANGED assignments
  BY Zenon, <1>3
<1>4. (\E r \in requests : CommitAssignment(r) \/ CommitDelegation(r))
        \/ UNCHANGED assignments
  BY Zenon, WritingSteps DEF AppendInteractionEvent
<1> QED
  BY Zenon, <1>1, <1>2, <1>3, <1>4

\* A terminal Assignment never changes again (no late ACCEPT after a REVOKE).
THEOREM TerminalForGood == Spec => TerminalIsFinal
<1>1. IndInv /\ [Next]_vars => [TerminalKept]_vars
  <2> SUFFICES ASSUME IndInv, [Next]_vars, NEW a \in AssignmentID,
                      assignments[a].status \in TerminalStatus
               PROVE  assignments'[a] = assignments[a]
    BY Zenon DEF TerminalKept
  <2>1. assignments[a] # NoAssignment
    BY Zenon, AbsentFields DEF TerminalStatus
  <2>2. ASSUME assignments'[a] \in Assignment,
               ValidTransition(assignments[a], assignments'[a])
        PROVE  FALSE
    <3> DEFINE next == assignments'[a]
    <3>1. /\ next.last.from = assignments[a].status
          /\ next.revision = assignments[a].revision + 1
          /\ ValidAssignment(assignments[a]) /\ ValidAssignment(next)
      BY Zenon, <2>2 DEF ValidTransition
    <3>2. assignments[a].revision \in Nat /\ assignments[a].revision > 0
      BY Zenon, <3>1 DEF IndInv, TypeOK, Assignment, ValidAssignment
    <3>3. next.revision # 1
      <4>1. PICK n \in Nat : n = assignments[a].revision /\ n > 0
        BY Zenon, <3>2
      <4>2. n + 1 # 1
        BY <4>1
      <4>3. next.revision = n + 1
        BY Zenon, <3>1, <4>1
      <4> QED
        BY Zenon, <4>2, <4>3
    <3>4. <<next.last.from, next.last.kind, next.last.to>> \in AllowedTransition
      BY Zenon, <3>1, <3>3 DEF ValidAssignment
    <3> HIDE DEF next
    <3>5. next.last.from \in {"OFFERED", "ACCEPTED"}
      BY Zenon, <3>4 DEF AllowedTransition, LifecycleStep
    <3> QED
      BY Zenon, <3>1, <3>5 DEF TerminalStatus
  <2> QED
    BY Zenon, <2>1, <2>2, SnapshotStep
<1> QED
  BY <1>1, Invariant, PTL DEF Spec, TerminalIsFinal

\* The identity of an Assignment, its history and its interactions only grow.
THEOREM HistoryForGood == Spec => IdentityIsImmutable
<1>1. IndInv /\ [Next]_vars => [IdentityKept]_vars
  <2> SUFFICES ASSUME IndInv, [Next]_vars
               PROVE  IdentityKept
    BY Zenon
  <2>1. ASSUME NEW a \in AssignmentID, Exists(assignments[a])
        PROVE  /\ assignments'[a].participant = assignments[a].participant
               /\ assignments'[a].offeredBy = assignments[a].offeredBy
               /\ assignments'[a].parent = assignments[a].parent
               /\ assignments'[a].createdAt = assignments[a].createdAt
               /\ assignments'[a].revision >= assignments[a].revision
    <3>1. assignments[a] \in Assignment /\ assignments[a].revision \in Nat
      BY Zenon DEF IndInv, TypeOK, Assignment
    <3>2. assignments[a] # NoAssignment
      BY <2>1, AbsentFields DEF Exists
    <3>3. CASE assignments'[a] = assignments[a]
      BY <3>1, <3>3
    <3>4. CASE /\ assignments'[a] \in Assignment
               /\ ValidTransition(assignments[a], assignments'[a])
      <4>1. /\ assignments'[a].participant = assignments[a].participant
            /\ assignments'[a].offeredBy = assignments[a].offeredBy
            /\ assignments'[a].parent = assignments[a].parent
            /\ assignments'[a].createdAt = assignments[a].createdAt
            /\ assignments'[a].revision = assignments[a].revision + 1
        BY Zenon, <3>1, <3>4, TransitionFields
      <4> QED
        BY <3>1, <4>1
    <3> QED
      BY Zenon, <3>2, <3>3, <3>4, SnapshotStep
  <2>2. ASSUME NEW e \in EventID
        PROVE  /\ Exists(events[e]) => events'[e] = events[e]
               /\ Delegated(e) => delegations'[e] = delegations[e]
    <3>1. ASSUME NEW r \in requests, CommitAssignment(r)
          PROVE  /\ Exists(events[e]) => events'[e] = events[e]
                 /\ Delegated(e) => delegations'[e] = delegations[e]
      BY Zenon, <3>1 DEF IndInv, TypeOK, CommitAssignment, Unused
    <3>2. ASSUME NEW r \in requests, CommitDelegation(r)
          PROVE  /\ Exists(events[e]) => events'[e] = events[e]
                 /\ Delegated(e) => delegations'[e] = delegations[e]
      BY Zenon, <3>2 DEF IndInv, TypeOK, CommitDelegation, WriteDelegation,
                  ChildIsFree, Unused, Delegated
    <3>3. (\E r \in requests : CommitAssignment(r) \/ CommitDelegation(r))
            \/ UNCHANGED <<events, delegations>>
      BY Zenon, WritingSteps DEF AppendInteractionEvent
    <3> QED
      BY Zenon, <3>1, <3>2, <3>3
  <2>3. ASSUME NEW e \in EventID, Appended(e)
        PROVE  interactionEvents'[e] = interactionEvents[e]
    <3>1. ASSUME NEW f \in EventID, NEW x \in InteractionInput,
                 AppendInteractionEvent(f, x)
          PROVE  interactionEvents'[e] = interactionEvents[e]
      BY Zenon, <2>3, <3>1 DEF IndInv, TypeOK, AppendInteractionEvent, Unused, Appended
    <3>2. \/ \E f \in EventID, x \in InteractionInput :
               AppendInteractionEvent(f, x)
          \/ UNCHANGED interactionEvents
      BY Zenon, WritingSteps DEF CommitAssignment, CommitDelegation
    <3> QED
      BY Zenon, <3>1, <3>2
  <2> QED
    BY Zenon, <2>1, <2>2, <2>3 DEF IdentityKept
<1> QED
  BY <1>1, Invariant, PTL DEF Spec, IdentityIsImmutable
=============================================================================
