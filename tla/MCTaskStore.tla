---------------------------- MODULE MCTaskStore ----------------------------
(***************************************************************************)
(* An instance of TaskStore for TLC.  Participants and Assignments are     *)
(* interchangeable, so their permutations are symmetries.  Events are      *)
(* interchangeable too; they are numbers here, first used in order.        *)
(***************************************************************************)
EXTENDS TaskStore, TLC

Active == [status |-> "ACTIVE", mayDelegate |-> TRUE]
Suspended == [status |-> "SUSPENDED", mayDelegate |-> TRUE]
NoDelegator == [status |-> "ACTIVE", mayDelegate |-> FALSE]

EveryRecord == {Active, Suspended, NoDelegator}

Symmetry == Permutations(ParticipantID) \cup Permutations(AssignmentID)

UsedEvents ==
  {r.next.last.event : r \in requests}
    \cup ({r.child.last.event : r \in requests} \ {None}) \cup AppendedEvents

\* Every used identifier, which a caller may use again, and the n next ones.
Events(n) == EventID \cap 1 .. Cardinality(UsedEvents) + n

\* An interaction refers to events of the log or is refused.
LoggedInput ==
  [interaction : InteractionID, assignment : AssignmentID, kind : InteractionKind,
   reply : AppendedEvents \cup {None}, supersedes : AppendedEvents \cup {None},
   participant : ParticipantID, at : Time]

\* A behaviour with interactions, or with a participant who is not active or
\* may not delegate, has one request, prepared before the first interaction.
\* Up to four requests race, two of them unanswered; a longer chain of requests
\* goes on from answer to answer.
MayPrepare ==
  /\ \A p \in ParticipantID : participants[p].status # "UNREGISTERED"
  /\ AppendedEvents = {}
  /\ requests = {} \/ \A p \in ParticipantID : participants[p] = Active
  /\ Cardinality(requests \ acked) < IF Cardinality(requests) < 4 THEN 2 ELSE 1

\* The steps of Next, with everybody registered before the first request.
MCNext ==
  \/ /\ requests = {}
     /\ \E p \in ParticipantID, record \in Registrable : RegisterParticipant(p, record)
  \/ /\ MayPrepare
     /\ \E e \in Events(1), a \in AssignmentID, p, by \in ParticipantID, t \in Time :
          Offer(e, a, p, by, t)
  \/ /\ MayPrepare
     /\ \E e \in Events(1), a \in AssignmentID, k \in OperationKind, by \in ParticipantID, t \in Time :
          Apply(e, a, k, by, t)
  \/ /\ MayPrepare
     /\ \E e \in Events(1) : \E ce \in Events(IF e \in UsedEvents THEN 1 ELSE 2) :
          \E a, c \in AssignmentID, p \in ParticipantID, t \in Time : Delegate(e, ce, a, c, p, t)
  \/ \E r \in requests : CommitAssignment(r)
  \/ \E r \in requests : CommitDelegation(r)
  \/ /\ Cardinality(requests) = 1
     /\ \E e \in Events(1) \cap 1 .. 4, x \in LoggedInput : AppendInteractionEvent(e, x)

MCSpec == Init /\ [][MCNext]_vars

InOrder == UsedEvents = 1 .. Cardinality(UsedEvents)

\* What the Store exports passes the replay of RestoreMemoryStore; a delegated
\* Assignment, its parent and their one edge appear together; a question thread is
\* about one Assignment, has one root and its corrections one author.
HistoryIsSound == ExportIsRestorable /\ DelegationIsAtomic /\ InteractionLineage
=============================================================================
