--------------------------- MODULE OutboxTheorems ---------------------------
(***************************************************************************)
(* What the SQLite outbox keeps for any Assignments, events, consumers,     *)
(* lease IDs, batch sizes, lease durations and faults.                     *)
(***************************************************************************)
EXTENDS Outbox, FiniteSetTheorems, TLAPS

Kinds == {"ASSIGNMENT", "DELEGATION", "INTERACTION"}

Deliveries ==
    [id : Event, lease : LeaseID, remaining : 0 .. LeaseDuration,
     document : {"ASSIGNMENT", "DELEGATION", "INTERACTION"}]

Holders == Consumer \cup {Nobody}

Leases == LeaseID \cup {Nobody}

Leased(row, c, lease, r) == [row EXCEPT !.consumer = c, !.lease = lease, !.remaining = r]

Mutations ==
    [via : {"NONE", "ASSIGNMENT", "DELEGATION", "CHILD_OFFER", "INTERACTION"},
     assignment : Assignment \cup {Nobody}, revision : 0 .. MaxRevision, child : Assignment \cup {Nobody}]

Records == [delivery : Event \cup {Nobody}, restored : BOOLEAN, document : {"NONE", Corrupt}]

\* A function over the places of a sequence is a sequence of the same places.
LEMMA MappedSequence ==
    ASSUME NEW S, NEW T, NEW s \in Seq(S), NEW f, f \in [DOMAIN s -> T]
    PROVE  f \in Seq(T) /\ DOMAIN f = DOMAIN s
<1>1. DOMAIN s = 1 .. Len(s) /\ Len(s) \in Nat
  OBVIOUS
<1>2. f \in [1 .. Len(s) -> T]
  BY Zenon, <1>1
<1> QED
  BY <1>1, <1>2

\* Appending keeps the places there are and adds one.
LEMMA AppendedSequence ==
    ASSUME NEW S, NEW s \in Seq(S), NEW e \in S
    PROVE  /\ Append(s, e) \in Seq(S)
           /\ Len(s) + 1 \notin DOMAIN s /\ DOMAIN Append(s, e) = DOMAIN s \cup {Len(s) + 1}
           /\ Append(s, e)[Len(s) + 1] = e
           /\ \A i \in DOMAIN s : Append(s, e)[i] = s[i]
OBVIOUS

\* An update with values of the fields' sets leaves a record of the same kind.
LEMMA Updated ==
    ASSUME NEW A, NEW B, NEW C, NEW D, NEW E, NEW F,
           NEW row \in [id : A, document : B, consumer : C, lease : D, remaining : E, acknowledged : F],
           NEW c \in C, NEW l \in D, NEW r \in E, NEW a \in F
    PROVE  /\ [row EXCEPT !.consumer = c, !.lease = l, !.remaining = r] \in
                 [id : A, document : B, consumer : C, lease : D, remaining : E, acknowledged : F]
           /\ [row EXCEPT !.acknowledged = a] \in
                 [id : A, document : B, consumer : C, lease : D, remaining : E, acknowledged : F]
<1>1. [row EXCEPT !.consumer = c, !.lease = l, !.remaining = r] \in
          [id : A, document : B, consumer : C, lease : D, remaining : E, acknowledged : F]
  BY Zenon
<1>2. [row EXCEPT !.acknowledged = a] \in
          [id : A, document : B, consumer : C, lease : D, remaining : E, acknowledged : F]
  BY Zenon
<1> QED
  BY Zenon, <1>1, <1>2

\* What a lease, a new document and an acknowledgement leave of a row.
LEMMA LeasedRow ==
    ASSUME NEW row \in Row, NEW c \in Holders, NEW lease \in Leases, NEW r \in 0 .. LeaseDuration
    PROVE  /\ Leased(row, c, lease, r) \in Row
           /\ Leased(row, c, lease, r).id = row.id /\ Leased(row, c, lease, r).document = row.document
           /\ Leased(row, c, lease, r).consumer = c /\ Leased(row, c, lease, r).lease = lease
           /\ Leased(row, c, lease, r).remaining = r
<1>1. TRUE \in BOOLEAN
  BY Zenon
<1>2. Leased(row, c, lease, r) \in Row
  BY Zenon, <1>1, Updated DEF Leased, Row, Holders, Leases
<1>3. /\ Leased(row, c, lease, r).id = row.id /\ Leased(row, c, lease, r).document = row.document
      /\ Leased(row, c, lease, r).consumer = c /\ Leased(row, c, lease, r).lease = lease
      /\ Leased(row, c, lease, r).remaining = r
  BY Zenon DEF Leased, Row
<1> QED
  BY Zenon, <1>2, <1>3

LEMMA RewrittenRow ==
    ASSUME NEW row \in Row, NEW document \in Kinds \cup {Corrupt}, NEW new, new = [row EXCEPT !.document = document]
    PROVE  /\ new \in Row /\ new.id = row.id /\ new.document = document
           /\ new.consumer = row.consumer /\ new.lease = row.lease /\ new.remaining = row.remaining
<1>1. new \in Row
  BY Zenon DEF Row, Kinds
<1>2. /\ new.id = row.id /\ new.document = document
      /\ new.consumer = row.consumer /\ new.lease = row.lease /\ new.remaining = row.remaining
  BY Zenon DEF Row
<1> QED
  BY Zenon, <1>1, <1>2

LEMMA AcknowledgedRow ==
    ASSUME NEW row \in Row, NEW new, new = [row EXCEPT !.acknowledged = TRUE]
    PROVE  /\ new \in Row /\ new.id = row.id /\ new.document = row.document
           /\ new.consumer = row.consumer /\ new.lease = row.lease /\ new.remaining = row.remaining
<1>1. /\ row.consumer \in Consumer \cup {Nobody} /\ row.lease \in LeaseID \cup {Nobody}
      /\ row.remaining \in 0 .. LeaseDuration
  BY Zenon DEF Row
<1>2. TRUE \in BOOLEAN
  BY Zenon
<1>3. new \in Row
  BY Zenon, <1>1, <1>2, Updated DEF Row
<1>4. /\ new.id = row.id /\ new.document = row.document
      /\ new.consumer = row.consumer /\ new.lease = row.lease /\ new.remaining = row.remaining
  BY Zenon DEF Row
<1> QED
  BY Zenon, <1>3, <1>4

\* A delivery is its four fields.
LEMMA SameDelivery ==
    ASSUME NEW d \in Deliveries, NEW e \in Deliveries,
           d.id = e.id, d.lease = e.lease, d.remaining = e.remaining, d.document = e.document
    PROVE  d = e
BY DEF Deliveries

\* The parts of the invariant about rows.
LEMMA Rows ==
    ASSUME IndInv
    PROVE  /\ outbox \in Seq(Row) /\ \A i \in DOMAIN outbox : outbox[i] \in Row
           /\ \A i, j \in DOMAIN outbox : outbox[i].id = outbox[j].id => i = j
           /\ history \in [Event -> Mutations] /\ quarantine \in [QuarantineID -> Records]
           /\ held \in [Consumer -> SUBSET Deliveries]
<1>1. outbox \in Seq(Row)
  BY Zenon DEF IndInv, TypeOK
<1>2. \A i \in DOMAIN outbox : outbox[i] \in Row
  BY <1>1
<1>3. \A i, j \in DOMAIN outbox : outbox[i].id = outbox[j].id => i = j
  BY Zenon DEF IndInv, RowsMatch
<1>4. history \in [Event -> Mutations] /\ quarantine \in [QuarantineID -> Records]
  BY Zenon DEF IndInv, TypeOK, Mutations, Records
<1>5. held \in [Consumer -> SUBSET Deliveries]
  BY Zenon DEF IndInv, TypeOK, Deliveries
<1> QED
  BY Zenon, <1>1, <1>2, <1>3, <1>4, <1>5

-----------------------------------------------------------------------------
(***************************************************************************)
(* What a step keeps that leaves the mutations alone and changes rows in   *)
(* place.                                                                  *)
(***************************************************************************)

\* Every place keeps its row.
SamePlaces ==
    /\ outbox' \in [DOMAIN outbox -> Row]
    /\ \A i \in DOMAIN outbox : outbox'[i].id = outbox[i].id
    /\ UNCHANGED <<revision, history>>

LEMMA RowsKeep ==
    ASSUME IndInv, SamePlaces, leases \subseteq leases',
           \A i \in DOMAIN outbox :
               /\ outbox'[i].document \in {Corrupt, history[outbox[i].id].via}
               /\ outbox'[i].lease \in leases' \cup {Nobody}
    PROVE  /\ outbox' \in Seq(Row) /\ DOMAIN outbox' = DOMAIN outbox
           /\ RevisionsAreKept' /\ RowsMatch'
<1>1. outbox' \in Seq(Row) /\ DOMAIN outbox' = DOMAIN outbox
  BY Zenon, Rows, MappedSequence DEF SamePlaces
<1>2. RevisionsAreKept'
  BY Zenon DEF IndInv, RevisionsAreKept, SamePlaces
<1>3. \A id \in Event : Announced(id)' = Announced(id)
  BY Zenon DEF Announced, SamePlaces
<1>4. ASSUME NEW i \in DOMAIN outbox'
      PROVE  /\ Announced(outbox[i].id)' /\ outbox'[i].document \in {Corrupt, history'[outbox'[i].id].via}
             /\ outbox'[i].id = outbox[i].id /\ outbox'[i].lease \in leases' \cup {Nobody}
  <2>1. i \in DOMAIN outbox /\ outbox'[i].id = outbox[i].id /\ history' = history
    BY Zenon, <1>1, <1>4 DEF SamePlaces
  <2>2. Announced(outbox[i].id) /\ history[outbox[i].id].via \in Kinds
    BY Zenon, <2>1 DEF IndInv, RowsMatch, Announced, Kinds
  <2>3. Announced(outbox[i].id)'
    BY Zenon, <2>1, <2>2 DEF Announced
  <2> QED
    BY Zenon, <2>1, <2>3
<1>5. \A i, j \in DOMAIN outbox' : outbox'[i].id = outbox'[j].id => i = j
  BY Zenon, <1>1, <1>4, Rows
<1>6. \A id \in Event : Announced(id)' => \E i \in DOMAIN outbox' : outbox'[i].id = id
  BY <1>1, <1>3, <1>4 DEF IndInv, RowsMatch
<1> QED
  BY Zenon, <1>1, <1>2, <1>4, <1>5, <1>6 DEF RowsMatch

\* A delivery matches its row while the row keeps its lease, holder and time.
LEMMA HoldingsKeep ==
    ASSUME IndInv, SamePlaces, DOMAIN outbox' = DOMAIN outbox, leases \subseteq leases',
           \A i \in DOMAIN outbox :
               /\ outbox'[i].lease = outbox[i].lease /\ outbox'[i].consumer = outbox[i].consumer
               /\ outbox'[i].remaining = outbox[i].remaining,
           \A c \in Consumer : held'[c] \subseteq held[c]
    PROVE  \A c \in Consumer : \A d \in held'[c] : HoldingMatches(c, d)'
<1> SUFFICES ASSUME NEW c \in Consumer, NEW d \in held'[c]
             PROVE  HoldingMatches(c, d)'
  BY Zenon
<1>1. d \in held[c] /\ HoldingMatches(c, d)
  BY Zenon DEF IndInv
<1>2. history' = history /\ \A i \in DOMAIN outbox : outbox'[i].id = outbox[i].id
  BY Zenon DEF SamePlaces
<1> QED
  BY <1>1, <1>2 DEF HoldingMatches

\* Quarantine records match their rows while rows without a lease that cannot be
\* decoded stay so.
LEMMA QuarantineKeeps ==
    ASSUME IndInv, SamePlaces, DOMAIN outbox' = DOMAIN outbox, quarantine' = quarantine,
           \A i \in DOMAIN outbox : outbox[i].remaining = 0 /\ outbox[i].document = Corrupt =>
               outbox'[i].remaining = 0 /\ outbox'[i].document = Corrupt
    PROVE  QuarantineMatches'
<1>1. \A q \in QuarantineID : Open(q)' = Open(q)
  BY Zenon DEF Open
<1>2. \A id : RowOf(id)' = RowOf(id)
  BY Zenon DEF RowOf, SamePlaces
<1>3. \A q, x \in QuarantineID :
          Open(q)' /\ Open(x)' /\ quarantine'[q].delivery = quarantine'[x].delivery => q = x
  BY Zenon, <1>1 DEF IndInv, QuarantineMatches
<1>4. ASSUME NEW q \in QuarantineID, Open(q)'
      PROVE  /\ RowOf(quarantine[q].delivery)' # {}
             /\ \A i \in RowOf(quarantine[q].delivery)' : outbox'[i].remaining = 0 /\ outbox'[i].document = Corrupt
  <2>1. RowOf(quarantine[q].delivery)' = RowOf(quarantine[q].delivery)
    BY Zenon, <1>2
  <2>2. /\ RowOf(quarantine[q].delivery) # {}
        /\ \A i \in RowOf(quarantine[q].delivery) : outbox[i].remaining = 0 /\ outbox[i].document = Corrupt
    BY Zenon, <1>1, <1>4 DEF IndInv, QuarantineMatches
  <2>3. RowOf(quarantine[q].delivery) \subseteq DOMAIN outbox
    BY Zenon DEF RowOf
  <2> QED
    BY Zenon, <2>1, <2>2, <2>3
<1> QED
  BY Zenon, <1>3, <1>4 DEF QuarantineMatches

\* A step that changes nothing.
LEMMA StutterKeeps ==
    ASSUME IndInv, UNCHANGED vars
    PROVE  IndInv'
<1>1. UNCHANGED <<revision, history, outbox, leases, quarantine, held, faults>>
  BY Zenon DEF vars
<1>2. TypeOK' /\ RevisionsAreKept'
  BY Zenon, <1>1 DEF IndInv, TypeOK, RevisionsAreKept
<1>3. RowsMatch'
  BY Zenon, <1>1 DEF IndInv, RowsMatch, Announced
<1>4. QuarantineMatches'
  BY <1>1 DEF IndInv, QuarantineMatches, Open, RowOf
<1>5. \A c \in Consumer : \A d \in held'[c] : HoldingMatches(c, d)'
  BY <1>1 DEF IndInv, HoldingMatches
<1> QED
  BY Zenon, <1>2, <1>3, <1>4, <1>5 DEF IndInv

-----------------------------------------------------------------------------
(***************************************************************************)
(* The mutating half.                                                      *)
(***************************************************************************)

\* A new mutation and its row.  The event had no row, because it had no mutation.
LEMMA CommitKeeps ==
    ASSUME ConstantsOK, IndInv, NEW id \in Event, NEW kind \in Kinds, history[id] = Uncommitted,
           history' \in [Event -> Mutations], history'[id].via = kind,
           \A e \in Event : history[e] # Uncommitted => history'[e] = history[e],
           \A e \in Event \ {id} : history[e] = Uncommitted => history'[e].via \in {"NONE", "CHILD_OFFER"},
           revision' \in [Assignment -> 0 .. MaxRevision], RevisionsAreKept',
           Enqueue(id, kind), UNCHANGED <<leases, quarantine, held, faults>>
    PROVE  IndInv'
<1>1. Uncommitted.via = "NONE"
  BY Zenon DEF Uncommitted
<1>2. \A i \in DOMAIN outbox : outbox[i].id \in Event /\ Announced(outbox[i].id) /\ outbox[i].id # id
  BY Zenon, <1>1, Rows DEF IndInv, RowsMatch, Announced, Row
<1>3. PICK row : row = [id |-> id, document |-> kind, consumer |-> Nobody,
                        lease |-> Nobody, remaining |-> 0, acknowledged |-> FALSE]
  BY Zenon
<1>4. row \in Row /\ row.id = id /\ row.document = kind /\ row.lease = Nobody
  BY <1>3 DEF Row, Kinds, ConstantsOK
<1>5. outbox' = Append(outbox, row)
  BY Zenon, <1>2, <1>3 DEF Enqueue, RowOf
<1>6. PICK n : /\ outbox' \in Seq(Row) /\ n \notin DOMAIN outbox
               /\ DOMAIN outbox' = DOMAIN outbox \cup {n} /\ outbox'[n] = row
               /\ \A i \in DOMAIN outbox : outbox'[i] = outbox[i]
  BY <1>4, <1>5, Rows, AppendedSequence
<1>7. /\ \A e \in Event : Announced(e)' <=> Announced(e) \/ e = id
      /\ \A e \in Event : Announced(e) => history'[e] = history[e]
  BY Zenon, <1>1 DEF Announced, Kinds
<1>8. TypeOK'
  BY Zenon, <1>6 DEF IndInv, TypeOK, Mutations
<1>9. RowsMatch'
  <2>1. \A i, j \in DOMAIN outbox' : outbox'[i].id = outbox'[j].id => i = j
    BY <1>2, <1>4, <1>6, Rows
  <2>2. \A e \in Event : Announced(e)' => \E i \in DOMAIN outbox' : outbox'[i].id = e
    <3>1. \A e \in Event : Announced(e) => \E i \in DOMAIN outbox : outbox[i].id = e
      BY Zenon DEF IndInv, RowsMatch
    <3> QED
      BY <1>4, <1>6, <1>7, <3>1
  <2>3. ASSUME NEW i \in DOMAIN outbox'
        PROVE  /\ history'[outbox'[i].id].via \in {"ASSIGNMENT", "DELEGATION", "INTERACTION"}
               /\ outbox'[i].document \in {Corrupt, history'[outbox'[i].id].via}
               /\ outbox'[i].lease \in leases' \cup {Nobody}
    <3>1. CASE i = n
      BY Zenon, <1>4, <1>6, <3>1 DEF Kinds
    <3>2. CASE i \in DOMAIN outbox
      <4>1. outbox'[i] = outbox[i] /\ Announced(outbox[i].id) /\ history'[outbox[i].id] = history[outbox[i].id]
        BY Zenon, <1>2, <1>6, <1>7, <3>2
      <4> QED
        BY Zenon, <3>2, <4>1 DEF IndInv, RowsMatch, Announced
    <3> QED
      BY Zenon, <1>6, <3>1, <3>2
  <2> QED
    BY Zenon, <2>1, <2>2, <2>3 DEF RowsMatch, Announced
<1>10. QuarantineMatches'
  <2>1. \A q \in QuarantineID : Open(q)' = Open(q)
    BY Zenon DEF Open
  <2>2. \A q, x \in QuarantineID :
            Open(q)' /\ Open(x)' /\ quarantine'[q].delivery = quarantine'[x].delivery => q = x
    BY Zenon, <2>1 DEF IndInv, QuarantineMatches
  <2>3. ASSUME NEW q \in QuarantineID, Open(q)'
        PROVE  /\ RowOf(quarantine[q].delivery)' # {}
               /\ \A i \in RowOf(quarantine[q].delivery)' : outbox'[i].remaining = 0 /\ outbox'[i].document = Corrupt
    <3>1. /\ RowOf(quarantine[q].delivery) # {}
          /\ \A i \in RowOf(quarantine[q].delivery) : outbox[i].remaining = 0 /\ outbox[i].document = Corrupt
      BY Zenon, <2>1, <2>3 DEF IndInv, QuarantineMatches
    <3>2. quarantine[q].delivery # id
      BY Zenon, <1>2, <3>1 DEF RowOf
    <3>3. RowOf(quarantine[q].delivery)' = RowOf(quarantine[q].delivery)
      BY Zenon, <1>4, <1>6, <3>2 DEF RowOf
    <3>4. \A i \in RowOf(quarantine[q].delivery) : outbox'[i] = outbox[i]
      BY Zenon, <1>6 DEF RowOf
    <3> QED
      BY <3>1, <3>3, <3>4
  <2> QED
    BY Zenon, <2>2, <2>3 DEF QuarantineMatches
<1>11. ASSUME NEW c \in Consumer, NEW d \in held'[c]
       PROVE  HoldingMatches(c, d)'
  <2>1. d \in held[c] /\ d \in Deliveries /\ HoldingMatches(c, d)
    BY Zenon, Rows DEF IndInv
  <2>2. d.id \in Event /\ d.lease # Nobody /\ Announced(d.id) /\ history'[d.id] = history[d.id]
    BY <1>7, <2>1 DEF Deliveries, HoldingMatches, Announced, ConstantsOK
  <2> QED
    BY <1>4, <1>6, <2>1, <2>2 DEF HoldingMatches
<1> QED
  BY Zenon, <1>8, <1>9, <1>10, <1>11 DEF IndInv

\* A replay finds its revision made, so it is not a new mutation and adds no row.
LEMMA ReplayIsOld ==
    ASSUME ConstantsOK, IndInv, NEW id \in Event, NEW a \in Assignment, NEW expected \in Nat,
           history[id].via \in {"ASSIGNMENT", "DELEGATION", "CHILD_OFFER"},
           history[id].assignment = a, history[id].revision = expected + 1
    PROVE  ~NewMutation(a, expected)
<1>1. expected + 1 <= revision[a]
  BY Zenon DEF IndInv, RevisionsAreKept
<1>2. revision[a] \in Nat
  BY DEF IndInv, TypeOK, ConstantsOK
<1> QED
  BY <1>1, <1>2 DEF NewMutation

LEMMA AssignmentKeeps ==
    ASSUME ConstantsOK, IndInv, NEW a \in Assignment, NEW expected \in 0 .. MaxRevision, NEW id \in Event,
           CommitAssignment(a, expected, id)
    PROVE  IndInv'
<1>1. expected \in Nat /\ MaxRevision \in Nat /\ expected + 1 \in 0 .. MaxRevision
  BY DEF CommitAssignment, ConstantsOK
<1>2. CASE AssignmentReplays(id, a, expected) /\ UNCHANGED <<revision, history>>
  <2>1. /\ history[id].via \in {"ASSIGNMENT", "DELEGATION", "CHILD_OFFER"}
        /\ history[id].assignment = a /\ history[id].revision = expected + 1
    BY <1>2 DEF AssignmentReplays, Mutation
  <2>2. ~NewMutation(a, expected)
    BY Zenon, <1>1, <2>1, ReplayIsOld
  <2> QED
    BY Zenon, <1>2, <2>2, StutterKeeps DEF CommitAssignment, vars
<1>3. CASE /\ history[id] = Uncommitted /\ revision[a] = expected
           /\ revision' = [revision EXCEPT ![a] = expected + 1]
           /\ history' = [history EXCEPT ![id] = Mutation("ASSIGNMENT", a, expected + 1, Nobody)]
  <2>1. PICK m : m = Mutation("ASSIGNMENT", a, expected + 1, Nobody)
    BY Zenon
  <2>2. m \in Mutations /\ m.via = "ASSIGNMENT" /\ m.assignment = a /\ m.revision = expected + 1
    BY Zenon, <1>1, <2>1 DEF Mutation, Mutations
  <2>3. /\ history' \in [Event -> Mutations] /\ history'[id] = m
        /\ \A e \in Event \ {id} : history'[e] = history[e]
    BY Zenon, <1>3, <2>1, <2>2, Rows
  <2>4. revision \in [Assignment -> 0 .. MaxRevision]
    BY Zenon DEF IndInv, TypeOK
  <2>5. /\ revision' \in [Assignment -> 0 .. MaxRevision] /\ revision'[a] = expected + 1
        /\ \A b \in Assignment : revision[b] <= revision'[b]
    BY <1>1, <1>3, <2>4
  <2>6. RevisionsAreKept'
    <3> SUFFICES ASSUME NEW e \in Event, history'[e].via \in {"ASSIGNMENT", "DELEGATION", "CHILD_OFFER"}
                 PROVE  /\ history'[e].assignment \in Assignment
                        /\ history'[e].revision <= revision'[history'[e].assignment]
      BY Zenon DEF RevisionsAreKept
    <3>1. CASE e = id
      BY <1>1, <2>2, <2>3, <2>5, <3>1
    <3>2. CASE e # id
      <4>1. /\ history'[e] = history[e] /\ history[e].assignment \in Assignment
            /\ history[e].revision <= revision[history[e].assignment]
        BY Zenon, <2>3, <3>2 DEF IndInv, RevisionsAreKept
      <4>2. history[e].revision \in Nat /\ \A b \in Assignment : revision[b] \in Nat /\ revision'[b] \in Nat
        BY <1>1, <2>4, <2>5, Rows DEF Mutations
      <4> QED
        BY <2>5, <4>1, <4>2
    <3> QED
      BY Zenon, <3>1, <3>2
  <2>7. Enqueue(id, "ASSIGNMENT") /\ UNCHANGED <<leases, quarantine, held, faults>>
    BY Zenon, <1>3 DEF CommitAssignment, NewMutation
  <2>8. /\ \A e \in Event : history[e] # Uncommitted => history'[e] = history[e]
        /\ \A e \in Event \ {id} : history[e] = Uncommitted => history'[e].via \in {"NONE", "CHILD_OFFER"}
    BY <1>3, <2>3 DEF Uncommitted
  <2> QED
    BY Zenon, <1>3, <2>2, <2>3, <2>5, <2>6, <2>7, <2>8, CommitKeeps DEF Kinds
<1> QED
  BY Zenon, <1>2, <1>3 DEF CommitAssignment

LEMMA DelegationKeeps ==
    ASSUME ConstantsOK, IndInv, NEW a \in Assignment, NEW expected \in 0 .. MaxRevision, NEW id \in Event,
           NEW child \in Assignment, NEW childID \in Event, CommitDelegation(a, expected, id, child, childID)
    PROVE  IndInv'
<1>1. /\ expected \in Nat /\ MaxRevision \in Nat /\ expected + 1 \in 0 .. MaxRevision /\ 1 \in 0 .. MaxRevision
      /\ a # child /\ id # childID
  BY DEF CommitDelegation, ConstantsOK
<1>2. CASE DelegationReplays(id, a, expected, child, childID) /\ UNCHANGED <<revision, history>>
  <2>1. /\ history[id].via \in {"ASSIGNMENT", "DELEGATION", "CHILD_OFFER"}
        /\ history[id].assignment = a /\ history[id].revision = expected + 1
    BY <1>2 DEF DelegationReplays, Mutation
  <2>2. ~NewMutation(a, expected)
    BY Zenon, <1>1, <2>1, ReplayIsOld
  <2> QED
    BY Zenon, <1>2, <2>2, StutterKeeps DEF CommitDelegation, vars
<1>3. CASE /\ history[id] = Uncommitted /\ history[childID] = Uncommitted
           /\ revision[a] = expected /\ revision[child] = 0
           /\ revision' = [revision EXCEPT ![a] = expected + 1, ![child] = 1]
           /\ history' = [history EXCEPT ![id] = Mutation("DELEGATION", a, expected + 1, child),
                                         ![childID] = Mutation("CHILD_OFFER", child, 1, Nobody)]
  <2>1. PICK m, o : m = Mutation("DELEGATION", a, expected + 1, child) /\ o = Mutation("CHILD_OFFER", child, 1, Nobody)
    BY Zenon
  <2>2. /\ m \in Mutations /\ m.via = "DELEGATION" /\ m.assignment = a /\ m.revision = expected + 1
        /\ o \in Mutations /\ o.via = "CHILD_OFFER" /\ o.assignment = child /\ o.revision = 1
    BY Zenon, <1>1, <2>1 DEF Mutation, Mutations
  <2>3. /\ history' \in [Event -> Mutations] /\ history'[id] = m /\ history'[childID] = o
        /\ \A e \in Event \ {id, childID} : history'[e] = history[e]
    BY Zenon, <1>1, <1>3, <2>1, <2>2, Rows
  <2>4. revision \in [Assignment -> 0 .. MaxRevision]
    BY Zenon DEF IndInv, TypeOK
  <2>5. /\ revision' \in [Assignment -> 0 .. MaxRevision] /\ revision'[a] = expected + 1 /\ revision'[child] = 1
        /\ \A b \in Assignment : revision[b] <= revision'[b]
    BY <1>1, <1>3, <2>4
  <2>6. RevisionsAreKept'
    <3> SUFFICES ASSUME NEW e \in Event, history'[e].via \in {"ASSIGNMENT", "DELEGATION", "CHILD_OFFER"}
                 PROVE  /\ history'[e].assignment \in Assignment
                        /\ history'[e].revision <= revision'[history'[e].assignment]
      BY Zenon DEF RevisionsAreKept
    <3>1. CASE e \in {id, childID}
      BY <1>1, <2>2, <2>3, <2>5, <3>1
    <3>2. CASE e \notin {id, childID}
      <4>1. /\ history'[e] = history[e] /\ history[e].assignment \in Assignment
            /\ history[e].revision <= revision[history[e].assignment]
        BY Zenon, <2>3, <3>2 DEF IndInv, RevisionsAreKept
      <4>2. history[e].revision \in Nat /\ \A b \in Assignment : revision[b] \in Nat /\ revision'[b] \in Nat
        BY <1>1, <2>4, <2>5, Rows DEF Mutations
      <4> QED
        BY <2>5, <4>1, <4>2
    <3> QED
      BY Zenon, <3>1, <3>2
  <2>7. Enqueue(id, "DELEGATION") /\ UNCHANGED <<leases, quarantine, held, faults>>
    BY Zenon, <1>3 DEF CommitDelegation, NewMutation
  <2>8. /\ \A e \in Event : history[e] # Uncommitted => history'[e] = history[e]
        /\ \A e \in Event \ {id} : history[e] = Uncommitted => history'[e].via \in {"NONE", "CHILD_OFFER"}
    BY <1>3, <2>2, <2>3 DEF Uncommitted
  <2> QED
    BY <1>3, <2>2, <2>3, <2>5, <2>6, <2>7, <2>8, CommitKeeps DEF Kinds
<1> QED
  BY Zenon, <1>2, <1>3 DEF CommitDelegation

LEMMA InteractionKeeps ==
    ASSUME ConstantsOK, IndInv, NEW a \in Assignment, NEW id \in Event, AppendInteractionEvent(a, id)
    PROVE  IndInv'
<1>1. CASE history[id] = Mutation("INTERACTION", a, 0, Nobody) /\ UNCHANGED <<history, outbox>>
  BY Zenon, <1>1, StutterKeeps DEF AppendInteractionEvent, vars
<1>2. CASE /\ history[id] = Uncommitted
           /\ history' = [history EXCEPT ![id] = Mutation("INTERACTION", a, 0, Nobody)]
           /\ Enqueue(id, "INTERACTION")
  <2>1. PICK m : m = Mutation("INTERACTION", a, 0, Nobody)
    BY Zenon
  <2>2. m \in Mutations /\ m.via = "INTERACTION"
    BY <2>1 DEF Mutation, Mutations, ConstantsOK
  <2>3. /\ history' \in [Event -> Mutations] /\ history'[id] = m
        /\ \A e \in Event \ {id} : history'[e] = history[e]
    BY Zenon, <1>2, <2>1, <2>2, Rows
  <2>4. revision' = revision /\ revision' \in [Assignment -> 0 .. MaxRevision] /\ UNCHANGED <<leases, quarantine, held, faults>>
    BY Zenon DEF AppendInteractionEvent, IndInv, TypeOK
  <2>5. RevisionsAreKept'
    BY Zenon, <2>2, <2>3, <2>4 DEF IndInv, RevisionsAreKept
  <2>6. /\ \A e \in Event : history[e] # Uncommitted => history'[e] = history[e]
        /\ \A e \in Event \ {id} : history[e] = Uncommitted => history'[e].via \in {"NONE", "CHILD_OFFER"}
    BY <1>2, <2>3 DEF Uncommitted
  <2> QED
    BY Zenon, <1>2, <2>2, <2>3, <2>4, <2>5, <2>6, CommitKeeps DEF Kinds
<1> QED
  BY Zenon, <1>1, <1>2 DEF AppendInteractionEvent

-----------------------------------------------------------------------------
(***************************************************************************)
(* The delivery half.                                                      *)
(***************************************************************************)

\* A poll leases rows that nobody holds, under a lease ID nobody ever had.
LEMMA PollKeeps ==
    ASSUME ConstantsOK, IndInv, NEW c \in Consumer, NEW lease \in LeaseID, NEW limit, NEW lost \in BOOLEAN,
           PollOutbox(c, lease, limit, lost)
    PROVE  IndInv'
<1>1. PICK batch : batch = Batch(limit)
  BY Zenon
<1>2. /\ \A i \in batch : outbox[i].document # Corrupt
      /\ lease \notin leases /\ leases' = leases \cup {lease}
      /\ outbox' = [i \in DOMAIN outbox |->
                      IF i \in batch
                      THEN [outbox[i] EXCEPT !.consumer = c, !.lease = lease, !.remaining = LeaseDuration]
                      ELSE outbox[i]]
      /\ held' = IF lost THEN held
                 ELSE [held EXCEPT ![c] = @ \cup {[id |-> outbox[i].id, lease |-> lease,
                                                   document |-> outbox[i].document,
                                                   remaining |-> LeaseDuration] : i \in batch}]
      /\ UNCHANGED <<revision, history, quarantine, faults>>
  BY Zenon, <1>1 DEF PollOutbox, FreshLease
<1>3. \A i \in batch : i \in DOMAIN outbox /\ outbox[i].remaining = 0
  BY Zenon, <1>1 DEF Batch, Deliverable
<1>4. ASSUME NEW i \in batch
      PROVE  /\ outbox'[i] \in Row /\ outbox'[i].id = outbox[i].id /\ outbox'[i].document = outbox[i].document
             /\ outbox'[i].consumer = c /\ outbox'[i].lease = lease /\ outbox'[i].remaining = LeaseDuration
  <2>1. i \in DOMAIN outbox /\ outbox[i] \in Row
    BY Zenon, <1>3, <1>4, Rows
  <2>2. outbox'[i] = Leased(outbox[i], c, lease, LeaseDuration)
    BY Zenon, <1>2, <1>4, <2>1 DEF Leased
  <2>3. LeaseDuration \in 0 .. LeaseDuration
    BY DEF ConstantsOK
  <2>4. c \in Holders /\ lease \in Leases
    BY Zenon DEF Holders, Leases
  <2>5. PICK row : row = outbox[i]
    BY Zenon
  <2>6. /\ Leased(row, c, lease, LeaseDuration) \in Row
        /\ Leased(row, c, lease, LeaseDuration).id = row.id
        /\ Leased(row, c, lease, LeaseDuration).document = row.document
        /\ Leased(row, c, lease, LeaseDuration).consumer = c
        /\ Leased(row, c, lease, LeaseDuration).lease = lease
        /\ Leased(row, c, lease, LeaseDuration).remaining = LeaseDuration
    BY <2>1, <2>3, <2>4, <2>5, LeasedRow
  <2> QED
    BY Zenon, <2>2, <2>5, <2>6
<1>5. \A i \in DOMAIN outbox : i \notin batch => outbox'[i] = outbox[i]
  BY Zenon, <1>2
<1>6. \A i \in DOMAIN outbox : outbox'[i] \in Row /\ outbox'[i].id = outbox[i].id
  BY Zenon, <1>4, <1>5, Rows
<1>7. SamePlaces
  BY Zenon, <1>2, <1>6 DEF SamePlaces
<1>8. \A i \in DOMAIN outbox :
          /\ outbox[i].document \in {Corrupt, history[outbox[i].id].via}
          /\ outbox[i].lease \in leases \cup {Nobody}
  BY Zenon DEF IndInv, RowsMatch
<1>9. \A i \in DOMAIN outbox :
          /\ outbox'[i].document \in {Corrupt, history[outbox[i].id].via}
          /\ outbox'[i].lease \in leases' \cup {Nobody}
  <2> SUFFICES ASSUME NEW i \in DOMAIN outbox
               PROVE  /\ outbox'[i].document \in {Corrupt, history[outbox[i].id].via}
                      /\ outbox'[i].lease \in leases' \cup {Nobody}
    BY Zenon
  <2>1. CASE i \in batch
    <3>1. outbox'[i].document = outbox[i].document /\ outbox'[i].lease = lease
      BY Zenon, <1>4, <2>1
    <3>2. lease \in leases'
      BY Zenon, <1>2
    <3> QED
      BY Zenon, <1>8, <3>1, <3>2
  <2>2. CASE i \notin batch
    BY Zenon, <1>2, <1>5, <1>8, <2>2
  <2> QED
    BY Zenon, <2>1, <2>2
<1>10. outbox' \in Seq(Row) /\ DOMAIN outbox' = DOMAIN outbox /\ RevisionsAreKept' /\ RowsMatch'
  BY Zenon, <1>2, <1>7, <1>9, RowsKeep
<1>11. QuarantineMatches'
  BY Zenon, <1>2, <1>5, <1>7, <1>10, QuarantineKeeps
<1>12. ASSUME NEW i \in batch
       PROVE  [id |-> outbox[i].id, lease |-> lease, document |-> outbox[i].document,
               remaining |-> LeaseDuration] \in Deliveries
  <2>1. outbox[i] \in Row /\ outbox[i].document # Corrupt
    BY Zenon, <1>2, <1>3, <1>12, Rows
  <2>2. outbox[i].id \in Event /\ outbox[i].document \in {"ASSIGNMENT", "DELEGATION", "INTERACTION"}
    BY Zenon, <2>1 DEF Row
  <2>3. LeaseDuration \in 0 .. LeaseDuration
    BY DEF ConstantsOK
  <2> QED
    BY Zenon, <2>2, <2>3 DEF Deliveries
<1>13. /\ held' \in [Consumer -> SUBSET Deliveries]
       /\ \A x \in Consumer : \A d \in held'[x] :
              \/ d \in held[x]
              \/ x = c /\ \E i \in batch : d = [id |-> outbox[i].id, lease |-> lease, document |-> outbox[i].document,
                                                remaining |-> LeaseDuration]
  <2>1. held \in [Consumer -> SUBSET Deliveries]
    BY Zenon, Rows
  <2>2. PICK new : new = {[id |-> outbox[i].id, lease |-> lease, document |-> outbox[i].document,
                           remaining |-> LeaseDuration] : i \in batch}
    BY Zenon
  <2>3. new \subseteq Deliveries
    BY Zenon, <1>12, <2>2
  <2>4. held' = held \/ held' = [held EXCEPT ![c] = @ \cup new]
    BY Zenon, <1>2, <2>2
  <2>5. held' \in [Consumer -> SUBSET Deliveries]
    BY Zenon, <2>1, <2>3, <2>4
  <2>6. \A x \in Consumer : held'[x] = held[x] \/ (x = c /\ held'[x] = held[x] \cup new)
    BY Zenon, <2>1, <2>4
  <2> QED
    BY <2>2, <2>5, <2>6
<1>14. TypeOK'
  <2>1. leases' \subseteq LeaseID
    BY Zenon, <1>2 DEF IndInv, TypeOK
  <2> QED
    BY Zenon, <1>2, <1>10, <1>13, <2>1 DEF IndInv, TypeOK, Deliveries
<1>15. ASSUME NEW x \in Consumer, NEW d \in held'[x], d \in held[x]
       PROVE  HoldingMatches(x, d)'
  <2>1. HoldingMatches(x, d) /\ d.lease \in leases /\ d.lease # lease
    <3>1. HoldingMatches(x, d)
      BY Zenon, <1>15 DEF IndInv
    <3>2. d.lease \in leases
      BY Zenon, <3>1 DEF HoldingMatches
    <3> QED
      BY Zenon, <1>2, <3>1, <3>2
  <2>2. \A i \in DOMAIN outbox : outbox'[i].lease = d.lease => outbox'[i] = outbox[i]
    BY Zenon, <1>4, <1>5, <2>1
  <2>3. d.remaining > 0 => \E i \in DOMAIN outbox :
            outbox[i].id = d.id /\ outbox[i].lease = d.lease /\ outbox[i].remaining = d.remaining
    BY Zenon, <2>1 DEF HoldingMatches
  <2>4. ~(0 > 0)
    OBVIOUS
  <2>5. d.remaining > 0 => \E i \in DOMAIN outbox' : outbox'[i].id = d.id /\ outbox'[i].lease = d.lease
    BY Zenon, <1>3, <1>5, <1>10, <2>3, <2>4
  <2>6. d.document = history'[d.id].via /\ d.lease \in leases'
    BY Zenon, <1>2, <2>1 DEF HoldingMatches
  <2>7. \A i \in DOMAIN outbox' : outbox'[i].id = d.id /\ outbox'[i].lease = d.lease =>
            outbox'[i].consumer = x /\ outbox'[i].remaining = d.remaining
    BY Zenon, <1>10, <2>1, <2>2 DEF HoldingMatches
  <2> QED
    BY Zenon, <2>5, <2>6, <2>7 DEF HoldingMatches
<1>16. ASSUME NEW d \in held'[c], NEW i \in batch,
              d = [id |-> outbox[i].id, lease |-> lease, document |-> outbox[i].document, remaining |-> LeaseDuration]
       PROVE  HoldingMatches(c, d)'
  <2>1. d.id = outbox[i].id /\ d.lease = lease /\ d.document = outbox[i].document /\ d.remaining = LeaseDuration
    BY Zenon, <1>16
  <2>2. i \in DOMAIN outbox' /\ outbox'[i].id = d.id /\ outbox'[i].lease = d.lease
    BY Zenon, <1>3, <1>4, <1>10, <1>16, <2>1
  <2>3. \A j \in DOMAIN outbox' : outbox'[j].id = d.id => j = i
    BY Zenon, <1>3, <1>6, <1>10, <1>16, <2>1, Rows
  <2>4. d.document = history'[d.id].via /\ d.lease \in leases'
    BY Zenon, <1>2, <1>3, <1>8, <1>16, <2>1
  <2> QED
    BY Zenon, <1>4, <1>16, <2>1, <2>2, <2>3, <2>4 DEF HoldingMatches
<1> QED
  BY Zenon, <1>10, <1>11, <1>13, <1>14, <1>15, <1>16 DEF IndInv

\* Acknowledging touches neither lease nor document.
LEMMA AcknowledgeKeeps ==
    ASSUME IndInv, NEW c \in Consumer, NEW d \in held[c], AcknowledgeOutbox(c, d)
    PROVE  IndInv'
<1>1. \A i \in DOMAIN outbox :
          \/ outbox'[i] = outbox[i]
          \/ outbox'[i] = [outbox[i] EXCEPT !.acknowledged = TRUE]
  BY Zenon DEF AcknowledgeOutbox
<1>2. ASSUME NEW i \in DOMAIN outbox
      PROVE  /\ outbox'[i] \in Row /\ outbox'[i].id = outbox[i].id /\ outbox'[i].document = outbox[i].document
             /\ outbox'[i].consumer = outbox[i].consumer /\ outbox'[i].lease = outbox[i].lease
             /\ outbox'[i].remaining = outbox[i].remaining
  <2>1. outbox[i] \in Row
    BY Zenon, Rows
  <2> QED
    BY Zenon, <1>1, <1>2, <2>1, AcknowledgedRow
<1>3. SamePlaces /\ UNCHANGED <<leases, quarantine, faults>>
  BY Zenon, <1>2 DEF SamePlaces, AcknowledgeOutbox
<1>4. outbox' \in Seq(Row) /\ DOMAIN outbox' = DOMAIN outbox /\ RevisionsAreKept' /\ RowsMatch'
  <2>1. \A i \in DOMAIN outbox : /\ outbox[i].document \in {Corrupt, history[outbox[i].id].via}
                                 /\ outbox[i].lease \in leases \cup {Nobody}
    BY Zenon DEF IndInv, RowsMatch
  <2>2. \A i \in DOMAIN outbox : /\ outbox'[i].document \in {Corrupt, history[outbox[i].id].via}
                                 /\ outbox'[i].lease \in leases' \cup {Nobody}
    BY Zenon, <1>2, <1>3, <2>1
  <2> QED
    BY Zenon, <1>3, <2>2, RowsKeep
<1>5. held' \in [Consumer -> SUBSET Deliveries] /\ \A x \in Consumer : held'[x] \subseteq held[x]
  BY Zenon, Rows DEF AcknowledgeOutbox
<1>6. QuarantineMatches'
  BY Zenon, <1>2, <1>3, <1>4, QuarantineKeeps
<1>7. \A x \in Consumer : \A e \in held'[x] : HoldingMatches(x, e)'
  BY Zenon, <1>2, <1>3, <1>4, <1>5, HoldingsKeep
<1>8. TypeOK'
  BY Zenon, <1>3, <1>4, <1>5 DEF IndInv, TypeOK, Deliveries, SamePlaces
<1> QED
  BY Zenon, <1>4, <1>6, <1>7, <1>8 DEF IndInv

LEMMA CrashKeeps ==
    ASSUME IndInv, NEW c \in Consumer, ConsumerCrash(c)
    PROVE  IndInv'
<1>1. UNCHANGED <<revision, history, outbox, leases, quarantine, faults>>
  BY Zenon DEF ConsumerCrash
<1>2. SamePlaces /\ DOMAIN outbox' = DOMAIN outbox
  <2>1. outbox \in Seq(Row) /\ \A i \in DOMAIN outbox : outbox[i] \in Row
    BY Zenon, Rows
  <2>2. outbox \in [DOMAIN outbox -> Row]
    BY <2>1
  <2> QED
    BY Zenon, <1>1, <2>2 DEF SamePlaces
<1>3. held' \in [Consumer -> SUBSET Deliveries] /\ \A x \in Consumer : held'[x] \subseteq held[x]
  BY Zenon, Rows DEF ConsumerCrash
<1>4. RevisionsAreKept' /\ RowsMatch'
  BY Zenon, <1>1 DEF IndInv, RevisionsAreKept, RowsMatch, Announced
<1>5. QuarantineMatches'
  BY Zenon, <1>1, <1>2, QuarantineKeeps
<1>6. \A x \in Consumer : \A e \in held'[x] : HoldingMatches(x, e)'
  BY Zenon, <1>1, <1>2, <1>3, HoldingsKeep
<1>7. TypeOK'
  BY Zenon, <1>1, <1>3 DEF IndInv, TypeOK, Deliveries
<1> QED
  BY Zenon, <1>4, <1>5, <1>6, <1>7 DEF IndInv

\* A row that rots keeps its lease.
LEMMA RotKeeps ==
    ASSUME ConstantsOK, IndInv, NEW i \in DOMAIN outbox, Rot(i)
    PROVE  IndInv'
<1>1. \A j \in DOMAIN outbox : j # i => outbox'[j] = outbox[j]
  BY Zenon DEF Rot
<1>2. /\ outbox'[i] \in Row /\ outbox'[i].id = outbox[i].id /\ outbox'[i].document = Corrupt
      /\ outbox'[i].consumer = outbox[i].consumer /\ outbox'[i].lease = outbox[i].lease
      /\ outbox'[i].remaining = outbox[i].remaining
  <2>1. outbox[i] \in Row
    BY Zenon, Rows
  <2>2. outbox'[i] = [outbox[i] EXCEPT !.document = Corrupt]
    BY Zenon DEF Rot
  <2> QED
    BY Zenon, <2>1, <2>2 DEF Row
<1>3. DOMAIN outbox' = DOMAIN outbox /\ UNCHANGED <<revision, history, leases, quarantine, held>>
  BY Zenon DEF Rot
<1>4. SamePlaces
  <2>1. \A j \in DOMAIN outbox : outbox'[j] \in Row /\ outbox'[j].id = outbox[j].id
    BY Zenon, <1>1, <1>2, Rows
  <2>2. outbox' = [j \in DOMAIN outbox |-> outbox'[j]]
    BY Zenon DEF Rot
  <2>3. outbox' \in [DOMAIN outbox -> Row]
    BY Zenon, <2>1, <2>2
  <2> QED
    BY Zenon, <1>3, <2>1, <2>3 DEF SamePlaces
<1>5. outbox' \in Seq(Row) /\ RevisionsAreKept' /\ RowsMatch'
  <2>1. \A j \in DOMAIN outbox : /\ outbox[j].document \in {Corrupt, history[outbox[j].id].via}
                                 /\ outbox[j].lease \in leases \cup {Nobody}
    BY Zenon DEF IndInv, RowsMatch
  <2>2. \A j \in DOMAIN outbox : /\ outbox'[j].document \in {Corrupt, history[outbox[j].id].via}
                                 /\ outbox'[j].lease \in leases' \cup {Nobody}
    BY Zenon, <1>1, <1>2, <1>3, <2>1
  <2> QED
    BY Zenon, <1>3, <1>4, <2>2, RowsKeep
<1>6. QuarantineMatches'
  BY Zenon, <1>1, <1>2, <1>3, <1>4, QuarantineKeeps
<1>7. \A x \in Consumer : \A e \in held'[x] : HoldingMatches(x, e)'
  BY Zenon, <1>1, <1>2, <1>3, <1>4, HoldingsKeep
<1>8. TypeOK'
  <2>1. faults' \in 0 .. MaxFaults
    BY DEF IndInv, TypeOK, Rot, ConstantsOK
  <2> QED
    BY Zenon, <1>3, <1>5, <2>1 DEF IndInv, TypeOK
<1> QED
  BY Zenon, <1>5, <1>6, <1>7, <1>8 DEF IndInv

\* Taking the expired lease off a row disturbs no delivery: a live one is of
\* another row, an expired one no longer matches.
LEMMA UnleasedKeeps ==
    ASSUME ConstantsOK, IndInv, NEW i \in DOMAIN outbox, outbox[i].remaining = 0, NEW document,
           document \in {Corrupt, history[outbox[i].id].via}, document \in Kinds \cup {Corrupt},
           outbox' = [outbox EXCEPT ![i] = [Unleased(@) EXCEPT !.document = document]],
           UNCHANGED <<revision, history, leases, held, faults>>
    PROVE  /\ SamePlaces /\ outbox' \in Seq(Row) /\ DOMAIN outbox' = DOMAIN outbox
           /\ \A j \in DOMAIN outbox : j # i => outbox'[j] = outbox[j]
           /\ outbox'[i].remaining = 0 /\ outbox'[i].document = document
           /\ RevisionsAreKept' /\ RowsMatch'
           /\ \A x \in Consumer : \A e \in held'[x] : HoldingMatches(x, e)'
<1>1. DOMAIN outbox' = DOMAIN outbox /\ \A j \in DOMAIN outbox : j # i => outbox'[j] = outbox[j]
  BY Zenon
<1>2. /\ outbox'[i] \in Row /\ outbox'[i].id = outbox[i].id /\ outbox'[i].document = document
      /\ outbox'[i].lease = Nobody /\ outbox'[i].remaining = 0
  <2>1. outbox[i] \in Row
    BY Zenon, Rows
  <2>2. outbox'[i] = [[outbox[i] EXCEPT !.consumer = Nobody, !.lease = Nobody, !.remaining = 0]
                        EXCEPT !.document = document]
    BY Zenon DEF Unleased
  <2>3. 0 \in 0 .. LeaseDuration
    BY DEF ConstantsOK
  <2>4. PICK free : free = Leased(outbox[i], Nobody, Nobody, 0)
    BY Zenon
  <2>5. free \in Row /\ free.id = outbox[i].id /\ free.lease = Nobody /\ free.remaining = 0
    <3>1. Nobody \in Holders /\ Nobody \in Leases
      BY Zenon DEF Holders, Leases
    <3>2. PICK row : row = outbox[i]
      BY Zenon
    <3>3. /\ Leased(row, Nobody, Nobody, 0) \in Row /\ Leased(row, Nobody, Nobody, 0).id = row.id
          /\ Leased(row, Nobody, Nobody, 0).lease = Nobody /\ Leased(row, Nobody, Nobody, 0).remaining = 0
      BY <2>1, <2>3, <3>1, <3>2, LeasedRow
    <3> QED
      BY Zenon, <2>4, <3>2, <3>3
  <2>6. outbox'[i] = [free EXCEPT !.document = document]
    BY Zenon, <2>2, <2>4 DEF Leased
  <2> QED
    BY <2>5, <2>6, RewrittenRow
<1>3. SamePlaces
  <2>1. \A j \in DOMAIN outbox : outbox'[j] \in Row /\ outbox'[j].id = outbox[j].id
    BY Zenon, <1>1, <1>2, Rows
  <2>2. outbox' = [j \in DOMAIN outbox |-> outbox'[j]]
    BY Zenon
  <2>3. outbox' \in [DOMAIN outbox -> Row]
    BY Zenon, <2>1, <2>2
  <2> QED
    BY Zenon, <2>1, <2>3 DEF SamePlaces
<1>4. outbox' \in Seq(Row) /\ RevisionsAreKept' /\ RowsMatch'
  <2>1. \A j \in DOMAIN outbox : /\ outbox[j].document \in {Corrupt, history[outbox[j].id].via}
                                 /\ outbox[j].lease \in leases \cup {Nobody}
    BY Zenon DEF IndInv, RowsMatch
  <2>2. \A j \in DOMAIN outbox : /\ outbox'[j].document \in {Corrupt, history[outbox[j].id].via}
                                 /\ outbox'[j].lease \in leases' \cup {Nobody}
    BY Zenon, <1>1, <1>2, <2>1
  <2> QED
    BY Zenon, <1>3, <2>2, RowsKeep
<1>5. ASSUME NEW x \in Consumer, NEW e \in held'[x]
      PROVE  HoldingMatches(x, e)'
  <2>1. e \in held[x] /\ e \in Deliveries /\ HoldingMatches(x, e)
    BY Zenon, <1>5, Rows DEF IndInv
  <2>2. e.lease # Nobody
    BY Zenon, <2>1 DEF Deliveries, ConstantsOK
  <2>3. \A j \in DOMAIN outbox : outbox'[j].lease = e.lease => outbox'[j] = outbox[j]
    BY Zenon, <1>1, <1>2, <2>2
  <2>4. ~(0 > 0)
    OBVIOUS
  <2>5. e.remaining > 0 => \E j \in DOMAIN outbox : j # i /\ outbox[j].id = e.id /\ outbox[j].lease = e.lease
    BY Zenon, <2>1, <2>4 DEF HoldingMatches
  <2>6. history' = history /\ leases' = leases
    BY Zenon
  <2>7. e.document = history'[e.id].via /\ e.lease \in leases'
    BY Zenon, <2>1, <2>6 DEF HoldingMatches
  <2>8. \A j \in DOMAIN outbox' : outbox'[j].id = e.id /\ outbox'[j].lease = e.lease =>
            outbox'[j].consumer = x /\ outbox'[j].remaining = e.remaining
    <3> SUFFICES ASSUME NEW j \in DOMAIN outbox', outbox'[j].id = e.id, outbox'[j].lease = e.lease
                 PROVE  outbox'[j].consumer = x /\ outbox'[j].remaining = e.remaining
      BY Zenon
    <3>1. j \in DOMAIN outbox /\ outbox'[j] = outbox[j]
      BY Zenon, <1>1, <2>3
    <3>2. outbox[j].id = e.id /\ outbox[j].lease = e.lease
      BY Zenon, <3>1
    <3>3. outbox[j].consumer = x /\ outbox[j].remaining = e.remaining
      BY Zenon, <2>1, <3>1, <3>2 DEF HoldingMatches
    <3> QED
      BY Zenon, <3>1, <3>3
  <2>9. e.remaining > 0 => \E j \in DOMAIN outbox' : outbox'[j].id = e.id /\ outbox'[j].lease = e.lease
    BY Zenon, <1>1, <2>5
  <2> QED
    BY Zenon, <2>7, <2>8, <2>9 DEF HoldingMatches
<1> QED
  BY Zenon, <1>1, <1>2, <1>3, <1>4, <1>5

LEMMA IsolateKeeps ==
    ASSUME ConstantsOK, IndInv, NEW q \in QuarantineID, NEW i \in DOMAIN outbox, QuarantineOutbox(q, i)
    PROVE  IndInv'
<1>1. /\ ~Quarantined(outbox[i].id) /\ outbox[i].remaining = 0 /\ outbox[i].document = Corrupt
      /\ UNCHANGED <<revision, history, leases, held, faults>>
  BY Zenon DEF QuarantineOutbox, MayIsolate
<1>2. outbox' = [outbox EXCEPT ![i] = [Unleased(@) EXCEPT !.document = Corrupt]]
  <2>1. outbox[i] \in Row
    BY Zenon, Rows
  <2>2. [Unleased(outbox[i]) EXCEPT !.document = Corrupt] = Unleased(outbox[i])
    BY Zenon, <1>1, <2>1 DEF Unleased, Row
  <2> QED
    BY Zenon, <2>2 DEF QuarantineOutbox
<1>3. /\ SamePlaces /\ outbox' \in Seq(Row) /\ DOMAIN outbox' = DOMAIN outbox
      /\ \A j \in DOMAIN outbox : j # i => outbox'[j] = outbox[j]
      /\ outbox'[i].remaining = 0 /\ outbox'[i].document = Corrupt
      /\ RevisionsAreKept' /\ RowsMatch'
      /\ \A x \in Consumer : \A e \in held'[x] : HoldingMatches(x, e)'
  BY Zenon, <1>1, <1>2, UnleasedKeeps
<1>4. outbox[i].id \in Event
  BY Zenon, Rows DEF Row
<1>5. /\ quarantine' \in [QuarantineID -> Records]
      /\ quarantine'[q].delivery = outbox[i].id
      /\ \A x \in QuarantineID : x # q => quarantine'[x] = quarantine[x]
  <2>1. quarantine' = [quarantine EXCEPT ![q] = [delivery |-> outbox[i].id, restored |-> FALSE, document |-> Corrupt]]
    BY Zenon, <1>1 DEF QuarantineOutbox, Isolated
  <2>2. [delivery |-> outbox[i].id, restored |-> FALSE, document |-> Corrupt] \in Records
    BY Zenon, <1>4 DEF Records
  <2> QED
    BY Zenon, <2>1, <2>2, Rows
<1>6. \A x \in QuarantineID : x # q /\ Open(x)' => Open(x) /\ quarantine[x].delivery # outbox[i].id
  BY Zenon, <1>1, <1>5 DEF Open, Quarantined
<1>7. \A id : RowOf(id)' = RowOf(id)
  BY Zenon, <1>3 DEF RowOf, SamePlaces
<1>8. QuarantineMatches'
  <2>1. \A x, y \in QuarantineID :
            Open(x)' /\ Open(y)' /\ quarantine'[x].delivery = quarantine'[y].delivery => x = y
    BY Zenon, <1>5, <1>6 DEF IndInv, QuarantineMatches
  <2>2. ASSUME NEW x \in QuarantineID, Open(x)'
        PROVE  /\ RowOf(quarantine[x].delivery)' # {}
               /\ \A j \in RowOf(quarantine[x].delivery)' : outbox'[j].remaining = 0 /\ outbox'[j].document = Corrupt
    <3>1. CASE x = q
      <4>1. RowOf(outbox[i].id) = {i}
        BY Zenon, Rows DEF RowOf
      <4>2. RowOf(quarantine[x].delivery)' = {i}
        BY Zenon, <1>5, <1>7, <3>1, <4>1
      <4> QED
        BY Zenon, <1>3, <4>2
    <3>2. CASE x # q
      <4>1. Open(x) /\ quarantine'[x] = quarantine[x] /\ quarantine[x].delivery # outbox[i].id
        BY Zenon, <1>5, <1>6, <2>2, <3>2
      <4>2. /\ RowOf(quarantine[x].delivery) # {}
            /\ \A j \in RowOf(quarantine[x].delivery) : outbox[j].remaining = 0 /\ outbox[j].document = Corrupt
        BY Zenon, <4>1 DEF IndInv, QuarantineMatches
      <4>3. \A j \in RowOf(quarantine[x].delivery) : j \in DOMAIN outbox /\ j # i
        BY Zenon, <4>1 DEF RowOf
      <4>4. RowOf(quarantine[x].delivery)' = RowOf(quarantine[x].delivery)
        BY Zenon, <1>7, <4>1
      <4> QED
        BY Zenon, <1>3, <4>2, <4>3, <4>4
    <3> QED
      BY Zenon, <3>1, <3>2
  <2> QED
    BY Zenon, <2>1, <2>2 DEF QuarantineMatches
<1>9. TypeOK'
  BY Zenon, <1>1, <1>3, <1>5 DEF IndInv, TypeOK, Records
<1> QED
  BY Zenon, <1>3, <1>8, <1>9 DEF IndInv

\* The row that a restore picks is in quarantine, so it has no live lease; and the
\* replacement that replays without a change is the mutation's own projection.
LEMMA Restorable ==
    ASSUME ConstantsOK, IndInv, NEW q \in QuarantineID, NEW kind \in Kinds, NEW i \in RowOf(quarantine[q].delivery),
           ~quarantine[q].restored, Historical(outbox[i].id, kind)
    PROVE  /\ i \in DOMAIN outbox /\ outbox[i].id = quarantine[q].delivery /\ Open(q)
           /\ outbox[i].remaining = 0 /\ kind = history[outbox[i].id].via
<1>1. i \in DOMAIN outbox /\ outbox[i].id = quarantine[q].delivery
  BY Zenon DEF RowOf
<1>2. outbox[i].id \in Event /\ outbox[i].id # Nobody
  BY <1>1, Rows DEF Row, ConstantsOK
<1>3. Open(q)
  BY <1>1, <1>2 DEF Open, NoQuarantine
<1>4. outbox[i].remaining = 0
  BY Zenon, <1>3 DEF IndInv, QuarantineMatches
<1>5. history[outbox[i].id].via \in {"ASSIGNMENT", "DELEGATION", "INTERACTION"}
  BY Zenon, <1>1 DEF IndInv, RowsMatch, Announced
<1>6. kind = history[outbox[i].id].via
  <2>1. CASE kind = "ASSIGNMENT"
    BY Zenon, <1>5, <2>1 DEF Historical
  <2>2. CASE kind = "DELEGATION"
    BY Zenon, <1>5, <2>2 DEF Historical
  <2>3. CASE kind = "INTERACTION"
    BY Zenon, <1>5, <2>3 DEF Historical
  <2> QED
    BY Zenon, <2>1, <2>2, <2>3 DEF Kinds
<1> QED
  BY Zenon, <1>1, <1>3, <1>4, <1>6

LEMMA RestoreKeeps ==
    ASSUME ConstantsOK, IndInv, NEW q \in QuarantineID, NEW kind \in Kinds, RestoreQuarantinedOutbox(q, kind)
    PROVE  IndInv'
<1>1. PICK i \in RowOf(quarantine[q].delivery) :
          /\ ~quarantine[q].restored /\ Historical(outbox[i].id, kind)
          /\ outbox' = [outbox EXCEPT ![i] = [Unleased(@) EXCEPT !.document = kind]]
          /\ quarantine' = [quarantine EXCEPT ![q].restored = TRUE]
          /\ UNCHANGED <<revision, history, leases, held, faults>>
  BY Zenon DEF RestoreQuarantinedOutbox
<1>2. /\ i \in DOMAIN outbox /\ outbox[i].id = quarantine[q].delivery /\ Open(q)
      /\ outbox[i].remaining = 0 /\ kind = history[outbox[i].id].via
  BY Zenon, <1>1, Restorable
<1>3. /\ SamePlaces /\ outbox' \in Seq(Row) /\ DOMAIN outbox' = DOMAIN outbox
      /\ \A j \in DOMAIN outbox : j # i => outbox'[j] = outbox[j]
      /\ RevisionsAreKept' /\ RowsMatch'
      /\ \A x \in Consumer : \A e \in held'[x] : HoldingMatches(x, e)'
  BY Zenon, <1>1, <1>2, UnleasedKeeps
<1>4. /\ quarantine' \in [QuarantineID -> Records] /\ quarantine'[q].restored
      /\ \A x \in QuarantineID : x # q => quarantine'[x] = quarantine[x]
  <2>1. quarantine[q] \in Records /\ quarantine \in [QuarantineID -> Records]
    BY Zenon, Rows
  <2>2. quarantine' = [quarantine EXCEPT ![q] = [quarantine[q] EXCEPT !.restored = TRUE]]
    BY Zenon, <1>1
  <2>3. /\ [quarantine[q] EXCEPT !.restored = TRUE] \in Records
        /\ [quarantine[q] EXCEPT !.restored = TRUE].restored
    BY Zenon, <2>1 DEF Records
  <2> QED
    BY Zenon, <2>1, <2>2, <2>3
<1>5. \A x \in QuarantineID : Open(x)' => x # q /\ Open(x) /\ quarantine'[x] = quarantine[x]
  BY Zenon, <1>4 DEF Open
<1>6. \A x \in QuarantineID : Open(x)' => quarantine[x].delivery # outbox[i].id
  BY Zenon, <1>2, <1>5 DEF IndInv, QuarantineMatches
<1>7. \A id : RowOf(id)' = RowOf(id)
  BY Zenon, <1>3 DEF RowOf, SamePlaces
<1>8. QuarantineMatches'
  <2>1. \A x, y \in QuarantineID :
            Open(x)' /\ Open(y)' /\ quarantine'[x].delivery = quarantine'[y].delivery => x = y
    BY Zenon, <1>5 DEF IndInv, QuarantineMatches
  <2>2. ASSUME NEW x \in QuarantineID, Open(x)'
        PROVE  /\ RowOf(quarantine[x].delivery)' # {}
               /\ \A j \in RowOf(quarantine[x].delivery)' : outbox'[j].remaining = 0 /\ outbox'[j].document = Corrupt
    <3>1. Open(x) /\ quarantine'[x] = quarantine[x] /\ quarantine[x].delivery # outbox[i].id
      BY Zenon, <1>5, <1>6, <2>2
    <3>2. /\ RowOf(quarantine[x].delivery) # {}
          /\ \A j \in RowOf(quarantine[x].delivery) : outbox[j].remaining = 0 /\ outbox[j].document = Corrupt
      BY Zenon, <3>1 DEF IndInv, QuarantineMatches
    <3>3. \A j \in RowOf(quarantine[x].delivery) : j \in DOMAIN outbox /\ j # i
      BY Zenon, <3>1 DEF RowOf
    <3>4. RowOf(quarantine[x].delivery)' = RowOf(quarantine[x].delivery)
      BY Zenon, <1>7, <3>1
    <3> QED
      BY Zenon, <1>3, <3>2, <3>3, <3>4
  <2> QED
    BY Zenon, <2>1, <2>2 DEF QuarantineMatches
<1>9. TypeOK'
  BY Zenon, <1>1, <1>3, <1>4 DEF IndInv, TypeOK, Records
<1> QED
  BY Zenon, <1>3, <1>8, <1>9 DEF IndInv

LEMMA AgedTime ==
    ASSUME ConstantsOK, NEW r \in 0 .. LeaseDuration
    PROVE  LET aged == IF r > 0 THEN r - 1 ELSE 0
           IN  aged \in 0 .. LeaseDuration /\ (aged > 0 => r > 0) /\ (r = 0 => aged = 0)
BY DEF ConstantsOK

\* Rows and deliveries age together.
LEMMA TickKeeps ==
    ASSUME ConstantsOK, IndInv, Tick
    PROVE  IndInv'
<1>1. /\ outbox' = [i \in DOMAIN outbox |-> Aged(outbox[i])]
      /\ held' = [c \in Consumer |-> {Aged(d) : d \in held[c]}]
      /\ UNCHANGED <<revision, history, leases, quarantine, faults>>
  BY Zenon DEF Tick
<1>2. ASSUME NEW i \in DOMAIN outbox
      PROVE  /\ outbox'[i] \in Row /\ outbox'[i].id = outbox[i].id /\ outbox'[i].document = outbox[i].document
             /\ outbox'[i].consumer = outbox[i].consumer /\ outbox'[i].lease = outbox[i].lease
             /\ outbox'[i].remaining = IF outbox[i].remaining > 0 THEN outbox[i].remaining - 1 ELSE 0
  <2>1. outbox[i] \in Row /\ outbox[i].remaining \in 0 .. LeaseDuration
    BY Zenon, <1>2, Rows DEF Row
  <2>2. PICK r : r = IF outbox[i].remaining > 0 THEN outbox[i].remaining - 1 ELSE 0
    BY Zenon
  <2>3. outbox'[i] = [outbox[i] EXCEPT !.remaining = r]
    BY Zenon, <1>1, <1>2, <2>2 DEF Aged
  <2>4. r \in 0 .. LeaseDuration
    BY Zenon, <2>1, <2>2, AgedTime
  <2>5. outbox'[i] \in Row /\ outbox'[i].remaining = r
    BY Zenon, <2>1, <2>3, <2>4 DEF Row
  <2>6. /\ outbox'[i].id = outbox[i].id /\ outbox'[i].document = outbox[i].document
        /\ outbox'[i].consumer = outbox[i].consumer /\ outbox'[i].lease = outbox[i].lease
    BY <2>3
  <2> QED
    BY Zenon, <2>2, <2>5, <2>6
<1>3. SamePlaces
  BY Zenon, <1>1, <1>2 DEF SamePlaces
<1>4. outbox' \in Seq(Row) /\ DOMAIN outbox' = DOMAIN outbox /\ RevisionsAreKept' /\ RowsMatch'
  <2>1. \A i \in DOMAIN outbox : /\ outbox[i].document \in {Corrupt, history[outbox[i].id].via}
                                 /\ outbox[i].lease \in leases \cup {Nobody}
    BY Zenon DEF IndInv, RowsMatch
  <2>2. \A i \in DOMAIN outbox : /\ outbox'[i].document \in {Corrupt, history[outbox[i].id].via}
                                 /\ outbox'[i].lease \in leases' \cup {Nobody}
    BY Zenon, <1>1, <1>2, <2>1
  <2> QED
    BY Zenon, <1>1, <1>3, <2>2, RowsKeep
<1>5. QuarantineMatches'
  <2>1. ~(0 > 0)
    OBVIOUS
  <2>2. \A i \in DOMAIN outbox : outbox[i].remaining = 0 /\ outbox[i].document = Corrupt =>
            outbox'[i].remaining = 0 /\ outbox'[i].document = Corrupt
    BY Zenon, <1>2, <2>1
  <2> QED
    BY Zenon, <1>1, <1>3, <1>4, <2>2, QuarantineKeeps
<1>6. ASSUME NEW d \in Deliveries
      PROVE  /\ Aged(d) \in Deliveries /\ Aged(d).id = d.id /\ Aged(d).lease = d.lease /\ Aged(d).document = d.document
             /\ Aged(d).remaining = (IF d.remaining > 0 THEN d.remaining - 1 ELSE 0)
             /\ Aged(d).remaining > 0 => d.remaining > 0
  <2>1. d.remaining \in 0 .. LeaseDuration
    BY Zenon, <1>6 DEF Deliveries
  <2>2. PICK r : r = IF d.remaining > 0 THEN d.remaining - 1 ELSE 0
    BY Zenon
  <2>3. Aged(d) = [d EXCEPT !.remaining = r]
    BY Zenon, <2>2 DEF Aged
  <2>4. r \in 0 .. LeaseDuration /\ (r > 0 => d.remaining > 0)
    BY Zenon, <2>1, <2>2, AgedTime
  <2>5. Aged(d) \in Deliveries /\ Aged(d).remaining = r
    BY Zenon, <1>6, <2>3, <2>4 DEF Deliveries
  <2>6. Aged(d).id = d.id /\ Aged(d).lease = d.lease /\ Aged(d).document = d.document
    BY <2>3
  <2> QED
    BY Zenon, <2>2, <2>4, <2>5, <2>6
<1>7. held' \in [Consumer -> SUBSET Deliveries]
  BY <1>1, <1>6, Rows
<1>8. ASSUME NEW c \in Consumer, NEW e \in held'[c]
      PROVE  HoldingMatches(c, e)'
  <2>1. PICK d \in held[c] : e = Aged(d)
    BY Zenon, <1>1, <1>8
  <2>2. d \in Deliveries /\ HoldingMatches(c, d)
    BY Zenon, <1>8, <2>1, Rows DEF IndInv
  <2>3. /\ e.id = d.id /\ e.lease = d.lease /\ e.document = d.document
        /\ e.remaining = (IF d.remaining > 0 THEN d.remaining - 1 ELSE 0)
        /\ e.remaining > 0 => d.remaining > 0
    BY Zenon, <1>6, <2>1, <2>2
  <2>4. e.document = history'[e.id].via /\ e.lease \in leases'
    BY Zenon, <1>1, <2>2, <2>3 DEF HoldingMatches
  <2>5. ASSUME NEW i \in DOMAIN outbox', outbox'[i].id = e.id, outbox'[i].lease = e.lease
        PROVE  outbox'[i].consumer = c /\ outbox'[i].remaining = e.remaining
    <3>1. i \in DOMAIN outbox /\ outbox[i].id = d.id /\ outbox[i].lease = d.lease
      BY Zenon, <1>2, <1>4, <2>3, <2>5
    <3>2. outbox[i].consumer = c /\ outbox[i].remaining = d.remaining
      BY Zenon, <2>2, <3>1 DEF HoldingMatches
    <3> QED
      BY <1>2, <2>3, <3>1, <3>2
  <2>6. e.remaining > 0 => \E i \in DOMAIN outbox' : outbox'[i].id = e.id /\ outbox'[i].lease = e.lease
    BY <1>2, <1>4, <2>2, <2>3 DEF HoldingMatches
  <2> QED
    BY Zenon, <2>4, <2>5, <2>6 DEF HoldingMatches
<1>9. TypeOK'
  BY Zenon, <1>1, <1>4, <1>7 DEF IndInv, TypeOK, Deliveries
<1> QED
  BY Zenon, <1>4, <1>5, <1>8, <1>9 DEF IndInv

-----------------------------------------------------------------------------

LEMMA Initially ==
    ASSUME ConstantsOK, Init
    PROVE  IndInv
<1>1. revision \in [Assignment -> 0 .. MaxRevision] /\ faults \in 0 .. MaxFaults
  BY DEF Init, ConstantsOK
<1>2. Uncommitted \in Mutations /\ NoQuarantine \in Records
  BY DEF ConstantsOK, Uncommitted, Mutations, NoQuarantine, Records
<1>3. /\ history \in [Event -> Mutations] /\ quarantine \in [QuarantineID -> Records]
      /\ held \in [Consumer -> SUBSET Deliveries] /\ leases \subseteq LeaseID
  BY Zenon, <1>2 DEF Init
<1>4. outbox \in Seq(Row) /\ DOMAIN outbox = {}
  BY DEF Init
<1>5. TypeOK
  BY Zenon, <1>1, <1>3, <1>4 DEF TypeOK, Mutations, Records, Deliveries
<1>6. \A id \in Event : history[id].via = "NONE"
  BY Zenon DEF Init, Uncommitted
<1>7. RevisionsAreKept /\ RowsMatch
  BY Zenon, <1>4, <1>6 DEF RevisionsAreKept, RowsMatch, Announced
<1>8. QuarantineMatches
  BY Zenon DEF Init, QuarantineMatches, Open
<1>9. \A c \in Consumer : held[c] = {}
  BY Zenon DEF Init
<1> QED
  BY Zenon, <1>5, <1>7, <1>8, <1>9 DEF IndInv

LEMMA MutateKeeps ==
    ASSUME ConstantsOK, IndInv, Mutate
    PROVE  IndInv'
BY Zenon, AssignmentKeeps, DelegationKeeps, InteractionKeeps DEF Mutate

LEMMA NextKeeps ==
    ASSUME ConstantsOK, IndInv, [Next]_vars
    PROVE  IndInv'
<1>1. CASE UNCHANGED vars
  BY Zenon, <1>1, StutterKeeps
<1>2. CASE Mutate
  BY Zenon, <1>2, MutateKeeps
<1>3. CASE Poll
  BY Zenon, <1>3, PollKeeps DEF Poll
<1>4. CASE \E c \in Consumer : \E d \in held[c] : AcknowledgeOutbox(c, d)
  BY Zenon, <1>4, AcknowledgeKeeps
<1>5. CASE \E c \in Consumer : ConsumerCrash(c)
  BY Zenon, <1>5, CrashKeeps
<1>6. CASE \E i \in DOMAIN outbox : Rot(i)
  BY Zenon, <1>6, RotKeeps
<1>7. CASE Isolate
  BY Zenon, <1>7, IsolateKeeps DEF Isolate
<1>8. CASE \E q \in QuarantineID, kind \in {"ASSIGNMENT", "DELEGATION", "INTERACTION"} :
               RestoreQuarantinedOutbox(q, kind)
  BY Zenon, <1>8, RestoreKeeps DEF Kinds
<1>9. CASE Tick
  BY Zenon, <1>9, TickKeeps
<1> QED
  BY Zenon, <1>1, <1>2, <1>3, <1>4, <1>5, <1>6, <1>7, <1>8, <1>9 DEF Next

\* The consumers, leases and rows of the SQLite outbox stay consistent: rows with
\* the history that the commits wrote (enqueue), deliveries with the leased rows
\* they are of (PollOutbox), open quarantine records with rows nobody has a live
\* lease on (QuarantineOutbox).
THEOREM Invariant ==
    ASSUME ConstantsOK
    PROVE  Spec => []IndInv
<1>1. Init => IndInv
  BY Zenon, Initially
<1>2. IndInv /\ [Next]_vars => IndInv'
  BY Zenon, NextKeeps
<1> QED
  BY <1>1, <1>2, PTL DEF Spec

LEMMA OneRowEach ==
    ASSUME IndInv
    PROVE  OutboxMatchesHistory
<1>1. ASSUME NEW id \in Event
      PROVE  Cardinality(RowOf(id)) = IF Announced(id) THEN 1 ELSE 0
  <2>1. CASE Announced(id)
    <3>1. PICK i \in DOMAIN outbox : outbox[i].id = id
      BY Zenon, <1>1, <2>1 DEF IndInv, RowsMatch
    <3>2. RowOf(id) = {i}
      BY Zenon, <3>1, Rows DEF RowOf
    <3>3. Cardinality({i}) = 1
      BY Zenon, FS_Singleton
    <3> QED
      BY Zenon, <2>1, <3>2, <3>3
  <2>2. CASE ~Announced(id)
    <3>1. RowOf(id) = {}
      BY <2>2 DEF RowOf, IndInv, RowsMatch
    <3>2. Cardinality({}) = 0
      BY Zenon, FS_EmptySet
    <3> QED
      BY Zenon, <2>2, <3>1, <3>2
  <2> QED
    BY Zenon, <2>1, <2>2
<1>2. \A i \in DOMAIN outbox : outbox[i].document \in {Corrupt, history[outbox[i].id].via}
  BY Zenon DEF IndInv, RowsMatch
<1> QED
  BY Zenon, <1>1, <1>2 DEF OutboxMatchesHistory

LEMMA OneHolderEach ==
    ASSUME IndInv
    PROVE  OneLiveHolder
<1> SUFFICES ASSUME NEW c1 \in Consumer, NEW c2 \in Consumer, NEW d1 \in held[c1], NEW d2 \in held[c2],
                    d1.id = d2.id, d1.remaining > 0, d2.remaining > 0
             PROVE  c1 = c2 /\ d1 = d2
  BY Zenon DEF OneLiveHolder
<1>1. HoldingMatches(c1, d1) /\ HoldingMatches(c2, d2)
  BY Zenon DEF IndInv
<1>2. PICK i \in DOMAIN outbox : outbox[i].id = d1.id /\ outbox[i].lease = d1.lease
  BY Zenon, <1>1 DEF HoldingMatches
<1>3. PICK j \in DOMAIN outbox : outbox[j].id = d2.id /\ outbox[j].lease = d2.lease
  BY Zenon, <1>1 DEF HoldingMatches
<1>4. i = j
  BY Zenon, <1>2, <1>3, Rows
<1>5. /\ outbox[i].consumer = c1 /\ outbox[i].remaining = d1.remaining
      /\ outbox[i].consumer = c2 /\ outbox[i].remaining = d2.remaining
  BY Zenon, <1>1, <1>2, <1>3, <1>4 DEF HoldingMatches
<1>6. d1.document = d2.document
  BY Zenon, <1>1 DEF HoldingMatches
<1>7. d1 \in Deliveries /\ d2 \in Deliveries
  BY Zenon, Rows
<1>8. d1 = d2
  BY Zenon, <1>2, <1>3, <1>4, <1>5, <1>6, <1>7, SameDelivery
<1> QED
  BY Zenon, <1>5, <1>8

\* Every announced mutation has exactly one row that projects it, what a consumer
\* was given is what was committed, and no two polls have one delivery under a
\* live lease (PollOutbox, enqueue, RestoreQuarantinedOutbox), for any number of
\* consumers, events and faults.
THEOREM SoundDeliveries ==
    ASSUME ConstantsOK
    PROVE  Spec => []DeliveriesAreSound
<1>1. IndInv => DeliveredIsHistory
  BY Zenon DEF IndInv, DeliveredIsHistory, HoldingMatches
<1>2. IndInv => DeliveriesAreSound
  BY Zenon, <1>1, OneRowEach, OneHolderEach DEF DeliveriesAreSound
<1> QED
  BY <1>2, Invariant, PTL

-----------------------------------------------------------------------------
(***************************************************************************)
(* What a step may not do.                                                 *)
(***************************************************************************)

\* Records of the quarantine are kept while rows without a live lease that cannot
\* be decoded are left alone.
LEMMA RecordsKept ==
    ASSUME IndInv, quarantine' = quarantine,
           \A i \in DOMAIN outbox : outbox[i].remaining = 0 /\ outbox[i].document = Corrupt => outbox'[i] = outbox[i]
    PROVE  KeptWhileQuarantined
<1> SUFFICES ASSUME NEW q \in QuarantineID, quarantine[q] # NoQuarantine, ~quarantine[q].restored,
                    NEW i \in RowOf(quarantine[q].delivery)
             PROVE  outbox'[i] = outbox[i]
  BY Zenon DEF KeptWhileQuarantined
<1>1. i \in DOMAIN outbox
  BY Zenon DEF RowOf
<1>2. outbox[i].remaining = 0 /\ outbox[i].document = Corrupt
  BY Zenon DEF IndInv, QuarantineMatches, Open
<1> QED
  BY Zenon, <1>1, <1>2

LEMMA SettledByNobody ==
    ASSUME \A i \in DOMAIN outbox : outbox'[i].acknowledged = outbox[i].acknowledged
    PROVE  AcknowledgedLive
BY Zenon DEF AcknowledgedLive

LEMMA MutateLeavesRows ==
    ASSUME IndInv, Mutate
    PROVE  (\A i \in DOMAIN outbox : outbox'[i] = outbox[i]) /\ quarantine' = quarantine
<1>1. ASSUME NEW id, NEW kind, Enqueue(id, kind)
      PROVE  \A i \in DOMAIN outbox : outbox'[i] = outbox[i]
  <2>1. outbox \in Seq(Row)
    BY Zenon, Rows
  <2>2. DOMAIN outbox = 1 .. Len(outbox) /\ Len(outbox) \in Nat
    BY <2>1
  <2>3. CASE UNCHANGED outbox
    BY Zenon, <2>3
  <2>4. CASE \E row : outbox' = Append(outbox, row)
    BY <2>1, <2>2, <2>4
  <2> QED
    BY Zenon, <1>1, <2>3, <2>4 DEF Enqueue
<1>2. ASSUME NEW a, NEW expected, NEW id, CommitAssignment(a, expected, id)
      PROVE  (\A i \in DOMAIN outbox : outbox'[i] = outbox[i]) /\ quarantine' = quarantine
  BY Zenon, <1>1, <1>2 DEF CommitAssignment
<1>3. ASSUME NEW a, NEW expected, NEW id, NEW child, NEW childID, CommitDelegation(a, expected, id, child, childID)
      PROVE  (\A i \in DOMAIN outbox : outbox'[i] = outbox[i]) /\ quarantine' = quarantine
  BY Zenon, <1>1, <1>3 DEF CommitDelegation
<1>4. ASSUME NEW a, NEW id, AppendInteractionEvent(a, id)
      PROVE  (\A i \in DOMAIN outbox : outbox'[i] = outbox[i]) /\ quarantine' = quarantine
  BY Zenon, <1>1, <1>4 DEF AppendInteractionEvent
<1> QED
  BY Zenon, <1>2, <1>3, <1>4 DEF Mutate

LEMMA PollSettlesNone ==
    ASSUME IndInv, NEW c \in Consumer, NEW lease, NEW limit, NEW lost, PollOutbox(c, lease, limit, lost)
    PROVE  AcknowledgedLive /\ KeptWhileQuarantined
<1>1. PICK batch : batch = Batch(limit)
  BY Zenon
<1>2. /\ \A i \in batch : outbox[i].document # Corrupt
      /\ quarantine' = quarantine
      /\ outbox' = [i \in DOMAIN outbox |->
                      IF i \in batch
                      THEN [outbox[i] EXCEPT !.consumer = c, !.lease = lease, !.remaining = LeaseDuration]
                      ELSE outbox[i]]
  BY Zenon, <1>1 DEF PollOutbox
<1>3. \A i \in DOMAIN outbox : i \notin batch => outbox'[i] = outbox[i]
  BY Zenon, <1>2
<1>4. ASSUME NEW i \in DOMAIN outbox
      PROVE  outbox'[i].acknowledged = outbox[i].acknowledged
  <2>1. outbox'[i] = outbox[i] \/ outbox'[i] = [outbox[i] EXCEPT !.consumer = c, !.lease = lease, !.remaining = LeaseDuration]
    BY Zenon, <1>2, <1>4
  <2>2. outbox[i] \in Row
    BY Zenon, <1>4, Rows
  <2> QED
    BY Zenon, <2>1, <2>2 DEF Row
<1> QED
  BY Zenon, <1>2, <1>3, <1>4, SettledByNobody, RecordsKept

\* A row that is acknowledged is leased to the worker, and has the time left that
\* the worker's delivery has.
LEMMA WorkerSettlesLive ==
    ASSUME IndInv, NEW c \in Consumer, NEW d \in held[c], AcknowledgeOutbox(c, d)
    PROVE  AcknowledgedLive /\ KeptWhileQuarantined
<1>1. \A i \in DOMAIN outbox : ~(outbox[i].id = d.id /\ MayAcknowledge(c, d, outbox[i])) => outbox'[i] = outbox[i]
  BY Zenon DEF AcknowledgeOutbox
<1>2. held' = [held EXCEPT ![c] = @ \ {d}] /\ quarantine' = quarantine
  BY Zenon DEF AcknowledgeOutbox
<1>3. held \in [Consumer -> SUBSET Deliveries]
  BY Zenon, Rows
<1>4. d \in held[c] \ held'[c]
  BY Zenon, <1>2, <1>3
<1>5. HoldingMatches(c, d)
  BY Zenon DEF IndInv
<1>6. \A i \in DOMAIN outbox : outbox[i].id = d.id /\ MayAcknowledge(c, d, outbox[i]) =>
          outbox[i].remaining > 0 /\ d.remaining = outbox[i].remaining
  BY Zenon, <1>5 DEF HoldingMatches, MayAcknowledge
<1>7. AcknowledgedLive
  BY Zenon, <1>1, <1>4, <1>6 DEF AcknowledgedLive
<1>8. ~(0 > 0)
  OBVIOUS
<1>9. KeptWhileQuarantined
  BY Zenon, <1>1, <1>2, <1>6, <1>8, RecordsKept
<1> QED
  BY Zenon, <1>7, <1>9

LEMMA RotSettlesNone ==
    ASSUME IndInv, NEW i \in DOMAIN outbox, Rot(i)
    PROVE  AcknowledgedLive /\ KeptWhileQuarantined
<1>1. \A j \in DOMAIN outbox : j # i => outbox'[j] = outbox[j]
  BY Zenon DEF Rot
<1>2. outbox[i].document # Corrupt /\ quarantine' = quarantine
  BY Zenon DEF Rot
<1>3. outbox'[i].acknowledged = outbox[i].acknowledged
  <2>1. outbox[i] \in Row
    BY Zenon, Rows
  <2>2. outbox'[i] = [outbox[i] EXCEPT !.document = Corrupt]
    BY Zenon DEF Rot
  <2> QED
    BY Zenon, <2>1, <2>2 DEF Row
<1> QED
  BY Zenon, <1>1, <1>2, <1>3, SettledByNobody, RecordsKept

LEMMA TickSettlesNone ==
    ASSUME IndInv, Tick
    PROVE  AcknowledgedLive /\ KeptWhileQuarantined
<1>1. ASSUME NEW i \in DOMAIN outbox
      PROVE  /\ outbox'[i].acknowledged = outbox[i].acknowledged
             /\ outbox[i].remaining = 0 => outbox'[i] = outbox[i]
  <2>1. outbox[i] \in Row
    BY Zenon, <1>1, Rows
  <2>2. outbox'[i] = [outbox[i] EXCEPT !.remaining = IF outbox[i].remaining > 0 THEN outbox[i].remaining - 1 ELSE 0]
    BY Zenon, <1>1 DEF Tick, Aged
  <2>3. outbox'[i].acknowledged = outbox[i].acknowledged
    BY Zenon, <2>1, <2>2 DEF Row
  <2>4. ASSUME outbox[i].remaining = 0
        PROVE  outbox'[i] = outbox[i]
    <3>1. ~(0 > 0)
      OBVIOUS
    <3>2. outbox'[i] = [outbox[i] EXCEPT !.remaining = 0]
      BY Zenon, <2>2, <2>4, <3>1
    <3> QED
      BY Zenon, <2>1, <2>4, <3>2 DEF Row
  <2> QED
    BY Zenon, <2>3, <2>4
<1>2. quarantine' = quarantine
  BY Zenon DEF Tick
<1> QED
  BY Zenon, <1>1, <1>2, SettledByNobody, RecordsKept

LEMMA IsolateSettlesNone ==
    ASSUME IndInv, NEW q \in QuarantineID, NEW i \in DOMAIN outbox, QuarantineOutbox(q, i)
    PROVE  AcknowledgedLive /\ KeptWhileQuarantined
<1>1. /\ quarantine[q] = NoQuarantine /\ ~Quarantined(outbox[i].id)
      /\ outbox' = [outbox EXCEPT ![i] = Unleased(@)]
      /\ \A x \in QuarantineID : x # q => quarantine'[x] = quarantine[x]
  BY Zenon, Rows DEF QuarantineOutbox, Isolated
<1>2. \A j \in DOMAIN outbox : j # i => outbox'[j] = outbox[j]
  BY Zenon, <1>1
<1>3. outbox'[i].acknowledged = outbox[i].acknowledged
  <2>1. outbox[i] \in Row /\ outbox'[i] = Unleased(outbox[i])
    BY Zenon, <1>1, Rows
  <2> QED
    BY Zenon, <2>1 DEF Row, Unleased
<1>4. KeptWhileQuarantined
  <2> SUFFICES ASSUME NEW x \in QuarantineID, quarantine[x] # NoQuarantine
               PROVE  /\ quarantine'[x] = quarantine[x]
                      /\ ~quarantine[x].restored => \A j \in RowOf(quarantine[x].delivery) : outbox'[j] = outbox[j]
    BY Zenon DEF KeptWhileQuarantined
  <2>1. quarantine'[x] = quarantine[x]
    BY Zenon, <1>1
  <2>2. ~quarantine[x].restored => quarantine[x].delivery # outbox[i].id
    BY Zenon, <1>1 DEF Quarantined
  <2>3. \A j \in RowOf(quarantine[x].delivery) : j \in DOMAIN outbox /\ outbox[j].id = quarantine[x].delivery
    BY Zenon DEF RowOf
  <2> QED
    BY Zenon, <1>2, <2>1, <2>2, <2>3
<1> QED
  BY Zenon, <1>2, <1>3, <1>4, SettledByNobody

LEMMA RestoreSettlesNone ==
    ASSUME ConstantsOK, IndInv, NEW q \in QuarantineID, NEW kind \in Kinds, RestoreQuarantinedOutbox(q, kind)
    PROVE  AcknowledgedLive /\ KeptWhileQuarantined
<1>1. PICK i \in RowOf(quarantine[q].delivery) :
          /\ ~quarantine[q].restored /\ Historical(outbox[i].id, kind)
          /\ outbox' = [outbox EXCEPT ![i] = [Unleased(@) EXCEPT !.document = kind]]
          /\ quarantine' = [quarantine EXCEPT ![q].restored = TRUE]
  BY Zenon DEF RestoreQuarantinedOutbox
<1>2. i \in DOMAIN outbox /\ outbox[i].id = quarantine[q].delivery /\ Open(q)
  BY Zenon, <1>1, Restorable
<1>3. \A j \in DOMAIN outbox : j # i => outbox'[j] = outbox[j]
  BY Zenon, <1>1
<1>4. outbox'[i].acknowledged = outbox[i].acknowledged
  <2>1. outbox[i] \in Row /\ outbox'[i] = [Unleased(outbox[i]) EXCEPT !.document = kind]
    BY Zenon, <1>1, <1>2, Rows
  <2> QED
    BY Zenon, <2>1 DEF Row, Unleased
<1>5. /\ quarantine'[q].delivery = quarantine[q].delivery /\ quarantine'[q].document = quarantine[q].document
      /\ quarantine'[q].restored
      /\ \A x \in QuarantineID : x # q => quarantine'[x] = quarantine[x]
  <2>1. quarantine \in [QuarantineID -> Records] /\ quarantine[q] \in Records
    BY Zenon, Rows
  <2>2. quarantine'[q] = [quarantine[q] EXCEPT !.restored = TRUE]
    BY Zenon, <1>1, <2>1
  <2>3. \A x \in QuarantineID : x # q => quarantine'[x] = quarantine[x]
    BY Zenon, <1>1, <2>1
  <2> QED
    BY Zenon, <2>1, <2>2, <2>3 DEF Records
<1>6. KeptWhileQuarantined
  <2>1. ASSUME NEW x \in QuarantineID, x # q, quarantine[x] # NoQuarantine, ~quarantine[x].restored,
               NEW j \in RowOf(quarantine[x].delivery)
        PROVE  outbox'[j] = outbox[j]
    <3>1. j \in DOMAIN outbox /\ outbox[j].id = quarantine[x].delivery
      BY Zenon, <2>1 DEF RowOf
    <3>2. quarantine[x].delivery # quarantine[q].delivery
      BY Zenon, <1>2, <2>1 DEF IndInv, QuarantineMatches, Open
    <3> QED
      BY Zenon, <1>2, <1>3, <3>1, <3>2
  <2>2. ASSUME NEW x \in QuarantineID, x # q, quarantine[x] # NoQuarantine
        PROVE  /\ quarantine'[x] = quarantine[x]
               /\ ~quarantine[x].restored => \A j \in RowOf(quarantine[x].delivery) : outbox'[j] = outbox[j]
    BY Zenon, <1>5, <2>1, <2>2
  <2> QED
    BY Zenon, <1>5, <2>2 DEF KeptWhileQuarantined
<1> QED
  BY Zenon, <1>3, <1>4, <1>6, SettledByNobody

\* A worker settles a delivery only under its own live lease, and while a row is
\* in quarantine nobody leases, changes or settles it (AcknowledgeOutbox,
\* PollOutbox, QuarantineOutbox): the invariant ties a delivery's remaining time
\* to the row's, and an open record to a row without a live lease.
THEOREM OnlyLiveWorkers ==
    ASSUME ConstantsOK
    PROVE  Spec => StaleWorkerNeverSettles
<1>1. ASSUME IndInv, Next
      PROVE  AcknowledgedLive /\ KeptWhileQuarantined
  <2>1. CASE Mutate
    BY Zenon, <1>1, <2>1, MutateLeavesRows, SettledByNobody, RecordsKept
  <2>2. CASE Poll
    BY Zenon, <1>1, <2>2, PollSettlesNone DEF Poll
  <2>3. CASE \E c \in Consumer : \E d \in held[c] : AcknowledgeOutbox(c, d)
    BY Zenon, <1>1, <2>3, WorkerSettlesLive
  <2>4. CASE \E c \in Consumer : ConsumerCrash(c)
    <3>1. outbox' = outbox /\ quarantine' = quarantine
      BY Zenon, <2>4 DEF ConsumerCrash
    <3> QED
      BY Zenon, <1>1, <3>1, SettledByNobody, RecordsKept
  <2>5. CASE \E i \in DOMAIN outbox : Rot(i)
    BY Zenon, <1>1, <2>5, RotSettlesNone
  <2>6. CASE Isolate
    BY Zenon, <1>1, <2>6, IsolateSettlesNone DEF Isolate
  <2>7. CASE \E q \in QuarantineID, kind \in {"ASSIGNMENT", "DELEGATION", "INTERACTION"} :
                 RestoreQuarantinedOutbox(q, kind)
    BY Zenon, <1>1, <2>7, RestoreSettlesNone DEF Kinds
  <2>8. CASE Tick
    BY Zenon, <1>1, <2>8, TickSettlesNone
  <2> QED
    BY Zenon, <1>1, <2>1, <2>2, <2>3, <2>4, <2>5, <2>6, <2>7, <2>8 DEF Next
<1>2. IndInv /\ [Next]_vars => [AcknowledgedLive /\ KeptWhileQuarantined]_vars
  BY Zenon, <1>1
<1> QED
  BY <1>2, Invariant, PTL DEF Spec, StaleWorkerNeverSettles
=============================================================================
