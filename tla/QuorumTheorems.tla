--------------------------- MODULE QuorumTheorems ---------------------------
(***************************************************************************)
(* What holds of the authority quorum for every set of policies, proofs,   *)
(* decisions and workers, and any number of approvals.                     *)
(***************************************************************************)
EXTENDS AuthorityQuorum, FiniteSetTheorems, WellFoundedInduction, TLAPS

-----------------------------------------------------------------------------
(* The choice of the approvals. *)

\* A set of natural numbers has its minimum.
LEMMA MinOfNat ==
    ASSUME NEW S \in SUBSET Nat, S # {}
    PROVE  Min(S) \in S /\ \A x \in S : Min(S) <= x
<1> DEFINE Less == {xy \in Nat \X Nat : xy[1] < xy[2]}
<1>1. IsWellFoundedOn(Less, Nat)
  BY NatLessThanWellFounded, Zenon DEF OpToRel
<1>2. PICK x \in S : \A y \in S : ~(<<y, x>> \in Less)
  BY Zenon, <1>1, WFMin
<1>3. ASSUME NEW y \in S PROVE x <= y
  <2>1. <<y, x>> \in Nat \X Nat /\ ~(<<y, x>> \in Less)
    BY Zenon, <1>2
  <2>2. ~(<<y, x>>[1] < <<y, x>>[2])
    BY Zenon, <2>1
  <2> QED
    BY <2>2
<1> QED
  BY Zenon, <1>3 DEF Min

\* The end of a quorum's acceptance is the first of the ends it depends on.
LEMMA AcceptedUntilIsFirst ==
    ASSUME NEW p, p.until \in Nat, NEW S, \A a \in S : a.proof.expiresAt \in Nat
    PROVE  /\ AcceptedUntil(p, S) \in Nat /\ AcceptedUntil(p, S) <= p.until
           /\ \A a \in S : AcceptedUntil(p, S) <= a.proof.expiresAt
           /\ AcceptedUntil(p, S) = p.until \/ \E a \in S : AcceptedUntil(p, S) = a.proof.expiresAt
<1> DEFINE Ends == {p.until} \cup {a.proof.expiresAt : a \in S}
<1>1. Ends \in SUBSET Nat /\ Ends # {}
  BY Zenon
<1>2. Min(Ends) \in Ends /\ \A x \in Ends : Min(Ends) <= x
  BY Zenon, <1>1, MinOfNat
<1>3. AcceptedUntil(p, S) = Min(Ends)
  BY Zenon DEF AcceptedUntil
<1> QED
  BY Zenon, <1>1, <1>2, <1>3

\* The n latest to expire are accepted for as long as any other n of the candidates:
\* what another choice has instead of the first of them to expire, expires no later.
LEMMA SelectionIsLongest ==
    ASSUME NEW candidates, IsFiniteSet(candidates), \A a \in candidates : a.proof.expiresAt \in Nat,
           NEW n \in Nat, NEW p, p.until \in Nat,
           NEW selected \in Selection(candidates, n), NEW other \in kSubset(n, candidates)
    PROVE  AcceptedUntil(p, other) <= AcceptedUntil(p, selected)
<1>1. /\ selected \subseteq candidates /\ Cardinality(selected) = n
      /\ \A a \in selected, b \in candidates \ selected : a.proof.expiresAt >= b.proof.expiresAt
  BY Zenon DEF Selection, kSubset
<1>2. other \subseteq candidates /\ Cardinality(other) = n
  BY Zenon DEF kSubset
<1>3. /\ AcceptedUntil(p, other) \in Nat /\ AcceptedUntil(p, other) <= p.until
      /\ \A a \in other : AcceptedUntil(p, other) <= a.proof.expiresAt
  BY Zenon, <1>2, AcceptedUntilIsFirst
<1>4. CASE AcceptedUntil(p, selected) = p.until
  BY Zenon, <1>3, <1>4
<1>5. ASSUME NEW a \in selected, AcceptedUntil(p, selected) = a.proof.expiresAt
      PROVE  AcceptedUntil(p, other) <= AcceptedUntil(p, selected)
  <2>1. CASE a \in other
    BY Zenon, <1>3, <1>5, <2>1
  <2>2. CASE a \notin other
    <3>1. IsFiniteSet(selected) /\ IsFiniteSet(selected \ {a}) /\ Cardinality(selected \ {a}) = n - 1
      BY Zenon, <1>1, FS_Subset, FS_RemoveElement
    <3>2. ~(other \subseteq selected \ {a})
      BY <1>2, <3>1, FS_Subset
    <3>3. PICK b \in other : b \notin selected
      BY Zenon, <2>2, <3>2
    <3>4. a.proof.expiresAt >= b.proof.expiresAt
      BY Zenon, <1>1, <1>2, <3>3
    <3> QED
      BY <1>1, <1>2, <1>3, <1>5, <3>3, <3>4
  <2> QED
    BY Zenon, <2>1, <2>2
<1>6. \/ AcceptedUntil(p, selected) = p.until
      \/ \E a \in selected : AcceptedUntil(p, selected) = a.proof.expiresAt
  BY Zenon, <1>1, AcceptedUntilIsFirst
<1> QED
  BY Zenon, <1>4, <1>5, <1>6
-----------------------------------------------------------------------------
(* Changing one open decision. *)

\* A closed decision keeps its quorum or its revocation in both indexes, and what
\* was granted.
LEMMA ClosedKeeps ==
    ASSUME IndInv, ClosedStays
    PROVE  /\ \A id \in ConsumptionID : consumptions[id] # NoQuorum =>
                  /\ consumptions[id].id = id /\ consumptions[id].binding.decision \in Known'
                  /\ decisions'[consumptions[id].binding.decision].consumption = consumptions[id]
           /\ \A r \in RevocationID : revocations[r] # None =>
                  revocations[r] \in Known' /\ decisions'[revocations[r]].revoked
           /\ \A g \in granted :
                  /\ g.quorum.consumedAt <= g.at /\ g.at < g.quorum.acceptedUntil
                  /\ g.quorum.binding.decision \in Known'
                  /\ decisions'[g.quorum.binding.decision].consumption = g.quorum
                  /\ ~decisions'[g.quorum.binding.decision].revoked
<1>1. ASSUME NEW id \in ConsumptionID, consumptions[id] # NoQuorum
      PROVE  /\ consumptions[id].id = id /\ consumptions[id].binding.decision \in Known'
             /\ decisions'[consumptions[id].binding.decision].consumption = consumptions[id]
  BY <1>1 DEF IndInv, TypeOK, ClosedStays, Known
<1>2. ASSUME NEW r \in RevocationID, revocations[r] # None
      PROVE  revocations[r] \in Known' /\ decisions'[revocations[r]].revoked
  BY Zenon, <1>2 DEF IndInv, TypeOK, ClosedStays, Known
<1>3. ASSUME NEW g \in granted
      PROVE  /\ g.quorum.consumedAt <= g.at /\ g.at < g.quorum.acceptedUntil
             /\ g.quorum.binding.decision \in Known'
             /\ decisions'[g.quorum.binding.decision].consumption = g.quorum
             /\ ~decisions'[g.quorum.binding.decision].revoked
  <2>1. g.quorum # NoQuorum
    BY DEF IndInv, Quorum, NoQuorum, Time
  <2> QED
    BY Zenon, <2>1 DEF IndInv, OneGrantPerDecision, ClosedStays, Known
<1> QED
  BY Zenon, <1>1, <1>2, <1>3

LEMMA ReplaceRecord ==
    ASSUME ConstantsOK, IndInv, NEW d \in Decision, NEW new \in Record, Sound(new),
           d \in Known => ~decisions[d].revoked /\ decisions[d].consumption = NoQuorum,
           decisions' = [decisions EXCEPT ![d] = new]
    PROVE  /\ decisions' \in [Decision -> Record \cup {None}]
           /\ \A e \in Known' : Sound(decisions'[e])
           /\ d \in Known' /\ decisions'[d] = new
           /\ ClosedStays
<1>1. /\ decisions \in [Decision -> Record \cup {None}] /\ new # None
      /\ \A e \in Known : Sound(decisions[e])
  BY Zenon DEF ConstantsOK, IndInv
<1>2. /\ decisions' \in [Decision -> Record \cup {None}] /\ decisions'[d] = new
      /\ \A e \in Decision : e # d => decisions'[e] = decisions[e]
  BY Zenon, <1>1
<1> QED
  BY Zenon, <1>1, <1>2 DEF Known, ClosedStays

LEMMA InitIndInv == ConstantsOK /\ Init => IndInv
BY DEF ConstantsOK, Init, IndInv, TypeOK, OneGrantPerDecision, Known, Time, Call
-----------------------------------------------------------------------------
(* The steps. *)

LEMMA CallsKeepInv ==
    ASSUME ConstantsOK, IndInv, NEW w \in Worker, NEW new \in Call, call' = [call EXCEPT ![w] = new],
           UNCHANGED <<policy, decisions, consumptions, revocations, clock, granted>>
    PROVE  IndInv'
<1>1. call' \in [Worker -> Call]
  BY Zenon DEF IndInv
<1> QED
  BY <1>1 DEF IndInv, TypeOK, OneGrantPerDecision, Known

LEMMA SubmitKeepsInv ==
    ASSUME ConstantsOK, IndInv, NEW w \in Worker, NEW proof \in Proof, Submit(w, proof)
    PROVE  IndInv'
BY Zenon, CallsKeepInv DEF Submit, Call

LEMMA ApproveKeepsInv ==
    ASSUME ConstantsOK, IndInv, NEW w \in Worker, Approve(w)
    PROVE  IndInv'
<1>1. call[w].pc = "APPROVE" /\ call[w] \in Call
  BY Zenon DEF Approve, IndInv
<1>2. call[w].proof \in Proof
  BY <1>1 DEF Call, NoCall
<1>3. PICK new : /\ call' = [call EXCEPT ![w] = new]
                 /\ \/ new = NoCall
                    \/ /\ new = [pc |-> "APPEND", policy |-> policy, approval |-> NewApproval(call[w].proof)]
                       /\ call[w].proof.policy = policy /\ AuthorityOf(call[w].proof) \in policy.authorities
  BY Zenon DEF Approve
<1>4. new \in Call
  BY <1>2, <1>3 DEF Call, Approval, NewApproval, IndInv
<1> QED
  BY Zenon, <1>3, <1>4, CallsKeepInv DEF Approve

LEMMA ConsumeKeepsInv ==
    ASSUME ConstantsOK, IndInv, NEW w \in Worker, NEW id \in ConsumptionID, NEW d \in Decision,
           NEW operation \in Operation, Consume(w, id, d, operation)
    PROVE  IndInv'
<1>1. [pc |-> "CONSUME", policy |-> policy, id |-> id, binding |-> Binding(d, policy, operation)] \in Call
  BY Zenon DEF Call, Binding, Bindings, IndInv
<1> QED
  BY Zenon, <1>1, CallsKeepInv DEF Consume

LEMMA NewIsSound ==
    ASSUME NEW b \in Bindings \cup {None}
    PROVE  NewDecision(b) \in Record /\ Sound(NewDecision(b))
<1>1. NewDecision(b) \in Record
  BY Zenon DEF NewDecision, Record
<1>2. NewDecision(b).approvals = {} /\ NewDecision(b).consumption = NoQuorum
  BY Zenon DEF NewDecision
<1> QED
  BY Zenon, <1>1, <1>2, FS_EmptySet DEF Sound, Distinct

\* An open decision with one more vote, of a voter it does not have yet.
LEMMA VoteIsSound ==
    ASSUME NEW record \in Record, Sound(record), record.consumption = NoQuorum,
           NEW a \in Approval, Supports(a, record.binding), NewVoter(record, a),
           NEW new, new = [record EXCEPT !.approvals = @ \cup {a}]
    PROVE  new \in Record /\ Sound(new)
<1>1. /\ new \in Record /\ new.approvals = record.approvals \cup {a}
      /\ new.binding = record.binding /\ new.consumption = NoQuorum
  BY Zenon DEF Record
<1>2. IsFiniteSet(new.approvals)
  BY <1>1, FS_AddElement DEF Sound
<1>3. Distinct(new.approvals)
  BY <1>1 DEF Sound, Distinct, NewVoter
<1> QED
  BY Zenon, <1>1, <1>2, <1>3 DEF Sound

LEMMA AppendKeepsInv ==
    ASSUME ConstantsOK, IndInv, NEW w \in Worker, AppendApproval(w)
    PROVE  IndInv' /\ ClosedStays
<1> DEFINE a == call[w].approval
           d == a.proof.decision
           binding == Binding(d, a.proof.policy, a.proof.operation)
           record == IF decisions[d] = None THEN NewDecision(binding) ELSE decisions[d]
           new == [record EXCEPT !.approvals = @ \cup {a}]
<1>1. a \in Approval
  <2>1. call[w] \in Call /\ call[w].pc = "APPEND"
    BY Zenon DEF AppendApproval, IndInv
  <2> QED
    BY <2>1 DEF Call, NoCall
<1>2. /\ a.proof \in Proof /\ d \in Decision /\ a.proof.policy \in Policy
      /\ binding \in Bindings /\ Supports(a, binding)
  BY Zenon, <1>1 DEF ConstantsOK, Approval, Binding, Bindings, Supports
<1>3. call' \in [Worker -> Call]
  BY Zenon DEF AppendApproval, IndInv, Call
<1>4. CASE decisions' = decisions
  BY ZenonT(30), <1>3, <1>4 DEF AppendApproval, IndInv, TypeOK, OneGrantPerDecision, Known, ClosedStays
<1>5. CASE /\ decisions' = [decisions EXCEPT ![d] = new]
           /\ OpenForApproval(record) /\ record.binding = binding /\ NewVoter(record, a)
  <2>1. record \in Record /\ Sound(record)
    <3>1. CASE decisions[d] = None
      BY Zenon, <1>2, <3>1, NewIsSound
    <3>2. CASE decisions[d] # None
      BY Zenon, <1>2, <3>2 DEF IndInv, Known
    <3> QED
      BY Zenon, <3>1, <3>2
  <2>2. d \in Known => ~decisions[d].revoked /\ decisions[d].consumption = NoQuorum
    BY Zenon, <1>5 DEF Known, OpenForApproval
  <2> HIDE DEF record, binding
  <2>3. new \in Record /\ Sound(new)
    BY Zenon, <1>1, <1>2, <1>5, <2>1, VoteIsSound DEF OpenForApproval
  <2> HIDE DEF new, d
  <2>4. /\ decisions' \in [Decision -> Record \cup {None}]
        /\ \A e \in Known' : Sound(decisions'[e])
        /\ ClosedStays
    BY Zenon, <1>2, <1>5, <2>2, <2>3, ReplaceRecord
  <2>5. UNCHANGED <<policy, consumptions, revocations, clock, granted>>
    BY Zenon DEF AppendApproval
  <2>6. TypeOK' /\ OneGrantPerDecision'
    BY Zenon, <2>4, <2>5, ClosedKeeps DEF TypeOK, OneGrantPerDecision
  <2> QED
    BY Zenon, <1>3, <2>4, <2>5, <2>6 DEF IndInv
<1> QED
  BY Zenon, <1>4, <1>5 DEF AppendApproval

LEMMA RevokeKeepsInv ==
    ASSUME ConstantsOK, IndInv, NEW r \in RevocationID, NEW d \in Decision, RevokeDecision(r, d)
    PROVE  IndInv' /\ ClosedStays
<1> DEFINE record == IF decisions[d] = None THEN NewDecision(None) ELSE decisions[d]
           new == [record EXCEPT !.revoked = TRUE]
<1>1. /\ Revocable(record) /\ decisions' = [decisions EXCEPT ![d] = new]
      /\ revocations' = [revocations EXCEPT ![r] = d]
      /\ UNCHANGED <<policy, consumptions, clock, call, granted>>
  BY Zenon DEF RevokeDecision
<1>2. record \in Record /\ Sound(record)
  <2>1. CASE decisions[d] = None
    BY Zenon, <2>1, NewIsSound
  <2>2. CASE decisions[d] # None
    BY Zenon, <2>2 DEF IndInv, Known
  <2> QED
    BY Zenon, <2>1, <2>2
<1>3. d \in Known => ~decisions[d].revoked /\ decisions[d].consumption = NoQuorum
  BY Zenon, <1>1 DEF Known, Revocable
<1> HIDE DEF record
<1>4. new \in Record /\ Sound(new) /\ new.revoked
  BY Zenon, <1>1, <1>2 DEF Record, Revocable, Sound
<1> HIDE DEF new
<1>5. /\ decisions' \in [Decision -> Record \cup {None}]
      /\ \A e \in Known' : Sound(decisions'[e])
      /\ d \in Known' /\ decisions'[d] = new
      /\ ClosedStays
  BY Zenon, <1>1, <1>3, <1>4, ReplaceRecord
<1>6. /\ revocations \in [RevocationID -> Decision \cup {None}]
      /\ revocations' \in [RevocationID -> Decision \cup {None}]
  BY Zenon, <1>1 DEF IndInv
<1>7. TypeOK' /\ OneGrantPerDecision'
  BY <1>1, <1>4, <1>5, <1>6, ClosedKeeps DEF TypeOK, OneGrantPerDecision
<1> QED
  BY Zenon, <1>1, <1>5, <1>6, <1>7 DEF IndInv

\* The quorum that a consumption commits to an open decision.
LEMMA QuorumIsSound ==
    ASSUME ConstantsOK, clock \in Time, NEW record \in Record, Sound(record), Consumable(record),
           NEW c, c.id \in ConsumptionID, c.policy \in Policy, c.binding \in Bindings,
           c.binding.policy = c.policy, ValidPolicy(c.policy), BoundTo(record, c.binding),
           NEW selected \in Selection(Candidates(record), c.policy.threshold),
           NEW quorum, quorum = NewQuorum(c, selected),
           NEW new, new = [record EXCEPT !.consumption = quorum]
    PROVE  /\ quorum \in Quorum /\ quorum # NoQuorum
           /\ quorum.id = c.id /\ quorum.binding = c.binding
           /\ quorum.consumedAt <= clock /\ clock < quorum.acceptedUntil
           /\ new \in Record /\ Sound(new) /\ new.consumption = quorum /\ ~new.revoked
<1>1. /\ c.policy.threshold \in Nat /\ c.policy.until \in Nat /\ clock \in Nat /\ clock # 0
      /\ clock < c.policy.until
  BY DEF ConstantsOK, ValidPolicy, During, Time
<1>2. /\ record.approvals \subseteq Approval /\ IsFiniteSet(record.approvals)
      /\ \A a \in Approval : a.proof.expiresAt \in Nat
      /\ Candidates(record) \subseteq record.approvals
      /\ \A a \in Candidates(record) : a.approvedAt <= clock /\ clock < a.proof.expiresAt
  BY Zenon DEF ConstantsOK, Record, Sound, Approval, Candidates, During
<1>3. selected \subseteq Candidates(record) /\ Cardinality(selected) = c.policy.threshold
  BY Zenon DEF Selection, kSubset
<1>4. /\ quorum.id = c.id /\ quorum.binding = c.binding /\ quorum.consumedAt = clock
      /\ quorum.selected = selected /\ quorum.acceptedUntil = AcceptedUntil(c.policy, selected)
  BY Zenon DEF NewQuorum
<1>5. /\ quorum.acceptedUntil \in Nat
      /\ \A a \in selected : quorum.acceptedUntil <= a.proof.expiresAt
      /\ quorum.acceptedUntil = c.policy.until
         \/ \E a \in selected : quorum.acceptedUntil = a.proof.expiresAt
  BY <1>1, <1>2, <1>3, <1>4, AcceptedUntilIsFirst
<1>6. clock < quorum.acceptedUntil
  BY Zenon, <1>1, <1>2, <1>3, <1>5
<1>7. quorum \in Quorum
  BY Zenon, <1>2, <1>3, <1>5 DEF NewQuorum, Quorum
<1>8. quorum # NoQuorum
  BY <1>1, <1>4 DEF NoQuorum
<1>9. /\ new \in Record /\ new.approvals = record.approvals /\ new.binding = record.binding
      /\ new.consumption = quorum /\ new.revoked = record.revoked
  BY Zenon, <1>7 DEF Record
<1>10. Genuine(quorum)
  <2>1. Distinct(selected)
    BY Zenon, <1>2, <1>3 DEF Sound, Distinct
  <2>2. \A a \in selected : Supports(a, c.binding)
    BY Zenon, <1>2, <1>3 DEF Sound, BoundTo
  <2> QED
    BY Zenon, <1>2, <1>3, <1>4, <1>5, <2>1, <2>2 DEF Genuine
<1>11. Longest(new)
  <2>1. ValidAt(clock, new) = Candidates(record)
    BY Zenon, <1>9 DEF ValidAt, Candidates, During
  <2>2. IsFiniteSet(Candidates(record))
    BY Zenon, <1>2, FS_Subset
  <2>3. \A s \in kSubset(c.policy.threshold, Candidates(record)) :
            AcceptedUntil(c.policy, s) <= AcceptedUntil(c.policy, selected)
    BY Zenon, <1>1, <1>2, <2>2, SelectionIsLongest
  <2> QED
    BY <1>4, <1>9, <2>1, <2>3 DEF Longest
<1>12. Sound(new)
  BY Zenon, <1>9, <1>10, <1>11 DEF Sound, Consumable
<1> QED
  BY <1>1, <1>4, <1>6, <1>7, <1>8, <1>9, <1>12 DEF Consumable

LEMMA ConsumeQuorumKeepsInv ==
    ASSUME ConstantsOK, IndInv, NEW w \in Worker, ConsumeQuorum(w)
    PROVE  IndInv' /\ ClosedStays
<1> DEFINE c == call[w]
           d == c.binding.decision
<1>1. /\ c.id \in ConsumptionID /\ c.policy \in Policy /\ c.binding \in Bindings
      /\ c.binding.policy = c.policy
  <2>1. c \in Call /\ c.pc = "CONSUME"
    BY Zenon DEF ConsumeQuorum, IndInv
  <2> QED
    BY <2>1 DEF Call, NoCall
<1>2. d \in Decision
  BY Zenon, <1>1 DEF Bindings
<1>3. call' \in [Worker -> Call] /\ UNCHANGED <<policy, revocations, clock>>
  BY Zenon DEF ConsumeQuorum, IndInv, Call
<1>4. RetryConsumption(c) \/ CommitConsumption(c)
  BY Zenon DEF ConsumeQuorum
<1> HIDE DEF c
<1>5. CASE UNCHANGED <<decisions, consumptions, granted>>
  BY Zenon, <1>3, <1>5 DEF IndInv, TypeOK, OneGrantPerDecision, Known, ClosedStays
<1>6. ASSUME UNCHANGED <<decisions, consumptions>>, consumptions[c.id] # NoQuorum,
             StillAccepted(consumptions[c.id]), Returned(consumptions[c.id])
      PROVE  IndInv' /\ ClosedStays
  <2> DEFINE quorum == consumptions[c.id]
             grant == [quorum |-> quorum, at |-> clock]
  <2>1. /\ quorum \in Quorum /\ quorum.binding.decision \in Known
        /\ decisions[quorum.binding.decision].consumption = quorum
    BY <1>1, <1>6 DEF IndInv, TypeOK
  <2>2. ~decisions[quorum.binding.decision].revoked
    BY Zenon, <1>6, <2>1 DEF IndInv, Sound
  <2>3. /\ granted' = granted \cup {grant}
        /\ quorum.consumedAt <= clock /\ clock < quorum.acceptedUntil
    BY Zenon, <1>6 DEF Returned, StillAccepted, During
  <2> HIDE DEF quorum
  <2>4. granted' \subseteq [quorum : Quorum, at : Time] /\ grant.quorum = quorum /\ grant.at = clock
    BY <2>1, <2>3 DEF IndInv
  <2> HIDE DEF grant
  <2>5. OneGrantPerDecision'
    BY <1>6, <2>1, <2>2, <2>3, <2>4 DEF IndInv, OneGrantPerDecision, Known
  <2> QED
    BY Zenon, <1>3, <1>6, <2>4, <2>5 DEF IndInv, TypeOK, Known, ClosedStays
<1>7. ASSUME consumptions[c.id] = NoQuorum, decisions[d] # None, Consumable(decisions[d]),
             ValidPolicy(c.policy), BoundTo(decisions[d], c.binding),
             NEW selected \in Selection(Candidates(decisions[d]), c.policy.threshold),
             decisions' = [decisions EXCEPT ![d].consumption = NewQuorum(c, selected)],
             consumptions' = [consumptions EXCEPT ![c.id] = NewQuorum(c, selected)],
             Returned(NewQuorum(c, selected))
      PROVE  IndInv' /\ ClosedStays
  <2> DEFINE quorum == NewQuorum(c, selected)
             new == [decisions[d] EXCEPT !.consumption = quorum]
             grant == [quorum |-> quorum, at |-> clock]
  <2>1. decisions[d] \in Record /\ Sound(decisions[d]) /\ clock \in Time
    BY Zenon, <1>2, <1>7 DEF IndInv, Known
  <2>2. /\ quorum \in Quorum /\ quorum # NoQuorum
        /\ quorum.id = c.id /\ quorum.binding = c.binding
        /\ quorum.consumedAt <= clock /\ clock < quorum.acceptedUntil
        /\ new \in Record /\ Sound(new) /\ new.consumption = quorum /\ ~new.revoked
    BY Zenon, <1>1, <1>7, <2>1, QuorumIsSound
  <2>3. /\ decisions' = [decisions EXCEPT ![d] = new]
        /\ consumptions' = [consumptions EXCEPT ![c.id] = quorum]
        /\ granted' = granted \cup {grant}
    BY Zenon, <1>7 DEF Returned
  <2> HIDE DEF quorum, new
  <2>4. grant.quorum = quorum /\ grant.at = clock /\ granted' \subseteq [quorum : Quorum, at : Time]
    BY <2>1, <2>2, <2>3 DEF IndInv
  <2> HIDE DEF grant
  <2>5. ~decisions[d].revoked /\ decisions[d].consumption = NoQuorum
    BY Zenon, <1>7 DEF Consumable
  <2> HIDE DEF d
  <2>6. /\ decisions' \in [Decision -> Record \cup {None}]
        /\ \A e \in Known' : Sound(decisions'[e])
        /\ d \in Known' /\ decisions'[d] = new
        /\ ClosedStays
    BY Zenon, <1>2, <2>2, <2>3, <2>5, ReplaceRecord
  <2>7. /\ consumptions' \in [ConsumptionID -> Quorum \cup {NoQuorum}]
        /\ consumptions'[c.id] = quorum
        /\ \A id \in ConsumptionID : id # c.id => consumptions'[id] = consumptions[id]
    BY Zenon, <1>1, <2>2, <2>3 DEF IndInv
  <2>8. quorum.binding.decision = d
    BY Zenon, <2>2 DEF d
  <2>9. TypeOK'
    BY <1>3, <2>2, <2>6, <2>7, <2>8, ClosedKeeps DEF TypeOK
  <2>10. OneGrantPerDecision'
    BY <2>2, <2>3, <2>4, <2>6, <2>8, ClosedKeeps DEF OneGrantPerDecision
  <2> QED
    BY Zenon, <1>3, <2>4, <2>6, <2>7, <2>9, <2>10 DEF IndInv
<1>8. CASE RetryConsumption(c)
  BY Zenon, <1>5, <1>6, <1>8 DEF RetryConsumption
<1>9. CASE CommitConsumption(c)
  BY Zenon, <1>5, <1>7, <1>9 DEF CommitConsumption
<1> QED
  BY Zenon, <1>4, <1>8, <1>9

LEMMA NextIndInv == ConstantsOK /\ IndInv /\ [Next]_vars => IndInv' /\ ClosedStays
<1> SUFFICES ASSUME ConstantsOK, IndInv, [Next]_vars PROVE IndInv' /\ ClosedStays
  BY Zenon
<1>1. ASSUME decisions' = decisions PROVE ClosedStays
  BY Zenon, <1>1 DEF ClosedStays
<1>2. ASSUME NEW w \in Worker, NEW proof \in Proof, Submit(w, proof)
      PROVE  IndInv' /\ ClosedStays
  BY Zenon, <1>1, <1>2, SubmitKeepsInv DEF Submit
<1>3. ASSUME NEW w \in Worker, Approve(w)
      PROVE  IndInv' /\ ClosedStays
  BY Zenon, <1>1, <1>3, ApproveKeepsInv DEF Approve
<1>4. ASSUME NEW w \in Worker, NEW id \in ConsumptionID, NEW d \in Decision, NEW operation \in Operation,
             Consume(w, id, d, operation)
      PROVE  IndInv' /\ ClosedStays
  BY Zenon, <1>1, <1>4, ConsumeKeepsInv DEF Consume
<1>5. ASSUME NEW p \in Policy, RotatePolicy(p)
      PROVE  IndInv' /\ ClosedStays
  BY <1>5 DEF RotatePolicy, IndInv, TypeOK, OneGrantPerDecision, Known, ClosedStays
<1>6. CASE Tick
  <2>1. clock' \in Time
    BY <1>6 DEF Tick, Time, IndInv, ConstantsOK
  <2> QED
    BY Zenon, <1>6, <2>1 DEF Tick, IndInv, TypeOK, OneGrantPerDecision, Known, ClosedStays
<1>7. CASE UNCHANGED vars
  BY <1>7 DEF vars, IndInv, TypeOK, OneGrantPerDecision, Known, ClosedStays
<1> QED
  BY Zenon, <1>2, <1>3, <1>4, <1>5, <1>6, <1>7, AppendKeepsInv, ConsumeQuorumKeepsInv, RevokeKeepsInv DEF Next

\* The invariant, for every set of policies, proofs, decisions and workers.
THEOREM Invariant == ASSUME ConstantsOK PROVE Spec => []IndInv
BY InitIndInv, NextIndInv, PTL DEF Spec

\* A quorum that ConsumeQuorum commits rests on a threshold of valid approvals of
\* exactly its binding, no two of one slot, principal or credential.
THEOREM GenuineQuorum == ASSUME ConstantsOK PROVE Spec => []QuorumIsGenuine
<1>1. IndInv => QuorumIsGenuine
  BY Zenon DEF IndInv, Sound, QuorumIsGenuine
<1> QED
  BY <1>1, Invariant, PTL

\* The approvals it takes are the ones with which it is accepted for longest.
THEOREM LongestQuorum == ASSUME ConstantsOK PROVE Spec => []LongestAcceptance
<1>1. IndInv => LongestAcceptance
  BY Zenon DEF IndInv, Sound, LongestAcceptance
<1> QED
  BY <1>1, Invariant, PTL

\* A decision is granted at most once, to retries within the acceptance of that
\* one quorum, and never when it was revoked.
THEOREM GrantedOnce == ASSUME ConstantsOK PROVE Spec => []OneGrantPerDecision
<1>1. IndInv => OneGrantPerDecision
  BY Zenon DEF IndInv
<1> QED
  BY <1>1, Invariant, PTL

\* A revoked or consumed decision is closed: no late approval, consumption or
\* revocation changes its record.
THEOREM ClosedForGood == ASSUME ConstantsOK PROVE Spec => ConsumedIsClosed
<1>1. ConstantsOK /\ IndInv /\ [Next]_vars => [ClosedStays]_vars
  BY Zenon, NextIndInv
<1> QED
  BY <1>1, Invariant, PTL DEF Spec, ConsumedIsClosed
=============================================================================
