-------------------------- MODULE AuthorityQuorum --------------------------
(***************************************************************************)
(* pkg/authorityquorum: several authorities approve one exact decision and *)
(* a consumer turns enough approvals into one quorum, once.                *)
(*                                                                         *)
(* Store calls run under one mutex and are one step each.  What happens    *)
(* before them is not: a submission is accepted against the proof, then    *)
(* the current policy is resolved, then the approval is appended, each     *)
(* reading the clock anew; a consumption resolves the policy first.        *)
(*                                                                         *)
(* A policy's digest is the policy.  A proof is what the ASB verifier      *)
(* accepted; digests and tags are the values they are made from.           *)
(***************************************************************************)
EXTENDS Naturals, FiniteSets, FiniteSetsExt

CONSTANTS
    Policy,        \* [map, threshold, authorities, from, until]
    Proof,         \* [decision, policy, operation, principal, credential, id, issuedAt, expiresAt]
    AuthorityOf(_),\* the slot a proof's actor and credential map to, or None
    AuthorityMap,  \* digest of that map
    Decision, ConsumptionID, Operation, RevocationID,
    Worker, None, MaxTime

VARIABLES
    policy,        \* what the PolicyResolver returns
    decisions,     \* Decision -> memoryDecision
    consumptions,  \* ConsumptionID -> its quorum
    revocations,   \* RevocationID -> its decision
    clock,
    call,          \* Worker -> its call
    granted        \* quorums returned to a consumer, with the time

vars == <<policy, decisions, consumptions, revocations, clock, call, granted>>

Binding(decision, p, operation) == [decision |-> decision, policy |-> p, operation |-> operation]

NoQuorum == [id |-> None, binding |-> None, consumedAt |-> 0, acceptedUntil |-> 0, selected |-> {}]

NewDecision(binding) ==
    [binding |-> binding, approvals |-> {}, revoked |-> FALSE, consumption |-> NoQuorum]

NoCall == [pc |-> "IDLE"]

During(from, until) == from <= clock /\ clock < until

Known == {d \in Decision : decisions[d] # None}

ValidPolicy(p) == During(p.from, p.until)
-----------------------------------------------------------------------------
(* Approving. *)

\* Profile.Submit up to Service.Approve: the proof is verified for exactly this
\* request and its actor resolved to a slot.
Submit(w, proof) ==
    /\ call[w] = NoCall
    /\ During(proof.issuedAt, proof.expiresAt) /\ AuthorityOf(proof) # None
    /\ call' = [call EXCEPT ![w] = [pc |-> "APPROVE", proof |-> proof]]
    /\ UNCHANGED <<policy, decisions, consumptions, revocations, clock, granted>>

NewApproval(proof) ==
    [proof |-> proof, authority |-> AuthorityOf(proof), approvedAt |-> clock]

\* Service.Approve up to the store.
Approve(w) ==
    LET proof == call[w].proof
        may   == /\ ValidPolicy(policy) /\ proof.policy = policy
                 /\ policy.map = AuthorityMap /\ AuthorityOf(proof) \in policy.authorities
                 /\ During(proof.issuedAt, proof.expiresAt)
    IN  /\ call[w].pc = "APPROVE"
        /\ call' = [call EXCEPT ![w] =
                       IF may THEN [pc |-> "APPEND", policy |-> policy, approval |-> NewApproval(proof)]
                       ELSE NoCall]
        /\ UNCHANGED <<policy, decisions, consumptions, revocations, clock, granted>>

\* Mutation: one person may approve under each of their slots.
NewVoterBySlot(record, a) == \A b \in record.approvals : b.authority # a.authority

\* One vote for a slot, a principal and a credential.
NewVoter(record, a) ==
    \A b \in record.approvals :
        /\ b.authority # a.authority
        /\ b.proof.principal # a.proof.principal /\ b.proof.credential # a.proof.credential

OpenForApproval(record) == ~record.revoked /\ record.consumption = NoQuorum

\* An approval of this proof is there: the retry is answered with it.
Approved(a) == \E d \in Known : \E b \in decisions[d].approvals : b.proof = a.proof

AppendApproval(w) ==
    LET a       == call[w].approval
        d       == a.proof.decision
        binding == Binding(d, a.proof.policy, a.proof.operation)
        record  == IF decisions[d] = None THEN NewDecision(binding) ELSE decisions[d]
        may     == /\ ~Approved(a)
                   /\ ValidPolicy(call[w].policy) /\ During(a.approvedAt, a.proof.expiresAt)
                   /\ OpenForApproval(record) /\ record.binding = binding
                   /\ NewVoter(record, a)
    IN  /\ call[w].pc = "APPEND"
        /\ decisions' = IF may THEN [decisions EXCEPT ![d] = [record EXCEPT !.approvals = @ \cup {a}]]
                        ELSE decisions
        /\ call' = [call EXCEPT ![w] = NoCall]
        /\ UNCHANGED <<policy, consumptions, revocations, clock, granted>>
-----------------------------------------------------------------------------
(* Consuming and revoking. *)

\* Service.Consume up to the store.
Consume(w, id, d, operation) ==
    /\ call[w] = NoCall /\ ValidPolicy(policy)
    /\ call' = [call EXCEPT ![w] = [pc |-> "CONSUME", policy |-> policy, id |-> id,
                                    binding |-> Binding(d, policy, operation)]]
    /\ UNCHANGED <<policy, decisions, consumptions, revocations, clock, granted>>

Candidates(record) == {a \in record.approvals : During(a.approvedAt, a.proof.expiresAt)}

\* The n latest to expire; equal ones in the order of their names, any order here.
Selection(candidates, n) ==
    {s \in kSubset(n, candidates) :
        \A a \in s, b \in candidates \ s : a.proof.expiresAt >= b.proof.expiresAt}

AcceptedUntil(p, selected) == Min({p.until} \cup {a.proof.expiresAt : a \in selected})

BoundTo(record, binding) == record.binding = binding

Consumable(record) == ~record.revoked /\ record.consumption = NoQuorum

StillAccepted(quorum) == During(quorum.consumedAt, quorum.acceptedUntil)

\* The quorum ConsumeQuorum commits, for a selection.
NewQuorum(c, selected) ==
    [id |-> c.id, binding |-> c.binding, consumedAt |-> clock,
     acceptedUntil |-> AcceptedUntil(c.policy, selected), selected |-> selected]

Returned(quorum) == granted' = granted \cup {[quorum |-> quorum, at |-> clock]}

\* A known consumption ID: the same request gets the quorum while it is accepted.
RetryConsumption(c) ==
    LET quorum == consumptions[c.id]
    IN  /\ quorum # NoQuorum
        /\ IF quorum.binding = c.binding /\ StillAccepted(quorum)
           THEN Returned(quorum) ELSE UNCHANGED granted
        /\ UNCHANGED <<decisions, consumptions>>

CommitConsumption(c) ==
    LET d == c.binding.decision
    IN  /\ consumptions[c.id] = NoQuorum
        /\ IF /\ decisions[d] # None /\ Consumable(decisions[d])
              /\ ValidPolicy(c.policy) /\ BoundTo(decisions[d], c.binding)
              /\ Cardinality(Candidates(decisions[d])) >= c.policy.threshold
           THEN \E selected \in Selection(Candidates(decisions[d]), c.policy.threshold) :
                    LET quorum == NewQuorum(c, selected)
                    IN  /\ decisions' = [decisions EXCEPT ![d].consumption = quorum]
                        /\ consumptions' = [consumptions EXCEPT ![c.id] = quorum]
                        /\ Returned(quorum)
           ELSE UNCHANGED <<decisions, consumptions, granted>>

ConsumeQuorum(w) ==
    /\ call[w].pc = "CONSUME"
    /\ RetryConsumption(call[w]) \/ CommitConsumption(call[w])
    /\ call' = [call EXCEPT ![w] = NoCall]
    /\ UNCHANGED <<policy, revocations, clock>>

Revocable(record) == record.consumption = NoQuorum /\ ~record.revoked

RevokeDecision(r, d) ==
    LET record == IF decisions[d] = None THEN NewDecision(None) ELSE decisions[d]
    IN  /\ revocations[r] = None /\ Revocable(record)
        /\ decisions' = [decisions EXCEPT ![d] = [record EXCEPT !.revoked = TRUE]]
        /\ revocations' = [revocations EXCEPT ![r] = d]
        /\ UNCHANGED <<policy, consumptions, clock, call, granted>>

\* The resolver's owner installs another policy.
RotatePolicy(p) ==
    /\ p # policy /\ policy' = p
    /\ UNCHANGED <<decisions, consumptions, revocations, clock, call, granted>>

Tick ==
    /\ clock < MaxTime /\ clock' = clock + 1
    /\ UNCHANGED <<policy, decisions, consumptions, revocations, call, granted>>

Init ==
    /\ policy \in Policy /\ decisions = [d \in Decision |-> None]
    /\ consumptions = [id \in ConsumptionID |-> NoQuorum]
    /\ revocations = [r \in RevocationID |-> None]
    /\ clock = 1 /\ call = [w \in Worker |-> NoCall] /\ granted = {}

Next ==
    \/ \E w \in Worker :
           \/ \E proof \in Proof : Submit(w, proof)
           \/ Approve(w) \/ AppendApproval(w) \/ ConsumeQuorum(w)
           \/ \E id \in ConsumptionID, d \in Decision, operation \in Operation :
                  Consume(w, id, d, operation)
    \/ \E r \in RevocationID, d \in Decision : RevokeDecision(r, d)
    \/ \E p \in Policy : RotatePolicy(p)
    \/ Tick

Spec == Init /\ [][Next]_vars
-----------------------------------------------------------------------------
(* The two indexes of a quorum and of a revocation agree. *)
TypeOK ==
    /\ \A id \in ConsumptionID : consumptions[id] # NoQuorum =>
           /\ consumptions[id].id = id /\ consumptions[id].binding.decision \in Known
           /\ decisions[consumptions[id].binding.decision].consumption = consumptions[id]
    /\ \A r \in RevocationID : revocations[r] # None =>
           revocations[r] \in Known /\ decisions[revocations[r]].revoked

\* No two votes of a slot, a principal or a credential.
Distinct(approvals) ==
    \A a, b \in approvals : a # b =>
        /\ a.authority # b.authority
        /\ a.proof.principal # b.proof.principal /\ a.proof.credential # b.proof.credential

\* The approval a is of exactly this binding, by a slot of its policy.
Supports(a, binding) ==
    /\ Binding(a.proof.decision, a.proof.policy, a.proof.operation) = binding
    /\ a.authority \in binding.policy.authorities

Genuine(quorum) ==
    /\ Cardinality(quorum.selected) = quorum.binding.policy.threshold
    /\ Distinct(quorum.selected)
    /\ \A a \in quorum.selected :
           /\ Supports(a, quorum.binding)
           /\ a.approvedAt <= quorum.consumedAt /\ quorum.acceptedUntil <= a.proof.expiresAt

(***************************************************************************)
(* A quorum rests on as many approvals of exactly its decision, policy and *)
(* operation as the policy asks for, from distinct slots of the policy,    *)
(* distinct principals and distinct credentials, all of them valid from    *)
(* its consumption to the end of its acceptance.                           *)
(***************************************************************************)
QuorumIsGenuine ==
    \A d \in Known : decisions[d].consumption # NoQuorum => Genuine(decisions[d].consumption)

ValidAt(time, record) ==
    {a \in record.approvals : a.approvedAt <= time /\ time < a.proof.expiresAt}

Longest(record) ==
    LET quorum == record.consumption
    IN  \A s \in kSubset(quorum.binding.policy.threshold, ValidAt(quorum.consumedAt, record)) :
            AcceptedUntil(quorum.binding.policy, s) <= quorum.acceptedUntil

(***************************************************************************)
(* No choice among the approvals that were valid at the consumption would  *)
(* have been accepted for longer: the sort before the cut is by latest     *)
(* expiry.                                                                 *)
(***************************************************************************)
LongestAcceptance ==
    \A d \in Known : decisions[d].consumption # NoQuorum => Longest(decisions[d])

(***************************************************************************)
(* Whatever is returned for a decision, at first or to a retry, is one     *)
(* quorum, returned within its acceptance, and never for a revoked         *)
(* decision.                                                               *)
(***************************************************************************)
OneGrantPerDecision ==
    \A g \in granted :
        /\ g.quorum.consumedAt <= g.at /\ g.at < g.quorum.acceptedUntil
        /\ g.quorum.binding.decision \in Known
        /\ decisions[g.quorum.binding.decision].consumption = g.quorum
        /\ ~decisions[g.quorum.binding.decision].revoked

(***************************************************************************)
(* The approvals a quorum was selected from never change afterwards, so    *)
(* that the selection can be audited: a late append of a slow submission   *)
(* finds the decision closed.                                              *)
(***************************************************************************)
ClosedStays ==
    \A d \in Known : decisions[d].revoked \/ decisions[d].consumption # NoQuorum =>
        decisions'[d] = decisions[d]

ConsumedIsClosed == [][ClosedStays]_vars

-----------------------------------------------------------------------------
(***************************************************************************)
(* The inductive invariant.  What the proofs need beyond the properties:   *)
(* that a call in progress carries an approval some policy allowed, and    *)
(* that the approvals of a decision are finitely many distinct votes for   *)
(* its binding.                                                            *)
(***************************************************************************)
Time == 1..MaxTime

Bindings ==
    [decision : Decision, policy : Policy, operation : Operation \cup {proof.operation : proof \in Proof}]

Approval ==
    {a \in [proof : Proof, authority : UNION {p.authorities : p \in Policy}, approvedAt : Time] :
        a.authority \in a.proof.policy.authorities}

Quorum ==
    [id : ConsumptionID, binding : Bindings, consumedAt : Time, acceptedUntil : Nat,
     selected : SUBSET Approval]

Record ==
    [binding : Bindings \cup {None}, approvals : SUBSET Approval, revoked : BOOLEAN,
     consumption : Quorum \cup {NoQuorum}]

Call ==
    {NoCall} \cup [pc : {"APPROVE"}, proof : Proof]
             \cup [pc : {"APPEND"}, policy : Policy, approval : Approval]
             \cup {c \in [pc : {"CONSUME"}, policy : Policy, id : ConsumptionID, binding : Bindings] :
                     c.binding.policy = c.policy}

ConstantsOK ==
    /\ MaxTime \in Nat \ {0}
    /\ \A p \in Policy : p.threshold \in Nat /\ p.until \in Nat
    /\ \A proof \in Proof :
           proof.decision \in Decision /\ proof.policy \in Policy /\ proof.expiresAt \in Nat
    /\ None \notin Record

\* What holds of the record of a decision.
Sound(record) ==
    /\ IsFiniteSet(record.approvals) /\ Distinct(record.approvals)
    /\ \A a \in record.approvals : Supports(a, record.binding)
    /\ record.consumption # NoQuorum =>
           Genuine(record.consumption) /\ Longest(record) /\ ~record.revoked

IndInv ==
    /\ policy \in Policy /\ clock \in Time
    /\ decisions \in [Decision -> Record \cup {None}]
    /\ consumptions \in [ConsumptionID -> Quorum \cup {NoQuorum}]
    /\ revocations \in [RevocationID -> Decision \cup {None}]
    /\ call \in [Worker -> Call]
    /\ granted \subseteq [quorum : Quorum, at : Time]
    /\ \A d \in Known : Sound(decisions[d])
    /\ TypeOK /\ OneGrantPerDecision
=============================================================================
