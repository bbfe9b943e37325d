----------------------------- MODULE MCIngress -----------------------------
(***************************************************************************)
(* The Human ingress on small instances for TLC:                           *)
(*   RECOVERY  an operation on the durable store is executed, lost, tried  *)
(*             again and recovered over two gateways                       *)
(*   PLAIN     operations that want one revision and share an identifier,  *)
(*             on a store without transactions                             *)
(*   REGISTRY  three connections of two clients fill, use, mix up and let  *)
(*             expire the outstanding challenges                           *)
(***************************************************************************)
EXTENDS HumanIngress, TLC

CONSTANTS h1, h2, c1, c2, c3

\* RECOVERY has the variables of HumanIngress, the other two have these.
VARIABLES
    instance, clock2, pending2, connections2, identities2, issued2, proofs2, handlers2, writer2,
    revision2, events2, outcomes2, replay2, answers2

vars2 == <<clock2, pending2, connections2, identities2, issued2, proofs2, handlers2, writer2,
           revision2, events2, outcomes2, replay2, answers2>>
mcVars == <<instance, vars, vars2>>

\* Connections 1 and 2 are of the client k1, connection 3 is of k2.
ClientOf(n) == IF n = 3 THEN "k2" ELSE IF n \in {1, 2} THEN "k1" ELSE None

Transition(e) ==
    [kind |-> "ASSIGNMENT_TRANSITION", event |-> e, participant |-> "human", assignment |-> "a", expected |-> 1]
Offer(e) ==
    [kind |-> "ASSIGNMENT_OFFER", event |-> e, participant |-> "human", assignment |-> "b", target |-> "agent"]
Delegation ==
    [kind |-> "ASSIGNMENT_DELEGATION", event |-> "e1", childEvent |-> "e2", participant |-> "human",
     assignment |-> "a", child |-> "b", target |-> "agent", expected |-> 1]
Interaction ==
    [kind |-> "INTERACTION_APPEND", event |-> "e1", participant |-> "human", assignment |-> "a"]
RecoveryOf(r) ==
    [kind |-> "OPERATION_RECOVER", event |-> r.event, participant |-> "human", of |-> r]

Handlers == {h1, h2}
Keys == {"k1", "k2"}
EventIDs == {"e1", "e2"}
Participants == {"human", "agent"}
Challenges == {c1, c2}
Recoveries == {Transition("e1"), RecoveryOf(Transition("e1"))}
Rivals == {Delegation, Interaction}
Offers == {Offer("e1")}

Plain == INSTANCE HumanIngress WITH
    clock <- clock2, pending <- pending2, connections <- connections2, identities <- identities2, issued <-
    issued2, proofs <- proofs2, handlers <- handlers2, writer <- writer2, revision <- revision2, events <-
    events2, outcomes <- outcomes2, replay <- replay2, answers <- answers2,
    Connection <- {1}, Request <- Rivals, Durable <- FALSE, ChallengeTTL <- 2,
    MaxPending <- 2, MaxTotalPending <- 2, Lifetime <- {1}, MaxTime <- 2

Registry == INSTANCE HumanIngress WITH
    clock <- clock2, pending <- pending2, connections <- connections2, identities <- identities2, issued <-
    issued2, proofs <- proofs2, handlers <- handlers2, writer <- writer2, revision <- revision2, events <-
    events2, outcomes <- outcomes2, replay <- replay2, answers <- answers2,
    Handler <- {h1}, Connection <- {1, 2, 3}, Challenge <- {c1, c2, c3}, Request <- Offers, Durable <- TRUE,
    ChallengeTTL <- 1, MaxPending <- 1, MaxTotalPending <- 2, Lifetime <- {}, MaxTime <- 2

MCInit ==
    /\ Init
    /\ \/ instance \in {"RECOVERY", "PLAIN"} /\ Plain!Init
       \/ instance = "REGISTRY" /\ Registry!Init

MCNext ==
    \/ instance = "RECOVERY" /\ Next /\ UNCHANGED <<instance, vars2>>
    \/ instance = "PLAIN" /\ Plain!Next /\ UNCHANGED <<instance, vars>>
    \/ instance = "REGISTRY" /\ Registry!Next /\ UNCHANGED <<instance, vars>>

MCSpec == MCInit /\ [][MCNext]_mcVars

Symmetry == Permutations({c1, c2}) \cup Permutations({h1, h2})
-----------------------------------------------------------------------------
\* A commit rests on a challenge and a proof that were in force at the last look
\* before it, and a challenge admits one request: on the durable store and on the
\* plain one, where time passes between the look and the commit.
CommitsAreAuthorized ==
    /\ AuthorizedWhenCommitted
    /\ [][instance = "PLAIN" => Plain!AuthorizedCommit /\ Plain!AdmittedAlone]_vars2

\* The counts that limit a connection and a key are those of the challenges
\* outstanding, and a client gains no room by opening another connection; and every
\* instance keeps what the proofs rest on.
LimitsAreExact ==
    /\ instance = "RECOVERY" => ConstantsOK /\ IndInv
    /\ instance = "PLAIN" => Plain!ConstantsOK /\ Plain!IndInv
    /\ instance = "REGISTRY" => Registry!ConstantsOK /\ Registry!IndInv
=============================================================================
