--------------------------- MODULE MCTaskDelivery ---------------------------
(***************************************************************************)
(* The two stores that keep TaskCoord and its outbox beyond one process,   *)
(* on small instances for TLC.  "instance" says which one a behaviour is   *)
(* of; the variables of the others stay as they are:                       *)
(*   SQLITE    the outbox of the SQLite store: mutations, replays, polls   *)
(*             with lost answers, slow and crashing consumers, decay       *)
(*   CHAIN     rival transitions and retries on Redis, with a failover     *)
(*   ROWS      offer and delegation with their outbox rows on Redis        *)
(*   THREAD    two processes append to one thread on Redis                 *)
(***************************************************************************)
EXTENDS Outbox, TLC

CONSTANTS
    Worker,            \* the clients of Redis
    Node,              \* the replicas of CHAIN
    a1, a2, e1, e2, e3, e4, s1, w1, None

VARIABLES
    instance,
    primary, copies, clock, call, answered, delivered, failures

redisVars == <<primary, copies, clock, call, answered, delivered, failures>>
mcVars == <<instance, vars, redisVars>>

Commit(a, expected, event, content) ==
    [a |-> a, expected |-> expected, event |-> event, content |-> content]

Offer == {Commit(a1, 0, e1, "x")}

\* An OFFER, two rivals on top of it, a transition on top of either, and another
\* mutation under the OFFER's event ID.
Rivals ==
    {Commit(a1, 0, e1, "x"), Commit(a1, 0, e1, "y"), Commit(a1, 1, e2, "x"), Commit(a1, 1, e3, "x"),
     Commit(a1, 2, e4, "x")}

Delegation ==
    {[a |-> a1, expected |-> 1, event |-> e2, content |-> "x", child |-> a2, childEvent |-> e3]}

Appended(event, kind, replyTo, supersedes) ==
    [a |-> a1, event |-> event, interaction |-> "i", kind |-> kind, replyTo |-> replyTo,
     supersedes |-> supersedes, participant |-> w1]

\* Two root questions, a response to either and a correction of it.
Questions ==
    {Appended(e2, "QUESTION", None, None), Appended(e3, "QUESTION", None, None),
     Appended(e4, "RESPONSE", e2, None), Appended(e4, "RESPONSE", e3, None),
     Appended(e3, "CORRECTION", e2, e4)}

Registrations == [participant : {w1}, status : {"ACTIVE", "SUSPENDED"}]

Chain == INSTANCE RedisTaskStore WITH
    held <- copies, Assignment <- {a1}, Event <- {e1, e2, e3, e4}, Interaction <- {}, Participant <- {},
    ParticipantRequest <- {}, AssignmentRequest <- Rivals, DelegationRequest <- {},
    InteractionRequest <- {}, Client <- Worker, Replica <- Node, RequiredAcks <- 2,
    MaxHistory <- 3, Consumer <- {}, LeaseID <- {}, MaxBatch <- 2, LeaseDuration <- 1,
    MaxTime <- 1, MaxFailures <- 1

Rows == INSTANCE RedisTaskStore WITH
    held <- copies, Assignment <- {a1, a2}, Event <- {e1, e2, e3}, Interaction <- {}, Participant <- {},
    ParticipantRequest <- {}, AssignmentRequest <- Offer, DelegationRequest <- Delegation,
    InteractionRequest <- {}, Client <- Worker, Replica <- {s1}, RequiredAcks <- 1,
    MaxHistory <- 3, Consumer <- {"m"}, LeaseID <- {"l"}, MaxBatch <- 2, LeaseDuration <- 1,
    MaxTime <- 2, MaxFailures <- 1

Thread == INSTANCE RedisTaskStore WITH
    held <- copies, Assignment <- {a1}, Event <- {e1, e2, e3, e4}, Interaction <- {"i"}, Participant <- {w1},
    ParticipantRequest <- Registrations, AssignmentRequest <- Offer, DelegationRequest <- {},
    InteractionRequest <- Questions, Client <- Worker, Replica <- {s1}, RequiredAcks <- 1,
    MaxHistory <- 3, Consumer <- {}, LeaseID <- {}, MaxBatch <- 2, LeaseDuration <- 1,
    MaxTime <- 1, MaxFailures <- 1

MCInit ==
    /\ Init
    /\ \/ instance \in {"SQLITE", "CHAIN"} /\ Chain!Init
       \/ instance = "ROWS" /\ Rows!Init
       \/ instance = "THREAD" /\ Thread!Init

MCNext ==
    \/ instance = "SQLITE" /\ Next /\ UNCHANGED <<instance, redisVars>>
    \/ instance = "CHAIN" /\ Chain!Next /\ UNCHANGED <<instance, vars>>
    \/ instance = "ROWS" /\ Rows!Next /\ UNCHANGED <<instance, vars>>
    \/ instance = "THREAD" /\ Thread!Next /\ UNCHANGED <<instance, vars>>

MCSpec == MCInit /\ [][MCNext]_mcVars

\* SQLITE takes Assignments and events in the order of their numbers.
Explored ==
    /\ revision[a1] = 0 => revision[a2] = 0
    /\ history[e1] = Uncommitted => history[e2] = Uncommitted
    /\ history[e2] = Uncommitted => history[e3] = Uncommitted

Symmetry == Permutations(Worker) \cup Permutations(Node)
-----------------------------------------------------------------------------
(* The properties, each on the instances that put it at risk. *)

\* Every variable keeps its type, and SQLITE what the proofs rest on.
TypesOK ==
    /\ instance = "SQLITE" => ConstantsOK /\ IndInv
    /\ instance = "ROWS" => Rows!TypeOK
    /\ instance = "CHAIN" => Chain!TypeOK
    /\ instance = "THREAD" => Thread!TypeOK

\* On Redis, when every replica has to acknowledge, a mutation that was answered is
\* on every node for good; and an event stays in the outbox of every node that has
\* it until a consumer was given it.
AnsweredIsReplicated ==
    /\ TypesOK
    /\ instance = "CHAIN" => Chain!AnsweredIsReplicated
    /\ instance = "ROWS" => Rows!EveryEventIsDelivered

\* On Redis, rivals are serialized: a transition is stored only on top of the one
\* it was validated against, and a thread has one root.
RivalsAreSerialized ==
    /\ instance = "CHAIN" => Chain!ChainIsUnbroken
    /\ instance = "THREAD" => Thread!OneRootPerThread
=============================================================================
