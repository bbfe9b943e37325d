------------------------------ MODULE MCRelay ------------------------------
(***************************************************************************)
(* The reachability directory and the relay on top of it, on small         *)
(* instances for TLC:                                                      *)
(*   DIRECTORY  consents that overlap, identifiers used again, withdrawals *)
(*              and expiry between the two looks of a read                 *)
(*   RACES      one process: rival requests for a grant, two workers for   *)
(*              an intent, revocation and expiry at every point            *)
(*   CRASHES    processes on a file: crashes, failing syncs, power losses  *)
(*              and a clock set back between any two steps                 *)
(* and the Agents' own directory, replicated between nodes:                *)
(*   LEASES     versions with different leases, withdrawn on one node and  *)
(*              announced on another, while gossip is delayed or lost and  *)
(*              markers are collected                                      *)
(*   NAMES      two Agents that want one name, on two nodes that may crash *)
(*              or fail to save                                            *)
(*   EPOCHS     a retired epoch: nodes that move on, stay behind, join or  *)
(*              have an old snapshot put back                              *)
(*   LOCATE     lookups of peers while peers are added                     *)
(***************************************************************************)
EXTENDS HumanRelay, TLC

CONSTANTS h1, h2, a1, a2

VARIABLES
    instance,
    nodes, disks, floors, backups, conns, lookups, calls, faults

discoveryVars == <<nodes, disks, floors, backups, conns, lookups, calls, faults>>
mcVars == <<instance, vars, discoveryVars>>

Consent(id, h, k, a, from, until) ==
    [id |-> id, human |-> h, candidate |-> k, requester |-> a, scope |-> "s1",
     from |-> from, until |-> until, proof |-> "p"]

Grant(id, c, from, until) ==
    [id |-> id, consent |-> c, human |-> h1, candidate |-> "k1", requester |-> a1, scope |-> "s1",
     session |-> "relay", from |-> from, until |-> until, proof |-> "p"]

\* c1 and c2 overlap; one reuses the identifier of c1; c4 takes the candidate of
\* c1 for another Human; the requester of c5 is suspended.
Consents ==
    {Consent("c1", h1, "k1", a1, 1, 3), Consent("c2", h1, "k1", a1, 2, 4),
     Consent("c1", h2, "k2", a1, 1, 3), Consent("c4", h2, "k1", a1, 1, 4),
     Consent("c5", h1, "k1", a2, 1, 4)}

Withdrawals ==
    {[event |-> "w1", consent |-> "c1", human |-> h1, at |-> 1],
     [event |-> "w2", consent |-> "c1", human |-> h1, at |-> 3],
     [event |-> "w2", consent |-> "c2", human |-> h1, at |-> 3]}

Grants == {Grant("g1", "c1", 1, 2), Grant("g1", "c2", 1, 4), Grant("g2", "c2", 2, 4), Grant("g2", "c1", 2, 4)}

Revocations ==
    {[event |-> "r1", grant |-> "g1", participant |-> h1, at |-> 1],
     [event |-> "r2", grant |-> "g2", participant |-> a1, at |-> 2],
     [event |-> "r2", grant |-> "g2", participant |-> h2, at |-> 3]}

Directory == INSTANCE Reachability WITH
    Human <- {h1, h2}, Agent <- {a1, a2}, Active <- {h1, h2, a1}, ConsentRequest <- Consents,
    WithdrawalRequest <- Withdrawals, GrantRequest <- Grants, RevocationRequest <- Revocations,
    Reader <- {"reader"}, ClockStep <- {1}, MaxClock <- 4

LongConsent == {Consent("c1", h1, "k1", a1, 1, 4)}

Withdrawal == {[event |-> "w1", consent |-> "c1", human |-> h1, at |-> 1]}

Revocation == {[event |-> "r1", grant |-> "g1", participant |-> h1, at |-> 1]}

Ask(i, content, until) ==
    [intent |-> i, grant |-> "g1", requester |-> a1, scope |-> "s1", content |-> content, until |-> until]

\* Two intents want one grant, one of them with two contents; the second
\* authorization of the first request is a fresh proof.
Races == INSTANCE HumanRelay WITH
    Human <- {h1}, Agent <- {a1}, Active <- {h1, a1}, ConsentRequest <- LongConsent,
    WithdrawalRequest <- Withdrawal, GrantRequest <- {Grant("g1", "c1", 1, 3)},
    RevocationRequest <- Revocation, Reader <- {"reader"}, ClockStep <- {1}, MaxClock <- 3,
    RelayRequest <- {Ask("i1", "x", 4), Ask("i1", "y", 2), Ask("i2", "x", 4)},
    FileBacked <- FALSE, MaxFailures <- 1

\* CRASHES is the specification that this module extends.  The grant expires as
\* soon as the clock moves, and comes back when it is set back.
ShortGrant == {Grant("g1", "c1", 1, 2)}
BackAndForth == {1, -1}
RivalIntents == {Ask("i1", "x", 4), Ask("i2", "x", 4)}

-----------------------------------------------------------------------------
Public == [mode |-> "public", domain |-> Nobody, allowed |-> {}]
Only(agent) == [mode |-> "explicit-only", domain |-> Nobody, allowed |-> {agent}]
Presence(agent, version, name, expires, visibility) ==
    [agent |-> agent, version |-> version, name |-> name, expires |-> expires, capabilities |-> {"c"},
     visibility |-> visibility]
Others == [n \in Process |-> Process \ {n}]

\* The newer version has the shorter lease.
Leases == INSTANCE DiscoveryNode WITH
    None <- Nobody, Agents <- <<"x1">>, Names <- <<>>, Named <- FALSE, MaxRecords <- 1, MaxTombstones <- 1,
    Publication <- {Presence("x1", 1, Nobody, 3, Public), Presence("x1", 2, Nobody, 2, Public)},
    Node <- Process, Slot <- {1}, Trusted <- Others, First <- Others, MaxPeers <- 2, Seeker <- {}, Operated <- {},
    Retention <- 1, Epoch <- {0}, MaxCalls <- 3, MaxFaults <- 0, MaxTime <- 3

NameService == INSTANCE DiscoveryNode WITH
    None <- Nobody, Agents <- <<"x1", "x2">>, Names <- <<"m">>, Named <- TRUE, MaxRecords <- 2, MaxTombstones <- 1,
    Publication <- {Presence("x1", 1, "m", 2, Public), Presence("x2", 2, "m", 0, Only("x1"))},
    Node <- Process, Slot <- {1}, Trusted <- Others, First <- Others, MaxPeers <- 2, Seeker <- {}, Operated <- {},
    Retention <- 1, Epoch <- {0}, MaxCalls <- 2, MaxFaults <- 1, MaxTime <- 2

\* n2 was never started.
Epochs == INSTANCE DiscoveryNode WITH
    None <- Nobody, Agents <- <<"x1">>, Names <- <<"m">>, Named <- TRUE, MaxRecords <- 2, MaxTombstones <- 1,
    Publication <- {Presence("x1", 1, "m", 0, Public)},
    Node <- {"n1", "n2"}, Slot <- {1}, Trusted <- [n1 |-> {"n2"}, n2 |-> {"n1"}], First <- [n1 |-> {"n2"}, n2 |-> Nobody],
    MaxPeers <- 2, Seeker <- {}, Operated <- {"n1", "n2"},
    Retention <- 1, Epoch <- {1, 2}, MaxCalls <- 3, MaxFaults <- 1, MaxTime <- 1

\* There are more trusted peers than a node may have.
Locate == INSTANCE DiscoveryNode WITH
    None <- Nobody, Agents <- <<>>, Names <- <<>>, Named <- FALSE, MaxRecords <- 2, MaxTombstones <- 1, Publication <- {},
    Node <- {"n1", "n2", "n3", "n4"}, Slot <- {1},
    Trusted <- [n1 |-> {"n2", "n3", "n4"}, n2 |-> {"n3", "n4"}, n3 |-> {"n1"}, n4 |-> {"n3"}],
    First <- [n1 |-> {"n2"}, n2 |-> {"n3", "n4"}, n3 |-> {"n1"}, n4 |-> {}],
    MaxPeers <- 2, Seeker <- {"n1"}, Operated <- {"n1"},
    Retention <- 1, Epoch <- {0}, MaxCalls <- 4, MaxFaults <- 1, MaxTime <- 1
-----------------------------------------------------------------------------
NoDiscovery ==
    /\ nodes = Nobody /\ disks = Nobody /\ floors = Nobody /\ backups = Nobody /\ conns = Nobody
    /\ lookups = Nobody /\ calls = 0 /\ faults = 0
NoRelay ==
    /\ consents = {} /\ withdrawals = {} /\ grants = {} /\ revocations = {}
    /\ reading = [r \in Reader |-> NoRead]
    /\ RelayInit

MCInit ==
    \/ instance \in {"DIRECTORY", "RACES", "CRASHES"} /\ Init /\ NoDiscovery
    \/ instance = "LEASES" /\ Leases!Init /\ NoRelay
    \/ instance = "NAMES" /\ NameService!Init /\ NoRelay
    \/ instance = "EPOCHS" /\ Epochs!Init /\ NoRelay
    \/ instance = "LOCATE" /\ Locate!Init /\ NoRelay

NotRelay == <<instance, discoveryVars>>
NotDiscovery == <<instance, directory, reading, relayVars>>

MCNext ==
    \/ instance = "DIRECTORY" /\ Directory!DirectoryNext /\ UNCHANGED <<NotRelay, relayVars>>
    \/ instance = "RACES" /\ Races!Next /\ UNCHANGED NotRelay
    \/ instance = "CRASHES" /\ Next /\ UNCHANGED NotRelay
    \/ instance = "LEASES" /\ Leases!Next /\ UNCHANGED NotDiscovery
    \/ instance = "NAMES" /\ NameService!Next /\ UNCHANGED NotDiscovery
    \/ instance = "EPOCHS" /\ Epochs!Next /\ UNCHANGED NotDiscovery
    \/ instance = "LOCATE" /\ Locate!Next /\ UNCHANGED NotDiscovery

MCSpec == MCInit /\ [][MCNext]_mcVars

Symmetry == Permutations(Process)
-----------------------------------------------------------------------------
(* The properties, each on the instances that put it at risk.  OneAttempt and *)
(* AttemptIsAuthorized of HumanRelay are checked as they are: RACES and        *)
(* CRASHES have the same intents and Participants.                             *)

\* Every variable keeps its type, and the inductive invariants hold: the one of the
\* directory, with DirectoryRestores and CandidateIsUnambiguous in it, and the one of
\* the relay, with AttemptIsRecorded, StoreIsLoadable, ReceiptIsKept and ReceiptIsDurable.
TypesOK ==
    /\ instance = "DIRECTORY" => Directory!DirectoryConstantsOK /\ Directory!DirectoryIndInv
    /\ instance = "RACES" => Races!ConstantsOK /\ Races!IndInv
    /\ instance = "CRASHES" => ConstantsOK /\ IndInv
    /\ instance = "LEASES" => Leases!TypeOK
    /\ instance = "NAMES" => NameService!TypeOK
    /\ instance = "EPOCHS" => Epochs!TypeOK
    /\ instance = "LOCATE" => Locate!TypeOK

\* Neither the directory, the relay store nor a node ever brings itself into a
\* state its own restore refuses: a candidate denotes one Human for one Agent, a
\* provider call is in every content the relay may come back with, a receipt given
\* is not forgotten by a restart, nor by a power loss when the file it was given from
\* was synced, and what a node answers about Agents and names it would answer after a
\* restart and, if it runs on a synced snapshot, after a power loss.
StoredIsLoadable ==
    /\ TypesOK
    /\ instance = "LEASES" => Leases!AnswersSurvive
    /\ instance = "NAMES" => NameService!AnswersSurvive /\ NameService!NamesAgree
    /\ instance = "EPOCHS" => Epochs!AnswersSurvive

\* A withdrawal of an Agent stays: no version a node knew of is live there again,
\* whatever delayed peers send, however often markers are collected and whichever
\* snapshot the node comes back with; nothing of a retired epoch comes back either;
\* and the routing peers of a node are trusted and within their limit.
WithdrawnStaysGone ==
    /\ instance = "LEASES" => Leases!WithdrawnStaysGone
    /\ instance = "NAMES" => NameService!WithdrawnStaysGone
    /\ instance = "EPOCHS" => Epochs!EpochsDoNotMix
    /\ instance = "LOCATE" => Locate!RoutingIsBounded

\* Nothing withdrawn or revoked by then is in an answer of the directory, nor anything
\* expired at its last reading of the clock, which comes before the lock of its second
\* look and so may be older than the answer; and a name that an Agent holds is not handed to another one.
AuthorizedWhenUsed ==
    [][/\ instance = "DIRECTORY" => Directory!AnsweredWhileStanding
       /\ instance = "NAMES" => NameService!NamesStay]_mcVars
=============================================================================
