----------------------------- MODULE MCProgress -----------------------------
(***************************************************************************)
(* What must eventually happen, on small instances for TLC without         *)
(* symmetry:                                                               *)
(*   ROWS     the outbox of the SQLite store, polled by one consumer       *)
(*   INTENTS  one relay intent on a file, with crashing workers            *)
(*   DRAIN    an S3 authority that is told to stop at any moment           *)
(*   INGRESS  Human requests on the durable store                          *)
(*   PEERS    two discovery nodes that gossip                              *)
(* The fairness is that of each component's own module.                    *)
(***************************************************************************)
EXTENDS Naturals, Sequences

CONSTANTS
    None, a1, e1, e2, c1, c2, l1, l2, q1, h1, h2, p1, p2

VARIABLES
    instance,
    revision, history, outbox, leases, quarantine, held, faults,
    clock, consents, withdrawals, grants, revocations, reading,
    records, survivors, blocked, guard, lock, op, attempts, accepted, receipts, failures,
    stores, authority, handler, admin, backupLock, workspace, archives, issued, dispatched,
    pending, connections, identities, proofs, handlers, writer, events, outcomes, replay, answers,
    nodes, disks, floors, backups, conns, lookups, calls

outboxVars == <<history, outbox, leases, quarantine, held>>
relayVars ==
    <<consents, withdrawals, grants, revocations, reading,
      records, survivors, blocked, guard, op, attempts, accepted, receipts, failures>>
storeVars == <<stores, authority, handler, admin, backupLock, workspace, archives, dispatched>>
ingressVars == <<pending, connections, identities, proofs, handlers, writer, events, outcomes, replay, answers>>
peerVars == <<nodes, disks, floors, backups, conns, lookups, calls>>
vars == <<instance, revision, clock, lock, issued, faults, outboxVars, relayVars, storeVars, ingressVars, peerVars>>

Rows == INSTANCE Outbox WITH
    Assignment <- {a1}, Event <- {e1, e2}, Consumer <- {c1}, LeaseID <- {l1, l2}, QuarantineID <- {q1},
    Limits <- {2}, LeaseDuration <- 1, MaxJournalRecords <- 2, MaxRevision <- 2, MaxFaults <- 1

Consent ==
    [id |-> "c1", human |-> h1, candidate |-> "k1", requester |-> a1, scope |-> "s1",
     from |-> 1, until |-> 4, proof |-> "p"]
Grant ==
    [id |-> "g1", consent |-> "c1", human |-> h1, candidate |-> "k1", requester |-> a1, scope |-> "s1",
     session |-> "relay", from |-> 1, until |-> 3, proof |-> "p"]
Withdrawal == [event |-> "w1", consent |-> "c1", human |-> h1, at |-> 1]
Revocation == [event |-> "r1", grant |-> "g1", participant |-> h1, at |-> 1]
Ask == [intent |-> "i1", grant |-> "g1", requester |-> a1, scope |-> "s1", content |-> "x", until |-> 4]

Intents == INSTANCE HumanRelay WITH
    Human <- {h1}, Agent <- {a1}, Active <- {h1, a1}, ConsentRequest <- {Consent}, WithdrawalRequest <- {Withdrawal},
    GrantRequest <- {Grant}, RevocationRequest <- {Revocation}, RelayRequest <- {Ask}, Reader <- {},
    ClockStep <- {1}, MaxClock <- 3, Process <- {p1, p2}, Nobody <- None, FileBacked <- TRUE, MaxFailures <- 1

Mandates == {[ns |-> "ns1", name |-> m] : m \in {"m", "n"}}
Records == {[id |-> m, action |-> "get", expires |-> 9] : m \in Mandates}
OneRecord(m) == {r \in Records : r.id.name = m}
Drain == INSTANCE S3Authority WITH
    Namespace <- {"ns1"}, Mandate <- Mandates, MandateRecord <- Records,
    Operation <- {[ns |-> "ns1", name |-> "o"]}, Evidence <- {"e1"},
    Directory <- {"dir1"}, First <- "dir1", Origin <- "ns1",
    Config <- {[directory |-> "dir1", namespace |-> "ns1", mandates |-> r] : r \in {Records, OneRecord("m")}},
    Process <- {p1}, Slot <- {"s1", "s2"}, Admin <- {}, Archive <- {"x1"}

ClientOf(n) == IF n = 1 THEN "k1" ELSE None
Offer == [kind |-> "ASSIGNMENT_OFFER", event |-> "e1", participant |-> "human", assignment |-> "b", target |-> "agent"]
Ingress == INSTANCE HumanIngress WITH
    Handler <- {h1, h2}, Key <- {"k1"}, KeyOf <- ClientOf, Event <- {"e1"}, Assignment <- {"a", "b"},
    Existing <- {"a"}, Human <- {"human"}, Active <- {"human", "agent"}, Connection <- {1}, Challenge <- {c1, c2},
    Request <- {Offer}, Durable <- TRUE, ChallengeTTL <- 1,
    MaxPending <- 1, MaxTotalPending <- 1, Limit <- {9}, Lifetime <- {1}, MaxTime <- 1

\* The newer version of a record lapses, the older one does not.
Presence(version, expires) ==
    [agent |-> "a1", version |-> version, name |-> "m", expires |-> expires, capabilities |-> {"c"},
     visibility |-> [mode |-> "public", domain |-> None, allowed |-> {}]]
OtherNode == [n1 |-> {"n2"}, n2 |-> {"n1"}]
Peers == INSTANCE DiscoveryNode WITH
    Agents <- <<"a1">>, Names <- <<"m">>, Named <- TRUE, MaxRecords <- 1, MaxTombstones <- 1,
    Publication <- {Presence(1, 0), Presence(2, 2)}, Node <- {"n1", "n2"}, Slot <- {1},
    Trusted <- OtherNode, First <- OtherNode, MaxPeers <- 2, Seeker <- {}, Operated <- {},
    Retention <- 1, Epoch <- {0}, MaxCalls <- 2, MaxFaults <- 1, MaxTime <- 2
-----------------------------------------------------------------------------
NoOutbox == history = None /\ outbox = None /\ leases = None /\ quarantine = None /\ held = None
NoRelay ==
    /\ consents = None /\ withdrawals = None /\ grants = None /\ revocations = None /\ reading = None
    /\ records = None /\ survivors = None /\ blocked = None /\ guard = None /\ op = None
    /\ attempts = None /\ accepted = None /\ receipts = None /\ failures = 0
NoStores ==
    /\ stores = None /\ authority = None /\ handler = None /\ admin = None /\ backupLock = None
    /\ workspace = None /\ archives = None /\ dispatched = None
NoIngress ==
    /\ pending = None /\ connections = None /\ identities = None /\ proofs = None /\ handlers = None
    /\ writer = None /\ events = None /\ outcomes = None /\ replay = None /\ answers = None
NoPeers ==
    /\ nodes = None /\ disks = None /\ floors = None /\ backups = None /\ conns = None /\ lookups = None /\ calls = 0

Init ==
    \/ /\ instance = "ROWS" /\ Rows!Init /\ clock = 0 /\ lock = None /\ issued = None
       /\ NoRelay /\ NoStores /\ NoIngress /\ NoPeers
    \/ /\ instance = "INTENTS" /\ Intents!Init /\ revision = None /\ issued = None
       /\ faults = 0 /\ NoOutbox /\ NoStores /\ NoIngress /\ NoPeers
    \/ /\ instance = "DRAIN" /\ Drain!Init /\ revision = None /\ clock = 0
       /\ faults = 0 /\ NoOutbox /\ NoRelay /\ NoIngress /\ NoPeers
    \/ /\ instance = "INGRESS" /\ Ingress!Init /\ lock = None
       /\ faults = 0 /\ NoOutbox /\ NoRelay /\ NoStores /\ NoPeers
    \/ /\ instance = "PEERS" /\ Peers!Init /\ revision = None /\ lock = None /\ issued = None
       /\ NoOutbox /\ NoRelay /\ NoStores /\ NoIngress

NotRows == <<instance, clock, lock, issued, relayVars, storeVars, ingressVars, peerVars>>
NotIntents == <<instance, revision, issued, faults, outboxVars, storeVars, ingressVars, peerVars>>
NotDrain == <<instance, revision, clock, faults, outboxVars, relayVars, ingressVars, peerVars>>
NotIngress == <<instance, lock, faults, outboxVars, relayVars, storeVars, peerVars>>
NotPeers == <<instance, revision, lock, issued, outboxVars, relayVars, storeVars, ingressVars>>

Next ==
    \/ instance = "ROWS" /\ Rows!Next /\ UNCHANGED NotRows
    \/ instance = "INTENTS" /\ Intents!Next /\ UNCHANGED NotIntents
    \/ instance = "DRAIN" /\ Drain!Next /\ UNCHANGED NotDrain
    \/ instance = "INGRESS" /\ Ingress!Next /\ UNCHANGED NotIngress
    \/ instance = "PEERS" /\ Peers!Next /\ UNCHANGED NotPeers

\* The fair actions: of each instance one, so that one weak fairness condition
\* stands for one of each.
RowsDo(A) == instance = "ROWS" /\ A /\ UNCHANGED NotRows
IntentsDo(A) == instance = "INTENTS" /\ A /\ UNCHANGED NotIntents
DrainDo(A) == instance = "DRAIN" /\ A /\ UNCHANGED NotDrain
PeersAre(P) == instance = "PEERS" => P
PeersCan(P) == instance = "PEERS" /\ P
IngressDo(A) == instance = "INGRESS" /\ A /\ UNCHANGED NotIngress

\* Assumed of the callers: a consumer keeps polling and acknowledging, an operator
\* isolates rotten rows, and the relay's worker reopens fenced handles and comes back
\* to every pending intent.  Done by the code: operations and requests begun go on, S3
\* requests have deadlines, Serve's deferred calls run and the ticker of a discovery
\* node gossips on.  Assumed of the world: time passes, and some of the node's
\* exchanges get through.
Fairness ==
    /\ WF_vars(\/ RowsDo(Rows!Poll) \/ IntentsDo(Intents!Continue(p1))
               \/ DrainDo(Drain!Stop(p1)) \/ IngressDo(Ingress!Work(h1)))
    /\ WF_vars(\/ RowsDo(Rows!Tick) \/ IntentsDo(Intents!Continue(p2))
               \/ DrainDo(Drain!Proceed(p1, "s1")) \/ IngressDo(Ingress!Work(h2)))
    /\ WF_vars(RowsDo(Rows!Isolate) \/ IntentsDo(Intents!Reopen(p1)) \/ DrainDo(Drain!Proceed(p1, "s2")))
    /\ WF_vars(RowsDo(\E d \in held[c1] : Rows!AcknowledgeOutbox(c1, d)) \/ IntentsDo(Intents!Reopen(p2)))
    /\ SF_vars(IntentsDo(\E p \in {p1, p2} : Intents!DispatchBegin(p, "i1")))
    /\ SF_vars(IntentsDo(\E p \in {p1, p2} : Intents!Reconcile(p, "i1")))
    /\ []<>PeersAre(Peers!Free # {}) /\ \A n \in {"n1", "n2"} : []<>PeersAre(Peers!Up(n))
    /\ []<>PeersCan(Peers!Open("n1") /\ Peers!Free # {}) => []<><<PeersCan(Peers!Begun("n1"))>>_vars
    /\ []<>PeersCan(Peers!Deliverable("n1")) => []<><<PeersCan(Peers!Delivered("n1"))>>_vars
    /\ []<>PeersCan(Peers!Returned("n1")) => []<><<PeersCan(Peers!Remembered("n1"))>>_vars

Spec == Init /\ [][Next]_vars /\ Fairness
-----------------------------------------------------------------------------
\* Again and again every outbox row is delivered and acknowledged, or isolated in
\* quarantine, however often consumers lose their leases (LeaseOutbox,
\* AcknowledgeOutbox); and discovery nodes come to agree on the Agents and names
\* that are live once nothing is announced any more (gossipPeer, handleReplicate).
RowsSettle ==
    /\ []<>(instance = "ROWS" => \A i \in DOMAIN outbox : Rows!Settled(i))
    /\ <>[](instance = "PEERS" => Peers!Agree)

\* Every relay intent recorded is dispatched, canceled or acknowledged, unless a
\* power loss takes back a record nobody was told of (Dispatch, Reconcile).
IntentsSettle ==
    (instance = "INTENTS" /\ records["i1"] # Intents!NoRecord)
        ~> (instance = "INTENTS" /\ (records["i1"] = Intents!NoRecord \/ Intents!Settled("i1")))

\* Requests end.  An authority that is told to stop stops: every request it
\* admitted ends and no new one holds it up (Serve).  Every request the ingress
\* begins is finished, and the writer's lock is free again and again (Store.run);
\* the two handlers are alike.
RequestsEnd ==
    /\ (instance = "DRAIN" /\ authority[p1].at = "DRAINING") ~> (instance = "DRAIN" /\ authority[p1].at = "ENDED")
    /\ (instance = "INGRESS" /\ handlers[h1] # Ingress!Idle) ~> (instance = "INGRESS" /\ handlers[h1] = Ingress!Idle)
    /\ []<>(instance = "INGRESS" => writer = None)
=============================================================================
