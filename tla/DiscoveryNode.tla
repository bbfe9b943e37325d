--------------------------- MODULE DiscoveryNode ---------------------------
(***************************************************************************)
(* Package discovery/peer: nodes that keep a Presence and name store, save *)
(* it after every change, exchange what is new with their peers and look   *)
(* up peers.  One step is what runs under a node's stateMu: an operation   *)
(* of the library with its save; building a replication request; handling  *)
(* one at its receiver; merging the answer. A connection carries one       *)
(* request and its answer; it breaks at any time, and a receiver may still *)
(* handle the request of a client that has gone.                           *)
(*                                                                         *)
(* A disk has the snapshot (None: no file) that a restart reads, and those *)
(* that a power loss may leave instead: a save that fails before the rename *)
(* changes neither, one that fails after the rename is read and may still  *)
(* be lost. Reading it does not sync it. An operator starts a node with an epoch at least as  *)
(* large as any it had, as the configuration is said to be kept apart from *)
(* the snapshots, and may put a snapshot of a former epoch back.           *)
(***************************************************************************)
EXTENDS Discovery

CONSTANTS
    Node, Slot,
    Seeker,           \* the nodes that look up peers and are given peers
    Operated,         \* the nodes that are stopped
    Named,            \* whether Agents use the name service or only Presence
    Publication,      \* the records and bindings that are announced; a name of None is no binding
    Trusted,          \* n |-> the peers in the directory of n
    MaxPeers,
    Retention,        \* TombstoneRetention of a node without an epoch
    Epoch,            \* the epochs an operator configures
    First,            \* n |-> the peers it was given before, None when it was never started
    MaxCalls, MaxFaults, MaxTime

VARIABLES
    clock,
    nodes,            \* None, or the state of a running node
    disks,
    floors,           \* the largest epoch a node was configured with
    backups,          \* snapshots of former epochs
    conns,
    lookups,          \* the lookup a node is in, or None
    calls, faults     \* how many calls were made and how many saves failed or nodes crashed

vars == <<clock, nodes, disks, floors, backups, conns, lookups, calls, faults>>

KeepOf(epoch) == IF epoch = 0 THEN Retention ELSE 0

\* For the properties: `born` is the epoch in which a record was announced, `synced`
\* is FALSE of a node that read a snapshot no save had synced and has not saved since.
Born(r, epoch) == [agent |-> r.agent, version |-> r.version, name |-> r.name, expires |-> r.expires,
                   capabilities |-> r.capabilities, visibility |-> r.visibility, born |-> epoch]

FreshNode(epoch) ==
    [epoch |-> epoch, store |-> EmptyStore(KeepOf(epoch)), peers |-> {}, dirty |-> FALSE, open |-> TRUE,
     synced |-> TRUE, digests |-> [m \in Node |-> NoDigest], names |-> [m \in Node |-> NoNames]]

snapshotLocked(node) ==
    [epoch |-> node.epoch, presence |-> Delta(node.store, NoDigest, clock),
     names |-> Bindings(node.store, clock), peers |-> node.peers, gone |-> node.store.gone]

Synced(snapshot) == [file |-> snapshot, left |-> {snapshot}]
Renamed(disk, snapshot) == [file |-> snapshot, left |-> disk.left \cup {snapshot}]

\* A node that was started on an empty disk and given its first peers with AddPeer.
Settled(n) ==
    LET epoch == CHOOSE e \in Epoch : \A f \in Epoch : e <= f
    IN  [FreshNode(epoch) EXCEPT !.peers = First[n]]

Init ==
    /\ clock = 1
    /\ nodes = [n \in Node |-> IF First[n] = None THEN None ELSE Settled(n)]
    /\ disks = [n \in Node |-> Synced(IF First[n] = None THEN None ELSE snapshotLocked(Settled(n)))]
    /\ floors = [n \in Node |-> IF First[n] = None THEN 0 ELSE Settled(n).epoch]
    /\ backups = [n \in Node |-> {}]
    /\ conns = [i \in Slot |-> None]
    /\ lookups = [n \in Node |-> None]
    /\ calls = 0
    /\ faults = 0

Up(n) == nodes[n] # None
Open(n) == Up(n) /\ nodes[n].open
-----------------------------------------------------------------------------
(* Saving and merging. *)

\* Save with its failures: n goes on as good when the snapshot is on disk, as bad
\* when that is not known.
persistLocked(n, good, bad) ==
    \/ /\ nodes' = [nodes EXCEPT ![n] = [good EXCEPT !.dirty = FALSE, !.synced = TRUE]]
       /\ disks' = [disks EXCEPT ![n] = Synced(snapshotLocked(good))]
       /\ UNCHANGED faults
    \/ /\ faults < MaxFaults
       /\ faults' = faults + 1
       /\ nodes' = [nodes EXCEPT ![n] = IF bad = None THEN None ELSE [bad EXCEPT !.dirty = TRUE]]
       /\ disks' \in {disks, [disks EXCEPT ![n] = Renamed(@, snapshotLocked(good))]}

\* The markers, then the names, then the records, up to the first error.
MergeAll(s, delta, names) ==
    Each(LAMBDA st, part :
            CASE part = "tombs" -> MergeTombstones(st, delta.tombs, clock)
              [] part = "names" -> MergeNames(st, names, clock)
              [] part = "records" -> MergeRecords(st, delta.records, clock),
         s, <<"tombs", "names", "records">>)

Visible(snapshot) == [snapshot EXCEPT !.gone = None]

\* The merge of what a peer sent into n, saved when it changed anything; when all of
\* it succeeded, digests and names are what n then knows of its peers.
mergeLocked(n, merged, digests, names) ==
    LET bad == [nodes[n] EXCEPT !.store = merged.store]
        good == IF merged.err = None THEN [bad EXCEPT !.digests = digests, !.names = names] ELSE bad
    IN  IF nodes[n].dirty \/ Visible(snapshotLocked(nodes[n])) # Visible(snapshotLocked(bad))
        THEN persistLocked(n, good, bad)
        ELSE nodes' = [nodes EXCEPT ![n] = good] /\ UNCHANGED <<disks, faults>>
-----------------------------------------------------------------------------
(* Starting and stopping. *)

\* What load makes of a snapshot; routing peers are kept while they are trusted.
load(n, epoch, snapshot) ==
    LET empty == [EmptyStore(KeepOf(epoch)) EXCEPT !.gone = snapshot.gone]
        merged == MergeAll(empty, snapshot.presence, snapshot.names)
    IN  [err |-> merged.err,
         node |-> [FreshNode(epoch) EXCEPT !.store = merged.store, !.peers = snapshot.peers \cap Trusted[n]]]

Emptied(snapshot, epoch) ==
    [snapshot EXCEPT !.epoch = epoch, !.presence = Delta(EmptyStore(0), NoDigest, clock),
                     !.names = [m \in Name |-> None], !.gone = [a \in AgentID |-> {}]]

Prepared(ok, state) == [ok |-> ok, state |-> state]

EpochOf(found) == IF found = None THEN 0 ELSE found.epoch

\* What a configuration may start from: a first snapshot, that of a migration from
\* exactly the epoch it names, emptied, or that of its own epoch.
prepareEpoch(found, epoch, initialize, from) ==
    IF initialize THEN Prepared(found = None /\ epoch # 0, found)
    ELSE IF from = None THEN Prepared(EpochOf(found) = epoch, found)
    ELSE IF found = None THEN Prepared(FALSE, None)
    ELSE Prepared(found.epoch = from /\ from < epoch, Emptied(found, epoch))

\* NewNode. A configuration with an instruction saves what it starts from, and
\* does not start when that fails; the operator keeps the snapshot it replaces.
NewNode(n, epoch, initialize, from) ==
    /\ ~Up(n)
    /\ epoch >= floors[n]
    /\ floors' = [floors EXCEPT ![n] = epoch]
    /\ LET found == disks[n].file IN
      \E prepared \in {prepareEpoch(found, epoch, initialize, from)} :
        \E loaded \in {IF prepared.state = None THEN [err |-> None, node |-> FreshNode(epoch)]
                       ELSE load(n, epoch, prepared.state)} :
            IF ~prepared.ok \/ loaded.err # None
            THEN UNCHANGED <<nodes, disks, faults, backups>>
            ELSE IF ~initialize /\ from = None
            THEN /\ nodes' = [nodes EXCEPT ![n] = [loaded.node EXCEPT !.synced = disks[n] = Synced(found)]]
                 /\ UNCHANGED <<disks, faults, backups>>
            ELSE /\ persistLocked(n, loaded.node, None)
                 /\ backups' = [backups EXCEPT ![n] = @ \cup ({found} \ {None})]
    /\ UNCHANGED <<clock, conns, lookups, calls>>

Start(n) ==
    \E epoch \in Epoch, initialize \in BOOLEAN, from \in Epoch \cup {None} :
        ~(initialize /\ from # None) /\ NewNode(n, epoch, initialize, from)

\* An operator puts a snapshot of a former epoch back.
RestoreBackup(n) ==
    /\ ~Up(n)
    /\ \E b \in backups[n] : disks' = [disks EXCEPT ![n] = Synced(b)]
    /\ UNCHANGED <<clock, nodes, floors, backups, conns, lookups, calls, faults>>

\* What becomes of the connections when the process of n ends: an answer to it is
\* lost, its request may still be handled, and a request it had not handled is lost.
Cut(n) ==
    [i \in Slot |->
        IF conns[i] = None \/ conns[i].to = n \/ (conns[i].from = n /\ conns[i].phase = "answered") THEN None
        ELSE IF conns[i].from = n THEN [conns[i] EXCEPT !.live = FALSE]
        ELSE conns[i]]

\* The process ends where it is, with power loss or without.
Crash(n) ==
    /\ faults < MaxFaults
    /\ faults' = faults + 1
    /\ \/ Up(n) /\ UNCHANGED disks
       \/ \E left \in disks[n].left : disks' = [disks EXCEPT ![n] = Synced(left)]
    /\ nodes' = [nodes EXCEPT ![n] = None]
    /\ conns' = Cut(n)
    /\ lookups' = [lookups EXCEPT ![n] = None]
    /\ UNCHANGED <<clock, floors, backups, calls>>

\* Stop closes the node, which refuses everything from then on, and when nothing
\* is running any more saves a last snapshot.
Stop(n) ==
    /\ n \in Operated /\ Open(n)
    /\ calls < MaxCalls
    /\ calls' = calls + 1
    /\ nodes' = [nodes EXCEPT ![n].open = FALSE]
    /\ conns' = [i \in Slot |-> IF conns[i] # None /\ conns[i].from = n THEN Cut(n)[i] ELSE conns[i]]
    /\ UNCHANGED <<clock, disks, floors, backups, lookups, faults>>

Stopped(n) ==
    /\ Up(n) /\ ~nodes[n].open
    /\ \/ disks' = [disks EXCEPT ![n] = Synced(snapshotLocked(nodes[n]))] /\ UNCHANGED faults
       \/ /\ faults < MaxFaults
          /\ faults' = faults + 1
          /\ disks' \in {disks, [disks EXCEPT ![n] = Renamed(@, snapshotLocked(nodes[n]))]}
    /\ nodes' = [nodes EXCEPT ![n] = None]
    /\ conns' = Cut(n)
    /\ lookups' = [lookups EXCEPT ![n] = None]
    /\ UNCHANGED <<clock, floors, backups, calls>>
-----------------------------------------------------------------------------
(* The operations of the library. *)

\* Whatever the operation left in the store stays; it is saved unless it failed.
Apply(n, answer) ==
    LET node == [nodes[n] EXCEPT !.store = answer.store]
    IN  /\ Open(n)
        /\ calls < MaxCalls
        /\ calls' = calls + 1
        /\ IF answer.err # None
           THEN nodes' = [nodes EXCEPT ![n] = node] /\ UNCHANGED <<disks, faults>>
           ELSE persistLocked(n, node, node)
        /\ UNCHANGED <<clock, floors, backups, conns, lookups>>

NodeAnnounce(n, r) == Open(n) /\ Apply(n, Announce(nodes[n].store, Born(r, nodes[n].epoch), clock))
NodeWithdraw(n, a, v) == Open(n) /\ Apply(n, Withdraw(nodes[n].store, a, v, clock))
NodeRegister(n, r) == Open(n) /\ Apply(n, Register(nodes[n].store, Born(r, nodes[n].epoch), clock))
NodeDeregister(n, m, v) == Open(n) /\ Apply(n, Deregister(nodes[n].store, m, v, clock))

AddPeer(n, p) ==
    LET node == [nodes[n] EXCEPT !.peers = @ \cup {p}]
    IN  /\ p \in Trusted[n]
        /\ n \in Seeker /\ Open(n)
        /\ p \in nodes[n].peers \/ Cardinality(nodes[n].peers) < MaxPeers
        /\ calls < MaxCalls
        /\ calls' = calls + 1
        /\ persistLocked(n, node, node)
        /\ UNCHANGED <<clock, floors, backups, conns, lookups>>
-----------------------------------------------------------------------------
(* Replication. *)

Free == {i \in Slot : conns[i] = None}

\* A request or an answer to a peer that knows `digest` and `names`.
Exchange(node, digest, names) ==
    [epoch |-> node.epoch, digest |-> Digest(node.store, clock), delta |-> Delta(node.store, digest, clock),
     nameDigest |-> NameDigest(node.store, clock), names |-> NameDelta(node.store, names, clock)]

\* gossipPeer up to the request: a node that could not save tries that first.
GossipBegin(n, m) ==
    /\ Open(n)
    /\ m \in nodes[n].peers \cap Trusted[n]
    /\ Free # {}
    /\ IF nodes[n].dirty THEN persistLocked(n, nodes[n], nodes[n]) ELSE UNCHANGED <<nodes, disks, faults>>
    /\ LET i == CHOOSE j \in Free : \A k \in Free : j <= k
           request == Exchange(nodes[n], nodes[n].digests[m], nodes[n].names[m])
       IN  conns' = IF nodes'[n].dirty THEN conns
                    ELSE [conns EXCEPT ![i] = [from |-> n, to |-> m, phase |-> "sent", live |-> TRUE, body |-> request]]
    /\ UNCHANGED <<clock, floors, backups, lookups, calls>>

\* The receiver merges a request of its own epoch and answers when that and the
\* save it needed succeeded; otherwise the client is told of the failure.
handleReplicate(i) ==
    /\ conns[i] # None /\ conns[i].phase = "sent" /\ Up(conns[i].to)
    /\ LET n == conns[i].to
           body == conns[i].body
       IN  IF ~nodes[n].open \/ body.epoch # nodes[n].epoch
           THEN conns' = [conns EXCEPT ![i] = None] /\ UNCHANGED <<nodes, disks, faults>>
           ELSE \E merged \in {MergeAll(nodes[n].store, body.delta, body.names)} :
                /\ mergeLocked(n, merged, nodes[n].digests, nodes[n].names)
                /\ conns' = [conns EXCEPT ![i] =
                      IF merged.err # None \/ nodes'[n].dirty \/ ~@.live THEN None
                      ELSE [@ EXCEPT !.phase = "answered",
                                     !.body = Exchange(nodes'[n], body.digest, body.nameDigest)]]
    /\ UNCHANGED <<clock, floors, backups, lookups, calls>>

\* gossipPeer from the answer on: merge it, and remember what the peer has.
GossipEnd(i) ==
    /\ conns[i] # None /\ conns[i].phase = "answered"
    /\ LET n == conns[i].from
           body == conns[i].body
           digests == [nodes[n].digests EXCEPT ![conns[i].to] = body.digest]
           names == [nodes[n].names EXCEPT ![conns[i].to] = body.nameDigest]
       IN  /\ Open(n)
           /\ \E merged \in {MergeAll(nodes[n].store, body.delta, body.names)} : mergeLocked(n, merged, digests, names)
    /\ conns' = [conns EXCEPT ![i] = None]
    /\ UNCHANGED <<clock, floors, backups, lookups, calls>>

\* The client gives up: its request may still be handled.
Timeout(i) ==
    /\ conns[i] # None /\ conns[i].live
    /\ conns' = [conns EXCEPT ![i] = IF @.phase = "sent" THEN [@ EXCEPT !.live = FALSE] ELSE None]
    /\ UNCHANGED <<clock, nodes, disks, floors, backups, lookups, calls, faults>>

\* A request does not get through: the peer is down, does not answer, or refuses the proof.
Lose(i) ==
    /\ conns[i] # None /\ conns[i].phase = "sent"
    /\ conns' = [conns EXCEPT ![i] = None]
    /\ UNCHANGED <<clock, nodes, disks, floors, backups, lookups, calls, faults>>
-----------------------------------------------------------------------------
(* Looking up peers, on a table of its own; the order in which peers are   *)
(* asked is that of IterativeLocate for some target.                       *)

LocateBegin(n) ==
    /\ n \in Seeker /\ Open(n) /\ lookups[n] = None
    /\ calls < MaxCalls
    /\ calls' = calls + 1
    /\ lookups' = [lookups EXCEPT ![n] = [known |-> nodes[n].peers \cap Trusted[n], queried |-> {}]]
    /\ UNCHANGED <<clock, nodes, disks, floors, backups, conns, faults>>

\* One FIND_NODE: what the peer knows and this node trusts, as far as there is room.
FindNode(n, p) ==
    /\ Up(n) /\ lookups[n] # None
    /\ p \in lookups[n].known \ lookups[n].queried
    /\ LET known == lookups[n].known
           heard == IF Up(p) /\ nodes[p].epoch = nodes[n].epoch
                    THEN (nodes[p].peers \cap Trusted[n]) \ (known \cup {n}) ELSE {}
           room == MaxPeers - Cardinality(known)
       IN  \E learned \in SUBSET heard :
              /\ learned = {} \/ Cardinality(learned) = IF Cardinality(heard) < room THEN Cardinality(heard) ELSE room
              /\ lookups' = [lookups EXCEPT ![n] = [known |-> known \cup learned, queried |-> @.queried \cup {p}]]
    /\ UNCHANGED <<clock, nodes, disks, floors, backups, conns, calls, faults>>

\* The lookup is over: what it learned is committed as far as there is room now.
LocateCommit(n) ==
    /\ Up(n) /\ lookups[n] # None /\ lookups[n].known \subseteq lookups[n].queried
    /\ lookups' = [lookups EXCEPT ![n] = None]
    /\ LET new == lookups[n].known \ nodes[n].peers
           room == MaxPeers - Cardinality(nodes[n].peers)
       IN  IF ~nodes[n].open THEN UNCHANGED <<nodes, disks, faults>>
           ELSE \E added \in SUBSET new :
                    /\ Cardinality(added) = IF Cardinality(new) < room THEN Cardinality(new) ELSE room
                    /\ LET node == [nodes[n] EXCEPT !.peers = @ \cup added] IN persistLocked(n, node, node)
    /\ UNCHANGED <<clock, floors, backups, conns, calls>>

Tick ==
    /\ clock < MaxTime
    /\ clock' = clock + 1
    /\ UNCHANGED <<nodes, disks, floors, backups, conns, lookups, calls, faults>>

Next ==
    \/ Tick
    \/ \E n \in Node :
        \/ Start(n) \/ RestoreBackup(n) \/ Crash(n) \/ Stop(n) \/ Stopped(n)
        \/ ~Named /\ \E r \in Publication : NodeAnnounce(n, r) \/ NodeWithdraw(n, r.agent, r.version)
        \/ Named /\ \E r \in Publication : NodeRegister(n, r) \/ NodeDeregister(n, r.name, r.version)
        \/ LocateBegin(n) \/ LocateCommit(n)
        \/ \E m \in Node : AddPeer(n, m) \/ GossipBegin(n, m) \/ FindNode(n, m)
    \/ \E i \in Slot : handleReplicate(i) \/ GossipEnd(i) \/ Timeout(i) \/ Lose(i)

Spec == Init /\ [][Next]_vars
-----------------------------------------------------------------------------
(* Properties. *)

Records == {Born(r, e) : r \in Publication, e \in Epoch}
Versions == {r.version : r \in Publication}

StoreOK(s) ==
    /\ s.records \in [AgentID -> Records \cup {None}]
    /\ \A a \in AgentID : s.tombs[a] # None => s.tombs[a].version \in Versions /\ s.tombs[a].indefinite \in BOOLEAN
    /\ s.byName \in [Name -> Records \cup {None}]
    /\ s.byAgent \in [AgentID -> Name \cup {None}]
    /\ s.gone \in [AgentID -> SUBSET Versions]

TypeOK ==
    /\ clock \in 1..MaxTime /\ calls \in 0..MaxCalls /\ faults \in 0..MaxFaults
    /\ \A n \in Node : Up(n) => nodes[n].epoch \in Epoch /\ nodes[n].peers \subseteq Node /\ StoreOK(nodes[n].store)
    /\ \A n \in Node : disks[n].file \in disks[n].left /\ floors[n] \in Epoch \cup {0}
    /\ \A i \in Slot : conns[i] # None => conns[i].from \in Node /\ conns[i].phase \in {"sent", "answered"}

Live(n, a) == sweepLocked(nodes[n].store, clock).records[a]

\* A withdrawal stays: a version of an Agent that a node had when it learned of the
\* withdrawal, or that reached it afterwards, is not live there again, whatever
\* peers that have not heard of it send, however often markers are collected and
\* whatever snapshot the node comes back with; only a newer version ends that.
WithdrawnStaysGone ==
    \A n \in Node : Up(n) =>
        \A a \in AgentID : Live(n, a) # None => Live(n, a).version \notin nodes[n].store.gone[a]

Requesters == {[agent |-> a, domain |-> d] : a \in AgentID \cup {None}, d \in {r.visibility.domain : r \in Publication}}
Capabilities == UNION {r.capabilities : r \in Publication}

\* What a node that answers at all answers a search or resolves is what it would
\* answer after a restart, and after a power loss whatever its disk may come back
\* with: an answer is never based on a change that can still be lost, unless the node
\* found that change in a snapshot that a failing save had left unsynced.
AnswersSurvive ==
    \A n \in Node : Up(n) /\ ~nodes[n].dirty =>
        \A found \in IF nodes[n].synced THEN disks[n].left ELSE {disks[n].file} :
            \A after \in {IF found = None THEN [err |-> None, node |-> FreshNode(nodes[n].epoch)]
                          ELSE load(n, nodes[n].epoch, found)} :
                /\ EpochOf(found) = nodes[n].epoch \/ found = None
                /\ after.err = None
                /\ \A c \in Capabilities, r \in Requesters :
                      Discover(after.node.store, c, 1, r, clock) = Discover(nodes[n].store, c, 1, r, clock)
                /\ \A m \in Name : Resolve(after.node.store, m, clock) = Resolve(nodes[n].store, m, clock)

\* A name denotes one live Agent and an Agent has one name, in both directions and
\* as Presence says; nobody is live and withdrawn at once; and no limit is passed.
NamesAgree ==
    \A n \in Node : Up(n) =>
        LET s == nodes[n].store
            swept == sweepLocked(s, clock)
        IN  /\ \A m \in Name : \A b \in {Resolve(s, m, clock)} : b # None =>
                  swept.records[b.agent] = b /\ ResolveAgent(s, b.agent, clock) = b
            /\ \A a \in AgentID : \A b \in {ResolveAgent(s, a, clock)} : b # None => b.agent = a
            /\ \A a \in AgentID : swept.records[a] = None \/ swept.tombs[a] = None
            /\ Cardinality(Known(swept.records)) <= MaxRecords /\ Cardinality(Known(swept.tombs)) <= MaxTombstones

\* A name that is bound is not handed to another Agent while its binding lives.
NamesStay ==
    \A n \in Node, m \in Name : Up(n) /\ nodes'[n] # None /\ clock' = clock =>
        LET before == Resolve(nodes[n].store, m, clock)
            after == Resolve(nodes'[n].store, m, clock)
        IN  before # None /\ after # None /\ before.agent # after.agent =>
                nodes'[n].store.records[before.agent] # before

\* Nothing of a retired epoch comes back: what a node holds was announced in the
\* epoch it runs in, whatever old peers send and whichever snapshots are put back.
EpochsDoNotMix ==
    \A n \in Node : Up(n) =>
        /\ nodes[n].epoch = floors[n]
        /\ \A a \in AgentID : nodes[n].store.records[a] # None => nodes[n].store.records[a].born = nodes[n].epoch

\* The routing peers of a node are trusted and no more than it may have, although
\* lookups and AddPeer find room at the same time.
RoutingIsBounded ==
    \A n \in Node :
        /\ Up(n) => nodes[n].peers \subseteq Trusted[n] /\ Cardinality(nodes[n].peers) <= MaxPeers
        /\ lookups[n] # None => Cardinality(lookups[n].known) <= MaxPeers

\* All nodes are up and show the same Agents under the same names, and none has a
\* change to save.
Agree ==
    /\ \A n \in Node : Open(n) /\ ~nodes[n].dirty
    /\ \A n, m \in Node :
        /\ sweepLocked(nodes[n].store, clock).records = sweepLocked(nodes[m].store, clock).records
        /\ Bindings(nodes[n].store, clock) = Bindings(nodes[m].store, clock)

\* The steps of an exchange of n, by what they do. That n gossips on a ticker and
\* that of the exchanges it tries again and again some get through is strong
\* fairness of these, and that nodes that end are started again that of Up.
From(n, i, phase) == conns[i] # None /\ conns[i].from = n /\ conns[i].phase = phase
Begun(n) == \E i \in Slot : conns[i] = None /\ conns'[i] # None /\ conns'[i].from = n
Deliverable(n) ==
    \E i \in Slot :
        /\ From(n, i, "sent") /\ conns[i].live
        /\ Open(conns[i].to) /\ nodes[conns[i].to].epoch = conns[i].body.epoch
        /\ MergeAll(nodes[conns[i].to].store, conns[i].body.delta, conns[i].body.names).err = None
Delivered(n) == \E i \in Slot : From(n, i, "sent") /\ conns'[i] # None /\ conns'[i].phase = "answered"
Returned(n) ==
    \E i \in Slot :
        /\ From(n, i, "answered") /\ Open(n)
        /\ MergeAll(nodes[n].store, conns[i].body.delta, conns[i].body.names).err = None
Remembered(n) ==
    \E i \in Slot :
        /\ From(n, i, "answered") /\ conns'[i] = None /\ nodes'[n] # None
        /\ nodes'[n].store = MergeAll(nodes[n].store, conns[i].body.delta, conns[i].body.names).store
        /\ nodes'[n].digests[conns[i].to] = conns[i].body.digest
        /\ nodes'[n].names[conns[i].to] = conns[i].body.nameDigest
=============================================================================
