----------------------------- MODULE Discovery -----------------------------
(***************************************************************************)
(* Package discovery: the Presence store, the name service (ANS) coupled   *)
(* to it and the routing table, as operators on their state. A store is a  *)
(* record                                                                  *)
(*   records, tombs    the maps of the Presence store                      *)
(*   byName, byAgent   the maps of the name service                        *)
(*   keep              tombstoneRetention (0: markers are kept for good)   *)
(*   gone              for the properties: the versions of an Agent whose  *)
(*                     withdrawal suppresses them here                     *)
(* Every operation takes the time it reads. A time of 0 is the zero time:  *)
(* never. A binding is its Presence record; the endpoint and the times of  *)
(* registration, which no decision reads, are left out. What is withdrawn  *)
(* and which record is newer is decided by the version alone.              *)
(***************************************************************************)
EXTENDS Naturals, FiniteSets, Bitwise, SequencesExt

CONSTANTS
    None,             \* no record, no error
    Agents,           \* the Agent-IDs, in their order
    Names,            \* the ANS names, in their order
    MaxRecords,       \* maxRecords
    MaxTombstones     \* maxTombstones

AgentID == Range(Agents)
Name == Range(Names)

Known(f) == {x \in DOMAIN f : f[x] # None}

Lapsed(time, now) == time # 0 /\ time <= now

Answer(s, changed, err) == [store |-> s, changed |-> changed, err |-> err]

EmptyStore(keep) ==
    [records |-> [a \in AgentID |-> None], tombs |-> [a \in AgentID |-> None],
     byName |-> [n \in Name |-> None], byAgent |-> [a \in AgentID |-> None],
     keep |-> keep, gone |-> [a \in AgentID |-> {}]]
-----------------------------------------------------------------------------
(* Presence. *)

sweepLocked(s, now) ==
    [s EXCEPT
        !.records = [a \in AgentID |-> IF @[a] # None /\ Lapsed(@[a].expires, now) THEN None ELSE @[a]],
        !.tombs = [a \in AgentID |-> IF @[a] # None /\ Lapsed(@[a].expires, now) THEN None ELSE @[a]]]

extendTombstoneForRecord(t, r) ==
    IF r.expires = 0 THEN [t EXCEPT !.indefinite = TRUE, !.until = 0, !.expires = 0]
    ELSE IF t.indefinite \/ t.until >= r.expires THEN t
    ELSE [t EXCEPT !.until = r.expires, !.expires = IF @ # 0 /\ @ < r.expires THEN r.expires ELSE @]

mergeSuppressionFloor(t, other) ==
    IF other.indefinite THEN [t EXCEPT !.indefinite = TRUE, !.until = 0]
    ELSE IF ~t.indefinite /\ t.until < other.until THEN [t EXCEPT !.until = other.until]
    ELSE t

\* The record of the Agent, if any, is deleted with it: both callers do.
installTombstoneLocked(s, a, t, now) ==
    LET deadline == now + s.keep
        expires == IF t.indefinite \/ s.keep = 0 THEN 0
                   ELSE IF t.until < deadline THEN deadline ELSE t.until
    IN  [s EXCEPT !.tombs[a] = [t EXCEPT !.expires = expires],
                  !.gone[a] = @ \cup (IF s.records[a] # None THEN {s.records[a].version} ELSE {}),
                  !.records[a] = None]

Announce(s, r, now) ==
    LET swept == sweepLocked(s, now)
        mark == swept.tombs[r.agent]
        current == swept.records[r.agent]
        open == [swept EXCEPT !.tombs[r.agent] = None]
    IN  CASE Lapsed(r.expires, now) ->
                Answer(swept, FALSE, None)
          [] mark # None /\ mark.version >= r.version ->
                Answer([swept EXCEPT !.tombs[r.agent] = extendTombstoneForRecord(mark, r),
                                     !.gone[r.agent] = @ \cup {r.version}], FALSE, None)
          [] current = None /\ Cardinality(Known(swept.records)) >= MaxRecords ->
                Answer(swept, FALSE, "ErrLimitExceeded")
          [] current # None /\ current.version >= r.version ->
                Answer(open, FALSE, None)
          [] OTHER ->
                Answer([open EXCEPT !.records[r.agent] = r,
                                    !.gone[r.agent] = {v \in @ : v >= r.version}], TRUE, None)

Marker(version) == [version |-> version, until |-> 0, indefinite |-> FALSE, expires |-> 0]

\* Mutation: the marker does not take over the lease of the record it replaces.
WithdrawForgetsLease(s, a, version, now) ==
    LET swept == sweepLocked(s, now)
    IN  IF \E r \in {swept.records[a]} : r # None /\ r.version > version THEN Answer(swept, FALSE, None)
        ELSE Answer(installTombstoneLocked(swept, a, Marker(version), now), TRUE, None)

Withdraw(s, a, version, now) ==
    LET swept == sweepLocked(s, now)
        mark == swept.tombs[a]
        current == swept.records[a]
        floor == IF mark # None THEN mergeSuppressionFloor(Marker(version), mark) ELSE Marker(version)
        new == IF current # None THEN extendTombstoneForRecord(floor, current) ELSE floor
    IN  CASE \/ current # None /\ current.version > version
             \/ mark # None /\ mark.version >= version ->
                Answer(swept, FALSE, None)
          [] mark = None /\ Cardinality(Known(swept.tombs)) >= MaxTombstones ->
                Answer(swept, FALSE, "ErrLimitExceeded")
          [] OTHER ->
                Answer(installTombstoneLocked(swept, a, new, now), TRUE, None)

\* A marker of a peer for Agent a: its floor counts even at an older version, but
\* only a newer version starts the local retention again.
mergeTombstone(s, a, t, now) ==
    LET swept == sweepLocked(s, now)
        mark == swept.tombs[a]
        current == swept.records[a]
        known == IF current # None THEN extendTombstoneForRecord(t, current) ELSE t
        raised == mergeSuppressionFloor(mark, known)
        new == IF mark # None THEN mergeSuppressionFloor(known, mark) ELSE known
    IN  CASE current # None /\ current.version > t.version ->
                Answer(swept, FALSE, None)
          [] mark # None /\ mark.version >= t.version ->
                Answer([swept EXCEPT !.tombs[a] =
                            [raised EXCEPT !.expires = IF raised.indefinite THEN 0
                                                       ELSE IF @ # 0 /\ @ < raised.until THEN raised.until
                                                       ELSE @]],
                       raised # mark, None)
          [] mark = None /\ Cardinality(Known(swept.tombs)) >= MaxTombstones ->
                Answer(swept, FALSE, "ErrLimitExceeded")
          [] OTHER ->
                Answer(installTombstoneLocked(swept, a, new, now), TRUE, None)

\* The items in their order, up to the first error.
Each(Op(_, _), s, items) ==
    FoldLeft(LAMBDA done, i : IF done.err # None THEN done ELSE Op(done.store, i), Answer(s, FALSE, None), items)

MergeTombstones(s, tombs, now) ==
    Each(LAMBDA st, a : mergeTombstone(st, a, tombs[a], now), s, SelectSeq(Agents, LAMBDA a : tombs[a] # None))

MergeRecords(s, records, now) ==
    Each(LAMBDA st, a : Announce(st, records[a], now), s, SelectSeq(Agents, LAMBDA a : records[a] # None))

Version(entry) == IF entry = None THEN 0 ELSE entry.version

Digest(s, now) ==
    LET swept == sweepLocked(s, now)
    IN  [records |-> [a \in AgentID |-> Version(swept.records[a])], tombs |-> [a \in AgentID |-> Version(swept.tombs[a])]]

NoDigest == [records |-> [a \in AgentID |-> 0], tombs |-> [a \in AgentID |-> 0]]

publicTombstone(t) == IF t = None THEN None ELSE [t EXCEPT !.expires = 0]

\* All markers, and the records newer than what the peer's digest names.
Delta(s, peer, now) ==
    LET swept == sweepLocked(s, now)
    IN  [tombs |-> [a \in AgentID |-> publicTombstone(swept.tombs[a])],
         records |-> [a \in AgentID |->
            IF peer.records[a] < Version(swept.records[a]) /\ peer.tombs[a] < Version(swept.records[a])
            THEN swept.records[a] ELSE None]]

visibleTo(visibility, requester) ==
    CASE visibility.mode = "public" -> TRUE
      [] visibility.mode = "owner-domain" -> requester.domain # None /\ requester.domain = visibility.domain
      [] visibility.mode = "explicit-only" -> requester.agent \in visibility.allowed
      [] visibility.mode = "invisible" -> FALSE

\* The first `limit` Agents, in order, that are live, capable and visible.
Discover(s, capability, limit, requester, now) ==
    LET swept == sweepLocked(s, now)
        matches == SelectSeq(Agents, LAMBDA a :
            /\ swept.records[a] # None
            /\ capability \in swept.records[a].capabilities
            /\ visibleTo(swept.records[a].visibility, requester))
    IN  SubSeq(matches, 1, IF Len(matches) > limit THEN limit ELSE Len(matches))
-----------------------------------------------------------------------------
(* The name service. *)

bindingIsLive(swept, b, now) == b # None /\ ~Lapsed(b.expires, now) /\ swept.records[b.agent] = b

pruneLocked(s, now) ==
    LET swept == sweepLocked(s, now)
        dead == {n \in Known(s.byName) : ~bindingIsLive(swept, s.byName[n], now)}
    IN  [swept EXCEPT
            !.byName = [n \in Name |-> IF n \in dead THEN None ELSE @[n]],
            !.byAgent = [a \in AgentID |-> IF @[a] \in dead /\ s.byName[@[a]].agent = a THEN None ELSE @[a]]]

Bind(s, b) ==
    LET previous == s.byAgent[b.agent]
        freed == IF previous # None /\ previous # b.name THEN [s EXCEPT !.byName[previous] = None] ELSE s
    IN  [freed EXCEPT !.byName[b.name] = b, !.byAgent[b.agent] = b.name]

Register(s, b, now) ==
    LET pruned == pruneLocked(s, now)
        current == pruned.byName[b.name]
        announced == Announce(pruned, b, now)
        probed == announced.store.records[b.agent]
    IN  CASE current # None /\ current.agent # b.agent -> Answer(pruned, FALSE, "ErrNameConflict")
          [] current # None /\ current.agent = b.agent /\ current.version >= b.version -> Answer(pruned, FALSE, None)
          [] OTHER ->
                CASE announced.err # None -> announced
                  [] ~announced.changed /\ (probed = None \/ Version(probed) # b.version) -> announced
                  [] ~announced.changed /\ Version(probed) = b.version /\ probed # b ->
                        Answer(announced.store, FALSE, "ErrInvalidRecord")
                  [] OTHER -> Answer(Bind(announced.store, b), TRUE, None)

MergeNames(s, bindings, now) ==
    Each(LAMBDA st, n : Register(st, bindings[n], now), s, SelectSeq(Names, LAMBDA n : bindings[n] # None))

Deregister(s, n, version, now) ==
    LET pruned == pruneLocked(s, now)
        binding == pruned.byName[n]
        withdrawn == Withdraw(pruned, binding.agent, version, now)
    IN  IF binding = None \/ Version(binding) > version THEN Answer(pruned, FALSE, None)
        ELSE IF withdrawn.err # None \/ ~withdrawn.changed THEN withdrawn
        ELSE Answer([withdrawn.store EXCEPT !.byName[n] = None, !.byAgent[binding.agent] = None], TRUE, None)

Bindings(s, now) == pruneLocked(s, now).byName

Resolve(s, n, now) == Bindings(s, now)[n]

ResolveAgent(s, a, now) ==
    LET pruned == pruneLocked(s, now)
    IN  IF pruned.byAgent[a] = None THEN None ELSE pruned.byName[pruned.byAgent[a]]

NameDigest(s, now) == [n \in Name |-> Version(Bindings(s, now)[n])]

NoNames == [n \in Name |-> 0]

NameDelta(s, peer, now) ==
    [n \in Name |-> IF peer[n] < Version(Bindings(s, now)[n]) THEN Bindings(s, now)[n] ELSE None]
-----------------------------------------------------------------------------
(* The routing table: for each bucket the peers in it, least recently      *)
(* observed first. Identifiers are numbers, their XOR is the distance.     *)

bucketIndex(self, peer) == CHOOSE i \in 0..(self + peer) : 2^i <= (self ^^ peer) /\ (self ^^ peer) < 2^(i + 1)

Observe(table, self, k, peer) ==
    IF peer = self THEN table
    ELSE [table EXCEPT ![bucketIndex(self, peer)] =
            LET rest == SelectSeq(@, LAMBDA p : p # peer)
            IN  Append(IF Len(rest) < k THEN rest ELSE Tail(rest), peer)]

Peers(table) == UNION {Range(table[i]) : i \in DOMAIN table}

orderedPeers(peers, target) == SetToSortSeq(peers, LAMBDA p, q : (p ^^ target) < (q ^^ target))

Nearest(peers, target, count) ==
    LET ordered == orderedPeers(peers, target)
    IN  SubSeq(ordered, 1, IF Len(ordered) > count THEN count ELSE Len(ordered))

Closest(table, target, count) == Nearest(Peers(table), target, count)

\* One FIND_NODE of a lookup; ask[p] is the answer of peer p, None when the call fails.
Query(l, self, k, p, ask) ==
    LET learned == IF ask[p] = None THEN <<>> ELSE SelectSeq(ask[p], LAMBDA c : c # self)
    IN  [known |-> l.known \cup Range(learned), queried |-> l.queried \cup {p},
         table |-> FoldLeft(LAMBDA t, c : Observe(t, self, k, c), l.table, learned)]

\* Rounds of up to alpha calls, nearest first, until every known peer was asked.
RECURSIVE LocateRounds(_, _, _, _, _, _)
LocateRounds(l, self, k, target, alpha, ask) ==
    LET round == Nearest(l.known \ l.queried, target, alpha)
    IN  IF round = <<>> THEN l
        ELSE LocateRounds(FoldLeft(LAMBDA m, p : Query(m, self, k, p, ask), l, round), self, k, target, alpha, ask)

IterativeLocate(table, self, k, target, count, alpha, ask) ==
    LET start == [known |-> Range(Closest(table, target, count)), queried |-> {}, table |-> table]
    IN  Nearest(LocateRounds(start, self, k, target, alpha, ask).known, target, count)
-----------------------------------------------------------------------------
(* Properties of the routing table, for the MC module's inputs. *)

EmptyTable(bits) == [i \in 0..(bits - 1) |-> <<>>]

\* After any history of observations a bucket holds the k peers observed last of
\* those that belong in it, in the order of their last observation.
ObserveIsExact(self, k, bits, history) ==
    LET table == FoldLeft(LAMBDA t, p : Observe(t, self, k, p), EmptyTable(bits), history)
        last(p) == Max({i \in DOMAIN history : history[i] = p})
    IN  \A b \in DOMAIN table :
            LET there == {p \in Range(history) \ {self} : bucketIndex(self, p) = b}
                order == SetToSortSeq(there, LAMBDA p, q : last(p) < last(q))
            IN  table[b] = IF Len(order) <= k THEN order ELSE SubSeq(order, Len(order) - k + 1, Len(order))

\* When every node knows somebody of each part of the population that is not
\* empty, a lookup finds the node nearest to its target, wherever it starts and
\* whoever else the tables name. (A node nearest itself may be told of nobody but
\* itself, and then makes do with whom it knows.)
LocateIsExact(tables, bits, k, count, alpha) ==
    \A self \in DOMAIN tables, target \in 0..(2^bits - 1) :
        Head(orderedPeers(DOMAIN tables, target)) # self =>
        Head(IterativeLocate(tables[self], self, k, target, count, alpha,
                             [p \in DOMAIN tables |-> Closest(tables[p], target, count)]))
            = Head(orderedPeers(DOMAIN tables, target))
=============================================================================
