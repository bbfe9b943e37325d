----------------------------- MODULE HumanIngress -----------------------------
(***************************************************************************)
(* The Human ingress of pkg/taskcoord/asbbinding: an HTTP service that     *)
(* issues a challenge for one exact request on one TLS connection, and     *)
(* later executes that request against the TaskCoord store once a proof    *)
(* for that challenge verifies.                                            *)
(*                                                                         *)
(* With a HumanTransactionStore (the SQLite store, Durable = TRUE) the     *)
(* replay key, the mutation and the first response are committed together  *)
(* and OPERATION_RECOVER reads that response back.  With a plain store     *)
(* they are separate calls.                                                *)
(*                                                                         *)
(* A digest is the request itself, a nonce is the challenge it came with,  *)
(* and a client is its public key, which its grant names as the Actor.     *)
(* The store is reduced to revisions and the events committed; what the    *)
(* Assignment machine and the delegation policy say of a request is a free *)
(* choice (their own rules are those of TaskStore).  Time 0 is no time.    *)
(***************************************************************************)
EXTENDS Naturals, FiniteSets

CONSTANTS
    Handler,           \* request goroutines
    Connection, Key,   \* TLS connections and the public keys of the clients
    KeyOf(_),          \* the verified key of a connection
    Challenge,         \* the random challenge identifiers
    Request,           \* what clients may ask for
    Event, Assignment,
    Existing,          \* the Assignments offered earlier
    Active,            \* the registered, active participants
    Human,             \* those of them that are Human
    None,              \* no connection, request, challenge or code
    Durable,           \* the store is a HumanTransactionStore
    ChallengeTTL, MaxPending, MaxTotalPending,
    Lifetime,          \* lifetimes of the proofs clients sign
    Limit,             \* what the deployment's AcceptedUntil policy may return
    MaxTime            \* bound: the latest clock reading

VARIABLES
    clock,
    pending,           \* outstanding challenges
    connections,       \* how many of them each connection has
    identities,        \* how many of them each key has
    issued,            \* what each challenge was issued for, as its client knows it
    proofs,            \* expiry of the proof signed for each challenge
    handlers,
    writer,            \* the handler inside RunHumanTransaction
    revision, events,  \* the TaskCoord store
    outcomes,          \* the retained first responses
    replay,            \* retention of each used proof
    answers            \* what the client of each challenge was told

registry == <<pending, connections, identities>>
store == <<revision, events, outcomes, replay>>
vars == <<clock, registry, issued, proofs, handlers, writer, store, answers>>
-----------------------------------------------------------------------------
NoEntry == [conn |-> None, request |-> None, expires |-> 0]
NoEvent == [request |-> None, by |-> None, proof |-> None]
NoAnswer == [code |-> None, response |-> NoEvent]
Idle == [stage |-> "IDLE", conn |-> None, request |-> None, challenge |-> None,
         proof |-> None, now |-> 0, entry |-> NoEntry, expires |-> 0]

Entries == [conn : Connection, request : Request, expires : Nat] \cup {NoEntry}
Events == [request : Request, by : Key, proof : Challenge] \cup {NoEvent}
Stages ==
    {"IDLE", "PUT", "TAKE", "VERIFY", "WAIT", "TRANSACTION", "SEALED", "ACCEPT", "LOAD", "CHECK", "COMMIT"}

HandlerState ==
    [stage : Stages, conn : Connection \cup {None}, request : Request \cup {None}, challenge : Challenge \cup {None},
     proof : Challenge \cup {None}, now : Nat, entry : Entries, expires : Nat]
Answers == [code : {None, "OK", "REFUSED", "UNKNOWN"}, response : Events]

Execution(r) == r.kind # "OPERATION_RECOVER"

TypeOK ==
    /\ clock \in 1..MaxTime
    /\ pending \in [Challenge -> Entries] /\ issued \in [Challenge -> Entries]
    /\ connections \in [Connection -> Nat] /\ identities \in [Key -> Nat]
    /\ proofs \in [Challenge -> Nat]
    /\ handlers \in [Handler -> HandlerState]
    /\ writer \in Handler \cup {None}
    /\ revision \in [Assignment -> Nat]
    /\ events \in [Event -> Events] /\ outcomes \in [Event -> Events]
    /\ replay \in [Challenge -> Nat]
    /\ answers \in [Challenge -> Answers]

Init ==
    /\ clock = 1
    /\ pending = [c \in Challenge |-> NoEntry] /\ issued = [c \in Challenge |-> NoEntry]
    /\ connections = [n \in Connection |-> 0] /\ identities = [k \in Key |-> 0]
    /\ proofs = [c \in Challenge |-> 0]
    /\ handlers = [h \in Handler |-> Idle]
    /\ writer = None
    /\ revision = [a \in Assignment |-> IF a \in Existing THEN 1 ELSE 0]
    /\ events = [e \in Event |-> NoEvent] /\ outcomes = [e \in Event |-> NoEvent]
    /\ replay = [c \in Challenge |-> 0]
    /\ answers = [c \in Challenge |-> NoAnswer]
-----------------------------------------------------------------------------
(* The registry of outstanding challenges, under the mutex. *)

Pending(p) == {c \in Challenge : p[c] # NoEntry}

Expired(now) == {c \in Pending(pending) : now >= pending[c].expires}

\* How often a count goes down by one when these challenges leave; the entry of
\* a count that reaches 0 is deleted.
Lower(count, n) == IF count <= n THEN 0 ELSE count - n

\* Mutation: the count of the client's key is not released.
ReleasedConnections(gone) ==
    [pending |-> [c \in Challenge |-> IF c \in gone THEN NoEntry ELSE pending[c]],
     connections |-> [n \in Connection |->
         Lower(connections[n], Cardinality({c \in gone : pending[c].conn = n}))],
     identities |-> identities]

\* delete and releaseChallengeLocked, for each of these challenges
Released(gone) ==
    [pending |-> [c \in Challenge |-> IF c \in gone THEN NoEntry ELSE pending[c]],
     connections |-> [n \in Connection |->
         Lower(connections[n], Cardinality({c \in gone : pending[c].conn = n}))],
     identities |-> [k \in Key |->
         Lower(identities[k], Cardinality({c \in gone : KeyOf(pending[c].conn) = k}))]]

HasRoom(r, n) ==
    /\ Cardinality(Pending(r.pending)) < MaxTotalPending
    /\ r.connections[n] < MaxPending
    /\ r.identities[KeyOf(n)] < MaxPending

SetRegistry(r) ==
    /\ pending' = r.pending
    /\ connections' = r.connections
    /\ identities' = r.identities

\* Bound: the identifiers of the model do not run out.
IdentifierLeft ==
    Cardinality({h \in Handler : handlers[h].stage = "PUT"}) <
        Cardinality({c \in Challenge : issued[c] = NoEntry})

\* handleChallenge up to reading the clock: a recovery needs a durable store.
BeginChallenge(h, n, r) ==
    /\ handlers[h] = Idle
    /\ IdentifierLeft
    /\ ~Execution(r) => Durable
    /\ handlers' = [handlers EXCEPT ![h] = [Idle EXCEPT !.stage = "PUT", !.conn = n, !.request = r, !.now = clock]]
    /\ UNCHANGED <<clock, registry, issued, proofs, writer, store, answers>>

\* putChallenge: the identifier is random, so never one used before.
PutChallenge(h, c) ==
    LET me == handlers[h]
        r  == Released(Expired(me.now))
        entry == [conn |-> me.conn, request |-> me.request, expires |-> me.now + ChallengeTTL]
    IN  /\ me.stage = "PUT"
        /\ issued[c] = NoEntry
        /\ handlers' = [handlers EXCEPT ![h] = Idle]
        /\ IF HasRoom(r, me.conn)
           THEN /\ SetRegistry([pending |-> [r.pending EXCEPT ![c] = entry],
                                connections |-> [r.connections EXCEPT ![me.conn] = @ + 1],
                                identities |-> [r.identities EXCEPT ![KeyOf(me.conn)] = @ + 1]])
                /\ issued' = [issued EXCEPT ![c] = entry]
           ELSE SetRegistry(r) /\ UNCHANGED issued
        /\ UNCHANGED <<clock, proofs, writer, store, answers>>
-----------------------------------------------------------------------------
(* The gateway client. *)

\* The holder of the key signs the session binding for the challenge it received
\* and obtains a grant for the exact request; they expire together.
Sign(c, lifetime) ==
    /\ issued[c] # NoEntry /\ proofs[c] = 0
    /\ proofs' = [proofs EXCEPT ![c] = clock + lifetime]
    /\ UNCHANGED <<clock, registry, issued, handlers, writer, store, answers>>

\* handleExecute up to reading the clock.  A client may have no proof, or
\* mix up the connection, the request or the proof (bound: one of them).
BeginExecute(h, n, r, c, p) ==
    /\ handlers[h] = Idle
    /\ issued[c] # NoEntry
    /\ p = c \/ proofs[p] # 0
    /\ \/ n = issued[c].conn /\ r = issued[c].request
       \/ n = issued[c].conn /\ p = c
       \/ r = issued[c].request /\ p = c
    /\ handlers' = [handlers EXCEPT ![h] = [Idle EXCEPT
           !.stage = "TAKE", !.conn = n, !.request = r, !.challenge = c, !.proof = p, !.now = clock]]
    /\ UNCHANGED <<clock, registry, issued, proofs, writer, store, answers>>

\* pruneLocked, then the challenge itself leaves, whoever asks for it.
Taken(c, now) == Released(Expired(now) \cup ({c} \cap Pending(pending)))

Admits(entry, me) ==
    /\ entry # NoEntry
    /\ me.now < entry.expires
    /\ entry.conn = me.conn /\ entry.request = me.request

\* takeChallenge
TakeChallenge(h) ==
    LET me    == handlers[h]
        entry == pending[me.challenge]
    IN  /\ me.stage = "TAKE"
        /\ SetRegistry(Taken(me.challenge, me.now))
        /\ handlers' = [handlers EXCEPT ![h] =
               IF Admits(entry, me)
               THEN [me EXCEPT !.stage = IF Durable THEN "VERIFY" ELSE "ACCEPT", !.entry = entry, !.now = 0]
               ELSE Idle]
        /\ UNCHANGED <<clock, issued, proofs, writer, store, answers>>
-----------------------------------------------------------------------------
(* Verification of the proof, and the answer. *)

Earliest(s, t) == IF s < t THEN s ELSE t

\* The proof was signed for this connection, request and nonce.
Bound(me) == me.proof = me.challenge /\ issued[me.proof].conn = me.conn /\ issued[me.proof].request = me.request

AcceptedUntil(me) == Earliest(proofs[me.proof], me.entry.expires)

\* verifyEvidence
Verified(me) == Bound(me) /\ clock < AcceptedUntil(me)

\* Profile.accept
Acceptable(me) == Verified(me) /\ me.request.participant \in Human

Answer(h, code, response) ==
    /\ handlers' = [handlers EXCEPT ![h] = Idle]
    /\ answers' = [answers EXCEPT ![handlers[h].challenge] = [code |-> code, response |-> response]]

\* Mutation: a proof that has just expired is still good.
InTimeInclusive(me) == clock <= me.expires

InTime(me) == clock < me.expires

\* The accepted lifetime, which the deployment's policy may shorten.
Accepted(me, stage, limit) == [me EXCEPT !.stage = stage, !.expires = Earliest(AcceptedUntil(me), limit)]
-----------------------------------------------------------------------------
(* What a request does to the store. *)

EventOf(me) == [request |-> me.request, by |-> KeyOf(me.conn), proof |-> me.proof]

EventsOf(r) == IF r.kind = "ASSIGNMENT_DELEGATION" THEN {r.event, r.childEvent} ELSE {r.event}

\* What the ingress itself asks of a request before the store sees it, besides
\* the verdict of the Assignment machine.
OfferAccepted(r) == r.target \in Active
TransitionAccepted(r) == revision[r.assignment] = r.expected
DelegationAccepted(r) == revision[r.assignment] = r.expected /\ r.target \in Active
InteractionAccepted(r) == revision[r.assignment] # 0

RequestAccepted(r) ==
    CASE r.kind = "ASSIGNMENT_OFFER" -> OfferAccepted(r)
      [] r.kind = "ASSIGNMENT_TRANSITION" -> TransitionAccepted(r)
      [] r.kind = "ASSIGNMENT_DELEGATION" -> DelegationAccepted(r)
      [] r.kind = "INTERACTION_APPEND" -> InteractionAccepted(r)

\* The store's own compare and set: revisions and unused event identifiers.
Fits(r) ==
    /\ \A e \in EventsOf(r) : events[e] = NoEvent
    /\ CASE r.kind = "ASSIGNMENT_OFFER" -> revision[r.assignment] = 0
         [] r.kind = "ASSIGNMENT_TRANSITION" -> revision[r.assignment] = r.expected
         [] r.kind = "ASSIGNMENT_DELEGATION" -> revision[r.assignment] = r.expected /\ revision[r.child] = 0
         [] r.kind = "INTERACTION_APPEND" -> revision[r.assignment] # 0

\* CommitAssignment, CommitDelegation or AppendInteractionEvent
Mutate(me) ==
    LET r == me.request
    IN  /\ events' = [e \in Event |-> IF e \in EventsOf(r) THEN EventOf(me) ELSE events[e]]
        /\ revision' = [a \in Assignment |->
               IF \/ r.kind # "INTERACTION_APPEND" /\ a = r.assignment
                  \/ r.kind = "ASSIGNMENT_DELEGATION" /\ a = r.child
               THEN revision[a] + 1 ELSE revision[a]]

\* commitReplay: expired keys go, this one must be new.
Unused(p) == replay[p] <= clock

MarkUsed(p, now) ==
    replay' = [c \in Challenge |-> IF c = p THEN proofs[p] ELSE IF replay[c] <= now THEN 0 ELSE replay[c]]
-----------------------------------------------------------------------------
(* A durable store: verification before the writer's lock, all else inside. *)

PreVerify(h) ==
    LET me == handlers[h]
    IN  /\ me.stage = "VERIFY"
        /\ IF Verified(me)
           THEN handlers' = [handlers EXCEPT ![h].stage = "WAIT"] /\ UNCHANGED answers
           ELSE Answer(h, "REFUSED", NoEvent)
        /\ UNCHANGED <<clock, registry, issued, proofs, writer, store>>

\* Waiting for the store's lock ends with its timeout or the request's.
GiveUp(h) ==
    /\ handlers[h].stage = "WAIT"
    /\ Answer(h, "UNKNOWN", NoEvent)
    /\ UNCHANGED <<clock, registry, issued, proofs, writer, store>>

\* BEGIN IMMEDIATE and acceptOperation; "limit" is the policy's own deadline.
BeginTransaction(h, limit) ==
    LET me == handlers[h]
    IN  /\ me.stage = "WAIT" /\ writer = None
        /\ IF Acceptable(me) /\ clock < limit
           THEN handlers' = [handlers EXCEPT ![h] = Accepted(me, "TRANSACTION", limit)]
                /\ writer' = h /\ UNCHANGED answers
           ELSE Answer(h, "REFUSED", NoEvent) /\ UNCHANGED writer
        /\ UNCHANGED <<clock, registry, issued, proofs, store>>

\* A retained response is read by the Human and the Actor it was given to.
Recoverable(me) ==
    LET outcome == outcomes[me.request.event]
    IN  /\ outcome # NoEvent
        /\ outcome.request = me.request.of
        /\ outcome.request.participant = me.request.participant
        /\ outcome.by = KeyOf(me.conn)

\* An operation with a retained response is never executed again.
Executable(me) ==
    outcomes[me.request.event] = NoEvent /\ RequestAccepted(me.request) /\ Fits(me.request)

Response(me) == IF Execution(me.request) THEN EventOf(me) ELSE outcomes[me.request.event]

\* Mutation: the response is retained in a write of its own, which may fail.
RetainSeparately(me, fate) ==
    outcomes' = IF fate = "LOST" THEN outcomes ELSE [outcomes EXCEPT ![me.request.event] = EventOf(me)]

\* PutHumanOutcome
Retain(me, fate) == outcomes' = [outcomes EXCEPT ![me.request.event] = EventOf(me)]

\* The writes of executeDurable that COMMIT makes visible together.
Commit(me, fate) ==
    /\ MarkUsed(me.proof, me.now)
    /\ IF Execution(me.request) THEN Mutate(me) /\ Retain(me, fate)
                                ELSE UNCHANGED <<revision, events, outcomes>>

\* Mutation: a commit whose acknowledgement is lost is reported as a refusal.
CodeOfLost(fate) == IF fate = "COMMITTED" THEN "OK" ELSE "REFUSED"

\* ingressCodeForError: a storage error leaves the outcome open.
CodeOf(fate) == IF fate = "COMMITTED" THEN "OK" ELSE "UNKNOWN"

\* Mutation: an early return keeps the writer's lock.
UnlockAfterCommit(fine) == writer' = IF fine THEN None ELSE writer

\* Store.run releases its connection and guard on every return.
Unlock(fine) == writer' = None

\* The request with its last look at the clock.
Checked(me, stage) == [me EXCEPT !.stage = stage, !.now = clock]

\* The rest of executeDurable: its writes are made and the clock is read for the
\* last time, or all is rolled back.  "lawful" is what the Assignment machine and
\* the delegation policy say.
ExecuteDurable(h, lawful) ==
    LET me == handlers[h]
    IN  /\ me.stage = "TRANSACTION" /\ writer = h
        /\ IF /\ IF Execution(me.request) THEN lawful /\ Executable(me) ELSE Recoverable(me)
              /\ Unused(me.proof)
              /\ InTime(me)
           THEN handlers' = [handlers EXCEPT ![h] = Checked(me, "SEALED")] /\ UNCHANGED <<writer, answers>>
           ELSE Answer(h, "REFUSED", NoEvent) /\ Unlock(FALSE)
        /\ UNCHANGED <<clock, registry, issued, proofs, store>>

\* COMMIT.  It may fail (FAILED), or take effect although its caller gets an
\* error (LOST).
EndTransaction(h, fate) ==
    LET me == handlers[h]
    IN  /\ me.stage = "SEALED" /\ writer = h
        /\ Unlock(TRUE)
        /\ IF fate # "FAILED" THEN Commit(me, fate) ELSE UNCHANGED store
        /\ Answer(h, CodeOf(fate), IF fate = "COMMITTED" THEN Response(me) ELSE NoEvent)
        /\ UNCHANGED <<clock, registry, issued, proofs>>
-----------------------------------------------------------------------------
(* A plain store: acceptance, replay key and mutation are separate calls. *)

AcceptOperation(h, limit) ==
    LET me == handlers[h]
    IN  /\ me.stage = "ACCEPT"
        /\ IF Acceptable(me) /\ clock < limit
           THEN handlers' = [handlers EXCEPT ![h] = Accepted(me, "LOAD", limit)] /\ UNCHANGED answers
           ELSE Answer(h, "REFUSED", NoEvent)
        /\ UNCHANGED <<clock, registry, issued, proofs, writer, store>>

\* LoadAssignment, the machine's verdict on it, and commitReplay.
LoadAndMarkUsed(h, lawful) ==
    LET me == handlers[h]
    IN  /\ me.stage = "LOAD"
        /\ IF /\ lawful /\ RequestAccepted(me.request)
              /\ Unused(me.proof) /\ clock < proofs[me.proof]
           THEN /\ MarkUsed(me.proof, clock)
                /\ handlers' = [handlers EXCEPT ![h].stage = "CHECK"]
                /\ UNCHANGED answers
           ELSE Answer(h, "REFUSED", NoEvent) /\ UNCHANGED replay
        /\ UNCHANGED <<clock, registry, issued, proofs, writer, revision, events, outcomes>>

\* The last look at the clock, before the call of the store.
CheckPlain(h) ==
    LET me == handlers[h]
    IN  /\ me.stage = "CHECK"
        /\ IF InTime(me)
           THEN handlers' = [handlers EXCEPT ![h] = Checked(me, "COMMIT")] /\ UNCHANGED answers
           ELSE Answer(h, "REFUSED", NoEvent)
        /\ UNCHANGED <<clock, registry, issued, proofs, writer, store>>

\* The store's commit is one step, under its mutex or at the server, some time
\* after the check; its answer may be lost too.
CommitPlain(h, fate) ==
    LET me == handlers[h]
        fine == Fits(me.request)
    IN  /\ me.stage = "COMMIT"
        /\ IF fine /\ fate # "FAILED" THEN Mutate(me) ELSE UNCHANGED <<revision, events>>
        /\ Answer(h, IF fine THEN CodeOf(fate) ELSE "REFUSED",
                  IF fine /\ fate = "COMMITTED" THEN EventOf(me) ELSE NoEvent)
        /\ UNCHANGED <<clock, registry, issued, proofs, writer, outcomes, replay>>
-----------------------------------------------------------------------------
Tick == clock < MaxTime /\ clock' = clock + 1
        /\ UNCHANGED <<registry, issued, proofs, handlers, writer, store, answers>>

\* The process dies: its challenges and requests are gone, an open transaction
\* is rolled back, and the store (with a shared replay cache) remains.
Crash ==
    /\ pending' = [c \in Challenge |-> NoEntry]
    /\ connections' = [n \in Connection |-> 0] /\ identities' = [k \in Key |-> 0]
    /\ handlers' = [h \in Handler |-> Idle]
    /\ writer' = None
    /\ UNCHANGED <<clock, issued, proofs, store, answers>>

Work(h) ==
    \/ \E c \in Challenge : PutChallenge(h, c)
    \/ TakeChallenge(h) \/ PreVerify(h) \/ GiveUp(h)
    \/ \E limit \in Limit : BeginTransaction(h, limit) \/ AcceptOperation(h, limit)
    \/ CheckPlain(h)
    \/ \E lawful \in BOOLEAN : LoadAndMarkUsed(h, lawful) \/ ExecuteDurable(h, lawful)
    \/ \E fate \in {"COMMITTED", "LOST", "FAILED"} : EndTransaction(h, fate) \/ CommitPlain(h, fate)

Next ==
    \/ \E h \in Handler : Work(h)
    \/ \E h \in Handler, n \in Connection, r \in Request : BeginChallenge(h, n, r)
    \/ \E c \in Challenge, lifetime \in Lifetime : Sign(c, lifetime)
    \/ \E h \in Handler, n \in Connection, r \in Request, c, p \in Challenge : BeginExecute(h, n, r, c, p)
    \/ Tick
    \/ Crash

Spec == Init /\ [][Next]_vars

\* The server runs every request it has begun, and the wait for the lock is
\* bounded: each handler keeps taking steps.
FairSpec == Spec /\ \A h \in Handler : WF_vars(Work(h))
-----------------------------------------------------------------------------
(* Properties. *)

\* executeDurable: the mutation, its first response and the spent proof are
\* committed together or not at all, whatever expires, fails or crashes between.
OutcomeIsAtomic ==
    Durable => \A e \in Event :
        /\ outcomes[e] # NoEvent => events[e] = outcomes[e]
        /\ events[e] # NoEvent =>
               /\ outcomes[events[e].request.event] = events[e]
               /\ clock < proofs[events[e].proof] => replay[events[e].proof] = proofs[events[e].proof]

\* Everyone who is told that an operation succeeded, when it was executed or by
\* any later recovery, is given the response of its one execution.
AnswersAgree ==
    \A c \in Challenge :
        answers[c].code = "OK" => answers[c].response = events[issued[c].request.event]

\* handleExecute: a definite refusal is the truth.  The request of that challenge
\* changed nothing; only OPERATION_OUTCOME_UNKNOWN leaves it open.
RefusalMeansNoEffect ==
    \A c \in Challenge :
        answers[c].code = "REFUSED" => \A e \in Event : events[e].proof # c

\* A recovered response reaches only the Actor and the Human who got it first.
RecoveredByItsOwner ==
    \A c \in Challenge :
        answers[c].code = "OK" =>
            /\ answers[c].response.by = KeyOf(issued[c].conn)
            /\ answers[c].response.request.participant = issued[c].request.participant

\* Answers are true: everyone told that an operation succeeded is given the
\* response of its one execution, which reaches only the Actor and the Human who
\* got it first; and a definite refusal means that nothing was changed.
AnswersAreTrue == AnswersAgree /\ RecoveredByItsOwner /\ RefusalMeansNoEffect

\* executeDurable and applyOperation: what a commit rests on.  The proof has done
\* nothing before; its challenge was issued on that client's connection for that
\* very request; and one request committed it that holds the challenge and whose
\* last look at the clock found challenge and proof in force.  On a durable store
\* that request holds the writer's lock.  On a plain one the look may be old by the
\* time the store commits.
AuthorizedCommit ==
    \A e \in Event :
        LET x == events'[e]
        IN  events[e] # x =>
                /\ events[e] = NoEvent
                /\ \A d \in Event : events[d].proof # x.proof
                /\ issued[x.proof].request = x.request
                /\ KeyOf(issued[x.proof].conn) = x.by
                /\ \E h \in Handler :
                       /\ handlers[h].challenge = x.proof
                       /\ handlers[h].now < issued[x.proof].expires /\ handlers[h].now < proofs[x.proof]
                       /\ Durable => writer = h

Holders(c) == {h \in Handler : handlers[h].challenge = c /\ handlers[h].entry # NoEntry}

\* takeChallenge: a challenge admits one request.  Nobody gets it while another
\* request holds it or after one was answered for it.
AdmittedAlone ==
    \A c \in Challenge :
        (\E h \in Handler : h \in Holders(c)' \ Holders(c)) =>
            Holders(c) = {} /\ answers[c] = NoAnswer

\* A commit rests on a challenge and a proof that were in force when its request
\* last looked, and a challenge admits one request.
AuthorizedWhenCommitted == [][AuthorizedCommit /\ AdmittedAlone]_vars

\* pruneLocked and releaseChallengeLocked: the counts that limit a connection
\* and a key are those of the challenges outstanding, so that no client is
\* locked out by challenges it has used or let expire.
CountsAreExact ==
    /\ \A n \in Connection : connections[n] = Cardinality({c \in Pending(pending) : pending[c].conn = n})
    /\ \A k \in Key : identities[k] = Cardinality({c \in Pending(pending) : KeyOf(pending[c].conn) = k})

\* putChallenge: a client gains no room by opening another connection.
LimitsHold ==
    /\ Cardinality(Pending(pending)) <= MaxTotalPending
    /\ \A k \in Key : Cardinality({c \in Pending(pending) : KeyOf(pending[c].conn) = k}) <= MaxPending

\* Every request the server begins is finished, and the writer's lock is free
\* again and again: no refusal, timeout or crash leaves it held.
RequestsEnd ==
    /\ \A h \in Handler : handlers[h] # Idle ~> handlers[h] = Idle
    /\ []<>(writer = None)
-----------------------------------------------------------------------------
(***************************************************************************)
(* The inductive invariant.  A challenge is nowhere, outstanding, held by   *)
(* one request or used; before it is used it is fresh: nobody was answered  *)
(* for it and nothing was committed under its proof.                        *)
(***************************************************************************)
ConstantsOK ==
    /\ None \notin Handler /\ None \notin Connection /\ None \notin Request /\ None \notin Challenge
    /\ None \notin {"OK", "REFUSED", "UNKNOWN"}
    /\ \A n \in Connection : KeyOf(n) \in Key
    /\ \A r \in Request : r.event \in Event
    /\ IsFiniteSet(Challenge)
    /\ ChallengeTTL \in Nat /\ MaxPending \in Nat /\ MaxTotalPending \in Nat
    /\ Lifetime \subseteq Nat /\ Limit \subseteq Nat
    /\ MaxTime \in Nat \ {0}

Fresh(c) == answers[c] = NoAnswer /\ \A e \in Event : events[e].proof # c

Admitted == Stages \ {"IDLE", "PUT", "TAKE"}

\* The stages that hold the writer's lock.
Locked == {"TRANSACTION", "SEALED"}

\* What the transaction has found and the lock keeps true until COMMIT.
Ready(me) ==
    IF Execution(me.request)
    THEN outcomes[me.request.event] = NoEvent /\ \A e \in EventsOf(me.request) : events[e] = NoEvent
    ELSE Recoverable(me)

\* What each stage of a request has made sure of.
RequestOK(me) ==
    /\ me.stage # "IDLE" => me.conn \in Connection /\ me.request \in Request
    /\ me.stage \notin {"IDLE", "PUT"} => me.challenge \in Challenge /\ me.proof \in Challenge
    /\ me.stage \notin Admitted => me.entry = NoEntry
    /\ me.stage \in Admitted =>
           /\ me.entry # NoEntry /\ me.entry = issued[me.challenge]
           /\ me.entry.conn = me.conn /\ me.entry.request = me.request
           /\ pending[me.challenge] = NoEntry /\ Fresh(me.challenge)
    /\ me.stage \in {"VERIFY", "WAIT", "TRANSACTION", "SEALED"} => Durable
    /\ me.stage \in {"ACCEPT", "LOAD", "CHECK", "COMMIT"} => ~Durable
    /\ me.stage \in {"WAIT", "TRANSACTION", "SEALED", "LOAD", "CHECK", "COMMIT"} => me.proof = me.challenge
    /\ me.stage \in {"TRANSACTION", "SEALED", "LOAD", "CHECK", "COMMIT"} =>
           me.expires <= me.entry.expires /\ me.expires <= proofs[me.proof]
    /\ me.stage \in {"SEALED", "COMMIT"} => me.now < me.expires /\ me.now <= clock
    /\ me.stage = "SEALED" => Ready(me)

HeldOnce ==
    \A g, h \in Handler :
        /\ handlers[g].stage \in Admitted /\ handlers[h].stage \in Admitted
        /\ handlers[g].challenge = handlers[h].challenge
        => g = h

LockIsHeld == \A h \in Handler : handlers[h].stage \in Locked => writer = h

ChallengeOK(c) ==
    /\ pending[c] # NoEntry => pending[c] = issued[c]
    /\ issued[c] = NoEntry \/ pending[c] # NoEntry => Fresh(c)
    /\ answers[c].code = "OK" => answers[c].response # NoEvent

SignedEvents == \A e \in Event : events[e] # NoEvent => proofs[events[e].proof] > 0

ExchangeInv ==
    /\ \A h \in Handler : RequestOK(handlers[h])
    /\ HeldOnce /\ LockIsHeld
    /\ \A c \in Challenge : ChallengeOK(c)
    /\ SignedEvents /\ OutcomeIsAtomic /\ AnswersAreTrue

IndInv == TypeOK /\ ExchangeInv /\ CountsAreExact /\ LimitsHold
=============================================================================
