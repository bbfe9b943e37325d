---------------------------- MODULE A2AOperation ----------------------------
(***************************************************************************)
(* The draft-06 exchange of examples/a2a-multiprocess: Agent A obtains a   *)
(* challenge on a TLS connection, has the Manager, the attester and the    *)
(* verifier sign for it and sends a bound message.  Agent B verifies it,   *)
(* accepts the operation in the journal of the replay service and executes *)
(* it once; a retry with a fresh challenge gets the recorded result.       *)
(*                                                                         *)
(* Agent B's handlers run concurrently; each call of the journal service   *)
(* is a step, and its answer may be lost on the way.  Agent B and the host *)
(* of the journal may die at any point.  A hash is what it is taken of,    *)
(* and the fractions of a second are left out.                             *)
(***************************************************************************)
EXTENDS OperationJournal, FiniteSets, TLC

CONSTANTS
    Handler,           \* the requests Agent B serves at a time
    Connection,        \* TLS connections of Agent A: name -> [peer, resumed, indirect]
    Message,           \* name -> [op, digest, task, target], Send Message requests
    Flaw,              \* what may be wrong with a bound request
    MaxNonces, MaxLosses, LastTick,     \* bounds
    ChallengeLife, GrantLife, ResultLife, CredentialEnd,
    Capacity           \* maxChallengesV2

VARIABLES
    challenges,        \* Agent B's live challenges: nonce -> record or None
    issued,            \* how many nonces were ever drawn
    offers,            \* the challenges Agent A has received
    calls,             \* Handler -> what it does
    executions,        \* Operation -> how often it was executed
    acceptances,       \* nonce -> how many handlers went on with it
    made, released,    \* [op, digest, outcome] produced, and answered to A
    losses

durable == <<journal, survivors>>
history == <<executions, acceptances, made, released>>
vars == <<durable, clock, challenges, issued, offers, calls, history, losses>>

Nonce == 1..MaxNonces
-----------------------------------------------------------------------------
(* The bound request, as Agent A issues it. *)

\* runManager's grant, for the one task of its policy.
Authorized == [scopes |-> {"read"}, resources |-> {"doc"}, details |-> {}]

DemoValues ==
    [f \in {"service", "tenant", "deployment", "environment", "workload", "agent", "agentKey", "computation",
            "task", "thread", "delegation", "intent", "capability", "ontology"} |->
        IF f \in {"tenant", "environment", "agentKey", "computation", "delegation", "ontology"} THEN None
        ELSE IF f = "agent" THEN "A" ELSE f]

Target == [resource |-> "doc", operation |-> "read"]

Token(key, profile, at, until) ==
    [form |-> "strict", alg |-> "ES256", kid |-> key, signer |-> key, issuer |-> key, audience |-> "B",
     id |-> profile, profile |-> profile, iat |-> at, exp |-> until]

ManagerGrant(at) ==
    Token("manager", "grant", at, at + GrantLife)
        @@ [subject |-> "A", confirmation |-> "A", endpointKeys |-> {}, values |-> DemoValues,
            sets |-> Authorized, target |-> Target]

\* canonicalRequestContextsV2: what the request asks, down to the message text.
Contexts(m) == <<Message[m].op, Message[m].digest, Message[m].task, Message[m].target>>

\* deriveAcceptedBindingV2At: the context covers the grant, the request, the nonce
\* and the attempt; the exporter the connection and the context; the binder the
\* endpoint's key and the exporter.
deriveAcceptedBinding(c, m, grant, nonce, attempt) ==
    LET context  == <<Contexts(m), grant.iat, nonce, attempt>>
        exporter == <<c, context>>
    IN  [role |-> "client", interaction |-> "a2a", endpoint |-> Connection[c].peer, exporter |-> exporter,
         context |-> context, binder |-> <<Connection[c].peer, exporter>>, nonce |-> nonce, attempt |-> attempt]

\* What Agent A signs for: the request as it was before a scenario changed it.
Binding(q) == deriveAcceptedBinding(q.conn, q.signed, ManagerGrant(q.at), q.nonce, q.nonce)

\* The claims of the proof, with what a scenario of runAgentAV2 spoils.
Claims(q) ==
    CASE q.flaw = "role" -> [Binding(q) EXCEPT !.role = "server"]
      [] q.flaw = "interaction" -> [Binding(q) EXCEPT !.interaction = "other"]
      [] q.flaw = "exporter" -> [Binding(q) EXCEPT !.exporter = None]
      [] q.flaw = "binder" -> [Binding(q) EXCEPT !.binder = None]
      [] OTHER -> Binding(q)

SessionProof(q) ==
    Token("A", "proof v2", q.at, q.exp)
        @@ [grant |-> IF q.flaw = "grant" THEN None ELSE ManagerGrant(q.at)] @@ Claims(q)

\* collectEvidence puts the binder into the report, appraiseEvidence checks it and
\* the measurement, and runVerifier signs what it found about the agent.
AttestationResult(q) ==
    [subject |-> "A", audience |-> "B", binder |-> Binding(q).binder,
     measurement |-> IF q.flaw = "measurement" THEN "other" ELSE "expected",
     iat |-> q.at, exp |-> q.at + ResultLife]
-----------------------------------------------------------------------------
(* Agent B's challenges. *)

Live == {n \in Nonce : challenges[n] # None}

\* pruneLocked
PrunedChallenges == [n \in Nonce |-> IF n \in Live /\ clock >= challenges[n].expires THEN None ELSE challenges[n]]

\* validateTLSSessionAtV2 and rejectTransportIndirectionV2
DirectSession(c) == ~Connection[c].resumed /\ ~Connection[c].indirect /\ clock <= CredentialEnd

\* handleChallenge and issueForBindingV2; Agent A need not use the answer.
Challenge(c) ==
    /\ DirectSession(c) /\ issued < MaxNonces
    /\ Cardinality({n \in Nonce : PrunedChallenges[n] # None}) < Capacity
    /\ issued' = issued + 1
    /\ challenges' = [PrunedChallenges EXCEPT ![issued + 1] =
                         [conn |-> c, attempt |-> issued + 1, expires |-> clock + ChallengeLife, state |-> "issued"]]
    /\ offers' = offers \cup {[nonce |-> issued + 1, conn |-> c, at |-> clock, exp |-> clock + ChallengeLife]}
    /\ UNCHANGED <<durable, clock, calls, history, losses>>

\* A challenge that belongs to this connection's attempt, begun at most once.
MayBegin(n, q) ==
    /\ challenges[n] # None /\ challenges[n].state = "issued" /\ clock < challenges[n].expires
    /\ challenges[n].attempt = q.nonce /\ challenges[n].conn = q.conn

Release(n) ==
    IF challenges[n] # None /\ challenges[n].state = "in flight"
    THEN [challenges EXCEPT ![n].state = "issued"] ELSE challenges
-----------------------------------------------------------------------------
(* Verification: pkg/clients decides, on what Agent B derived itself. *)

Trusted(key) ==
    [issuer |-> key, audience |-> "B", methods |-> {"ES256"}, keys |-> {key}, disabled |-> {}, revoked |-> {},
     skew |-> 0]

ReceiverPolicy ==
    [mode |-> "required", require |-> 3..7, isolated |-> FALSE, expected |-> DemoValues, target |-> Target,
     sets |-> Authorized, setMode |-> "exact"]

Identity == INSTANCE SessionIdentity WITH
    Verifier <- {}, Presentation <- <<>>, Version <- 2, Cache <- "memory", GrantOptions <- Trusted("manager"),
    ProofOptions <- Trusted("A"), Policy <- ReceiverPolicy, MaxFaults <- 0,
    seen <- {}, file <- {}, calls <- <<>>, faults <- 0

Expected(q) == deriveAcceptedBinding(q.conn, q.message, ManagerGrant(q.at), q.nonce, q.nonce)

\* expires is the expiry of the challenge that the handler has begun.
Presented(q, expires) ==
    [grant |-> ManagerGrant(q.at), proof |-> SessionProof(q), expected |-> Expected(q),
     fresh |-> [challenge |-> expires, optional |-> {},
                required |-> {CredentialEnd, expires, clock + ChallengeLife}],
     attestation |-> AttestationResult(q)]

\* validateSBOV2, on the wrapper that repeats the binding.
validateSBO(q, expires) == clock < q.exp /\ q.at < q.exp /\ q.exp = expires /\ Binding(q) = Expected(q)

\* The AttestationVerifier of handleMessage and validateAttestationPolicyV2.
AttestationPolicy(q) ==
    /\ AttestationResult(q).measurement = "expected"
    /\ AttestationResult(q).exp > clock
    /\ Message[q.message].target = Target

Verifies(q, expires) ==
    /\ Identity!VerifyIdentityGrantJWTV2(ManagerGrant(q.at), clock)
    /\ validateSBO(q, expires)
    /\ clock < CredentialEnd
    /\ Identity!AcceptableV2(Presented(q, expires), clock)
    /\ AttestationPolicy(q)
-----------------------------------------------------------------------------
(* Agent B's handleMessage. *)

\* "until" is the accepted expiry, "outcome" what the execution produced.
Idle == [at |-> "IDLE", q |-> None, expires |-> 0, until |-> 0, outcome |-> None]

Goto(h, where) == calls' = [calls EXCEPT ![h].at = where]
End(h) == calls' = [calls EXCEPT ![h] = Idle]
Fail(h) == End(h) /\ challenges' = Release(calls[h].q.nonce)

Op(h) == Message[calls[h].q.message].op
DigestOf(h) == Message[calls[h].q.message].digest

\* decodeStrictA2ARequestV2 and the message policy.
WellFormed(q) == q.flaw # "result" /\ Message[q.message].task = "task"

\* Agent A issues a bound request as soon as it has the challenge, and sends it, now
\* or later, once or again, on the connection that has the
\* challenge or, borrowing it, on another; the message may differ from the one it
\* signed for.  A request that fails before "begin" changes nothing.
Send(h, c, offer, signed, message, flaw) ==
    LET q == [conn |-> c, nonce |-> offer.nonce, exp |-> offer.exp, at |-> offer.at, signed |-> signed,
              message |-> message, flaw |-> flaw]
    IN  /\ calls[h] = Idle
        /\ clock < offer.exp
        /\ DirectSession(c) /\ WellFormed(q) /\ MayBegin(q.nonce, q)
        /\ challenges' = [challenges EXCEPT ![q.nonce].state = "in flight"]
        /\ calls' = [calls EXCEPT ![h] = [Idle EXCEPT !.at = "VERIFY", !.q = q,
                                                     !.expires = challenges[q.nonce].expires]]
        /\ UNCHANGED <<durable, clock, issued, offers, history, losses>>

Verify(h) ==
    LET call == calls[h]
    IN  /\ call.at = "VERIFY"
        /\ IF DirectSession(call.q.conn) /\ Verifies(call.q, call.expires)
           THEN /\ calls' = [calls EXCEPT ![h].at = "ACCEPT",
                               ![h].until = Identity!earliestAcceptedExpiryV2(Presented(call.q, call.expires))]
                /\ UNCHANGED challenges
           ELSE Fail(h)
        /\ UNCHANGED <<durable, clock, issued, offers, history, losses>>
-----------------------------------------------------------------------------
(* The operation journal behind HTTP, and executeOnce. *)

\* How a call of the service goes: as the journal's own, or its answer is LOST.
Passage == Fate \cup {"LOST"}

Post(effect, p) ==
    /\ persist(effect, IF p = "LOST" THEN "SYNCED" ELSE p)
    /\ losses' = IF p = "SYNCED" THEN losses ELSE losses + 1
    /\ losses' <= MaxLosses

Reply(effect, p) == Answer(effect, IF p = "LOST" THEN "FAILED" ELSE p)

InTime(h) == clock < calls[h].until

\* CommitPreparedAssertionV2 looks at the clock, then MarkUsed reserves nonce and
\* operation together.  After an error the challenge is released, whether or not
\* the reservation was made.
Reserved(h, p) ==
    LET effect == ReserveAcceptance(journal, calls[h].q.nonce, calls[h].expires, Op(h), DigestOf(h))
    IN  /\ calls[h].at = "ACCEPT"
        /\ IF InTime(h)
           THEN /\ Post(effect, p)
                /\ IF Reply(effect, p).error = "OK" THEN Goto(h, "ACCEPTED") /\ UNCHANGED challenges
                   ELSE Fail(h)
           ELSE p = "SYNCED" /\ Fail(h) /\ UNCHANGED <<durable, losses>>
        /\ UNCHANGED <<clock, issued, offers, history>>

\* Is the challenge still there to be consumed?
MayConsume(n) == challenges[n] # None /\ challenges[n].state = "in flight"

\* CommitPreparedAssertionV2 looks at the clock again, and the challenge is consumed.
Consume(h) ==
    LET n == calls[h].q.nonce
    IN  /\ calls[h].at = "ACCEPTED"
        /\ IF InTime(h) /\ MayConsume(n)
           THEN /\ Goto(h, "START")
                /\ challenges' = [challenges EXCEPT ![n].state = "consumed"]
                /\ acceptances' = [acceptances EXCEPT ![n] = @ + 1]
           ELSE Fail(h) /\ UNCHANGED acceptances
        /\ UNCHANGED <<durable, clock, issued, offers, executions, made, released, losses>>

\* The service looks the record up when it is not to be started.
RunningEffect(h) ==
    LET effect == MarkRunning(journal, Op(h), DigestOf(h))
    IN  IF effect.error = "TRANSITION" THEN Lookup(journal, Op(h), DigestOf(h)) ELSE effect

\* executeOnce.  Only who started the operation executes it; a retry of one that succeeded gets
\* the recorded result.
AfterMark(answer) ==
    CASE answer.error # "OK" -> "IDLE"
      [] answer.fresh -> "STARTED"
      [] answer.record.state = "SUCCEEDED" -> "RECOVER"
      [] OTHER -> "IDLE"

Start(h, p) ==
    /\ calls[h].at = "START"
    /\ IF InTime(h)
       THEN /\ Post(RunningEffect(h), p)
            /\ LET next == AfterMark(Reply(RunningEffect(h), p))
               IN  IF next = "IDLE" THEN End(h) ELSE Goto(h, next)
       ELSE p = "SYNCED" /\ End(h) /\ UNCHANGED <<durable, losses>>
    /\ UNCHANGED <<clock, challenges, issued, offers, history>>

\* The look at the clock between the start and the execution.
Execute(h) ==
    /\ calls[h].at = "STARTED"
    /\ IF InTime(h)
       THEN Goto(h, "EXECUTING") /\ executions' = [executions EXCEPT ![Op(h)] = @ + 1]
       ELSE Goto(h, "CANCEL") /\ UNCHANGED executions
    /\ UNCHANGED <<durable, clock, challenges, issued, offers, acceptances, made, released, losses>>

\* The generator returns a text or fails, and the result is sealed.
Executed(h) ==
    /\ calls[h].at = "EXECUTING"
    /\ \/ \E x \in Outcome :
             /\ calls' = [calls EXCEPT ![h].at = "COMPLETE", ![h].outcome = x]
             /\ made' = made \cup {[op |-> Op(h), digest |-> DigestOf(h), outcome |-> x]}
       \/ Goto(h, "DOUBT") /\ UNCHANGED made
    /\ UNCHANGED <<durable, clock, challenges, issued, offers, executions, acceptances, released, losses>>

\* seal: the result is bound to the operation, the request and the outcome.
seal(h) == [op |-> Op(h), digest |-> DigestOf(h), outcome |-> calls[h].outcome]

\* writeOperationResultV2
Answered(h, result) == released' = released \cup {result} /\ End(h)

Refused(h) == End(h) /\ UNCHANGED released

\* An unconfirmed result is not released.
Complete(h, p) ==
    LET effect == FinalizeWithResult(journal, Op(h), DigestOf(h), seal(h))
    IN  /\ calls[h].at = "COMPLETE"
        /\ Post(effect, p)
        /\ IF Reply(effect, p).error = "OK" THEN Answered(h, seal(h)) ELSE Refused(h)
        /\ UNCHANGED <<clock, challenges, issued, offers, executions, acceptances, made>>

\* open: the sealed result matches the record that was looked up.
Opens(sealed, record) == sealed.digest = record.digest /\ sealed.outcome = record.outcome

Recover(h, p) ==
    LET effect == LookupResult(journal, Op(h), DigestOf(h))
        sealed == journal.results[Op(h)]
        reply  == Reply(effect, p)
    IN  /\ calls[h].at = "RECOVER"
        /\ Post(effect, p)
        /\ IF reply.error = "OK" /\ Opens(sealed, reply.record) THEN Answered(h, sealed) ELSE Refused(h)
        /\ UNCHANGED <<clock, challenges, issued, offers, executions, acceptances, made>>

\* An expired or failed operation is recorded as such; the answer is an error.
Conclude(h, p) ==
    /\ calls[h].at \in {"CANCEL", "DOUBT"}
    /\ Post(IF calls[h].at = "CANCEL" THEN Finalize(journal, Op(h), DigestOf(h), "CANCELED", None)
            ELSE MarkIndeterminate(journal, Op(h), DigestOf(h)), p)
    /\ End(h)
    /\ UNCHANGED <<clock, challenges, issued, offers, history>>
\* Agent B's process dies, and with it the connections and challenges.
Crash ==
    /\ losses < MaxLosses /\ losses' = losses + 1
    /\ challenges' = [n \in Nonce |-> None] /\ offers' = {}
    /\ calls' = [h \in Handler |-> Idle]
    /\ UNCHANGED <<durable, clock, issued, history>>

\* The host of the journal loses power; calls in flight get no answer.
PowerLoss ==
    /\ losses < MaxLosses /\ losses' = losses + 1
    /\ LosePower
    /\ UNCHANGED <<clock, challenges, issued, offers, calls, history>>

Tick ==
    /\ clock < LastTick /\ clock' = clock + 1
    /\ UNCHANGED <<durable, challenges, issued, offers, calls, history, losses>>

Init ==
    /\ JournalInit /\ losses = 0
    /\ challenges = [n \in Nonce |-> None] /\ issued = 0 /\ offers = {}
    /\ calls = [h \in Handler |-> Idle]
    /\ executions = [o \in Operation |-> 0] /\ acceptances = [n \in Nonce |-> 0]
    /\ made = {} /\ released = {}

\* What Agent A sends: the honest request, and one of each scenario.
Attempt(h) ==
    \E offer \in offers, c \in DOMAIN Connection, signed, message \in DOMAIN Message, flaw \in Flaw :
        /\ flaw = "borrowed" <=> c # offer.conn
        /\ flaw = "substituted" <=> message # signed
        /\ Send(h, c, offer, signed, message, flaw)

Serve(h) ==
    \/ Attempt(h) \/ Verify(h) \/ Consume(h) \/ Execute(h) \/ Executed(h)
    \/ \E p \in Passage : Reserved(h, p) \/ Start(h, p) \/ Complete(h, p) \/ Recover(h, p) \/ Conclude(h, p)

Next ==
    \/ \E c \in DOMAIN Connection : Challenge(c)
    \/ \E h \in Handler : Serve(h)
    \/ Crash \/ PowerLoss \/ Tick

Spec == Init /\ [][Next]_vars
-----------------------------------------------------------------------------
(* Properties. *)

TypeOK ==
    /\ JournalTypeOK /\ clock \in 1..LastTick /\ losses \in 0..MaxLosses /\ issued \in 0..MaxNonces
    /\ \A n \in Live : challenges[n].state \in {"issued", "in flight", "consumed"}
    /\ made \subseteq Sealed /\ released \subseteq made

\* An operation is executed at most once, however often Agent A asks for it, with
\* one challenge or with fresh ones, and whatever answers are lost.
ExecutedOnce == \A o \in Operation : executions[o] <= 1

\* A nonce lets one request through, even when a lost answer put its challenge back
\* among those that may be begun.
NonceAdmitsOne == \A n \in Nonce : acceptances[n] <= 1

\* Agent A is never given a result that another request's execution produced, or
\* two different ones; and while the journal has the operation as succeeded, that
\* is its result.
ReleasedIsRecorded ==
    \A r \in released :
        /\ r \in made
        /\ \A s \in released : s.op = r.op => s = r
        /\ journal.records[r.op].digest = r.digest
        /\ journal.records[r.op].state = "SUCCEEDED" => journal.results[r.op] = r

\* What executes was accepted for the connection it came by, in the lifetime of its
\* challenge, as the Manager granted and the verifier appraised it.
ExecutingIsAuthorized ==
    \A h \in Handler :
        calls[h].at = "STARTED" =>
            LET q == calls[h].q
            IN  /\ q.flaw = "none" /\ q.message = q.signed
                /\ [nonce |-> q.nonce, conn |-> q.conn, at |-> q.at, exp |-> q.exp] \in offers
                /\ calls[h].until <= q.exp /\ acceptances[q.nonce] = 1
=============================================================================
