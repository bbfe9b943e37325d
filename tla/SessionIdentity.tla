-------------------------- MODULE SessionIdentity --------------------------
(***************************************************************************)
(* Accepting an agent's identity for one TLS session: pkg/clients          *)
(* (VerifySessionIdentityJWT and its V2) over pkg/atls/identitypolicy.     *)
(*                                                                         *)
(* An authority's grant names the agent, what it may do and the key it     *)
(* proves itself with.  A session proof, signed with that key, names the   *)
(* grant and the session.  The verifier compares both with what it expects *)
(* locally and, last, spends the proof in a replay cache: in memory, in a  *)
(* directory of marker files, or in a SETNX store behind HTTP whose state  *)
(* is one file.                                                            *)
(*                                                                         *)
(* Tokens are records.  The hash of a grant is the grant.  "form" tells    *)
(* the strict encoding of the V2 profile, one only the V1 parser takes,    *)
(* and one none takes.  A time is in half-seconds, so that a clock may     *)
(* stand between the whole seconds of the SETNX store; 0 is a time left    *)
(* out, and every clock reading is later.                                  *)
(***************************************************************************)
EXTENDS Naturals, FiniteSets

CONSTANTS
    Verifier,          \* calls, each verifying one presentation
    Presentation,      \* name -> [grant, proof, expected, fresh, attestation]
    Version,           \* 1 or 2, the profile
    Cache,             \* "memory", "directory" or "setnx"
    GrantOptions, ProofOptions, \* JWTVerifyOptions: [issuer, audience, methods,
                       \* keys, disabled, revoked, skew]
    Policy,            \* [mode, require, isolated, expected, target, sets, setMode]
    None,
    MaxTime, MaxFaults \* bounds

VARIABLES
    clock,
    seen,              \* the cache: the keys it holds, each with an expiry
    file,              \* what the SETNX store has persisted
    calls,             \* Verifier -> the call
    faults

vars == <<clock, seen, file, calls, faults>>

Second == 2
-----------------------------------------------------------------------------
(* The tokens: parseBindingJWT and the two profiles. *)

\* ValidateJWTVerifyOptions: a usable local policy for a token.
ValidOptions(o) ==
    /\ o.keys # {} /\ o.methods # {} /\ "none" \notin o.methods
    /\ o.issuer # None /\ o.audience # None

\* The key the protected header names, unless it is disabled.
UsableKey(t, o) == t.kid # None /\ t.kid \in o.keys \ o.disabled

\* The parser of the JWT library: signature, issuer, audience and times, with the
\* clock skew as leeway.
LibraryAccepts(t, o, now) ==
    /\ t.alg \in o.methods /\ t.signer = t.kid
    /\ t.issuer = o.issuer /\ t.audience = o.audience
    /\ t.exp # 0 /\ now < t.exp + o.skew
    /\ t.iat # 0 => t.iat <= now + o.skew

parseBindingJWT(t, o, now) ==
    /\ t.form # "malformed"
    /\ ValidOptions(o)
    /\ UsableKey(t, o)
    /\ LibraryAccepts(t, o, now)
    /\ t.id \notin o.revoked

\* V1 takes the profile's own name and the legacy one.
requireProfile(t, type) ==
    t.profile \in {type, IF type = "grant" THEN "legacy grant" ELSE "legacy proof"}

\* V2: the exact header and members, and canonical encodings.
validateJWTV2Wire(t) == t.form = "strict"

Present(t, fields) == \A f \in fields : t[f] # None

VerifyIdentityGrantJWT(g, now) ==
    /\ parseBindingJWT(g, GrantOptions, now)
    /\ requireProfile(g, "grant")
    /\ Present(g, {"id", "subject", "confirmation"})

VerifySessionBindingJWT(p, now) ==
    /\ parseBindingJWT(p, ProofOptions, now)
    /\ requireProfile(p, "proof")
    /\ Present(p, {"id", "grant", "endpoint", "exporter", "context", "nonce"})

VerifyIdentityGrantJWTV2(g, now) ==
    /\ validateJWTV2Wire(g)
    /\ parseBindingJWT(g, GrantOptions, now)
    /\ g.profile = "grant"
    /\ Present(g, {"id", "subject", "confirmation"}) /\ g.iat # 0
    /\ g.target.resource # None /\ g.target.operation # None

VerifySessionBindingJWTV2(p, now) ==
    /\ validateJWTV2Wire(p)
    /\ parseBindingJWT(p, ProofOptions, now)
    /\ p.profile = "proof v2"
    /\ p.iat # 0
    /\ Present(p, {"id", "grant", "role", "interaction", "endpoint", "exporter", "context", "nonce"})

\* The agent a grant is for: its own claim, or the subject.
AgentOf(g) == IF g.values["agent"] = None THEN g.subject ELSE g.values["agent"]

Observed(g) == [g.values EXCEPT !["agent"] = AgentOf(g)]
-----------------------------------------------------------------------------
(* The proof speaks for the grant. *)

\* hasBindingKey and allowsBindingKey: V1 also takes the keys of the agent and of
\* its endpoints.
allowsBindingKey(g, key) ==
    key # None /\ key \in {g.confirmation, g.values["agentKey"]} \cup g.endpointKeys

\* validateGrantLifetime and validateStatementBinding: in V1 the last instant is
\* still good.
Lasts(t, now) == t.exp # 0 /\ now <= t.exp /\ (t.iat # 0 => t.iat <= now)

\* validateGrantLifetimeV2 and validateBindingLifetimeV2
LastsV2(t, now) == t.iat # 0 /\ t.iat < t.exp /\ t.iat <= now /\ now < t.exp

ValidateSessionBindingStatement(g, p, now) ==
    /\ p.grant = g /\ p.audience = g.audience
    /\ allowsBindingKey(g, p.kid) /\ p.kid # g.kid
    /\ Lasts(g, now) /\ Lasts(p, now)

ValidateSessionBindingStatementV2(g, p, now) ==
    /\ p.grant = g /\ p.audience = g.audience
    /\ g.confirmation # None /\ p.kid = g.confirmation /\ p.kid # g.kid
    /\ LastsV2(g, now) /\ LastsV2(p, now)
    /\ p.exp <= g.exp
-----------------------------------------------------------------------------
(* The session and the local policy. *)

\* validateBinding compares what is expected, and something must be.
validateBinding(p, expected, now) ==
    LET fields == {f \in {"endpoint", "exporter", "context", "binder", "nonce"} : expected[f] # None}
    IN  fields # {} /\ (\A f \in fields : p[f] = expected[f]) /\ Lasts(p, now)

\* V2 compares all, and what is not expected must be absent.
ValidateAcceptedBindingV2(p, expected, now) ==
    /\ \A f \in {"role", "interaction", "endpoint", "exporter", "context", "nonce"} :
           expected[f] # None /\ p[f] = expected[f]
    /\ \A f \in {"binder", "attempt"} : p[f] = expected[f]
    /\ LastsV2(p, now)

Service == {"service", "tenant", "deployment", "environment"}
Workload == {"workload", "agent", "agentKey"}
Interaction == {"computation", "task", "thread", "delegation", "intent"}
Reference == {"capability", "ontology"}
AuthorizationSet == {"scopes", "resources", "details"}

\* validateExactLayer: a required layer expects something, and gets it.
validateExactLayer(fields, expected, observed) ==
    /\ \E f \in fields : expected[f] # None
    /\ \A f \in fields : expected[f] # None => observed[f] = expected[f]

requireExactSet(expected, observed) == expected = observed

requireContainsAll(expected, observed) == expected \subseteq observed

\* validateSet: exact unless the policy says otherwise.
validateSet(expected, observed) ==
    IF Policy.setMode = "contains" THEN requireContainsAll(expected, observed) ELSE requireExactSet(expected, observed)

\* validateAuthorizationV2: the references and the sets the policy names.
validateAuthorization(g) ==
    /\ \/ \E f \in Reference : Policy.expected[f] # None
       \/ \E s \in AuthorizationSet : Policy.sets[s] # {}
    /\ \A f \in Reference : Policy.expected[f] # None => g.values[f] = Policy.expected[f]
    /\ \A s \in AuthorizationSet : Policy.sets[s] # {} => validateSet(Policy.sets[s], g.sets[s])

\* V1 has the same as its layer 6.
validateL6(g) == validateAuthorization(g)

\* The target of D6, V2's own layer.
validateTargetV2(g) ==
    /\ \E f \in {"resource", "operation"} : Policy.target[f] # None
    /\ \A f \in {"resource", "operation"} : Policy.target[f] # None => g.target[f] = Policy.target[f]

\* No V2 input proves that a key was created in isolation: a policy that requires
\* it accepts nothing.
Enabled == Policy.mode = "required" \/ (Policy.mode = "default" /\ (Policy.require # {} \/ Policy.isolated))

\* Validate; the layers of V1 are numbered from 3 to 6.
Validate(g) ==
    /\ Policy.require # {}
    /\ 3 \in Policy.require => validateExactLayer(Service, Policy.expected, Observed(g))
    /\ 4 \in Policy.require => validateExactLayer(Workload, Policy.expected, Observed(g))
    /\ 5 \in Policy.require => validateExactLayer(Interaction, Policy.expected, Observed(g))
    /\ 6 \in Policy.require => validateL6(g)

\* ValidateAssertionV2, D3 to D7, after the binding.
ValidateAssertionV2(g) ==
    /\ Policy.require # {} /\ ~Policy.isolated
    /\ 3 \in Policy.require => validateExactLayer(Service, Policy.expected, Observed(g))
    /\ 4 \in Policy.require => validateExactLayer(Workload, Policy.expected, Observed(g))
    /\ 5 \in Policy.require => validateExactLayer(Interaction, Policy.expected, Observed(g))
    /\ 6 \in Policy.require => validateTargetV2(g)
    /\ 7 \in Policy.require => validateAuthorization(g)

\* validateAcceptanceIdentityV2: there is an accepted Actor and interaction.
validateAcceptanceIdentityV2 == {4, 5} \subseteq Policy.require /\ Policy.expected["agent"] # None

\* acceptedAttestationResultV2, and the selection in VerifySessionIdentityJWTV2: a
\* result exactly when a binder is expected, about this agent and this binder.
AttestationHolds(q, now) ==
    IF q.expected.binder = None THEN q.attestation = None
    ELSE /\ q.attestation # None
         /\ q.attestation.subject = AgentOf(q.grant)
         /\ q.attestation.audience = q.grant.audience
         /\ q.attestation.binder = q.proof.binder
         /\ LastsV2(q.attestation, now)

\* The bounds of earliestAcceptedExpiryV2.  "fresh" has the expiries of the
\* endpoint's credential, the challenge and the policy, and optional ones.
Bounds(q) ==
    {q.grant.exp, q.proof.exp} \cup q.fresh.required \cup q.fresh.optional
        \cup (IF q.attestation = None THEN {} ELSE {q.attestation.exp})

Least(s) == CHOOSE t \in s : \A u \in s : t <= u
Latest(s) == CHOOSE t \in s : \A u \in s : t >= u

earliestAcceptedExpiryV2(q) == Least(Bounds(q))

\* validateFreshnessInputsV2
Fresh(q, now) == \A t \in Bounds(q) : now < t
-----------------------------------------------------------------------------
(* The whole verification, at one reading of the clock. *)

AcceptableV1(q, now) ==
    /\ Enabled
    /\ VerifyIdentityGrantJWT(q.grant, now)
    /\ VerifySessionBindingJWT(q.proof, now)
    /\ ValidateSessionBindingStatement(q.grant, q.proof, now)
    /\ validateBinding(q.proof, q.expected, now)
    /\ Validate(q.grant)

\* VerifySessionIdentityJWTV2 up to the end of PrepareAssertionV2.
AcceptableV2(q, now) ==
    /\ Enabled
    /\ VerifyIdentityGrantJWTV2(q.grant, now)
    /\ VerifySessionBindingJWTV2(q.proof, now)
    /\ ValidateSessionBindingStatementV2(q.grant, q.proof, now)
    /\ ValidateAcceptedBindingV2(q.proof, q.expected, now)
    /\ ValidateAssertionV2(q.grant)
    /\ validateAcceptanceIdentityV2
    /\ AttestationHolds(q, now)
    /\ Fresh(q, now)

Acceptable(q, now) == IF Version = 1 THEN AcceptableV1(q, now) ELSE AcceptableV2(q, now)

\* replayNonceKeyV2: the audience and the nonce, so that nothing else in a proof
\* makes a nonce good again.
replayNonceKeyV2(q) == <<q.grant.audience, q.expected.nonce>>

\* The key of MarkSessionBindingUsed.
sessionReplayKey(q) == <<q.grant, q.proof.audience, q.proof.exporter, q.proof.context, q.proof.nonce>>

Key(q) == IF Version = 1 THEN sessionReplayKey(q) ELSE replayNonceKeyV2(q)

\* How long the key must be kept: in V2 as long as the proof or its challenge.
RetainUntil(q) == IF Version = 1 THEN q.proof.exp ELSE Latest({q.proof.exp, q.fresh.challenge})

\* What the application is given is the policy's, of the layers required.
acceptedValuesV2 ==
    [f \in Service \cup Workload \cup Interaction |->
        IF \/ 3 \in Policy.require /\ f \in Service
           \/ 4 \in Policy.require /\ f \in Workload
           \/ 5 \in Policy.require /\ f \in Interaction
        THEN Policy.expected[f] ELSE None]

EffectiveAuthorization ==
    [s \in AuthorizationSet |-> IF 7 \in Policy.require THEN Policy.sets[s] ELSE {}]
-----------------------------------------------------------------------------
(* The replay caches. *)

Held == {e.key : e \in seen}

Entry(k, until) == [key |-> k, until |-> until]

\* MemoryReplayCache forgets an entry after its expiry, by the caller's reading.
MemoryPruned(now) == {e \in seen : now <= e.until}

\* The store counts whole seconds: Unix() cuts the rest off.
Unix(t) == t \div Second

StorePruned(now) == {e \in seen : e.until > Unix(now)}

\* httpSetNXStore sends whole seconds, rounded up.
TTLSeconds(ttl) == (ttl + Second - 1) \div Second

\* The state of a call.  "now" is the reading it has the cache use,
\* and "ttl" the seconds it asks the store for; "at" the time of its acceptance.
Idle == [phase |-> "idle", q |-> None, now |-> 0, ttl |-> 0, at |-> 0]

\* What the call v was given.
Given(v) == Presentation[calls[v].q]

Move(v, call) == calls' = [calls EXCEPT ![v] = call]

Refused == [Idle EXCEPT !.phase = "refused"]

Refuse(v) == Move(v, Refused)

\* VerifySessionIdentityJWT: all is verified before the cache is asked.
Begin(v, q) ==
    /\ calls[v].phase = "idle"
    /\ IF Acceptable(Presentation[q], clock)
       THEN Move(v, [Idle EXCEPT !.phase = IF Version = 1 THEN "verified" ELSE "prepared", !.q = q])
       ELSE Refuse(v)
    /\ UNCHANGED <<clock, seen, file, faults>>

\* validatePreparedCommitTimeV2: V2 looks at the clock before and after the store.
InTime(v) == clock < earliestAcceptedExpiryV2(Given(v))

CommitPrepared(v) ==
    /\ calls[v].phase = "prepared"
    /\ IF InTime(v) THEN Move(v, [calls[v] EXCEPT !.phase = "verified"]) ELSE Refuse(v)
    /\ UNCHANGED <<clock, seen, file, faults>>

\* MarkUsed reads the cache's clock before it takes the lock or calls the store.
ReadClock(v) ==
    /\ calls[v].phase = "verified"
    /\ LET until == RetainUntil(Given(v))
           live  == CASE Cache = "memory" -> clock <= until
                      [] Cache = "setnx" -> clock < until
                      [] OTHER -> TRUE
       IN  IF live THEN Move(v, [calls[v] EXCEPT !.phase = "marking", !.now = clock,
                                                 !.ttl = IF Cache = "setnx" THEN TTLSeconds(until - clock) ELSE 0])
           ELSE Refuse(v)
    /\ UNCHANGED <<clock, seen, file, faults>>

Accept(v) == Move(v, [Idle EXCEPT !.phase = "accepted", !.q = calls[v].q, !.at = clock])

\* The key is spent.  V1 accepts at once.
Marked(v) == IF Version = 1 THEN Accept(v) ELSE Move(v, [calls[v] EXCEPT !.phase = "marked"])

MarkInMemory(v) ==
    /\ calls[v].phase = "marking" /\ Cache = "memory"
    /\ LET kept == MemoryPruned(calls[v].now)
           key  == Key(Given(v))
       IN  IF key \in {e.key : e \in kept} THEN seen' = kept /\ Refuse(v)
           ELSE seen' = kept \cup {Entry(key, RetainUntil(Given(v)))} /\ Marked(v)
    /\ UNCHANGED <<clock, file, faults>>

\* DirectoryReplayCache creates the marker exclusively...
CreateMarker(v) ==
    /\ calls[v].phase = "marking" /\ Cache = "directory"
    /\ IF Key(Given(v)) \in Held THEN UNCHANGED seen /\ Refuse(v)
       ELSE /\ seen' = seen \cup {Entry(Key(Given(v)), RetainUntil(Given(v)))}
            /\ Move(v, [calls[v] EXCEPT !.phase = "syncing"])
    /\ UNCHANGED <<clock, file, faults>>

\* ... and removes it again when it cannot be written and synced.
SyncMarker(v) ==
    /\ calls[v].phase = "syncing"
    /\ \/ Marked(v) /\ UNCHANGED <<seen, faults>>
       \/ /\ faults < MaxFaults /\ faults' = faults + 1
          /\ seen' = {e \in seen : e.key # Key(Given(v))}
          /\ Refuse(v)
    /\ UNCHANGED <<clock, file>>

\* The expiry the store gives a key: its own clock and the TTL it was sent.
StoreUntil(v) == Unix(clock + calls[v].ttl * Second)

\* durableReplayStore.SetNX, and its answer on the way back.  persist fails before
\* the rename or after it; either way the key leaves the store's memory.
SetNX(v) ==
    /\ calls[v].phase = "marking" /\ Cache = "setnx"
    /\ LET kept  == StorePruned(clock)
           key   == Key(Given(v))
           added == kept \cup {Entry(key, StoreUntil(v))}
       IN  IF key \in {e.key : e \in kept} THEN seen' = kept /\ UNCHANGED <<file, faults>> /\ Refuse(v)
           ELSE \/ seen' = added /\ file' = added /\ UNCHANGED faults /\ Marked(v)
                \/ /\ faults < MaxFaults /\ faults' = faults + 1
                   /\ \/ seen' = kept /\ file' \in {file, added}
                      \/ seen' = added /\ file' = added
                   /\ Refuse(v)
    /\ UNCHANGED clock

\* Mutation: V2 does not look at the clock again after the store answered.
FinishUnseen(v) ==
    /\ calls[v].phase = "marked"
    /\ Accept(v)
    /\ UNCHANGED <<clock, seen, file, faults>>

\* CommitPreparedAssertionV2, after the store: the nonce stays spent either way.
Finish(v) ==
    /\ calls[v].phase = "marked"
    /\ IF InTime(v) THEN Accept(v) ELSE Refuse(v)
    /\ UNCHANGED <<clock, seen, file, faults>>

\* The process that keeps the cache restarts: openDurableReplayStore reads the
\* file; a directory is as it was.  Calls in flight are lost with their process.
Restart ==
    /\ Cache # "memory" /\ faults < MaxFaults /\ faults' = faults + 1
    /\ seen' = IF Cache = "setnx" THEN file ELSE seen
    /\ calls' = [v \in Verifier |-> IF calls[v].phase \in {"idle", "accepted"} THEN calls[v] ELSE Refused]
    /\ UNCHANGED <<clock, file>>

Tick == clock < MaxTime /\ clock' = clock + 1 /\ UNCHANGED <<seen, file, calls, faults>>

Init ==
    /\ clock = 1 /\ seen = {} /\ file = {} /\ faults = 0
    /\ calls = [v \in Verifier |-> Idle]

Next ==
    \/ \E v \in Verifier :
          \/ \E q \in DOMAIN Presentation : Begin(v, q)
          \/ CommitPrepared(v) \/ ReadClock(v) \/ MarkInMemory(v) \/ CreateMarker(v) \/ SyncMarker(v)
          \/ SetNX(v) \/ Finish(v)
    \/ Restart
    \/ Tick

Spec == Init /\ [][Next]_vars
-----------------------------------------------------------------------------
(* Properties. *)

Phase == {"idle", "refused", "prepared", "verified", "marking", "syncing", "marked", "accepted"}

TypeOK ==
    /\ clock \in 1..MaxTime /\ faults \in 0..MaxFaults
    /\ \A e \in seen \cup file : e.until \in 0..(2 * MaxTime)
    /\ \A v \in Verifier : calls[v].phase \in Phase /\ calls[v].at \in 0..MaxTime

AcceptedCalls == {v \in Verifier : calls[v].phase = "accepted"}

\* A proof is good once, in every profile and with every cache, however calls
\* interleave, the clock passes the expiry between two looks, the cache's store
\* fails or restarts.  In V1 that is until the proof expires; in V2 it is for good,
\* and holds of a nonce, whatever else two proofs that carry it say.
ProofIsGoodOnce ==
    \A v, w \in AcceptedCalls :
        (v # w /\ Key(Given(v)) = Key(Given(w))) =>
            Version = 1 /\ \E u \in {v, w} : calls[u].at >= Given(u).proof.exp

\* What V2 accepts is accepted before the first of all expiries it depends on:
\* those of the grant, the proof, the credential, the challenge, the policy and the
\* attestation result, however long the replay store took.
AcceptedIsCurrent ==
    Version = 2 => \A v \in AcceptedCalls : \A t \in Bounds(Given(v)) : calls[v].at < t

\* What is accepted is what the authority granted and the verifier expects, both:
\* the values handed to the application are the grant's, its authorization is no
\* wider than the grant's, and the proof is signed with a key of the grant's agent
\* that is not the authority's own, for this very session.
AcceptedIsGranted ==
    \A v \in AcceptedCalls :
        LET q == Given(v)
        IN  /\ q.proof.grant = q.grant /\ q.proof.signer # q.grant.signer
            /\ q.proof.signer \in {q.grant.confirmation, q.grant.values["agentKey"]} \cup q.grant.endpointKeys
            /\ q.proof.exporter = q.expected.exporter
            /\ Version = 2 =>
                   /\ \A f \in DOMAIN acceptedValuesV2 : acceptedValuesV2[f] \in {None, Observed(q.grant)[f]}
                   /\ \A s \in AuthorizationSet : EffectiveAuthorization[s] \subseteq q.grant.sets[s]
                   /\ q.attestation # None => q.attestation.binder = q.expected.binder
=============================================================================
