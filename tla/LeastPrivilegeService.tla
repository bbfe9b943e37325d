----------------------- MODULE LeastPrivilegeService -----------------------
(***************************************************************************)
(* The least-privilege authority (pkg/leastprivilege/asbbinding) over the  *)
(* durable store: operators install and revoke mandates, agents obtain     *)
(* capabilities and spend them, and a dispatched effect whose outcome is   *)
(* uncertain is reconciled with the downstream system.                     *)
(*                                                                         *)
(* A call of Authorize, Execute or Reconcile holds the read guard of       *)
(* Policies from the lookup of its mandate to its end.  In between it      *)
(* takes one step per store transaction and per callback; whatever it read *)
(* before a step (the mandate, the clock, a record) may be old by then.    *)
(* The clock is shared and never goes back, but a call passes the store    *)
(* the time it read before the store's lock was free.                      *)
(*                                                                         *)
(* A session proof is bound to one mode and operation.  It expires with    *)
(* the earliest of the proof, the challenge and the endpoint credential;   *)
(* its nonce is retained until the later of proof and challenge.           *)
(* A capability is bound to the exact mandate record.  Signatures, the     *)
(* permission search and the request's contents are data left out.         *)
(*                                                                         *)
(* The durable store (DurableStore) keeps the state of ExecutionMethods in *)
(* one file.  A transaction holds an OS file lock from reading the file to *)
(* the end, also between processes, so it is one step; its fate says how   *)
(* far the replacement of the file got:                                    *)
(*   SYNCED   renamed and the directory synced: the call answers;          *)
(*   RENAMED  renamed, then the sync failed or the process died: the file  *)
(*            has changed but the caller is told an error or nothing;      *)
(*   FAILED   nothing changed: a canceled context, a lock or an input or   *)
(*            output error before the rename.                              *)
(* "survivors" are the files a power loss may leave.                       *)
(***************************************************************************)
EXTENDS ExecutionMethods, Sequences

CONSTANTS
    Thread,
    Proof,             \* [nonce, mode, operation, mandate, expires, retain]
    ActionOf(_),       \* the action an operation asks for
    MaxTTL,            \* mandate.MaxTTLSeconds
    MaxTime,           \* a bound on the clock
    MaxCrashes         \* a bound on crashes and power losses

VARIABLES
    file, survivors,
    clock,
    policies,          \* the installed mandates
    capabilities,      \* the capabilities issued
    call,              \* what each thread is doing
    admitted,          \* how often each proof was accepted
    effects,           \* the effects dispatched, in order
    truth,             \* what happened downstream
    told,              \* the outcomes callers were given
    crashes

vars == <<file, survivors, clock, policies, capabilities, call, admitted, effects, truth, told, crashes>>

-----------------------------------------------------------------------------
(* The durable store *)

Fate == {"SYNCED", "RENAMED", "FAILED"}

\* validateDurable, what a file must be to be written or read again.
ValidFile(s) ==
    /\ Cardinality(Used(s)) <= Capacity /\ Cardinality(Known(s)) <= Capacity
    /\ \A k \in Used(s) :
           s.uses[k].operation # None =>
               LET record == s.executions[s.uses[k].operation]
               IN  record # NoExecution /\ record.digest.id = k /\ record.digest.expires = s.uses[k].expires
    /\ \A o \in Known(s) :
           LET record == s.executions[o]
           IN  /\ s.uses[record.digest.id].operation = o
               /\ record.state \in {"ACCEPTED", "RUNNING"} => record.evidence = None
               /\ record.state \in TerminalStates => record.evidence # None

Writes(effect) == effect.fresh

\* Whether the caller gets the effect's answer rather than an error.
Answers(effect, fate) ==
    /\ fate # "FAILED"
    /\ Writes(effect) => fate = "SYNCED" /\ ValidFile(effect.file)

Error(effect, fate) == IF Answers(effect, fate) THEN effect.error ELSE "UNAVAILABLE"

\* transaction and persist
Transact(effect, fate) ==
    CASE fate = "FAILED" \/ ~Writes(effect) \/ ~ValidFile(effect.file) -> UNCHANGED <<file, survivors>>
      [] fate = "RENAMED" /\ Writes(effect) /\ ValidFile(effect.file) ->
             file' = effect.file /\ survivors' = survivors \cup {effect.file}
      [] fate = "SYNCED" /\ Writes(effect) /\ ValidFile(effect.file) ->
             file' = effect.file /\ survivors' = {effect.file}

\* The machine stops and comes back with what the disk kept.
PowerLoss == file' \in survivors /\ survivors' = {file'}

StoreInit == file = EmptyFile /\ survivors = {EmptyFile}

StoreTypeOK ==
    /\ survivors \subseteq
           [uses : [Key -> [expires : Nat, operation : Operation \cup {None}]],
            executions : [Operation -> [state : State, digest : MandateRecord \cup {None},
                                        evidence : Evidence \cup {None, CanceledEvidence, NotDispatchedEvidence}]],
            prunedUntil : Nat]
    /\ file \in survivors
-----------------------------------------------------------------------------
NoPolicy == [record |-> None, revoked |-> FALSE]
Idle == [at |-> "IDLE"]

Record(m) == policies[m].record
Guarded(t) == call[t].at # "IDLE"

Go(t, step) == call' = [call EXCEPT ![t] = step]
Return(t) == Go(t, Idle)

\* The write guard is free when no call holds the read guard.
GuardFree == \A t \in Thread : ~Guarded(t)
-----------------------------------------------------------------------------
(* The operator *)

\* A revoked mandate never comes back, and an installed one is never extended.
Installable(record) ==
    /\ ~policies[record.id].revoked
    /\ Record(record.id) # None => record.expires <= Record(record.id).expires

PutPolicy(record) ==
    /\ GuardFree /\ Installable(record)
    /\ policies' = [policies EXCEPT ![record.id] = [record |-> record, revoked |-> FALSE]]
    /\ UNCHANGED <<file, survivors, clock, capabilities, call, admitted, effects, truth, told, crashes>>

Revoke(m) ==
    /\ GuardFree /\ Record(m) # None
    /\ policies' = [policies EXCEPT ![m].revoked = TRUE]
    /\ UNCHANGED <<file, survivors, clock, capabilities, call, admitted, effects, truth, told, crashes>>

\* The administrative CancelAccepted: a store call without any guard.
AdminCancel(o, d, fate) ==
    LET effect == CancelAccepted(file, o, d)
    IN  /\ Transact(effect, fate)
        /\ told' = IF Error(effect, fate) = "OK"
                   THEN told \cup {[operation |-> o, state |-> "FAILED", evidence |-> CanceledEvidence,
                                    firm |-> Writes(effect)]}
                   ELSE told
        /\ UNCHANGED <<clock, policies, capabilities, call, admitted, effects, truth, crashes>>
-----------------------------------------------------------------------------
(* Entering a call: the policy guard and the session proof. *)

\* withPolicy and the checks of authenticate before the replay commit.
Enter(t, proof, capability) ==
    /\ call[t] = Idle
    /\ Record(proof.mandate) # None /\ ~policies[proof.mandate].revoked
    /\ ActionOf(proof.operation) = Record(proof.mandate).action
    /\ clock < Record(proof.mandate).expires /\ clock < proof.expires
    /\ Go(t, [at |-> "PROOF", proof |-> proof, mandate |-> Record(proof.mandate),
              capability |-> capability, now |-> clock, outcome |-> None, evidence |-> None])
    /\ UNCHANGED <<file, survivors, clock, policies, capabilities, admitted, effects, truth, told, crashes>>

\* earliestAcceptedExpiryV2: the acceptance ends with the proof or the mandate.
AcceptedUntil(c) == IF c.mandate.expires < c.proof.expires THEN c.mandate.expires ELSE c.proof.expires

FirstStep == [authorize |-> "SIGN", execute |-> "PREPARE", reconcile |-> "LOOKUP"]

\* durableReplay.MarkUsed: the nonce is consumed with the time read before.
\* The accepted proof is checked against the clock once more.
Authenticate(t, fate) ==
    LET c      == call[t]
        effect == Use(file, c.proof.nonce, c.proof.retain, c.now)
    IN  /\ c.at = "PROOF"
        /\ Transact(effect, fate)
        /\ admitted' = IF Error(effect, fate) = "OK" THEN [admitted EXCEPT ![c.proof.nonce] = @ + 1] ELSE admitted
        /\ IF Error(effect, fate) = "OK" /\ clock < AcceptedUntil(c)
           THEN Go(t, [c EXCEPT !.at = FirstStep[c.proof.mode], !.now = clock])
           ELSE Return(t)
        /\ UNCHANGED <<clock, policies, capabilities, effects, truth, told, crashes>>
-----------------------------------------------------------------------------
(* Authorize *)

\* The authorizer's second clock reading dates the capability.
Issued(c) ==
    [record |-> c.mandate, issuedAt |-> clock,
     expires |-> IF clock + MaxTTL > c.mandate.expires THEN c.mandate.expires ELSE clock + MaxTTL]

Authorize(t) ==
    LET c == call[t]
    IN  /\ c.at = "SIGN"
        /\ capabilities' = IF clock < AcceptedUntil(c)
                           THEN capabilities \cup {Issued(c)} ELSE capabilities
        /\ Return(t)
        /\ UNCHANGED <<file, survivors, clock, policies, admitted, effects, truth, told, crashes>>
-----------------------------------------------------------------------------
(* Execute: runExecution *)

CheckCapability(c, now) ==
    /\ c.capability.record = c.mandate
    /\ c.capability.issuedAt <= now /\ now < c.capability.expires
    /\ now < c.mandate.expires

\* The context of a run ends with the proof or the capability.
Deadline(c) == IF c.capability.expires < AcceptedUntil(c) THEN c.capability.expires ELSE AcceptedUntil(c)

Tell(o, record, firm) == [operation |-> o, state |-> record.state, evidence |-> record.evidence, firm |-> firm]

\* A recorded outcome is returned; anything else not ACCEPTED is uncertain.
AnswerRecord(t, o, record) ==
    /\ told' = IF record.state \in TerminalStates THEN told \cup {Tell(o, record, FALSE)} ELSE told
    /\ Return(t)

PrepareRun(t, fate) ==
    LET c      == call[t]
        o      == c.proof.operation
        effect == Prepare(file, o, c.mandate, c.now)
        error  == IF CheckCapability(c, c.now) THEN Error(effect, fate) ELSE "INVALID"
    IN  /\ c.at = "PREPARE"
        /\ IF CheckCapability(c, c.now) THEN Transact(effect, fate) ELSE UNCHANGED <<file, survivors>>
        /\ CASE error # "OK" -> Return(t) /\ UNCHANGED told
             [] error = "OK" /\ effect.record.state = "ACCEPTED" -> Go(t, [c EXCEPT !.at = "START"]) /\ UNCHANGED told
             [] error = "OK" /\ effect.record.state # "ACCEPTED" -> AnswerRecord(t, o, effect.record)
        /\ UNCHANGED <<clock, policies, capabilities, admitted, effects, truth, crashes>>

StartRun(t, fate) ==
    LET c      == call[t]
        o      == c.proof.operation
        effect == Start(file, o, c.mandate)
        error  == IF CheckCapability(c, clock) THEN Error(effect, fate) ELSE "INVALID"
    IN  /\ c.at = "START"
        /\ IF CheckCapability(c, clock) THEN Transact(effect, fate) ELSE UNCHANGED <<file, survivors>>
        /\ CASE error # "OK" -> Return(t) /\ UNCHANGED told
             [] error = "OK" /\ effect.fresh -> Go(t, [c EXCEPT !.at = "DISPATCH"]) /\ UNCHANGED told
             [] error = "OK" /\ ~effect.fresh -> AnswerRecord(t, o, effect.record)
        /\ UNCHANGED <<clock, policies, capabilities, admitted, effects, truth, crashes>>

Finish(t, outcome, evidence) ==
    Go(t, [call[t] EXCEPT !.at = "COMPLETE", !.outcome = outcome, !.evidence = evidence])

\* Mutation: the commit of Start may have taken past the expiry unnoticed.
StillAuthorizedOnce(c) == TRUE

\* Start may block past the expiry: the capability and the context again.
StillAuthorized(c) == CheckCapability(c, clock) /\ clock < Deadline(c)

\* A failure seen before the effect is called, or a cancellation: nothing was
\* dispatched, and that is recorded.  When the proof expires after that check,
\* the service's own effect function refuses, and its error is uncertain.
NoEffect(t) ==
    /\ call[t].at = "DISPATCH"
    /\ \/ Finish(t, "FAILED", NotDispatchedEvidence)
       \/ clock >= AcceptedUntil(call[t]) /\ Finish(t, "UNKNOWN", None)
    /\ UNCHANGED <<file, survivors, clock, policies, capabilities, admitted, effects, truth, told, crashes>>

\* The effect is called.  Downstream it has happened or was refused for good
\* when the adapter returns, or that is still open; what the adapter reports is
\* certain or an error.  A context that ends during the effect makes it
\* uncertain too.
Dispatch(t, happens) ==
    LET c == call[t]
        o == c.proof.operation
    IN  /\ c.at = "DISPATCH" /\ StillAuthorized(c)
        /\ effects' = Append(effects, [operation |-> o, record |-> c.mandate, deadline |-> Deadline(c)])
        /\ truth' = [truth EXCEPT ![o] = happens]
        /\ \/ happens = "HAPPENED" /\ \E e \in Evidence : Finish(t, "SUCCEEDED", e)
           \/ happens = "REFUSED" /\ \E e \in Evidence : Finish(t, "FAILED", e)
           \/ Finish(t, "UNKNOWN", None)
        /\ UNCHANGED <<file, survivors, clock, policies, capabilities, admitted, told, crashes>>

CompleteCall(t, fate) ==
    LET c      == call[t]
        o      == c.proof.operation
        effect == Complete(file, o, c.mandate, c.outcome, c.evidence)
    IN  /\ c.at = "COMPLETE"
        /\ Transact(effect, fate)
        /\ told' = IF Error(effect, fate) = "OK" /\ c.outcome \in TerminalStates
                   THEN told \cup {Tell(o, effect.record, Writes(effect))} ELSE told
        /\ Return(t)
        /\ UNCHANGED <<clock, policies, capabilities, admitted, effects, truth, crashes>>
-----------------------------------------------------------------------------
(* Reconcile *)

LookupRun(t, fate) ==
    LET c      == call[t]
        o      == c.proof.operation
        effect == Lookup(file, o, c.mandate)
    IN  /\ c.at = "LOOKUP"
        /\ UNCHANGED <<file, survivors>>
        /\ IF Error(effect, fate) # "OK" \/ effect.record.state = "ACCEPTED" THEN Return(t) /\ UNCHANGED told
           ELSE IF effect.record.state \in TerminalStates THEN AnswerRecord(t, o, effect.record)
           ELSE Go(t, [c EXCEPT !.at = "QUERY"]) /\ UNCHANGED told
        /\ UNCHANGED <<clock, policies, capabilities, admitted, effects, truth, crashes>>

\* The adapter answers only what is established downstream.
Authoritative(o, outcome) ==
    \/ outcome = "SUCCEEDED" /\ truth[o] = "HAPPENED"
    \/ outcome = "FAILED" /\ truth[o] = "REFUSED"

\* Uncertain answers, errors and an expired proof end the call without a record.
Query(t) ==
    LET c == call[t]
    IN  /\ c.at = "QUERY"
        /\ \/ Return(t)
           \/ \E outcome \in TerminalStates, e \in Evidence :
                  /\ Authoritative(c.proof.operation, outcome) /\ clock < AcceptedUntil(c)
                  /\ Finish(t, outcome, e)
        /\ UNCHANGED <<file, survivors, clock, policies, capabilities, admitted, effects, truth, told, crashes>>
-----------------------------------------------------------------------------
(* The environment *)

\* A request that was dispatched is settled downstream, maybe long after.
Settle(o, happens) ==
    /\ truth[o] = "NOTHING" /\ \E i \in DOMAIN effects : effects[i].operation = o
    /\ truth' = [truth EXCEPT ![o] = happens]
    /\ UNCHANGED <<file, survivors, clock, policies, capabilities, call, admitted, effects, told, crashes>>

Tick ==
    /\ clock < MaxTime /\ clock' = clock + 1
    /\ UNCHANGED <<file, survivors, policies, capabilities, call, admitted, effects, truth, told, crashes>>

\* The authority process ends; a restart loads the operator's current policy.
Crash ==
    /\ crashes < MaxCrashes /\ crashes' = crashes + 1
    /\ \/ UNCHANGED <<file, survivors>>
       \/ PowerLoss
    /\ call' = [t \in Thread |-> Idle]
    /\ UNCHANGED <<clock, policies, capabilities, admitted, effects, truth, told>>

Init ==
    /\ StoreInit /\ clock = 1 /\ crashes = 0
    /\ policies = [m \in Mandate |-> NoPolicy] /\ capabilities = {}
    /\ call = [t \in Thread |-> Idle]
    /\ admitted = [n \in Nonce |-> 0]
    /\ effects = <<>> /\ truth = [o \in Operation |-> "NOTHING"] /\ told = {}

\* Only Execute is given a capability.
NoCapability == [record |-> None, issuedAt |-> 0, expires |-> 0]
Offered(proof) == IF proof.mode = "execute" THEN capabilities ELSE {NoCapability}

Step(t) ==
    \/ \E proof \in Proof : \E capability \in Offered(proof) : Enter(t, proof, capability)
    \/ \E fate \in Fate :
           Authenticate(t, fate) \/ PrepareRun(t, fate) \/ StartRun(t, fate)
               \/ CompleteCall(t, fate) \/ LookupRun(t, fate)
    \/ Authorize(t) \/ NoEffect(t) \/ Query(t)
    \/ \E happens \in {"NOTHING", "HAPPENED", "REFUSED"} : Dispatch(t, happens)

Next ==
    \/ \E t \in Thread : Step(t)
    \/ \E record \in MandateRecord : PutPolicy(record)
    \/ \E m \in Mandate : Revoke(m)
    \/ \E o \in Operation, d \in MandateRecord, fate \in Fate : AdminCancel(o, d, fate)
    \/ \E o \in Operation, happens \in {"HAPPENED", "REFUSED"} : Settle(o, happens)
    \/ Tick \/ Crash

Spec == Init /\ [][Next]_vars

Steps == {"IDLE", "PROOF", "SIGN", "PREPARE", "START", "DISPATCH", "COMPLETE", "LOOKUP", "QUERY"}

TypeOK ==
    /\ StoreTypeOK
    /\ clock \in 1..MaxTime /\ crashes \in 0..MaxCrashes
    /\ policies \in [Mandate -> [record : MandateRecord \cup {None}, revoked : BOOLEAN]]
    /\ \A c \in capabilities : c.record \in MandateRecord /\ c.issuedAt < c.expires /\ c.expires <= c.record.expires
    /\ \A t \in Thread : call[t].at \in Steps
    /\ \A i \in DOMAIN effects : effects[i].operation \in Operation /\ effects[i].record \in MandateRecord
    /\ truth \in [Operation -> {"NOTHING", "HAPPENED", "REFUSED"}]
    /\ \A x \in told : x.state \in TerminalStates /\ x.evidence # None
-----------------------------------------------------------------------------
(***************************************************************************)
(* A mandate, and an operation, has at most one effect, whatever calls,    *)
(* retries, crashes and power losses come (durable_execution.go, Run:      *)
(* "reserves and dispatches at most once across all processes using this   *)
(* store").                                                                *)
(***************************************************************************)
OneEffectPerMandate ==
    \A i, j \in DOMAIN effects :
        i # j => /\ effects[i].record.id # effects[j].record.id
                 /\ effects[i].operation # effects[j].operation

(***************************************************************************)
(* A session proof is accepted once, although expired nonces are pruned    *)
(* and a call may present a time older than the pruning (durable_store.go, *)
(* Use and pruneDurable).                                                  *)
(***************************************************************************)
ProofAcceptedOnce == \A n \in Nonce : admitted[n] <= 1

(***************************************************************************)
(* What the journal records as the outcome is what happened downstream: a  *)
(* success has happened, and a failure has not and will not, also when it  *)
(* was a cancellation or a run stopped before its effect.                  *)
(***************************************************************************)
RecordedOutcomeIsTrue ==
    \A o \in Operation :
        /\ file.executions[o].state = "SUCCEEDED" => truth[o] = "HAPPENED"
        /\ file.executions[o].state = "FAILED" => truth[o] # "HAPPENED"

(***************************************************************************)
(* An outcome whose own commit was acknowledged stays the recorded outcome *)
(* for ever, also after a power loss (durable_store.go, Complete).         *)
(***************************************************************************)
FirmOutcomeIsFinal ==
    \A x \in told :
        x.firm => /\ file.executions[x.operation].state = x.state
                  /\ file.executions[x.operation].evidence = x.evidence

(***************************************************************************)
(* At the moment of dispatch the mandate installed is the one the call was *)
(* checked against, it is not revoked, and neither it nor the capability   *)
(* nor the session proof has expired (service.go, Execute: "once an update *)
(* returns, no operation using the previous policy can begin dispatch").   *)
(***************************************************************************)
AuthorizedStep ==
    effects' # effects =>
        LET e == effects'[Len(effects')]
        IN  /\ policies[e.record.id] = [record |-> e.record, revoked |-> FALSE]
            /\ clock < e.record.expires /\ clock < e.deadline

DispatchIsAuthorized == [][AuthorizedStep]_vars
=============================================================================
