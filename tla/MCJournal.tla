----------------------------- MODULE MCJournal -----------------------------
(***************************************************************************)
(* The operation journal on a file, its use by the email dispatcher, and   *)
(* the same journal on Redis; session identities and the A2A exchange that *)
(* spends them; on small instances for TLC:                                *)
(*   DECISIONS  callers of one operation in any order, two requests under  *)
(*              one ID, failed replacements, power losses, a clock set back*)
(*   RETRIES    a decision whose answer was lost is made again             *)
(*   NONCES     acceptances that repeat a replay key                       *)
(*   EMAIL      concurrent Dispatch and Lookup calls, restarts with other  *)
(*              routes                                                     *)
(*   SCRIPTS    the Lua scripts next to the FileStore methods              *)
(*   FAILOVERS  two clients through failed WAITs and two failovers         *)
(*   KEYS       a nonce presented again through failovers                  *)
(*   MEMORY_V1, STORE_V1, MEMORY_V2, DIRECTORY_V2                          *)
(*              session proofs of both profiles over the replay caches     *)
(*   EXCHANGE   Agent A's requests and retries over the journal of Agent B *)
(***************************************************************************)
EXTENDS JournalCalls, TLC

CONSTANTS
    Thread,             \* the calls of EMAIL and of the session proofs
    Client, Replica,    \* of FAILOVERS and KEYS; the handlers and messages of EXCHANGE
    o1, d1, d2, x1, x2, r1, r2, k1, k2

VARIABLES
    instance,
    config, closed, call, sends, accepted, acks,     \* the dispatcher
    primary, held, failures,                         \* Redis
    seen, file, faults, calls,                       \* replay caches; verifications and requests
    challenges, issued, offers, executions, made, released    \* the exchange

fileVars == <<journal, survivors, losses>>
historyVars == <<starts, acceptances, decisions>>
dispatcherVars == <<config, closed, sends, accepted, acks>>
redisVars == <<primary, held, failures>>
cacheVars == <<seen, file, faults>>
exchangeVars == <<challenges, issued, offers, executions, made, released>>
mcVars == <<instance, clock, call, calls, fileVars, historyVars, dispatcherVars, redisVars, cacheVars, exchangeVars>>

\* r1 seals one outcome and r2 another.
SealedOutcome(r) == IF r = r1 THEN x1 ELSE x2

Final(state, outcome, sealed) == [state |-> state, outcome |-> outcome, sealed |-> sealed]

Accept(key, until, digest) == [key |-> key, until |-> until, op |-> o1, digest |-> digest]

\* DECISIONS is the specification that this module extends.
RivalDecisions ==
    {Final("SUCCEEDED", x1, None), Final("SUCCEEDED", x1, r1), Final("SUCCEEDED", x2, r2),
     Final("FAILED", None, None), Final("CANCELED", None, None)}
BackAndForth == {1, -1}

Retries == INSTANCE JournalCalls WITH
    Operation <- {o1}, Digest <- {d1}, Outcome <- {x1, x2}, Sealed <- {}, ReplayKey <- {},
    OutcomeOf <- SealedOutcome, MaxTime <- 1, AcceptanceRequest <- {},
    Decision <- {Final("SUCCEEDED", x1, None), Final("FAILED", None, None)},
    ClockStep <- {}, MaxCommitLoss <- 3, MaxAcceptances <- 1

\* A nonce presented again, with the same and with a longer lifetime, for the
\* same request and another; and a fresh nonce for an exact retry.
Nonces == INSTANCE JournalCalls WITH
    Operation <- {o1}, Digest <- {d1, d2}, Outcome <- {x1, x2}, Sealed <- {r1, r2},
    ReplayKey <- {k1, k2}, OutcomeOf <- SealedOutcome, MaxTime <- 4,
    AcceptanceRequest <- {Accept(k1, 2, d1), Accept(k1, 3, d1), Accept(k1, 3, d2), Accept(k2, 3, d1)},
    Decision <- {}, ClockStep <- {1}, MaxCommitLoss <- 3, MaxAcceptances <- 3

\* One intent asked with two contents.
Requests == [intent : {o1}, content : {"p1", "p2"}]

\* A restart sends the first content elsewhere and no longer has the second.
Resolve(q, k) ==
    IF k = "first" THEN <<q.content, "r1">> ELSE IF q.content = "p1" THEN <<"p1", "r2">> ELSE None

Email == INSTANCE EmailDispatcher WITH
    Operation <- {o1}, Digest <- {<<q, Resolve(q, k)>> : q \in Requests, k \in {"first", "moved"}},
    Outcome <- {x1, x2}, Sealed <- {}, ReplayKey <- {}, OutcomeOf <- SealedOutcome, MaxTime <- 1,
    Call <- Thread, Request <- Requests, Config <- {"first", "moved"}, Email <- Resolve,
    MaxInFlight <- 2, MaxLosses <- 3

Scripts == INSTANCE RedisJournal WITH
    Operation <- {o1}, Digest <- {d1, d2}, Outcome <- {x1, x2}, Sealed <- {r1, r2}, ReplayKey <- {k1},
    OutcomeOf <- SealedOutcome, MaxTime <- 3, Client <- {"client"}, Replica <- {}, RequiredAcks <- 0,
    AcceptanceRequest <- {Accept(k1, 2, d1), Accept(k1, 3, d2)},
    Decision <- {Final("SUCCEEDED", x1, None), Final("SUCCEEDED", x1, r1), Final("CANCELED", None, None)},
    MaxReplayTTL <- 1, ClockStep <- {1, -1}, MaxFailures <- 0

Failovers == INSTANCE RedisJournal WITH
    Operation <- {o1}, Digest <- {d1}, Outcome <- {x1, x2}, Sealed <- {r1, r2}, ReplayKey <- {},
    OutcomeOf <- SealedOutcome, MaxTime <- 1, RequiredAcks <- 2, AcceptanceRequest <- {},
    Decision <- {Final("SUCCEEDED", x1, r1), Final("FAILED", None, None)},
    MaxReplayTTL <- 1, ClockStep <- {}, MaxFailures <- 2

\* A nonce presented twice, the second time with a longer lifetime.
Keys == INSTANCE RedisJournal WITH
    Operation <- {o1}, Digest <- {d1}, Outcome <- {x1, x2}, Sealed <- {r1, r2}, ReplayKey <- {k1},
    OutcomeOf <- SealedOutcome, MaxTime <- 3, RequiredAcks <- 2,
    AcceptanceRequest <- {Accept(k1, 2, d1), Accept(k1, 3, d1)}, Decision <- {},
    MaxReplayTTL <- 2, ClockStep <- {1}, MaxFailures <- 1
\* The tokens of the session proofs: an authority's grant for the agent "a", who
\* may read and write, and proofs that it is the agent in a session.
Agent == [f \in {"service", "tenant", "deployment", "environment", "workload", "agent", "agentKey", "computation",
                 "task", "thread", "delegation", "intent", "capability", "ontology"} |->
             IF f \in {"service", "workload", "task", "capability"} THEN f ELSE None]

Token(key, id, profile, exp) ==
    [form |-> "strict", alg |-> "ES256", kid |-> key, signer |-> key, issuer |-> key, audience |-> "b",
     id |-> id, profile |-> profile, iat |-> 1, exp |-> exp]

AgentGrant ==
    Token("authority", "g", "grant", 6) @@
    [subject |-> "a", confirmation |-> "a", endpointKeys |-> {"e"}, values |-> Agent,
     sets |-> [scopes |-> {"read", "write"}, resources |-> {"doc"}, details |-> {}],
     target |-> [resource |-> "doc", operation |-> "read"]]

SessionOf(exporter, context, nonce) ==
    [role |-> "client", interaction |-> "a2a", endpoint |-> "spki", exporter |-> exporter, context |-> context,
     binder |-> None, nonce |-> nonce, attempt |-> None]

ProofOf(profile, session, exp) ==
    [issuer |-> "a"] @@ Token("a", "p", profile, exp) @@ [grant |-> AgentGrant] @@ session

FreshUntil(challenge) == [challenge |-> challenge, required |-> {challenge, 6}, optional |-> {}]

Shown(session, proof) ==
    [grant |-> AgentGrant, proof |-> proof, expected |-> session, fresh |-> FreshUntil(5), attestation |-> None]

Here == SessionOf("x1", "c1", "n1")
There == SessionOf("x2", "c2", "n1")
HereBound == [Here EXCEPT !.binder = "bind"]

\* One proof shown twice, one of an endpoint's key, one of the authority itself,
\* one in another session, one encoded loosely.
FirstShown ==
    LET proof == ProofOf("proof", Here, 4)
    IN  "good" :> Shown(Here, proof)
     @@ "endpoint" :> Shown(Here, [proof EXCEPT !.kid = "e", !.signer = "e"])
     @@ "authority" :> Shown(Here, [proof EXCEPT !.kid = "authority", !.signer = "authority"])
     @@ "borrowed" :> Shown(There, proof)
     @@ "legacy" :> Shown(Here, [proof EXCEPT !.form = "loose", !.profile = "legacy proof"])

\* One nonce in two sessions, a proof that outlives its challenge, and an
\* attestation result that ends first, or is another agent's.
SecondShown ==
    LET proof == ProofOf("proof v2", Here, 4)
        bound == Shown(HereBound, ProofOf("proof v2", HereBound, 4))
        result == [subject |-> "a", audience |-> "b", binder |-> "bind", iat |-> 1, exp |-> 3]
    IN  "good" :> Shown(Here, proof)
     @@ "other" :> Shown(There, ProofOf("proof v2", There, 6))
     @@ "brief" :> [Shown(Here, proof) EXCEPT !.fresh = FreshUntil(3)]
     @@ "attested" :> [bound EXCEPT !.attestation = result]
     @@ "misattested" :> [bound EXCEPT !.attestation = [result EXCEPT !.subject = "c"]]
     @@ "endpoint" :> Shown(Here, [proof EXCEPT !.kid = "e", !.signer = "e"])
     @@ "borrowed" :> Shown(There, proof)
     @@ "loose" :> Shown(Here, [proof EXCEPT !.form = "loose"])

JWTOptions(issuer, keys) ==
    [issuer |-> issuer, audience |-> "b", methods |-> {"ES256"}, keys |-> keys, disabled |-> {},
     revoked |-> {}, skew |-> 0]

LocalPolicy(layers) ==
    [mode |-> "required", require |-> layers, isolated |-> FALSE, expected |-> [Agent EXCEPT !["agent"] = "a"],
     target |-> [resource |-> "doc", operation |-> "read"],
     sets |-> [scopes |-> {"read"}, resources |-> {"doc"}, details |-> {}], setMode |-> "contains"]

Authority == JWTOptions("authority", {"authority"})

\* The bounds: three calls, or two with faults, over six half-seconds.
MemoryV1 == INSTANCE SessionIdentity WITH
    Verifier <- Thread, Presentation <- FirstShown, Version <- 1, Cache <- "memory", GrantOptions <- Authority,
    ProofOptions <- JWTOptions("a", {"a", "e", "authority"}), Policy <- LocalPolicy(3..6), MaxTime <- 6, MaxFaults <- 0

StoreV1 == INSTANCE SessionIdentity WITH
    Verifier <- Thread, Presentation <- FirstShown, Version <- 1, Cache <- "setnx", GrantOptions <- Authority,
    ProofOptions <- JWTOptions("a", {"a", "e", "authority"}), Policy <- LocalPolicy(3..6), MaxTime <- 6, MaxFaults <- 2

MemoryV2 == INSTANCE SessionIdentity WITH
    Verifier <- Thread, Presentation <- SecondShown, Version <- 2, Cache <- "memory", GrantOptions <- Authority,
    ProofOptions <- JWTOptions("a", {"a", "e"}), Policy <- LocalPolicy(3..7), MaxTime <- 6, MaxFaults <- 0

DirectoryV2 == INSTANCE SessionIdentity WITH
    Verifier <- Client, Presentation <- SecondShown, Version <- 2, Cache <- "directory", GrantOptions <- Authority,
    ProofOptions <- JWTOptions("a", {"a", "e"}), Policy <- LocalPolicy(3..7), MaxTime <- 6, MaxFaults <- 2

\* Texts under one message ID.
Texts ==
    [d \in Replica |-> [op |-> o1, digest |-> d, task |-> "task", target |-> [resource |-> "doc", operation |-> "read"]]]

BoundOutcome(r) == r.outcome

Exchange == INSTANCE A2AOperation WITH
    Operation <- {o1}, Digest <- Replica, Outcome <- {x1}, ReplayKey <- 1..2, OutcomeOf <- BoundOutcome,
    Sealed <- [op : {o1}, digest : Replica, outcome : {x1}], MaxTime <- 5,
    Handler <- Client, Message <- Texts,
    Connection <- [c \in {"c1", "c2"} |-> [peer |-> "A", resumed |-> FALSE, indirect |-> FALSE]],
    Flaw <- {"none", "borrowed", "substituted"}, MaxNonces <- 2, MaxLosses <- 2, LastTick <- 2,
    ChallengeLife <- 1, ResultLife <- 3, GrantLife <- 8, CredentialEnd <- 20, Capacity <- 2
-----------------------------------------------------------------------------
Off(v) == v = None

\* Nothing was started or decided where there is no file.
NoFile == Off(journal) /\ survivors = {} /\ Off(losses)
NoDecisions == starts = [o \in Operation |-> 0] /\ decisions = {}
NoHistory == NoDecisions /\ acceptances = <<>>
NoDispatcher == Off(config) /\ Off(closed) /\ Off(sends) /\ Off(accepted) /\ Off(acks)
NoRedis == Off(primary) /\ Off(held) /\ Off(failures)
NoCache == Off(seen) /\ Off(file) /\ Off(faults)
NoExchange == Off(challenges) /\ Off(issued) /\ Off(offers) /\ Off(executions) /\ Off(made) /\ Off(released)
NoSession == NoCache /\ NoExchange /\ Off(calls)

FileInit(init) == init /\ NoDispatcher /\ Off(call) /\ NoRedis /\ NoSession
RedisInit(init) == init /\ NoFile /\ NoDispatcher /\ NoSession
ProofInit(init) == init /\ NoFile /\ NoHistory /\ NoDispatcher /\ Off(call) /\ NoRedis /\ NoExchange

MCInit ==
    \/ instance = "DECISIONS" /\ FileInit(Init)
    \/ instance = "NONCES" /\ FileInit(Nonces!Init)
    \/ instance = "EMAIL" /\ Email!Init /\ NoHistory /\ NoRedis /\ NoSession
    \/ instance = "SCRIPTS" /\ RedisInit(Scripts!Init)
    \/ instance = "FAILOVERS" /\ RedisInit(Failovers!Init)
    \/ instance = "KEYS" /\ RedisInit(Keys!Init)
    \/ instance = "MEMORY_V1" /\ ProofInit(MemoryV1!Init)
    \/ instance = "STORE_V1" /\ ProofInit(StoreV1!Init)
    \/ instance = "MEMORY_V2" /\ ProofInit(MemoryV2!Init)
    \/ instance = "DIRECTORY_V2" /\ ProofInit(DirectoryV2!Init)
    \/ instance = "EXCHANGE" /\ Exchange!Init /\ NoDispatcher /\ Off(call) /\ NoRedis /\ NoCache
                            /\ NoDecisions

notFile == <<instance, call, calls, dispatcherVars, redisVars, cacheVars, exchangeVars>>
notRedis == <<instance, calls, fileVars, dispatcherVars, cacheVars, exchangeVars>>
notProof == <<instance, call, fileVars, historyVars, dispatcherVars, redisVars, exchangeVars>>

MCNext ==
    \/ instance = "DECISIONS" /\ Next /\ UNCHANGED notFile
    \/ instance = "NONCES" /\ Nonces!Next /\ UNCHANGED notFile
    \/ instance = "EMAIL" /\ Email!Next
          /\ UNCHANGED <<instance, calls, historyVars, redisVars, cacheVars, exchangeVars>>
    \/ instance = "SCRIPTS" /\ Scripts!Next /\ UNCHANGED notRedis
    \/ instance = "FAILOVERS" /\ Failovers!Next /\ UNCHANGED notRedis
    \/ instance = "KEYS" /\ Keys!Next /\ UNCHANGED notRedis
    \/ instance = "MEMORY_V1" /\ MemoryV1!Next /\ UNCHANGED notProof
    \/ instance = "STORE_V1" /\ StoreV1!Next /\ UNCHANGED notProof
    \/ instance = "MEMORY_V2" /\ MemoryV2!Next /\ UNCHANGED notProof
    \/ instance = "DIRECTORY_V2" /\ DirectoryV2!Next /\ UNCHANGED notProof
    \/ instance = "EXCHANGE" /\ Exchange!Next
          /\ UNCHANGED <<instance, call, dispatcherVars, redisVars, cacheVars, starts, decisions>>

MCSpec == MCInit /\ [][MCNext]_mcVars

RetrySpec ==
    /\ instance = "RETRIES" /\ FileInit(Retries!Init)
    /\ [][Retries!Next /\ UNCHANGED notFile]_mcVars

Symmetry == Permutations(Thread) \cup Permutations(Client) \cup Permutations(Replica)
-----------------------------------------------------------------------------
(* The properties, each on the instances that put it at risk.  StartedOnce and  *)
(* FirmDecisionIsFinal of JournalCalls are checked as they are: FAILOVERS counts  *)
(* its starts for the same operation.                                             *)

\* Every variable keeps its type, and for the file the inductive invariants hold.
TypesOK ==
    /\ instance = "DECISIONS" => ConstantsOK /\ TypeOK /\ IndInv
    /\ instance = "NONCES" =>
           Nonces!ConstantsOK /\ Nonces!TypeOK /\ Nonces!IndInv /\ Nonces!AcceptanceInv
    /\ instance = "EMAIL" => Email!TypeOK
    /\ instance = "FAILOVERS" => Failovers!TypeOK
    /\ instance = "KEYS" => Keys!TypeOK
    /\ instance = "MEMORY_V1" => MemoryV1!TypeOK
    /\ instance = "STORE_V1" => StoreV1!TypeOK
    /\ instance = "MEMORY_V2" => MemoryV2!TypeOK
    /\ instance = "DIRECTORY_V2" => DirectoryV2!TypeOK
    /\ instance = "EXCHANGE" => Exchange!TypeOK

\* Nothing is done twice: there is at most one HTTP attempt per email intent and one
\* execution per A2A operation; two answered acceptances with one replay key never
\* overlap, and an answered acceptance is durable as a whole, operation and replay
\* key; a session proof, and a nonce of Agent B's, is good once.
NothingTwice ==
    /\ instance = "EMAIL" => Email!SendsOnce
    /\ instance = "NONCES" => Nonces!ReplayKeyOnce /\ Nonces!AcceptanceIsDurable
    /\ instance = "KEYS" => Keys!ReplayKeyOnce
    /\ instance = "MEMORY_V1" => MemoryV1!ProofIsGoodOnce
    /\ instance = "STORE_V1" => StoreV1!ProofIsGoodOnce
    /\ instance = "MEMORY_V2" => MemoryV2!ProofIsGoodOnce
    /\ instance = "DIRECTORY_V2" => DirectoryV2!ProofIsGoodOnce
    /\ instance = "EXCHANGE" => Exchange!ExecutedOnce /\ Exchange!NonceAdmitsOne

\* What was answered stays true.  No call is refused by the file's own validation;
\* a decision acknowledged by the replicas outlives failovers, and each Lua script
\* leaves the journal and gives the answer of the FileStore method; an email
\* acknowledgement says that the provider accepted this very email, and is always
\* found again; Agent A is never given the result of another request, or two results.
AnswersAreKept ==
    /\ TypesOK
    /\ instance = "DECISIONS" => NoEffectIsRefused
    /\ instance = "FAILOVERS" => Failovers!FirmDecisionIsFinal
    /\ instance = "SCRIPTS" => Scripts!ScriptsMatchFileStore
    /\ instance = "EMAIL" => Email!AckIsEvidence /\ Email!AckIsRecoverable
    /\ instance = "EXCHANGE" => Exchange!ReleasedIsRecorded

\* What a verifier accepts is what the authority granted and the verifier expects,
\* by a key of the agent's own, before the first expiry it depends on; and what
\* Agent B starts was accepted so, on the connection it came by.
AcceptedIsGenuine ==
    /\ instance = "MEMORY_V1" => MemoryV1!AcceptedIsGranted
    /\ instance = "STORE_V1" => StoreV1!AcceptedIsGranted
    /\ instance = "MEMORY_V2" => MemoryV2!AcceptedIsGranted /\ MemoryV2!AcceptedIsCurrent
    /\ instance = "DIRECTORY_V2" => DirectoryV2!AcceptedIsGranted /\ DirectoryV2!AcceptedIsCurrent
    /\ instance = "EXCHANGE" => Exchange!ExecutingIsAuthorized
=============================================================================
