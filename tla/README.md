# A TLA+ verification of agents-secure-binding

The repository binds work between Agents, and between Agents and Humans, to
verified identities and bounded authority. Most of its correctness lies in a
handful of stores and exchanges that must do something *at most once*, *only
while it is authorized* and *without forgetting it* while calls race, answers get
lost and processes die. This project models those parts in TLA+, checks them
with TLC on small instances, and proves the most important results with TLAPS for
all values of the constants.

`PROJECT.json` lists the components, the runs, the source lines of every
definition, the hazards and the properties that would notice them. This file
explains how to read it.

    tlc -workers 2 -config Relay.cfg MCRelay      # one run
    tlapm --threads 2 RelayTheorems.tla           # one module of proofs

## 1. The system and its modules

**Coordination of tasks** (pkg/taskcoord). A participant is offered an
Assignment, accepts, delegates, completes it. A pure machine prepares the next
snapshot, a store commits it with a compare-and-set on the revision.
Long-running work under an accepted Assignment is an Action with leases, recovery
and dependency waits. Committed events go to consumers through an outbox.

| module | code | state and actions |
|---|---|---|
| TaskStore | taskcoord: machine, memory store, interactions, restore | registry, Assignments, delegations, event logs; requests are prepared from any past state and delivered late, repeatedly or never |
| ActionLifecycle | pkg/actionlifecycle | Create, Apply and Validate as operators over a Snapshot |
| ActionStore | taskcoord/actionbinding | a call is Begin (load, derive) and Commit (re-check, write); acceptance joins Assignment and Action |
| Outbox | taskcoord/sqlitestore | mutations with their outbox rows, LeaseOutbox, AcknowledgeOutbox, quarantine, decay of rows |
| RedisTaskStore | production.RedisTaskCoordStore | load, Lua script, WAIT; asynchronous replicas and failover |
| HumanIngress | taskcoord/asbbinding, durable ingress | challenges, proofs, connections, the transaction of event, outcome and replay record |

**Reaching Humans and Agents** (taskcoord reachability, pkg/humanrelay,
pkg/agtp/discovery). A Human consents to being reached, a grant is issued within the
consent, a relay intent uses the grant for one call of a provider. Agents
announce themselves with leases to discovery nodes that gossip.

| module | code | state and actions |
|---|---|---|
| Reachability | taskcoord reachability | consents, withdrawals, grants, revocations; Find reads twice |
| HumanRelay (extends Reachability) | pkg/humanrelay | intents in memory or in a file that processes share through a lock; temporary file, rename and directory sync are steps of their own; crash, power loss, clock set back |
| EmailDispatcher | humanrelay/cloudflare | Dispatch and Lookup over an operation journal |
| Discovery, DiscoveryNode | pkg/agtp/discovery and its peer | presence and name records, withdrawal markers, epochs; gossip, routing table, lookups |

**Doing an operation once** (pkg/operationjournal, pkg/clients,
examples/a2a-multiprocess).

| module | code | state and actions |
|---|---|---|
| OperationJournal, JournalCalls | pkg/operationjournal FileStore | the file's contents as operators; calls with failed replacement, failed sync, power loss |
| RedisJournal | production.RedisAcceptanceStore | the Lua scripts, WAIT, failover; compared with the FileStore methods |
| SessionIdentity | clients/identity_jwt, atls/identitypolicy | verification of grant and session proof over three kinds of replay caches |
| A2AOperation | the draft-06 exchange | challenge, issue, verify, accept, start, finish, retry |

**Deciding and using authority** (pkg/leastprivilege, internal/s3product,
authority quorum, internal/humanapp).

| module | code | state and actions |
|---|---|---|
| PrivilegeModel, PrivilegeSearch, PrivilegeCertificate | solver, verifier, certificate | the branch-and-bound and its checkers as machines over all small problems |
| AuthorityQuorum | authority quorum service and store | submissions, consumption, revocation, policy rotation between steps |
| ExecutionMethods, LeastPrivilegeService | asbbinding, durable store | mandates, capabilities, claims, effects, reconciliation over failing writes |
| S3Authority | internal/s3product, SQLite journal | serving processes, drain, backup, cleanup, restore |
| HumanApp, HumanFiles | internal/humanapp, cmd/asb-human | Agent runs, receipts, pages, decisions; initialization, credential rotation, archives |

**Running Agents** (agent, manager).

| module | code | state and actions |
|---|---|---|
| AgentService | agent/service, statemachine, runner | the state machine's loop, its actions, late responses, Stop |
| AgentServer | agent/cvms/server, agent/auth | run markers on disk, server start and stop, nonces of calls |
| Manager | manager, manager/qemu, manager/vm | create, expire, remove, shutdown, restart, records of VMs |

Modules interact in three ways. HumanRelay *extends* Reachability and the
dispatchers *extend* OperationJournal, so that a step of the upper one reads and
writes the real state of the lower one. RedisJournal *instantiates* the file
journal, so that every Lua script is compared with the method it replaces.
And the MC modules put several components next to each other in one run, each
on its own variables: `instance` says to which a behaviour belongs. A cfg only
gives values to constants; it never replaces a definition.

## 2. The runs

| run | instances in it | what it shows |
|---|---|---|
| tasks | one: two participants and two Assignments | of the callers that start from one revision one is acknowledged; what is exported can be restored; identities and histories never change |
| actions | FENCING, LIFECYCLE, DEPENDENCIES, ACCEPTANCE | live leases do not overlap; a write still rests on what it was derived from; the code's checks accept its own work; no unfinished Action is stuck; every acceptance answer is the same |
| delivery | SQLITE, CHAIN, ROWS, THREAD | deliveries are the committed mutations, one live holder at a time, never settled by a worker whose lease is gone; on Redis what was answered is on every node and rivals are serialized |
| relay | DIRECTORY, RACES, CRASHES; LEASES, NAMES, EPOCHS, LOCATE | one provider call per intent and grant, under a standing grant; nothing is stored that a restart refuses, and what was answered from a synced file is never lost; a withdrawn Agent stays gone |
| journal | DECISIONS, RETRIES, NONCES, EMAIL, SCRIPTS, FAILOVERS, KEYS; MEMORY_V1, STORE_V1, MEMORY_V2, DIRECTORY_V2, EXCHANGE | an executor starts once, a firm decision is final, nothing is done twice, answers stay true, what is accepted is genuine |
| authority | SEARCH, CERTIFICATE, QUORUM; RECEIPTS, REVIEWS, RETRIES, SESSIONS, EXPIRY, CAPACITY, MAINTENANCE, EXPORTS, VERIFICATION; ROUTING, LOOKUP | searches and certificates are exact against an exhaustive definition; a quorum is genuine; the approval application decides each proposal once, on the revision it shows, and has room left for every decision |
| execution | COMPETING, OUTCOMES; RESTORE, POLICIES, BACKUP; MACHINES, FAILURES | at most one effect per mandate and operation; the recorded outcome is the real one; dispatch only under the installed mandate; backups and VMs are accounted for |
| ingress | RECOVERY, PLAIN, REGISTRY | event, outcome and replay record appear together; answers are true; challenge limits are exact; a commit is the only one of its proof, by a request that last saw challenge and proof in force |
| agent | the lifecycle without and with an ingress proxy; the server | a run has nothing of the one before; a stopped algorithm starts no command, not even its next one; a run id is served once, a proof is good for one call |
| progress | ROWS, INTENTS, DRAIN, INGRESS, PEERS | outbox rows, relay intents and requests are settled, a draining authority stops, gossiping nodes agree |
| bypass | (expected violation) | see section 6 |
| journal_retry | (expected violation) | see section 6 |

A run's instances have no variables in common that both change, and each is
explored completely: TLC finishes every run with an empty queue. Each property
says for which instances it speaks. For every property there is a mutation of a
mapped definition (marked `Mutation` in the modules) under which TLC reports it
violated.

### Bounds

All bounds are named constants or named sets of the MC modules.

* *Two of a kind.* Two callers, processes, consumers, nodes or handlers race; a
  third would repeat the role of one of them. Where more matter there are more:
  three edges of a dependency wait, three connections in REGISTRY (two of one
  client, so that a client cannot gain room by opening another), four nodes in LOCATE.
* *Tasks.* At most four racing requests with two unanswered, chains of five
  requests, one interaction thread, one point in time (the store only carries it).
  Interactions, and participants who are suspended or may not delegate, go with
  one request. Two Assignments suffice for a cycle of
  delegations.
* *Constraints.* `tasks` and `delivery` use identifiers in the order of their numbers,
  which stands for a symmetry TLC could not reduce otherwise. `actions` starts its
  clock with the first Action and follows at most one call (none in LIFECYCLE, where
  calls come one after the other) that was overtaken between its two steps;
  only FENCING lets an Assignment end.
* *Time* is a small counter. Each instance with deadlines has room for: before the
  deadline, at it, after it, and a step back where the code must stand a clock
  that is set back (journal, relay). SessionIdentity counts half-seconds because
  one of its caches counts whole ones.
* *Faults* (crashes, power losses, failed syncs, failovers, lost answers) are
  bounded by one to three per behaviour and may fall between any two steps.
  A second fault matters where one fault is repaired by a step that may fail too.
* *Agent*: two generations, two run calls, one caller. A file that cannot be removed is
  met in both instances, a directory (`Stuck`) behind the proxy. *Exchange*: challenges live
  one tick and the clock makes two. *Search*: three permissions, tight budgets,
  all claims and all certificates up to the length that can be accepted.

Larger instances that were explored without an error and are too slow to keep:
the Agent with files and directories that cannot be removed in both instances (1.6
million states), three VMs
(5.9 million), the manager stopped twice (0.4 million), three approval runs with a
fault (2.7 million), COMPETING with a longer clock, LEASES with a fault.

### Deadlock

It is checked except where the system may really stop. In `actions`, every Action
ends. In `journal`, the operations are decided and the clock is at its end. In
`authority`, a search ends, and the person's logins and commands are bounded. In
`execution`, mandates are used up and processes end. In `agent`, generations are
bounded.

### Symmetry

Model values that no definition tells apart are permuted in the safety
runs. `progress` uses no symmetry.

## 3. Fairness

Only `progress` assumes any. Part of it the code does by itself; the rest is asked of
those who call it, and no loop of the repository provides it:

* *Rows* (callers). Consumers keep polling and acknowledge what they hold, an
  operator isolates rows that cannot be decoded (the documented procedure), and time
  passes. In the repository only tests call the outbox; a deployment brings the
  consumer. Nobody has to restore a row. All weak fairness.
* *Intents*. An operation that was begun goes on (the code, weak). A fenced handle is
  reopened, and a worker comes back to whatever `Pending` lists (callers: the
  worker is the deployment's). Dispatch and reconciliation of an intent that is
  possible again and again are tried at last: strong fairness, because the polled file
  lock is taken and released by others in between.
* *Drain*: a request has a deadline and `stopAndWait` is deferred, so an admitted
  request proceeds and a drained authority stops (weak).
* *Ingress*: a handler proceeds; SQLite's busy timeout ends a wait for the writer (weak).
* *Peers*: both nodes are up again and again (the operator), the ticker of one keeps
  gossiping (the code), and some of its exchanges get through (the network). Stated as
  fairness of the effects, since ENABLED of a whole gossip exchange is too costly for TLC.
  Two Agents that want one name, and two contents under one version, block an exchange
  until one is withdrawn or lapses, so agreement is claimed without such a conflict.

## 4. What is proved

Eight modules hold the proofs. Each theorem is about the specification the runs
instantiate, for every value of the constants that satisfies the named
hypothesis. TaskStore states its hypotheses as `ASSUME`s; the other components
have a definition `ConstantsOK` (`DirectoryConstantsOK` for the directory), which the
runs evaluate on the instances. It says no more than that bounds are naturals, that
"nobody" is not somebody and that requests have the fields they should have. No set is
assumed finite unless the code counts it. The inductive invariants are checked
by the runs too, on every instance a theorem speaks of.

Every proof has the same shape: `Init => IndInv`, one lemma per action (and under
it one per conjunct the action can disturb) for `IndInv /\ [Next]_vars => IndInv'`, and
the property from IndInv.

**TaskStoreTheorems.** `Invariant`, `TypeCorrect`, `NoLostUpdate`
(OneWinnerPerRevision), `NoForgottenCommit`, `MachineMatchesStore`, `NoDelegationCycle`,
`TerminalForGood`, `HistoryForGood` (IdentityIsImmutable). No lost update does not follow
from the compare-and-set alone, because a repeated request is answered from the
event log. IndInv therefore says that requests were prepared from a revision the
Assignment has had, that events are stored under their own identifier, that no two
events made one revision, and that what was acknowledged is in the log. Acyclicity needs
that parents exist: the new child of a delegation is then nobody's parent yet.

**RelaySteps** (the directory and the relay's step lemmas). `DirectoryInvariant`,
`DirectoryStaysRestorable`, `OneConsentAtATime`, `NoStaleAnswer`: whatever order of
consents, withdrawals, grants and revocations is accepted, restore accepts the
result, a candidate denotes one Human, and a read that looks twice answers nothing
withdrawn or revoked at its second lock, nor anything that was out of its window at the
clock reading made before that lock.

**RelayTheorems.** `Invariant`, `OneCallPerGrant` (OneAttempt), `ReservedBeforeCall`,
`StoreStaysLoadable`, `CallUnderStandingGrant` (AttemptIsAuthorized). At the center is
AttemptIsRecorded: when the provider is called, *every* content a power loss may leave
has the intent reserved. StoreStaysLoadable also says that the record of a receipt read
from a synced file is in every content that may survive, and PowerLoss leaves
receipts alone. The strengthening relates the contents that may survive to the
newest one, and each process to the locks its place in the code implies.

**JournalTheorems.** `Invariant`, `ExecutorRunsOnce` (StartedOnce), `DecisionIsFinal`
(FirmDecisionIsFinal), `NoOperationIsStuck` hold for clocks that go anywhere.
`NonceAdmitsOnce` and `AcceptanceSurvives` also assume `ForwardClock`, as an expired
nonce is pruned and a clock set back makes its proof valid again; TLC checks them on
instances with such a clock. The argument is again about all contents that may survive.

**QuorumTheorems.** `Invariant`, `GenuineQuorum` (QuorumIsGenuine), `LongestQuorum`,
`GrantedOnce`, `ClosedForGood`: approvals kept for a decision are distinct and valid
under the policy they were bound to; a consumption is one quorum among them, the one
accepted longest.

**IngressTheorems.** `Invariant`, `AtomicOutcome` (OutcomeIsAtomic), `TrueAnswers`
(AnswersAreTrue), `ExactCounts`, `AuthorityAtCommit`
(AuthorizedWhenCommitted, which CommitsAreAuthorized checks on both kinds of store).
IndInv says who may hold a challenge (the
registry, or one handler), which makes a challenge good once; that the handlers inside a
transaction are the one that has the writer's lock, and that what the transaction
found is still so while it waits for COMMIT (`Ready`); and that the counters are the
cardinalities of the outstanding challenges, which needs the theorems on finite sets.

**AgentTheorems.** `Invariant`, `OneServerOneCall` (ProofsAreGoodOnce): an accepted proof
is spent because its run is over, its time is, or its nonce is remembered for as
long; a served run id is on disk before it is served.

**OutboxTheorems.** `Invariant`, `SoundDeliveries` (DeliveriesAreSound), `OnlyLiveWorkers`
(StaleWorkerNeverSettles): for any number of consumers, leases and decayed rows. IndInv
connects a consumer's delivery with the lease it was given under and with the
committed mutation, and a quarantined row with its corrupted original.

### Only model-checked

* Liveness (`progress`): fairness is out of the prover's reach.
* SearchesAreExact: exactness of searches, certificates, routing and lookups for every
  input is an induction over data, which the prover cannot do.
* ActionStore, the Redis stores, EmailDispatcher, SessionIdentity, A2AOperation,
  LeastPrivilegeService, S3Authority, HumanApp, HumanFiles, AgentService, Manager and
  DiscoveryNode: their invariants have been checked by TLC and no inductive
  strengthening has been written. Of TaskStore, ExportIsRestorable replays a log of any
  length (an induction), and DelegationIsAtomic and InteractionLineage are checked only.

## 5. Abstractions

Common to all modules. A digest or a signature stands for what it is taken of, so two
are equal exactly when the contents are. Random identifiers do not collide. JSON
strictness, wording, sizes of records and log lines are left out. What runs under one
mutex or in one SQLite transaction is one step. A read that the code makes before
the lock is a step before it, and what it returned may be old by then.

* **TaskStore, ActionStore.** The clock is shared and monotone. An event is dated when
  its call begins. `Service.Load` reads Assignment and Action separately, which is
  harmless because commits compare again. Restore stands for a crash.
* **Outbox.** Decay of a stored row is a step of its own, since the code checks for it.
* **Reachability, HumanRelay.** The participant registry is constant. `Issue` reads
  the clock before the lock, and so do both reads before their second look: what they
  answer was in its window at that reading, and may have expired when the lock is
  granted. Match limits, the marker in the lock file and the record limit are left out. A
  receipt says whether the file it was read from was synced. One from a file that was
  renamed and not synced may be gone after a power loss
  (docs/agent-to-human-relay-v1.md:242 calls the result unknown); it is never
  turned into another request's.
* **Journals.** A FileStore call is one step under its path lock; record and replay
  limits, revision numbers, digest syntax and the legacy schema are left out. On Redis
  an answer IDEMPOTENT or EXISTING is not waited for, so finality speaks of decisions
  whose own WAIT succeeded. With fewer acknowledgements than replicas the store
  promises nothing over failovers. Milliseconds are not truncated. Time stands still in
  EmailDispatcher.
* **SessionIdentity.** The V1 memory cache reads the clock before its lock, so its
  promise ends with the proof's expiry; V2 looks again and promises it for good. A
  memory cache promises nothing over a crash.
* **A2AOperation.** Issuance is one step. A lost answer of MarkRunning leaves the
  operation RUNNING for good: the executor is not started again, by design.
  Wire formats, the agent card and hardware evidence are left out.
* **LeastPrivilegeService, S3Authority.** Policies outlive a crash; there is no
  NotBefore. Power loss below SQLite is left out. Pruning is committed even when Prepare
  finds its record. The configuration is read before the lock.
* **HumanIngress.** A client is its key. The machine's verdict is a free choice
  (`lawful`), except for what the commit re-checks. A transaction looks at the clock for
  the last time under the writer's lock and COMMIT follows; on a plain store the last look
  is before the store's own lock. Neither promises that the proof is in force at the
  instant of the commit, and the property speaks of the last look. Participants are
  registered and never removed, so registration cannot be lost between check and commit
  and is not claimed. CHALLENGE_REJECTED is not an answer about an operation: it says nothing
  of an earlier request that used the challenge. The plain store and the shared replay
  cache outlive a crash.
* **HumanApp, HumanFiles.** A CSRF token stands for its session. Replay records and
  pending challenges are counted per expiry. HumanFiles has process stops and no power
  loss: some directories are not synced, after which the code refuses to
  start. Windows variants are left out.
* **Discovery.** One clock for all nodes; rate limits, mTLS and audit failures are
  connections that break. A newer version with a shorter lease ends the protection of
  a withdrawal (docs/agtp-discovery-product-profile.md), so WithdrawnStaysGone ends
  with it. A snapshot of the same epoch put back is not noticed, as documented.
  A node nearest to its own target may be told of nobody but itself. Reading a snapshot
  does not sync it: a node that starts on one that was renamed only answers from it and may
  lose it in a power loss, so that its answers are promised over restarts only.
* **AgentService, AgentServer.** 100 ms sleeps are loops at rest. A loop that decided
  before Reset may still write its state afterwards, and the idle Agent then
  refuses runs. It may even schedule a run in the idle Agent, which fails for want of a
  file or, if the file of the run before could not be removed, is refused by the
  runner for want of a type. A run that fails before the runner is asked (Getwd, Mkdir,
  the file) deletes its algorithm file like one that was answered. A failing removal is
  only a warning: the file stays until the next algorithm replaces it, a results
  directory until the next stop removes it, and every run before that fails. What a Run call
  knew besides its answer is forgotten with it. A remote algorithm fetched twice ends the
  loop. The ingress proxy starts once per process. The clock is read twice, so a proof
  presented exactly at its expiry may pass again: the property counts acceptances before it.
* **Manager.** Pids are reused (manager/README.md documents it). Create ends the process
  when a timer removed its machine meanwhile. A restored VM is not a child, so its
  Stop fails to wait and it stays listed until the next restart. A crash between Start
  and SaveVM leaves an unrecorded VM. Ports are probed and not held, so two machines may be
  given one and no exclusiveness is claimed. A machine the restart cannot attach to keeps
  its record and runs on unserved until a later restart. Directories whose removal failed
  are left behind, and the firmware variables copied for a machine always are. TTLs
  are not restored. QEMU arguments and host reboots are left out.

## 6. Findings

* `bypass`. "The Service rejects dependency WAIT or RESUME through the ordinary
  transition method, so the topology checks cannot be bypassed accidentally"
  (docs/task-action-lifecycle-v1.md:223-225). PAUSE of a waiting Action clears its
  resume condition (machine.go:155-169), after which the ordinary RESUME is accepted
  (service.go:110-114): the Action runs with no dependency compared.
* `journal_retry`. "a different terminal state or outcome digest is a conflict"
  (file_store.go:263): a Finalize whose directory sync fails is answered as done when it is
  retried, without another sync, and after a power loss a different decision is accepted.

Two smaller differences have no run. docs/least-privilege-durability.md:31-33 says
that each transaction syncs before it acknowledges success, and durable_store.go returns
without writing or syncing when nothing changed. docs/authority-quorum-binding-v1.md has the store's transaction
load the current policy, and Service.Consume resolves it before the store's lock; the
model does as the code does.

## 7. Not modelled

Token encodings (AGTP JWT and CWT) and gateway routes; attested TLS and
evidence appraisal, whose guarantees are cryptographic; production profiles; the
attestation service; traffic proxies; model runtimes and OCI images; the AWS driver,
which is an executor with a free outcome to the models; the CVMS stream's chunks and
reconnection; command lines; encoders and archives; the other demonstrations; generated
code; release scripts. They are stateless, pure I/O, or data below what the models
tell apart; `PROJECT.json` gives the reason for each.
