----------------------------- MODULE S3Authority -----------------------------
(***************************************************************************)
(* The S3 product (internal/s3product): authority processes that serve     *)
(* operations from SQLite execution journals (pkg/leastprivilege), and the *)
(* administration of those journals by backup, recovery and restore.       *)
(*                                                                         *)
(* A journal directory belongs to a namespace, and every operation and     *)
(* mandate ID begins with one: an ID is [ns, name].  A SQLite transaction  *)
(* is one step.  A handler of an authority runs as in                      *)
(* LeastPrivilegeService; its session proof, the expiries and the nonces   *)
(* are that module's subject and left out here.  Processes may be killed   *)
(* between any two steps; the journals themselves survive.                 *)
(***************************************************************************)
EXTENDS Naturals, FiniteSets

CONSTANTS
    Namespace, Mandate, MandateRecord, Operation, Evidence, None,
    Directory,         \* paths of journal directories
    First, Origin,     \* the directory init-store made, and its namespace
    Config,            \* the configurations an operator may write: [directory, namespace, mandates]
    Process,           \* runs of asb-s3 serve
    Slot,              \* request slots of an authority
    Admin,             \* runs of asb-s3 backup and restore
    Archive            \* paths of published backups

VARIABLES
    stores,            \* the journal directories
    lock,              \* who holds authority.lock of each
    authority,         \* the authority processes
    handler,           \* their request handlers
    admin,             \* the administration processes
    backupLock,        \* who holds .asb-s3-backup.lock
    workspace,         \* the temporary workspace of each backup run
    archives,          \* the published backups
    issued,            \* the namespaces ever drawn
    dispatched         \* how often an effect ran under each mandate

vars == <<stores, lock, authority, handler, admin, backupLock, workspace, archives, issued, dispatched>>

Journal == INSTANCE ExecutionMethods WITH Nonce <- {}, Capacity <- Cardinality(Mandate) + Cardinality(Operation)

\* One journal and its metadata.  A directory with restore.pending is PENDING.
NoStore == [status |-> "NONE"]
NewStore(ns) ==
    [status |-> "READY", namespace |-> ns, sealed |-> FALSE, journal |-> Journal!EmptyFile,
     mandates |-> [m \in Mandate |-> [digest |-> None, revoked |-> FALSE]]]

Off == [at |-> "OFF"]
Free == [at |-> "FREE"]

\* privateSQLitePath and the metadata check of OpenSQLiteStore
Openable(store) == store.status = "READY" /\ ~store.sealed
-----------------------------------------------------------------------------
(* asb-s3 serve *)

\* The configuration is read and the journal opened.
Open(p, config) ==
    /\ authority[p] = Off
    /\ Openable(stores[config.directory]) /\ stores[config.directory].namespace = config.namespace
    /\ authority' = [authority EXCEPT ![p] = [at |-> "OPENED", config |-> config]]
    /\ UNCHANGED <<stores, lock, handler, admin, backupLock, workspace, archives, issued, dispatched>>

Fail(p) == authority' = [authority EXCEPT ![p] = [at |-> "ENDED"]]

\* authorityLock: exclusive and without waiting.
Lock(p) ==
    LET d == authority[p].config.directory
    IN  /\ authority[p].at = "OPENED"
        /\ IF lock[d] = None
           THEN lock' = [lock EXCEPT ![d] = p] /\ authority' = [authority EXCEPT ![p].at = "LOCKED"]
           ELSE UNCHANGED lock /\ Fail(p)
        /\ UNCHANGED <<stores, handler, admin, backupLock, workspace, archives, issued, dispatched>>

\* A mandate may be installed when it is new, or unchanged and not revoked.
Admissible(store, record) ==
    store.mandates[record.id].digest # None =>
        store.mandates[record.id].digest = record /\ ~store.mandates[record.id].revoked

\* All mandates of the namespace are revoked, and the given ones installed.
Synced(store, records) ==
    [m \in Mandate |->
        IF \E r \in records : r.id = m
        THEN [digest |-> CHOOSE r \in records : r.id = m, revoked |-> FALSE]
        ELSE [store.mandates[m] EXCEPT !.revoked = (@ \/ (m.ns = store.namespace /\ store.mandates[m].digest # None))]]

\* SyncMandates, then the server starts.
Serve(p) ==
    LET c     == authority[p].config
        store == stores[c.directory]
    IN  /\ authority[p].at = "LOCKED"
        /\ IF \A r \in c.mandates : r.id.ns = c.namespace /\ Admissible(store, r)
           THEN /\ stores' = [stores EXCEPT ![c.directory].mandates = Synced(store, c.mandates)]
                /\ authority' = [authority EXCEPT ![p].at = "SERVING"]
                /\ UNCHANGED lock
           ELSE /\ Fail(p) /\ lock' = [lock EXCEPT ![c.directory] = None]
                /\ UNCHANGED stores
        /\ UNCHANGED <<handler, admin, backupLock, workspace, archives, issued, dispatched>>

\* The maintenance signal, or a server that fails: no request is admitted any more.
StopAdmission(p) ==
    /\ authority[p].at = "SERVING"
    /\ authority' = [authority EXCEPT ![p].at = "DRAINING"]
    /\ UNCHANGED <<stores, lock, handler, admin, backupLock, workspace, archives, issued, dispatched>>

Drained(p) == \A s \in Slot : handler[p][s] = Free

\* stopAndWait, then the lock is closed.
Stop(p) ==
    /\ authority[p].at = "DRAINING" /\ Drained(p)
    /\ lock' = [lock EXCEPT ![authority[p].config.directory] = None]
    /\ authority' = [authority EXCEPT ![p].at = "ENDED"]
    /\ UNCHANGED <<stores, handler, admin, backupLock, workspace, archives, issued, dispatched>>

\* The process is killed: its handlers end and the system closes its lock.
Kill(p) ==
    /\ authority[p].at \in {"OPENED", "LOCKED", "SERVING", "DRAINING"}
    /\ lock' = [d \in Directory |-> IF lock[d] = p THEN None ELSE lock[d]]
    /\ Fail(p)
    /\ handler' = [handler EXCEPT ![p] = [s \in Slot |-> Free]]
    /\ UNCHANGED <<stores, admin, backupLock, workspace, archives, issued, dispatched>>
-----------------------------------------------------------------------------
(* A request *)

Store(p) == stores[authority[p].config.directory]

Commit(p, effect) ==
    stores' = [stores EXCEPT ![authority[p].config.directory].journal = effect.file]

Go(p, s, step) == handler' = [handler EXCEPT ![p][s] = step]

Admitting(p) == authority[p].at = "SERVING"

\* requestGate.ServeHTTP takes a slot; withPolicy finds the mandate.
Admit(p, s, o, r) ==
    /\ Admitting(p) /\ handler[p][s] = Free
    /\ r \in authority[p].config.mandates
    /\ Go(p, s, [at |-> "PREPARE", operation |-> o, mandate |-> r])
    /\ UNCHANGED <<stores, lock, authority, admin, backupLock, workspace, archives, issued, dispatched>>

InNamespace(p, o, r) ==
    o.ns = authority[p].config.namespace /\ r.id.ns = authority[p].config.namespace

Prepare(p, s) ==
    LET h      == handler[p][s]
        effect == Journal!Prepare(Store(p).journal, h.operation, h.mandate, 1)
    IN  /\ h.at = "PREPARE"
        /\ IF InNamespace(p, h.operation, h.mandate) /\ effect.error = "OK"
           THEN /\ Commit(p, effect)
                /\ Go(p, s, IF effect.record.state = "ACCEPTED" THEN [h EXCEPT !.at = "START"] ELSE Free)
           ELSE Go(p, s, Free) /\ UNCHANGED stores
        /\ UNCHANGED <<lock, authority, admin, backupLock, workspace, archives, issued, dispatched>>

Start(p, s) ==
    LET h      == handler[p][s]
        effect == Journal!Start(Store(p).journal, h.operation, h.mandate)
    IN  /\ h.at = "START"
        /\ IF effect.error = "OK" /\ (effect.fresh => InNamespace(p, h.operation, h.mandate))
           THEN Commit(p, effect) /\ Go(p, s, IF effect.fresh THEN [h EXCEPT !.at = "DISPATCH"] ELSE Free)
           ELSE Go(p, s, Free) /\ UNCHANGED stores
        /\ UNCHANGED <<lock, authority, admin, backupLock, workspace, archives, issued, dispatched>>

\* The effect is called, and what the adapter reports is recorded.
Dispatch(p, s) ==
    LET h == handler[p][s]
    IN  /\ h.at = "DISPATCH"
        /\ dispatched' = [dispatched EXCEPT ![h.mandate.id] = @ + 1]
        /\ Go(p, s, [h EXCEPT !.at = "COMPLETE"])
        /\ UNCHANGED <<stores, lock, authority, admin, backupLock, workspace, archives, issued>>

\* A canceled context seen before the effect: it is not called.
Withhold(p, s) ==
    /\ handler[p][s].at = "DISPATCH"
    /\ Go(p, s, [handler[p][s] EXCEPT !.at = "COMPLETE"])
    /\ UNCHANGED <<stores, lock, authority, admin, backupLock, workspace, archives, issued, dispatched>>

Complete(p, s, outcome, evidence) ==
    LET h      == handler[p][s]
        effect == Journal!Complete(Store(p).journal, h.operation, h.mandate, outcome, evidence)
    IN  /\ h.at = "COMPLETE"
        /\ (outcome = "UNKNOWN") = (evidence = None)
        /\ Commit(p, effect) /\ Go(p, s, Free)
        /\ UNCHANGED <<lock, authority, admin, backupLock, workspace, archives, issued, dispatched>>
-----------------------------------------------------------------------------
(* asb-s3 backup *)

AdminIdle(a) == admin[a] = Off
AdminGo(a, step) == admin' = [admin EXCEPT ![a] = step]
Ended(a) == AdminGo(a, [at |-> "ENDED"])

Lost == [status |-> "GONE"]    \* no workspace, or one that was removed

\* recoverSQLiteBackups: every marked workspace goes, bare ones stay.
Recovered(ws) == [a \in Admin |-> IF ws[a].status = "MARKED" THEN Lost ELSE ws[a]]

\* Mutation: recovery does not wait for the run that holds the lock.
MayRecoverAnyway == TRUE

MayRecover == backupLock = None

BeginBackup(a, d, archive) ==
    /\ AdminIdle(a) /\ Openable(stores[d])
    /\ IF MayRecover
       THEN /\ backupLock' = a
            /\ workspace' = [Recovered(workspace) EXCEPT ![a] = [status |-> "BARE"]]
            /\ AdminGo(a, [at |-> "CREATING", directory |-> d, archive |-> archive, namespace |-> stores[d].namespace])
       ELSE Ended(a) /\ UNCHANGED <<backupLock, workspace>>
    /\ UNCHANGED <<stores, lock, authority, handler, archives, issued, dispatched>>

\* newBackupWorkspace: the owner marker makes the directory recoverable.
MarkWorkspace(a) ==
    /\ admin[a].at = "CREATING"
    /\ workspace' = [workspace EXCEPT ![a] = [status |-> "MARKED", payload |-> None]]
    /\ AdminGo(a, [admin[a] EXCEPT !.at = "SNAPSHOT"])
    /\ UNCHANGED <<stores, lock, authority, handler, backupLock, archives, issued, dispatched>>

Snapshot(a) ==
    /\ admin[a].at = "SNAPSHOT"
    /\ workspace' = [workspace EXCEPT ![a] = [status |-> "MARKED", payload |-> stores[admin[a].directory]]]
    /\ AdminGo(a, [admin[a] EXCEPT !.at = "SEAL"])
    /\ UNCHANGED <<stores, lock, authority, handler, backupLock, archives, issued, dispatched>>

Seal(a) ==
    /\ admin[a].at = "SEAL"
    /\ workspace' = [workspace EXCEPT ![a].payload.sealed = TRUE]
    /\ AdminGo(a, [admin[a] EXCEPT !.at = "PUBLISH"])
    /\ UNCHANGED <<stores, lock, authority, handler, backupLock, archives, issued, dispatched>>

\* The hard link never replaces a backup.
Publish(a) ==
    LET path == admin[a].archive
    IN  /\ admin[a].at = "PUBLISH" /\ archives[path] = NoStore
        /\ archives' = [archives EXCEPT ![path] = workspace[a].payload]
        /\ AdminGo(a, [admin[a] EXCEPT !.at = "PUBLISHED"])
        /\ UNCHANGED <<stores, lock, authority, handler, backupLock, workspace, issued, dispatched>>

BackupStages == {"CREATING", "SNAPSHOT", "SEAL", "PUBLISH", "PUBLISHED"}

\* The run ends, by an error before its publication or after it.  It removes
\* the workspace when it could be set up; a kill leaves it.
EndBackup(a) ==
    /\ admin[a].at \in BackupStages
    /\ backupLock' = None /\ Ended(a)
    /\ \/ admin[a].at # "CREATING" /\ workspace' = [workspace EXCEPT ![a] = Lost]
       \/ UNCHANGED workspace
    /\ UNCHANGED <<stores, lock, authority, handler, archives, issued, dispatched>>

\* asb-s3 cleanup-backups
CleanupBackups ==
    /\ MayRecover
    /\ workspace' = Recovered(workspace)
    /\ UNCHANGED <<stores, lock, authority, handler, admin, backupLock, archives, issued, dispatched>>
-----------------------------------------------------------------------------
(* asb-s3 restore *)

BeginRestore(a, archive, d) ==
    /\ AdminIdle(a)
    /\ archives[archive] # NoStore /\ stores[d] = NoStore
    /\ stores' = [stores EXCEPT ![d] = [NewStore(None) EXCEPT !.status = "PENDING"]]
    /\ AdminGo(a, [at |-> "COPY", archive |-> archive, directory |-> d])
    /\ UNCHANGED <<lock, authority, handler, backupLock, workspace, archives, issued, dispatched>>

\* The copy is refused unless it is the sealed backup.
Copy(a) ==
    /\ admin[a].at = "COPY"
    /\ stores' = [stores EXCEPT ![admin[a].directory] = [archives[admin[a].archive] EXCEPT !.status = "PENDING"]]
    /\ IF archives[admin[a].archive].sealed THEN AdminGo(a, [admin[a] EXCEPT !.at = "ROTATE"]) ELSE Ended(a)
    /\ UNCHANGED <<lock, authority, handler, backupLock, workspace, archives, issued, dispatched>>

Rotated(store, ns) == [store EXCEPT !.namespace = ns, !.sealed = FALSE]

Rotate(a, ns) ==
    /\ admin[a].at = "ROTATE" /\ ns \in Namespace \ issued
    /\ stores' = [stores EXCEPT ![admin[a].directory] = Rotated(@, ns)]
    /\ issued' = issued \cup {ns}
    /\ AdminGo(a, [admin[a] EXCEPT !.at = "UNMARK"])
    /\ UNCHANGED <<lock, authority, handler, backupLock, workspace, archives, dispatched>>

RemoveMarker(a) ==
    /\ admin[a].at = "UNMARK"
    /\ stores' = [stores EXCEPT ![admin[a].directory].status = "READY"]
    /\ Ended(a)
    /\ UNCHANGED <<lock, authority, handler, backupLock, workspace, archives, issued, dispatched>>

\* An error or a kill leaves the directory as it is.
AbandonRestore(a) ==
    /\ admin[a].at \in {"COPY", "ROTATE", "UNMARK"} /\ Ended(a)
    /\ UNCHANGED <<stores, lock, authority, handler, backupLock, workspace, archives, issued, dispatched>>
-----------------------------------------------------------------------------
Init ==
    /\ stores = [d \in Directory |-> IF d = First THEN NewStore(Origin) ELSE NoStore]
    /\ lock = [d \in Directory |-> None]
    /\ authority = [p \in Process |-> Off]
    /\ handler = [p \in Process |-> [s \in Slot |-> Free]]
    /\ admin = [a \in Admin |-> Off] /\ backupLock = None
    /\ workspace = [a \in Admin |-> Lost]
    /\ archives = [x \in Archive |-> NoStore]
    /\ issued = {Origin} /\ dispatched = [m \in Mandate |-> 0]

Request(p, s) ==
    \/ \E o \in Operation, r \in MandateRecord : Admit(p, s, o, r)
    \/ Prepare(p, s) \/ Start(p, s) \/ Dispatch(p, s) \/ Withhold(p, s)
    \/ \E outcome \in {"SUCCEEDED", "FAILED", "UNKNOWN"}, e \in Evidence \cup {None} : Complete(p, s, outcome, e)

Authority(p) ==
    \/ \E c \in Config : Open(p, c)
    \/ Lock(p) \/ Serve(p) \/ StopAdmission(p) \/ Stop(p) \/ Kill(p)

Administration(a) ==
    \/ \E d \in Directory, x \in Archive : BeginBackup(a, d, x) \/ BeginRestore(a, x, d)
    \/ MarkWorkspace(a) \/ Snapshot(a) \/ Seal(a) \/ Publish(a) \/ EndBackup(a)
    \/ Copy(a) \/ RemoveMarker(a) \/ AbandonRestore(a)
    \/ \E ns \in Namespace : Rotate(a, ns)

Next ==
    \/ \E p \in Process : Authority(p) \/ \E s \in Slot : Request(p, s)
    \/ \E a \in Admin : Administration(a)
    \/ CleanupBackups

Spec == Init /\ [][Next]_vars

\* A request runs in its own goroutine and its steps have deadlines; Serve's
\* deferred calls run once the last one has left.
Proceed(p, s) ==
    Prepare(p, s) \/ Start(p, s) \/ Dispatch(p, s) \/ Complete(p, s, "UNKNOWN", None)

FairSpec ==
    /\ Spec
    /\ \A p \in Process : WF_vars(Stop(p)) /\ \A s \in Slot : WF_vars(Proceed(p, s))

TypeOK ==
    /\ \A d \in Directory :
           stores[d] # NoStore =>
               /\ stores[d].status \in {"READY", "PENDING"} /\ stores[d].namespace \in issued \cup {None}
               /\ \A o \in Operation : stores[d].journal.executions[o].state \in Journal!State
    /\ lock \in [Directory -> Process \cup {None}] /\ backupLock \in Admin \cup {None}
    /\ \A p \in Process : authority[p].at \in {"OFF", "OPENED", "LOCKED", "SERVING", "DRAINING", "ENDED"}
    /\ \A a \in Admin :
           /\ admin[a].at \in {"OFF", "ENDED", "COPY", "ROTATE", "UNMARK"} \cup BackupStages
           /\ workspace[a].status \in {"GONE", "BARE", "MARKED"}
    /\ \A x \in Archive : archives[x] # NoStore => archives[x].sealed
-----------------------------------------------------------------------------
(***************************************************************************)
(* A mandate has at most one effect over all journals, the restored ones   *)
(* and the ones they were copied from included, even if their authorities  *)
(* run side by side (sqlite_backup_linux.go, RestoreSQLiteStore: "Old      *)
(* operation and mandate IDs cannot execute, including identities absent   *)
(* from the snapshot").                                                    *)
(***************************************************************************)
OneEffectAcrossRestores == \A m \in Mandate : dispatched[m] <= 1

(***************************************************************************)
(* Two journals that can be opened for execution never share a namespace,  *)
(* wherever a backup or a restore was interrupted.                         *)
(***************************************************************************)
NamespacesAreExclusive ==
    \A c, d \in Directory :
        Openable(stores[c]) /\ Openable(stores[d]) /\ c # d => stores[c].namespace # stores[d].namespace

(***************************************************************************)
(* An effect runs only under a mandate that its journal has as installed   *)
(* and not revoked at that moment, although authorities are stopped,       *)
(* killed and restarted with other policies (server_linux.go, Serve:       *)
(* "holds an exclusive authority lease until every handler has stopped").  *)
(***************************************************************************)
InstalledDispatch ==
    \A p \in Process, s \in Slot :
        Dispatch(p, s) =>
            Store(p).mandates[handler[p][s].mandate.id] = [digest |-> handler[p][s].mandate, revoked |-> FALSE]

RevokedNeverDispatched == [][InstalledDispatch]_vars

(***************************************************************************)
(* In one journal a revoked mandate stays revoked and an installed one     *)
(* keeps its contents (sqlite_policies_linux.go, SyncMandates: "previously *)
(* revoked or changed IDs cannot be reintroduced").                        *)
(***************************************************************************)
MandatesKept ==
    \A d \in Directory, m \in Mandate :
        stores[d].status = "READY" /\ stores[d].mandates[m].digest # None =>
            /\ stores'[d].mandates[m].digest = stores[d].mandates[m].digest
            /\ stores[d].mandates[m].revoked => stores'[d].mandates[m].revoked

MandatesAreFinal == [][MandatesKept]_vars

(***************************************************************************)
(* Recovery never takes the workspace of a run that is still at work       *)
(* (sqlite_backup_recovery_linux.go: "under the same exclusive lock used   *)
(* by Backup").                                                            *)
(***************************************************************************)
LiveWorkspaceKept ==
    \A a \in Admin : admin[a].at \in BackupStages \ {"CREATING"} => workspace[a].status = "MARKED"

(***************************************************************************)
(* While a backup is at work, the marked workspaces of all earlier,        *)
(* interrupted runs are gone: they cannot pile up.                         *)
(***************************************************************************)
LeftoversRemoved ==
    \A a, b \in Admin :
        a # b /\ admin[a].at \in BackupStages => workspace[b].status # "MARKED"

(***************************************************************************)
(* An authority that is told to stop stops: every request it admitted ends *)
(* and no new one holds it up.                                             *)
(***************************************************************************)
DrainEnds == \A p \in Process : authority[p].at = "DRAINING" ~> authority[p].at = "ENDED"
=============================================================================
