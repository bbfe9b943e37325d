---------------------------- MODULE MCExecution ----------------------------
(***************************************************************************)
(* Using authority, on small instances for TLC:                            *)
(*   COMPETING  two operations want one mandate that is replaced,          *)
(*              shortened and revoked                                      *)
(*   OUTCOMES   one operation is run, retried, canceled and reconciled     *)
(*              with every write fate and a crash                          *)
(*   RESTORE    a journal, its backup and the restored copy, all served    *)
(*   POLICIES   one journal served under policies that change              *)
(*   BACKUP     backups and cleanups interrupted anywhere                  *)
(*   MACHINES   the VM manager at its limit, a timer, a removal, a restart *)
(*   FAILURES   the VM manager when a file operation or a start fails      *)
(***************************************************************************)
EXTENDS Naturals, TLC

CONSTANTS p1, p2, p3, a1, a2, a3, None

VARIABLES
    instance,
    file, survivors, clock, policies, capabilities, call, admitted, effects, truth, told, crashes,
    stores, lock, authority, handler, admin, backupLock, workspace, archives, issued, dispatched,
    up, creating, vms, timers, expired, stopping, records, mounts, procs, removes, stops, faults, answered, condemned, warned

serviceVars == <<file, survivors, clock, policies, capabilities, call, admitted, effects, truth, told, crashes>>
storeVars == <<stores, lock, authority, handler, admin, backupLock, workspace, archives, issued, dispatched>>
managerVars == <<up, creating, vms, timers, expired, stopping, records, mounts, procs, removes, stops, faults,
                 answered, condemned, warned>>
vars == <<instance, serviceVars, storeVars, managerVars>>
-----------------------------------------------------------------------------
(* The execution service: one mandate in two versions. *)
Version(expires) == [id |-> "m1", action |-> "act", expires |-> expires]
OneAction(o) == "act"

Presents(nonce, mode, operation, expires) ==
    [nonce |-> nonce, mode |-> mode, operation |-> operation, mandate |-> "m1", expires |-> expires, retain |-> expires]

Competing == INSTANCE LeastPrivilegeService WITH
    Operation <- {"o1", "o2"}, Mandate <- {"m1"}, MandateRecord <- {Version(3), Version(2)},
    Nonce <- {"n1", "n2", "n3"}, Evidence <- {"e1"}, Capacity <- 4, Thread <- {p1, p2}, ActionOf <- OneAction,
    Proof <- {Presents("n1", "authorize", "o1", 2), Presents("n2", "execute", "o1", 3), Presents("n3", "execute", "o2", 2)},
    MaxTTL <- 1, MaxTime <- 2, MaxCrashes <- 0

Outcomes == INSTANCE LeastPrivilegeService WITH
    Operation <- {"o1"}, Mandate <- {"m1"}, MandateRecord <- {Version(4)},
    Nonce <- {"n1", "n2", "n3", "n4"}, Evidence <- {"e1"}, Capacity <- 5, Thread <- {p1, p2}, ActionOf <- OneAction,
    Proof <- {Presents("n1", "authorize", "o1", 4), Presents("n2", "execute", "o1", 4),
              Presents("n3", "execute", "o1", 4), Presents("n4", "reconcile", "o1", 4)},
    MaxTTL <- 3, MaxTime <- 1, MaxCrashes <- 1
-----------------------------------------------------------------------------
(* The S3 authority: two namespaces, two mandates. *)
Id(ns, name) == [ns |-> ns, name |-> name]
Mandates == {Id("ns1", "m"), Id("ns1", "n"), Id("ns2", "m")}
Operations == {Id("ns1", "o"), Id("ns2", "o")}
Rec(id, act) == [id |-> id, action |-> act, expires |-> 9]
Records == {Rec(id, "get") : id \in Mandates} \cup {Rec(Id("ns1", "n"), "put")}
Conf(d, ns, installed) == [directory |-> d, namespace |-> ns, mandates |-> installed]

\* The restored journal under its new namespace, and under the old one.
Restored == {Conf(d, ns, {Rec(Id(ns, "m"), "get")}) : d \in {"dir1", "dir2"}, ns \in {"ns1", "ns2"}}

\* One journal: a mandate is removed, brought back, changed.
Policies ==
    {Conf("dir1", "ns1", {Rec(Id("ns1", "m"), "get")}),
     Conf("dir1", "ns1", {Rec(Id("ns1", "m"), "get"), Rec(Id("ns1", "n"), "get")}),
     Conf("dir1", "ns1", {Rec(Id("ns1", "n"), "put")})}

Restore == INSTANCE S3Authority WITH
    Namespace <- {"ns1", "ns2"}, Mandate <- Mandates, MandateRecord <- Records, Operation <- Operations,
    Evidence <- {"e1"}, Directory <- {"dir1", "dir2"}, First <- "dir1", Origin <- "ns1", Config <- Restored,
    Process <- {p1, p2}, Slot <- {"s1"}, Admin <- {a1, a2}, Archive <- {"x1"}

Served == INSTANCE S3Authority WITH
    Namespace <- {"ns1", "ns2"}, Mandate <- Mandates, MandateRecord <- Records, Operation <- Operations,
    Evidence <- {"e1"}, Directory <- {"dir1"}, First <- "dir1", Origin <- "ns1", Config <- Policies,
    Process <- {p1, p2, p3}, Slot <- {"s1"}, Admin <- {}, Archive <- {"x1"}

Backup == INSTANCE S3Authority WITH
    Namespace <- {"ns1", "ns2"}, Mandate <- Mandates, MandateRecord <- Records, Operation <- Operations,
    Evidence <- {"e1"}, Directory <- {"dir1"}, First <- "dir1", Origin <- "ns1", Config <- Restored,
    Process <- {}, Slot <- {"s1"}, Admin <- {a1, a2, a3}, Archive <- {"x1", "x2"}
-----------------------------------------------------------------------------
(* The VM manager: two machines, one of them with a time to live. *)
Machines == INSTANCE Manager WITH
    Vm <- {"v1", "v2"}, Timed <- {"v1"}, Pid <- {1, 2}, Port <- {1, 2}, FirstPort <- 1, call <- creating,
    Confidential <- TRUE, MaxVMs <- 1, MaxRemoves <- 1, MaxStops <- 1, MaxFaults <- 0

Failures == INSTANCE Manager WITH
    Vm <- {"v1", "v2"}, Timed <- {"v1"}, Pid <- {1, 2}, Port <- {1}, FirstPort <- 1, call <- creating,
    Confidential <- FALSE, MaxVMs <- 2, MaxRemoves <- 1, MaxStops <- 1, MaxFaults <- 1
-----------------------------------------------------------------------------
NoService ==
    /\ file = None /\ survivors = None /\ clock = 0 /\ policies = None /\ capabilities = None /\ call = None
    /\ admitted = None /\ effects = None /\ truth = None /\ told = None /\ crashes = 0
NoStores ==
    /\ stores = None /\ lock = None /\ authority = None /\ handler = None /\ admin = None
    /\ backupLock = None /\ workspace = None /\ archives = None /\ issued = None /\ dispatched = None
NoManager ==
    /\ up = None /\ creating = None /\ vms = None /\ timers = None /\ expired = None /\ stopping = None
    /\ records = None /\ mounts = None /\ procs = None /\ removes = 0 /\ stops = 0 /\ faults = 0
    /\ answered = None /\ condemned = None /\ warned = None

Init ==
    \/ instance = "COMPETING" /\ Competing!Init /\ NoStores /\ NoManager
    \/ instance = "OUTCOMES" /\ Outcomes!Init /\ NoStores /\ NoManager
    \/ instance = "RESTORE" /\ Restore!Init /\ NoService /\ NoManager
    \/ instance = "POLICIES" /\ Served!Init /\ NoService /\ NoManager
    \/ instance = "BACKUP" /\ Backup!Init /\ NoService /\ NoManager
    \/ instance = "MACHINES" /\ Machines!Init /\ NoService /\ NoStores
    \/ instance = "FAILURES" /\ Failures!Init /\ NoService /\ NoStores

Next ==
    \/ instance = "COMPETING" /\ Competing!Next /\ UNCHANGED <<instance, storeVars, managerVars>>
    \/ instance = "OUTCOMES" /\ Outcomes!Next /\ UNCHANGED <<instance, storeVars, managerVars>>
    \/ instance = "RESTORE" /\ Restore!Next /\ UNCHANGED <<instance, serviceVars, managerVars>>
    \/ instance = "POLICIES" /\ Served!Next /\ UNCHANGED <<instance, serviceVars, managerVars>>
    \/ instance = "BACKUP" /\ Backup!Next /\ UNCHANGED <<instance, serviceVars, managerVars>>
    \/ instance = "MACHINES" /\ Machines!Next /\ UNCHANGED <<instance, serviceVars, storeVars>>
    \/ instance = "FAILURES" /\ Failures!Next /\ UNCHANGED <<instance, serviceVars, storeVars>>

Spec == Init /\ [][Next]_vars

\* Threads and authority processes, and the administration processes.
Symmetry == Permutations({p1, p2}) \cup Permutations({a1, a2})
-----------------------------------------------------------------------------
(* The properties, each on the instances that put it at risk. *)

\* Every variable keeps its type.
TypeOK ==
    /\ instance = "COMPETING" => Competing!TypeOK
    /\ instance = "OUTCOMES" => Outcomes!TypeOK
    /\ instance = "RESTORE" => Restore!TypeOK
    /\ instance = "POLICIES" => Served!TypeOK
    /\ instance = "BACKUP" => Backup!TypeOK
    /\ instance = "MACHINES" => Machines!TypeOK
    /\ instance = "FAILURES" => Failures!TypeOK

\* At most once: a session proof is accepted once although expired nonces are
\* pruned, and a mandate and an operation have at most one effect, over crashes and
\* over all journals, restored ones included, since no two journals that can be
\* opened share a namespace.
AtMostOneEffect ==
    /\ instance = "COMPETING" => Competing!ProofAcceptedOnce /\ Competing!OneEffectPerMandate
    /\ instance = "OUTCOMES" => Outcomes!OneEffectPerMandate
    /\ instance = "RESTORE" => Restore!OneEffectAcrossRestores /\ Restore!NamespacesAreExclusive

\* What the journal records as the outcome is what happened downstream, and an
\* outcome whose own commit was acknowledged stays the recorded one.
RecordedOutcomeIsTrue ==
    /\ TypeOK
    /\ instance = "OUTCOMES" => Outcomes!RecordedOutcomeIsTrue /\ Outcomes!FirmOutcomeIsFinal

\* At the moment of dispatch the mandate is the installed one, not revoked and not
\* expired; and a revoked mandate stays revoked, an installed one keeps its contents.
DispatchIsAuthorized ==
    [][/\ instance = "COMPETING" => Competing!AuthorizedStep
       /\ instance = "POLICIES" => Served!InstalledDispatch /\ Served!MandatesKept]_vars

\* Recovery never takes the workspace of a backup that is still at work, and the
\* marked workspaces of interrupted backups cannot pile up.  A machine of the manager
\* that a client was told of stays known with its own process and its directories
\* over timers, removals and restarts, or at least recorded when a restart cannot
\* attach it; the limit holds however calls overlap; and no directory that was staged
\* for nobody is left behind unless it cannot be removed.
ResourcesAreAccounted ==
    /\ instance = "BACKUP" => Backup!LiveWorkspaceKept /\ Backup!LeftoversRemoved
    /\ instance = "MACHINES" => Machines!ManagerIsSound
    /\ instance = "FAILURES" => Failures!ManagerIsSound
=============================================================================
