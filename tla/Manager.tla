------------------------------ MODULE Manager ------------------------------
(***************************************************************************)
(* The VM manager (manager/service.go, ttl.go) with its QEMU machines      *)
(* (manager/qemu/vm.go), the machine state machine (manager/vm/state.go)   *)
(* and the persisted machine states (manager/qemu/persistence.go).         *)
(*                                                                         *)
(* CreateVM holds the service mutex twice and does everything else in      *)
(* between: the steps below are cut where it locks and unlocks and where   *)
(* it changes something outside the process.  RemoveVM, called by clients  *)
(* and by expired timers, holds the mutex while the machine is stopped.    *)
(* The host's processes outlive the manager; an identifier of a process    *)
(* that is gone and waited for is used again, by any process.              *)
(***************************************************************************)
EXTENDS Naturals, FiniteSets, Functions, SequencesExt

CONSTANTS
    Vm,           \* CreateVM calls, each with the id it generates
    Timed,        \* those with a time to live
    Pid, Port,    \* process identifiers and the forwarded range of ports
    FirstPort,    \* portRangeMin
    Confidential, \* machines run under SEV-SNP or TDX
    MaxVMs,       \* the configured limit; 0: none
    MaxRemoves,   \* bound: RemoveVM calls of clients
    MaxStops,     \* bound: ends of the manager process that are not its own doing
    MaxFaults,    \* bound: file operations and starts that fail
    None

VARIABLES
    up,           \* "up" | "closed" (Shutdown has returned) | "down"
    call,         \* where each CreateVM call stands
    vms,          \* ms.vms: the machines the service knows
    timers,       \* armed timers
    expired,      \* timer callbacks that have begun and wait for the mutex
    stopping,     \* machines being stopped: by RemoveVM or by CreateVM
    records,      \* the state directory: id -> pid
    mounts,       \* the staged directories and the firmware variables on disk
    procs,        \* the host's processes
    removes, stops, faults,
    answered,     \* ids whose CreateVM has answered without error
    condemned,    \* ids whose machine was ever told to stop
    warned        \* the failures that are only logged, by id

vars == <<up, call, vms, timers, expired, stopping, records, mounts, procs,
          removes, stops, faults, answered, condemned, warned>>

Dirs == {"certs", "env"}
Firmware == IF Confidential THEN {} ELSE {"vars"}
NoCall == [at |-> "idle", port |-> None, pid |-> None]
\* handle is the process a machine's cmd holds: None once it is known to be gone.
Handles == [handle : Pid \cup {None}, child : BOOLEAN, state : {"VmProvision", "VmRunning", "StopComputationRun"}]
Processes == [of : Vm \cup {"other"}, child : BOOLEAN, port : Port \cup {None}, alive : BOOLEAN, bound : BOOLEAN]

TypeOK ==
    /\ up \in {"up", "closed", "down"}
    /\ \A v \in Vm : call[v].at \in {"idle", "checked", "certs", "staged", "probed", "started", "limit",
                                     "entered", "timed", "saved", "done"}
    /\ \A v \in DOMAIN vms : vms[v] \in Handles
    /\ timers \subseteq Timed /\ expired \subseteq Timed
    /\ \A v \in DOMAIN stopping : stopping[v] \in {"signal", "certs", "env", "wait"}
    /\ \A v \in DOMAIN records : records[v] \in Pid
    /\ mounts \in [Vm -> SUBSET (Dirs \cup Firmware)]
    /\ warned \subseteq Vm \X {"save", "remove", "attach"}
    /\ \A p \in DOMAIN procs : procs[p] \in Processes
-----------------------------------------------------------------------------
Drop(f, x) == Restrict(f, DOMAIN f \ {x})
Put(f, x, y) == [z \in DOMAIN f \cup {x} |-> IF z = x THEN y ELSE f[z]]
Running == up # "down"
At(v, stage) == Running /\ call[v].at = stage
Goes(v, stage) == call' = [call EXCEPT ![v].at = stage]

\* Something outside the process fails, within the bound.
Fails == faults < MaxFaults /\ faults' = faults + 1

\* RemoveVM holds the mutex from its first statement to its return; CreateVM's
\* Stop of a machine over the limit does not.
Removing(v) == v \in DOMAIN stopping /\ v \in DOMAIN vms
MutexFree == ~\E v \in Vm : Removing(v)

\* Transition: the machine's states.  A refused transition changes nothing.
Transition(vm, new) ==
    IF \/ vm.state = "VmProvision" /\ new \in {"VmRunning", "StopComputationRun"}
       \/ vm.state = "VmRunning" /\ new = "StopComputationRun"
       \/ vm.state = "StopComputationRun" /\ new = "VmRunning"
    THEN [vm EXCEPT !.state = new]
    ELSE vm

OverLimit == MaxVMs > 0 /\ Cardinality(DOMAIN vms) >= MaxVMs
-----------------------------------------------------------------------------
(* CreateVM. *)

\* The limit is checked under the mutex, which is then released.
CreateBegin(v) ==
    /\ up = "up" /\ At(v, "idle") /\ MutexFree
    /\ Goes(v, IF OverLimit THEN "done" ELSE "checked")
    /\ UNCHANGED <<up, vms, timers, expired, stopping, records, mounts, procs, removes, stops, faults, answered, condemned, warned>>

\* tempCertMount: a directory with the certificates; a failed write removes it.
TempCertMount(v) ==
    /\ At(v, "checked")
    /\ \/ Goes(v, "certs") /\ mounts' = [mounts EXCEPT ![v] = @ \cup {"certs"}] /\ UNCHANGED faults
       \/ Fails /\ Goes(v, "done") /\ UNCHANGED mounts
    /\ UNCHANGED <<up, vms, timers, expired, stopping, records, procs, removes, stops, answered, condemned, warned>>

Warns(v, what) == warned' = warned \cup {<<v, what>>}

\* The deferred cleanup of an attempt that has started no machine: what cannot be
\* removed is left, and so is the firmware that was copied.
Unstaged(v, copied) ==
    \E left \in IF MaxFaults = 0 THEN {{}} ELSE SUBSET mounts[v] :
        /\ mounts' = [mounts EXCEPT ![v] = left \cup copied]
        /\ IF left = {} THEN UNCHANGED warned ELSE Warns(v, "remove")

\* tmpEnvironment: a second directory with the environment file.
TmpEnvironment(v) ==
    /\ At(v, "certs")
    /\ \/ Goes(v, "staged") /\ mounts' = [mounts EXCEPT ![v] = @ \cup {"env"}] /\ UNCHANGED <<faults, warned>>
       \/ Fails /\ Goes(v, "done") /\ Unstaged(v, {})
    /\ UNCHANGED <<up, vms, timers, expired, stopping, records, procs, removes, stops, answered, condemned>>

PortIsFree(port) == ~\E p \in DOMAIN procs : procs[p].bound /\ procs[p].alive /\ procs[p].port = port

\* getFreePort: the first port if it is free, else whichever free port the
\* concurrent probes find first.  The probe's listener is closed again, so the
\* port is not held.
FreePorts == IF PortIsFree(FirstPort) THEN {FirstPort} ELSE {x \in Port : PortIsFree(x)}
GetFreePort(v) ==
    /\ At(v, "staged")
    /\ IF FreePorts = {}
       THEN Goes(v, "done") /\ Unstaged(v, {})
       ELSE \E x \in FreePorts : call' = [call EXCEPT ![v].at = "probed", ![v].port = x] /\ UNCHANGED <<mounts, warned>>
    /\ UNCHANGED <<up, vms, timers, expired, stopping, records, procs, removes, stops, faults, answered, condemned>>

\* qemuVM.Start: the firmware variables are copied, for good, and the process is
\* forked; it has yet to bind its port.  From here on the machine's Stop removes the
\* directories.
Start(v) ==
    /\ At(v, "probed")
    /\ \/ \E p \in Pid \ DOMAIN procs :
              /\ procs' = Put(procs, p, [of |-> v, child |-> TRUE, port |-> call[v].port, alive |-> TRUE, bound |-> FALSE])
              /\ call' = [call EXCEPT ![v].at = "started", ![v].pid = p]
              /\ mounts' = [mounts EXCEPT ![v] = @ \cup Firmware]
              /\ UNCHANGED <<faults, warned>>
       \/ /\ Fails /\ Goes(v, "done") /\ UNCHANGED procs
          /\ \E copied \in SUBSET Firmware : Unstaged(v, copied)
    /\ UNCHANGED <<up, vms, timers, expired, stopping, records, removes, stops, answered, condemned>>

Launched(v) == [handle |-> call[v].pid, child |-> TRUE, state |-> "VmProvision"]

\* Under the mutex again: the limit may have been reached meanwhile, and then the
\* machine is stopped, without the mutex; else the service knows it.
Enter(v) ==
    /\ At(v, "started") /\ MutexFree
    /\ IF OverLimit
       THEN /\ stopping' = Put(stopping, v, "signal")
            /\ Goes(v, "limit") /\ UNCHANGED vms
       ELSE /\ vms' = Put(vms, v, Launched(v))
            /\ Goes(v, "entered") /\ UNCHANGED stopping
    /\ UNCHANGED <<up, timers, expired, records, mounts, procs, removes, stops, faults, answered, condemned, warned>>

\* SetTTL, when the request has a time to live.
SetTTL(v) == timers' = timers \cup {v}
CancelTTL(v) == timers' = timers \ {v}
CancelAll == timers' = {}
ArmTimer(v) ==
    /\ At(v, "entered")
    /\ IF v \in Timed THEN SetTTL(v) ELSE UNCHANGED timers
    /\ Goes(v, "timed")
    /\ UNCHANGED <<up, vms, expired, stopping, records, mounts, procs, removes, stops, faults, answered, condemned, warned>>

\* The state directory: a record is written to a temporary file, synced and renamed.
SaveRecord(v, pid) == records' = Put(records, v, pid)
DeleteRecord(v) == records' = Drop(records, v)

\* The machine is recorded.  A failure, such as the directory closed by Shutdown, is
\* only logged.
SaveVM(v) ==
    /\ At(v, "timed")
    /\ \/ up = "up" /\ SaveRecord(v, call[v].pid) /\ UNCHANGED <<faults, warned>>
       \/ up = "closed" /\ Warns(v, "save") /\ UNCHANGED <<faults, records>>
       \/ up = "up" /\ Fails /\ Warns(v, "save") /\ UNCHANGED records
    /\ Goes(v, "saved")
    /\ UNCHANGED <<up, vms, timers, expired, stopping, mounts, procs, removes, stops, answered, condemned>>

\* Everything the process holds is gone; its dead children are waited for by the
\* host, the live ones go on.
ProcessGone ==
    /\ up' = "down" /\ stops' = stops + 1
    /\ call' = [v \in Vm |-> IF call[v].at = "idle" THEN NoCall ELSE [call[v] EXCEPT !.at = "done"]]
    /\ vms' = <<>> /\ timers' = {} /\ expired' = {} /\ stopping' = <<>>
    /\ procs' = [p \in {q \in DOMAIN procs : procs[q].alive} |-> [procs[p] EXCEPT !.child = FALSE]]

\* The end of CreateVM: the machine runs, and the client is answered.  The machine
\* is looked up again: when an expired timer or Shutdown has taken it out of the
\* map meanwhile, the method is called on a nil interface and the process panics.
CreateEnd(v) ==
    /\ At(v, "saved") /\ MutexFree
    /\ IF v \in DOMAIN vms
       THEN /\ vms' = [vms EXCEPT ![v] = Transition(@, "VmRunning")]
            /\ Goes(v, "done")
            /\ answered' = answered \cup {v}
            /\ UNCHANGED <<up, timers, expired, stopping, procs, stops>>
       ELSE ProcessGone /\ UNCHANGED answered
    /\ UNCHANGED <<records, mounts, removes, faults, condemned, warned>>
-----------------------------------------------------------------------------
(* RemoveVM and qemuVM.Stop. *)

\* RemoveVM takes the mutex, cancels the timer and looks the machine up; a missing
\* one is not found.
RemoveBegin(v) ==
    /\ MutexFree
    /\ CancelTTL(v)
    /\ stopping' = IF v \in DOMAIN vms THEN Put(stopping, v, "signal") ELSE stopping

\* A client removes a machine that it was told of.
RemoveVM(v) ==
    /\ Running /\ removes < MaxRemoves /\ v \in answered
    /\ RemoveBegin(v)
    /\ removes' = removes + 1
    /\ UNCHANGED <<up, call, vms, expired, records, mounts, procs, stops, faults, answered, condemned, warned>>

\* A timer fires: its callback starts, and can no longer be called off.
Fire(v) ==
    /\ Running /\ v \in timers \ expired
    /\ expired' = expired \cup {v}
    /\ UNCHANGED <<up, call, vms, timers, stopping, records, mounts, procs, removes, stops, faults, answered, condemned, warned>>

\* The callback removes the machine; a failure is logged, and not tried again.
Expire(v) ==
    /\ Running /\ v \in expired
    /\ RemoveBegin(v)
    /\ expired' = expired \ {v}
    /\ UNCHANGED <<up, call, vms, records, mounts, procs, removes, stops, faults, answered, condemned, warned>>

\* Stop has failed or succeeded: its deferred transition, and then the rest of
\* RemoveVM or of CreateVM.  DeleteVM's own failure is logged: the file is left.
Stopped(v, handle, ok) ==
    /\ stopping' = Drop(stopping, v)
    /\ IF ~Removing(v)
       THEN Goes(v, "done") /\ UNCHANGED <<vms, records, faults>>
       ELSE /\ UNCHANGED call
            /\ IF ok
               THEN /\ vms' = Drop(vms, v)
                    /\ \/ up = "up" /\ DeleteRecord(v) /\ UNCHANGED faults
                       \/ up = "closed" /\ UNCHANGED <<records, faults>>
                       \/ up = "up" /\ v \in DOMAIN records /\ Fails /\ UNCHANGED records
               ELSE /\ vms' = [vms EXCEPT ![v] = Transition([@ EXCEPT !.handle = handle], "StopComputationRun")]
                    /\ UNCHANGED <<records, faults>>

\* The machine a Stop works on.
Machine(v) == IF Removing(v) THEN vms[v] ELSE Launched(v)
StopAt(v, stage) == Running /\ v \in DOMAIN stopping /\ stopping[v] = stage
StopGoes(v, stage) ==
    /\ stopping' = [stopping EXCEPT ![v] = stage]
    /\ UNCHANGED <<call, vms, records, faults>>

\* SIGTERM: it fails for a process known to be gone.
StopSignal(v) ==
    /\ StopAt(v, "signal")
    /\ IF Machine(v).handle = None
       THEN Stopped(v, None, FALSE) /\ UNCHANGED condemned
       ELSE StopGoes(v, "certs") /\ condemned' = condemned \cup {procs[Machine(v).handle].of}
    /\ UNCHANGED <<up, timers, expired, mounts, procs, removes, stops, answered, warned>>

\* The directories go while the process ends; a failure ends Stop.
StopMounts(v) ==
    /\ \E d \in Dirs :
        /\ StopAt(v, d)
        /\ \/ /\ mounts' = [mounts EXCEPT ![v] = @ \ {d}] /\ UNCHANGED warned
              /\ StopGoes(v, IF d = "certs" THEN "env" ELSE "wait")
           \/ /\ Fails /\ Warns(v, "remove")
              /\ stopping' = Drop(stopping, v)
              /\ IF Removing(v)
                 THEN vms' = [vms EXCEPT ![v] = Transition(@, "StopComputationRun")] /\ UNCHANGED call
                 ELSE Goes(v, "done") /\ UNCHANGED vms
              /\ UNCHANGED <<mounts, records>>
    /\ UNCHANGED <<up, timers, expired, procs, removes, stops, answered, condemned>>

\* The wait: a child that has ended is reaped; one that has not ended in time is
\* killed, which fails when it ends just then; a process that is not a child of
\* this manager, because it was reattached, cannot be waited for.
StopWait(v) ==
    /\ StopAt(v, "wait")
    /\ LET p == Machine(v).handle IN
       \/ Machine(v).child /\ ~procs[p].alive /\ procs' = Drop(procs, p) /\ \E ok \in BOOLEAN : Stopped(v, None, ok)
       \/ Machine(v).child /\ procs[p].alive /\ procs' = Drop(procs, p) /\ Stopped(v, None, TRUE)
       \/ ~Machine(v).child /\ Stopped(v, Machine(v).handle, FALSE) /\ UNCHANGED procs
    /\ UNCHANGED <<up, timers, expired, mounts, removes, stops, answered, condemned, warned>>
-----------------------------------------------------------------------------
(* The host's processes, and the manager's own end and start. *)

\* QEMU binds the forwarded port, or exits because another process has it.
Bind(p) ==
    /\ p \in DOMAIN procs /\ procs[p].alive /\ ~procs[p].bound /\ procs[p].of # "other"
    /\ IF PortIsFree(procs[p].port)
       THEN procs' = [procs EXCEPT ![p].bound = TRUE]
       ELSE procs' = [procs EXCEPT ![p].alive = FALSE]
    /\ UNCHANGED <<up, call, vms, timers, expired, stopping, records, mounts, removes, stops, faults, answered, condemned, warned>>

\* A process ends by itself or by SIGTERM.  A child stays as a zombie until it is
\* waited for; another process is gone, and handles on it know.
Forget(vm, p) == IF vm.handle = p THEN [vm EXCEPT !.handle = None] ELSE vm
ProcessEnds(p) ==
    /\ p \in DOMAIN procs /\ procs[p].alive
    /\ IF procs[p].child
       THEN procs' = [procs EXCEPT ![p].alive = FALSE] /\ UNCHANGED vms
       ELSE procs' = Drop(procs, p) /\ vms' = [v \in DOMAIN vms |-> Forget(vms[v], p)]
    /\ UNCHANGED <<up, call, timers, expired, stopping, records, mounts, removes, stops, faults, answered, condemned, warned>>

\* Another program's process takes a free identifier that a record names.
OtherProcess(p) ==
    /\ p \notin DOMAIN procs /\ p \in Range(records)
    /\ procs' = Put(procs, p, [of |-> "other", child |-> FALSE, port |-> None, alive |-> TRUE, bound |-> FALSE])
    /\ UNCHANGED <<up, call, vms, timers, expired, stopping, records, mounts, removes, stops, faults, answered, condemned, warned>>

\* Shutdown: no timers, no machines, the directory closed.  The machines run on.
Shutdown ==
    /\ up = "up" /\ stops < MaxStops /\ MutexFree
    /\ up' = "closed" /\ CancelAll /\ vms' = <<>>
    /\ UNCHANGED <<call, expired, stopping, records, mounts, procs, removes, stops, faults, answered, condemned, warned>>

\* The process ends after Shutdown, or at any time.
Exit == up = "closed" /\ ProcessGone /\ UNCHANGED <<records, mounts, removes, faults, answered, condemned, warned>>
Crash ==
    /\ up = "up" /\ stops < MaxStops /\ ProcessGone
    /\ UNCHANGED <<records, mounts, removes, faults, answered, condemned, warned>>

\* New and restoreVMs: records whose process is gone are deleted, the others are
\* attached to the process that now has the recorded identifier.  Where one or the
\* other fails the record stays, and the service starts without the machine.
ProcessExists(pid) == pid \in DOMAIN procs
Restored(v) == Transition([handle |-> records[v], child |-> FALSE, state |-> "VmProvision"], "VmRunning")
RestoreVMs ==
    /\ up = "down" /\ up' = "up"
    /\ LET live == {v \in DOMAIN records : ProcessExists(records[v])} IN
       \E failed \in SUBSET DOMAIN records :
        /\ faults' = faults + Cardinality(failed) /\ faults' <= MaxFaults
        /\ records' = Restrict(records, live \cup failed)
        /\ vms' = [v \in live \ failed |-> Restored(v)]
        /\ warned' = {w \in warned : w[2] # "attach"} \cup (failed \X {"attach"})
    /\ UNCHANGED <<call, timers, expired, stopping, mounts, procs, removes, stops, answered, condemned>>
-----------------------------------------------------------------------------
Init ==
    /\ up = "up" /\ call = [v \in Vm |-> NoCall] /\ vms = <<>> /\ timers = {} /\ expired = {} /\ stopping = <<>>
    /\ records = <<>> /\ mounts = [v \in Vm |-> {}] /\ procs = <<>> /\ removes = 0 /\ stops = 0 /\ faults = 0
    /\ answered = {} /\ condemned = {} /\ warned = {}

Next ==
    \/ \E v \in Vm :
        \/ CreateBegin(v) \/ TempCertMount(v) \/ TmpEnvironment(v) \/ GetFreePort(v) \/ Start(v) \/ Enter(v)
        \/ ArmTimer(v) \/ SaveVM(v) \/ CreateEnd(v)
        \/ RemoveVM(v) \/ Fire(v) \/ Expire(v) \/ StopSignal(v) \/ StopMounts(v) \/ StopWait(v)
    \/ \E p \in Pid : Bind(p) \/ ProcessEnds(p) \/ OtherProcess(p)
    \/ Shutdown \/ Exit \/ Crash \/ RestoreVMs
-----------------------------------------------------------------------------
(* What the manager guarantees. *)
Alive(v) == {p \in DOMAIN procs : procs[p].of = v /\ procs[p].alive}

\* CreateVM never brings the machines over the limit, however its calls overlap:
\* over it are only machines that a restart found.
WithinLimit ==
    MaxVMs > 0 => Cardinality(DOMAIN vms) <= MaxVMs \/ \A v \in DOMAIN vms : ~vms[v].child

Unable(what) == {v \in Vm : <<v, what>> \in warned}

\* Nothing is forgotten: a machine's live process belongs to a call that is at
\* work, is known to the running service, is recorded for its restart, or was told
\* to stop.  The exceptions are machines the client was never told of, whose record a
\* crash may have prevented, and those whose record could not be written.
Accounted(v) ==
    \/ Running /\ call[v].at \in {"started", "limit", "entered", "timed", "saved"}
    \/ v \in DOMAIN vms
    \/ v \in DOMAIN records
    \/ v \in condemned
NothingForgotten ==
    \A v \in answered \ Unable("save") : Alive(v) # {} => Accounted(v)

\* A machine that the client was told of and nobody has told to stop has its
\* directories and, while the service runs, is in the map with its own process, and
\* in the state to serve, whatever other calls, timers and restarts do.  The
\* exception, besides a record that could not be written, is a machine that this
\* start could not attach: it has its record still, for the next one.
AnsweredIsServed ==
    \A v \in answered \ (condemned \cup Unable("save")) :
        /\ Alive(v) # {} => Dirs \subseteq mounts[v]
        /\ up = "up" /\ Alive(v) # {} =>
            IF v \in Unable("attach")
            THEN v \in DOMAIN records /\ records[v] \in Alive(v)
            ELSE /\ v \in DOMAIN vms
                 /\ vms[v].handle \in Alive(v) /\ vms[v].state = "VmRunning"

\* A call that has ended without a machine in the map, or a machine that was stopped
\* for good, leaves no directory behind, unless removing it failed.  The copy of the
\* firmware variables is left by either.
NoDirectoryLeft ==
    up = "up" /\ stops = 0 =>
        \A v \in Vm \ Unable("remove") :
            call[v].at \in {"idle", "done"} /\ v \notin DOMAIN vms => mounts[v] \cap Dirs = {}

\* A process that is not the machine's own is signalled only through a machine that
\* a restart has attached to its identifier: within one life of the manager the
\* handles name their own processes.
OwnHandles ==
    \A v \in DOMAIN vms : vms[v].handle # None =>
        /\ vms[v].handle \in DOMAIN procs
        /\ procs[vms[v].handle].of # v => ~vms[v].child

ManagerIsSound == WithinLimit /\ NothingForgotten /\ AnsweredIsServed /\ NoDirectoryLeft /\ OwnHandles
=============================================================================
