---------------------------- MODULE AgentService ----------------------------
(***************************************************************************)
(* One Agent: the run and stop requests of its CVMS client, the lifecycle of  *)
(* the computation (agent/service.go on agent/statemachine), its gRPC server   *)
(* as far as the lifecycle needs it, and the runner that executes it.         *)
(*                                                                         *)
(* Every StopComputation ends a generation: it cancels the generation's        *)
(* context, and whatever goroutine still carries that context is late.  The   *)
(* Agent's lock mu is held by a stop from its runner call to its end and by    *)
(* everybody else within one step.  A state machine loop handles an event in    *)
(* two locked steps, and receives one only while it waits.                    *)
(*                                                                         *)
(* The computation runner (agent/runner/service, agent/algorithm) is another   *)
(* process: one slot, taken by Run and given back when the algorithm has ended, *)
(* and two ways to end it from outside, the Stop call and the cancellation of   *)
(* the Run call.  Its steps are what happens between two acquisitions of the    *)
(* runner's lock or of the algorithm's own; calls reach it in any order.        *)
(***************************************************************************)
EXTENDS Naturals, FiniteSets

CONSTANTS
    None,
    Run,             \* the Run calls of the runner there may be
    Computation,     \* records [id, program, commands, remote, data, remoteData]
    Program,         \* the algorithms that may be uploaded
    Caller,          \* concurrent calls of the Agent's gRPC API
    Stuck,           \* what finish may fail to remove: a subset of {"FILE", "DIR"}
    MaxGeneration    \* bound: generations after the first

VARIABLES
    rpc,        \* the Run calls
    slot,       \* the call that has been admitted, or None
    algorithm,  \* currentAlgo, by its call, or None
    stopWanted, \* s.cancelled of the admitted call
    stopCall,   \* the Stop call, of which the Agent makes one at a time
    machine,    \* [state, afterAlgorithm, afterData, bound]
    loop,       \* the Start loops, one for each generation
    gen,        \* as.ctx
    ended,      \* the generations whose context is canceled
    agent,      \* the fields and the files of the computation
    tasks,      \* scheduled actions: [state, gen]
    calls,      \* the API calls
    control,    \* the request that holds runMu
    activeRun, server, used, proxy,
    answers     \* history: results handed out, with the run of the caller

runnerVars == <<rpc, slot, algorithm, stopWanted, stopCall>>
agentVars == <<machine, loop, gen, ended, agent, tasks, calls, control, activeRun, server, used, proxy, answers>>
vars == <<runnerVars, agentVars>>

-----------------------------------------------------------------------------
(* The runner. *)

Idle == [at |-> "IDLE", call |-> None]

\* reached: the server knows that the call is canceled; callback: its AfterFunc,
\* with the algorithm it means to stop; stopped: the algorithm's own flag; ok: how
\* the algorithm ended; left: the commands still to run (python prepares a virtual
\* environment and its requirements first).
Unsent ==
    [at |-> "UNSENT", job |-> None, left |-> 0, reached |-> FALSE, callback |-> "NONE", victim |-> None,
     stopped |-> FALSE, ok |-> FALSE]

RunnerInit ==
    /\ rpc = [n \in Run |-> Unsent]
    /\ slot = None /\ algorithm = None /\ stopWanted = FALSE /\ stopCall = Idle

Step(n, from, to) == rpc[n].at = from /\ rpc' = [rpc EXCEPT ![n].at = to]

\* Run up to the first unlock: a canceled call and a second one are refused.
Admit(n) ==
    \/ /\ rpc[n].reached \/ slot # None
       /\ Step(n, "SENT", "ANSWERED")
       /\ UNCHANGED <<slot, algorithm, stopWanted, stopCall>>
    \/ /\ ~rpc[n].reached /\ slot = None
       /\ Step(n, "SENT", "PREPARING")
       /\ slot' = n /\ stopWanted' = FALSE
       /\ UNCHANGED <<algorithm, stopCall>>

\* A call that was stopped or canceled while its files were prepared is not run.
MayLaunch(n) == ~rpc[n].reached /\ ~stopWanted

\* The private file and the algorithm object; any of it may fail, and the object
\* cannot be made without an algorithm type.
Prepare(n) ==
    \/ /\ rpc[n].at = "PREPARING" /\ MayLaunch(n) /\ rpc[n].job.typed
       /\ Step(n, "PREPARING", "LAUNCHING")
       /\ algorithm' = n
       /\ UNCHANGED <<slot, stopWanted, stopCall>>
    \/ /\ Step(n, "PREPARING", "RETURNING")
       /\ UNCHANGED <<slot, algorithm, stopWanted, stopCall>>

\* Mutation: only the first command looks at the algorithm's flag.
MayStartNext(n) == ~rpc[n].stopped \/ rpc[n].left + 1 < rpc[n].job.computation.commands

\* An algorithm that was stopped starts no command.
MayStart(n) == ~rpc[n].stopped

\* algo.Run: a command is started under the lock that Stop takes.
Launch(n) ==
    /\ \/ Step(n, "LAUNCHING", "EXECUTING") /\ MayStart(n)
       \/ Step(n, "LAUNCHING", "RETURNING")
    /\ UNCHANGED <<slot, algorithm, stopWanted, stopCall>>

\* The process and all its descendants have ended (WaitCommand).
Exit(n) ==
    /\ rpc[n].at = "EXECUTING"
    /\ \/ rpc[n].left > 0 /\ rpc' = [rpc EXCEPT ![n].at = "LAUNCHING", ![n].left = @ - 1]
       \/ rpc[n].left = 0 /\ rpc' = [rpc EXCEPT ![n].at = "RETURNING", ![n].ok = ~rpc[n].reached]
       \/ rpc' = [rpc EXCEPT ![n].at = "RETURNING"]
    /\ UNCHANGED <<slot, algorithm, stopWanted, stopCall>>

\* The deferred functions: the callback is joined before the slot is given back.
Joined(n) == rpc[n].callback \in {"NONE", "DONE"}

\* What only the call itself knew goes with it.
Return(n) ==
    /\ Joined(n) /\ rpc[n].at = "RETURNING"
    /\ rpc' = [rpc EXCEPT ![n] = [Unsent EXCEPT !.at = "ANSWERED", !.job = rpc[n].job, !.ok = rpc[n].ok]]
    /\ slot' = None /\ algorithm' = None /\ stopWanted' = FALSE
    /\ UNCHANGED stopCall

\* The cancellation of the call reaches the server, before or after admission.
Cancellation(n) ==
    /\ rpc[n].at \in {"SENT", "PREPARING", "LAUNCHING", "EXECUTING", "RETURNING"} /\ ~rpc[n].reached
    /\ rpc' = [rpc EXCEPT ![n].reached = TRUE, ![n].callback = IF @ = "NONE" /\ slot = n THEN "DUE" ELSE @]
    /\ UNCHANGED <<slot, algorithm, stopWanted, stopCall>>

\* Only the callback of the admitted call acts.
OwnSlot(n) == slot = n

CallbackMark(n) ==
    /\ rpc[n].callback = "DUE"
    /\ stopWanted' = (stopWanted \/ OwnSlot(n))
    /\ rpc' = IF OwnSlot(n) /\ algorithm # None
              THEN [rpc EXCEPT ![n].callback = "STOPPING", ![n].victim = algorithm]
              ELSE [rpc EXCEPT ![n].callback = "DONE"]
    /\ UNCHANGED <<slot, algorithm, stopCall>>

CallbackStop(n) ==
    /\ rpc[n].callback = "STOPPING"
    /\ rpc' = [rpc EXCEPT ![n].callback = "DONE", ![rpc[n].victim].stopped = TRUE]
    /\ UNCHANGED <<slot, algorithm, stopWanted, stopCall>>

\* The Stop handler up to its unlock, for a computation id or None for any.
StopLook(id) ==
    /\ stopCall = Idle
    /\ \/ /\ slot = None
          /\ stopCall' = [Idle EXCEPT !.at = "STOPPED"] /\ UNCHANGED stopWanted
       \/ /\ slot # None /\ id \notin {None, rpc[slot].job.id}
          /\ stopCall' = [Idle EXCEPT !.at = "FAILED"] /\ UNCHANGED stopWanted
       \/ /\ slot # None /\ id \in {None, rpc[slot].job.id}
          /\ stopWanted' = TRUE
          /\ stopCall' = [at |-> IF algorithm = None THEN "WAITING" ELSE "STOPPING", call |-> slot]
    /\ UNCHANGED <<rpc, slot, algorithm>>

StopAlgorithm ==
    /\ stopCall.at = "STOPPING"
    /\ rpc' = [rpc EXCEPT ![stopCall.call].stopped = TRUE]
    /\ stopCall' = [stopCall EXCEPT !.at = "WAITING"]
    /\ UNCHANGED <<slot, algorithm, stopWanted>>

\* The call's done channel is closed, or the Stop call runs out of time; algo.Stop
\* may have failed.
Ended(n) == rpc[n].at = "ANSWERED"

StopWait ==
    /\ stopCall.at = "WAITING"
    /\ \/ Ended(stopCall.call) /\ stopCall' = [stopCall EXCEPT !.at = "STOPPED"]
       \/ stopCall' = [stopCall EXCEPT !.at = "FAILED"]
    /\ UNCHANGED <<rpc, slot, algorithm, stopWanted>>

RunnerNext ==
    \/ \E n \in Run : \/ Admit(n) \/ Prepare(n) \/ Launch(n) \/ Exit(n) \/ Return(n)
                      \/ CallbackMark(n) \/ CallbackStop(n)
    \/ StopAlgorithm \/ StopWait
-----------------------------------------------------------------------------
(* The Agent. *)

Generation == 0 .. MaxGeneration

Fresh ==
    [computation |-> None, missing |-> {}, received |-> FALSE, file |-> None, unremoved |-> FALSE, dir |-> FALSE,
     result |-> None, failed |-> FALSE, consumed |-> FALSE]

Resting == [at |-> "IDLE", why |-> None, ok |-> TRUE]
NoCall == [op |-> None]
Waiting == [at |-> "SELECT", event |-> None]
Dead == [at |-> "DEAD", event |-> None]

\* New has returned: its loop waits in ReceivingManifest.
Init ==
    /\ RunnerInit
    /\ machine = [state |-> "ReceivingManifest", afterAlgorithm |-> None, afterData |-> FALSE, bound |-> 0]
    /\ loop = [g \in Generation |-> IF g = 0 THEN Waiting ELSE Dead]
    /\ gen = 0 /\ ended = {} /\ agent = Fresh /\ tasks = {}
    /\ calls = [c \in Caller |-> NoCall]
    /\ control = Resting /\ activeRun = None /\ server = None /\ used = {}
    /\ proxy \in {"ABSENT", "NEW"}
    /\ answers = {}
-----------------------------------------------------------------------------
(* The state machine. *)

\* SendEvent: the loop of the current channels takes the event if it waits for one;
\* otherwise the event is dropped.
SendEvent(e) ==
    loop' = IF loop[gen] = Waiting THEN [loop EXCEPT ![gen] = [at |-> "RECEIVED", event |-> e]] ELSE loop

\* The transitions of New and those InitComputation adds and never takes back.
Transition(s, e) ==
    CASE s = "Idle" /\ e = "Start" -> "ReceivingManifest"
      [] s = "ReceivingManifest" /\ e = "ManifestReceived" -> "ReceivingAlgorithm"
      [] s = "ReceivingAlgorithm" /\ e = "AlgorithmReceived" -> machine.afterAlgorithm
      [] s = "ReceivingData" /\ e = "DataReceived" /\ machine.afterData -> "Running"
      [] s \in {"ReceivingAlgorithm", "ReceivingData", "Running"} /\ e = "RunFailed" -> "Failed"
      [] s = "Running" /\ e = "RunComplete" -> "ConsumingResults"
      [] s = "ConsumingResults" /\ e = "ResultsConsumed" -> "Complete"
      [] OTHER -> None

\* handleEvent's first lock: an invalid transition ends the loop.
LoopDecide(g) ==
    /\ loop[g].at = "RECEIVED"
    /\ LET next == Transition(machine.state, loop[g].event)
       IN loop' = [loop EXCEPT ![g] = IF next = None THEN Dead ELSE [at |-> "DECIDED", event |-> next]]
    /\ UNCHANGED <<machine, gen, ended, agent, tasks, calls, control, activeRun, server, used, proxy, answers>>

\* Its second lock: the state is set and the action of that state scheduled.
LoopMove(g) ==
    /\ loop[g].at = "DECIDED"
    /\ machine' = [machine EXCEPT !.state = loop[g].event]
    /\ tasks' = IF loop[g].event \in {"ReceivingAlgorithm", "ReceivingData", "Running"}
                THEN tasks \cup {[state |-> loop[g].event, gen |-> machine.bound]} ELSE tasks
    /\ loop' = [loop EXCEPT ![g] = [at |-> "BUSY", event |-> None]]
    /\ UNCHANGED <<gen, ended, agent, calls, control, activeRun, server, used, proxy, answers>>

LoopWait(g) ==
    /\ loop[g].at = "BUSY"
    /\ loop' = [loop EXCEPT ![g] = IF g \in ended THEN Dead ELSE Waiting]
    /\ UNCHANGED <<machine, gen, ended, agent, tasks, calls, control, activeRun, server, used, proxy, answers>>

LoopStep == \E g \in Generation : LoopDecide(g) \/ LoopMove(g) \/ LoopWait(g)

\* StopComputation sleeps long enough for every loop to come to rest.
LoopsAtRest == \A g \in Generation : loop[g].at \in {"SELECT", "DEAD"}
-----------------------------------------------------------------------------
(* The scheduled actions and the runner call. *)

MuIsFree == control.at \notin {"RUNNER", "RESET", "BIND", "SEND", "SETTLE"}

\* as.ctx == ctx && ctx.Err() == nil
Current(g) == g = gen /\ g \notin ended

agentOnly == <<machine, gen, ended, calls, control, activeRun, server, used, proxy, answers>>

\* writePrivateFile replaces whatever file there is.
Store(program) == [agent EXCEPT !.file = program, !.unremoved = FALSE, !.received = TRUE]

RemoteAlgorithm == agent.computation # None /\ agent.computation.remote

\* What a download from the registry, decrypted, may turn out to be; None if any of
\* its steps fails.
Fetched == Program \cup {None}

\* The execution bundle must be the one the manifest commits to.
CommitmentMatches(p) == agent.computation # None /\ p = agent.computation.program

DownloadAlgorithm(t) ==
    /\ t.state = "ReceivingAlgorithm"
    /\ \/ ~RemoteAlgorithm /\ UNCHANGED <<agent, loop>>
       \/ /\ RemoteAlgorithm
          /\ \E p \in Fetched :
                 IF CommitmentMatches(p)
                 THEN agent' = Store(p) /\ SendEvent("AlgorithmReceived")
                 ELSE agent' = [agent EXCEPT !.failed = TRUE] /\ SendEvent("RunFailed")

RemoteMissing == IF agent.computation = None THEN {} ELSE agent.missing \cap agent.computation.remoteData

\* A failure leaves what has been downloaded before it.
DownloadDatasets(t) ==
    /\ t.state = "ReceivingData"
    /\ \/ RemoteMissing = {} /\ UNCHANGED <<agent, loop>>
       \/ /\ RemoteMissing # {}
          /\ agent' = [agent EXCEPT !.missing = @ \ RemoteMissing]
          /\ IF agent.missing \subseteq RemoteMissing THEN SendEvent("DataReceived") ELSE UNCHANGED loop
       \/ /\ RemoteMissing # {}
          /\ \E done \in SUBSET RemoteMissing :
                 done # RemoteMissing /\ agent' = [agent EXCEPT !.missing = @ \ done, !.failed = TRUE]
          /\ SendEvent("RunFailed")

\* os.Remove of the algorithm file: a failure is a warning and the file stays.
WithoutFile(base) ==
    {[base EXCEPT !.file = f, !.unremoved = (f # None)] :
         f \in {None} \cup IF "FILE" \in Stuck THEN {base.file} ELSE {}}

\* finish, with mu held; the directory may stay as well.
Finish(base) ==
    UNION {WithoutFile([base EXCEPT !.dir = d]) : d \in {FALSE} \cup IF "DIR" \in Stuck THEN {base.dir} ELSE {}}

FinishFailed(base) ==
    /\ agent' \in Finish([base EXCEPT !.failed = TRUE])
    /\ SendEvent("RunFailed")

FinishComplete(base, result) ==
    /\ agent' \in Finish([base EXCEPT !.failed = FALSE, !.result = result])
    /\ SendEvent("RunComplete")

FreeRun == {n \in Run : rpc[n].at = "UNSENT"}

\* runComputationForContext up to the runner call.  Getwd, Mkdir or reading the file
\* may fail, and does when the directory is there or the file is not.
StartRun(t) ==
    /\ t.state = "Running"
    /\ \/ FinishFailed([agent EXCEPT !.dir = TRUE]) /\ UNCHANGED rpc
       \/ /\ ~agent.dir /\ agent.file # None /\ FreeRun # {}
          /\ LET n == CHOOSE m \in FreeRun : \A k \in FreeRun : m <= k
                 k == agent.computation
             IN  rpc' = [rpc EXCEPT ![n].at = "SENT", ![n].left = IF k = None THEN 0 ELSE k.commands - 1,
                             ![n].job = [id |-> IF k = None THEN None ELSE k.id, computation |-> k,
                                         program |-> agent.file, typed |-> agent.received,
                                         lacking |-> agent.missing, gen |-> gen, open |-> TRUE]]
          /\ agent' = [agent EXCEPT !.dir = TRUE]
          /\ UNCHANGED loop

\* An action that finds its context canceled or replaced returns at once.
RunTask ==
    /\ MuIsFree
    /\ \E t \in {u \in tasks : Current(u.gen)} :
           /\ \/ (DownloadAlgorithm(t) \/ DownloadDatasets(t)) /\ UNCHANGED rpc
              \/ StartRun(t)
           /\ tasks' = tasks \ {t}
    /\ UNCHANGED <<slot, algorithm, stopWanted, stopCall, agentOnly>>

\* Mutation: a late response is handled like any other.
OwnResponseOrLate(n) == rpc[n].job.open

\* The response of an earlier lifecycle is thrown away.
OwnResponse(n) == Current(rpc[n].job.gen)

\* The runner call returns with the runner's answer, or at once when the context of
\* its generation is canceled.
RunReturned(n) ==
    /\ MuIsFree
    /\ rpc[n].at # "UNSENT" /\ rpc[n].job.open
    /\ rpc[n].at = "ANSWERED" \/ rpc[n].job.gen \in ended
    /\ OwnResponse(n)
    /\ rpc' = [rpc EXCEPT ![n].job.open = FALSE]
    /\ (rpc[n].ok /\ FinishComplete(agent, n)) \/ FinishFailed(agent)
    /\ UNCHANGED <<slot, algorithm, stopWanted, stopCall, agentOnly, tasks>>

\* Canceling a context cancels the calls made with it, sooner or later.
RunCanceled(n) ==
    /\ rpc[n].at # "UNSENT" /\ rpc[n].job.gen \in ended
    /\ Cancellation(n)
    /\ UNCHANGED agentVars
-----------------------------------------------------------------------------
(* The API.  A call looks at the state, then takes mu. *)

CallBegin(c) ==
    /\ calls[c] = NoCall /\ server # None
    /\ \/ \E p \in Program :
              machine.state = "ReceivingAlgorithm" /\ calls' = [calls EXCEPT ![c] = [op |-> "Algo", run |-> server, program |-> p]]
       \/ \E d \in UNION {k.data : k \in Computation} :
              machine.state = "ReceivingData" /\ calls' = [calls EXCEPT ![c] = [op |-> "Data", run |-> server, dataset |-> d]]
       \/ /\ machine.state \in {"ConsumingResults", "Complete", "Failed"}
          /\ calls' = [calls EXCEPT ![c] = [op |-> "Result", run |-> server, state |-> machine.state]]
    /\ UNCHANGED <<runnerVars, machine, loop, gen, ended, agent, tasks, control, activeRun, server, used, proxy, answers>>

\* The upload, or for a remote source what is downloaded in its place.
Algo(call) ==
    /\ call.op = "Algo"
    /\ \/ \E p \in IF RemoteAlgorithm THEN Fetched ELSE {call.program} :
              ~agent.received /\ CommitmentMatches(p) /\ agent' = Store(p) /\ SendEvent("AlgorithmReceived")
       \/ UNCHANGED <<agent, loop>>     \* refused, or one of the file operations fails
    /\ UNCHANGED answers

Data(call) ==
    /\ call.op = "Data"
    /\ \/ \E d \in IF RemoteMissing # {} THEN RemoteMissing ELSE agent.missing \cap {call.dataset} :
              /\ agent' = [agent EXCEPT !.missing = @ \ {d}]
              /\ IF agent.missing = {d} THEN SendEvent("DataReceived") ELSE UNCHANGED loop
       \/ UNCHANGED <<agent, loop>>
    /\ UNCHANGED answers

Result(call) ==
    /\ call.op = "Result"
    /\ \/ /\ agent.computation = None   \* no such consumer
          /\ UNCHANGED <<agent, loop, answers>>
       \/ /\ agent.computation # None
          /\ answers' = answers \cup {[run |-> call.run, result |-> agent.result]}
          /\ IF ~agent.consumed /\ call.state = "ConsumingResults"
             THEN agent' = [agent EXCEPT !.consumed = TRUE] /\ SendEvent("ResultsConsumed")
             ELSE UNCHANGED <<agent, loop>>

CallEnd(c) ==
    /\ MuIsFree /\ calls[c] # NoCall
    /\ Algo(calls[c]) \/ Data(calls[c]) \/ Result(calls[c])
    /\ calls' = [calls EXCEPT ![c] = NoCall]
    /\ UNCHANGED <<runnerVars, machine, gen, ended, tasks, control, activeRun, server, used, proxy>>
-----------------------------------------------------------------------------
(* The control plane, under runMu. *)

controlOnly == <<machine, gen, ended, agent, tasks, calls, answers, loop>>

Begin(why) == gen < MaxGeneration /\ control' = [at |-> "CANCEL", why |-> why, ok |-> TRUE]

\* executeRun up to InitComputation: a second request for the active run is ignored,
\* any other is refused.
ExecuteRun(k) ==
    /\ control = Resting /\ activeRun = None
    /\ machine.state = "ReceivingManifest" /\ gen \notin ended
    /\ agent' = [agent EXCEPT !.computation = k, !.missing = k.data]
    /\ machine' = [machine EXCEPT !.afterAlgorithm = IF k.data = {} THEN "Running" ELSE "ReceivingData",
                                  !.afterData = @ \/ k.data # {}]
    /\ SendEvent("ManifestReceived")
    /\ activeRun' = k.id
    /\ control' = [Resting EXCEPT !.at = "SERVE"]
    /\ UNCHANGED <<runnerVars, gen, ended, tasks, calls, server, used, proxy, answers>>

\* sp.Start: a run id is served once.  Other failures give the id back or do not.
Serve ==
    /\ control.at = "SERVE"
    /\ \/ /\ activeRun \notin used
          /\ server' = activeRun /\ used' = used \cup {activeRun}
          /\ control' = IF proxy = "ABSENT" THEN Resting ELSE [control EXCEPT !.at = "INGRESS"]
       \/ /\ used' \in {used, used \cup {activeRun}}
          /\ Begin("SERVER") /\ UNCHANGED server
    /\ UNCHANGED <<runnerVars, controlOnly, activeRun, proxy>>

\* A proxy starts once in its life.
Ingress ==
    /\ control.at = "INGRESS"
    /\ \/ proxy = "NEW" /\ proxy' = "STARTED" /\ control' = Resting
       \/ Begin("INGRESS") /\ UNCHANGED proxy
    /\ UNCHANGED <<runnerVars, controlOnly, activeRun, server, used>>

HandleStop ==
    /\ control = Resting /\ activeRun # None
    /\ Begin("STOP")
    /\ UNCHANGED <<runnerVars, controlOnly, activeRun, server, used, proxy>>

\* StopComputation.
StopCancel ==
    /\ control.at = "CANCEL"
    /\ ended' = ended \cup {gen}
    /\ loop' = IF loop[gen] = Waiting THEN [loop EXCEPT ![gen] = Dead] ELSE loop
    /\ control' = [control EXCEPT !.at = "RUNNER"]
    /\ UNCHANGED <<runnerVars, machine, gen, agent, tasks, calls, activeRun, server, used, proxy, answers>>

StopRunner ==
    /\ control.at = "RUNNER"
    /\ StopLook(IF agent.computation = None THEN None ELSE agent.computation.id)
    /\ UNCHANGED agentVars

StopRunnerDone ==
    /\ control.at = "RUNNER" /\ stopCall.at \in {"STOPPED", "FAILED"}
    /\ \/ stopCall.at = "STOPPED" /\ control' = [control EXCEPT !.at = "RESET"]
       \/ control' = [control EXCEPT !.at = "AFTER", !.ok = FALSE]
    /\ stopCall' = Idle
    /\ UNCHANGED <<rpc, slot, algorithm, stopWanted, controlOnly, activeRun, server, used, proxy>>

\* The files, the state machine and the fields; a directory that cannot be removed
\* ends the call before anything is reset, a file that cannot be removed does not.
StopReset ==
    /\ control.at = "RESET"
    /\ \/ /\ agent' \in WithoutFile([Fresh EXCEPT !.file = agent.file])
          /\ machine' = [machine EXCEPT !.state = "Idle"]
          /\ gen' = gen + 1
          /\ control' = [control EXCEPT !.at = "BIND"]
       \/ /\ control' = [control EXCEPT !.at = "AFTER", !.ok = FALSE]
          /\ UNCHANGED <<agent, machine, gen>>
    /\ UNCHANGED <<runnerVars, loop, ended, tasks, calls, activeRun, server, used, proxy, answers>>

StopBind ==
    /\ control.at = "BIND"
    /\ machine' = [machine EXCEPT !.bound = gen]
    /\ loop' = [loop EXCEPT ![gen] = [at |-> "BUSY", event |-> None]]
    /\ control' = [control EXCEPT !.at = "SEND"]
    /\ UNCHANGED <<runnerVars, gen, ended, agent, tasks, calls, activeRun, server, used, proxy, answers>>

StopSend ==
    /\ control.at = "SEND" /\ LoopsAtRest
    /\ SendEvent("Start")
    /\ control' = [control EXCEPT !.at = "SETTLE"]
    /\ UNCHANGED <<runnerVars, machine, gen, ended, agent, tasks, calls, activeRun, server, used, proxy, answers>>

StopSettle ==
    /\ control.at = "SETTLE" /\ LoopsAtRest
    /\ control' = [control EXCEPT !.at = "AFTER"]
    /\ UNCHANGED <<runnerVars, controlOnly, activeRun, server, used, proxy>>

\* GracefulStop waits for the calls the server has taken.
Drained == \A c \in Caller : calls[c] = NoCall

Release(ok) == activeRun' = IF ok THEN None ELSE activeRun

\* What the request does after StopComputation: the server that was started, then
\* the proxy, whose Stop may fail once.  Only a complete stop frees the Agent.
StopAfter ==
    /\ control.at = "AFTER"
    /\ \/ control.why = "SERVER" /\ Release(control.ok) /\ UNCHANGED <<server, proxy>>
       \/ /\ control.why = "INGRESS" /\ Drained
          /\ server' = None /\ Release(control.ok) /\ UNCHANGED proxy
       \/ /\ control.why = "STOP" /\ Drained
          /\ server' = None
          /\ \/ proxy' = (IF proxy = "ABSENT" THEN proxy ELSE "STOPPED") /\ Release(control.ok)
             \/ proxy = "STARTED" /\ proxy' = "STOPPED" /\ Release(FALSE)
    /\ control' = Resting
    /\ UNCHANGED <<runnerVars, controlOnly, used>>

ControlStep ==
    \/ \E k \in Computation : ExecuteRun(k)
    \/ Serve \/ Ingress \/ HandleStop
    \/ StopCancel \/ StopRunner \/ StopRunnerDone \/ StopReset \/ StopBind \/ StopSend \/ StopSettle \/ StopAfter
-----------------------------------------------------------------------------
Next ==
    \/ RunnerNext /\ UNCHANGED agentVars
    \/ LoopStep /\ UNCHANGED runnerVars
    \/ RunTask
    \/ \E n \in Run : RunReturned(n) \/ RunCanceled(n)
    \/ \E c \in Caller : CallBegin(c) \/ CallEnd(c)
    \/ ControlStep

Spec == Init /\ [][Next]_vars
-----------------------------------------------------------------------------
State ==
    {"Idle", "ReceivingManifest", "ReceivingAlgorithm", "ReceivingData", "Running", "ConsumingResults",
     "Complete", "Failed"}

RunnerTypeOK ==
    /\ \A n \in Run :
           /\ rpc[n].at \in {"UNSENT", "SENT", "PREPARING", "LAUNCHING", "EXECUTING", "RETURNING", "ANSWERED"}
           /\ rpc[n].callback \in {"NONE", "DUE", "STOPPING", "DONE"}
           /\ {rpc[n].reached, rpc[n].stopped, rpc[n].ok} \subseteq BOOLEAN
    /\ {slot, algorithm} \subseteq Run \cup {None} /\ stopWanted \in BOOLEAN
    /\ stopCall.at \in {"IDLE", "STOPPING", "WAITING", "STOPPED", "FAILED"} /\ stopCall.call \in Run \cup {None}

\* One algorithm executes at a time, in the slot of its own call, and a canceled call
\* stops no algorithm but its own.
OneProcess ==
    \A n \in Run :
        /\ rpc[n].at \in {"PREPARING", "LAUNCHING", "EXECUTING", "RETURNING"} <=> slot = n
        /\ rpc[n].victim \in {None, n}

\* runCommand and Run: no command starts, be it the first of its algorithm or a
\* later one, once the algorithm has been stopped; and once the runner has been told
\* to stop a call, one starts only while the one who told it is still on the way to
\* the algorithm's lock.
NothingStartsLate ==
    \A n \in Run :
        rpc[n].at # "EXECUTING" /\ rpc'[n].at = "EXECUTING" =>
            /\ ~rpc[n].stopped
            /\ stopWanted /\ slot = n =>
                   rpc[n].callback = "STOPPING" \/ stopCall = [at |-> "STOPPING", call |-> n]

\* A Stop call that succeeded has seen its computation end.
StoppedHasEnded == stopCall.at = "STOPPED" /\ stopCall.call # None => Ended(stopCall.call)

TypeOK ==
    /\ RunnerTypeOK
    /\ machine.state \in State /\ machine.bound \in Generation
    /\ gen \in Generation /\ ended \subseteq Generation
    /\ agent.computation \in Computation \cup {None} /\ agent.file \in Program \cup {None}
    /\ agent.result \in Run \cup {None}
    /\ tasks \subseteq [state : State, gen : Generation]
    /\ {activeRun, server} \cup used \subseteq {k.id : k \in Computation} \cup {None}

\* The runner executes only the algorithm the manifest commits to, for the
\* computation that manifest is of, and with none of its datasets missing: a file left
\* over from an earlier run is refused even if a late loop gets the Agent to send it.
RunsWholeManifest ==
    \A n \in Run : rpc[n].at \in {"LAUNCHING", "EXECUTING"} \/ rpc[n].ok =>
        /\ rpc[n].job.computation # None
        /\ rpc[n].job.program = rpc[n].job.computation.program
        /\ rpc[n].job.lacking = {}

\* A response of an earlier lifecycle never publishes a result in a later one: the
\* result the Agent holds came from a call of the current generation.
PublishedIsOwn == agent.result # None => rpc[agent.result].job.gen = gen

\* A consumer gets results of the run it authenticated to, never another run's.
AnswersAreOwn ==
    \A a \in answers : a.result # None => rpc[a.result].job.id = a.run

\* Between runs nothing of one is left: an Agent without an active run has no
\* manifest, no result and no server, and no algorithm file but one that could not be
\* removed.  (A late loop may have had the results directory made again, empty.)
NothingIsLeft ==
    activeRun = None /\ control = Resting =>
        /\ [agent EXCEPT !.failed = FALSE, !.dir = FALSE, !.file = None, !.unremoved = FALSE] = Fresh
        /\ agent.file # None => agent.unremoved
        /\ server = None

\* Nor does such a response delete anything: the algorithm file of a computation goes
\* away with the response to its own run, when that run fails before the runner is
\* asked, or when the computation is stopped.
FilesStay ==
    agent.file # None /\ agent'.file = None =>
        \/ \E n \in Run :
               rpc[n].at # "UNSENT" /\ rpc[n].job.gen = gen /\ gen \notin ended /\ rpc[n].job.open /\ ~rpc'[n].job.open
        \/ [state |-> "Running", gen |-> gen] \in tasks \ tasks'
        \/ control.at = "RESET"
=============================================================================
