------------------------------- MODULE MCAgent -------------------------------
(***************************************************************************)
(* The Agent for TLC: either the lifecycle of its computations with the        *)
(* runner, without or with an ingress proxy, or its server with the            *)
(* authentication of calls.                                                  *)
(***************************************************************************)
EXTENDS AgentServer

CONSTANTS Run, Program, Caller, MaxGeneration

VARIABLES
    instance,
    rpc, slot, algorithm, stopWanted, stopCall,
    machine, loop, gen, ended, agent, tasks, apiCalls, control, activeRun, apiServer, used, proxy, answers

\* One computation fetches its algorithm and has no data; the other is uploaded, with
\* a dataset to fetch.
Computation ==
    {[id |-> "r1", program |-> "p", commands |-> 2, remote |-> TRUE, data |-> {}, remoteData |-> {}],
     [id |-> "r2", program |-> "q", commands |-> 1, remote |-> FALSE, data |-> {"d1"}, remoteData |-> {"d1"}]}

\* Behind an ingress proxy: two runs of one uploaded algorithm without data.
ProxiedComputation ==
    {[id |-> r, program |-> "p", commands |-> 1, remote |-> FALSE, data |-> {}, remoteData |-> {}] : r \in RunID}

Agent == INSTANCE AgentService WITH Stuck <- {"FILE"}, calls <- apiCalls, server <- apiServer
Proxied ==
    INSTANCE AgentService WITH
        Computation <- ProxiedComputation, Stuck <- {"FILE", "DIR"}, calls <- apiCalls, server <- apiServer

agentVars ==
    <<rpc, slot, algorithm, stopWanted, stopCall, machine, loop, gen, ended, agent, tasks, apiCalls, control,
      activeRun, apiServer, used, proxy, answers>>
mcVars == <<instance, agentVars, vars>>

\* One nonce, in two proofs for one run and one for another.
Proofs ==
    {[run |-> "r1", key |-> "k", issued |-> 1], [run |-> "r1", key |-> "k", issued |-> 2],
     [run |-> "r2", key |-> "k", issued |-> 1]}

MCInit ==
    /\ Init
    /\ \/ instance = "Agent" /\ Agent!Init /\ proxy = "ABSENT"
       \/ instance = "Proxied" /\ Proxied!Init /\ proxy = "NEW"
       \/ /\ instance = "Server"
          /\ rpc = None /\ slot = None /\ algorithm = None /\ stopWanted = FALSE /\ stopCall = None
          /\ machine = None /\ loop = None /\ gen = 0 /\ ended = {} /\ agent = None /\ tasks = {}
          /\ apiCalls = None /\ control = None /\ activeRun = None /\ apiServer = None
          /\ used = {} /\ proxy = None /\ answers = {}

MCNext ==
    \/ instance = "Agent" /\ Agent!Next /\ UNCHANGED <<instance, vars>>
    \/ instance = "Proxied" /\ Proxied!Next /\ UNCHANGED <<instance, vars>>
    \/ instance = "Server" /\ Next /\ UNCHANGED <<instance, agentVars>>

MCSpec == MCInit /\ [][MCNext]_mcVars

TypesOK ==
    /\ instance = "Agent" => Agent!TypeOK
    /\ instance = "Proxied" => Proxied!TypeOK
    /\ instance = "Server" => ConstantsOK /\ IndInv

OfAgent == instance \in {"Agent", "Proxied"}

\* A run of the Agent has nothing to do with the one before: the runner gets the
\* algorithm its manifest commits to with all the data, a late response neither
\* publishes nor deletes anything of a later run, a consumer gets the results of the
\* run it authenticated to, and a run that has been stopped leaves nothing but an
\* algorithm file that could not be removed, which is replaced before the next run.
RunsAreIsolated ==
    /\ []TypesOK
    /\ [](OfAgent => /\ Agent!RunsWholeManifest /\ Agent!PublishedIsOwn
                     /\ Agent!AnswersAreOwn /\ Agent!NothingIsLeft)
    /\ [][OfAgent => Agent!FilesStay]_agentVars

\* The runner executes one algorithm at a time; one that was stopped, by the Stop call
\* or by the cancellation of its own, starts no further command, one that was told to
\* stop before it existed starts none at all, and a Stop call that succeeds has seen it
\* end.
StopIsObeyed ==
    /\ [](OfAgent => Agent!OneProcess /\ Agent!StoppedHasEnded)
    /\ [][OfAgent => Agent!NothingStartsLate]_agentVars
=============================================================================
