----------------------------- MODULE AgentServer -----------------------------
(***************************************************************************)
(* The Agent's gRPC server (agent/cvms/server): it records a run id on disk    *)
(* before it listens and serves a run once per VM, over restarts and power     *)
(* failures; and the authentication of its calls (agent/auth), whose memory of *)
(* used nonces lives only as long as the server.  The two together make a      *)
(* signed proof good for one call.                                          *)
(***************************************************************************)
EXTENDS Naturals, Functions

CONSTANTS
    None,
    RunID,
    Proof,        \* records [run, key, issued]; key stands for role, method and nonce
    Call,         \* concurrent calls
    MaxAge, MaxSkew,
    MaxTime, MaxFault, MaxStart     \* bounds

VARIABLES
    marker,     \* the run-id files, as the file system shows them
    durable,    \* those a power failure leaves
    starting,   \* [at, run] of Start
    server,     \* the run being served, or None
    seenNonces, \* its memory: key -> expiry
    calls, now, faults, starts,
    served, accepted    \* history: how often a run was served, a proof accepted before its expiry

vars == <<marker, durable, starting, server, seenNonces, calls, now, faults, starts, served, accepted>>

NotStarting == [at |-> "IDLE", run |-> None]
NoCall == [proof |-> None]
NoNonces == [k \in {} |-> 0]

Init ==
    /\ marker = {} /\ durable = {} /\ starting = NotStarting /\ server = None
    /\ seenNonces = NoNonces /\ calls = [c \in Call |-> NoCall]
    /\ now = 0 /\ faults = 0 /\ starts = 0
    /\ served = [r \in RunID |-> 0] /\ accepted = [p \in Proof |-> 0]

Goto(at) == starting' = [starting EXCEPT !.at = at]
callState == <<seenNonces, calls, now, accepted>>

\* markRunID creates the file exclusively.
MarkRunID(r) ==
    /\ starting = NotStarting /\ server = None /\ starts < MaxStart
    /\ r \notin marker
    /\ marker' = marker \cup {r} /\ starting' = [at |-> "SYNC", run |-> r] /\ starts' = starts + 1
    /\ UNCHANGED <<durable, server, callState, faults, served>>

\* Mutation: the directory is not synced.
SyncedFile == UNCHANGED durable

\* Sync of the file and of the directory.  When one fails the file stays.
Synced == durable' = (durable \ {starting.run}) \cup (marker \cap {starting.run})

SyncRunID ==
    /\ starting.at = "SYNC"
    /\ \/ Synced /\ Goto("LISTEN")
       \/ UNCHANGED durable /\ starting' = NotStarting
    /\ UNCHANGED <<marker, server, callState, faults, starts, served>>

\* A server of its own, with an empty nonce memory; a failed bind clears the mark.
Listen ==
    /\ starting.at = "LISTEN"
    /\ \/ /\ server' = starting.run /\ served' = [served EXCEPT ![starting.run] = @ + 1]
          /\ seenNonces' = NoNonces /\ starting' = NotStarting
          /\ UNCHANGED marker
       \/ /\ marker' = marker \ {starting.run} /\ Goto("CLEAR")
          /\ UNCHANGED <<server, served, seenNonces>>
    /\ UNCHANGED <<durable, calls, now, accepted, faults, starts>>

SyncCleared ==
    /\ starting.at = "CLEAR"
    /\ Synced \/ UNCHANGED durable
    /\ starting' = NotStarting
    /\ UNCHANGED <<marker, server, callState, faults, starts, served>>

\* GracefulStop lets the calls end.
Stop ==
    /\ starting = NotStarting /\ server # None /\ \A c \in Call : calls[c] = NoCall
    /\ server' = None
    /\ UNCHANGED <<marker, durable, starting, callState, faults, starts, served>>

Down == server' = None /\ starting' = NotStarting /\ calls' = [c \in Call |-> NoCall]

Crash ==
    /\ faults < MaxFault /\ faults' = faults + 1
    /\ Down
    /\ UNCHANGED <<marker, durable, seenNonces, now, accepted, starts, served>>

\* Of the directory changes that were not synced, some survive.
PowerFailure ==
    /\ faults < MaxFault /\ faults' = faults + 1
    /\ Down
    /\ \E disk \in SUBSET (marker \cup durable) :
           /\ marker \cap durable \subseteq disk
           /\ marker' = disk /\ durable' = disk
    /\ UNCHANGED <<seenNonces, now, accepted, starts, served>>

Tick ==
    /\ now < MaxTime /\ now' = now + 1
    /\ UNCHANGED <<marker, durable, starting, server, seenNonces, calls, faults, starts, served, accepted>>
-----------------------------------------------------------------------------
ValidIssuedAt(p) == p.issued + MaxAge >= now /\ p.issued <= now + MaxSkew

\* AuthenticateUser: the window is read from one clock reading, the signature binds
\* the run ...
Authenticate(c) ==
    /\ server # None /\ calls[c] = NoCall
    /\ \E p \in Proof :
           /\ ValidIssuedAt(p) /\ p.run = server
           /\ calls' = [calls EXCEPT ![c] = [proof |-> p]]
    /\ UNCHANGED <<marker, durable, starting, server, seenNonces, now, faults, starts, served, accepted>>

Expires(p) == p.issued + MaxAge

\* ... and markNonce reads the clock again, under the lock.
Live == Restrict(seenNonces, {k \in DOMAIN seenNonces : seenNonces[k] > now})

MarkNonce(c) ==
    /\ calls[c] # NoCall
    /\ LET p == calls[c].proof IN
       IF p.key \in DOMAIN Live
       THEN seenNonces' = Live /\ UNCHANGED accepted
       ELSE /\ seenNonces' = [k \in DOMAIN Live \cup {p.key} |-> IF k = p.key THEN Expires(p) ELSE Live[k]]
            /\ accepted' = [accepted EXCEPT ![p] = @ + (IF now < Expires(p) THEN 1 ELSE 0)]
    /\ calls' = [calls EXCEPT ![c] = NoCall]
    /\ UNCHANGED <<marker, durable, starting, server, now, faults, starts, served>>
-----------------------------------------------------------------------------
Next ==
    \/ \E r \in RunID : MarkRunID(r)
    \/ SyncRunID \/ Listen \/ SyncCleared \/ Stop \/ Crash \/ PowerFailure \/ Tick
    \/ \E c \in Call : Authenticate(c) \/ MarkNonce(c)

Spec == Init /\ [][Next]_vars

TypeOK ==
    /\ marker \subseteq RunID /\ durable \subseteq RunID /\ server \in RunID \cup {None}
    /\ starting \in [at : {"IDLE", "SYNC", "LISTEN", "CLEAR"}, run : RunID \cup {None}]
    /\ now \in 0 .. MaxTime /\ \A k \in DOMAIN seenNonces : seenNonces[k] \in Nat
    /\ calls \in [Call -> [proof : Proof \cup {None}]]
    /\ served \in [RunID -> Nat] /\ accepted \in [Proof -> Nat]

\* A VM serves a run id at most once, whatever fails between recording the id and
\* listening, and whether it is the process or the power.
RunIsServedOnce == \A r \in RunID : served[r] <= 1

\* A proof is accepted for one call as long as it is valid: of its acceptances at
\* most one is earlier than its expiry, over all servers and restarts.
ProofIsGoodOnce == \A p \in Proof : accepted[p] <= 1

\* A run id is served once on a VM (markRunID, Start), and a signed proof is good for
\* one call (AuthenticateUser, markNonce), over restarts and power failures.
ProofsAreGoodOnce == RunIsServedOnce /\ ProofIsGoodOnce
-----------------------------------------------------------------------------
(***************************************************************************)
(* The inductive invariant.  The memory of nonces is lost with the server; *)
(* what makes up for it is that a run which was served has its mark on the *)
(* disk, whatever fails, so that no other server will answer for it.       *)
(***************************************************************************)
ConstantsOK ==
    /\ MaxTime \in Nat /\ MaxAge \in Nat /\ MaxSkew \in Nat
    /\ None \notin RunID /\ None \notin Proof
    /\ \A p \in Proof : p.run \in RunID /\ p.issued \in Nat

\* The steps of Start: the mark is made, made durable, and only then served.
StartIsOrdered ==
    /\ starting.at = "IDLE" => starting = NotStarting
    /\ starting.at # "IDLE" => starting.run \in RunID /\ server = None
    /\ starting.at = "SYNC" => starting.run \in marker
    /\ starting.at = "LISTEN" => starting.run \in marker \cap durable

\* A run that was served is marked for good, and not about to be served again.
ServedIsMarked ==
    \A r \in RunID : served[r] > 0 => served[r] = 1 /\ r \in marker \cap durable /\ starting.run # r

\* A proof that was accepted cannot be again: its run is over, its time is, or the
\* server remembers its nonce for as long.
AcceptedIsSpent(p) ==
    /\ accepted[p] = 1 /\ served[p.run] = 1
    /\ \/ server # p.run
       \/ now >= Expires(p)
       \/ p.key \in DOMAIN seenNonces /\ seenNonces[p.key] >= Expires(p)

IndInv ==
    /\ TypeOK /\ StartIsOrdered /\ ServedIsMarked
    /\ server # None => served[server] = 1
    /\ \A c \in Call : calls[c] # NoCall => calls[c].proof \in Proof /\ calls[c].proof.run = server
    /\ \A p \in Proof : accepted[p] > 0 => AcceptedIsSpent(p)
=============================================================================
