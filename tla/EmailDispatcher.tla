-------------------------- MODULE EmailDispatcher ---------------------------
(***************************************************************************)
(* The Cloudflare email dispatcher of pkg/humanrelay/cloudflare: the relay *)
(* worker's SessionDispatcher and ProviderReconciler, over an operation    *)
(* journal.  Calls run concurrently in one process, a slot each; every     *)
(* call of the journal is a step of its own.  The process may die at any   *)
(* point, alone or with the host, and come back with other routes and      *)
(* messages.  A canceled or timed out context shows up as a failed journal *)
(* call or as a send of unknown outcome.  Time only dates the records and  *)
(* stands still here.                                                      *)
(***************************************************************************)
EXTENDS OperationJournal, FiniteSets

CONSTANTS
    Call,              \* the goroutines that call the dispatcher
    Request,           \* [intent, content]: dispatch requests of the relay
    Config,            \* routes and messages a process may be started with
    Email(_, _),       \* the email of a request under a configuration, or None
    MaxInFlight,       \* slots
    MaxLosses          \* crashes, power losses and failed commits, a bound

VARIABLES
    config, closed,    \* the running process
    call,              \* Call -> where it is, its request, what it prepared
    sends,             \* Operation -> HTTP attempts
    accepted,          \* [op, email, outcome] the provider has accepted
    acks,              \* [op, email, outcome, firm] answered as acknowledged
    losses

provider == <<sends, accepted>>
durable == <<journal, survivors>>
vars == <<durable, clock, config, closed, call, provider, acks, losses>>

Idle == [at |-> "IDLE", op |-> None, digest |-> None, outcome |-> None]
Goto(c, where) == call' = [call EXCEPT ![c].at = where]
Return(c) == call' = [call EXCEPT ![c] = Idle]
InFlight == {c \in Call : call[c] # Idle}

\* prepare: the request digest binds the request and the email it resolves to.
Bound(q, k) == <<q, Email(q, k)>>

SlotFree == Cardinality(InFlight) < MaxInFlight

\* enter and prepare: a call that gets no slot or whose request does not resolve
\* returns at once.
Enter(c, q, where) ==
    /\ call[c] = Idle /\ ~closed
    /\ SlotFree
    /\ Email(q, config) # None
    /\ call' = [call EXCEPT ![c] = [Idle EXCEPT !.at = where, !.op = q.intent, !.digest = Bound(q, config)]]
    /\ UNCHANGED <<durable, clock, config, closed, provider, acks, losses>>

Dispatch(c, q) == Enter(c, q, "RESERVE")

LookupAck(c, q) == Enter(c, q, "LOOKUP")

Commit(effect, fate) ==
    /\ persist(effect, fate)
    /\ losses' = IF fate = "SYNCED" THEN losses ELSE losses + 1
    /\ losses' <= MaxLosses

\* acknowledgement: only a SUCCEEDED record is one.
Acknowledges(record) == record.state = "SUCCEEDED"

\* The call returns, acknowledging what the answer's record holds.
Acknowledge(c, answer) ==
    /\ Return(c)
    /\ acks' = IF answer.error = "OK" /\ Acknowledges(answer.record)
               THEN acks \cup {[op |-> call[c].op, email |-> Email(call[c].digest[1], config),
                                outcome |-> answer.record.outcome, firm |-> answer.fresh]}
               ELSE acks

ReserveIntent(c, fate) ==
    LET effect == Reserve(journal, call[c].op, call[c].digest)
        answer == Answer(effect, fate)
    IN  /\ call[c].at = "RESERVE"
        /\ Commit(effect, fate)
        /\ IF answer.error = "OK" /\ answer.record.state = "ACCEPTED"
           THEN Goto(c, "MARK") /\ UNCHANGED acks
           ELSE Acknowledge(c, answer)
        /\ UNCHANGED <<clock, config, closed, provider>>

\* Only the winner of the transition to RUNNING sends.
MaySend(answer) == answer.fresh

MarkIntentRunning(c, fate) ==
    LET effect == MarkRunning(journal, call[c].op, call[c].digest)
        answer == Answer(effect, fate)
    IN  /\ call[c].at = "MARK"
        /\ Commit(effect, fate)
        /\ Goto(c, IF MaySend(answer) THEN "SEND" ELSE "LOOKUP")
        /\ UNCHANGED <<clock, config, closed, provider, acks>>

\* Lookup, and the recovery of a Dispatch that lost the race or the commit.
LookupIntent(c, fate) ==
    /\ call[c].at = "LOOKUP"
    /\ Commit(Lookup(journal, call[c].op, call[c].digest), fate)
    /\ Acknowledge(c, Answer(Lookup(journal, call[c].op, call[c].digest), fate))
    /\ UNCHANGED <<clock, config, closed, provider>>

\* The context ended between MarkRunning and the HTTP attempt.
GiveUpBeforeSend(c) ==
    /\ call[c].at = "SEND" /\ Return(c)
    /\ UNCHANGED <<durable, clock, config, closed, provider, acks, losses>>

Send(c) ==
    /\ call[c].at = "SEND" /\ Goto(c, "SENT")
    /\ sends' = [sends EXCEPT ![call[c].op] = @ + 1]
    /\ UNCHANGED <<durable, clock, config, closed, accepted, acks, losses>>

\* The provider takes the email; its response has not been read.
ProviderAccepts(c, x) ==
    /\ call[c].at = "SENT" /\ call[c].outcome = None
    /\ call' = [call EXCEPT ![c].outcome = x]
    /\ accepted' = accepted \cup {[op |-> call[c].op, email |-> Email(call[c].digest[1], config),
                                   outcome |-> x]}
    /\ UNCHANGED <<durable, clock, config, closed, sends, acks, losses>>

\* A transport error, a timeout, a refusal or a response that does not validate.
SendUnknown(c) ==
    /\ call[c].at = "SENT" /\ Return(c)
    /\ UNCHANGED <<durable, clock, config, closed, provider, acks, losses>>

SendAnswered(c) ==
    /\ call[c].at = "SENT" /\ call[c].outcome # None
    /\ Goto(c, "FINALIZE")
    /\ UNCHANGED <<durable, clock, config, closed, provider, acks, losses>>

FinalAnswer(effect, fate) == Answer(effect, fate)

FinalizeIntent(c, fate) ==
    LET effect == Finalize(journal, call[c].op, call[c].digest, "SUCCEEDED", call[c].outcome)
    IN  /\ call[c].at = "FINALIZE"
        /\ Commit(effect, fate)
        /\ Acknowledge(c, FinalAnswer(effect, fate))
        /\ UNCHANGED <<clock, config, closed, provider>>

\* New calls are refused; those already admitted finish.
Close ==
    /\ ~closed /\ closed' = TRUE
    /\ UNCHANGED <<durable, clock, config, call, provider, acks, losses>>

Restart ==
    /\ losses < MaxLosses /\ losses' = losses + 1
    /\ config' \in Config /\ closed' = FALSE
    /\ call' = [c \in Call |-> Idle]
    /\ UNCHANGED <<clock, provider, acks>>

Crash == Restart /\ UNCHANGED durable

PowerLoss == Restart /\ LosePower

Init ==
    /\ JournalInit
    /\ config \in Config /\ closed = FALSE
    /\ call = [c \in Call |-> Idle]
    /\ sends = [o \in Operation |-> 0] /\ accepted = {}
    /\ acks = {} /\ losses = 0

Step(c) ==
    \/ \E fate \in Fate :
           \/ ReserveIntent(c, fate)
           \/ MarkIntentRunning(c, fate)
           \/ LookupIntent(c, fate)
           \/ FinalizeIntent(c, fate)
    \/ GiveUpBeforeSend(c) \/ Send(c) \/ SendUnknown(c) \/ SendAnswered(c)

Next ==
    \/ \E c \in Call :
           \/ \E q \in Request : Dispatch(c, q) \/ LookupAck(c, q)
           \/ Step(c)
           \/ \E x \in Outcome : ProviderAccepts(c, x)
    \/ Close \/ Crash \/ PowerLoss

Spec == Init /\ [][Next]_vars
-----------------------------------------------------------------------------
(* Every call in flight has a slot, and the journal has its shape. *)
TypeOK ==
    /\ JournalTypeOK
    /\ Cardinality(InFlight) <= MaxInFlight
    /\ sends \in [Operation -> Nat]
    /\ losses \in 0..MaxLosses

(***************************************************************************)
(* "repeating the request cannot cause another send" (dispatcher.go): at   *)
(* most one HTTP attempt per intent, whatever concurrent calls, restarts,  *)
(* changed routes, failed commits and power losses there are.              *)
(***************************************************************************)
SendsOnce == \A o \in Operation : sends[o] <= 1

(***************************************************************************)
(* An acknowledgement is evidence: the provider accepted this very email   *)
(* for this very intent, also when it is read back by a later process with *)
(* other routes or messages.                                               *)
(***************************************************************************)
AckIsEvidence ==
    \A a \in acks : [op |-> a.op, email |-> a.email, outcome |-> a.outcome] \in accepted

(***************************************************************************)
(* An acknowledgement answered by the call that committed it is recovered  *)
(* by every later Lookup of the request, after a power loss too.           *)
(***************************************************************************)
AckIsRecoverable ==
    \A a \in acks : a.firm =>
        \A s \in survivors : s.records[a.op].state = "SUCCEEDED" /\ s.records[a.op].outcome = a.outcome
=============================================================================
