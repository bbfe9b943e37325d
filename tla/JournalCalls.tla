---------------------------- MODULE JournalCalls ----------------------------
(***************************************************************************)
(* Callers of an operation journal that call any method at any time, with  *)
(* any request, and what the journal has told them.  "sequence" numbers    *)
(* are the positions in the sequences of answers kept here as history.     *)
(***************************************************************************)
EXTENDS OperationJournal, Integers

CONSTANTS
    AcceptanceRequest, \* [key, until, op, digest]
    Decision,          \* [state, outcome, sealed]: sealed is None in a plain Finalize
    ClockStep,         \* how far the wall clock may jump: negative when it is set back
    MaxCommitLoss,     \* failed replacements and power losses, a bound
    MaxAcceptances     \* answered acceptances, a bound

VARIABLES
    starts,            \* Operation -> answers with started=true
    acceptances,       \* [key, at, until, op, digest] of the answered acceptances
    decisions,         \* [op, digest, state, outcome, sealed, firm] of the answered
                       \* decisions; firm when that very call wrote and synced it
    losses

\* What callers may send: requests with the types of the method's arguments, and
\* a sealed result only with the SUCCEEDED and the outcome it is bound to.
ConstantsOK ==
    /\ MaxTime \in Nat \ {0} /\ ClockStep \subseteq Int
    /\ \A sealed \in Sealed : OutcomeOf(sealed) \in Outcome
    /\ AcceptanceRequest \subseteq [key : ReplayKey, until : Time, op : Operation, digest : Digest]
    /\ Decision \subseteq [state : TerminalStates, outcome : Outcome \cup {None}, sealed : Sealed \cup {None}]
    /\ \A t \in Decision : t.sealed # None => t.state = "SUCCEEDED" /\ t.outcome = OutcomeOf(t.sealed)

history == <<starts, acceptances, decisions, losses>>
vars == <<journal, survivors, clock, history>>

\* One call: its fate costs a loss unless it is synced.
Commit(effect, fate) ==
    /\ persist(effect, fate)
    /\ losses' = IF fate = "SYNCED" THEN losses ELSE losses + 1
    /\ losses' <= MaxCommitLoss
    /\ UNCHANGED clock

CallReserve(o, d, fate) ==
    /\ Commit(Reserve(journal, o, d), fate)
    /\ UNCHANGED <<starts, acceptances, decisions>>

CallReserveAcceptance(q, fate) ==
    LET effect == ReserveAcceptance(journal, q.key, q.until, q.op, q.digest)
    IN  /\ Len(acceptances) < MaxAcceptances
        /\ Commit(effect, fate)
        /\ acceptances' = IF Answer(effect, fate).error = "OK"
                          THEN Append(acceptances, [key |-> q.key, at |-> clock, until |-> q.until,
                                                    op |-> q.op, digest |-> q.digest])
                          ELSE acceptances
        /\ UNCHANGED <<starts, decisions>>

CallMarkRunning(o, d, fate) ==
    LET effect == MarkRunning(journal, o, d)
    IN  /\ Commit(effect, fate)
        /\ starts' = IF Answer(effect, fate).fresh THEN [starts EXCEPT ![o] = @ + 1] ELSE starts
        /\ UNCHANGED <<acceptances, decisions>>

CallMarkIndeterminate(o, d, fate) ==
    /\ Commit(MarkIndeterminate(journal, o, d), fate)
    /\ UNCHANGED <<starts, acceptances, decisions>>

Told(o, d, decision, answer) ==
    IF answer.error # "OK" THEN {}
    ELSE {[op |-> o, digest |-> d, state |-> decision.state, outcome |-> decision.outcome,
           sealed |-> decision.sealed, firm |-> answer.fresh]}

\* Finalize, or FinalizeWithResult when there is a result.
DecisionEffect(j, o, d, decision) ==
    IF decision.sealed = None
    THEN Finalize(j, o, d, decision.state, decision.outcome)
    ELSE FinalizeWithResult(j, o, d, decision.sealed)

CallFinalize(o, d, decision, fate) ==
    LET effect == DecisionEffect(journal, o, d, decision)
    IN  /\ Commit(effect, fate)
        /\ decisions' = decisions \cup Told(o, d, decision, Answer(effect, fate))
        /\ UNCHANGED <<starts, acceptances>>

\* The host loses power; the process restarts with the file that is left.
PowerLoss ==
    /\ losses < MaxCommitLoss /\ losses' = losses + 1
    /\ LosePower
    /\ UNCHANGED <<clock, starts, acceptances, decisions>>

Tick ==
    /\ \E s \in ClockStep : clock + s \in 1..MaxTime /\ clock' = clock + s
    /\ UNCHANGED <<journal, survivors, history>>

Init ==
    /\ JournalInit
    /\ starts = [o \in Operation |-> 0] /\ acceptances = <<>> /\ decisions = {} /\ losses = 0

Next ==
    \/ \E o \in Operation, d \in Digest, fate \in Fate :
           \/ CallReserve(o, d, fate)
           \/ CallMarkRunning(o, d, fate)
           \/ CallMarkIndeterminate(o, d, fate)
           \/ \E decision \in Decision : CallFinalize(o, d, decision, fate)
    \/ \E q \in AcceptanceRequest, fate \in Fate : CallReserveAcceptance(q, fate)
    \/ PowerLoss
    \/ Tick

Spec == Init /\ [][Next]_vars
-----------------------------------------------------------------------------
(* The file and the answers have the shapes the Go types give them. *)
TypeOK ==
    /\ JournalTypeOK
    /\ clock \in 1..MaxTime
    /\ starts \in [Operation -> Nat]
    /\ losses \in 0..MaxCommitLoss

(***************************************************************************)
(* MarkRunning answers started=true at most once for an operation, so that *)
(* its executor runs at most once: through failed commits, retries, an     *)
(* outcome left unknown and power losses.                                  *)
(***************************************************************************)
StartedOnce == \A o \in Operation : starts[o] <= 1

(***************************************************************************)
(* Two answered acceptances with one replay key never overlap: the later   *)
(* one comes when the retention of the earlier one has passed.  A clock    *)
(* that runs forward is assumed.                                           *)
(***************************************************************************)
ReplayKeyOnce ==
    \A m, n \in DOMAIN acceptances :
        m < n /\ acceptances[m].key = acceptances[n].key => acceptances[m].until <= acceptances[n].at

(***************************************************************************)
(* An answered acceptance is durable as a whole: whatever a power loss     *)
(* leaves behind holds its operation, with exactly the accepted request,   *)
(* and the replay key until its retention has passed.                      *)
(***************************************************************************)
AcceptanceIsDurable ==
    \A n \in DOMAIN acceptances, s \in survivors :
        LET a == acceptances[n]
        IN  /\ s.records[a.op].digest = a.digest
            /\ clock < a.until => s.replay[a.key] # 0

\* The file s has the decision t, with its sealed result.
HoldsDecision(s, t) ==
    /\ Decided(s.records[t.op]) = <<t.state, t.outcome>>
    /\ t.sealed # None => s.results[t.op] = t.sealed

(***************************************************************************)
(* A decision that a call wrote, synced and answered is never replaced by  *)
(* a different one and keeps its sealed result: FinalizeWithResult refuses *)
(* any other result, and LookupResult finds this one after a power loss.   *)
(***************************************************************************)
FirmDecisionIsFinal == \A t \in decisions : t.firm => \A s \in survivors : HoldsDecision(s, t)

(***************************************************************************)
(* validatePersistedState, which runs before every replacement, never      *)
(* refuses what a method computed, even when the wall clock was set back   *)
(* between two calls: an operation cannot get stuck on its own times.      *)
(***************************************************************************)
NoEffectIsRefused ==
    /\ \A o \in Operation, d \in Digest :
        /\ ValidState(Reserve(journal, o, d).journal)
        /\ ValidState(MarkRunning(journal, o, d).journal)
        /\ ValidState(MarkIndeterminate(journal, o, d).journal)
        /\ \A t \in Decision : ValidState(DecisionEffect(journal, o, d, t).journal)
    /\ \A q \in AcceptanceRequest :
           ValidState(ReserveAcceptance(journal, q.key, q.until, q.op, q.digest).journal)

(***************************************************************************)
(* The inductive invariant.  An answered start, firm decision or           *)
(* acceptance has reached every content a power loss may leave, because    *)
(* its call synced the directory; and what is there no method takes back.  *)
(***************************************************************************)
Begun(record) == record.state \notin {"NONE", "ACCEPTED"}

StartIsRecorded ==
    \A o \in Operation : starts[o] # 0 => \A s \in survivors : Begun(s.records[o])

IndInv ==
    /\ JournalTypeOK /\ clock \in 1..MaxTime
    /\ starts \in [Operation -> Nat]
    /\ StartIsRecorded /\ StartedOnce
    /\ \A t \in decisions : t.op \in Operation /\ t.state \in TerminalStates
    /\ FirmDecisionIsFinal
    /\ \A s \in survivors : ValidState(s)

Acceptance == [key : ReplayKey, at : Time, until : Time, op : Operation, digest : Digest]

\* The file s has the operation of the acceptance a and, until it ends, its key.
HoldsKey(s, a) ==
    /\ s.records[a.op].state # "NONE" /\ s.records[a.op].digest = a.digest
    /\ clock < a.until => s.replay[a.key] = a.until

\* With a clock that runs forward, an answered acceptance keeps its key.
AcceptanceInv ==
    /\ acceptances \in Seq(Acceptance)
    /\ \A n \in DOMAIN acceptances, s \in survivors : HoldsKey(s, acceptances[n])
    /\ ReplayKeyOnce

(***************************************************************************)
(* "a different terminal state or outcome digest is a conflict"            *)
(* (file_store.go:263): two answered decisions of an operation agree.      *)
(***************************************************************************)
AnsweredDecisionsAgree ==
    \A s, t \in decisions : s.op = t.op => s.state = t.state /\ s.outcome = t.outcome
=============================================================================
