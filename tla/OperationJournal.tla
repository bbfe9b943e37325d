-------------------------- MODULE OperationJournal --------------------------
(***************************************************************************)
(* The durable operation journal of pkg/operationjournal: the records of   *)
(* accepted operations, the replay keys that admitted them and the sealed  *)
(* results of those that succeeded, all in one state file.                 *)
(*                                                                         *)
(* FileStore serves one process.  A call holds the path lock from reading  *)
(* the file to the end, so a call is one step; its fate says how far the   *)
(* replacement of the file got:                                            *)
(*   SYNCED   renamed into place and the directory synced: the call        *)
(*            answers with its effect;                                     *)
(*   RENAMED  renamed, then the sync failed or the process died: the file  *)
(*            has changed but the caller is told nothing or an error;      *)
(*   FAILED   nothing changed: a canceled context, an unreadable file, a   *)
(*            failure before the rename.                                   *)
(* A renamed file that was not synced need not survive a power loss:       *)
(* "survivors" are the contents one may leave behind.  Time 0 is the zero  *)
(* time, and every clock reading is later.                                 *)
(***************************************************************************)
EXTENDS Naturals, Sequences

CONSTANTS
    Operation, Digest, Outcome, Sealed, ReplayKey,
    OutcomeOf(_),      \* the outcome digest a sealed result is bound to
    None,              \* the absent digest, outcome digest or sealed result
    MaxTime            \* the latest replay retention, a bound

VARIABLES
    journal,           \* the state file
    survivors,         \* the contents a power loss may leave
    clock              \* the wall clock

Time == 0..MaxTime
State == {"NONE", "ACCEPTED", "RUNNING", "INDETERMINATE", "SUCCEEDED", "FAILED", "CANCELED"}
TerminalStates == {"SUCCEEDED", "FAILED", "CANCELED"}
Fate == {"SYNCED", "RENAMED", "FAILED"}

Record ==
    [state : State, digest : Digest \cup {None}, outcome : Outcome \cup {None},
     createdAt : Time, updatedAt : Time, startedAt : Time, completedAt : Time]

NoRecord ==
    [state |-> "NONE", digest |-> None, outcome |-> None,
     createdAt |-> 0, updatedAt |-> 0, startedAt |-> 0, completedAt |-> 0]

\* A replay key is absent when its retention is 0.
Journal ==
    [records : [Operation -> Record], replay : [ReplayKey -> Time],
     results : [Operation -> Sealed \cup {None}]]

EmptyJournal ==
    [records |-> [o \in Operation |-> NoRecord], replay |-> [k \in ReplayKey |-> 0],
     results |-> [o \in Operation |-> None]]
-----------------------------------------------------------------------------
(***************************************************************************)
(* What a method makes of the file it read: the file to write, and the     *)
(* answer.  "fresh" is the created or started result.                      *)
(***************************************************************************)

Refuse(j, error) == [journal |-> j, error |-> error, record |-> NoRecord, fresh |-> FALSE]

Give(j, record) == [journal |-> j, error |-> "OK", record |-> record, fresh |-> FALSE]

Put(j, o, record) ==
    [journal |-> [j EXCEPT !.records[o] = record], error |-> "OK", record |-> record, fresh |-> TRUE]

lookupExact(j, o, d) ==
    CASE j.records[o].state = "NONE" -> "NOT_FOUND"
      [] j.records[o].digest # d -> "CONFLICT"
      [] OTHER -> "OK"

\* An effect on the record of exactly this request.
Exact(j, o, d, effect) ==
    IF lookupExact(j, o, d) = "OK" THEN effect ELSE Refuse(j, lookupExact(j, o, d))

Lookup(j, o, d) == Exact(j, o, d, Give(j, j.records[o]))

LookupResult(j, o, d) ==
    Exact(j, o, d,
          IF j.records[o].state # "SUCCEEDED" \/ j.records[o].outcome = None THEN Refuse(j, "TRANSITION")
          ELSE IF j.results[o] = None THEN Refuse(j, "NOT_FOUND")
          ELSE Give(j, j.records[o]))

\* Never before the record's latest time, whatever the wall clock says.
currentTime(notBefore) == IF clock < notBefore THEN notBefore ELSE clock

Accepted(d) ==
    [NoRecord EXCEPT !.state = "ACCEPTED", !.digest = d, !.createdAt = clock, !.updatedAt = clock]

Reserve(j, o, d) ==
    IF lookupExact(j, o, d) = "NOT_FOUND" THEN Put(j, o, Accepted(d)) ELSE Lookup(j, o, d)

\* The replay keys still retained.
Pruned(j) == [j EXCEPT !.replay = [k \in ReplayKey |-> IF clock < @[k] THEN @[k] ELSE 0]]

\* The replay key goes into the same file replacement as the operation.
KeepKey(effect, k, until) ==
    IF effect.error = "OK" THEN [effect EXCEPT !.journal.replay[k] = until] ELSE effect

ReserveAcceptance(j, k, until, o, d) ==
    IF clock >= until THEN Refuse(j, "INVALID")
    ELSE IF Pruned(j).replay[k] # 0 THEN Refuse(j, "REPLAY")
    ELSE IF lookupExact(j, o, d) = "CONFLICT" THEN Refuse(j, "CONFLICT")
    ELSE KeepKey(Reserve(Pruned(j), o, d), k, until)

Startable(record) == record.state = "ACCEPTED"

MarkRunning(j, o, d) ==
    LET record == j.records[o]
        now    == currentTime(record.updatedAt)
    IN  Exact(j, o, d,
              CASE record.state = "RUNNING" -> Give(j, record)
                [] Startable(record) ->
                       Put(j, o, [record EXCEPT !.state = "RUNNING", !.startedAt = now, !.updatedAt = now])
                [] OTHER -> Refuse(j, "TRANSITION"))

MarkIndeterminate(j, o, d) ==
    LET record == j.records[o]
    IN  Exact(j, o, d,
              CASE record.state = "INDETERMINATE" -> Give(j, record)
                [] record.state = "RUNNING" ->
                       Put(j, o, [record EXCEPT !.state = "INDETERMINATE",
                                                !.updatedAt = currentTime(record.updatedAt)])
                [] OTHER -> Refuse(j, "TRANSITION"))

Decided(record) == <<record.state, record.outcome>>

SameDecision(record, state, outcome) == Decided(record) = <<state, outcome>>

\* Mutation: a decided operation may be decided again.
DecidableAnyway(record, state) == record.state = "ACCEPTED" => state = "CANCELED"

\* Only a cancellation may decide an operation that never started.
Decidable(record, state) ==
    /\ record.state \notin TerminalStates
    /\ record.state = "ACCEPTED" => state = "CANCELED"

finalizeRecord(j, o, state, outcome) ==
    LET record == j.records[o]
        now    == currentTime(record.updatedAt)
    IN  CASE record.state \in TerminalStates /\ SameDecision(record, state, outcome) -> Give(j, record)
          [] Decidable(record, state) ->
                 Put(j, o, [record EXCEPT !.state = state, !.outcome = outcome,
                                          !.completedAt = now, !.updatedAt = now])
          [] OTHER -> Refuse(j, IF record.state \in TerminalStates THEN "CONFLICT" ELSE "TRANSITION")

Finalize(j, o, d, state, outcome) == Exact(j, o, d, finalizeRecord(j, o, state, outcome))

\* SUCCEEDED and its sealed result, in one file replacement.  A decision made
\* without this result cannot be given one later.
FinalizeWithResult(j, o, d, sealed) ==
    LET effect == finalizeRecord(j, o, "SUCCEEDED", OutcomeOf(sealed))
    IN  Exact(j, o, d,
              IF effect.error # "OK" THEN effect
              ELSE IF effect.fresh THEN [effect EXCEPT !.journal.results[o] = sealed]
              ELSE IF j.results[o] = sealed THEN effect
              ELSE Refuse(j, "CONFLICT"))
-----------------------------------------------------------------------------
(* What validatePersistedState lets into the file, and out of it. *)

\* validatePersistedRecord
ValidRecord(r) ==
    /\ r.createdAt # 0 /\ r.createdAt <= r.updatedAt
    /\ r.state = "ACCEPTED" => r.startedAt = 0
    /\ r.state \in {"RUNNING", "INDETERMINATE", "SUCCEEDED", "FAILED"} => r.startedAt # 0
    /\ r.state \in TerminalStates => r.completedAt # 0
    /\ r.state \notin TerminalStates => r.completedAt = 0 /\ r.outcome = None
    /\ r.startedAt # 0 => r.createdAt <= r.startedAt /\ r.startedAt <= r.updatedAt
    /\ r.completedAt # 0 => r.completedAt = r.updatedAt

\* validatePersistedState
ValidState(j) ==
    \A o \in Operation :
        /\ j.records[o].state # "NONE" => ValidRecord(j.records[o])
        /\ j.results[o] # None =>
               /\ j.records[o].state = "SUCCEEDED"
               /\ j.records[o].outcome = OutcomeOf(j.results[o])
-----------------------------------------------------------------------------
(* Persisting an effect, and losing power. *)

Writes(effect) == effect.journal # journal

\* Whether the caller gets the effect's answer rather than ErrUnavailable.
Answers(effect, fate) ==
    /\ fate # "FAILED"
    /\ Writes(effect) => fate = "SYNCED" /\ ValidState(effect.journal)

Answer(effect, fate) ==
    IF Answers(effect, fate)
    THEN [error |-> effect.error, record |-> effect.record, fresh |-> effect.fresh]
    ELSE [error |-> "UNAVAILABLE", record |-> NoRecord, fresh |-> FALSE]

persist(effect, fate) ==
    IF fate = "FAILED" \/ ~ValidState(effect.journal) \/ ~Writes(effect)
    THEN UNCHANGED <<journal, survivors>>
    ELSE /\ journal' = effect.journal
         /\ survivors' = IF fate = "SYNCED" THEN {journal'} ELSE survivors \cup {journal'}

LosePower ==
    /\ journal' \in survivors
    /\ survivors' = {journal'}

JournalInit == journal = EmptyJournal /\ survivors = {EmptyJournal} /\ clock = 1

JournalTypeOK == journal \in Journal /\ survivors \subseteq Journal /\ journal \in survivors
=============================================================================
