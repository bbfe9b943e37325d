-------------------------- MODULE JournalTheorems --------------------------
(***************************************************************************)
(* What holds of the FileStore journal for all sets of operations,         *)
(* requests, decisions and replay keys, through any number of failed       *)
(* replacements and power losses.                                          *)
(***************************************************************************)
EXTENDS JournalCalls, TLAPS

\* What a method may make of a file j: operations are never forgotten, begun
\* ones never become startable, decided ones stay as they are, and a retained
\* replay key stays.
Follows(j, k) ==
    /\ \A o \in Operation :
        /\ j.records[o].state # "NONE" =>
               k.records[o].state # "NONE" /\ k.records[o].digest = j.records[o].digest
        /\ Begun(j.records[o]) => Begun(k.records[o])
        /\ j.records[o].state \in TerminalStates =>
               k.records[o] = j.records[o] /\ k.results[o] = j.results[o]
    /\ \A key \in ReplayKey : clock < j.replay[key] => k.replay[key] = j.replay[key]

\* An effect on a file of the right type: it follows from the file, and passes
\* validatePersistedState when the file did.
Sound(j, effect) ==
    /\ effect.journal \in Journal /\ Follows(j, effect.journal)
    /\ ValidState(j) => ValidState(effect.journal)

\* A valid record that keeps the digest of an operation that is not decided.
LEMMA PutIsSound ==
    ASSUME NEW j \in Journal, NEW o \in Operation, NEW record \in Record,
           record.state # "NONE",
           j.records[o].state # "NONE" => record.digest = j.records[o].digest,
           Begun(j.records[o]) => Begun(record),
           j.records[o].state \notin TerminalStates,
           ValidState(j) => ValidRecord(record)
    PROVE  /\ Sound(j, Put(j, o, record))
           /\ Put(j, o, record).journal.records[o] = record
           /\ Put(j, o, record).journal.results = j.results
           /\ Put(j, o, record).journal.replay = j.replay
<1> DEFINE k == Put(j, o, record).journal
<1>1. /\ k \in Journal /\ k.results = j.results /\ k.replay = j.replay /\ k.records[o] = record
      /\ \A p \in Operation : p # o => k.records[p] = j.records[p]
  BY Zenon DEF Put, Journal
<1> HIDE DEF k
<1>2. Follows(j, k)
  BY Zenon, <1>1 DEF Follows
<1>3. ASSUME ValidState(j) PROVE ValidState(k)
  <2>1. j.results[o] = None
    BY Zenon, <1>3 DEF ValidState, TerminalStates
  <2> QED
    BY Zenon, <1>1, <1>3, <2>1 DEF ValidState
<1> QED
  BY Zenon, <1>1, <1>2, <1>3 DEF Sound, k

\* An answer without a change.
LEMMA SameIsSound ==
    ASSUME NEW j \in Journal, NEW error, NEW record
    PROVE  Sound(j, Refuse(j, error)) /\ Sound(j, Give(j, record))
BY Zenon DEF Sound, Follows, Refuse, Give
-----------------------------------------------------------------------------
(* Every method is sound, and what its fresh answer says is in its file. *)

\* The time a method writes is a time, and not before the record's own.
LEMMA CurrentTimeType ==
    ASSUME MaxTime \in Nat, clock \in 1..MaxTime, NEW t \in Time
    PROVE  /\ currentTime(t) \in Time /\ currentTime(t) # 0
           /\ t <= currentTime(t) /\ clock <= currentTime(t)
BY DEF currentTime, Time

LEMMA ValidRecordOf ==
    ASSUME NEW j, NEW o \in Operation, ValidState(j), j.records[o].state # "NONE"
    PROVE  ValidRecord(j.records[o])
BY Zenon DEF ValidState

LEMMA ReserveIsSound ==
    ASSUME MaxTime \in Nat, clock \in 1..MaxTime,
           NEW j \in Journal, NEW o \in Operation, NEW d \in Digest
    PROVE  /\ Sound(j, Reserve(j, o, d))
           /\ Reserve(j, o, d).error = "OK" =>
                  /\ Reserve(j, o, d).journal.records[o].state # "NONE"
                  /\ Reserve(j, o, d).journal.records[o].digest = d
           /\ Reserve(j, o, d).journal.replay = j.replay
<1>1. CASE lookupExact(j, o, d) = "NOT_FOUND"
  <2>1. j.records[o].state = "NONE"
    BY Zenon, <1>1 DEF lookupExact
  <2>2. Accepted(d) \in Record /\ Accepted(d).state = "ACCEPTED" /\ Accepted(d).digest = d
    <3>1. clock \in Time /\ 0 \in Time
      BY DEF Time
    <3>2. NoRecord \in Record
      BY Zenon, <3>1 DEF NoRecord, Record, State
    <3> QED
      BY Zenon, <3>1, <3>2 DEF Accepted, Record, State
  <2>3. Reserve(j, o, d) = Put(j, o, Accepted(d))
    BY Zenon, <1>1 DEF Reserve
  <2>4. ValidRecord(Accepted(d))
    BY DEF Accepted, NoRecord, ValidRecord, TerminalStates
  <2> QED
    BY <2>1, <2>2, <2>3, <2>4, PutIsSound DEF Begun, TerminalStates
<1>2. CASE lookupExact(j, o, d) = "OK"
  <2>1. Reserve(j, o, d) = Give(j, j.records[o])
    BY Zenon, <1>2 DEF Reserve, Lookup, Exact
  <2> QED
    BY <1>2, <2>1, SameIsSound DEF Give, lookupExact
<1>3. CASE lookupExact(j, o, d) = "CONFLICT"
  <2>1. Reserve(j, o, d) = Refuse(j, "CONFLICT")
    BY Zenon, <1>3 DEF Reserve, Lookup, Exact
  <2> QED
    BY <2>1, SameIsSound DEF Refuse
<1> QED
  BY <1>1, <1>2, <1>3 DEF lookupExact

LEMMA MarkRunningIsSound ==
    ASSUME MaxTime \in Nat, clock \in 1..MaxTime,
           NEW j \in Journal, NEW o \in Operation, NEW d \in Digest
    PROVE  /\ Sound(j, MarkRunning(j, o, d))
           /\ MarkRunning(j, o, d).fresh =>
                  j.records[o].state = "ACCEPTED" /\ Begun(MarkRunning(j, o, d).journal.records[o])
<1> DEFINE record == j.records[o]
           now == currentTime(record.updatedAt)
           started == [record EXCEPT !.state = "RUNNING", !.startedAt = now, !.updatedAt = now]
<1>1. record \in Record
  BY Zenon DEF Journal
<1>2. started \in Record /\ started.state = "RUNNING" /\ started.digest = record.digest
  BY Zenon, <1>1, CurrentTimeType DEF Record, State
<1>3. CASE lookupExact(j, o, d) # "OK"
  <2>1. MarkRunning(j, o, d) = Refuse(j, lookupExact(j, o, d))
    BY Zenon, <1>3 DEF MarkRunning, Exact
  <2> QED
    BY <2>1, SameIsSound DEF Refuse
<1>4. CASE lookupExact(j, o, d) = "OK" /\ record.state = "RUNNING"
  <2>1. MarkRunning(j, o, d) = Give(j, record)
    BY Zenon, <1>4 DEF MarkRunning, Exact, Startable
  <2> QED
    BY <2>1, SameIsSound DEF Give
<1>5. CASE lookupExact(j, o, d) = "OK" /\ record.state = "ACCEPTED"
  <2>1. MarkRunning(j, o, d) = Put(j, o, started)
    BY Zenon, <1>5 DEF MarkRunning, Exact, Startable
  <2>2. ValidState(j) => ValidRecord(started)
    BY <1>1, <1>5, ValidRecordOf, CurrentTimeType DEF ValidRecord, Record, TerminalStates, Time
  <2> HIDE DEF started
  <2> QED
    BY <1>2, <1>5, <2>1, <2>2, PutIsSound DEF Begun, TerminalStates
<1>6. CASE lookupExact(j, o, d) = "OK" /\ record.state \notin {"RUNNING", "ACCEPTED"}
  <2>1. MarkRunning(j, o, d) = Refuse(j, "TRANSITION")
    BY Zenon, <1>6 DEF MarkRunning, Exact, Startable
  <2> QED
    BY <2>1, SameIsSound DEF Refuse
<1> QED
  BY Zenon, <1>3, <1>4, <1>5, <1>6

LEMMA MarkIndeterminateIsSound ==
    ASSUME MaxTime \in Nat, clock \in 1..MaxTime,
           NEW j \in Journal, NEW o \in Operation, NEW d \in Digest
    PROVE  Sound(j, MarkIndeterminate(j, o, d))
<1> DEFINE record == j.records[o]
           unknown == [record EXCEPT !.state = "INDETERMINATE",
                                     !.updatedAt = currentTime(record.updatedAt)]
<1>1. record \in Record
  BY Zenon DEF Journal
<1>2. unknown \in Record /\ unknown.state = "INDETERMINATE" /\ unknown.digest = record.digest
  BY Zenon, <1>1, CurrentTimeType DEF Record, State
<1>3. CASE lookupExact(j, o, d) = "OK" /\ record.state = "RUNNING"
  <2>1. MarkIndeterminate(j, o, d) = Put(j, o, unknown)
    BY Zenon, <1>3 DEF MarkIndeterminate, Exact
  <2>2. ValidState(j) => ValidRecord(unknown)
    BY <1>1, <1>3, ValidRecordOf, CurrentTimeType DEF ValidRecord, Record, TerminalStates, Time
  <2> HIDE DEF unknown
  <2> QED
    BY <1>2, <1>3, <2>1, <2>2, PutIsSound DEF Begun, TerminalStates
<1>4. CASE ~(lookupExact(j, o, d) = "OK" /\ record.state = "RUNNING")
  <2>1. \/ MarkIndeterminate(j, o, d) = Give(j, record)
        \/ MarkIndeterminate(j, o, d) = Refuse(j, "TRANSITION")
        \/ MarkIndeterminate(j, o, d) = Refuse(j, lookupExact(j, o, d))
    BY Zenon, <1>4 DEF MarkIndeterminate, Exact
  <2> QED
    BY Zenon, <2>1, SameIsSound
<1> QED
  BY Zenon, <1>3, <1>4

\* finalizeRecord decides an undecided operation, or leaves the file alone.
LEMMA FinalizeRecordIsSound ==
    ASSUME MaxTime \in Nat, clock \in 1..MaxTime,
           NEW j \in Journal, NEW o \in Operation,
           NEW state \in TerminalStates, NEW outcome \in Outcome \cup {None},
           j.records[o].state # "NONE"
    PROVE  LET effect == finalizeRecord(j, o, state, outcome)
           IN  /\ Sound(j, effect)
               /\ ~effect.fresh => effect.journal = j
               /\ effect.fresh => /\ j.records[o].state \notin TerminalStates
                                  /\ effect = Put(j, o, effect.record)
                                  /\ Decided(effect.record) = <<state, outcome>>
                                  /\ effect.record \in Record
                                  /\ effect.record.digest = j.records[o].digest
<1> DEFINE record == j.records[o]
           now == currentTime(record.updatedAt)
           final == [record EXCEPT !.state = state, !.outcome = outcome,
                                   !.completedAt = now, !.updatedAt = now]
           effect == finalizeRecord(j, o, state, outcome)
<1>1. record \in Record
  BY Zenon DEF Journal
<1>2. /\ final \in Record /\ final.state = state /\ final.outcome = outcome
      /\ final.digest = record.digest
  BY Zenon, <1>1, CurrentTimeType DEF Record, State, TerminalStates
<1>3. CASE Decidable(record, state)
  <2>1. effect = Put(j, o, final) /\ record.state \notin TerminalStates
    BY Zenon, <1>3 DEF finalizeRecord, Decidable
  <2>3. ValidState(j) => ValidRecord(final)
    BY <1>1, <1>3, ValidRecordOf, CurrentTimeType
       DEF ValidRecord, Decidable, Record, State, TerminalStates, Time
  <2> HIDE DEF final
  <2>2. effect.record = final /\ effect.fresh
    BY <2>1 DEF Put
  <2> QED
    BY <1>2, <2>1, <2>2, <2>3, PutIsSound DEF Begun, TerminalStates, Decided
<1>4. CASE ~Decidable(record, state)
  <2>1. \/ effect = Give(j, record)
        \/ effect = Refuse(j, "CONFLICT") \/ effect = Refuse(j, "TRANSITION")
    BY Zenon, <1>4 DEF finalizeRecord
  <2>2. effect.journal = j /\ effect.fresh = FALSE
    BY <2>1 DEF Give, Refuse
  <2>3. Sound(j, effect)
    BY Zenon, <2>1, SameIsSound
  <2> QED
    BY Zenon, <2>2, <2>3
<1> QED
  BY Zenon, <1>3, <1>4

LEMMA DecisionIsSound ==
    ASSUME ConstantsOK, clock \in 1..MaxTime,
           NEW j \in Journal, NEW o \in Operation, NEW d \in Digest, NEW decision \in Decision,
           NEW effect, effect = DecisionEffect(j, o, d, decision)
    PROVE  /\ Sound(j, effect)
           /\ effect.fresh =>
                  /\ effect.journal # j
                  /\ Decided(effect.journal.records[o]) = <<decision.state, decision.outcome>>
                  /\ decision.sealed # None => effect.journal.results[o] = decision.sealed
<1> DEFINE final == finalizeRecord(j, o, decision.state, decision.outcome)
<1>1. CASE lookupExact(j, o, d) # "OK"
  <2>1. effect = Refuse(j, lookupExact(j, o, d))
    BY Zenon, <1>1 DEF DecisionEffect, Finalize, FinalizeWithResult, Exact
  <2>2. effect.fresh = FALSE
    BY <2>1 DEF Refuse
  <2> QED
    BY Zenon, <2>1, <2>2, SameIsSound
<1>2. CASE lookupExact(j, o, d) = "OK"
  <2>1. /\ MaxTime \in Nat /\ j.records[o].state # "NONE"
        /\ decision.state \in TerminalStates /\ decision.outcome \in Outcome \cup {None}
        /\ decision.sealed \in Sealed \cup {None}
        /\ decision.sealed # None =>
               decision.state = "SUCCEEDED" /\ decision.outcome = OutcomeOf(decision.sealed)
    BY Zenon, <1>2 DEF ConstantsOK, lookupExact
  <2>2. /\ Sound(j, final)
        /\ ~final.fresh => final.journal = j
        /\ final.fresh => /\ j.records[o].state \notin TerminalStates
                          /\ final = Put(j, o, final.record)
                          /\ Decided(final.record) = <<decision.state, decision.outcome>>
                          /\ final.record \in Record
                          /\ final.record.digest = j.records[o].digest
    BY <2>1, FinalizeRecordIsSound
  <2> HIDE DEF final
  <2>3. final.fresh => /\ final.journal # j
                       /\ final.journal.records[o] = final.record
    <3> SUFFICES ASSUME final.fresh PROVE final.journal # j /\ final.journal.records[o] = final.record
      BY Zenon
    <3>1. final.record.state \in TerminalStates
      BY Zenon, <2>1, <2>2 DEF Decided
    <3>2. final.journal.records[o] = final.record
      BY <2>2 DEF Put, Journal
    <3> QED
      BY Zenon, <2>2, <3>1, <3>2
  <2>4. CASE decision.sealed = None
    <3>1. effect = final
      BY Zenon, <1>2, <2>4 DEF DecisionEffect, Finalize, Exact, final
    <3> QED
      BY Zenon, <2>2, <2>3, <2>4, <3>1
  <2>5. CASE decision.sealed # None
    <3>1. effect = IF final.error # "OK" THEN final
                   ELSE IF final.fresh THEN [final EXCEPT !.journal.results[o] = decision.sealed]
                   ELSE IF j.results[o] = decision.sealed THEN final
                   ELSE Refuse(j, "CONFLICT")
      BY Zenon, <1>2, <2>1, <2>5 DEF DecisionEffect, FinalizeWithResult, Exact, final
    <3>2. CASE final.fresh
      <4> DEFINE k == [final.journal EXCEPT !.results[o] = decision.sealed]
      <4>1. final.error = "OK" /\ effect.journal = k
        BY <2>2, <3>1, <3>2 DEF Put
      <4>2. /\ final.journal \in Journal /\ Follows(j, final.journal)
            /\ ValidState(j) => ValidState(final.journal)
        BY Zenon, <2>2 DEF Sound
      <4>3. /\ k \in Journal /\ k.records = final.journal.records /\ k.replay = final.journal.replay
            /\ k.results[o] = decision.sealed
            /\ \A p \in Operation : p # o => k.results[p] = final.journal.results[p]
        BY Zenon, <2>1, <2>5, <4>2 DEF Journal
      <4> HIDE DEF k
      <4>4. Follows(j, k)
        BY <2>2, <3>2, <4>2, <4>3 DEF Follows
      <4>5. k # j
        BY <2>2, <2>3, <3>2, <4>3, <2>1 DEF Decided
      <4>6. k.records[o].state = "SUCCEEDED" /\ k.records[o].outcome = OutcomeOf(k.results[o])
        BY <2>1, <2>2, <2>3, <2>5, <3>2, <4>3 DEF Decided
      <4>7. ValidState(j) => ValidState(k)
        BY Zenon, <4>2, <4>3, <4>6 DEF ValidState
      <4> QED
        BY <2>2, <2>3, <3>2, <4>1, <4>3, <4>4, <4>5, <4>7 DEF Sound
    <3>3. CASE ~final.fresh
      <4>1. effect = final \/ effect = Refuse(j, "CONFLICT")
        BY Zenon, <3>1, <3>3
      <4>2. effect.fresh = FALSE \/ effect = final
        BY <4>1 DEF Refuse
      <4> QED
        BY Zenon, <2>2, <3>3, <4>1, <4>2, SameIsSound
    <3> QED
      BY Zenon, <3>2, <3>3
  <2> QED
    BY Zenon, <2>4, <2>5
<1> QED
  BY Zenon, <1>1, <1>2

LEMMA ReserveAcceptanceIsSound ==
    ASSUME MaxTime \in Nat, clock \in 1..MaxTime,
           NEW j \in Journal, NEW k \in ReplayKey, NEW until \in Time,
           NEW o \in Operation, NEW d \in Digest,
           NEW effect, effect = ReserveAcceptance(j, k, until, o, d)
    PROVE  /\ Sound(j, effect)
           /\ effect.error = "OK" =>
                  /\ effect.journal # j
                  /\ effect.journal.records[o].state # "NONE"
                  /\ effect.journal.records[o].digest = d
                  /\ effect.journal.replay[k] = until
                  /\ ~(clock < j.replay[k])
<1> DEFINE pruned == Pruned(j)
           reserved == Reserve(pruned, o, d)
<1>1. /\ pruned \in Journal /\ pruned.records = j.records /\ pruned.results = j.results
      /\ \A key \in ReplayKey : pruned.replay[key] = IF clock < j.replay[key] THEN j.replay[key] ELSE 0
      /\ ValidState(j) => ValidState(pruned)
  BY DEF Pruned, Journal, Time, ValidState
<1> HIDE DEF pruned
<1>2. /\ Sound(pruned, reserved) /\ reserved.journal.replay = pruned.replay
      /\ reserved.error = "OK" => /\ reserved.journal.records[o].state # "NONE"
                                  /\ reserved.journal.records[o].digest = d
  BY <1>1, ReserveIsSound
<1>3. CASE /\ clock < until /\ pruned.replay[k] = 0 /\ lookupExact(j, o, d) # "CONFLICT"
           /\ reserved.error = "OK"
  <2> DEFINE kept == [reserved.journal EXCEPT !.replay[k] = until]
  <2>1. effect = [reserved EXCEPT !.journal.replay[k] = until]
    BY <1>3 DEF ReserveAcceptance, KeepKey, pruned, Time
  <2>2. /\ reserved.journal \in Journal /\ Follows(pruned, reserved.journal)
        /\ ValidState(j) => ValidState(reserved.journal)
    BY Zenon, <1>1, <1>2 DEF Sound
  <2>3. \E new \in Journal : \E error, record, fresh :
            reserved = [journal |-> new, error |-> error, record |-> record, fresh |-> fresh]
    <3>1. \/ \E r : reserved = Put(pruned, o, r)
          \/ \E r : reserved = Give(pruned, r)
          \/ \E error : reserved = Refuse(pruned, error)
      BY Zenon DEF Reserve, Lookup, Exact
    <3> QED
      BY Zenon, <3>1, <2>2 DEF Put, Give, Refuse
  <2>4. effect.journal = kept
    BY Zenon, <2>1, <2>3
  <2> HIDE DEF reserved
  <2>5. /\ kept \in Journal /\ kept.records = reserved.journal.records
        /\ kept.results = reserved.journal.results /\ kept.replay[k] = until
        /\ \A key \in ReplayKey : key # k => kept.replay[key] = reserved.journal.replay[key]
    BY Zenon, <2>2 DEF Journal
  <2> HIDE DEF kept
  <2>6. ~(clock < j.replay[k])
    BY <1>1, <1>3 DEF Journal, Time
  <2>7. Follows(j, kept)
    BY <1>1, <1>2, <2>2, <2>5, <2>6 DEF Follows
  <2>8. kept # j
    BY Zenon, <1>3, <2>5, <2>6
  <2>9. ValidState(j) => ValidState(kept)
    BY Zenon, <2>2, <2>5 DEF ValidState
  <2> QED
    BY Zenon, <1>2, <1>3, <2>4, <2>5, <2>6, <2>7, <2>8, <2>9 DEF Sound
<1>4. CASE ~(/\ clock < until /\ pruned.replay[k] = 0 /\ lookupExact(j, o, d) # "CONFLICT"
             /\ reserved.error = "OK")
  <2>1. \/ effect = Refuse(j, "INVALID") \/ effect = Refuse(j, "REPLAY") \/ effect = Refuse(j, "CONFLICT")
        \/ effect = reserved /\ reserved.error # "OK"
    BY <1>4 DEF ReserveAcceptance, KeepKey, pruned, Time
  <2>2. CASE effect = reserved /\ reserved.error # "OK"
    BY <1>1, <1>2, <2>2 DEF Sound, Follows
  <2>3. CASE ~(effect = reserved /\ reserved.error # "OK")
    <3>1. effect.error # "OK"
      BY <2>1, <2>3 DEF Refuse
    <3> QED
      BY Zenon, <2>1, <2>3, <3>1, SameIsSound
  <2> QED
    BY Zenon, <2>2, <2>3
<1> QED
  BY Zenon, <1>3, <1>4
-----------------------------------------------------------------------------
(* A commit, whatever its fate. *)

\* What a power loss may leave was there before or is the effect, and it is
\* the effect alone when the caller gets the answer of a change.
LEMMA CommitSurvivors ==
    ASSUME JournalTypeOK, NEW effect, Sound(journal, effect), NEW fate \in Fate,
           persist(effect, fate)
    PROVE  /\ JournalTypeOK'
           /\ \A s \in survivors' : s \in survivors \/ (s = effect.journal /\ ValidState(s))
           /\ Answers(effect, fate) /\ Writes(effect) => survivors' = {effect.journal}
<1> USE DEF JournalTypeOK, Sound, persist
<1>1. CASE fate = "FAILED" \/ ~ValidState(effect.journal) \/ ~Writes(effect)
  BY <1>1 DEF Answers
<1>2. CASE fate # "FAILED" /\ ValidState(effect.journal) /\ Writes(effect)
  BY Zenon, <1>2 DEF Answers
<1> QED
  BY Zenon, <1>1, <1>2

\* What the callers know stays true of everything a power loss may leave.
LEMMA CommitKeeps ==
    ASSUME IndInv, NEW effect, Sound(journal, effect), NEW fate \in Fate, Commit(effect, fate)
    PROVE  /\ JournalTypeOK' /\ clock' = clock
           /\ \A o \in Operation : starts[o] # 0 => \A s \in survivors' : Begun(s.records[o])
           /\ \A t \in decisions : t.firm => \A s \in survivors' : HoldsDecision(s, t)
           /\ \A s \in survivors' : ValidState(s)
<1>1. /\ JournalTypeOK' /\ clock' = clock
      /\ \A s \in survivors' : s \in survivors \/ (s = effect.journal /\ ValidState(s))
  BY Zenon, CommitSurvivors DEF IndInv, Commit
<1>2. journal \in survivors /\ Follows(journal, effect.journal)
  BY Zenon DEF IndInv, JournalTypeOK, Sound
<1>3. \A o \in Operation : starts[o] # 0 => \A s \in survivors' : Begun(s.records[o])
  BY Zenon, <1>1, <1>2 DEF IndInv, StartIsRecorded, Follows
<1>4. ASSUME NEW t \in decisions, t.firm, NEW s \in survivors'
      PROVE  HoldsDecision(s, t)
  <2>1. /\ t.op \in Operation /\ t.state \in TerminalStates
        /\ \A r \in survivors : HoldsDecision(r, t)
    BY Zenon, <1>4 DEF IndInv, FirmDecisionIsFinal
  <2>2. CASE s = effect.journal
    <3>1. journal.records[t.op].state \in TerminalStates
      BY Zenon, <1>2, <2>1 DEF HoldsDecision, Decided
    <3>2. s.records[t.op] = journal.records[t.op] /\ s.results[t.op] = journal.results[t.op]
      BY Zenon, <1>2, <2>1, <2>2, <3>1 DEF Follows
    <3> QED
      BY Zenon, <1>2, <2>1, <3>2 DEF HoldsDecision
  <2> QED
    BY Zenon, <1>1, <2>1, <2>2
<1>5. \A s \in survivors' : ValidState(s)
  BY Zenon, <1>1 DEF IndInv
<1> QED
  BY Zenon, <1>1, <1>3, <1>4, <1>5
-----------------------------------------------------------------------------
(* The inductive invariant. *)

LEMMA InitIndInv == ConstantsOK /\ Init => IndInv
<1> SUFFICES ASSUME ConstantsOK, Init PROVE IndInv
  BY Zenon
<1> USE DEF Init, JournalInit
<1>1. MaxTime \in Nat \ {0}
  BY Zenon DEF ConstantsOK
<1>2. EmptyJournal \in Journal
  <2>1. NoRecord \in Record
    BY <1>1 DEF NoRecord, Record, State, Time
  <2> QED
    BY <1>1, <2>1 DEF EmptyJournal, Journal, Time
<1>3. ValidState(EmptyJournal)
  BY Zenon DEF ValidState, EmptyJournal, NoRecord
<1> QED
  BY <1>1, <1>2, <1>3 DEF IndInv, JournalTypeOK, StartIsRecorded, StartedOnce, FirmDecisionIsFinal

\* A fresh answer of a change: every survivor holds the effect.
LEMMA FreshIsSynced ==
    ASSUME JournalTypeOK, NEW effect, Sound(journal, effect), NEW fate \in Fate, persist(effect, fate),
           effect.fresh => effect.journal # journal, Answer(effect, fate).fresh
    PROVE  effect.fresh /\ survivors' = {effect.journal}
<1>1. Answers(effect, fate) /\ effect.fresh
  BY Zenon DEF Answer
<1> QED
  BY Zenon, <1>1, CommitSurvivors DEF Writes

LEMMA StartKeepsInv ==
    ASSUME ConstantsOK, IndInv, NEW o \in Operation, NEW d \in Digest, NEW fate \in Fate,
           CallMarkRunning(o, d, fate)
    PROVE  IndInv'
<1> DEFINE effect == MarkRunning(journal, o, d)
<1>1. /\ Sound(journal, effect)
      /\ effect.fresh => journal.records[o].state = "ACCEPTED" /\ Begun(effect.journal.records[o])
  BY Zenon, MarkRunningIsSound DEF ConstantsOK, IndInv, JournalTypeOK
<1>2. /\ Commit(effect, fate)
      /\ starts' = IF Answer(effect, fate).fresh THEN [starts EXCEPT ![o] = @ + 1] ELSE starts
      /\ decisions' = decisions
  BY Zenon DEF CallMarkRunning
<1> HIDE DEF effect
<1>3. /\ JournalTypeOK' /\ clock' = clock
      /\ \A p \in Operation : starts[p] # 0 => \A s \in survivors' : Begun(s.records[p])
      /\ FirmDecisionIsFinal'
      /\ \A s \in survivors' : ValidState(s)
  BY Zenon, <1>1, <1>2, CommitKeeps DEF FirmDecisionIsFinal
<1>4. CASE Answer(effect, fate).fresh
  <2>1. effect.fresh => effect.journal # journal
    BY Zenon, <1>1 DEF Begun
  <2>2. effect.fresh /\ survivors' = {effect.journal}
    BY Zenon, <1>1, <1>2, <1>4, <2>1, FreshIsSynced DEF IndInv, Commit
  <2>3. starts[o] = 0
    BY Zenon, <1>1, <2>2 DEF IndInv, JournalTypeOK, StartIsRecorded, Begun
  <2> QED
    BY <1>1, <1>2, <1>3, <1>4, <2>2, <2>3 DEF IndInv, StartIsRecorded, StartedOnce
<1>5. CASE ~Answer(effect, fate).fresh
  BY Zenon, <1>2, <1>3, <1>5 DEF IndInv, StartIsRecorded, StartedOnce
<1> QED
  BY Zenon, <1>4, <1>5

LEMMA DecisionKeepsInv ==
    ASSUME ConstantsOK, IndInv, NEW o \in Operation, NEW d \in Digest, NEW fate \in Fate,
           NEW decision \in Decision, CallFinalize(o, d, decision, fate)
    PROVE  IndInv'
<1> DEFINE effect == DecisionEffect(journal, o, d, decision)
           told == Told(o, d, decision, Answer(effect, fate))
<1>1. /\ Sound(journal, effect)
      /\ effect.fresh => /\ effect.journal # journal
                         /\ Decided(effect.journal.records[o]) = <<decision.state, decision.outcome>>
                         /\ decision.sealed # None => effect.journal.results[o] = decision.sealed
  BY DecisionIsSound DEF IndInv, JournalTypeOK
<1>2. Commit(effect, fate) /\ decisions' = decisions \cup told /\ starts' = starts
  BY Zenon DEF CallFinalize
<1> HIDE DEF effect
<1>3. /\ JournalTypeOK' /\ clock' = clock
      /\ \A p \in Operation : starts[p] # 0 => \A s \in survivors' : Begun(s.records[p])
      /\ \A t \in decisions : t.firm => \A s \in survivors' : HoldsDecision(s, t)
      /\ \A s \in survivors' : ValidState(s)
  BY Zenon, <1>1, <1>2, CommitKeeps
<1>4. ASSUME NEW t \in told
      PROVE  /\ t.op \in Operation /\ t.state \in TerminalStates
             /\ t.firm => \A s \in survivors' : HoldsDecision(s, t)
  <2>1. t = [op |-> o, digest |-> d, state |-> decision.state, outcome |-> decision.outcome,
             sealed |-> decision.sealed, firm |-> Answer(effect, fate).fresh]
    BY Zenon DEF Told
  <2>2. decision.state \in TerminalStates
    BY Zenon DEF ConstantsOK
  <2>3. ASSUME t.firm
        PROVE  effect.fresh /\ survivors' = {effect.journal}
    BY Zenon, <1>1, <1>2, <2>1, <2>3, FreshIsSynced DEF IndInv, Commit
  <2> QED
    BY Zenon, <1>1, <2>1, <2>2, <2>3 DEF HoldsDecision
<1> HIDE DEF told
<1>5. FirmDecisionIsFinal' /\ \A t \in decisions' : t.op \in Operation /\ t.state \in TerminalStates
  <2>1. \A t \in decisions : t.op \in Operation /\ t.state \in TerminalStates
    BY Zenon DEF IndInv
  <2> QED
    BY Zenon, <1>2, <1>3, <1>4, <2>1 DEF FirmDecisionIsFinal
<1> QED
  BY Zenon, <1>2, <1>3, <1>5 DEF IndInv, StartIsRecorded, StartedOnce

LEMMA NextIndInv == ConstantsOK /\ IndInv /\ [Next]_vars => IndInv'
<1> SUFFICES ASSUME ConstantsOK, IndInv, [Next]_vars PROVE IndInv'
  BY Zenon
<1>1. ASSUME NEW effect, NEW fate \in Fate, Sound(journal, effect), Commit(effect, fate),
             UNCHANGED <<starts, decisions>>
      PROVE  IndInv'
  BY Zenon, <1>1, CommitKeeps DEF IndInv, StartIsRecorded, StartedOnce, FirmDecisionIsFinal
<1>2. MaxTime \in Nat /\ clock \in 1..MaxTime /\ journal \in Journal
  BY Zenon DEF ConstantsOK, IndInv, JournalTypeOK
<1>3. ASSUME NEW o \in Operation, NEW d \in Digest, NEW fate \in Fate, CallReserve(o, d, fate)
      PROVE  IndInv'
  BY Zenon, <1>1, <1>2, <1>3, ReserveIsSound DEF CallReserve
<1>4. ASSUME NEW o \in Operation, NEW d \in Digest, NEW fate \in Fate,
             CallMarkIndeterminate(o, d, fate)
      PROVE  IndInv'
  BY Zenon, <1>1, <1>2, <1>4, MarkIndeterminateIsSound DEF CallMarkIndeterminate
<1>5. ASSUME NEW q \in AcceptanceRequest, NEW fate \in Fate, CallReserveAcceptance(q, fate)
      PROVE  IndInv'
  <2>1. q.key \in ReplayKey /\ q.until \in Time /\ q.op \in Operation /\ q.digest \in Digest
    BY Zenon DEF ConstantsOK
  <2>2. Sound(journal, ReserveAcceptance(journal, q.key, q.until, q.op, q.digest))
    BY <1>2, <2>1, ReserveAcceptanceIsSound
  <2> QED
    BY Zenon, <1>1, <1>5, <2>2 DEF CallReserveAcceptance
<1>6. CASE PowerLoss
  BY Zenon, <1>6 DEF PowerLoss, LosePower, IndInv, JournalTypeOK, StartIsRecorded, StartedOnce, FirmDecisionIsFinal
<1>7. CASE Tick
  <2>1. clock' \in 1..MaxTime /\ UNCHANGED <<journal, survivors, starts, decisions>>
    BY Zenon, <1>7 DEF Tick, history
  <2> QED
    BY Zenon, <2>1 DEF IndInv, JournalTypeOK, StartIsRecorded, StartedOnce, FirmDecisionIsFinal
<1>8. CASE UNCHANGED vars
  BY Zenon, <1>8 DEF vars, history, IndInv, JournalTypeOK, StartIsRecorded, StartedOnce, FirmDecisionIsFinal
<1> QED
  BY Zenon, <1>3, <1>4, <1>5, <1>6, <1>7, <1>8, StartKeepsInv, DecisionKeepsInv DEF Next

\* The invariant, for every set of operations, requests and decisions.
THEOREM Invariant == ASSUME ConstantsOK PROVE Spec => []IndInv
BY InitIndInv, NextIndInv, PTL DEF Spec

\* MarkRunning answers started=true at most once for an operation, through failed
\* replacements, retries, unknown outcomes, power losses and a clock set back.
THEOREM ExecutorRunsOnce == ASSUME ConstantsOK PROVE Spec => []StartedOnce
<1>1. IndInv => StartedOnce
  BY Zenon DEF IndInv
<1> QED
  BY <1>1, Invariant, PTL

\* A decision that a call wrote, synced and answered is never replaced and keeps
\* its sealed result.
THEOREM DecisionIsFinal == ASSUME ConstantsOK PROVE Spec => []FirmDecisionIsFinal
<1>1. IndInv => FirmDecisionIsFinal
  BY Zenon DEF IndInv
<1> QED
  BY <1>1, Invariant, PTL

\* validatePersistedState never refuses what a method computed: no operation gets
\* stuck on its own times, although the wall clock may be set back.
THEOREM NoOperationIsStuck == ASSUME ConstantsOK PROVE Spec => []NoEffectIsRefused
<1>1. IndInv => NoEffectIsRefused
  <2> SUFFICES ASSUME IndInv PROVE NoEffectIsRefused
    BY Zenon
  <2>1. /\ MaxTime \in Nat /\ clock \in 1..MaxTime
        /\ journal \in Journal /\ ValidState(journal)
    BY Zenon DEF ConstantsOK, IndInv, JournalTypeOK
  <2>2. ASSUME NEW o \in Operation, NEW d \in Digest
        PROVE  /\ ValidState(Reserve(journal, o, d).journal)
               /\ ValidState(MarkRunning(journal, o, d).journal)
               /\ ValidState(MarkIndeterminate(journal, o, d).journal)
    BY Zenon, <2>1, ReserveIsSound, MarkRunningIsSound, MarkIndeterminateIsSound DEF Sound
  <2>3. ASSUME NEW o \in Operation, NEW d \in Digest, NEW t \in Decision
        PROVE  ValidState(DecisionEffect(journal, o, d, t).journal)
    BY Zenon, <2>1, DecisionIsSound DEF Sound
  <2>4. ASSUME NEW q \in AcceptanceRequest
        PROVE  ValidState(ReserveAcceptance(journal, q.key, q.until, q.op, q.digest).journal)
    <3>1. q.key \in ReplayKey /\ q.until \in Time /\ q.op \in Operation /\ q.digest \in Digest
      BY Zenon DEF ConstantsOK
    <3> QED
      BY <2>1, <3>1, ReserveAcceptanceIsSound DEF Sound
  <2> QED
    BY Zenon, <2>2, <2>3, <2>4 DEF NoEffectIsRefused
<1> QED
  BY <1>1, Invariant, PTL
-----------------------------------------------------------------------------
(* Acceptances, with a clock that runs forward. *)

\* The effect of a method keeps the operations and keys the file holds.
LEMMA FollowerHoldsKey ==
    ASSUME NEW a \in Acceptance, NEW j, NEW k, HoldsKey(j, a), Follows(j, k)
    PROVE  HoldsKey(k, a)
BY Zenon DEF HoldsKey, Follows, Acceptance

LEMMA CommitKeepsKeys ==
    ASSUME IndInv, AcceptanceInv, NEW effect, Sound(journal, effect), NEW fate \in Fate,
           Commit(effect, fate)
    PROVE  \A n \in DOMAIN acceptances, s \in survivors' : HoldsKey(s, acceptances[n])
<1> SUFFICES ASSUME NEW n \in DOMAIN acceptances, NEW s \in survivors'
             PROVE  HoldsKey(s, acceptances[n])
  BY Zenon
<1>1. acceptances[n] \in Acceptance
  BY DEF AcceptanceInv
<1>2. \A r \in survivors : HoldsKey(r, acceptances[n])
  BY Zenon DEF AcceptanceInv
<1>3. s \in survivors \/ s = effect.journal
  BY Zenon, CommitSurvivors DEF IndInv, Commit
<1>4. journal \in survivors /\ Follows(journal, effect.journal)
  BY Zenon DEF IndInv, JournalTypeOK, Sound
<1> QED
  BY Zenon, <1>1, <1>2, <1>3, <1>4, FollowerHoldsKey

LEMMA AcceptKeepsInv ==
    ASSUME ConstantsOK, IndInv, AcceptanceInv, NEW q \in AcceptanceRequest, NEW fate \in Fate,
           CallReserveAcceptance(q, fate)
    PROVE  AcceptanceInv'
<1> DEFINE effect == ReserveAcceptance(journal, q.key, q.until, q.op, q.digest)
           new == [key |-> q.key, at |-> clock, until |-> q.until, op |-> q.op, digest |-> q.digest]
<1>1. /\ q.key \in ReplayKey /\ q.until \in Time /\ q.op \in Operation /\ q.digest \in Digest
      /\ MaxTime \in Nat /\ clock \in 1..MaxTime /\ journal \in Journal
  BY Zenon DEF ConstantsOK, IndInv, JournalTypeOK
<1>2. /\ Sound(journal, effect)
      /\ effect.error = "OK" =>
             /\ effect.journal # journal
             /\ effect.journal.records[q.op].state # "NONE"
             /\ effect.journal.records[q.op].digest = q.digest
             /\ effect.journal.replay[q.key] = q.until
             /\ ~(clock < journal.replay[q.key])
  BY <1>1, ReserveAcceptanceIsSound
<1>3. /\ Commit(effect, fate) /\ clock' = clock
      /\ acceptances' = IF Answer(effect, fate).error = "OK" THEN Append(acceptances, new) ELSE acceptances
  BY Zenon DEF CallReserveAcceptance, Commit
<1> HIDE DEF effect
<1>4. \A n \in DOMAIN acceptances, s \in survivors' : HoldsKey(s, acceptances[n])
  BY Zenon, <1>2, <1>3, CommitKeepsKeys
<1>5. CASE Answer(effect, fate).error # "OK"
  BY <1>3, <1>4, <1>5 DEF AcceptanceInv, HoldsKey, ReplayKeyOnce
<1>6. CASE Answer(effect, fate).error = "OK"
  <2>1. effect.error = "OK" /\ survivors' = {effect.journal}
    <3>1. Answers(effect, fate) /\ effect.error = "OK"
      BY Zenon, <1>6 DEF Answer
    <3> QED
      BY Zenon, <1>2, <1>3, <3>1, CommitSurvivors DEF Writes, IndInv, Commit
  <2>2. new \in Acceptance
    BY <1>1 DEF Acceptance, Time
  <2>3. \A s \in survivors' : HoldsKey(s, new)
    BY Zenon, <1>2, <2>1 DEF HoldsKey
  <2>4. /\ acceptances \in Seq(Acceptance) /\ acceptances' = Append(acceptances, new)
        /\ Len(acceptances') = Len(acceptances) + 1
        /\ acceptances' \in Seq(Acceptance)
        /\ acceptances'[Len(acceptances) + 1] = new
        /\ \A n \in 1..Len(acceptances) : acceptances'[n] = acceptances[n]
    BY <1>3, <1>6, <2>2 DEF AcceptanceInv
  <2> HIDE DEF new
  <2>5. \A n \in DOMAIN acceptances', s \in survivors' : HoldsKey(s, acceptances'[n])
    BY <1>4, <2>3, <2>4
  <2>6. ASSUME NEW n \in DOMAIN acceptances, acceptances[n].key = q.key
        PROVE  acceptances[n].until <= clock
    <3>1. acceptances[n] \in Acceptance
      BY <2>4
    <3>2. clock < acceptances[n].until => journal.replay[q.key] = acceptances[n].until
      BY Zenon, <2>6 DEF AcceptanceInv, HoldsKey, IndInv, JournalTypeOK
    <3> QED
      BY <1>1, <1>2, <2>1, <3>1, <3>2 DEF Acceptance, Time
  <2>7. ReplayKeyOnce'
    <3> SUFFICES ASSUME NEW m \in DOMAIN acceptances', NEW n \in DOMAIN acceptances',
                        m < n, acceptances'[m].key = acceptances'[n].key
                 PROVE  acceptances'[m].until <= acceptances'[n].at
      BY Zenon DEF ReplayKeyOnce
    <3>1. m \in DOMAIN acceptances /\ acceptances'[m] = acceptances[m]
      BY <2>4
    <3>2. CASE n \in DOMAIN acceptances
      BY <2>4, <3>1, <3>2 DEF AcceptanceInv, ReplayKeyOnce
    <3>3. CASE n = Len(acceptances) + 1
      BY <2>4, <2>6, <3>1, <3>3 DEF new
    <3> QED
      BY <2>4, <3>2, <3>3
  <2> QED
    BY <1>3, <2>4, <2>5, <2>7 DEF AcceptanceInv, HoldsKey
<1> QED
  BY Zenon, <1>5, <1>6

ForwardClock == ClockStep \subseteq Nat

LEMMA NextAcceptanceInv ==
    ConstantsOK /\ ForwardClock /\ IndInv /\ AcceptanceInv /\ [Next]_vars => AcceptanceInv'
<1> SUFFICES ASSUME ConstantsOK, ForwardClock, IndInv, AcceptanceInv, [Next]_vars
             PROVE  AcceptanceInv'
  BY Zenon
<1>1. ASSUME NEW effect, NEW fate \in Fate, Sound(journal, effect), Commit(effect, fate),
             UNCHANGED acceptances
      PROVE  AcceptanceInv'
  BY <1>1, CommitKeepsKeys DEF AcceptanceInv, ReplayKeyOnce, HoldsKey, Commit
<1>2. MaxTime \in Nat /\ clock \in 1..MaxTime /\ journal \in Journal
  BY Zenon DEF ConstantsOK, IndInv, JournalTypeOK
<1>3. ASSUME NEW o \in Operation, NEW d \in Digest, NEW fate \in Fate, CallReserve(o, d, fate)
      PROVE  AcceptanceInv'
  BY Zenon, <1>1, <1>2, <1>3, ReserveIsSound DEF CallReserve
<1>4. ASSUME NEW o \in Operation, NEW d \in Digest, NEW fate \in Fate, CallMarkRunning(o, d, fate)
      PROVE  AcceptanceInv'
  BY Zenon, <1>1, <1>2, <1>4, MarkRunningIsSound DEF CallMarkRunning
<1>5. ASSUME NEW o \in Operation, NEW d \in Digest, NEW fate \in Fate,
             CallMarkIndeterminate(o, d, fate)
      PROVE  AcceptanceInv'
  BY Zenon, <1>1, <1>2, <1>5, MarkIndeterminateIsSound DEF CallMarkIndeterminate
<1>6. ASSUME NEW o \in Operation, NEW d \in Digest, NEW fate \in Fate, NEW decision \in Decision,
             CallFinalize(o, d, decision, fate)
      PROVE  AcceptanceInv'
  BY Zenon, <1>1, <1>2, <1>6, DecisionIsSound DEF CallFinalize
<1>7. CASE PowerLoss
  BY <1>7 DEF PowerLoss, LosePower, AcceptanceInv, HoldsKey, ReplayKeyOnce
<1>8. CASE Tick
  <2>1. clock' \in Nat /\ clock <= clock' /\ UNCHANGED <<survivors, acceptances>>
    BY <1>2, <1>8 DEF Tick, history, ForwardClock
  <2>2. \A a \in Acceptance : clock' < a.until => clock < a.until
    BY <1>2, <2>1 DEF Acceptance, Time
  <2> QED
    BY <2>1, <2>2 DEF AcceptanceInv, HoldsKey, ReplayKeyOnce
<1>9. CASE UNCHANGED vars
  BY <1>9 DEF vars, history, AcceptanceInv, HoldsKey, ReplayKeyOnce
<1> QED
  BY Zenon, <1>3, <1>4, <1>5, <1>6, <1>7, <1>8, <1>9, AcceptKeepsInv DEF Next

LEMMA AcceptanceInvariant ==
    ASSUME ConstantsOK, ForwardClock
    PROVE  Spec => [](IndInv /\ AcceptanceInv)
<1>1. Init => AcceptanceInv
  BY DEF Init, AcceptanceInv, ReplayKeyOnce
<1> QED
  BY <1>1, Invariant, NextAcceptanceInv, PTL DEF Spec

\* With a clock that runs forward, two answered acceptances with one replay key
\* never overlap.
THEOREM NonceAdmitsOnce == ASSUME ConstantsOK, ForwardClock PROVE Spec => []ReplayKeyOnce
<1>1. AcceptanceInv => ReplayKeyOnce
  BY Zenon DEF AcceptanceInv
<1> QED
  BY <1>1, AcceptanceInvariant, PTL

\* And an answered acceptance is in whatever a power loss leaves: its operation for
\* good, its replay key until its retention has passed.
THEOREM AcceptanceSurvives == ASSUME ConstantsOK, ForwardClock PROVE Spec => []AcceptanceIsDurable
<1>1. IndInv /\ AcceptanceInv => AcceptanceIsDurable
  <2> SUFFICES ASSUME IndInv, AcceptanceInv, NEW n \in DOMAIN acceptances, NEW s \in survivors
               PROVE  LET a == acceptances[n]
                      IN  /\ s.records[a.op].digest = a.digest
                          /\ clock < a.until => s.replay[a.key] # 0
    BY Zenon DEF AcceptanceIsDurable
  <2> QED
    BY DEF IndInv, AcceptanceInv, HoldsKey, ConstantsOK
<1> QED
  BY <1>1, AcceptanceInvariant, PTL
=============================================================================
