-------------------------- MODULE ExecutionMethods --------------------------
(***************************************************************************)
(* The methods of an execution journal of pkg/leastprivilege as functions  *)
(* of the state they read: the consumed keys (mandate IDs and proof        *)
(* nonces), one record per operation and the pruning watermark.  The file  *)
(* store and the SQLite store implement the same methods; the file store   *)
(* alone has a capacity.                                                   *)
(*                                                                         *)
(* A request digest binds the operation to the exact mandate and action,   *)
(* so here it is the mandate record the operation runs under.  Time 0 is   *)
(* the zero time.                                                          *)
(***************************************************************************)
EXTENDS Naturals, FiniteSets, FiniteSetsExt

CONSTANTS
    Operation,
    Mandate,           \* mandate IDs
    MandateRecord,     \* [id : Mandate, action, expires]: what an operator installs
    Nonce,             \* the nonces of session proofs
    Evidence,          \* evidence digests
    None,              \* no mandate record, no evidence, no operation
    Capacity

State == {"NONE", "ACCEPTED", "RUNNING", "UNKNOWN", "SUCCEEDED", "FAILED"}
TerminalStates == {"SUCCEEDED", "FAILED"}
Key == Mandate \cup Nonce

\* digestValue of the two local no-effect decisions
CanceledEvidence == "canceled-before-dispatch"
NotDispatchedEvidence == "not-dispatched"

NoUse == [expires |-> 0, operation |-> None]
NoExecution == [state |-> "NONE", digest |-> None, evidence |-> None]

EmptyFile ==
    [uses |-> [k \in Key |-> NoUse], executions |-> [o \in Operation |-> NoExecution], prunedUntil |-> 0]

Used(s) == {k \in Key : s.uses[k] # NoUse}
Known(s) == {o \in Operation : s.executions[o] # NoExecution}
-----------------------------------------------------------------------------
(* What a method makes of the file it read. *)

Refuse(s, error) == [file |-> s, error |-> error, record |-> NoExecution, fresh |-> FALSE]
Give(s, record) == [file |-> s, error |-> "OK", record |-> record, fresh |-> FALSE]
Put(s, o, record) ==
    [file |-> [s EXCEPT !.executions[o] = record], error |-> "OK", record |-> record, fresh |-> TRUE]

\* Mutation: pruning leaves no watermark.
WatermarkNone(s, expired) == s.prunedUntil

\* The latest expiry that was ever pruned.
Watermark(s, expired) == Max({s.prunedUntil} \cup {s.uses[k].expires : k \in expired})

\* Expired keys go, except those that stand for an operation.
Pruned(s, now) ==
    LET expired == {k \in Used(s) : s.uses[k].expires <= now /\ s.uses[k].operation = None}
    IN  [s EXCEPT !.uses = [k \in Key |-> IF k \in expired THEN NoUse ELSE @[k]],
                  !.prunedUntil = Watermark(s, expired)]

\* pruneDurable refuses a time before the watermark, and an expiry not after it.
Untimely(s, now, expiry) == now < s.prunedUntil \/ expiry <= now

Use(s, key, expiry, now) ==
    LET pruned == Pruned(s, now)
    IN  CASE Untimely(s, now, expiry) -> Refuse(s, "EXPIRED")
          [] ~Untimely(s, now, expiry) /\ key \in Used(pruned) -> Refuse(s, "REPLAY")
          [] ~Untimely(s, now, expiry) /\ key \notin Used(pruned) /\ Cardinality(Used(pruned)) >= Capacity ->
                 Refuse(s, "CAPACITY")
          [] OTHER -> [Give([pruned EXCEPT !.uses[key] = [expires |-> expiry, operation |-> None]], NoExecution)
                       EXCEPT !.fresh = TRUE]

findExecution(s, o, d) ==
    CASE s.executions[o] = NoExecution -> "NOT_FOUND"
      [] s.executions[o] # NoExecution /\ s.executions[o].digest # d -> "CONFLICT"
      [] OTHER -> "OK"

Exact(s, o, d, effect) ==
    IF findExecution(s, o, d) = "OK" THEN effect ELSE Refuse(s, findExecution(s, o, d))

Accepted(d) == [state |-> "ACCEPTED", digest |-> d, evidence |-> None]

\* The operation and the consumption of its mandate, in one replacement.
Reserved(pruned, o, m) ==
    [Put(pruned, o, Accepted(m)) EXCEPT !.file.uses[m.id] = [expires |-> m.expires, operation |-> o]]

Full(s) == Cardinality(Used(s)) >= Capacity \/ Cardinality(Known(s)) >= Capacity

Prepare(s, o, m, now) ==
    LET pruned == Pruned(s, now)
    IN  IF Untimely(s, now, m.expires) THEN Refuse(s, "EXPIRED")
        ELSE IF findExecution(s, o, m) = "CONFLICT" THEN Refuse(s, "CONFLICT")
        ELSE IF findExecution(s, o, m) = "OK" THEN Give(s, s.executions[o])
        ELSE IF m.id \in Used(pruned) THEN Refuse(s, "REPLAY")
        ELSE IF Full(pruned) THEN Refuse(s, "CAPACITY")
        ELSE Reserved(pruned, o, m)

Lookup(s, o, d) == Exact(s, o, d, Give(s, s.executions[o]))

Startable(record) == record.state = "ACCEPTED"

\* "fresh" is the started result: only its receiver may dispatch.
Start(s, o, d) ==
    LET record == s.executions[o]
    IN  Exact(s, o, d, IF Startable(record) THEN Put(s, o, [record EXCEPT !.state = "RUNNING"]) ELSE Give(s, record))

\* Mutation: an operation that is running may be canceled.
CancelableAnyway(record) == record.state \in {"ACCEPTED", "RUNNING"}

Cancelable(record) == record.state = "ACCEPTED"

Canceled(record) == record.state = "FAILED" /\ record.evidence = CanceledEvidence

CancelAccepted(s, o, d) ==
    LET record == s.executions[o]
    IN  Exact(s, o, d,
              IF Canceled(record) THEN Give(s, record)
              ELSE IF Cancelable(record)
                   THEN Put(s, o, [record EXCEPT !.state = "FAILED", !.evidence = CanceledEvidence])
                   ELSE Refuse(s, "CONFLICT"))

Decided(record, outcome) == record.state \in TerminalStates

Complete(s, o, d, outcome, evidence) ==
    LET record == s.executions[o]
        same   == record.state = outcome /\ record.evidence = evidence
    IN  Exact(s, o, d,
              IF record.state = "ACCEPTED" \/ (Decided(record, outcome) /\ ~same) THEN Refuse(s, "CONFLICT")
              ELSE IF Decided(record, outcome) THEN Give(s, record)
              ELSE Put(s, o, [record EXCEPT !.state = outcome, !.evidence = evidence]))
=============================================================================
