--------------------------- MODULE IngressTheorems ---------------------------
(***************************************************************************)
(* What the Human ingress keeps for any clients, challenges, requests,      *)
(* goroutines and policies, on a durable and on a plain store.             *)
(***************************************************************************)
EXTENDS HumanIngress, FiniteSetTheorems, TLAPS

\* The idle state of a request goroutine.
LEMMA IdleState ==
    /\ Idle \in HandlerState /\ Idle.stage = "IDLE" /\ Idle.entry = NoEntry
    /\ Idle.stage \notin Admitted /\ Idle.stage \notin Locked
BY Zenon DEF Idle, HandlerState, Stages, Entries, NoEntry, Admitted, Locked

\* Nobody was told that a request with a fresh challenge succeeded.
LEMMA FreshIsUnanswered ==
    ASSUME ConstantsOK, NEW c \in Challenge, Fresh(c)
    PROVE  answers[c].code # "OK"
BY DEF Fresh, NoAnswer, ConstantsOK

\* A goroutine that ends lets go of its own lock only.
LEMMA OthersKeepTheLock ==
    ASSUME ConstantsOK, IndInv, NEW h \in Handler, handlers'[h].stage \notin Locked,
           \A g \in Handler \ {h} : handlers'[g] = handlers[g],
           writer' = writer \/ writer \in {None, h}
    PROVE  LockIsHeld'
BY Zenon DEF IndInv, ExchangeInv, LockIsHeld, ConstantsOK

\* What an admitted request knows of its challenge.
LEMMA AdmittedRequest ==
    ASSUME ConstantsOK, IndInv, NEW h \in Handler, handlers[h].stage \in Admitted
    PROVE  /\ handlers[h] \in HandlerState /\ handlers[h].challenge \in Challenge
           /\ handlers[h].conn \in Connection /\ handlers[h].request \in Request
           /\ handlers[h].entry \in [conn : Connection, request : Request, expires : Nat]
           /\ issued[handlers[h].challenge] = handlers[h].entry /\ handlers[h].entry # NoEntry
           /\ handlers[h].entry.conn = handlers[h].conn /\ handlers[h].entry.request = handlers[h].request
           /\ pending[handlers[h].challenge] = NoEntry /\ Fresh(handlers[h].challenge)
           /\ handlers[h].proof \in Challenge
BY DEF IndInv, TypeOK, ExchangeInv, RequestOK, Admitted, HandlerState, Entries

\* A step of one goroutine that changes only its own state.
LEMMA HandlerStep ==
    ASSUME ConstantsOK, IndInv, NEW h \in Handler, NEW new \in HandlerState,
           handlers' = [handlers EXCEPT ![h] = new], RequestOK(new),
           new.stage \in Admitted => handlers[h].stage \in Admitted /\ new.challenge = handlers[h].challenge,
           UNCHANGED <<clock, registry, issued, proofs, store, answers>>,
           writer' \in Handler \cup {None}, writer' = writer \/ writer \in {None, h},
           new.stage \in Locked => writer' = h
    PROVE  IndInv'
<1>1. /\ handlers \in [Handler -> HandlerState] /\ handlers'[h] = new
      /\ \A g \in Handler \ {h} : handlers'[g] = handlers[g]
  BY Zenon DEF IndInv, TypeOK
<1>2. TypeOK'
  BY Zenon, <1>1 DEF IndInv, TypeOK, registry, store
<1>3. \A g \in Handler : RequestOK(handlers[g])'
  <2> SUFFICES ASSUME NEW g \in Handler
               PROVE  RequestOK(handlers[g])'
    BY Zenon
  <2>1. RequestOK(handlers'[g])
    BY Zenon, <1>1 DEF IndInv, ExchangeInv
  <2> QED
    BY Zenon, <2>1 DEF RequestOK, Fresh, Ready, Recoverable, registry, store
<1>4. HeldOnce' /\ LockIsHeld'
  <2>1. HeldOnce'
    BY <1>1 DEF IndInv, ExchangeInv, HeldOnce
  <2>2. LockIsHeld'
    BY Zenon, <1>1 DEF IndInv, ExchangeInv, LockIsHeld, ConstantsOK
  <2> QED
    BY Zenon, <2>1, <2>2
<1>5. /\ \A c \in Challenge : ChallengeOK(c)'
      /\ SignedEvents' /\ OutcomeIsAtomic' /\ AnswersAreTrue'
  BY DEF IndInv, ExchangeInv, ChallengeOK, Fresh, SignedEvents, OutcomeIsAtomic, AnswersAreTrue,
         AnswersAgree, RecoveredByItsOwner, RefusalMeansNoEffect, registry, store
<1>6. CountsAreExact' /\ LimitsHold'
  BY Zenon DEF IndInv, CountsAreExact, LimitsHold, Pending, registry
<1> QED
  BY Zenon, <1>2, <1>3, <1>4, <1>5, <1>6 DEF IndInv, ExchangeInv

\* A request that is told of a refusal, or of an unknown outcome, and changes nothing.
LEMMA AnswerStep ==
    ASSUME ConstantsOK, IndInv, NEW h \in Handler, handlers[h].stage \in Admitted,
           NEW code \in {"REFUSED", "UNKNOWN"}, Answer(h, code, NoEvent),
           UNCHANGED <<clock, registry, issued, proofs, store>>,
           writer' \in Handler \cup {None}, writer' = writer \/ writer \in {None, h}
    PROVE  IndInv'
<1> DEFINE c == handlers[h].challenge
           told == [code |-> code, response |-> NoEvent]
<1>1. c \in Challenge /\ pending[c] = NoEntry /\ issued[c] # NoEntry /\ Fresh(c)
  BY Zenon, AdmittedRequest
<1>2. /\ handlers' = [handlers EXCEPT ![h] = Idle]
      /\ handlers \in [Handler -> HandlerState] /\ handlers'[h] = Idle
      /\ \A g \in Handler \ {h} : handlers'[g] = handlers[g]
  BY Zenon DEF IndInv, TypeOK, Answer
<1>3. /\ answers \in [Challenge -> Answers] /\ answers' = [answers EXCEPT ![c] = told]
      /\ answers'[c] = told /\ \A d \in Challenge \ {c} : answers'[d] = answers[d]
      /\ told \in Answers /\ told.code # "OK"
  BY <1>1 DEF IndInv, TypeOK, Answer, Answers, Events
<1> HIDE DEF told
<1>4. TypeOK'
  BY Zenon, <1>2, <1>3, IdleState DEF IndInv, TypeOK, registry, store
<1>5. \A d \in Challenge \ {c} : Fresh(d) => Fresh(d)'
  BY Zenon, <1>3 DEF Fresh, store
<1>6. ASSUME NEW g \in Handler
      PROVE  RequestOK(handlers[g])'
  <2>1. CASE g = h
    BY Zenon, <1>2, <2>1, IdleState DEF RequestOK
  <2>2. CASE g # h
    <3>1. RequestOK(handlers[g]) /\ handlers'[g] = handlers[g]
      BY Zenon, <1>2, <2>2 DEF IndInv, ExchangeInv
    <3>2. handlers[g].stage \in Admitted => handlers[g].challenge \in Challenge \ {c}
      BY Zenon, <2>2, AdmittedRequest DEF IndInv, ExchangeInv, HeldOnce
    <3> QED
      BY <3>1, <3>2, <1>5 DEF RequestOK, Ready, Recoverable, registry, store
  <2> QED
    BY Zenon, <2>1, <2>2
<1>7. HeldOnce' /\ LockIsHeld'
  <2>1. HeldOnce'
    BY <1>2, IdleState DEF IndInv, ExchangeInv, HeldOnce
  <2>2. LockIsHeld'
    BY Zenon, <1>2, IdleState, OthersKeepTheLock
  <2> QED
    BY Zenon, <2>1, <2>2
<1>8. \A d \in Challenge : ChallengeOK(d)'
  BY Zenon, <1>1, <1>3, <1>5 DEF IndInv, ExchangeInv, ChallengeOK, registry
<1>9. SignedEvents' /\ OutcomeIsAtomic'
  BY Zenon DEF IndInv, ExchangeInv, SignedEvents, OutcomeIsAtomic, store
<1>10. AnswersAreTrue'
  BY <1>1, <1>3 DEF IndInv, ExchangeInv, AnswersAreTrue, AnswersAgree, RecoveredByItsOwner,
                    RefusalMeansNoEffect, Fresh, store
<1>11. CountsAreExact' /\ LimitsHold'
  BY Zenon DEF IndInv, CountsAreExact, LimitsHold, Pending, registry
<1> QED
  BY Zenon, <1>4, <1>6, <1>7, <1>8, <1>9, <1>10, <1>11 DEF IndInv, ExchangeInv
-----------------------------------------------------------------------------
(* Requests that have not been admitted, and those that are being verified. *)

LEMMA BeginKeeps ==
    ASSUME ConstantsOK, IndInv, NEW h \in Handler, NEW n \in Connection, NEW r \in Request,
           \/ BeginChallenge(h, n, r)
           \/ \E c, p \in Challenge : BeginExecute(h, n, r, c, p)
    PROVE  IndInv'
<1>1. writer \in Handler \cup {None} /\ clock \in Nat
  BY DEF IndInv, TypeOK, ConstantsOK
<1>2. CASE BeginChallenge(h, n, r)
  <2> DEFINE new == [Idle EXCEPT !.stage = "PUT", !.conn = n, !.request = r, !.now = clock]
  <2>1. new \in HandlerState /\ new.stage = "PUT" /\ new.conn = n /\ new.request = r /\ new.entry = NoEntry
    BY Zenon, <1>1, IdleState DEF Idle, HandlerState, Stages
  <2>2. /\ handlers' = [handlers EXCEPT ![h] = new]
        /\ UNCHANGED <<clock, registry, issued, proofs, writer, store, answers>>
    BY Zenon, <1>2 DEF BeginChallenge
  <2> HIDE DEF new
  <2>3. RequestOK(new) /\ new.stage \notin Admitted /\ new.stage \notin Locked
    BY Zenon, <2>1 DEF RequestOK, Admitted, Locked
  <2> QED
    BY Zenon, <1>1, <2>1, <2>2, <2>3, HandlerStep
<1>3. ASSUME NEW c \in Challenge, NEW p \in Challenge, BeginExecute(h, n, r, c, p)
      PROVE  IndInv'
  <2> DEFINE new == [Idle EXCEPT !.stage = "TAKE", !.conn = n, !.request = r, !.challenge = c,
                                 !.proof = p, !.now = clock]
  <2>1. /\ new \in HandlerState /\ new.stage = "TAKE" /\ new.conn = n /\ new.request = r
        /\ new.challenge = c /\ new.proof = p /\ new.entry = NoEntry
    BY Zenon, <1>1, IdleState DEF Idle, HandlerState, Stages
  <2>2. /\ handlers' = [handlers EXCEPT ![h] = new]
        /\ UNCHANGED <<clock, registry, issued, proofs, writer, store, answers>>
    BY Zenon, <1>3 DEF BeginExecute
  <2> HIDE DEF new
  <2>3. RequestOK(new) /\ new.stage \notin Admitted /\ new.stage \notin Locked
    BY Zenon, <2>1 DEF RequestOK, Admitted, Locked
  <2> QED
    BY Zenon, <1>1, <2>1, <2>2, <2>3, HandlerStep
<1> QED
  BY Zenon, <1>2, <1>3

\* A proof that verifies is the one signed for this challenge.
LEMMA VerifyKeeps ==
    ASSUME ConstantsOK, IndInv, NEW h \in Handler, PreVerify(h) \/ GiveUp(h)
    PROVE  IndInv'
<1> DEFINE me == handlers[h]
<1>1. writer \in Handler \cup {None} /\ handlers \in [Handler -> HandlerState]
  BY Zenon DEF IndInv, TypeOK
<1>2. me.stage \in {"VERIFY", "WAIT"} /\ me.stage \in Admitted
  BY Zenon DEF PreVerify, GiveUp, Admitted, Stages
<1>3. UNCHANGED <<clock, registry, issued, proofs, writer, store>>
  BY Zenon DEF PreVerify, GiveUp
<1>4. CASE me.stage = "VERIFY" /\ Verified(me) /\ PreVerify(h)
  <2> DEFINE new == [me EXCEPT !.stage = "WAIT"]
  <2>1. /\ new \in HandlerState /\ new.stage = "WAIT" /\ new.conn = me.conn /\ new.request = me.request
        /\ new.challenge = me.challenge /\ new.proof = me.proof /\ new.entry = me.entry
    BY <1>1 DEF HandlerState, Stages
  <2>2. handlers' = [handlers EXCEPT ![h] = new] /\ UNCHANGED answers
    BY Zenon, <1>1, <1>4 DEF PreVerify
  <2>3. RequestOK(me) /\ me.proof = me.challenge
    BY Zenon, <1>4 DEF IndInv, ExchangeInv, Verified, Bound
  <2> HIDE DEF new
  <2>4. RequestOK(new) /\ new.stage \notin Locked
    <3> HIDE DEF me
    <3> QED
      BY Zenon, <1>2, <1>4, <2>1, <2>3 DEF RequestOK, Admitted, Stages, Locked
  <2> QED
    BY Zenon, <1>1, <1>2, <1>3, <2>1, <2>2, <2>4, HandlerStep
<1>5. CASE \E code \in {"REFUSED", "UNKNOWN"} : Answer(h, code, NoEvent)
  BY Zenon, <1>1, <1>2, <1>3, <1>5, AnswerStep
<1> QED
  BY Zenon, <1>4, <1>5 DEF PreVerify, GiveUp

\* acceptOperation: the accepted lifetime is within the challenge's and the proof's.
LEMMA AcceptKeeps ==
    ASSUME ConstantsOK, IndInv, NEW h \in Handler, NEW limit \in Limit,
           BeginTransaction(h, limit) \/ AcceptOperation(h, limit)
    PROVE  IndInv'
<1> DEFINE me == handlers[h]
           next == IF me.stage = "WAIT" THEN "TRANSACTION" ELSE "LOAD"
<1>1. /\ writer \in Handler \cup {None} /\ handlers \in [Handler -> HandlerState]
      /\ proofs \in [Challenge -> Nat] /\ limit \in Nat
  BY Zenon DEF IndInv, TypeOK, ConstantsOK
<1>2. me.stage \in {"WAIT", "ACCEPT"} /\ me.stage \in Admitted
  BY Zenon DEF BeginTransaction, AcceptOperation, Admitted, Stages
<1>3. /\ UNCHANGED <<clock, registry, issued, proofs, store>>
      /\ writer' \in Handler \cup {None} /\ (writer' = writer \/ writer \in {None, h})
  BY Zenon, <1>1 DEF BeginTransaction, AcceptOperation
<1>4. CASE Acceptable(me) /\ clock < limit
  <2> DEFINE new == Accepted(me, next, limit)
  <2>1. me.proof \in Challenge /\ me.entry.expires \in Nat /\ proofs[me.proof] \in Nat
    BY Zenon, <1>1, <1>2, AdmittedRequest
  <2>2. /\ Earliest(AcceptedUntil(me), limit) \in Nat
        /\ Earliest(AcceptedUntil(me), limit) <= me.entry.expires
        /\ Earliest(AcceptedUntil(me), limit) <= proofs[me.proof]
    BY <1>1, <2>1 DEF Earliest, AcceptedUntil
  <2>3. /\ new \in HandlerState /\ new.stage = next /\ new.conn = me.conn /\ new.request = me.request
        /\ new.challenge = me.challenge /\ new.proof = me.proof /\ new.entry = me.entry
        /\ new.expires <= me.entry.expires /\ new.expires <= proofs[me.proof]
    BY Zenon, <1>1, <2>2 DEF Accepted, HandlerState, Stages
  <2>4. /\ handlers' = [handlers EXCEPT ![h] = new] /\ UNCHANGED answers
        /\ new.stage \in Locked => writer' = h
    BY Zenon, <1>2, <1>4, <2>3 DEF BeginTransaction, AcceptOperation, Locked
  <2>5. RequestOK(me) /\ me.proof = me.challenge
    BY Zenon, <1>4 DEF IndInv, ExchangeInv, Acceptable, Verified, Bound
  <2>6. \/ me.stage = "WAIT" /\ next = "TRANSACTION"
        \/ me.stage = "ACCEPT" /\ next = "LOAD"
    BY Zenon, <1>2
  <2> HIDE DEF new, next
  <2>7. RequestOK(new)
    <3> HIDE DEF me
    <3> QED
      BY Zenon, <1>2, <2>3, <2>5, <2>6 DEF RequestOK, Admitted, Stages
  <2> QED
    BY Zenon, <1>1, <1>2, <1>3, <2>3, <2>4, <2>7, HandlerStep
<1>5. CASE ~(Acceptable(me) /\ clock < limit)
  <2>1. Answer(h, "REFUSED", NoEvent)
    BY Zenon, <1>5 DEF BeginTransaction, AcceptOperation
  <2> QED
    BY Zenon, <1>1, <1>2, <1>3, <2>1, AnswerStep
<1> QED
  BY Zenon, <1>4, <1>5
-----------------------------------------------------------------------------
(* The clock and the client. *)

LEMMA TickKeeps ==
    ASSUME ConstantsOK, IndInv, Tick
    PROVE  IndInv'
<1>1. /\ clock \in Nat /\ clock' = clock + 1 /\ clock' \in 1..MaxTime
      /\ UNCHANGED <<registry, issued, proofs, handlers, writer, store, answers>>
  BY DEF Tick, IndInv, TypeOK, ConstantsOK
<1>2. TypeOK'
  BY Zenon, <1>1 DEF IndInv, TypeOK, registry, store
<1>3. ASSUME NEW h \in Handler
      PROVE  RequestOK(handlers[h])'
  <2>1. RequestOK(handlers[h]) /\ handlers[h].now \in Nat
    BY Zenon DEF IndInv, TypeOK, ExchangeInv, HandlerState
  <2>2. handlers[h].now <= clock => handlers[h].now <= clock'
    BY <1>1, <2>1
  <2> QED
    BY Zenon, <1>1, <2>1, <2>2 DEF RequestOK, Fresh, Ready, Recoverable, registry, store
<1>4. /\ \A c \in Challenge : ChallengeOK(c)'
      /\ SignedEvents' /\ AnswersAreTrue' /\ HeldOnce' /\ LockIsHeld'
  BY <1>1 DEF IndInv, ExchangeInv, ChallengeOK, Fresh, SignedEvents, AnswersAreTrue, HeldOnce, LockIsHeld,
              AnswersAgree, RecoveredByItsOwner, RefusalMeansNoEffect, registry, store
<1>5. OutcomeIsAtomic'
  <2> SUFFICES ASSUME Durable, NEW e \in Event
               PROVE  /\ outcomes[e] # NoEvent => events[e] = outcomes[e]
                      /\ events[e] # NoEvent =>
                           /\ outcomes[events[e].request.event] = events[e]
                           /\ clock' < proofs[events[e].proof] =>
                                  replay[events[e].proof] = proofs[events[e].proof]
    BY Zenon, <1>1 DEF OutcomeIsAtomic, store
  <2>1. events[e] # NoEvent => proofs[events[e].proof] \in Nat
    BY Zenon DEF IndInv, TypeOK, Events
  <2> QED
    BY <1>1, <2>1 DEF IndInv, ExchangeInv, OutcomeIsAtomic
<1>6. CountsAreExact' /\ LimitsHold'
  BY Zenon, <1>1 DEF IndInv, CountsAreExact, LimitsHold, Pending, registry
<1> QED
  BY Zenon, <1>2, <1>3, <1>4, <1>5, <1>6 DEF IndInv, ExchangeInv

\* A proof is signed once, so nothing that was committed under it is affected.
LEMMA SignKeeps ==
    ASSUME ConstantsOK, IndInv, NEW c \in Challenge, NEW lifetime \in Lifetime, Sign(c, lifetime)
    PROVE  IndInv'
<1>1. /\ proofs \in [Challenge -> Nat] /\ proofs[c] = 0 /\ clock + lifetime \in Nat
      /\ proofs' = [proofs EXCEPT ![c] = clock + lifetime]
      /\ UNCHANGED <<clock, registry, issued, handlers, writer, store, answers>>
  BY DEF Sign, IndInv, TypeOK, ConstantsOK
<1>2. /\ proofs' \in [Challenge -> Nat] /\ \A d \in Challenge \ {c} : proofs'[d] = proofs[d]
      /\ \A d \in Challenge : proofs'[d] >= proofs[d]
  BY <1>1
<1>3. \A e \in Event : events[e] # NoEvent => events[e].proof \in Challenge \ {c}
  BY <1>1 DEF IndInv, TypeOK, ExchangeInv, SignedEvents, Events
<1>4. TypeOK'
  BY Zenon, <1>1, <1>2 DEF IndInv, TypeOK, registry, store
<1>5. ASSUME NEW h \in Handler
      PROVE  RequestOK(handlers[h])'
  <2>1. RequestOK(handlers[h]) /\ handlers[h] \in HandlerState
    BY Zenon DEF IndInv, TypeOK, ExchangeInv
  <2>2. handlers[h].stage \in {"TRANSACTION", "SEALED", "LOAD", "CHECK", "COMMIT"} => handlers[h].expires <= proofs'[handlers[h].proof]
    BY <1>1, <1>2, <2>1 DEF RequestOK, HandlerState
  <2> QED
    BY Zenon, <1>1, <2>1, <2>2 DEF RequestOK, Fresh, Ready, Recoverable, registry, store
<1>6. HeldOnce' /\ LockIsHeld' /\ \A d \in Challenge : ChallengeOK(d)'
  BY Zenon, <1>1 DEF IndInv, ExchangeInv, HeldOnce, LockIsHeld, ChallengeOK, Fresh, registry, store
<1>7. SignedEvents' /\ OutcomeIsAtomic'
  BY <1>1, <1>2, <1>3 DEF IndInv, ExchangeInv, SignedEvents, OutcomeIsAtomic, store
<1>8. AnswersAreTrue'
  BY Zenon, <1>1 DEF IndInv, ExchangeInv, AnswersAreTrue, AnswersAgree, RecoveredByItsOwner, RefusalMeansNoEffect, store
<1>9. CountsAreExact' /\ LimitsHold'
  BY <1>1 DEF IndInv, CountsAreExact, LimitsHold, Pending, registry
<1> QED
  BY Zenon, <1>4, <1>5, <1>6, <1>7, <1>8, <1>9 DEF IndInv, ExchangeInv
-----------------------------------------------------------------------------
(* Spent proofs and commits. *)

\* commitReplay forgets no proof that could still verify.
LEMMA MarkUsedKeeps ==
    ASSUME ConstantsOK, IndInv, NEW p \in Challenge, NEW now \in Nat, now <= clock, MarkUsed(p, now)
    PROVE  /\ replay' \in [Challenge -> Nat] /\ replay'[p] = proofs[p]
           /\ \A q \in Challenge : clock < proofs[q] /\ replay[q] = proofs[q] => replay'[q] = proofs[q]
<1>1. replay \in [Challenge -> Nat] /\ proofs \in [Challenge -> Nat] /\ clock \in Nat
  BY DEF IndInv, TypeOK, ConstantsOK
<1> QED
  BY <1>1 DEF MarkUsed

\* The plain store: the proof is spent before the commit.
LEMMA LoadKeeps ==
    ASSUME ConstantsOK, IndInv, NEW h \in Handler, NEW lawful \in BOOLEAN, LoadAndMarkUsed(h, lawful)
    PROVE  IndInv'
<1> DEFINE me == handlers[h]
           new == [me EXCEPT !.stage = "CHECK"]
<1>1. /\ writer \in Handler \cup {None} /\ handlers \in [Handler -> HandlerState]
      /\ me.stage = "LOAD" /\ me.stage \in Admitted /\ me.proof \in Challenge
      /\ UNCHANGED <<clock, registry, issued, proofs, writer, revision, events, outcomes>>
  BY Zenon DEF LoadAndMarkUsed, Admitted, Stages, IndInv, TypeOK, ExchangeInv, RequestOK
<1>2. CASE MarkUsed(me.proof, clock) /\ handlers' = [handlers EXCEPT ![h].stage = "CHECK"] /\ UNCHANGED answers
  <2>1. /\ new \in HandlerState /\ new.stage = "CHECK" /\ new.conn = me.conn /\ new.request = me.request
        /\ new.challenge = me.challenge /\ new.proof = me.proof /\ new.entry = me.entry
        /\ new.expires = me.expires
    BY <1>1 DEF HandlerState, Stages
  <2>2. handlers' = [handlers EXCEPT ![h] = new]
    BY Zenon, <1>1, <1>2
  <2>3. RequestOK(me)
    BY Zenon DEF IndInv, ExchangeInv
  <2> HIDE DEF new
  <2>4. RequestOK(new) /\ ~Durable
    <3> HIDE DEF me
    <3> QED
      BY Zenon, <1>1, <2>1, <2>3 DEF RequestOK, Admitted, Stages
  <2>5. replay' \in [Challenge -> Nat]
    <3>1. clock \in Nat /\ clock <= clock
      BY DEF IndInv, TypeOK, ConstantsOK
    <3> QED
      BY Zenon, <1>1, <1>2, <3>1, MarkUsedKeeps
  <2>6. /\ handlers'[h] = new /\ \A g \in Handler \ {h} : handlers'[g] = handlers[g]
    BY Zenon, <1>1, <2>2
  <2>7. TypeOK'
    BY <1>1, <1>2, <2>1, <2>2, <2>5 DEF IndInv, TypeOK, registry
  <2>8. ASSUME NEW g \in Handler
        PROVE  RequestOK(handlers[g])'
    <3>1. RequestOK(handlers'[g])
      BY Zenon, <2>4, <2>6 DEF IndInv, ExchangeInv
    <3> QED
      BY Zenon, <1>1, <1>2, <3>1 DEF RequestOK, Fresh, Ready, Recoverable, registry
  <2>9. HeldOnce' /\ LockIsHeld'
    <3>1. HeldOnce'
      BY <1>1, <2>1, <2>6 DEF IndInv, ExchangeInv, HeldOnce
    <3>2. new.stage \notin Locked
      BY Zenon, <2>1 DEF Locked
    <3> QED
      BY Zenon, <1>1, <2>6, <3>1, <3>2, OthersKeepTheLock
  <2>10. /\ \A c \in Challenge : ChallengeOK(c)'
         /\ SignedEvents' /\ AnswersAreTrue'
    BY <1>1, <1>2 DEF IndInv, ExchangeInv, ChallengeOK, Fresh, SignedEvents, AnswersAreTrue,
         AnswersAgree, RecoveredByItsOwner, RefusalMeansNoEffect, registry
  <2>11. OutcomeIsAtomic'
    BY Zenon, <2>4 DEF OutcomeIsAtomic
  <2>12. CountsAreExact' /\ LimitsHold'
    BY Zenon, <1>1 DEF IndInv, CountsAreExact, LimitsHold, Pending, registry
  <2> QED
    BY Zenon, <2>7, <2>8, <2>9, <2>10, <2>11, <2>12 DEF IndInv, ExchangeInv
<1>3. CASE Answer(h, "REFUSED", NoEvent) /\ UNCHANGED replay
  BY Zenon, <1>1, <1>3, AnswerStep DEF store
<1> QED
  BY Zenon, <1>2, <1>3 DEF LoadAndMarkUsed

\* What a commit may tell its client: the response, or that the outcome is open.
Told(code, response, x) ==
    \/ code = "OK" /\ response = x
    \/ code = "UNKNOWN" /\ response = NoEvent

\* While a request commits, no other has a sealed transaction.
LEMMA AloneSealed ==
    ASSUME ConstantsOK, IndInv, NEW h \in Handler, handlers[h].stage \in {"SEALED", "COMMIT"},
           NEW g \in Handler \ {h}
    PROVE  handlers[g].stage # "SEALED"
<1>1. RequestOK(handlers[h]) /\ RequestOK(handlers[g]) /\ LockIsHeld
  BY Zenon DEF IndInv, ExchangeInv
<1> QED
  BY Zenon, <1>1 DEF RequestOK, LockIsHeld, Locked

\* The commit of an operation, on either store.  Its events were free and the
\* operation had no response, so nothing that was promised earlier changes.
LEMMA ExecuteKeeps ==
    ASSUME ConstantsOK, IndInv, NEW h \in Handler, handlers[h].stage \in {"SEALED", "COMMIT"},
           \A e \in EventsOf(handlers[h].request) : events[e] = NoEvent,
           Mutate(handlers[h]),
           Durable => /\ outcomes[handlers[h].request.event] = NoEvent
                      /\ outcomes' = [outcomes EXCEPT ![handlers[h].request.event] = EventOf(handlers[h])]
                      /\ MarkUsed(handlers[h].proof, handlers[h].now),
           ~Durable => UNCHANGED <<outcomes, replay>>,
           NEW code, NEW response, Told(code, response, EventOf(handlers[h])),
           Answer(h, code, response),
           UNCHANGED <<clock, registry, issued, proofs>>,
           writer' \in Handler \cup {None}, writer' = writer \/ writer \in {None, h}
    PROVE  IndInv'
<1>1. PICK me \in HandlerState : me = handlers[h]
  BY Zenon DEF IndInv, TypeOK
<1>2. PICK x : x = EventOf(me)
  BY Zenon
<1>3. PICK c \in Challenge : c = me.challenge
  BY Zenon, <1>1, AdmittedRequest DEF Admitted, Stages
<1>4. /\ me.stage \in Admitted /\ me.request \in Request /\ me.conn \in Connection
      /\ issued[c] # NoEntry /\ issued[c].conn = me.conn /\ issued[c].request = me.request
      /\ pending[c] = NoEntry /\ Fresh(c)
  BY <1>1, <1>3, AdmittedRequest DEF Admitted, Stages
<1>5. me.proof = c /\ proofs[c] > 0 /\ me.now \in Nat /\ me.now <= clock
  <2>1. RequestOK(me) /\ me.stage \in {"SEALED", "COMMIT"}
    BY Zenon, <1>1 DEF IndInv, ExchangeInv
  <2>2. me.proof = c /\ me.expires <= proofs[c] /\ me.now < me.expires /\ me.now <= clock
    BY Zenon, <1>3, <2>1 DEF RequestOK
  <2>3. me.now \in Nat /\ me.expires \in Nat /\ proofs[c] \in Nat
    BY DEF IndInv, TypeOK, HandlerState
  <2> QED
    BY <2>2, <2>3
<1>6. /\ x.request = me.request /\ x.by = KeyOf(me.conn) /\ x.proof = c
      /\ x \in Events /\ x # NoEvent /\ NoEvent.proof = None /\ c # None
  BY Zenon, <1>2, <1>4, <1>5 DEF EventOf, Events, NoEvent, ConstantsOK
<1>7. PICK k \in Event : k = me.request.event
  BY Zenon, <1>4 DEF ConstantsOK
<1>8. /\ events' \in [Event -> Events] /\ events \in [Event -> Events]
      /\ events'[k] = x
      /\ \A e \in Event : events'[e] = events[e] \/ (events[e] = NoEvent /\ events'[e] = x)
  <2>1. events' = [e \in Event |-> IF e \in EventsOf(me.request) THEN x ELSE events[e]]
    BY Zenon, <1>1, <1>2 DEF Mutate
  <2>2. k \in EventsOf(me.request) /\ \A e \in EventsOf(me.request) : events[e] = NoEvent
    BY Zenon, <1>1, <1>7 DEF EventsOf
  <2>3. events \in [Event -> Events]
    BY Zenon DEF IndInv, TypeOK
  <2>4. ASSUME NEW e \in Event
        PROVE  /\ events'[e] = events[e] \/ (events[e] = NoEvent /\ events'[e] = x)
               /\ events'[e] \in Events
    BY Zenon, <1>6, <2>1, <2>2, <2>3
  <2>5. events'[k] = x
    BY Zenon, <2>1, <2>2
  <2>6. events' \in [Event -> Events]
    BY Zenon, <2>1, <2>4
  <2> QED
    BY Zenon, <2>3, <2>4, <2>5, <2>6
<1>9. /\ handlers \in [Handler -> HandlerState] /\ handlers' = [handlers EXCEPT ![h] = Idle]
      /\ handlers'[h] = Idle /\ \A g \in Handler \ {h} : handlers'[g] = handlers[g]
  BY Zenon DEF IndInv, TypeOK, Answer
<1>10. /\ Told(code, response, x) /\ answers \in [Challenge -> Answers]
       /\ answers' = [answers EXCEPT ![c] = [code |-> code, response |-> response]]
  BY Zenon, <1>1, <1>2, <1>3 DEF IndInv, TypeOK, Answer
<1>11. /\ answers'[c].code = code /\ answers'[c].response = response
       /\ answers' \in [Challenge -> Answers]
       /\ \A d \in Challenge \ {c} : answers'[d] = answers[d]
  BY <1>6, <1>10 DEF Told, Answers, Events
<1>12. /\ Durable => /\ outcomes[k] = NoEvent /\ outcomes' = [outcomes EXCEPT ![k] = x]
                     /\ MarkUsed(c, me.now)
       /\ outcomes \in [Event -> Events]
  BY Zenon, <1>1, <1>2, <1>5, <1>7 DEF IndInv, TypeOK
<1>13. /\ Durable => /\ outcomes'[k] = x /\ \A e \in Event \ {k} : outcomes'[e] = outcomes[e]
       /\ outcomes' \in [Event -> Events]
  BY <1>6, <1>12
<1>14. replay' \in [Challenge -> Nat] /\ (Durable => replay'[c] = proofs[c])
  BY Zenon, <1>5, <1>12, MarkUsedKeeps DEF IndInv, TypeOK
<1>15. revision' \in [Assignment -> Nat]
  BY DEF IndInv, TypeOK, Mutate
<1>16. TypeOK'
  BY Zenon, <1>8, <1>9, <1>11, <1>13, <1>14, <1>15, IdleState DEF IndInv, TypeOK, registry
<1>17. \A d \in Challenge \ {c} : Fresh(d) => Fresh(d)'
  BY <1>6, <1>8, <1>11 DEF Fresh
<1>18. ASSUME NEW g \in Handler
       PROVE  RequestOK(handlers[g])'
  <2>1. CASE g = h
    BY Zenon, <1>9, <2>1, IdleState DEF RequestOK
  <2>2. CASE g # h
    <3>1. RequestOK(handlers[g]) /\ handlers'[g] = handlers[g]
      BY Zenon, <1>9, <2>2 DEF IndInv, ExchangeInv
    <3>2. handlers[g].stage \in Admitted => handlers[g].challenge \in Challenge \ {c}
      BY Zenon, <1>1, <1>3, <1>4, <2>2, AdmittedRequest DEF IndInv, ExchangeInv, HeldOnce
    <3>3. handlers[g].stage # "SEALED"
      BY Zenon, <2>2, <3>1, AloneSealed
    <3> QED
      BY <3>1, <3>2, <3>3, <1>17 DEF RequestOK, registry
  <2> QED
    BY Zenon, <2>1, <2>2
<1>19. HeldOnce' /\ LockIsHeld'
  <2>1. HeldOnce'
    BY <1>9, IdleState DEF IndInv, ExchangeInv, HeldOnce
  <2> QED
    BY Zenon, <1>9, <2>1, IdleState, OthersKeepTheLock
<1>20. ASSUME NEW d \in Challenge
       PROVE  ChallengeOK(d)'
  <2>1. CASE d = c
    BY Zenon, <1>4, <1>6, <1>10, <1>11, <2>1 DEF ChallengeOK, Told, registry
  <2>2. CASE d # c
    BY Zenon, <1>11, <1>17, <2>2 DEF IndInv, ExchangeInv, ChallengeOK, registry
  <2> QED
    BY Zenon, <2>1, <2>2
<1>21. SignedEvents'
  BY Zenon, <1>5, <1>6, <1>8 DEF IndInv, ExchangeInv, SignedEvents
<1>22. OutcomeIsAtomic'
  <2> SUFFICES ASSUME Durable, NEW e \in Event
               PROVE  /\ outcomes'[e] # NoEvent => events'[e] = outcomes'[e]
                      /\ events'[e] # NoEvent =>
                           /\ outcomes'[events'[e].request.event] = events'[e]
                           /\ clock < proofs[events'[e].proof] =>
                                  replay'[events'[e].proof] = proofs[events'[e].proof]
    BY Zenon DEF OutcomeIsAtomic
  <2>1. \A f \in Event :
            /\ outcomes[f] # NoEvent => events[f] = outcomes[f]
            /\ events[f] # NoEvent =>
                  /\ outcomes[events[f].request.event] = events[f]
                  /\ clock < proofs[events[f].proof] => replay[events[f].proof] = proofs[events[f].proof]
    BY Zenon DEF IndInv, ExchangeInv, OutcomeIsAtomic
  <2>2. outcomes'[e] # NoEvent => events'[e] = outcomes'[e]
    BY <1>6, <1>8, <1>12, <1>13, <2>1
  <2>3. ASSUME events'[e] = events[e], events[e] # NoEvent
        PROVE  /\ outcomes'[events'[e].request.event] = events'[e]
               /\ clock < proofs[events'[e].proof] =>
                      replay'[events'[e].proof] = proofs[events'[e].proof]
    <3>1. events[e].request \in Request /\ events[e].proof \in Challenge
      BY Zenon, <1>8, <2>3 DEF Events
    <3>2. events[e].request.event \in Event \ {k}
      BY Zenon, <1>12, <2>1, <2>3, <3>1 DEF ConstantsOK
    <3>3. outcomes'[events'[e].request.event] = events'[e]
      BY ZenonT(30), <1>13, <2>1, <2>3, <3>2
    <3>4. \A q \in Challenge : clock < proofs[q] /\ replay[q] = proofs[q] => replay'[q] = proofs[q]
      BY Zenon, <1>5, <1>12, MarkUsedKeeps
    <3> QED
      BY Zenon, <2>1, <2>3, <3>1, <3>3, <3>4
  <2>4. ASSUME events'[e] = x
        PROVE  /\ outcomes'[events'[e].request.event] = events'[e]
               /\ clock < proofs[events'[e].proof] =>
                      replay'[events'[e].proof] = proofs[events'[e].proof]
    BY Zenon, <1>6, <1>7, <1>13, <1>14, <2>4
  <2> QED
    BY Zenon, <1>8, <2>2, <2>3, <2>4
<1>23. AnswersAreTrue'
  <2>1. ASSUME NEW d \in Challenge \ {c}, answers[d].code = "OK"
        PROVE  events'[issued[d].request.event] = events[issued[d].request.event]
    <3>1. ChallengeOK(d) /\ AnswersAgree
      BY Zenon, <2>1 DEF IndInv, ExchangeInv, AnswersAreTrue
    <3>2. issued[d] # NoEntry /\ events[issued[d].request.event] # NoEvent
      BY Zenon, <2>1, <3>1, FreshIsUnanswered DEF ChallengeOK, AnswersAgree
    <3>3. issued \in [Challenge -> Entries]
      BY Zenon DEF IndInv, TypeOK
    <3>4. issued[d].request \in Request
      BY Zenon, <3>2, <3>3 DEF Entries
    <3> QED
      BY Zenon, <1>8, <3>2, <3>4 DEF ConstantsOK
  <2>2. AnswersAgree /\ RecoveredByItsOwner /\ RefusalMeansNoEffect
    BY Zenon DEF IndInv, ExchangeInv, AnswersAreTrue
  <2>3. ASSUME NEW d \in Challenge, answers'[d].code = "OK"
        PROVE  /\ answers'[d].response = events'[issued[d].request.event]
               /\ answers'[d].response.by = KeyOf(issued[d].conn)
               /\ answers'[d].response.request.participant = issued[d].request.participant
    <3>1. CASE d = c
      BY Zenon, <1>4, <1>6, <1>7, <1>8, <1>10, <1>11, <2>3, <3>1 DEF Told
    <3>2. CASE d # c
      BY Zenon, <1>11, <2>1, <2>2, <2>3, <3>2 DEF AnswersAgree, RecoveredByItsOwner
    <3> QED
      BY Zenon, <3>1, <3>2
  <2>4. ASSUME NEW d \in Challenge, answers'[d].code = "REFUSED", NEW e \in Event
        PROVE  events'[e].proof # d
    <3>1. d # c
      BY Zenon, <1>10, <1>11, <2>4 DEF Told
    <3>2. events[e].proof # d
      BY Zenon, <1>11, <2>2, <2>4, <3>1 DEF RefusalMeansNoEffect
    <3> QED
      BY Zenon, <1>6, <1>8, <3>1, <3>2
  <2> QED
    BY Zenon, <2>3, <2>4 DEF AnswersAreTrue, AnswersAgree, RecoveredByItsOwner, RefusalMeansNoEffect
<1>24. CountsAreExact' /\ LimitsHold'
  BY DEF IndInv, CountsAreExact, LimitsHold, Pending, registry
<1> QED
  BY Zenon, <1>16, <1>18, <1>19, <1>20, <1>21, <1>22, <1>23, <1>24 DEF IndInv, ExchangeInv

\* A recovery spends its proof and changes nothing else; the response it reads is
\* the one of the operation's one execution.
LEMMA RecoverKeeps ==
    ASSUME ConstantsOK, IndInv, NEW h \in Handler, handlers[h].stage = "SEALED",
           Recoverable(handlers[h]), MarkUsed(handlers[h].proof, handlers[h].now), UNCHANGED <<revision, events, outcomes>>,
           NEW code, NEW response, Told(code, response, outcomes[handlers[h].request.event]),
           Answer(h, code, response),
           UNCHANGED <<clock, registry, issued, proofs>>,
           writer' \in Handler \cup {None}, writer' = writer \/ writer \in {None, h}
    PROVE  IndInv'
<1>1. PICK me \in HandlerState : me = handlers[h]
  BY Zenon DEF IndInv, TypeOK
<1>2. PICK c \in Challenge : c = me.challenge
  BY Zenon, <1>1, AdmittedRequest DEF Admitted, Stages
<1>3. /\ me.stage \in Admitted /\ me.request \in Request /\ me.conn \in Connection
      /\ issued[c] # NoEntry /\ issued[c].conn = me.conn /\ issued[c].request = me.request
      /\ pending[c] = NoEntry /\ Fresh(c)
  BY Zenon, <1>1, <1>2, AdmittedRequest DEF Admitted, Stages
<1>4. RequestOK(me) /\ me.proof = c /\ Durable /\ me.now \in Nat /\ me.now <= clock
  BY Zenon, <1>1, <1>2 DEF IndInv, ExchangeInv, RequestOK, HandlerState
<1>5. PICK k \in Event : k = me.request.event
  BY Zenon, <1>3 DEF ConstantsOK
<1>6. PICK x \in Events : x = outcomes[k]
  BY Zenon DEF IndInv, TypeOK
<1>7. /\ x # NoEvent /\ x = events[k]
      /\ x.by = KeyOf(issued[c].conn) /\ x.request.participant = issued[c].request.participant
  <2>1. x # NoEvent /\ x.by = KeyOf(me.conn) /\ x.request.participant = me.request.participant
    BY Zenon, <1>1, <1>5, <1>6 DEF Recoverable
  <2>2. x = events[k]
    BY Zenon, <1>4, <1>6, <2>1 DEF IndInv, ExchangeInv, OutcomeIsAtomic
  <2> QED
    BY Zenon, <1>3, <2>1, <2>2
<1>8. /\ handlers \in [Handler -> HandlerState] /\ handlers' = [handlers EXCEPT ![h] = Idle]
      /\ handlers'[h] = Idle /\ \A g \in Handler \ {h} : handlers'[g] = handlers[g]
  BY Zenon DEF IndInv, TypeOK, Answer
<1>9. /\ Told(code, response, x) /\ answers \in [Challenge -> Answers]
      /\ answers' = [answers EXCEPT ![c] = [code |-> code, response |-> response]]
  BY Zenon, <1>1, <1>2, <1>5, <1>6 DEF IndInv, TypeOK, Answer
<1>10. /\ answers'[c].code = code /\ answers'[c].response = response
       /\ answers' \in [Challenge -> Answers]
       /\ \A d \in Challenge \ {c} : answers'[d] = answers[d]
  BY Zenon, <1>9 DEF Told, Answers, Events
<1>11. /\ replay' \in [Challenge -> Nat]
       /\ \A q \in Challenge : clock < proofs[q] /\ replay[q] = proofs[q] => replay'[q] = proofs[q]
  BY Zenon, <1>1, <1>4, MarkUsedKeeps
<1>12. TypeOK'
  BY Zenon, <1>8, <1>10, <1>11, IdleState DEF IndInv, TypeOK, registry
<1>13. \A d \in Challenge \ {c} : Fresh(d) => Fresh(d)'
  BY Zenon, <1>10 DEF Fresh
<1>14. ASSUME NEW g \in Handler
       PROVE  RequestOK(handlers[g])'
  <2>1. CASE g = h
    BY Zenon, <1>8, <2>1, IdleState DEF RequestOK
  <2>2. CASE g # h
    <3>1. RequestOK(handlers[g]) /\ handlers'[g] = handlers[g]
      BY Zenon, <1>8, <2>2 DEF IndInv, ExchangeInv
    <3>2. handlers[g].stage \in Admitted => handlers[g].challenge \in Challenge \ {c}
      BY Zenon, <1>1, <1>2, <1>3, <2>2, AdmittedRequest DEF IndInv, ExchangeInv, HeldOnce
    <3> QED
      BY <3>1, <3>2, <1>13 DEF RequestOK, Ready, Recoverable, registry
  <2> QED
    BY Zenon, <2>1, <2>2
<1>15. HeldOnce' /\ LockIsHeld'
  <2>1. HeldOnce'
    BY <1>8, IdleState DEF IndInv, ExchangeInv, HeldOnce
  <2> QED
    BY Zenon, <1>8, <2>1, IdleState, OthersKeepTheLock
<1>16. ASSUME NEW d \in Challenge
       PROVE  ChallengeOK(d)'
  <2>1. CASE d = c
    BY Zenon, <1>3, <1>7, <1>9, <1>10, <2>1 DEF ChallengeOK, Told, registry
  <2>2. CASE d # c
    BY Zenon, <1>10, <1>13, <2>2 DEF IndInv, ExchangeInv, ChallengeOK, registry
  <2> QED
    BY Zenon, <2>1, <2>2
<1>17. SignedEvents'
  BY Zenon DEF IndInv, ExchangeInv, SignedEvents
<1>18. OutcomeIsAtomic'
  <2>1. \A e \in Event : events[e] # NoEvent => events[e].proof \in Challenge
    BY Zenon DEF IndInv, TypeOK, Events
  <2> QED
    BY Zenon, <1>11, <2>1 DEF IndInv, ExchangeInv, OutcomeIsAtomic
<1>19. AnswersAreTrue'
  <2>1. AnswersAgree /\ RecoveredByItsOwner /\ RefusalMeansNoEffect
    BY Zenon DEF IndInv, ExchangeInv, AnswersAreTrue
  <2>2. ASSUME NEW d \in Challenge
        PROVE  /\ answers'[d].code = "OK" =>
                     /\ answers'[d].response = events[issued[d].request.event]
                     /\ answers'[d].response.by = KeyOf(issued[d].conn)
                     /\ answers'[d].response.request.participant = issued[d].request.participant
               /\ answers'[d].code = "REFUSED" => \A e \in Event : events[e].proof # d
    <3>1. CASE d = c
      BY Zenon, <1>3, <1>5, <1>7, <1>9, <1>10, <3>1 DEF Told
    <3>2. CASE d # c
      BY Zenon, <1>10, <2>1, <3>2 DEF AnswersAgree, RecoveredByItsOwner, RefusalMeansNoEffect
    <3> QED
      BY Zenon, <3>1, <3>2
  <2> QED
    BY Zenon, <2>2 DEF AnswersAreTrue, AnswersAgree, RecoveredByItsOwner, RefusalMeansNoEffect
<1>20. CountsAreExact' /\ LimitsHold'
  BY Zenon DEF IndInv, CountsAreExact, LimitsHold, Pending, registry
<1> QED
  BY Zenon, <1>12, <1>14, <1>15, <1>16, <1>17, <1>18, <1>19, <1>20 DEF IndInv, ExchangeInv

\* executeDurable and applyOperation up to the last look at the clock.
LEMMA CheckedKeeps ==
    ASSUME ConstantsOK, IndInv, NEW h \in Handler,
           CheckPlain(h) \/ \E lawful \in BOOLEAN : ExecuteDurable(h, lawful)
    PROVE  IndInv'
<1> DEFINE me == handlers[h]
           next == IF me.stage = "TRANSACTION" THEN "SEALED" ELSE "COMMIT"
<1>1. /\ writer \in Handler \cup {None} /\ handlers \in [Handler -> HandlerState] /\ clock \in Nat
  BY SMTT(30) DEF IndInv, TypeOK, ConstantsOK
<1>2. me.stage \in {"TRANSACTION", "CHECK"} /\ me.stage \in Admitted
  BY Zenon DEF ExecuteDurable, CheckPlain, Admitted, Stages
<1>3. /\ UNCHANGED <<clock, registry, issued, proofs, store>>
      /\ writer' \in Handler \cup {None} /\ (writer' = writer \/ writer \in {None, h})
  BY Zenon, <1>1 DEF ExecuteDurable, CheckPlain, Unlock
<1>4. CASE Answer(h, "REFUSED", NoEvent)
  BY Zenon, <1>1, <1>2, <1>3, <1>4, AnswerStep
<1>5. CASE ~Answer(h, "REFUSED", NoEvent)
  <2> DEFINE new == Checked(me, next)
  <2>1. /\ new \in HandlerState /\ new.stage = next /\ new.conn = me.conn /\ new.request = me.request
        /\ new.challenge = me.challenge /\ new.proof = me.proof /\ new.entry = me.entry
        /\ new.expires = me.expires /\ new.now = clock
    BY Zenon, <1>1 DEF Checked, HandlerState, Stages
  <2>2. \/ me.stage = "TRANSACTION" /\ next = "SEALED" /\ writer' = h /\ Ready(me)
        \/ me.stage = "CHECK" /\ next = "COMMIT"
    BY Zenon, <1>2, <1>5 DEF ExecuteDurable, CheckPlain, Ready, Executable, Fits
  <2>3. handlers' = [handlers EXCEPT ![h] = new] /\ UNCHANGED answers /\ clock < me.expires
    BY Zenon, <1>2, <1>5 DEF ExecuteDurable, CheckPlain, InTime
  <2>4. RequestOK(me) /\ clock <= clock
    BY <1>1 DEF IndInv, ExchangeInv
  <2> HIDE DEF new, next
  <2>5. RequestOK(new)
    <3>1. Ready(me) => Ready(new)
      BY Zenon, <2>1 DEF Ready, Recoverable
    <3> HIDE DEF me
    <3> QED
      BY Zenon, <1>2, <2>1, <2>2, <2>3, <2>4, <3>1 DEF RequestOK, Admitted, Stages
  <2>6. new.stage \in Locked => writer' = h
    BY Zenon, <2>1, <2>2 DEF Locked
  <2> QED
    BY Zenon, <1>1, <1>2, <1>3, <2>1, <2>3, <2>5, <2>6, HandlerStep
<1> QED
  BY Zenon, <1>4, <1>5

\* executeDurable: COMMIT, or a COMMIT nobody hears of, or one that fails.
LEMMA EndTransactionKeeps ==
    ASSUME ConstantsOK, IndInv, NEW h \in Handler,
           NEW fate \in {"COMMITTED", "LOST", "FAILED"}, EndTransaction(h, fate)
    PROVE  IndInv'
<1> DEFINE me == handlers[h]
           code == CodeOf(fate)
           response == IF fate = "COMMITTED" THEN Response(me) ELSE NoEvent
<1>1. /\ me.stage = "SEALED" /\ me.stage \in Admitted /\ writer' = None /\ writer = h
      /\ IF fate # "FAILED" THEN Commit(me, fate) ELSE UNCHANGED store
      /\ Answer(h, code, response)
      /\ UNCHANGED <<clock, registry, issued, proofs>>
  BY Zenon DEF EndTransaction, Unlock, Admitted, Stages
<1>2. Durable /\ Ready(me)
  BY Zenon, <1>1 DEF IndInv, ExchangeInv, RequestOK
<1>3. CASE fate = "FAILED"
  <2>1. /\ UNCHANGED store /\ code \in {"REFUSED", "UNKNOWN"} /\ response = NoEvent
    BY Zenon, <1>1, <1>3 DEF CodeOf
  <2> HIDE DEF code, response
  <2> QED
    BY Zenon, <1>1, <2>1, AnswerStep
<1>4. CASE fate # "FAILED" /\ Execution(me.request)
  <2>1. /\ MarkUsed(me.proof, me.now) /\ Mutate(me)
        /\ outcomes' = [outcomes EXCEPT ![me.request.event] = EventOf(me)]
    BY Zenon, <1>1, <1>4 DEF Commit, Retain
  <2>2. Told(code, response, EventOf(me))
    BY Zenon, <1>4 DEF Told, CodeOf, Response
  <2>3. /\ outcomes[me.request.event] = NoEvent
        /\ \A e \in EventsOf(me.request) : events[e] = NoEvent
    BY Zenon, <1>2, <1>4 DEF Ready
  <2> HIDE DEF code, response
  <2> QED
    BY Zenon, <1>1, <1>2, <2>1, <2>2, <2>3, ExecuteKeeps
<1>5. CASE fate # "FAILED" /\ ~Execution(me.request)
  <2>1. Recoverable(me) /\ MarkUsed(me.proof, me.now) /\ UNCHANGED <<revision, events, outcomes>>
    BY Zenon, <1>1, <1>2, <1>5 DEF Commit, Ready
  <2>2. Told(code, response, outcomes[me.request.event])
    BY Zenon, <1>5 DEF Told, CodeOf, Response
  <2> HIDE DEF code, response
  <2> QED
    BY Zenon, <1>1, <2>1, <2>2, RecoverKeeps
<1> QED
  BY Zenon, <1>3, <1>4, <1>5

LEMMA CommitPlainKeeps ==
    ASSUME ConstantsOK, IndInv, NEW h \in Handler,
           NEW fate \in {"COMMITTED", "LOST", "FAILED"}, CommitPlain(h, fate)
    PROVE  IndInv'
<1> DEFINE me == handlers[h]
           fine == Fits(me.request)
           code == IF fine THEN CodeOf(fate) ELSE "REFUSED"
           response == IF fine /\ fate = "COMMITTED" THEN EventOf(me) ELSE NoEvent
<1>1. /\ me.stage = "COMMIT" /\ me.stage \in Admitted /\ writer' = writer /\ writer \in Handler \cup {None}
      /\ IF fine /\ fate # "FAILED" THEN Mutate(me) ELSE UNCHANGED <<revision, events>>
      /\ Answer(h, code, response)
      /\ UNCHANGED <<clock, registry, issued, proofs, outcomes, replay>>
  BY Zenon DEF CommitPlain, Admitted, Stages, IndInv, TypeOK
<1>2. ~Durable
  BY Zenon, <1>1 DEF IndInv, ExchangeInv, RequestOK
<1>3. CASE ~(fine /\ fate # "FAILED")
  <2>1. /\ UNCHANGED store /\ code \in {"REFUSED", "UNKNOWN"} /\ response = NoEvent
    BY Zenon, <1>1, <1>3 DEF CodeOf, store
  <2> HIDE DEF code, response
  <2> QED
    BY Zenon, <1>1, <2>1, AnswerStep
<1>4. CASE fine /\ fate # "FAILED"
  <2>1. Mutate(me) /\ \A e \in EventsOf(me.request) : events[e] = NoEvent
    BY Zenon, <1>1, <1>4 DEF Fits
  <2>2. Told(code, response, EventOf(me))
    BY Zenon, <1>4 DEF Told, CodeOf
  <2> HIDE DEF code, response
  <2> QED
    BY Zenon, <1>1, <1>2, <2>1, <2>2, ExecuteKeeps
<1> QED
  BY Zenon, <1>3, <1>4
-----------------------------------------------------------------------------
(* The registry of outstanding challenges. *)

\* The challenges of a registry that a connection or a key has.
OfConnection(p, n) == {c \in Pending(p) : p[c].conn = n}
OfKey(p, k) == {c \in Pending(p) : KeyOf(p[c].conn) = k}

\* The counts and the limits of a registry.
Exact(r) ==
    /\ r.pending \in [Challenge -> Entries]
    /\ r.connections \in [Connection -> Nat] /\ r.identities \in [Key -> Nat]
    /\ \A n \in Connection : r.connections[n] = Cardinality(OfConnection(r.pending, n))
    /\ \A k \in Key : r.identities[k] = Cardinality(OfKey(r.pending, k))
    /\ Cardinality(Pending(r.pending)) <= MaxTotalPending
    /\ \A k \in Key : Cardinality(OfKey(r.pending, k)) <= MaxPending

\* Sets of challenges are finite.
LEMMA FiniteChallenges ==
    ASSUME ConstantsOK, NEW S, S \subseteq Challenge
    PROVE  IsFiniteSet(S) /\ Cardinality(S) \in Nat
BY Zenon, FS_Subset, FS_CardinalityType DEF ConstantsOK

\* releaseChallengeLocked lowers each count by as many challenges as leave.
LEMMA LowerIsExact ==
    ASSUME ConstantsOK, NEW S, NEW T, S \subseteq Challenge, T \subseteq S
    PROVE  Lower(Cardinality(S), Cardinality(T)) = Cardinality(S \ T)
<1>1. Cardinality(S) \in Nat /\ Cardinality(T) \in Nat /\ Cardinality(S \ T) \in Nat /\ IsFiniteSet(S)
  <2>1. T \subseteq Challenge /\ S \ T \subseteq Challenge
    BY Zenon
  <2> QED
    BY Zenon, <2>1, FiniteChallenges
<1>2. S \cap T = T
  BY Zenon
<1>3. Cardinality(S \ T) = Cardinality(S) - Cardinality(T)
  BY ZenonT(30), <1>1, <1>2, FS_Difference
<1> QED
  BY <1>1, <1>3 DEF Lower

\* pruneLocked, takeChallenge: what is left is exact and within the limits.
LEMMA ReleasedIsExact ==
    ASSUME ConstantsOK, IndInv, NEW gone \in SUBSET Pending(pending)
    PROVE  /\ Exact(Released(gone))
           /\ \A c \in Challenge : Released(gone).pending[c] = IF c \in gone THEN NoEntry ELSE pending[c]
<1> DEFINE r == Released(gone)
<1>1. /\ pending \in [Challenge -> Entries] /\ Pending(pending) \subseteq Challenge
      /\ connections \in [Connection -> Nat] /\ identities \in [Key -> Nat]
  BY Zenon DEF IndInv, TypeOK, Pending
<1>2. /\ r.pending = [c \in Challenge |-> IF c \in gone THEN NoEntry ELSE pending[c]]
      /\ r.connections = [n \in Connection |->
             Lower(connections[n], Cardinality({c \in gone : pending[c].conn = n}))]
      /\ r.identities = [k \in Key |->
             Lower(identities[k], Cardinality({c \in gone : KeyOf(pending[c].conn) = k}))]
  BY Zenon DEF Released
<1> HIDE DEF r
<1>3. /\ \A c \in Challenge : r.pending[c] = IF c \in gone THEN NoEntry ELSE pending[c]
      /\ r.pending \in [Challenge -> Entries]
  BY Zenon, <1>1, <1>2 DEF Entries
<1>4. Pending(r.pending) = Pending(pending) \ gone
  BY Zenon, <1>3 DEF Pending
<1>5. ASSUME NEW n \in Connection
      PROVE  /\ OfConnection(r.pending, n) = OfConnection(pending, n) \ {c \in gone : pending[c].conn = n}
             /\ r.connections[n] = Cardinality(OfConnection(r.pending, n)) /\ r.connections[n] \in Nat
  <2>1. OfConnection(r.pending, n) = OfConnection(pending, n) \ {c \in gone : pending[c].conn = n}
    BY Zenon, <1>1, <1>3, <1>4 DEF OfConnection
  <2>2. connections[n] = Cardinality(OfConnection(pending, n))
    BY Zenon DEF IndInv, CountsAreExact, OfConnection
  <2>3. /\ OfConnection(pending, n) \subseteq Challenge /\ OfConnection(r.pending, n) \subseteq Challenge
        /\ {c \in gone : pending[c].conn = n} \subseteq OfConnection(pending, n)
    BY Zenon, <1>1, <2>1 DEF OfConnection
  <2>4. r.connections[n] = Lower(connections[n], Cardinality({c \in gone : pending[c].conn = n}))
    BY Zenon, <1>2
  <2> QED
    BY <2>1, <2>2, <2>3, <2>4, LowerIsExact, FiniteChallenges
<1>6. ASSUME NEW k \in Key
      PROVE  /\ OfKey(r.pending, k) = OfKey(pending, k) \ {c \in gone : KeyOf(pending[c].conn) = k}
             /\ r.identities[k] = Cardinality(OfKey(r.pending, k)) /\ r.identities[k] \in Nat
             /\ Cardinality(OfKey(r.pending, k)) <= MaxPending
  <2>1. OfKey(r.pending, k) = OfKey(pending, k) \ {c \in gone : KeyOf(pending[c].conn) = k}
    BY <1>1, <1>3, <1>4 DEF OfKey
  <2>2. identities[k] = Cardinality(OfKey(pending, k)) /\ Cardinality(OfKey(pending, k)) <= MaxPending
    BY Zenon DEF IndInv, CountsAreExact, LimitsHold, OfKey
  <2>3. /\ OfKey(pending, k) \subseteq Challenge /\ OfKey(r.pending, k) \in SUBSET OfKey(pending, k)
        /\ {c \in gone : KeyOf(pending[c].conn) = k} \subseteq OfKey(pending, k)
    BY Zenon, <1>1, <2>1 DEF OfKey
  <2>4. r.identities[k] = Lower(identities[k], Cardinality({c \in gone : KeyOf(pending[c].conn) = k}))
    BY Zenon, <1>2
  <2>5. /\ IsFiniteSet(OfKey(pending, k)) /\ Cardinality(OfKey(pending, k)) \in Nat
        /\ Cardinality(OfKey(r.pending, k)) \in Nat
    <3>1. OfKey(r.pending, k) \subseteq Challenge
      BY Zenon, <2>3
    <3> QED
      BY Zenon, <2>3, <3>1, FiniteChallenges
  <2>6. Cardinality(OfKey(r.pending, k)) <= Cardinality(OfKey(pending, k))
    BY Zenon, <2>3, <2>5, FS_Subset
  <2>7. r.identities[k] = Cardinality(OfKey(r.pending, k))
    BY <2>1, <2>2, <2>3, <2>4, LowerIsExact
  <2>8. Cardinality(OfKey(r.pending, k)) <= MaxPending
    BY <2>2, <2>5, <2>6 DEF ConstantsOK
  <2> QED
    BY Zenon, <2>1, <2>5, <2>7, <2>8
<1>7. Cardinality(Pending(r.pending)) <= MaxTotalPending
  <2>1. /\ IsFiniteSet(Pending(pending)) /\ Cardinality(Pending(pending)) \in Nat
        /\ Cardinality(Pending(r.pending)) \in Nat /\ Pending(r.pending) \in SUBSET Pending(pending)
    <3>1. Pending(r.pending) \subseteq Challenge
      BY Zenon, <1>1, <1>4
    <3> QED
      BY Zenon, <1>1, <1>4, <3>1, FiniteChallenges
  <2>2. Cardinality(Pending(r.pending)) <= Cardinality(Pending(pending))
    BY Zenon, <2>1, FS_Subset
  <2>3. Cardinality(Pending(pending)) <= MaxTotalPending
    BY Zenon DEF IndInv, LimitsHold
  <2> QED
    BY <2>1, <2>2, <2>3 DEF ConstantsOK
<1>8. r.connections \in [Connection -> Nat] /\ r.identities \in [Key -> Nat]
  <2>1. r.connections = [n \in Connection |-> r.connections[n]] /\ r.identities = [k \in Key |-> r.identities[k]]
    BY Zenon, <1>2
  <2> QED
    BY Zenon, <1>5, <1>6, <2>1
<1>9. Exact(r)
  BY Zenon, <1>3, <1>5, <1>6, <1>7, <1>8 DEF Exact
<1> QED
  BY Zenon, <1>3, <1>9 DEF r

\* The registry after a step is exact.
LEMMA RegistryIsExact ==
    ASSUME NEW r, Exact(r), SetRegistry(r)
    PROVE  /\ CountsAreExact' /\ LimitsHold'
           /\ pending' \in [Challenge -> Entries]
           /\ connections' \in [Connection -> Nat] /\ identities' \in [Key -> Nat]
<1>1. pending' = r.pending /\ connections' = r.connections /\ identities' = r.identities
  BY Zenon DEF SetRegistry
<1>2. CountsAreExact'
  BY <1>1 DEF Exact, CountsAreExact, OfConnection, OfKey, Pending
<1>3. LimitsHold'
  BY Zenon, <1>1 DEF Exact, LimitsHold, OfKey, Pending
<1> QED
  BY Zenon, <1>1, <1>2, <1>3 DEF Exact

\* A challenge that is put is one more for its connection, its key and in all.
LEMMA PutIsExact ==
    ASSUME ConstantsOK, NEW r, Exact(r), NEW n \in Connection, HasRoom(r, n),
           NEW c \in Challenge, r.pending[c] = NoEntry, NEW entry \in Entries \ {NoEntry}, entry.conn = n
    PROVE  Exact([pending |-> [r.pending EXCEPT ![c] = entry],
                  connections |-> [r.connections EXCEPT ![n] = @ + 1],
                  identities |-> [r.identities EXCEPT ![KeyOf(n)] = @ + 1]])
<1> DEFINE p == [r.pending EXCEPT ![c] = entry]
           cs == [r.connections EXCEPT ![n] = @ + 1]
           ks == [r.identities EXCEPT ![KeyOf(n)] = @ + 1]
<1>1. /\ r.pending \in [Challenge -> Entries] /\ r.connections \in [Connection -> Nat]
      /\ r.identities \in [Key -> Nat] /\ KeyOf(n) \in Key
  BY Zenon DEF Exact, ConstantsOK
<1>2. /\ p \in [Challenge -> Entries] /\ p[c] = entry /\ \A d \in Challenge \ {c} : p[d] = r.pending[d]
      /\ cs \in [Connection -> Nat] /\ ks \in [Key -> Nat]
      /\ cs[n] = r.connections[n] + 1 /\ \A m \in Connection \ {n} : cs[m] = r.connections[m]
      /\ ks[KeyOf(n)] = r.identities[KeyOf(n)] + 1 /\ \A k \in Key \ {KeyOf(n)} : ks[k] = r.identities[k]
  BY <1>1
<1> HIDE DEF p, cs, ks
<1>3. Pending(p) = Pending(r.pending) \cup {c} /\ c \notin Pending(r.pending) /\ Pending(r.pending) \subseteq Challenge
  BY <1>2 DEF Pending
<1>4. Cardinality(Pending(p)) <= MaxTotalPending
  <2>1. IsFiniteSet(Pending(r.pending)) /\ Cardinality(Pending(r.pending)) \in Nat
    BY Zenon, <1>3, FiniteChallenges
  <2>2. Cardinality(Pending(p)) = Cardinality(Pending(r.pending)) + 1
    BY Zenon, <1>3, <2>1, FS_AddElement
  <2>3. Cardinality(Pending(r.pending)) < MaxTotalPending
    BY Zenon DEF HasRoom
  <2> QED
    BY <2>1, <2>2, <2>3 DEF ConstantsOK
<1>5. ASSUME NEW m \in Connection
      PROVE  cs[m] = Cardinality(OfConnection(p, m))
  <2>1. /\ r.connections[m] = Cardinality(OfConnection(r.pending, m))
        /\ OfConnection(r.pending, m) \subseteq Challenge /\ c \notin OfConnection(r.pending, m)
    BY Zenon, <1>3 DEF Exact, OfConnection
  <2>2. IsFiniteSet(OfConnection(r.pending, m)) /\ Cardinality(OfConnection(r.pending, m)) \in Nat
    BY Zenon, <2>1, FiniteChallenges
  <2>3. CASE m = n
    <3>1. OfConnection(p, m) = OfConnection(r.pending, m) \cup {c}
      BY <1>2, <1>3, <2>3 DEF OfConnection
    <3>2. Cardinality(OfConnection(p, m)) = Cardinality(OfConnection(r.pending, m)) + 1
      BY Zenon, <2>1, <2>2, <3>1, FS_AddElement
    <3> QED
      BY Zenon, <1>2, <2>1, <2>3, <3>2
  <2>4. CASE m # n
    <3>1. OfConnection(p, m) = OfConnection(r.pending, m)
      BY <1>2, <1>3, <2>4 DEF OfConnection
    <3> QED
      BY Zenon, <1>2, <2>1, <2>4, <3>1
  <2> QED
    BY Zenon, <2>3, <2>4
<1>6. ASSUME NEW k \in Key
      PROVE  ks[k] = Cardinality(OfKey(p, k)) /\ Cardinality(OfKey(p, k)) <= MaxPending
  <2>1. /\ r.identities[k] = Cardinality(OfKey(r.pending, k)) /\ Cardinality(OfKey(r.pending, k)) <= MaxPending
        /\ OfKey(r.pending, k) \subseteq Challenge /\ c \notin OfKey(r.pending, k)
    BY Zenon, <1>3 DEF Exact, OfKey
  <2>2. IsFiniteSet(OfKey(r.pending, k)) /\ Cardinality(OfKey(r.pending, k)) \in Nat
    BY Zenon, <2>1, FiniteChallenges
  <2>3. CASE k = KeyOf(n)
    <3>1. OfKey(p, k) = OfKey(r.pending, k) \cup {c}
      BY <1>2, <1>3, <2>3 DEF OfKey
    <3>2. Cardinality(OfKey(p, k)) = Cardinality(OfKey(r.pending, k)) + 1
      BY Zenon, <2>1, <2>2, <3>1, FS_AddElement
    <3>3. r.identities[k] < MaxPending
      BY Zenon, <2>3 DEF HasRoom
    <3> QED
      BY <1>2, <2>1, <2>2, <2>3, <3>2, <3>3 DEF ConstantsOK
  <2>4. CASE k # KeyOf(n)
    <3>1. OfKey(p, k) = OfKey(r.pending, k)
      BY <1>2, <1>3, <2>4 DEF OfKey
    <3> QED
      BY Zenon, <1>2, <2>1, <2>4, <3>1
  <2> QED
    BY Zenon, <2>3, <2>4
<1> QED
  BY <1>2, <1>4, <1>5, <1>6 DEF Exact, p, cs, ks

\* putChallenge: the identifier was never issued, so its challenge is fresh.
LEMMA PutKeeps ==
    ASSUME ConstantsOK, IndInv, NEW h \in Handler, NEW c \in Challenge, PutChallenge(h, c)
    PROVE  IndInv'
<1> DEFINE me == handlers[h]
           gone == Expired(me.now)
           r == Released(gone)
           entry == [conn |-> me.conn, request |-> me.request, expires |-> me.now + ChallengeTTL]
           more == [pending |-> [r.pending EXCEPT ![c] = entry],
                    connections |-> [r.connections EXCEPT ![me.conn] = @ + 1],
                    identities |-> [r.identities EXCEPT ![KeyOf(me.conn)] = @ + 1]]
<1>1. /\ me.stage = "PUT" /\ issued[c] = NoEntry /\ handlers' = [handlers EXCEPT ![h] = Idle]
      /\ IF HasRoom(r, me.conn) THEN SetRegistry(more) /\ issued' = [issued EXCEPT ![c] = entry]
                                ELSE SetRegistry(r) /\ UNCHANGED issued
      /\ UNCHANGED <<clock, proofs, writer, store, answers>>
  BY Zenon DEF PutChallenge
<1>2. /\ me \in HandlerState /\ me.conn \in Connection /\ me.request \in Request /\ me.now \in Nat
      /\ handlers \in [Handler -> HandlerState] /\ issued \in [Challenge -> Entries]
  BY Zenon, <1>1 DEF IndInv, TypeOK, ExchangeInv, RequestOK, HandlerState
<1>3. entry \in Entries \ {NoEntry} /\ entry.conn = me.conn
  BY <1>2 DEF Entries, NoEntry, ConstantsOK
<1>4. /\ handlers'[h] = Idle /\ \A g \in Handler \ {h} : handlers'[g] = handlers[g]
  BY Zenon, <1>1, <1>2
<1>5. gone \in SUBSET Pending(pending)
  BY Zenon DEF Expired
<1>6. /\ Exact(r) /\ r.pending \in [Challenge -> Entries]
      /\ \A d \in Challenge : r.pending[d] = IF d \in gone THEN NoEntry ELSE pending[d]
  BY <1>5, ReleasedIsExact DEF Exact
<1>7. pending[c] = NoEntry /\ r.pending[c] = NoEntry /\ Fresh(c)
  BY Zenon, <1>1, <1>6 DEF IndInv, ExchangeInv, ChallengeOK
<1> HIDE DEF gone, r, entry
<1>8. /\ CountsAreExact' /\ LimitsHold'
      /\ pending' \in [Challenge -> Entries] /\ issued' \in [Challenge -> Entries]
      /\ connections' \in [Connection -> Nat] /\ identities' \in [Key -> Nat]
      /\ \A d \in Challenge \ {c} : issued'[d] = issued[d] /\ pending'[d] \in {pending[d], NoEntry}
      /\ pending'[c] = issued'[c]
  <2>1. CASE HasRoom(r, me.conn)
    <3>1. Exact(more)
      BY Zenon, <1>2, <1>3, <1>6, <1>7, <2>1, PutIsExact
    <3>2. SetRegistry(more) /\ issued' = [issued EXCEPT ![c] = entry]
      BY Zenon, <1>1, <2>1
    <3>3. pending' = [r.pending EXCEPT ![c] = entry]
      BY Zenon, <3>2 DEF SetRegistry
    <3> HIDE DEF more
    <3>4. /\ CountsAreExact' /\ LimitsHold' /\ pending' \in [Challenge -> Entries]
          /\ connections' \in [Connection -> Nat] /\ identities' \in [Key -> Nat]
      BY Zenon, <3>1, <3>2, RegistryIsExact
    <3> QED
      BY Zenon, <1>2, <1>3, <1>6, <3>2, <3>3, <3>4
  <2>2. CASE ~HasRoom(r, me.conn)
    <3>1. SetRegistry(r) /\ issued' = issued
      BY Zenon, <1>1, <2>2
    <3>2. /\ CountsAreExact' /\ LimitsHold' /\ pending' \in [Challenge -> Entries]
          /\ connections' \in [Connection -> Nat] /\ identities' \in [Key -> Nat]
      BY Zenon, <1>6, <3>1, RegistryIsExact
    <3> QED
      BY Zenon, <1>1, <1>2, <1>6, <1>7, <3>1, <3>2 DEF SetRegistry
  <2> QED
    BY Zenon, <2>1, <2>2
<1>9. TypeOK'
  BY Zenon, <1>1, <1>2, <1>8, IdleState DEF IndInv, TypeOK, store
<1>10. \A d \in Challenge : Fresh(d) <=> Fresh(d)'
  BY Zenon, <1>1 DEF Fresh, store
<1>11. ASSUME NEW g \in Handler
       PROVE  RequestOK(handlers[g])'
  <2>1. CASE g = h
    BY Zenon, <1>4, <2>1, IdleState DEF RequestOK
  <2>2. CASE g # h
    <3>1. RequestOK(handlers[g]) /\ handlers'[g] = handlers[g]
      BY Zenon, <1>4, <2>2 DEF IndInv, ExchangeInv
    <3>2. handlers[g].stage \in Admitted => handlers[g].challenge \in Challenge \ {c}
      BY Zenon, <1>1, AdmittedRequest
    <3>3. Ready(handlers[g]) => Ready(handlers[g])'
      BY Zenon, <1>1, <3>1 DEF Ready, Recoverable, store
    <3> QED
      BY ZenonT(30), <1>1, <1>8, <1>10, <3>1, <3>2, <3>3 DEF RequestOK
  <2> QED
    BY Zenon, <2>1, <2>2
<1>12. HeldOnce' /\ LockIsHeld'
  <2>1. HeldOnce'
    BY Zenon, <1>4, IdleState DEF IndInv, ExchangeInv, HeldOnce
  <2> QED
    BY Zenon, <1>1, <1>4, <2>1, IdleState, OthersKeepTheLock
<1>13. \A d \in Challenge : ChallengeOK(d)'
  BY <1>1, <1>7, <1>8, <1>10 DEF IndInv, ExchangeInv, ChallengeOK
<1>14. SignedEvents' /\ OutcomeIsAtomic'
  BY Zenon, <1>1 DEF IndInv, ExchangeInv, SignedEvents, OutcomeIsAtomic, store
<1>15. AnswersAreTrue'
  <2>1. answers[c].code # "OK"
    BY Zenon, <1>7, FreshIsUnanswered
  <2>2. AnswersAgree /\ RecoveredByItsOwner /\ RefusalMeansNoEffect
    BY Zenon DEF IndInv, ExchangeInv, AnswersAreTrue
  <2>3. AnswersAgree' /\ RecoveredByItsOwner'
    BY Zenon, <1>1, <1>8, <2>1, <2>2 DEF AnswersAgree, RecoveredByItsOwner, store
  <2>4. RefusalMeansNoEffect'
    BY Zenon, <1>1, <2>2 DEF RefusalMeansNoEffect, store
  <2> QED
    BY Zenon, <2>3, <2>4 DEF AnswersAreTrue
<1> QED
  BY Zenon, <1>8, <1>9, <1>11, <1>12, <1>13, <1>14, <1>15 DEF IndInv, ExchangeInv

\* takeChallenge: the challenge leaves the registry, so no other request holds it.
LEMMA TakeKeeps ==
    ASSUME ConstantsOK, IndInv, NEW h \in Handler, TakeChallenge(h)
    PROVE  IndInv'
<1>1. PICK me \in HandlerState : me = handlers[h]
  BY Zenon DEF IndInv, TypeOK
<1>2. PICK c \in Challenge : c = me.challenge
  BY Zenon, <1>1 DEF TakeChallenge, IndInv, ExchangeInv, RequestOK
<1>3. PICK gone \in SUBSET Pending(pending) :
          gone = Expired(me.now) \cup ({c} \cap Pending(pending))
  BY Zenon DEF Expired
<1>4. PICK new : new = IF Admits(pending[c], me)
                       THEN [me EXCEPT !.stage = IF Durable THEN "VERIFY" ELSE "ACCEPT",
                                       !.entry = pending[c], !.now = 0]
                       ELSE Idle
  BY Zenon
<1>5. /\ me.stage = "TAKE" /\ SetRegistry(Released(gone))
      /\ handlers' = [handlers EXCEPT ![h] = new]
      /\ UNCHANGED <<clock, issued, proofs, writer, store, answers>>
  BY Zenon, <1>1, <1>2, <1>3, <1>4 DEF TakeChallenge, Taken
<1>6. /\ handlers \in [Handler -> HandlerState] /\ pending \in [Challenge -> Entries]
      /\ RequestOK(me) /\ me.conn \in Connection /\ me.request \in Request /\ me.proof \in Challenge
  BY Zenon, <1>1, <1>5 DEF IndInv, TypeOK, ExchangeInv, RequestOK
<1>7. /\ CountsAreExact' /\ LimitsHold' /\ pending' \in [Challenge -> Entries]
      /\ connections' \in [Connection -> Nat] /\ identities' \in [Key -> Nat]
  BY Zenon, <1>5, ReleasedIsExact, RegistryIsExact
<1>8. \A d \in Challenge : pending'[d] = IF d \in gone THEN NoEntry ELSE pending[d]
  BY Zenon, <1>5, ReleasedIsExact DEF SetRegistry
<1>9. pending'[c] = NoEntry /\ \A d \in Challenge : pending'[d] \in {pending[d], NoEntry}
  BY Zenon, <1>3, <1>8 DEF Pending
<1>10. \/ new = Idle
       \/ /\ new \in HandlerState /\ new.stage = IF Durable THEN "VERIFY" ELSE "ACCEPT"
          /\ new.conn = me.conn /\ new.request = me.request /\ new.challenge = c /\ new.proof = me.proof
          /\ new.entry = pending[c] /\ pending[c] # NoEntry
          /\ pending[c].conn = me.conn /\ pending[c].request = me.request
  BY Zenon, <1>2, <1>4, <1>6 DEF Admits, HandlerState, Stages
<1>11. new \in HandlerState
  BY Zenon, <1>10, IdleState
<1>12. handlers'[h] = new /\ \A g \in Handler \ {h} : handlers'[g] = handlers[g]
  BY Zenon, <1>5, <1>6
<1>13. TypeOK'
  BY Zenon, <1>5, <1>6, <1>7, <1>11 DEF IndInv, TypeOK, store
<1>14. \A d \in Challenge : Fresh(d) <=> Fresh(d)'
  BY Zenon, <1>5 DEF Fresh, store
<1>15. pending[c] # NoEntry => pending[c] = issued[c] /\ Fresh(c)
  BY Zenon DEF IndInv, ExchangeInv, ChallengeOK
<1>16. RequestOK(new)'
  <2>1. CASE new = Idle
    BY Zenon, <2>1, IdleState DEF RequestOK
  <2>2. CASE new # Idle
    BY <1>5, <1>6, <1>9, <1>10, <1>14, <1>15, <2>2 DEF RequestOK, Admitted, Stages, Locked
  <2> QED
    BY Zenon, <2>1, <2>2
<1>17. ASSUME NEW g \in Handler
       PROVE  RequestOK(handlers[g])'
  <2>1. CASE g = h
    BY <1>12, <1>16, <2>1 DEF RequestOK
  <2>2. CASE g # h
    <3>1. RequestOK(handlers[g]) /\ handlers'[g] = handlers[g]
      BY Zenon, <1>12, <2>2 DEF IndInv, ExchangeInv
    <3>2. handlers[g].stage \in Admitted => handlers[g].challenge \in Challenge /\ pending[handlers[g].challenge] = NoEntry
      BY Zenon, AdmittedRequest
    <3>3. Ready(handlers[g]) => Ready(handlers[g])'
      BY Zenon, <1>5, <3>1 DEF Ready, Recoverable, store
    <3> QED
      BY Zenon, <1>5, <1>9, <1>14, <3>1, <3>2, <3>3 DEF RequestOK
  <2> QED
    BY Zenon, <2>1, <2>2
<1>18. HeldOnce' /\ LockIsHeld'
  <2>1. \A g \in Handler : handlers[g].stage \in Admitted => pending[handlers[g].challenge] = NoEntry
    BY Zenon, AdmittedRequest
  <2>2. new.stage \in Admitted => new.challenge = c /\ pending[c] # NoEntry
    BY Zenon, <1>10, IdleState
  <2>3. HeldOnce'
    BY SMTT(30), <1>12, <2>1, <2>2 DEF IndInv, ExchangeInv, HeldOnce
  <2>4. new.stage \notin Locked
    BY Zenon, <1>10, IdleState DEF Locked
  <2> QED
    BY Zenon, <1>5, <1>12, <2>3, <2>4, OthersKeepTheLock
<1>19. \A d \in Challenge : ChallengeOK(d)'
  BY Zenon, <1>5, <1>9, <1>14 DEF IndInv, ExchangeInv, ChallengeOK
<1>20. SignedEvents' /\ OutcomeIsAtomic' /\ AnswersAreTrue'
  BY <1>5 DEF IndInv, ExchangeInv, SignedEvents, OutcomeIsAtomic, AnswersAreTrue, AnswersAgree,
              RecoveredByItsOwner, RefusalMeansNoEffect, store
<1> QED
  BY Zenon, <1>7, <1>13, <1>17, <1>18, <1>19, <1>20 DEF IndInv, ExchangeInv

\* The process dies: challenges and requests are gone.
LEMMA CrashKeeps ==
    ASSUME ConstantsOK, IndInv, Crash
    PROVE  IndInv'
<1>1. /\ pending' = [c \in Challenge |-> NoEntry]
      /\ connections' = [n \in Connection |-> 0] /\ identities' = [k \in Key |-> 0]
      /\ handlers' = [h \in Handler |-> Idle] /\ writer' = None
      /\ UNCHANGED <<clock, issued, proofs, store, answers>>
  BY Zenon DEF Crash
<1>2. TypeOK'
  BY Zenon, <1>1, IdleState DEF IndInv, TypeOK, Entries, store
<1>3. (\A h \in Handler : RequestOK(handlers[h])') /\ HeldOnce' /\ LockIsHeld'
  BY Zenon, <1>1, IdleState DEF RequestOK, HeldOnce, LockIsHeld
<1>4. \A c \in Challenge : ChallengeOK(c)'
  BY Zenon, <1>1 DEF IndInv, ExchangeInv, ChallengeOK, Fresh, store
<1>5. SignedEvents' /\ OutcomeIsAtomic' /\ AnswersAreTrue'
  BY Zenon, <1>1 DEF IndInv, ExchangeInv, SignedEvents, OutcomeIsAtomic, AnswersAreTrue, AnswersAgree,
              RecoveredByItsOwner, RefusalMeansNoEffect, store
<1>6. Pending(pending)' = {}
  BY Zenon, <1>1 DEF Pending
<1>7. CountsAreExact'
  BY Zenon, <1>1, <1>6, FS_EmptySet DEF CountsAreExact
<1>8. LimitsHold'
  BY <1>6, FS_EmptySet DEF LimitsHold, ConstantsOK
<1> QED
  BY Zenon, <1>2, <1>3, <1>4, <1>5, <1>7, <1>8 DEF IndInv, ExchangeInv
-----------------------------------------------------------------------------
\* The inductive invariant: a challenge is nowhere, outstanding, held by one request
\* or used, and what was answered and committed agrees with what was issued.
THEOREM Invariant ==
    ASSUME ConstantsOK
    PROVE  Spec => []IndInv
<1>1. Init => IndInv
  <2> SUFFICES ASSUME Init
               PROVE  IndInv
    BY Zenon
  <2>1. TypeOK
    <3>1. NoEntry \in Entries /\ NoEvent \in Events /\ NoAnswer \in Answers
      BY DEF Entries, Events, Answers, NoAnswer
    <3>2. clock \in 1..MaxTime
      BY DEF Init, ConstantsOK
    <3>3. /\ pending \in [Challenge -> Entries] /\ issued \in [Challenge -> Entries]
          /\ events \in [Event -> Events] /\ outcomes \in [Event -> Events]
          /\ answers \in [Challenge -> Answers] /\ handlers \in [Handler -> HandlerState]
      BY <3>1, IdleState DEF Init
    <3>4. /\ connections \in [Connection -> Nat] /\ identities \in [Key -> Nat]
          /\ proofs \in [Challenge -> Nat] /\ revision \in [Assignment -> Nat]
          /\ replay \in [Challenge -> Nat] /\ writer \in Handler \cup {None}
      BY DEF Init
    <3> QED
      BY <3>2, <3>3, <3>4 DEF TypeOK
  <2>2. ExchangeInv
    BY Zenon, IdleState DEF Init, ExchangeInv, RequestOK, HeldOnce, LockIsHeld, ChallengeOK, Fresh, SignedEvents, OutcomeIsAtomic,
       AnswersAreTrue, AnswersAgree, RecoveredByItsOwner, RefusalMeansNoEffect, NoAnswer, NoEvent, ConstantsOK
  <2>3. Pending(pending) = {}
    BY Zenon DEF Init, Pending
  <2>4. CountsAreExact
    BY Zenon, <2>3, FS_EmptySet DEF Init, CountsAreExact
  <2>5. LimitsHold
    BY <2>3, FS_EmptySet DEF LimitsHold, ConstantsOK
  <2> QED
    BY Zenon, <2>1, <2>2, <2>4, <2>5 DEF IndInv
<1>2. IndInv /\ [Next]_vars => IndInv'
  <2> SUFFICES ASSUME IndInv, [Next]_vars
               PROVE  IndInv'
    BY Zenon
  <2>1. ASSUME NEW h \in Handler, Work(h)
        PROVE  IndInv'
    BY Zenon, <2>1, PutKeeps, TakeKeeps, VerifyKeeps, AcceptKeeps, LoadKeeps, CheckedKeeps, EndTransactionKeeps,
       CommitPlainKeeps
    DEF Work
  <2>2. CASE Next
    BY Zenon, <2>1, <2>2, BeginKeeps, SignKeeps, TickKeeps, CrashKeeps DEF Next
  <2>3. CASE UNCHANGED vars
    <3>1. UNCHANGED <<clock, pending, connections, identities, issued, proofs, handlers, writer,
                      revision, events, outcomes, replay, answers>>
      BY Zenon, <2>3 DEF vars, registry, store
    <3>2. TypeOK' /\ CountsAreExact' /\ LimitsHold'
      BY <3>1 DEF IndInv, TypeOK, CountsAreExact, LimitsHold, Pending
    <3>3. (\A h \in Handler : RequestOK(handlers[h])') /\ HeldOnce' /\ LockIsHeld'
      <4>1. ASSUME NEW h \in Handler
            PROVE  RequestOK(handlers[h])'
        <5>1. RequestOK(handlers'[h])
          BY Zenon, <3>1 DEF IndInv, ExchangeInv
        <5> QED
          BY Zenon, <3>1, <5>1 DEF RequestOK, Fresh, Ready, Recoverable
      <4>2. HeldOnce' /\ LockIsHeld'
        BY Zenon, <3>1 DEF IndInv, ExchangeInv, HeldOnce, LockIsHeld
      <4> QED
        BY Zenon, <4>1, <4>2
    <3>4. \A c \in Challenge : ChallengeOK(c)'
      BY Zenon, <3>1 DEF IndInv, ExchangeInv, ChallengeOK, Fresh
    <3>5. SignedEvents' /\ OutcomeIsAtomic' /\ AnswersAreTrue'
      BY Zenon, <3>1 DEF IndInv, ExchangeInv, SignedEvents, OutcomeIsAtomic, AnswersAreTrue, AnswersAgree,
                  RecoveredByItsOwner, RefusalMeansNoEffect
    <3> QED
      BY Zenon, <3>2, <3>3, <3>4, <3>5 DEF IndInv, ExchangeInv
  <2> QED
    BY Zenon, <2>2, <2>3
<1> QED
  BY <1>1, <1>2, PTL DEF Spec

\* executeDurable: a mutation, the retained response and the spent proof are there
\* together or not at all.
THEOREM AtomicOutcome ==
    ASSUME ConstantsOK
    PROVE  Spec => []OutcomeIsAtomic
<1>1. IndInv => OutcomeIsAtomic
  BY Zenon DEF IndInv, ExchangeInv
<1> QED
  BY <1>1, Invariant, PTL

\* handleExecute: success names the one execution, to its owner; refusal means none.
THEOREM TrueAnswers ==
    ASSUME ConstantsOK
    PROVE  Spec => []AnswersAreTrue
<1>1. IndInv => AnswersAreTrue
  BY Zenon DEF IndInv, ExchangeInv
<1> QED
  BY <1>1, Invariant, PTL

\* The registry: the counts are those of the outstanding challenges and within the
\* limits, however requests, expiry and crashes interleave.
THEOREM ExactCounts ==
    ASSUME ConstantsOK
    PROVE  Spec => [](CountsAreExact /\ LimitsHold)
<1>1. IndInv => CountsAreExact /\ LimitsHold
  BY Zenon DEF IndInv
<1> QED
  BY <1>1, Invariant, PTL

\* Only a commit changes events, and it writes the event of its own request.
LEMMA CommitIsAuthorized ==
    ASSUME ConstantsOK, IndInv, NEW h \in Handler, handlers[h].stage \in {"SEALED", "COMMIT"},
           \A e \in EventsOf(handlers[h].request) : events[e] = NoEvent,
           Mutate(handlers[h])
    PROVE  AuthorizedCommit
<1>1. PICK me \in HandlerState : me = handlers[h]
  BY Zenon DEF IndInv, TypeOK
<1>2. PICK c \in Challenge : c = me.challenge
  BY Zenon, <1>1, AdmittedRequest DEF Admitted, Stages
<1>3. PICK x : x = EventOf(me)
  BY Zenon
<1>4. /\ me.stage \in {"SEALED", "COMMIT"} /\ RequestOK(me) /\ Fresh(c)
      /\ issued[c] = me.entry /\ me.entry.conn = me.conn /\ me.entry.request = me.request
      /\ me.entry.expires \in Nat
  BY Zenon, <1>1, <1>2, AdmittedRequest DEF IndInv, ExchangeInv, Admitted, Stages
<1>5. /\ me.proof = c /\ me.expires <= me.entry.expires /\ me.expires <= proofs[c]
      /\ me.now < me.expires
  BY Zenon, <1>2, <1>4 DEF RequestOK
<1>6. me.now < issued[c].expires /\ me.now < proofs[c]
  <2>1. me.now \in Nat /\ me.expires \in Nat /\ proofs[c] \in Nat /\ me.entry.expires \in Nat
    BY Zenon, <1>4 DEF IndInv, TypeOK, HandlerState
  <2>2. \A m, n, k \in Nat : m < n /\ n <= k => m < k
    OBVIOUS
  <2> QED
    BY Zenon, <1>4, <1>5, <2>1, <2>2
<1>7. x.request = me.request /\ x.by = KeyOf(me.conn) /\ x.proof = c
  BY Zenon, <1>3, <1>5 DEF EventOf
<1>8. \A e \in Event : events'[e] # events[e] => events[e] = NoEvent /\ events'[e] = x
  <2>1. events' = [e \in Event |-> IF e \in EventsOf(me.request) THEN x ELSE events[e]]
    BY Zenon, <1>1, <1>3 DEF Mutate
  <2>2. \A e \in EventsOf(me.request) : events[e] = NoEvent
    BY Zenon, <1>1
  <2> QED
    BY Zenon, <2>1, <2>2
<1>9. Durable => writer = h
  BY Zenon, <1>1, <1>4 DEF IndInv, ExchangeInv, RequestOK, LockIsHeld, Locked
<1>10. \E g \in Handler : /\ handlers[g].challenge = c
                          /\ handlers[g].now < issued[c].expires /\ handlers[g].now < proofs[c]
                          /\ Durable => writer = g
  BY Zenon, <1>1, <1>2, <1>6, <1>9
<1> QED
  BY Zenon, <1>4, <1>7, <1>8, <1>10 DEF AuthorizedCommit, Fresh

\* Only takeChallenge admits a request, to a challenge nobody holds.
LEMMA TakeAdmitsAlone ==
    ASSUME ConstantsOK, IndInv, NEW h \in Handler, TakeChallenge(h)
    PROVE  AdmittedAlone
<1> SUFFICES ASSUME NEW c \in Challenge, NEW g \in Handler, g \in Holders(c)' \ Holders(c)
             PROVE  Holders(c) = {} /\ answers[c] = NoAnswer
  BY Zenon DEF AdmittedAlone
<1>1. /\ handlers \in [Handler -> HandlerState]
      /\ \A f \in Handler \ {h} : handlers'[f] = handlers[f]
  BY Zenon DEF IndInv, TypeOK, TakeChallenge
<1>2. g = h
  BY Zenon, <1>1 DEF Holders
<1>3. PICK me \in HandlerState : me = handlers[h]
  BY Zenon, <1>1
<1>4. /\ handlers'[h].challenge = c /\ handlers'[h].entry # NoEntry
      /\ handlers'[h] = IF Admits(pending[me.challenge], me)
                        THEN [me EXCEPT !.stage = IF Durable THEN "VERIFY" ELSE "ACCEPT",
                                        !.entry = pending[me.challenge], !.now = 0]
                        ELSE Idle
  BY Zenon, <1>1, <1>2, <1>3 DEF Holders, TakeChallenge
<1>5. me.challenge = c /\ pending[c] # NoEntry
  BY <1>4, IdleState DEF HandlerState
<1>6. Fresh(c)
  BY Zenon, <1>5 DEF IndInv, ExchangeInv, ChallengeOK
<1>7. ASSUME NEW f \in Handler, handlers[f].challenge = c
      PROVE  handlers[f].entry = NoEntry
  BY <1>5, <1>7, AdmittedRequest DEF IndInv, ExchangeInv, RequestOK
<1> QED
  BY Zenon, <1>6, <1>7 DEF Holders, Fresh

\* Any other step only lets go of challenges.
LEMMA NobodyElseAdmits ==
    ASSUME ConstantsOK, IndInv,
           \A h \in Handler :
               \/ handlers'[h].entry = NoEntry
               \/ handlers'[h].entry = handlers[h].entry /\ handlers'[h].challenge = handlers[h].challenge
    PROVE  AdmittedAlone
BY Zenon DEF AdmittedAlone, Holders

\* A commit is the first under its proof, for the request its challenge was issued
\* for, and challenge and proof were in force at the last look of the request that makes
\* it, on a durable store under the writer's lock; and a challenge admits one request
\* (executeDurable, applyOperation, takeChallenge).
THEOREM AuthorityAtCommit ==
    ASSUME ConstantsOK
    PROVE  Spec => AuthorizedWhenCommitted
<1>1. IndInv /\ [Next]_vars => [AuthorizedCommit /\ AdmittedAlone]_vars
  <2> SUFFICES ASSUME IndInv, Next
               PROVE  AuthorizedCommit /\ AdmittedAlone
    BY Zenon
  <2>1. handlers \in [Handler -> HandlerState]
    BY Zenon DEF IndInv, TypeOK
  <2>2. UNCHANGED events => AuthorizedCommit
    BY Zenon DEF AuthorizedCommit
  <2>3. ASSUME NEW h \in Handler, NEW new, handlers' = [handlers EXCEPT ![h] = new],
               \/ new.entry = NoEntry
               \/ new.entry = handlers[h].entry /\ new.challenge = handlers[h].challenge
        PROVE  AdmittedAlone
    BY Zenon, <2>1, <2>3, NobodyElseAdmits
  <2>4. UNCHANGED handlers => AdmittedAlone
    BY Zenon, NobodyElseAdmits
  <2>5. ASSUME NEW h \in Handler, NEW code, NEW response, Answer(h, code, response)
        PROVE  AdmittedAlone
    BY Zenon, <2>3, <2>5, IdleState DEF Answer
  <2>6. ASSUME NEW h \in Handler, NEW c \in Challenge, PutChallenge(h, c)
        PROVE  AuthorizedCommit /\ AdmittedAlone
    BY Zenon, <2>2, <2>3, <2>6, IdleState DEF PutChallenge, store
  <2>7. ASSUME NEW h \in Handler, TakeChallenge(h)
        PROVE  AuthorizedCommit /\ AdmittedAlone
    BY Zenon, <2>2, <2>7, TakeAdmitsAlone DEF TakeChallenge, store
  <2>8. ASSUME NEW h \in Handler, NEW stage, handlers' = [handlers EXCEPT ![h].stage = stage]
        PROVE  AdmittedAlone
    <3>1. handlers[h] \in HandlerState /\ handlers' = [handlers EXCEPT ![h] = [handlers[h] EXCEPT !.stage = stage]]
      BY Zenon, <2>1, <2>8
    <3>2. /\ [handlers[h] EXCEPT !.stage = stage].entry = handlers[h].entry
          /\ [handlers[h] EXCEPT !.stage = stage].challenge = handlers[h].challenge
      BY Zenon, <3>1 DEF HandlerState
    <3> QED
      BY Zenon, <2>3, <3>1, <3>2
  <2>9. ASSUME NEW h \in Handler, PreVerify(h) \/ GiveUp(h)
        PROVE  AuthorizedCommit /\ AdmittedAlone
    BY Zenon, <2>2, <2>5, <2>8, <2>9 DEF PreVerify, GiveUp, store
  <2>10. ASSUME NEW h \in Handler, NEW limit \in Limit, BeginTransaction(h, limit) \/ AcceptOperation(h, limit)
         PROVE  AuthorizedCommit /\ AdmittedAlone
    <3>1. UNCHANGED events
      BY Zenon, <2>10 DEF BeginTransaction, AcceptOperation, store
    <3>2. \/ \E code, response : Answer(h, code, response)
          \/ \E stage : handlers' = [handlers EXCEPT ![h] = Accepted(handlers[h], stage, limit)]
      BY Zenon, <2>10 DEF BeginTransaction, AcceptOperation
    <3>3. \A stage : /\ Accepted(handlers[h], stage, limit).entry = handlers[h].entry
                     /\ Accepted(handlers[h], stage, limit).challenge = handlers[h].challenge
      BY Zenon, <2>1 DEF Accepted, HandlerState
    <3> QED
      BY Zenon, <2>2, <2>3, <2>5, <3>1, <3>2, <3>3
  <2>11. ASSUME NEW h \in Handler, NEW lawful \in BOOLEAN,
                CheckPlain(h) \/ LoadAndMarkUsed(h, lawful) \/ ExecuteDurable(h, lawful)
         PROVE  AuthorizedCommit /\ AdmittedAlone
    <3>1. CASE LoadAndMarkUsed(h, lawful)
      BY Zenon, <2>2, <2>5, <2>8, <3>1 DEF LoadAndMarkUsed
    <3>2. CASE CheckPlain(h) \/ ExecuteDurable(h, lawful)
      <4>1. UNCHANGED events
        BY Zenon, <3>2 DEF CheckPlain, ExecuteDurable, store
      <4>2. \/ \E code, response : Answer(h, code, response)
            \/ \E stage : handlers' = [handlers EXCEPT ![h] = Checked(handlers[h], stage)]
        BY Zenon, <3>2 DEF CheckPlain, ExecuteDurable
      <4>3. \A stage : /\ Checked(handlers[h], stage).entry = handlers[h].entry
                       /\ Checked(handlers[h], stage).challenge = handlers[h].challenge
        BY Zenon, <2>1 DEF Checked, HandlerState
      <4> QED
        BY Zenon, <2>2, <2>3, <2>5, <4>1, <4>2, <4>3
    <3> QED
      BY Zenon, <2>11, <3>1, <3>2
  <2>12. ASSUME NEW h \in Handler, NEW fate \in {"COMMITTED", "LOST", "FAILED"}, EndTransaction(h, fate)
         PROVE  AuthorizedCommit /\ AdmittedAlone
    <3>1. \E code, response : Answer(h, code, response)
      BY Zenon, <2>12 DEF EndTransaction
    <3>2. handlers[h].stage = "SEALED" /\ Ready(handlers[h])
      BY Zenon, <2>12 DEF EndTransaction, IndInv, ExchangeInv, RequestOK
    <3>3. \/ UNCHANGED events
          \/ /\ \A e \in EventsOf(handlers[h].request) : events[e] = NoEvent
             /\ Mutate(handlers[h])
      BY Zenon, <2>12, <3>2 DEF EndTransaction, Commit, Ready, store
    <3> QED
      BY Zenon, <2>2, <2>5, <3>1, <3>2, <3>3, CommitIsAuthorized
  <2>13. ASSUME NEW h \in Handler, NEW fate \in {"COMMITTED", "LOST", "FAILED"}, CommitPlain(h, fate)
         PROVE  AuthorizedCommit /\ AdmittedAlone
    <3>1. \E code, response : Answer(h, code, response)
      BY Zenon, <2>13 DEF CommitPlain
    <3>2. \/ UNCHANGED events
          \/ /\ handlers[h].stage = "COMMIT"
             /\ \A e \in EventsOf(handlers[h].request) : events[e] = NoEvent
             /\ Mutate(handlers[h])
      BY Zenon, <2>13 DEF CommitPlain, Fits
    <3> QED
      BY Zenon, <2>2, <2>5, <3>1, <3>2, CommitIsAuthorized
  <2>14. ASSUME NEW h \in Handler, NEW n \in Connection, NEW r \in Request,
                \/ BeginChallenge(h, n, r)
                \/ \E c, p \in Challenge : BeginExecute(h, n, r, c, p)
         PROVE  AuthorizedCommit /\ AdmittedAlone
    <3>1. UNCHANGED events
      BY Zenon, <2>14 DEF BeginChallenge, BeginExecute, store
    <3>2. \E new : new.entry = NoEntry /\ handlers' = [handlers EXCEPT ![h] = new]
      <4>1. CASE BeginChallenge(h, n, r)
        <5>1. [Idle EXCEPT !.stage = "PUT", !.conn = n, !.request = r, !.now = clock].entry = NoEntry
          BY Zenon DEF Idle
        <5> QED
          BY Zenon, <4>1, <5>1 DEF BeginChallenge
      <4>2. ASSUME NEW c \in Challenge, NEW p \in Challenge, BeginExecute(h, n, r, c, p)
            PROVE  \E new : new.entry = NoEntry /\ handlers' = [handlers EXCEPT ![h] = new]
        <5>1. [Idle EXCEPT !.stage = "TAKE", !.conn = n, !.request = r, !.challenge = c, !.proof = p,
                           !.now = clock].entry = NoEntry
          BY Zenon DEF Idle
        <5> QED
          BY Zenon, <4>2, <5>1 DEF BeginExecute
      <4> QED
        BY Zenon, <2>14, <4>1, <4>2
    <3> QED
      BY Zenon, <2>2, <2>3, <3>1, <3>2
  <2>15. ASSUME Crash
         PROVE  AuthorizedCommit /\ AdmittedAlone
    BY Zenon, <2>2, <2>15, NobodyElseAdmits, IdleState DEF Crash, store
  <2>16. ASSUME Tick \/ \E c \in Challenge, lifetime \in Lifetime : Sign(c, lifetime)
         PROVE  AuthorizedCommit /\ AdmittedAlone
    BY Zenon, <2>2, <2>4, <2>16 DEF Tick, Sign, store
  <2>17. ASSUME NEW h \in Handler, Work(h)
         PROVE  AuthorizedCommit /\ AdmittedAlone
    BY Zenon, <2>6, <2>7, <2>9, <2>10, <2>11, <2>12, <2>13, <2>17 DEF Work
  <2> QED
    BY Zenon, <2>14, <2>15, <2>16, <2>17 DEF Next
<1> QED
  BY <1>1, Invariant, PTL DEF Spec, AuthorizedWhenCommitted
=============================================================================
