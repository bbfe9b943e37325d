----------------------------- MODULE RelaySteps -----------------------------
(***************************************************************************)
(* What holds of the reachability directory for all sets of consents,      *)
(* grants, revocations and readers; and what the relay's operations make   *)
(* of its locks, its records and the calls in progress, for RelayTheorems. *)
(***************************************************************************)
EXTENDS HumanRelay, TLAPS

-----------------------------------------------------------------------------
(* The directory. *)

\* RegisterConsent keeps what the restore asks for.
LEMMA RegisterKeeps ==
    ASSUME DirectoryConstantsOK, DirectoryIndInv, NEW c \in ConsentRequest, RegisterHumanMatchConsent(c),
           UNCHANGED <<clock, reading>>
    PROVE  DirectoryIndInv'
<1> USE DEF DirectoryIndInv, DirectoryConstantsOK, RegisterHumanMatchConsent
<1>1. DirectoryTypeOK'
  BY Zenon DEF DirectoryTypeOK
<1>2. DirectoryRestores'
  BY DEF DirectoryRestores, RestoreMemoryReachabilityDirectory, CandidateFree, GrantAcceptable
<1>3. CandidateIsUnambiguous'
  <2>1. c \in consents => CandidateIsUnambiguous'
    BY DEF CandidateIsUnambiguous, Withdrawn
  <2>2. ASSUME c \notin consents, NEW d \in consents, SameConsentScope(c, d), ~Withdrawn(d.id),
               NEW t \in 1..MaxClock
        PROVE  ~(Within(t, c) /\ Within(t, d))
    <3>1. ~Overlap(c, d)
      BY Zenon, <2>2 DEF NoOverlap, Withdrawn
    <3>2. c.from \in Nat /\ c.until \in Nat /\ d.from \in Nat /\ d.until \in Nat
      BY Zenon DEF DirectoryTypeOK
    <3> QED
      BY <3>1, <3>2 DEF Overlap, Within
  <2>3. ASSUME c \notin consents PROVE CandidateIsUnambiguous'
    <3>1. \A d, e : SameConsentScope(d, e) => SameConsentScope(e, d)
      BY Zenon DEF SameConsentScope
    <3>2. \A id : Withdrawn(id)' <=> Withdrawn(id)
      BY Zenon DEF Withdrawn
    <3>3. \A d, e \in consents' : d.candidate = e.candidate => d.human = e.human /\ d.requester = e.requester
      BY <2>3 DEF CandidateFree, CandidateIsUnambiguous
    <3>4. ASSUME NEW d \in consents', NEW e \in consents', SameConsentScope(d, e), ~Withdrawn(d.id),
                 ~Withdrawn(e.id), d # e, NEW t \in 1..MaxClock
          PROVE  ~(Within(t, d) /\ Within(t, e))
      BY Zenon, <2>2, <2>3, <3>1, <3>4 DEF CandidateIsUnambiguous
    <3> HIDE DEF RegisterHumanMatchConsent, DirectoryIndInv, DirectoryConstantsOK
    <3> QED
      BY Zenon, <3>2, <3>3, <3>4 DEF CandidateIsUnambiguous
  <2> QED
    BY Zenon, <2>1, <2>3
<1> QED
  BY Zenon, <1>1, <1>2, <1>3

LEMMA WithdrawKeeps ==
    ASSUME DirectoryConstantsOK, DirectoryIndInv, NEW w \in WithdrawalRequest, RevokeHumanMatchConsent(w),
           UNCHANGED <<clock, reading>>
    PROVE  DirectoryIndInv'
<1> USE DEF DirectoryIndInv, RevokeHumanMatchConsent
<1>1. DirectoryTypeOK'
  BY Zenon DEF DirectoryTypeOK
<1>2. DirectoryRestores'
  BY DEF DirectoryRestores, RestoreMemoryReachabilityDirectory, CandidateFree, GrantAcceptable,
         WithdrawalAcceptable, Withdrawn
<1>3. CandidateIsUnambiguous'
  BY DEF CandidateIsUnambiguous, Withdrawn
<1> QED
  BY Zenon, <1>1, <1>2, <1>3

LEMMA IssueKeeps ==
    ASSUME DirectoryConstantsOK, DirectoryIndInv, NEW g \in GrantRequest, IssueHumanReachabilityGrant(g),
           UNCHANGED <<clock, reading>>
    PROVE  DirectoryIndInv'
<1> USE DEF DirectoryIndInv, IssueHumanReachabilityGrant
<1>1. DirectoryTypeOK'
  BY Zenon DEF DirectoryTypeOK
<1>2. g \notin grants => GrantAcceptable(g, g.from, {})
  <2> SUFFICES ASSUME g \notin grants PROVE GrantAcceptable(g, g.from, {})
    BY Zenon
  <2>1. PICK now \in 1..clock : GrantAcceptable(g, now, {w.consent : w \in withdrawals})
    BY Zenon
  <2>2. g.from \in Nat /\ g.until \in Nat /\ clock \in Nat /\ now \in Nat
    BY DEF DirectoryConstantsOK, DirectoryTypeOK
  <2> QED
    BY <2>1, <2>2 DEF GrantAcceptable, WithinConsent, Within
<1>3. DirectoryRestores'
  BY <1>2 DEF DirectoryRestores, RestoreMemoryReachabilityDirectory, CandidateFree, GrantAcceptable
<1>4. CandidateIsUnambiguous'
  BY DEF CandidateIsUnambiguous, Withdrawn
<1> QED
  BY Zenon, <1>1, <1>3, <1>4

LEMMA RevokeKeeps ==
    ASSUME DirectoryConstantsOK, DirectoryIndInv, NEW r \in RevocationRequest, RevokeHumanReachabilityGrant(r),
           UNCHANGED <<clock, reading>>
    PROVE  DirectoryIndInv'
<1> USE DEF DirectoryIndInv, RevokeHumanReachabilityGrant
<1>1. DirectoryTypeOK'
  BY Zenon DEF DirectoryTypeOK
<1>2. DirectoryRestores'
  BY DEF DirectoryRestores, RestoreMemoryReachabilityDirectory, CandidateFree, GrantAcceptable,
         RevocationAcceptable, Revoked
<1>3. CandidateIsUnambiguous'
  BY DEF CandidateIsUnambiguous, Withdrawn
<1> QED
  BY Zenon, <1>1, <1>2, <1>3

\* What neither a read nor the clock changes.
LEMMA DirectoryFrame ==
    ASSUME DirectoryRestores, CandidateIsUnambiguous, UNCHANGED directory
    PROVE  DirectoryRestores' /\ CandidateIsUnambiguous'
<1>1. DirectoryRestores'
  BY DEF directory, DirectoryRestores, RestoreMemoryReachabilityDirectory, CandidateFree, GrantAcceptable
<1>2. CandidateIsUnambiguous'
  BY DEF directory, CandidateIsUnambiguous, Withdrawn
<1> QED
  BY Zenon, <1>1, <1>2

LEMMA ReadKeeps ==
    ASSUME DirectoryConstantsOK, DirectoryIndInv, NEW r \in Reader, DirectoryRead(r)
    PROVE  DirectoryIndInv'
<1> DEFINE Phases == {"NONE", "MATCH", "MATCH_AGAIN", "LOAD", "LOAD_AGAIN", "ANSWERED"}
           Reads == [phase : Phases, now : 0..MaxClock, found : (SUBSET consents) \cup (SUBSET grants)]
<1>1. UNCHANGED <<clock, directory>>
  BY Zenon DEF DirectoryRead, MatchHumansBegin, MatchHumansRecheck, MatchHumansEnd,
               LoadActiveBegin, LoadActiveRecheck, LoadActiveEnd, Look, Recheck, Answer
<1>t. clock \in 0..MaxClock /\ 0 \in 0..MaxClock /\ reading \in [Reader -> Reads]
  BY DEF DirectoryConstantsOK, DirectoryIndInv, DirectoryTypeOK
<1>2. ASSUME NEW read \in Reads, reading' = [reading EXCEPT ![r] = read]
      PROVE  DirectoryTypeOK'
  <2>1. Reads' = Reads
    BY Zenon, <1>1 DEF directory
  <2> HIDE DEF Reads
  <2>2. reading' \in [Reader -> Reads']
    BY Zenon, <1>t, <1>2, <2>1
  <2> QED
    BY Zenon, <1>1, <2>2 DEF DirectoryIndInv, DirectoryTypeOK, directory, Reads
<1>3. ASSUME NEW phase \in Phases, NEW found, found \subseteq consents \/ found \subseteq grants,
             reading' = [reading EXCEPT ![r] = [phase |-> phase, now |-> 0, found |-> found]]
      PROVE  DirectoryTypeOK'
  <2>1. found \in (SUBSET consents) \cup (SUBSET grants)
    BY <1>3, Zenon
  <2>2. [phase |-> phase, now |-> 0, found |-> found] \in Reads
    BY <1>t, <2>1, Zenon
  <2> QED
    BY Zenon, <1>2, <1>3, <2>2
<1>4. ASSUME NEW c \in ConsentRequest, MatchHumansBegin(r, c.requester, c.scope) PROVE DirectoryTypeOK'
  <2>1. PICK now \in 1..clock :
           Look(r, "MATCH", {d \in consents : ConsentLive(d, now) /\ d.requester = c.requester /\ d.scope = c.scope})
    BY Zenon, <1>4 DEF MatchHumansBegin
  <2> DEFINE found == {d \in consents : ConsentLive(d, now) /\ d.requester = c.requester /\ d.scope = c.scope}
  <2>2. found \subseteq consents
    BY Zenon
  <2>3. reading' = [reading EXCEPT ![r] = [phase |-> "MATCH", now |-> 0, found |-> found]]
    BY Zenon, <2>1 DEF Look
  <2> HIDE DEF found
  <2> QED
    BY Zenon, <1>3, <2>2, <2>3
<1>5. ASSUME NEW kind, NEW again \in Phases, Recheck(r, kind, again) PROVE DirectoryTypeOK'
  <2> DEFINE read == [reading[r] EXCEPT !.phase = again, !.now = clock]
  <2>1. read \in Reads
    BY <1>t, Zenon
  <2>2. reading' = [reading EXCEPT ![r] = read]
    BY Zenon, <1>5 DEF Recheck
  <2> HIDE DEF read
  <2> QED
    BY Zenon, <1>2, <2>1, <2>2
<1>6. ASSUME MatchHumansEnd(r) PROVE DirectoryTypeOK'
  <2> DEFINE found == {c \in reading[r].found \cap consents :
                           c.human \in Human \cap Active /\ ConsentLive(c, reading[r].now)}
  <2>1. found \subseteq consents
    BY Zenon
  <2>2. reading' = [reading EXCEPT ![r] = [phase |-> "ANSWERED", now |-> 0, found |-> found]]
    BY Zenon, <1>6 DEF MatchHumansEnd, Answer
  <2> HIDE DEF found
  <2> QED
    BY Zenon, <1>3, <2>1, <2>2
<1>7. ASSUME NEW id, NEW requester, NEW scope, LoadActiveBegin(r, id, requester, scope) PROVE DirectoryTypeOK'
  <2>1. PICK g \in grants : Look(r, "LOAD", {g})
    BY Zenon, <1>7 DEF LoadActiveBegin
  <2>2. reading' = [reading EXCEPT ![r] = [phase |-> "LOAD", now |-> 0, found |-> {g}]]
    BY Zenon, <2>1 DEF Look
  <2> QED
    BY Zenon, <1>3, <2>2
<1>8. ASSUME LoadActiveEnd(r) PROVE DirectoryTypeOK'
  <2> DEFINE found == {g \in reading[r].found \cap grants :
                           g.human \in Human \cap Active /\ GrantStands(g) /\ Within(reading[r].now, g)}
  <2>1. found \subseteq grants
    BY Zenon
  <2>2. reading' = [reading EXCEPT ![r] = [phase |-> "ANSWERED", now |-> 0, found |-> found]]
    BY Zenon, <1>8 DEF LoadActiveEnd, Answer
  <2> HIDE DEF found
  <2> QED
    BY Zenon, <1>3, <2>1, <2>2
<1>9. DirectoryTypeOK'
  BY Zenon, <1>4, <1>5, <1>6, <1>7, <1>8 DEF DirectoryRead, MatchHumansRecheck, LoadActiveRecheck
<1> QED
  BY Zenon, <1>1, <1>9, DirectoryFrame DEF DirectoryIndInv

LEMMA TickKeeps ==
    ASSUME DirectoryIndInv, Tick \/ UNCHANGED reachVars
    PROVE  DirectoryIndInv'
<1>1. DirectoryTypeOK'
  BY Zenon DEF DirectoryIndInv, DirectoryTypeOK, Tick, reachVars, directory
<1>2. UNCHANGED directory
  BY Zenon DEF Tick, reachVars
<1> QED
  BY Zenon, <1>1, <1>2, DirectoryFrame DEF DirectoryIndInv

\* The inductive invariant of the directory: what its restore asks of the consents,
\* grants, withdrawals and revocations, however the calls of its writers, its readers
\* and the steps of its clock are interleaved.
THEOREM DirectoryInvariant == ASSUME DirectoryConstantsOK PROVE DirectorySpec => []DirectoryIndInv
<1>1. DirectoryInit => DirectoryIndInv
  <2> SUFFICES ASSUME DirectoryInit PROVE DirectoryIndInv
    BY Zenon
  <2>1. DirectoryTypeOK
    BY DEF DirectoryInit, DirectoryTypeOK, DirectoryConstantsOK, NoRead
  <2>2. DirectoryRestores /\ CandidateIsUnambiguous
    BY Zenon DEF DirectoryInit, DirectoryRestores, RestoreMemoryReachabilityDirectory, CandidateIsUnambiguous
  <2> QED
    BY Zenon, <2>1, <2>2 DEF DirectoryIndInv
<1>2. DirectoryIndInv /\ [DirectoryNext]_reachVars => DirectoryIndInv'
  <2> SUFFICES ASSUME DirectoryIndInv, [DirectoryNext]_reachVars PROVE DirectoryIndInv'
    BY Zenon
  <2>1. ASSUME DirectoryWrite, UNCHANGED <<clock, reading>> PROVE DirectoryIndInv'
    BY Zenon, <2>1, RegisterKeeps, WithdrawKeeps, IssueKeeps, RevokeKeeps DEF DirectoryWrite
  <2> QED
    BY Zenon, <2>1, ReadKeeps, TickKeeps DEF DirectoryNext
<1> QED
  BY <1>1, <1>2, PTL DEF DirectorySpec

\* RestoreMemoryReachabilityDirectory accepts whatever the directory has let in: the
\* SQLite adapter, which restores at every operation, never locks itself out.
THEOREM DirectoryStaysRestorable == ASSUME DirectoryConstantsOK PROVE DirectorySpec => []DirectoryRestores
<1>1. DirectoryIndInv => DirectoryRestores
  BY Zenon DEF DirectoryIndInv
<1> QED
  BY <1>1, DirectoryInvariant, PTL

\* RegisterHumanMatchConsent keeps a candidate identifier for one Human and one Agent,
\* and never lets two standing consents of one scope hold at one instant.
THEOREM OneConsentAtATime == ASSUME DirectoryConstantsOK PROVE DirectorySpec => []CandidateIsUnambiguous
<1>1. DirectoryIndInv => CandidateIsUnambiguous
  BY Zenon DEF DirectoryIndInv
<1> QED
  BY <1>1, DirectoryInvariant, PTL

\* MatchHumans and LoadActiveHumanReachabilityGrant answer nothing that is withdrawn
\* or revoked when they answer, nor a consent, or a grant of a consent, that had
\* expired at their last reading of the clock.
THEOREM NoStaleAnswer == ASSUME DirectoryConstantsOK PROVE DirectorySpec => NoWithdrawnAnswer
<1>1. DirectoryIndInv /\ [DirectoryNext]_reachVars => [AnsweredWhileStanding]_reachVars
  <2> SUFFICES ASSUME DirectoryIndInv, DirectoryNext, NEW r \in Reader,
                      reading'[r].phase = "ANSWERED", reading[r].phase # "ANSWERED"
               PROVE  /\ reading[r].phase = "MATCH_AGAIN" =>
                          \A c \in reading'[r].found :
                              c.id \notin {w.consent : w \in withdrawals} /\ Within(reading[r].now, c)
                      /\ reading[r].phase = "LOAD_AGAIN" =>
                          \A g \in reading'[r].found :
                              /\ g.id \notin {q.grant : q \in revocations}
                              /\ g.consent \notin {w.consent : w \in withdrawals}
                              /\ \E c \in consents : c.id = g.consent /\ Within(reading[r].now, c)
    BY Zenon DEF AnsweredWhileStanding
  <2>1. reading \in [Reader -> [phase : {"NONE", "MATCH", "MATCH_AGAIN", "LOAD", "LOAD_AGAIN", "ANSWERED"},
                                now : 0..MaxClock,
                                found : (SUBSET consents) \cup (SUBSET grants)]]
    BY Zenon DEF DirectoryIndInv, DirectoryTypeOK
  <2>2. PICK s \in Reader : DirectoryRead(s)
    BY Zenon DEF DirectoryNext, Tick
  <2>3. s = r
    BY Zenon, <2>1, <2>2 DEF DirectoryRead, MatchHumansBegin, MatchHumansRecheck, MatchHumansEnd,
                             LoadActiveBegin, LoadActiveRecheck, LoadActiveEnd, Look, Recheck, Answer
  <2>4. \A phase, found : phase # "ANSWERED" => ~Look(r, phase, found)
    BY <2>1 DEF Look
  <2>5. ~MatchHumansRecheck(r) /\ ~LoadActiveRecheck(r)
    <3>1. \A again : [reading[r] EXCEPT !.phase = again, !.now = clock].phase = again
      BY Zenon, <2>1
    <3> QED
      BY Zenon, <2>1, <3>1 DEF MatchHumansRecheck, LoadActiveRecheck, Recheck
  <2>6. MatchHumansEnd(r) \/ LoadActiveEnd(r)
    BY Zenon, <2>2, <2>3, <2>4, <2>5 DEF DirectoryRead, MatchHumansBegin, LoadActiveBegin
  <2>7. ASSUME MatchHumansEnd(r), NEW c \in reading'[r].found
        PROVE  c.id \notin {w.consent : w \in withdrawals} /\ Within(reading[r].now, c)
    BY Zenon, <2>1, <2>7 DEF MatchHumansEnd, Answer, ConsentLive, Withdrawn
  <2>8. ASSUME LoadActiveEnd(r), NEW g \in reading'[r].found
        PROVE  /\ g.id \notin {q.grant : q \in revocations}
               /\ g.consent \notin {w.consent : w \in withdrawals}
               /\ \E c \in consents : c.id = g.consent /\ Within(reading[r].now, c)
    <3>1. g \in grants /\ GrantStands(g) /\ Within(reading[r].now, g)
      BY Zenon, <2>1, <2>8 DEF LoadActiveEnd, Answer
    <3>2. PICK c \in consents : c.id = g.consent /\ WithinConsent(g, c)
      BY Zenon, <3>1 DEF DirectoryIndInv, DirectoryRestores, RestoreMemoryReachabilityDirectory, GrantAcceptable
    <3>3. /\ g.from \in Nat /\ g.until \in Nat /\ c.from \in Nat /\ c.until \in Nat
      BY <3>1 DEF DirectoryConstantsOK, DirectoryIndInv, DirectoryTypeOK
    <3>4. reading[r].now \in Nat
      BY <2>1 DEF DirectoryConstantsOK
    <3>5. Within(reading[r].now, c)
      BY <3>1, <3>2, <3>3, <3>4 DEF Within, WithinConsent
    <3> QED
      BY Zenon, <3>1, <3>2, <3>5 DEF GrantStands, Revoked, Withdrawn
  <2>9. (MatchHumansEnd(r) => reading[r].phase = "MATCH_AGAIN") /\ (LoadActiveEnd(r) => reading[r].phase = "LOAD_AGAIN")
    BY Zenon DEF MatchHumansEnd, LoadActiveEnd
  <2> QED
    BY Zenon, <2>6, <2>7, <2>8, <2>9
<1> QED
  BY <1>1, DirectoryInvariant, PTL DEF DirectorySpec, NoWithdrawnAnswer
-----------------------------------------------------------------------------
(* The relay. *)

Told(e) == Last(e).status

\* The events a record may have.
History == {e \in Seq(Events) : Len(e) \in 1..3 /\ ValidEvents(e)}

LEMMA FirstEvent ==
    ASSUME MaxClock \in Nat, NEW t \in 1..MaxClock
    PROVE  LET e == <<[status |-> "QUEUED", at |-> t]>> IN e \in History /\ Told(e) = "QUEUED"
<1> DEFINE first == [status |-> "QUEUED", at |-> t]
           e == <<first>>
<1>1. first \in Events /\ first.status = "QUEUED"
  BY Zenon DEF Events
<1> HIDE DEF first
<1>2. e \in Seq(Events) /\ Len(e) = 1 /\ e[1] = first
  BY <1>1
<1> QED
  BY <1>1, <1>2 DEF History, ValidEvents, Told, Last, first

\* Where the events of a record stand is told by the last of them.
LEMMA HistoryLength ==
    ASSUME MaxClock \in Nat, NEW e \in History
    PROVE  /\ e \in Seq(Events) /\ Len(e) \in 1..3
           /\ Told(e) = "QUEUED" => Len(e) = 1 /\ Head(e) = Last(e)
           /\ Told(e) = "DISPATCHING" => Len(e) = 2
           /\ Last(e) \in Events
<1>1. e \in Seq(Events) /\ Len(e) \in 1..3 /\ ValidEvents(e)
  BY Zenon DEF History
<1>2. Last(e) \in Events /\ (Len(e) = 1 => Head(e) = Last(e))
  BY <1>1 DEF Last
<1>3. CASE Len(e) = 1
  <2>1. Told(e) = "QUEUED"
    BY Zenon, <1>1, <1>3 DEF ValidEvents, Told, Last
  <2> QED
    BY Zenon, <1>1, <1>2, <1>3, <2>1
<1>4. CASE Len(e) = 2
  <2>1. e[2].status \in {"DISPATCHING", "CANCELED", "PROVIDER_ACKNOWLEDGED"}
    BY <1>1, <1>4 DEF ValidEvents
  <2> QED
    BY Zenon, <1>1, <1>2, <1>4, <2>1 DEF Told, Last
<1>5. CASE Len(e) = 3
  <2>1. 2 \in 2..Len(e) /\ 3 \in 2..Len(e) /\ 2 - 1 = 1 /\ 3 - 1 = 2
    BY <1>5
  <2>2. e[2].status # "QUEUED" /\ (e[2].status = "DISPATCHING" => e[3].status = "PROVIDER_ACKNOWLEDGED")
    BY Zenon, <1>1, <2>1 DEF ValidEvents
  <2>3. e[3].status = "PROVIDER_ACKNOWLEDGED"
    BY Zenon, <1>1, <2>1, <2>2 DEF ValidEvents
  <2> QED
    BY Zenon, <1>1, <1>2, <1>5, <2>3 DEF Told, Last
<1> QED
  BY <1>1, <1>3, <1>4, <1>5

\* One more event, in time and in its turn.
LEMMA NextEvent ==
    ASSUME MaxClock \in Nat, NEW e \in History, NEW event \in Events, Last(e).at <= event.at,
           \/ Told(e) = "QUEUED" /\ event.status \in {"DISPATCHING", "CANCELED"}
           \/ Told(e) = "DISPATCHING" /\ event.status = "PROVIDER_ACKNOWLEDGED"
    PROVE  Append(e, event) \in History /\ Told(Append(e, event)) = event.status
<1> DEFINE f == Append(e, event)
<1>1. e \in Seq(Events) /\ Len(e) \in 1..2 /\ ValidEvents(e)
  BY HistoryLength DEF History
<1>2. /\ f \in Seq(Events) /\ Len(f) = Len(e) + 1 /\ f[Len(e) + 1] = event
      /\ \A n \in 1..Len(e) : f[n] = e[n]
  BY <1>1
<1> HIDE DEF f
<1>3. ValidEvents(f)
  <2>1. f[1].status = "QUEUED"
    BY <1>1, <1>2 DEF ValidEvents
  <2>2. ASSUME NEW n \in 2..Len(f)
        PROVE  /\ f[n - 1].at <= f[n].at
               /\ \/ f[n - 1].status = "QUEUED" /\ f[n].status \in {"DISPATCHING", "CANCELED"}
                  \/ f[n - 1].status = "DISPATCHING" /\ f[n].status = "PROVIDER_ACKNOWLEDGED"
    <3>1. CASE n \in 2..Len(e)
      <4>1. f[n] = e[n] /\ f[n - 1] = e[n - 1]
        BY <1>1, <1>2, <3>1
      <4> QED
        BY <1>1, <3>1, <4>1 DEF ValidEvents
    <3>2. CASE n = Len(e) + 1
      <4>1. f[n] = event /\ f[n - 1] = Last(e)
        BY <1>1, <1>2, <3>2 DEF Last
      <4> QED
        BY Zenon, <4>1 DEF Told
    <3> QED
      BY <1>1, <1>2, <3>1, <3>2
  <2> QED
    BY Zenon, <2>1, <2>2 DEF ValidEvents
<1>4. Len(f) \in 1..3 /\ Told(f) = event.status
  BY <1>1, <1>2 DEF Told, Last
<1> QED
  BY Zenon, <1>2, <1>3, <1>4 DEF History, f
-----------------------------------------------------------------------------
(* The contents of the store. *)

Loadable(s) == s \in Contents /\ ValidateRelayState(s)

\* A record that the intent i may have.
RecordOf(i) == {r \in RelayRecord : r.request.intent = i /\ r.events \in History}

LEMMA RecordsAreRecords ==
    ASSUME ConstantsOK, NEW s, Loadable(s), NEW i \in Intent
    PROVE  /\ s[i] # NoRecord => s[i] \in RecordOf(i)
           /\ NoRecord \notin RecordOf(i)
<1>1. ASSUME s[i] # NoRecord PROVE s[i] \in RecordOf(i)
  <2>1. s[i] \in RelayRecord /\ s[i].request.intent = i /\ Len(s[i].events) \in 1..3
    BY <1>1 DEF Loadable, Contents
  <2>2. ValidEvents(s[i].events)
    BY Zenon, <1>1 DEF Loadable, ValidateRelayState
  <2>3. s[i].events \in Seq(Events)
    BY Zenon, <2>1 DEF RelayRecord
  <2> QED
    BY Zenon, <2>1, <2>2, <2>3 DEF RecordOf, History
<1>2. NoRecord.request = [intent |-> Nobody]
  BY Zenon DEF NoRecord, NoRequest
<1>3. NoRecord \notin RelayRecord
  BY Zenon, <1>2 DEF RelayRecord, ConstantsOK
<1> QED
  BY Zenon, <1>1, <1>3 DEF RecordOf

\* A record put into a content whose other records have other grants.
LEMMA PutIsLoadable ==
    ASSUME ConstantsOK, NEW s, Loadable(s), NEW i \in Intent, NEW record \in RecordOf(i),
           \A j \in Intent \ {i} : s[j] # NoRecord => s[j].request.grant # record.request.grant
    PROVE  Loadable([s EXCEPT ![i] = record]) /\ record # NoRecord
<1> DEFINE t == [s EXCEPT ![i] = record]
<1>1. record \in RelayRecord /\ record.request.intent = i /\ record.events \in History /\ record # NoRecord
  BY Zenon, RecordsAreRecords DEF RecordOf
<1>2. /\ t \in [Intent -> RelayRecord \cup {NoRecord}] /\ t[i] = record
      /\ \A j \in Intent \ {i} : t[j] = s[j]
  BY Zenon, <1>1 DEF Loadable, Contents
<1> HIDE DEF t
<1>3. t \in Contents
  BY Zenon, <1>1, <1>2 DEF Loadable, Contents, History
<1>4. ValidateRelayState(t)
  <2> SUFFICES ASSUME NEW k \in Intent, t[k] # NoRecord
               PROVE  /\ \A j \in Intent : j # k /\ t[j] # NoRecord => t[j].request.grant # t[k].request.grant
                      /\ ValidEvents(t[k].events)
    BY Zenon DEF ValidateRelayState
  <2>1. CASE k = i
    BY <1>1, <1>2, <2>1 DEF History
  <2>2. CASE k # i
    BY <1>2, <2>2 DEF Loadable, ValidateRelayState
  <2> QED
    BY Zenon, <2>1, <2>2
<1> QED
  BY Zenon, <1>1, <1>3, <1>4 DEF Loadable, t

\* The record of an intent with one more event.
LEMMA AppendedRecord ==
    ASSUME ConstantsOK, NEW i \in Intent, NEW r \in RecordOf(i), NEW status, NEW t \in 1..MaxClock,
           Last(r.events).at <= t,
           \/ Told(r.events) = "QUEUED" /\ status \in {"DISPATCHING", "CANCELED"}
           \/ Told(r.events) = "DISPATCHING" /\ status = "PROVIDER_ACKNOWLEDGED"
    PROVE  LET record == [r EXCEPT !.events = Append(@, [status |-> status, at |-> t])] IN
           /\ record \in RecordOf(i) /\ Told(record.events) = status
           /\ record.request = r.request /\ record.session = r.session
<1> DEFINE event == [status |-> status, at |-> t]
<1>1. event \in Events /\ event.status = status /\ event.at = t
  BY Zenon DEF Events
<1> HIDE DEF event
<1>2. r \in RelayRecord /\ r.events \in History /\ r.request.intent = i
  BY Zenon DEF RecordOf
<1> DEFINE e == Append(r.events, event)
<1>3. e \in History /\ Told(e) = status
  BY Zenon, <1>1, <1>2, NextEvent DEF ConstantsOK
<1>4. e \in Seq(Events)
  BY Zenon, <1>3 DEF History
<1> HIDE DEF e
<1> DEFINE record == [r EXCEPT !.events = e]
<1>5. record \in RelayRecord /\ record.events = e /\ record.request = r.request /\ record.session = r.session
  BY Zenon, <1>2, <1>4 DEF RelayRecord
<1> HIDE DEF record
<1>6. record \in RecordOf(i) /\ Told(record.events) = status
  BY Zenon, <1>2, <1>3, <1>5 DEF RecordOf
<1> QED
  BY Zenon, <1>5, <1>6 DEF record, e, event
-----------------------------------------------------------------------------
(* Steps of one process that leave the store and the provider alone. *)

\* A lock is left alone, taken or released by p.
Moves(before, after, p) == after = before \/ {before, after} \subseteq {p, Nobody}

LEMMA LocksKeep ==
    ASSUME ConstantsOK, NEW p \in Process,
           guard \in Process \cup {Nobody}, lock \in Process \cup {Nobody},
           Moves(guard, guard', p), Moves(lock, lock', p),
           \A q \in Process : HoldsLocks(q),
           \A q \in Process \ {p} : op'[q] = op[q],
           HoldsLocks(p)'
    PROVE  /\ \A q \in Process : HoldsLocks(q)'
           /\ {guard, lock}' \subseteq Process \cup {Nobody}
           /\ \A holder \in {guard', lock'} \ {Nobody} : op'[holder].at # "IDLE"
<1>1. \A q \in Process \ {p} : HoldsLocks(q)'
  BY DEF HoldsLocks, Moves, ConstantsOK
<1>2. {guard', lock'} \subseteq Process \cup {Nobody}
  BY DEF Moves
<1>3. \A q \in Process : q \in {guard', lock'} => op'[q].at # "IDLE"
  BY Zenon, <1>1 DEF HoldsLocks
<1> QED
  BY Zenon, <1>1, <1>2, <1>3

LEMMA SameStore ==
    ASSUME UNCHANGED <<reachVars, store, provider>>
    PROVE  /\ Found' = Found
           /\ \A q \in Process : op'[q] = op[q] /\ OnCourse(q) => OnCourse(q)'
           /\ SurvivorsAreOlder => SurvivorsAreOlder'
           /\ \A q : AnswersRetry(q)' = AnswersRetry(q)
           /\ AttemptIsRecorded => AttemptIsRecorded'
           /\ StoreIsLoadable => StoreIsLoadable'
           /\ GrantsAreSound => GrantsAreSound'
           /\ DirectoryTypeOK => DirectoryTypeOK'
<1> USE DEF reachVars, directory, store, provider
<1>1. Found' = Found
  BY Zenon DEF Found
<1>2. \A i : Recorded(i)' = Recorded(i) /\ Status(i)' = Status(i) /\ Cleared(i)' = Cleared(i)
  BY Zenon DEF Recorded, Status, Cleared, GrantStands, Revoked, Withdrawn
<1>3. \A q : AnswersRetry(q)' = AnswersRetry(q)
  BY Zenon DEF AnswersRetry, Recorded
<1>4. \A q \in Process : op'[q] = op[q] /\ OnCourse(q) => OnCourse(q)'
  BY SMTT(30), <1>1, <1>2, <1>3 DEF OnCourse
<1>5. SurvivorsAreOlder => SurvivorsAreOlder'
  BY Zenon, <1>2 DEF SurvivorsAreOlder
<1>6. (AttemptIsRecorded => AttemptIsRecorded') /\ (StoreIsLoadable => StoreIsLoadable')
  BY Zenon, <1>1 DEF AttemptIsRecorded, StoreIsLoadable
<1>7. (GrantsAreSound => GrantsAreSound') /\ (DirectoryTypeOK => DirectoryTypeOK')
  BY Zenon DEF GrantsAreSound, DirectoryTypeOK
<1> QED
  BY Zenon, <1>1, <1>3, <1>4, <1>5, <1>6, <1>7

\* What a receipt is when it is given: of the record, and from the newest content only
\* when no other may be left.
Receipts == [request : RelayRequest, file : {"SYNCED", "UNSYNCED"}]
Backed(r) == AnswersRetry(r.request) /\ (r.file = "SYNCED" => Found = {records})

LEMMA ReceiptIsBacked ==
    ASSUME NEW q \in RelayRequest, AnswersRetry(q)'
    PROVE  Receipt(q) \in {r \in Receipts : Backed(r)'}
<1>1. PICK r : r = Receipt(q)
  BY Zenon
<1>2. r \in Receipts /\ r.request = q
  BY Zenon, <1>1 DEF Receipt, Receipts
<1>3. r.file = "SYNCED" => (FileBacked => survivors' = {records'})
  BY <1>1 DEF Receipt
<1>4. Backed(r)'
  BY Zenon, <1>2, <1>3 DEF Backed, Found
<1> QED
  BY Zenon, <1>1, <1>2, <1>4

LEMMA ReceiptsKeep ==
    ASSUME TypeOK, receipts' \subseteq receipts \cup {r \in Receipts : Backed(r)'},
           \A r \in receipts : /\ AnswersRetry(r.request)'
                               /\ r.file = "SYNCED" => \A s \in Found' : s[r.request.intent] # NoRecord
    PROVE  receipts' \subseteq Receipts /\ ReceiptIsKept' /\ ReceiptIsDurable'
<1>1. \A r \in receipts' : r \in Receipts /\ AnswersRetry(r.request)'
  BY Zenon DEF TypeOK, Receipts, Backed
<1>2. ASSUME NEW r \in receipts', r.file = "SYNCED", NEW s \in Found' PROVE s[r.request.intent] # NoRecord
  <2>1. CASE r \in receipts
    BY Zenon, <1>2, <2>1
  <2>2. CASE Backed(r)'
    BY Zenon, <1>2, <2>2 DEF Backed, AnswersRetry, Recorded
  <2> QED
    BY Zenon, <2>1, <2>2
<1> QED
  BY Zenon, <1>1, <1>2 DEF ReceiptIsKept, ReceiptIsDurable

LEMMA QuietKeeps ==
    ASSUME ConstantsOK, IndInv, NEW p \in Process,
           UNCHANGED <<reachVars, store, provider>>,
           op' \in [Process -> Operation], \A q \in Process \ {p} : op'[q] = op[q],
           Moves(guard, guard', p), Moves(lock, lock', p),
           HoldsLocks(p)', OnCourse(p)',
           receipts' \subseteq receipts \cup {r \in Receipts : Backed(r)'},
           blocked' \subseteq Process, failures' \in 0..MaxFailures
    PROVE  IndInv'
<1>1. /\ \A q \in Process : HoldsLocks(q)'
      /\ {guard, lock}' \subseteq Process \cup {Nobody}
      /\ \A holder \in {guard', lock'} \ {Nobody} : op'[holder].at # "IDLE"
  BY Zenon, LocksKeep DEF IndInv, TypeOK
<1>2. receipts' \subseteq Receipts /\ ReceiptIsKept' /\ ReceiptIsDurable'
  <2>1. \A r \in receipts : /\ AnswersRetry(r.request)'
                            /\ r.file = "SYNCED" => \A s \in Found' : s[r.request.intent] # NoRecord
    BY Zenon, SameStore DEF IndInv, ReceiptIsKept, ReceiptIsDurable
  <2> QED
    BY Zenon, <2>1, ReceiptsKeep DEF IndInv
<1>3. TypeOK'
  <2>1. DirectoryTypeOK'
    BY Zenon, SameStore DEF IndInv, TypeOK
  <2>2. records' = records /\ survivors' = survivors /\ attempts' = attempts /\ accepted' = accepted
    BY Zenon DEF store, provider
  <2> QED
    BY Zenon, <1>1, <1>2, <2>1, <2>2 DEF IndInv, TypeOK, Receipts
<1>4. \A q \in Process : OnCourse(q)'
  BY Zenon, SameStore DEF IndInv
<1>5. GrantsAreSound' /\ SurvivorsAreOlder' /\ AttemptIsRecorded' /\ StoreIsLoadable'
  BY Zenon, SameStore DEF IndInv
<1>6. \A i \in Intent : attempts'[i] <= 1 /\ (i \in accepted' => attempts'[i] = 1)
  BY Zenon DEF provider, IndInv
<1> QED
  BY Zenon, <1>1, <1>2, <1>3, <1>4, <1>5, <1>6 DEF IndInv

\* An operation that ends, with what it may have answered.
LEMMA ReturnKeeps ==
    ASSUME ConstantsOK, IndInv, NEW p \in Process, Return(p),
           UNCHANGED <<reachVars, store, provider>>,
           receipts' \subseteq receipts \cup {r \in Receipts : Backed(r)'},
           blocked' \subseteq Process, failures' \in 0..MaxFailures
    PROVE  IndInv'
<1>1. op' \in [Process -> Operation] /\ op'[p] = Idle /\ \A q \in Process \ {p} : op'[q] = op[q]
  <2>1. Idle \in Operation
    BY DEF Idle, Operation, NoRequest, ConstantsOK
  <2> QED
    BY Zenon, <2>1 DEF Return, IndInv, TypeOK
<1>2. Moves(guard, guard', p) /\ Moves(lock, lock', p) /\ p \notin {guard', lock'}
  BY Zenon DEF Return, Free, Moves, ConstantsOK
<1>3. HoldsLocks(p)' /\ OnCourse(p)'
  BY <1>1, <1>2 DEF HoldsLocks, OnCourse, Idle
<1> QED
  BY Zenon, <1>1, <1>2, <1>3, QuietKeeps

LEMMA QueueBeginKeeps ==
    ASSUME ConstantsOK, IndInv, NEW p \in Process, NEW q \in RelayRequest, QueueBegin(p, q)
    PROVE  IndInv'
<1> DEFINE begun == [at |-> "QUEUE", request |-> q, time |-> clock]
<1>1. begun \in Operation /\ begun.at = "QUEUE" /\ begun.request = q /\ begun.time # 0
  BY DEF Operation, IndInv, TypeOK, DirectoryTypeOK, ConstantsOK
<1>2. op' = [op EXCEPT ![p] = begun]
  BY Zenon DEF QueueBegin
<1> HIDE DEF begun
<1>3. op' \in [Process -> Operation] /\ op'[p] = begun /\ \A r \in Process \ {p} : op'[r] = op[r]
  BY Zenon, <1>1, <1>2 DEF IndInv, TypeOK
<1>4. guard' = guard /\ lock' = lock /\ op[p].at = "IDLE"
  BY Zenon DEF QueueBegin, locks, At
<1>5. p \notin {guard, lock}
  BY Zenon, <1>4 DEF IndInv, HoldsLocks
<1>6. HoldsLocks(p)' /\ OnCourse(p)'
  BY Zenon, <1>1, <1>3, <1>4, <1>5 DEF HoldsLocks, OnCourse
<1>7. UNCHANGED <<reachVars, store, provider>> /\ receipts' = receipts /\ blocked' = blocked /\ failures' = failures
  BY Zenon DEF QueueBegin
<1> QED
  BY Zenon, <1>3, <1>4, <1>6, <1>7, QuietKeeps DEF Moves, IndInv, TypeOK

LEMMA DispatchBeginKeeps ==
    ASSUME ConstantsOK, IndInv, NEW p \in Process, NEW i \in Intent, DispatchBegin(p, i)
    PROVE  IndInv'
<1> DEFINE begun == [at |-> "DISPATCH", request |-> [intent |-> i], time |-> 0]
<1>2. begun \in Operation /\ begun.at = "DISPATCH" /\ begun.request = [intent |-> i]
  BY DEF Operation, ConstantsOK
<1>3. op' = [op EXCEPT ![p] = begun]
  BY Zenon DEF DispatchBegin
<1> HIDE DEF begun
<1>4. op' \in [Process -> Operation] /\ op'[p] = begun /\ \A r \in Process \ {p} : op'[r] = op[r]
  BY Zenon, <1>2, <1>3 DEF IndInv, TypeOK
<1>5. /\ guard' = guard /\ lock = Nobody /\ lock' = IF FileBacked THEN p ELSE Nobody
      /\ op[p].at = "IDLE" /\ Recorded(i)
  BY Zenon DEF DispatchBegin, EnterStore, MayEnter, At
<1>6. p # guard
  BY Zenon, <1>5 DEF IndInv, HoldsLocks
<1>7. UNCHANGED <<reachVars, store, provider>> /\ receipts' = receipts /\ blocked' = blocked /\ failures' = failures
  BY Zenon DEF DispatchBegin
<1>8. HoldsLocks(p)'
  BY Zenon, <1>2, <1>4, <1>5, <1>6 DEF HoldsLocks, ConstantsOK
<1>9. Recorded(i)' /\ [intent |-> i].intent = i
  BY Zenon, <1>5, <1>7 DEF Recorded, store
<1>10. OnCourse(p)'
  BY Zenon, <1>2, <1>4, <1>9 DEF OnCourse
<1>11. Moves(guard, guard', p) /\ Moves(lock, lock', p)
  BY Zenon, <1>5 DEF Moves
<1> QED
  BY Zenon, <1>4, <1>7, <1>8, <1>10, <1>11, QuietKeeps DEF IndInv, TypeOK

LEMMA GotoMoves ==
    ASSUME NEW p \in Process, op \in [Process -> Operation],
           NEW where \in {"QUEUE_COMMIT", "CALL", "ACK", "CANCEL", "SYNC", "SYNC_CALL"},
           op' = [op EXCEPT ![p].at = where]
    PROVE  /\ op' \in [Process -> Operation]
           /\ op'[p].at = where /\ op'[p].request = op[p].request /\ op'[p].time = op[p].time
           /\ \A q \in Process \ {p} : op'[q] = op[q]
<1>1. op[p] \in Operation
  BY Zenon
<1>2. [op[p] EXCEPT !.at = where] \in Operation
  BY Zenon, <1>1 DEF Operation
<1> QED
  BY Zenon, <1>2 DEF Operation

LEMMA QueueLookKeeps ==
    ASSUME ConstantsOK, IndInv, NEW p \in Process, QueueLook(p)
    PROVE  IndInv'
<1> DEFINE q == op[p].request
<1>1. /\ UNCHANGED <<reachVars, store, provider>>
      /\ blocked' \subseteq Process /\ failures' \in 0..MaxFailures
      /\ op[p].at = "QUEUE" /\ op \in [Process -> Operation]
  BY Zenon DEF QueueLook, At, IndInv, TypeOK
<1>2. q \in RelayRequest /\ op[p].time # 0 /\ p \notin {guard, lock}
  BY Zenon, <1>1 DEF IndInv, OnCourse, HoldsLocks
<1>3. CASE Return(p) /\ receipts' = receipts
  BY Zenon, <1>1, <1>3, ReturnKeeps
<1>4. CASE Return(p) /\ AnswersRetry(q) /\ receipts' = receipts \cup {Receipt(q)}
  <2>1. PICK asked \in RelayRequest : asked = q
    BY Zenon, <1>2
  <2>2. AnswersRetry(asked)'
    BY Zenon, <1>1, <1>4, <2>1, SameStore
  <2>3. receipts' \subseteq receipts \cup {r \in Receipts : Backed(r)'}
    BY Zenon, <1>4, <2>1, <2>2, ReceiptIsBacked
  <2> QED
    BY Zenon, <1>1, <1>4, <2>3, ReturnKeeps
<1>5. CASE EnterStore(p) /\ Goto(p, "QUEUE_COMMIT") /\ guard' = guard /\ receipts' = receipts
  <2>1. /\ op' \in [Process -> Operation] /\ op'[p].at = "QUEUE_COMMIT" /\ op'[p].request = q
        /\ op'[p].time = op[p].time /\ \A r \in Process \ {p} : op'[r] = op[r]
    BY Zenon, <1>1, <1>5, GotoMoves DEF Goto
  <2>2. lock = Nobody /\ lock' = IF FileBacked THEN p ELSE Nobody
    BY Zenon, <1>5 DEF EnterStore, MayEnter
  <2>3. HoldsLocks(p)'
    BY Zenon, <1>2, <1>5, <2>1, <2>2 DEF HoldsLocks, ConstantsOK
  <2>4. OnCourse(p)'
    BY Zenon, <1>2, <2>1 DEF OnCourse
  <2>5. Moves(guard, guard', p) /\ Moves(lock, lock', p)
    BY Zenon, <1>5, <2>2 DEF Moves
  <2> QED
    BY Zenon, <1>1, <1>5, <2>1, <2>3, <2>4, <2>5, QuietKeeps
<1> QED
  BY Zenon, <1>3, <1>4, <1>5 DEF QueueLook

LEMMA FailKeeps ==
    ASSUME ConstantsOK, IndInv, NEW p \in Process, Fail(p) \/ Crash(p)
    PROVE  IndInv'
<1>1. UNCHANGED <<reachVars, store, provider>> /\ Return(p) /\ receipts' = receipts
  BY Zenon DEF Fail, Crash
<1>2. blocked' \subseteq Process /\ failures' \in 0..MaxFailures
  BY DEF Fail, Crash, IndInv, TypeOK, ConstantsOK
<1> QED
  BY Zenon, <1>1, <1>2, ReturnKeeps

LEMMA ReopenKeeps ==
    ASSUME ConstantsOK, IndInv, NEW p \in Process, Reopen(p)
    PROVE  IndInv'
<1>1. UNCHANGED <<reachVars, store, provider>> /\ op' = op /\ receipts' = receipts /\ failures' = failures
  BY Zenon DEF Reopen
<1>2. guard' = guard /\ lock' = lock /\ blocked' \subseteq Process
  BY Zenon DEF Reopen, locks, IndInv, TypeOK
<1>3. HoldsLocks(p)'
  BY Zenon, <1>1, <1>2 DEF HoldsLocks, IndInv
<1>4. OnCourse(p)'
  BY Zenon, <1>1, SameStore DEF IndInv
<1> QED
  BY Zenon, <1>1, <1>2, <1>3, <1>4, QuietKeeps DEF Moves, IndInv, TypeOK
-----------------------------------------------------------------------------
(* Steps that commit a record. *)

LEMMA FoundIsLoadable ==
    ASSUME IndInv
    PROVE  records \in Found /\ \A s \in Found : Loadable(s)
BY Zenon DEF IndInv, TypeOK, SurvivorsAreOlder, Found, StoreIsLoadable, Loadable

\* Where the operation goes when its record is committed.
LEMMA CommitMoves ==
    ASSUME ConstantsOK, NEW p \in Process, NEW i, NEW record, NEW then \in {"IDLE", "CALL"},
           op \in [Process -> Operation], CommitRecord(p, i, record, then)
    PROVE  /\ op' \in [Process -> Operation] /\ \A q \in Process \ {p} : op'[q] = op[q]
           /\ FileBacked => op'[p].at = Sync(then)
           /\ ~FileBacked => op'[p].at = then /\ (then = "IDLE" => op'[p] = Idle)
           /\ FileBacked \/ then = "CALL" => op'[p].request = op[p].request
<1>1. CASE FileBacked
  BY Zenon, <1>1, GotoMoves DEF CommitRecord, Sync
<1>2. CASE ~FileBacked /\ then = "CALL"
  <2>1. op' = [op EXCEPT ![p] = [op[p] EXCEPT !.at = "CALL"]]
    BY Zenon, <1>2 DEF CommitRecord
  <2>2. op[p] \in Operation
    BY Zenon
  <2>3. [op[p] EXCEPT !.at = "CALL"] \in Operation
    BY Zenon, <2>2 DEF Operation
  <2>4. [op[p] EXCEPT !.at = "CALL"].at = "CALL" /\ [op[p] EXCEPT !.at = "CALL"].request = op[p].request
    BY Zenon, <2>2 DEF Operation
  <2> QED
    BY Zenon, <1>2, <2>1, <2>3, <2>4
<1>3. CASE ~FileBacked /\ then = "IDLE"
  <2>1. op' = [op EXCEPT ![p] = Idle]
    BY Zenon, <1>3 DEF CommitRecord
  <2>2. Idle \in Operation /\ Idle.at = "IDLE"
    BY DEF Idle, Operation, NoRequest, ConstantsOK
  <2> QED
    BY Zenon, <1>3, <2>1, <2>2
<1> QED
  BY Zenon, <1>1, <1>2, <1>3

\* What the store holds afterwards.
LEMMA CommitStores ==
    ASSUME ConstantsOK, IndInv, NEW p \in Process, NEW i \in Intent, NEW record \in RecordOf(i),
           NEW then \in {"IDLE", "CALL"}, CommitRecord(p, i, record, then),
           Recorded(i) => record.request = records[i].request,
           ~Recorded(i) => GrantUnused(record.request)
    PROVE  /\ records'[i] = record /\ record # NoRecord
           /\ \A j \in Intent \ {i} : records'[j] = records[j]
           /\ \A s \in Found' : s \in Found \/ s = records'
           /\ Loadable(records') /\ StatusIn(records', i) = Told(record.events)
           /\ \A j \in Intent \ {i} : StatusIn(records', j) = StatusIn(records, j)
<1>1. Loadable(records)
  BY Zenon, FoundIsLoadable
<1>2. \A j \in Intent \ {i} : records[j] # NoRecord => records[j].request.grant # record.request.grant
  BY Zenon, <1>1 DEF Loadable, ValidateRelayState, Recorded, GrantUnused
<1>3. records' = [records EXCEPT ![i] = record]
  BY Zenon DEF CommitRecord
<1>4. \A s \in Found' : s \in Found \/ s = records'
  BY Zenon DEF CommitRecord, Found
<1>5. Loadable(records') /\ record # NoRecord
  BY Zenon, <1>1, <1>2, <1>3, PutIsLoadable
<1>6. records'[i] = record /\ \A j \in Intent \ {i} : records'[j] = records[j]
  BY Zenon, <1>1, <1>3 DEF Loadable, Contents
<1>7. /\ StatusIn(records', i) = Told(record.events)
      /\ \A j \in Intent \ {i} : StatusIn(records', j) = StatusIn(records, j)
  BY Zenon, <1>5, <1>6 DEF StatusIn, Told
<1> QED
  BY Zenon, <1>4, <1>5, <1>6, <1>7

\* A commit keeps the invariant when its record and its own operation do.
LEMMA CommitKeeps ==
    ASSUME ConstantsOK, IndInv, NEW p \in Process, NEW i \in Intent, NEW record \in RecordOf(i),
           NEW then \in {"IDLE", "CALL"}, CommitRecord(p, i, record, then),
           UNCHANGED <<reachVars, provider, failures>>,
           Recorded(i) => record.request = records[i].request,
           ~Recorded(i) => GrantUnused(record.request),
           attempts[i] > 0 => Told(record.events) \in {"DISPATCHING", "PROVIDER_ACKNOWLEDGED"},
           Told(record.events) = "PROVIDER_ACKNOWLEDGED" => attempts[i] > 0 /\ i \in accepted,
           lock \in {p, Nobody}, Moves(guard, guard', p), Moves(lock, lock', p),
           HoldsLocks(p)', OnCourse(p)',
           receipts' \subseteq receipts \cup {r \in Receipts : Backed(r)'}
    PROVE  IndInv'
<1>1. op \in [Process -> Operation] /\ op' \in [Process -> Operation] /\ \A q \in Process \ {p} : op'[q] = op[q]
  <2>1. op \in [Process -> Operation]
    BY Zenon DEF IndInv, TypeOK
  <2> QED
    BY Zenon, <2>1, CommitMoves
<1>2. /\ records'[i] = record /\ record # NoRecord
      /\ \A j \in Intent \ {i} : records'[j] = records[j]
      /\ \A s \in Found' : s \in Found \/ s = records'
      /\ Loadable(records') /\ StatusIn(records', i) = Told(record.events)
      /\ \A j \in Intent \ {i} : StatusIn(records', j) = StatusIn(records, j)
  <2>1. records'[i] = record /\ record # NoRecord
    BY SMTT(30), CommitStores
  <2>2. \A j \in Intent \ {i} : records'[j] = records[j]
    BY SMTT(30), CommitStores
  <2>3. \A s \in Found' : s \in Found \/ s = records'
    BY SMTT(30), CommitStores
  <2>4. Loadable(records') /\ StatusIn(records', i) = Told(record.events)
    BY SMTT(30), CommitStores
  <2>5. \A j \in Intent \ {i} : StatusIn(records', j) = StatusIn(records, j)
    BY SMTT(30), CommitStores
  <2> QED
    BY Zenon, <2>1, <2>2, <2>3, <2>4, <2>5
<1>3. records \in Found /\ \A s \in Found : Loadable(s)
  BY Zenon, FoundIsLoadable
<1>4. clock' = clock /\ attempts' = attempts /\ accepted' = accepted /\ failures' = failures
  BY Zenon DEF reachVars, provider
<1>5. \A j \in Intent : Recorded(j) => Recorded(j)' /\ records'[j].request = records[j].request
  BY Zenon, <1>2 DEF Recorded
<1>6. \A q : q.intent \in Intent /\ AnswersRetry(q) => AnswersRetry(q)'
  BY Zenon, <1>5 DEF AnswersRetry
<1>7. StoreIsLoadable'
  BY Zenon, <1>2, <1>3 DEF StoreIsLoadable, Loadable
<1>8. AttemptIsRecorded'
  <2>1. \A s \in Found, j \in Intent :
           /\ attempts[j] > 0 => StatusIn(s, j) \in {"DISPATCHING", "PROVIDER_ACKNOWLEDGED"}
           /\ StatusIn(s, j) = "PROVIDER_ACKNOWLEDGED" => attempts[j] > 0 /\ j \in accepted
    BY Zenon DEF IndInv, AttemptIsRecorded
  <2>2. \A j \in Intent :
           /\ attempts[j] > 0 => StatusIn(records', j) \in {"DISPATCHING", "PROVIDER_ACKNOWLEDGED"}
           /\ StatusIn(records', j) = "PROVIDER_ACKNOWLEDGED" => attempts[j] > 0 /\ j \in accepted
    BY <1>2, <1>3, <2>1
  <2> QED
    BY Zenon, <1>2, <1>4, <2>1, <2>2 DEF AttemptIsRecorded
<1>9. SurvivorsAreOlder'
  <2> SUFFICES ASSUME FileBacked PROVE SurvivorsAreOlder'
    BY Zenon DEF SurvivorsAreOlder
  <2>1. survivors' = survivors \cup {records'}
    BY Zenon DEF CommitRecord
  <2>2. \A s \in survivors, j \in Intent : s[j] # NoRecord => Recorded(j) /\ s[j].request = records[j].request
    BY Zenon DEF IndInv, SurvivorsAreOlder
  <2>3. \A s \in survivors', j \in Intent :
           s[j] # NoRecord => Recorded(j)' /\ s[j].request = records'[j].request
    BY Zenon, <1>5, <2>1, <2>2 DEF Recorded
  <2> QED
    BY Zenon, <2>1, <2>3 DEF SurvivorsAreOlder
<1>10. ASSUME NEW q \in Process \ {p} PROVE OnCourse(q)'
  <2>1. op'[q] = op[q] /\ OnCourse(q) /\ HoldsLocks(q)
    BY Zenon, <1>1 DEF IndInv
  <2>2. lock # q
    BY Zenon DEF ConstantsOK
  <2>3. op[q].at \notin {"SYNC", "SYNC_CALL", "CALL", "ACK"}
    BY Zenon, <2>1, <2>2 DEF HoldsLocks
  <2> QED
    BY Zenon, <1>5, <2>1, <2>3 DEF OnCourse
<1>11. GrantsAreSound' /\ DirectoryTypeOK'
  BY Zenon DEF IndInv, TypeOK, reachVars, directory, GrantsAreSound, DirectoryTypeOK
<1>12. /\ \A q \in Process : HoldsLocks(q)'
       /\ {guard, lock}' \subseteq Process \cup {Nobody}
       /\ \A holder \in {guard', lock'} \ {Nobody} : op'[holder].at # "IDLE"
  BY Zenon, <1>1, LocksKeep DEF IndInv, TypeOK
<1>13. receipts' \subseteq Receipts /\ ReceiptIsKept' /\ ReceiptIsDurable'
  <2>1. \A r \in receipts : r.request.intent \in Intent
    BY Zenon DEF IndInv, TypeOK, Intent
  <2>2. \A r \in receipts : AnswersRetry(r.request)'
    BY Zenon, <1>6, <2>1 DEF IndInv, ReceiptIsKept
  <2>3. \A r \in receipts, s \in Found' : r.file = "SYNCED" => s[r.request.intent] # NoRecord
    BY Zenon, <1>2, <2>2 DEF IndInv, ReceiptIsDurable, AnswersRetry, Recorded
  <2> QED
    BY Zenon, <2>2, <2>3, ReceiptsKeep DEF IndInv
<1>14. records' \in Contents /\ survivors' \subseteq Contents /\ blocked' \subseteq Process
  BY Zenon, <1>2 DEF Loadable, CommitRecord, IndInv, TypeOK
<1>15. TypeOK'
  BY Zenon, <1>1, <1>4, <1>11, <1>12, <1>13, <1>14 DEF IndInv, TypeOK, Receipts
<1>16. \A j \in Intent : attempts'[j] <= 1 /\ (j \in accepted' => attempts'[j] = 1)
  BY Zenon, <1>4 DEF IndInv
<1> QED
  BY Zenon, <1>7, <1>8, <1>9, <1>10, <1>11, <1>12, <1>13, <1>15, <1>16 DEF IndInv

\* What AppendEvent commits.
LEMMA AppendCommits ==
    ASSUME ConstantsOK, IndInv, NEW p \in Process, NEW i \in Intent, NEW status, NEW then,
           AppendEvent(p, i, status, then), Recorded(i), UpdatedAt(i) <= clock,
           \/ Status(i) = "QUEUED" /\ status \in {"DISPATCHING", "CANCELED"}
           \/ Status(i) = "DISPATCHING" /\ status = "PROVIDER_ACKNOWLEDGED"
    PROVE  \E record \in RecordOf(i) :
               /\ CommitRecord(p, i, record, then) /\ Told(record.events) = status
               /\ record.request = records[i].request /\ record.session = records[i].session
<1>1. records[i] \in RecordOf(i)
  BY Zenon, FoundIsLoadable, RecordsAreRecords DEF Recorded
<1>2. clock \in 1..MaxClock
  BY Zenon DEF IndInv, TypeOK, DirectoryTypeOK
<1> DEFINE record == [records[i] EXCEPT !.events = Append(@, [status |-> status, at |-> clock])]
<1>3. /\ record \in RecordOf(i) /\ Told(record.events) = status
      /\ record.request = records[i].request /\ record.session = records[i].session
  BY <1>1, <1>2, AppendedRecord DEF Status, UpdatedAt, Told
<1>4. CommitRecord(p, i, record, then)
  BY Zenon DEF AppendEvent
<1> QED
  BY Zenon, <1>3, <1>4
=============================================================================
