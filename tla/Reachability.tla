---------------------------- MODULE Reachability ----------------------------
(***************************************************************************)
(* The Human reachability directory of pkg/taskcoord: consents a Human     *)
(* gives a requesting Agent, grants issued under a consent, and the        *)
(* permanent revocations of both.                                          *)
(*                                                                         *)
(* Every write runs under one lock (the directory's mutex, or the guard    *)
(* file of the SQLite adapter) and is one step.  The two reads resolve     *)
(* Participants between two looks at the state.  They read the clock before *)
(* they wait for the lock, the second time too: it may have moved on when  *)
(* the state is looked at.                                                 *)
(* Callers prepare requests in advance: the times in them are theirs, the  *)
(* clock is the directory's.  The Participant registry never changes after *)
(* registration and is a constant here.                                    *)
(*                                                                         *)
(* Purpose, capability and channel are one "scope"; the fields that        *)
(* identify an approval or an actor are one "proof".                       *)
(***************************************************************************)
EXTENDS Integers, FiniteSets

CONSTANTS
    Human, Agent,        \* the registered Participants, by kind
    Active,              \* those whose status is ACTIVE
    ConsentRequest,      \* [id, human, candidate, requester, scope, from, until, proof]
    WithdrawalRequest,   \* [event, consent, human, at]
    GrantRequest,        \* [id, consent, human, candidate, requester, scope,
                         \*  session, from, until, proof]
    RevocationRequest,   \* [event, grant, participant, at]
    Reader,              \* callers of MatchHumans and LoadActive
    ClockStep,           \* how far the clock may jump in a step
    MaxClock             \* bound of the instance

VARIABLES
    clock,
    consents,            \* the consents registered
    withdrawals,         \* consentRevocationEvents
    grants,              \* the grants issued, as defined
    revocations,         \* grantRevocationEvents
    reading              \* Reader -> the read it is in the middle of, or its answer

directory == <<consents, withdrawals, grants, revocations>>

reachVars == <<clock, directory, reading>>

NoRead == [phase |-> "NONE", now |-> 0, found |-> {}]

Within(t, window) == window.from <= t /\ t < window.until

Withdrawn(consent) == \E w \in withdrawals : w.consent = consent

Revoked(grant) == \E r \in revocations : r.grant = grant

-----------------------------------------------------------------------------
(* The writes. *)

SameConsentScope(c, d) ==
    /\ c.human = d.human /\ c.candidate = d.candidate
    /\ c.requester = d.requester /\ c.scope = d.scope

Overlap(c, d) == c.from < d.until /\ d.from < c.until

\* A candidate stays bound to its Human and requester, whatever happened to
\* the consents that bound it.
CandidateFree(c) ==
    \A d \in consents : d.candidate = c.candidate => d.human = c.human /\ d.requester = c.requester

\* Two consents of one scope overlap only if the older was withdrawn by the
\* time the newer one starts.
NoOverlap(c) ==
    \A d \in consents :
        SameConsentScope(c, d) /\ Overlap(c, d)
            => \E w \in withdrawals : w.consent = d.id /\ w.at <= c.from

RegisterHumanMatchConsent(c) ==
    /\ c.human \in Human \cap Active /\ c.requester \in Agent \cap Active
    /\ c \notin consents => /\ \A d \in consents : d.id # c.id
                            /\ CandidateFree(c) /\ NoOverlap(c)
    /\ consents' = consents \cup {c}
    /\ UNCHANGED <<withdrawals, grants, revocations>>

WithdrawalAcceptable(w) ==
    /\ \E c \in consents : c.id = w.consent /\ c.human = w.human /\ c.from <= w.at
    /\ ~Withdrawn(w.consent)

RevokeHumanMatchConsent(w) ==
    /\ w.human \in Human
    /\ w \notin withdrawals => /\ \A v \in withdrawals : v.event # w.event
                               /\ WithdrawalAcceptable(w)
    /\ withdrawals' = withdrawals \cup {w}
    /\ UNCHANGED <<consents, grants, revocations>>

\* Mutation: only the end of the grant is compared with the consent.
WithinConsentUntil(g, c) == g.until <= c.until

WithinConsent(g, c) == c.from <= g.from /\ g.from < c.until /\ g.until <= c.until

\* What IssueHumanReachabilityGrant asks of a new grant at time now.
GrantAcceptable(g, now, withdrawn) ==
    /\ \E c \in consents :
        /\ c.id = g.consent /\ c.id \notin withdrawn /\ Within(now, c)
        /\ c.human = g.human /\ c.candidate = g.candidate
        /\ c.requester = g.requester /\ c.scope = g.scope
        /\ WithinConsent(g, c)
    /\ Within(now, g)

\* The clock is read before the lock is waited for, and may be old.
IssueHumanReachabilityGrant(g) ==
    /\ g.human \in Human \cap Active /\ g.requester \in Agent \cap Active
    /\ g \notin grants => /\ \A h \in grants : h.id # g.id
                          /\ \E now \in 1..clock :
                                GrantAcceptable(g, now, {w.consent : w \in withdrawals})
    /\ grants' = grants \cup {g}
    /\ UNCHANGED <<consents, withdrawals, revocations>>

RevocationAcceptable(r) ==
    /\ \E g \in grants : g.id = r.grant /\ r.participant \in {g.human, g.requester} /\ g.from <= r.at
    /\ ~Revoked(r.grant)

RevokeHumanReachabilityGrant(r) ==
    /\ r.participant \in Human \cup Agent
    /\ r \notin revocations => /\ \A q \in revocations : q.event # r.event
                               /\ RevocationAcceptable(r)
    /\ revocations' = revocations \cup {r}
    /\ UNCHANGED <<consents, withdrawals, grants>>
-----------------------------------------------------------------------------
(* The reads. *)

GrantStands(g) == ~Revoked(g.id) /\ ~Withdrawn(g.consent)

\* The decision CommitWithActiveHumanReachabilityGrant and its dispatch
\* variant make under the lock before they run the relay's callback.
GrantActive(g) ==
    /\ g \in grants /\ g.requester \in Agent \cap Active /\ g.human \in Human \cap Active
    /\ GrantStands(g) /\ Within(clock, g)

\* The first look, at a state that may be newer than its clock: a clock that runs
\* forward has shown every time up to now.
Look(r, kind, found) ==
    /\ reading[r].phase \in {"NONE", "ANSWERED"}
    /\ reading' = [reading EXCEPT ![r] = [phase |-> kind, now |-> 0, found |-> found]]
    /\ UNCHANGED <<clock, directory>>

\* The Participants are resolved: the clock is read again.
Recheck(r, kind, again) ==
    /\ reading[r].phase = kind
    /\ reading' = [reading EXCEPT ![r] = [@ EXCEPT !.phase = again, !.now = clock]]
    /\ UNCHANGED <<clock, directory>>

Answer(r, found) ==
    /\ reading' = [reading EXCEPT ![r] = [phase |-> "ANSWERED", now |-> 0, found |-> found]]
    /\ UNCHANGED <<clock, directory>>

ConsentLive(c, now) == ~Withdrawn(c.id) /\ Within(now, c)

MatchHumansBegin(r, requester, scope) ==
    /\ requester \in Agent \cap Active
    /\ \E now \in 1..clock :
        Look(r, "MATCH",
             {c \in consents : ConsentLive(c, now) /\ c.requester = requester /\ c.scope = scope})

MatchHumansRecheck(r) == Recheck(r, "MATCH", "MATCH_AGAIN")

MatchHumansEnd(r) ==
    /\ reading[r].phase = "MATCH_AGAIN"
    /\ Answer(r, {c \in reading[r].found \cap consents :
                    c.human \in Human \cap Active /\ ConsentLive(c, reading[r].now)})

LoadActiveBegin(r, id, requester, scope) ==
    /\ requester \in Agent \cap Active
    /\ \E g \in grants, now \in 1..clock :
        /\ g.id = id /\ g.requester = requester /\ g.scope = scope
        /\ Within(now, g) /\ GrantStands(g)
        /\ Look(r, "LOAD", {g})

LoadActiveRecheck(r) == Recheck(r, "LOAD", "LOAD_AGAIN")

\* Mutation: the second look does not come back to the revocations.
LoadActiveEndUnrevoked(r) ==
    /\ reading[r].phase = "LOAD_AGAIN"
    /\ Answer(r, {g \in reading[r].found \cap grants :
                    g.human \in Human \cap Active /\ Within(reading[r].now, g)})

\* An error is an empty answer.
LoadActiveEnd(r) ==
    /\ reading[r].phase = "LOAD_AGAIN"
    /\ Answer(r, {g \in reading[r].found \cap grants :
                    g.human \in Human \cap Active /\ GrantStands(g) /\ Within(reading[r].now, g)})

Tick ==
    /\ \E s \in ClockStep : clock + s \in 1..MaxClock /\ clock' = clock + s
    /\ UNCHANGED <<directory, reading>>
-----------------------------------------------------------------------------
DirectoryInit ==
    /\ clock = 1 /\ consents = {} /\ withdrawals = {} /\ grants = {} /\ revocations = {}
    /\ reading = [r \in Reader |-> NoRead]

DirectoryWrite ==
    \/ \E c \in ConsentRequest : RegisterHumanMatchConsent(c)
    \/ \E w \in WithdrawalRequest : RevokeHumanMatchConsent(w)
    \/ \E g \in GrantRequest : IssueHumanReachabilityGrant(g)
    \/ \E r \in RevocationRequest : RevokeHumanReachabilityGrant(r)

DirectoryRead(r) ==
    \/ \E c \in ConsentRequest : MatchHumansBegin(r, c.requester, c.scope)
    \/ MatchHumansRecheck(r) \/ MatchHumansEnd(r)
    \/ \E g \in GrantRequest : LoadActiveBegin(r, g.id, g.requester, g.scope)
    \/ LoadActiveRecheck(r) \/ LoadActiveEnd(r)

DirectoryNext ==
    \/ DirectoryWrite /\ UNCHANGED <<clock, reading>>
    \/ \E r \in Reader : DirectoryRead(r)
    \/ Tick

DirectorySpec == DirectoryInit /\ [][DirectoryNext]_reachVars
-----------------------------------------------------------------------------
(* Properties. *)

\* The sets hold what callers may submit; a read in progress or answered is a
\* set of consents or of grants (the directory's maps and the locals of
\* MatchHumans and LoadActiveHumanReachabilityGrant).
DirectoryTypeOK ==
    /\ clock \in 1..MaxClock
    /\ consents \subseteq ConsentRequest /\ withdrawals \subseteq WithdrawalRequest
    /\ grants \subseteq GrantRequest /\ revocations \subseteq RevocationRequest
    /\ reading \in [Reader -> [phase : {"NONE", "MATCH", "MATCH_AGAIN", "LOAD", "LOAD_AGAIN", "ANSWERED"},
                               now : 0..MaxClock,
                               found : (SUBSET consents) \cup (SUBSET grants)]]

\* RestoreMemoryReachabilityDirectory: consents are checked one by one, grants
\* are issued again at their own issue time with every Participant active and
\* nothing withdrawn yet, then the revocations are applied again.
RestoreMemoryReachabilityDirectory ==
    /\ \A c \in consents :
        /\ c.human \in Human /\ c.requester \in Agent /\ CandidateFree(c)
    /\ \A g \in grants :
        g.human \in Human /\ g.requester \in Agent /\ GrantAcceptable(g, g.from, {})
    /\ \A w \in withdrawals :
        /\ \E c \in consents : c.id = w.consent /\ c.human = w.human /\ c.from <= w.at
        /\ \A v \in withdrawals : v.consent = w.consent => v = w
    /\ \A r \in revocations :
        /\ \E g \in grants : g.id = r.grant /\ r.participant \in {g.human, g.requester} /\ g.from <= r.at
        /\ \A q \in revocations : q.grant = r.grant => q = r

\* Whatever the callers sent, and in whatever order, the state the directory
\* exports is one its own restore accepts: a refusal would make the SQLite
\* adapter, which restores at every operation, unavailable for good.
DirectoryRestores == RestoreMemoryReachabilityDirectory

\* A candidate identifier an Agent has seen denotes one Human for that one Agent,
\* and no instant has two standing consents of one scope: MatchHumans collects
\* its results in a map by candidate, where the second would replace the first.
CandidateIsUnambiguous ==
    \A c, d \in consents :
        /\ c.candidate = d.candidate => c.human = d.human /\ c.requester = d.requester
        /\ SameConsentScope(c, d) /\ ~Withdrawn(c.id) /\ ~Withdrawn(d.id) /\ c # d
            => \A t \in 1..MaxClock : ~(Within(t, c) /\ Within(t, d))

AnsweredWhileStanding ==
    \A r \in Reader :
        reading'[r].phase = "ANSWERED" /\ reading[r].phase # "ANSWERED" =>
            /\ reading[r].phase = "MATCH_AGAIN" =>
                \A c \in reading'[r].found :
                    c.id \notin {w.consent : w \in withdrawals} /\ Within(reading[r].now, c)
            /\ reading[r].phase = "LOAD_AGAIN" =>
                \A g \in reading'[r].found :
                    /\ g.id \notin {q.grant : q \in revocations}
                    /\ g.consent \notin {w.consent : w \in withdrawals}
                    /\ \E c \in consents : c.id = g.consent /\ Within(reading[r].now, c)

\* MatchHumans and LoadActiveHumanReachabilityGrant look twice, with Participant
\* lookups in between: nothing withdrawn or revoked by the time of the answer is ever
\* in it.  Expiry is judged by the last clock reading, which may be old when the lock is
\* free: at that reading a consent answered was live, and so was the consent of a grant
\* answered, though the code compares only the grant's own window.
NoWithdrawnAnswer == [][AnsweredWhileStanding]_reachVars
-----------------------------------------------------------------------------
(* The inductive invariant; what restore asks is most of it. *)

DirectoryConstantsOK ==
    /\ MaxClock \in Nat \ {0}
    /\ \A window \in ConsentRequest \cup GrantRequest : window.from \in Nat /\ window.until \in Nat

DirectoryIndInv == DirectoryTypeOK /\ DirectoryRestores /\ CandidateIsUnambiguous
=============================================================================
