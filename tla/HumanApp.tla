------------------------------ MODULE HumanApp ------------------------------
(***************************************************************************)
(* The single-host approval application asb-human: Agent processes propose *)
(* a change of one setting, a person decides in a browser, and a core      *)
(* server keeps setting, proposals and the original answers in SQLite.     *)
(*                                                                         *)
(* A call is what Client.Execute does on a connection of its own: it is    *)
(* given a challenge, and the command it sends with it runs in one         *)
(* transaction, which the time, a failing commit or the end of the server  *)
(* may still stop.  A client gives up at any time and then knows nothing.  *)
(* The digest of a proposal is the proposal.  The clients are the two that *)
(* hold local credentials; their proofs are those of SessionIdentity.      *)
(***************************************************************************)
EXTENDS Naturals, FiniteSets, Sequences, SequencesExt

CONSTANTS
    None,
    Run,               \* the invocations of `asb-human agent`
    ReceiptOf,         \* r |-> the receipt it is given
    OperationOf,       \* r |-> the operation it is given, or generates
    EnabledOf,         \* r |-> the value it is given, or None
    Given, Waits,      \* the runs that are given their operation; that wait for the decision
    Page, BrowserOf,   \* the pages that are open, and the browser of each
    Operations,        \* the operation ids, in their order
    MaxMutations,      \* maxMutationRecords
    MaxReplay,         \* maxReplayRecords
    MaxPending,        \* the challenges that may be pending
    MaxInbox,          \* maxInboxOperations
    MaxSessions,       \* maxWebSessions
    MaxRevision,       \* maxSettingRevision
    TTL, Lifetime,     \* of a challenge and of a browser session
    MaxDecisions, MaxLogins, MaxFaults, MaxTime

VARIABLES
    clock,
    db,                \* what is committed
    writer,            \* the transaction that is open, or None
    up,                \* whether the server process runs
    pending,           \* t |-> how many challenges that expire at t are pending
    sessions,          \* the browser sessions: id |-> when it expires
    cookies, pages,    \* of each browser and page
    runs, receipts,    \* of each Agent process and receipt file
    calls,             \* the call each client is in, or None
    submitted,         \* for the properties: receipt |-> the proposals sent from it
    unsure,            \* and those a run took up before they were saved for good
    told,              \* the answers to mutations that clients got
    decisions, logins, faults

vars == <<clock, db, writer, up, pending, sessions, cookies, pages, runs, receipts, calls, submitted, unsure, told,
          decisions, logins, faults>>

OperationID == Range(Operations)
Receipt == {ReceiptOf[r] : r \in Run}
Client == Run \cup Page
Browser == {BrowserOf[p] : p \in Page}
MaxProposals == MaxMutations \div 2

ActorOf(c) == IF c \in Run THEN "agent" ELSE "gateway"
-----------------------------------------------------------------------------
(* Commands and the store. *)

isDecisionKind(kind) == kind \in {"APPROVE", "DECLINE", "NOT_APPLICABLE", "UNDETERMINED"}

Mutation(cmd) == cmd.kind = "PROPOSE" \/ isDecisionKind(cmd.kind)

ActorDecision(actor, kind) ==
    \/ kind \in {"STATUS", "INBOX"}
    \/ actor = "agent" /\ kind = "PROPOSE"
    \/ actor = "gateway" /\ isDecisionKind(kind)

Proposal(id, op, enabled, revision) == [id |-> id, op |-> op, enabled |-> enabled, revision |-> revision]

Command(id, kind, op, digest, revision) ==
    [id |-> id, kind |-> kind, op |-> op, digest |-> digest, revision |-> revision]

Propose(p) == Command(p.id, "PROPOSE", p.op, p, p.revision)
Status(p) == Command(None, "STATUS", p.op, p, 0)
InboxCommand == Command(None, "INBOX", None, None, 0)

StateOf(kind) ==
    CASE kind = "DECLINE" -> "DENIED"
      [] kind = "NOT_APPLICABLE" -> "NOT_APPLICABLE"
      [] kind = "UNDETERMINED" -> "UNDETERMINED"

terminal(state) == state \in {"APPLIED", "DENIED", "NOT_APPLICABLE", "UNDETERMINED", "STALE"}

initialize ==
    [setting |-> [enabled |-> FALSE, revision |-> 0], operations |-> [o \in OperationID |-> None],
     commands |-> {}, replay |-> [t \in 1..(MaxTime + TTL) |-> 0]]

Stored(d) == {o \in OperationID : d.operations[o] # None}

\* What a row must be to be used at all.
decodeStoredOperation(o, row) ==
    /\ row.digest.op = o
    /\ row.before.revision = row.digest.revision
    /\ row.proposer = "agent"
    /\ row.state = "PENDING_REVIEW" => row.reviewer = None /\ row.decidedAt = None /\ row.after = None
    /\ row.state # "PENDING_REVIEW" => terminal(row.state) /\ row.reviewer = "gateway" /\ row.decidedAt # None
    /\ row.state = "APPLIED" =>
          row.after = [enabled |-> row.digest.enabled, revision |-> row.before.revision + 1]
    /\ row.state # "APPLIED" => row.after = None

\* Pending operations first, the oldest of them before the others; then the newest.
Before(d, o, q) ==
    LET x == d.operations[o]
        y == d.operations[q]
        place(z) == CHOOSE i \in DOMAIN Operations : Operations[i] = z
    IN  IF (x.state = "PENDING_REVIEW") # (y.state = "PENDING_REVIEW") THEN x.state = "PENDING_REVIEW"
        ELSE IF x.createdAt # y.createdAt
        THEN IF x.state = "PENDING_REVIEW" THEN x.createdAt < y.createdAt ELSE x.createdAt > y.createdAt
        ELSE place(o) < place(q)

loadInbox(d) ==
    LET ordered == SetToSortSeq(Stored(d), LAMBDA o, q : Before(d, o, q))
    IN  SubSeq(ordered, 1, IF Len(ordered) > MaxInbox THEN MaxInbox ELSE Len(ordered))

Failure(d, code) == [code |-> code, db |-> d, response |-> None]
Success(d, operation, inbox) ==
    [code |-> "OK", db |-> d, response |-> [setting |-> d.setting, operation |-> operation, inbox |-> inbox]]

ProposeCommand(d, cmd, actor, now) ==
    LET row == [digest |-> cmd.digest, before |-> d.setting, state |-> "PENDING_REVIEW", proposer |-> actor,
                reviewer |-> None, createdAt |-> now, decidedAt |-> None, after |-> None]
    IN  CASE cmd.revision # d.setting.revision -> Failure(d, "CONFLICT")
          [] cmd.op \in Stored(d) -> Failure(d, "CONFLICT")
          [] Cardinality(Stored(d)) >= MaxProposals -> Failure(d, "UNKNOWN")
          [] OTHER -> Success([d EXCEPT !.operations[cmd.op] = row], row, None)

Decide(d, cmd, actor, now) ==
    LET decided == [d.operations[cmd.op] EXCEPT !.reviewer = actor, !.decidedAt = now]
        setting == [enabled |-> decided.digest.enabled, revision |-> d.setting.revision + 1]
        with(row, s) == Success([d EXCEPT !.operations[cmd.op] = row, !.setting = s], row, None)
    IN  CASE decided.state # "PENDING_REVIEW" \/ cmd.revision # decided.before.revision -> Failure(d, "CONFLICT")
          [] cmd.kind # "APPROVE" -> with([decided EXCEPT !.state = StateOf(cmd.kind)], d.setting)
          [] d.setting.revision # decided.before.revision -> with([decided EXCEPT !.state = "STALE"], d.setting)
          [] d.setting.revision >= MaxRevision -> Failure(d, "UNKNOWN")
          [] OTHER -> with([decided EXCEPT !.state = "APPLIED", !.after = setting], setting)

executeCommand(d, cmd, actor, now) ==
    LET row == d.operations[cmd.op]
    IN  CASE cmd.kind = "INBOX" -> Success(d, None, [i \in DOMAIN loadInbox(d) |-> d.operations[loadInbox(d)[i]]])
          [] cmd.kind = "PROPOSE" -> ProposeCommand(d, cmd, actor, now)
          [] cmd.op \notin Stored(d) -> Failure(d, "NOT_FOUND")
          [] row.digest # cmd.digest -> Failure(d, "CONFLICT")
          [] ~decodeStoredOperation(cmd.op, row) -> Failure(d, "UNKNOWN")
          [] cmd.kind = "STATUS" -> Success(d, row, None)
          [] OTHER -> Decide(d, cmd, actor, now)

Sum(f) == LET n[t \in 0..(MaxTime + TTL)] == IF t = 0 THEN 0 ELSE n[t - 1] + f[t] IN n[MaxTime + TTL]

\* The proof is marked as used, in the transaction of its command.
MarkUsed(d, until, now) ==
    LET pruned == [d EXCEPT !.replay = [t \in DOMAIN @ |-> IF t <= now THEN 0 ELSE @[t]]]
    IN  CASE now >= until -> Failure(d, "UNAUTHORIZED")
          [] Sum(pruned.replay) >= MaxReplay -> Failure(d, "UNKNOWN")
          [] OTHER -> Success([pruned EXCEPT !.replay[until] = @ + 1], None, None)

\* Store.Execute up to its commit. The answer to a mutation is kept with it.
Execute(d, cmd, actor, until, now) ==
    LET marked == MarkUsed(d, until, now)
        same == {x \in marked.db.commands : x.actor = actor /\ x.request.id = cmd.id}
        result == executeCommand(marked.db, cmd, actor, now)
        kept == [actor |-> actor, request |-> cmd, response |-> result.response]
    IN  CASE marked.code # "OK" -> marked
          [] ~ActorDecision(actor, cmd.kind) -> Failure(d, "UNAUTHORIZED")
          [] Mutation(cmd) /\ \E x \in same : x.request # cmd -> Failure(d, "CONFLICT")
          [] Mutation(cmd) /\ same # {} ->
                [code |-> "OK", db |-> marked.db, response |-> (CHOOSE x \in same : TRUE).response]
          [] Mutation(cmd) /\ Cardinality(marked.db.commands) >= MaxMutations -> Failure(d, "UNKNOWN")
          [] result.code # "OK" -> Failure(d, result.code)
          [] OTHER -> [result EXCEPT !.db.commands = IF Mutation(cmd) THEN @ \cup {kept} ELSE @]
-----------------------------------------------------------------------------
(* Calls. *)

Ended == [at |-> "ended", proposal |-> None]

Open(x) == IF writer = None THEN FALSE ELSE writer.call = x

Idle(c) == \A x \in calls : x.client = c => ~x.heard

\* What a run does with an answer.
AfterAnswer(r, cmd, code, response) ==
    CASE code # "OK" -> Ended
      [] cmd.kind = "INBOX" ->
            [at |-> "looked",
             proposal |-> Proposal(<<r, 0>>, OperationOf[r], EnabledOf[r] # FALSE, response.setting.revision)]
      [] terminal(response.operation.state) \/ r \notin Waits -> Ended
      [] OTHER -> [runs[r] EXCEPT !.at = "polling"]

Answer(c, cmd, code, response) ==
    /\ told' = IF code = "OK" /\ Mutation(cmd)
               THEN told \cup {[actor |-> ActorOf(c), request |-> cmd, response |-> response]} ELSE told
    /\ runs' = IF c \in Run THEN [runs EXCEPT ![c] = AfterAnswer(c, cmd, code, response)] ELSE runs
    /\ pages' = IF c \in Page /\ cmd.kind = "INBOX" /\ code = "OK"
                THEN [pages EXCEPT ![c].view = response.inbox] ELSE pages

\* The answer reaches the client unless it has given up.
Reply(x, code, response) ==
    IF x.heard THEN Answer(x.client, x.cmd, code, response) ELSE UNCHANGED <<told, runs, pages>>

\* CoreServer.issue: a challenge for exactly this command, on this connection.
Ask(c, cmd) ==
    LET live == [t \in DOMAIN pending |-> IF t <= clock THEN 0 ELSE pending[t]]
    IN  /\ Idle(c)
        /\ IF ~up \/ Sum(live) >= MaxPending
           THEN /\ Answer(c, cmd, "UNKNOWN", None)
                /\ pending' = IF up THEN live ELSE pending
                /\ UNCHANGED calls
           ELSE /\ pending' = [live EXCEPT ![clock + TTL] = @ + 1]
                /\ calls' = calls \cup {[client |-> c, cmd |-> cmd, until |-> clock + TTL, heard |-> TRUE]}
                /\ UNCHANGED <<told, runs, pages>>

ServerRest == <<clock, db, up, sessions, cookies, receipts, submitted, unsure, decisions, logins>>

\* CoreServer.execute: the challenge is used up, and the transaction opened.
BeginCall(x) ==
    LET e == Execute(db, x.cmd, ActorOf(x.client), x.until, clock)
    IN  /\ writer = None /\ up
        /\ pending' = [pending EXCEPT ![x.until] = IF @ > 0 THEN @ - 1 ELSE 0]
        /\ IF clock < x.until /\ e.code = "OK"
           THEN writer' = [call |-> x, db |-> e.db, response |-> e.response] /\ UNCHANGED <<calls, told, runs, pages>>
           ELSE /\ Reply(x, IF clock < x.until THEN e.code ELSE "UNAUTHORIZED", None)
                /\ calls' = calls \ {x}
                /\ UNCHANGED writer
        /\ UNCHANGED <<ServerRest, faults>>

FinishCall(x) ==
    /\ Open(x)
    /\ writer' = None
    /\ calls' = calls \ {x}
    /\ UNCHANGED <<clock, up, pending, sessions, cookies, receipts, submitted, unsure, decisions, logins>>

CommitCall(x) ==
    /\ FinishCall(x)
    /\ IF clock < x.until THEN db' = writer.db /\ Reply(x, "OK", writer.response)
       ELSE UNCHANGED db /\ Reply(x, "UNAUTHORIZED", None)
    /\ UNCHANGED faults

\* The commit reports an error, whether or not it took place.
CommitFails(x) ==
    /\ faults < MaxFaults /\ faults' = faults + 1
    /\ FinishCall(x)
    /\ clock < x.until
    /\ db' \in {db, writer.db}
    /\ Reply(x, "UNKNOWN", None)

\* The context of a client that has gone ends the transaction.
AbortCall(x) ==
    /\ FinishCall(x)
    /\ ~x.heard
    /\ UNCHANGED <<db, told, runs, pages, faults>>

\* The client has gone before it sent its command.
DropCall(x) ==
    /\ ~x.heard /\ ~Open(x)
    /\ calls' = calls \ {x}
    /\ UNCHANGED <<ServerRest, writer, pending, told, runs, pages, faults>>

Deafen(x) == (calls \ {x}) \cup {[x EXCEPT !.heard = FALSE]}

\* A deadline, or a lost connection: the outcome is unknown to the client.
GiveUp(x) ==
    /\ x.heard
    /\ faults < MaxFaults /\ faults' = faults + 1
    /\ calls' = Deafen(x)
    /\ writer' = IF Open(x) THEN [writer EXCEPT !.call.heard = FALSE] ELSE writer
    /\ Answer(x.client, x.cmd, "UNKNOWN", None)
    /\ UNCHANGED <<ServerRest, pending>>

\* The server process ends: what is not committed is gone, and nobody hears of it.
Lose(silent) ==
    /\ up' = FALSE /\ writer' = None /\ calls' = {} /\ sessions' = {}
    /\ pending' = [t \in DOMAIN pending |-> 0]
    /\ runs' = [r \in Run |-> IF r \in silent \/ ~Idle(r) THEN Ended ELSE runs[r]]

Crash ==
    /\ up
    /\ faults < MaxFaults /\ faults' = faults + 1
    /\ Lose({})
    /\ UNCHANGED <<clock, db, cookies, pages, receipts, submitted, unsure, told, decisions, logins>>

\* Everything on the host ends, and receipts whose directory was not synchronized may vanish.
PowerLoss ==
    /\ faults < MaxFaults /\ faults' = faults + 1
    /\ Lose(Run)
    /\ \E gone \in SUBSET {f \in Receipt : receipts[f] # None /\ ~receipts[f].durable} :
          receipts' = [f \in Receipt |-> IF f \in gone THEN None
                                         ELSE IF receipts[f] = None THEN None ELSE [receipts[f] EXCEPT !.durable = TRUE]]
    /\ pages' = [p \in Page |-> [csrf |-> 0, view |-> <<>>]]
    /\ UNCHANGED <<clock, db, cookies, submitted, unsure, told, decisions, logins>>

startServers ==
    /\ ~up /\ up' = TRUE
    /\ UNCHANGED <<clock, db, writer, pending, sessions, cookies, pages, runs, receipts, calls, submitted, unsure, told,
                   decisions, logins, faults>>

Tick ==
    /\ clock < MaxTime /\ clock' = clock + 1
    /\ UNCHANGED <<db, writer, up, pending, sessions, cookies, pages, runs, receipts, calls, submitted, unsure, told,
                   decisions, logins, faults>>
-----------------------------------------------------------------------------
(* The Agent command. *)

RunRest == <<clock, db, writer, up, sessions, cookies, decisions, logins>>
CallVars == <<pending, calls, pages, told>>

\* readReceipt, and the comparison with what the run was given.
load(r, checked) ==
    LET receipt == receipts[ReceiptOf[r]]
        fits == /\ receipt.proposal # None
                /\ checked => receipt.proposal.op = OperationOf[r]
                /\ EnabledOf[r] # None => receipt.proposal.enabled = EnabledOf[r]
    IN  /\ runs' = [runs EXCEPT ![r] = IF fits THEN [at |-> "ready", proposal |-> receipt.proposal] ELSE Ended]
        /\ unsure' = IF fits /\ ~receipt.durable THEN unsure \cup {ReceiptOf[r]} ELSE unsure

\* prepareProposal: a saved proposal is taken up as it is; else the revision is looked up.
PrepareProposal(r) ==
    /\ runs[r].at = "start" /\ Idle(r)
    /\ IF receipts[ReceiptOf[r]] # None THEN load(r, r \in Given) /\ UNCHANGED CallVars
       ELSE Ask(r, InboxCommand) /\ UNCHANGED unsure
    /\ UNCHANGED <<RunRest, receipts, submitted, faults>>

SetReceipt(r, proposal, durable) ==
    receipts' = [receipts EXCEPT ![ReceiptOf[r]] = [proposal |-> proposal, durable |-> durable]]

GoTo(r, at) == runs' = [runs EXCEPT ![r].at = at]

\* saveReceipt: an existing receipt is never replaced.
CreateReceipt(r) ==
    /\ runs[r].at = "looked"
    /\ IF receipts[ReceiptOf[r]] # None THEN load(r, TRUE) /\ UNCHANGED receipts
       ELSE SetReceipt(r, None, FALSE) /\ GoTo(r, "writing") /\ UNCHANGED unsure
    /\ UNCHANGED <<RunRest, CallVars, submitted, faults>>

WriteReceipt(r) ==
    /\ runs[r].at = "writing"
    /\ SetReceipt(r, runs[r].proposal, FALSE)
    /\ GoTo(r, "syncing")
    /\ UNCHANGED <<RunRest, CallVars, submitted, unsure, faults>>

SyncReceipt(r) ==
    /\ runs[r].at = "syncing"
    /\ SetReceipt(r, runs[r].proposal, TRUE)
    /\ GoTo(r, "ready")
    /\ UNCHANGED <<RunRest, CallVars, submitted, unsure, faults>>

\* runAgent: the saved proposal is sent as it is.
Submit(r) ==
    /\ runs[r].at = "ready"
    /\ Ask(r, Propose(runs[r].proposal))
    /\ submitted' = [submitted EXCEPT ![ReceiptOf[r]] = @ \cup {runs[r].proposal}]
    /\ UNCHANGED <<RunRest, receipts, unsure, faults>>

Poll(r) ==
    /\ runs[r].at = "polling"
    /\ Ask(r, Status(runs[r].proposal))
    /\ UNCHANGED <<RunRest, receipts, submitted, unsure, faults>>

\* The run is stopped, or writing its receipt fails: what is there stays there.
StopRun(r) ==
    /\ runs[r].at \notin {"start", "ended"}
    /\ faults < MaxFaults /\ faults' = faults + 1
    /\ runs' = [runs EXCEPT ![r] = Ended]
    /\ calls' = {IF x.client = r THEN [x EXCEPT !.heard = FALSE] ELSE x : x \in calls}
    /\ writer' = IF writer # None /\ writer.call.client = r THEN [writer EXCEPT !.call.heard = FALSE] ELSE writer
    /\ UNCHANGED <<ServerRest, pending, pages, told>>
-----------------------------------------------------------------------------
(* The browser. *)

PageRest == <<clock, db, writer, up, receipts, submitted, unsure, faults>>

Live(sees) == {s \in sees : clock < s.expires}
Cookie(p) == cookies[BrowserOf[p]]

\* webHandler.session: a session that is found expired is forgotten.
session(p) ==
    /\ sessions' = sessions \ {s \in sessions : s.id = Cookie(p) /\ clock >= s.expires}
    /\ \E s \in Live(sessions) : s.id = Cookie(p)

\* The token is right; the csrf token of a session stands for the session.
Login(p) ==
    LET others == {s \in Live(sessions) : s.id # Cookie(p)}
        id == logins + 1
    IN  /\ up /\ logins < MaxLogins /\ logins' = id
        /\ IF Cardinality(others) >= MaxSessions
           THEN sessions' = others /\ UNCHANGED <<cookies, pages>>
           ELSE /\ sessions' = others \cup {[id |-> id, expires |-> clock + Lifetime]}
                /\ cookies' = [cookies EXCEPT ![BrowserOf[p]] = id]
                /\ pages' = [pages EXCEPT ![p].csrf = id]
        /\ UNCHANGED <<PageRest, pending, calls, told, runs, decisions>>

GetSession(p) ==
    /\ up /\ session(p)
    /\ pages' = [pages EXCEPT ![p].csrf = Cookie(p)]
    /\ UNCHANGED <<PageRest, pending, calls, told, runs, decisions, cookies, logins>>

GetInbox(p) ==
    /\ up /\ session(p)
    /\ Ask(p, InboxCommand)
    /\ UNCHANGED <<PageRest, decisions, cookies, logins>>

\* A decision about what the page shows, under an id of its own.
PageDecision(p, i, kind) ==
    LET shown == pages[p].view[i]
    IN  /\ up /\ session(p) /\ pages[p].csrf = Cookie(p)
        /\ shown.state = "PENDING_REVIEW"
        /\ decisions < MaxDecisions /\ decisions' = decisions + 1
        /\ Ask(p, Command(<<"web", decisions + 1>>, kind, shown.digest.op, shown.digest, shown.before.revision))
        /\ UNCHANGED <<PageRest, cookies, logins>>

Logout(p) ==
    /\ up /\ pages[p].csrf = Cookie(p)
    /\ \E s \in Live(sessions) : s.id = Cookie(p)
    /\ sessions' = {s \in sessions : s.id # Cookie(p)}
    /\ cookies' = [cookies EXCEPT ![BrowserOf[p]] = 0]
    /\ UNCHANGED <<PageRest, pending, calls, told, runs, pages, decisions, logins>>
-----------------------------------------------------------------------------
Init ==
    /\ clock = 1 /\ db = initialize /\ writer = None /\ up = TRUE
    /\ pending = [t \in 1..(MaxTime + TTL) |-> 0]
    /\ sessions = {} /\ cookies = [b \in Browser |-> 0]
    /\ pages = [p \in Page |-> [csrf |-> 0, view |-> <<>>]]
    /\ runs = [r \in Run |-> [at |-> "start", proposal |-> None]]
    /\ receipts = [f \in Receipt |-> None]
    /\ calls = {} /\ submitted = [f \in Receipt |-> {}] /\ unsure = {} /\ told = {}
    /\ decisions = 0 /\ logins = 0 /\ faults = 0

RunStep(r) ==
    PrepareProposal(r) \/ CreateReceipt(r) \/ WriteReceipt(r) \/ SyncReceipt(r) \/ Submit(r) \/ Poll(r) \/ StopRun(r)

PageStep(p) ==
    \/ Login(p) \/ GetSession(p) \/ GetInbox(p) \/ Logout(p)
    \/ \E i \in DOMAIN pages[p].view : \E kind \in {"APPROVE", "DECLINE"} : PageDecision(p, i, kind)

CallStep(x) == BeginCall(x) \/ CommitCall(x) \/ CommitFails(x) \/ AbortCall(x) \/ DropCall(x) \/ GiveUp(x)

Next ==
    \/ Tick \/ Crash \/ PowerLoss \/ startServers
    \/ \E x \in calls : CallStep(x)
    \/ \E r \in Run : RunStep(r)
    \/ \E p \in Page : PageStep(p)

Spec == Init /\ [][Next]_vars
-----------------------------------------------------------------------------
TypeOK ==
    /\ clock \in 1..MaxTime /\ up \in BOOLEAN
    /\ db.setting \in [enabled : BOOLEAN, revision : 0..MaxRevision]
    /\ Sum(db.replay) <= MaxReplay /\ Sum(pending) <= MaxPending
    /\ Cardinality(sessions) <= MaxSessions
    /\ writer # None => writer.call \in calls

\* The setting is the outcome of the approved operations and of nothing else: each revision was made by exactly one
\* of them, from the revision the person was shown, and the last one's value is the setting's.
SettingIsExplained ==
    LET applied == {o \in Stored(db) : db.operations[o].state = "APPLIED"}
    IN  /\ Cardinality(applied) = db.setting.revision
        /\ \A n \in 1..db.setting.revision : \E o \in applied :
              /\ db.operations[o].after.revision = n
              /\ n = db.setting.revision => db.operations[o].after = db.setting

\* Every operation was proposed by the Agent, and decided, if it is, by exactly one decision of the gateway about
\* exactly that proposal; every decision that is kept decided something.
DecidedOnce ==
    LET decided(o) == {x \in db.commands : isDecisionKind(x.request.kind) /\ x.request.op = o}
        proposed(o) == {x \in db.commands : x.request.kind = "PROPOSE" /\ x.request.op = o}
    IN  \A o \in OperationID :
          /\ o \notin Stored(db) => decided(o) \cup proposed(o) = {}
          /\ o \in Stored(db) =>
                /\ \E x \in proposed(o) : proposed(o) = {x} /\ x.actor = "agent" /\ x.request.digest = db.operations[o].digest
                /\ terminal(db.operations[o].state) <=> decided(o) # {}
                /\ \A x \in decided(o) :
                      /\ decided(o) = {x} /\ x.actor = "gateway" /\ x.request.digest = db.operations[o].digest
                      /\ x.request.kind = "APPROVE" <=> db.operations[o].state \in {"APPLIED", "STALE"}
                      /\ x.response.operation = db.operations[o]

\* What a client was answered is what is kept, for good: over lost answers, retries, crashes and losses of power.
AnswersAreKept == told \subseteq db.commands

\* A proposal that is waiting can always be decided: there is room left for the answer.
DecisionsFit ==
    Cardinality({o \in Stored(db) : db.operations[o].state = "PENDING_REVIEW"}) + Cardinality(db.commands) <= MaxMutations

\* The store can read every row it wrote.
RowsDecode == \A o \in Stored(db) : decodeStoredOperation(o, db.operations[o])

\* A receipt stands for one proposal: however often its run is stopped and resumed, no other id, revision or value is
\* ever sent for it, unless a run took it up before it was saved for good.
OneProposalPerReceipt ==
    \A f \in Receipt \ unsure :
        /\ Cardinality(submitted[f]) <= 1
        /\ \A p \in submitted[f] : receipts[f] # None /\ receipts[f].proposal = p

\* Work that waits is never hidden behind what is done, nor behind work that came later.
InboxShowsPending ==
    LET shown == Range(loadInbox(db))
    IN  \A o \in Stored(db) \ shown : db.operations[o].state = "PENDING_REVIEW" =>
          \A q \in shown : db.operations[q].state = "PENDING_REVIEW" /\ db.operations[q].createdAt <= db.operations[o].createdAt

\* A mutation that was committed is answered the same whenever it is sent again: it is never refused as a conflict.
RetriesAgree ==
    \A x \in calls : \A k \in db.commands : k.actor = ActorOf(x.client) /\ k.request = x.cmd =>
        LET e == Execute(db, x.cmd, k.actor, x.until, clock)
        IN  IF e.code = "OK" THEN e.response = k.response ELSE e.code \in {"UNAUTHORIZED", "UNKNOWN"}

AppIsSound ==
    SettingIsExplained /\ DecidedOnce /\ AnswersAreKept /\ RetriesAgree /\ DecisionsFit /\ RowsDecode /\ OneProposalPerReceipt
    /\ InboxShowsPending
=============================================================================
