---------------------------- MODULE MCAuthority ----------------------------
(***************************************************************************)
(* Deciding and approving authority, on small instances for TLC:           *)
(*   SEARCH       Solve and Verify over problems of three permissions, with *)
(*                honest and wrong claims and tight budgets                *)
(*   CERTIFICATE  Generate and Check, which is given every string          *)
(*   QUORUM       rival approvals and consumptions of one decision while   *)
(*                the policy changes and proofs expire                     *)
(* the local approval application,                                         *)
(*   RECEIPTS     two Agent runs with one receipt, stopped anywhere        *)
(*   REVIEWS      two proposals of one revision before a person            *)
(*   RETRIES      a proposal sent again while it is being decided          *)
(*   SESSIONS     pages of two browsers that log in and out                *)
(*   EXPIRY       challenges and transactions that run out of time         *)
(*   CAPACITY     a store with room for one proposal and its decision      *)
(*   MAINTENANCE  rotations, servers and initializations of a directory    *)
(*   EXPORTS, VERIFICATION  archives of its database                       *)
(* and two more exact algorithms, those of the routing table for peers:    *)
(*   ROUTING      every history of a few observations                      *)
(*   LOOKUP       lookups over tables that know one peer per bucket        *)
(***************************************************************************)
EXTENDS AuthorityQuorum, Sequences, TLC

CONSTANTS p1, p2, Partial

VARIABLES
    instance,
    problem, budget, phase, origin, candidate, stack, mask, evaluations, best,
    calls, nodes, read,
    db, writer, up, pending, sessions, cookies, pages, runs, receipts, requests, submitted, unsure, told, made, logins,
    faults, files, generations, pointer, shared, exclusive, procs, content, archive, manifest, verified, started

problemVars == <<problem, budget, phase, origin, candidate>>
searchVars == <<stack, mask, evaluations, best>>
certificateVars == <<calls, nodes, read>>
storeVars == <<policy, decisions, consumptions, revocations, call, granted>>
quorumVars == <<clock, storeVars>>
appVars == <<db, writer, up, pending, sessions, cookies, pages, runs, receipts, requests, submitted, unsure, told, made,
             logins, faults>>
fileVars == <<files, generations, pointer, shared, exclusive, procs, content, archive, manifest, verified, started>>
humanVars == <<appVars, fileVars>>
mcVars == <<instance, problemVars, searchVars, certificateVars, quorumVars, humanVars>>
-----------------------------------------------------------------------------
(* The problems: rules that need a second pass, costs that just fit a word  *)
(* of three bits or overflow it.                                            *)
P == {"a", "b", "c"}
Costs(x, y, z) == [a |-> x, b |-> y, c |-> z]
Rule(allOf, then) == [allOf |-> allOf, then |-> then]

ProblemsOf(costs, grants) ==
    [cost      : costs,
     grants    : grants,
     required  : {{}, {"c"}, {"b", "c"}},
     allowed   : {P, {"b", "c"}},
     rules     : {<<>>, <<Rule({"b"}, {"c"}), Rule({"a"}, {"b"})>>, <<Rule({}, {"c"}), Rule({"b", "c"}, {"a"})>>},
     forbidden : {{}, {{"a", "b"}}}]

Model == INSTANCE PrivilegeModel WITH MaxUint64 <- 7

Claim(s, cost, effective) == [grants |-> s, cost |-> cost, effective |-> effective]
Honest(p, s) ==
    LET selection == {s[i] : i \in DOMAIN s}
    IN  Claim(s, Model!CostOf(p, selection) % 8, Model!Effective(p, selection))
Selections(p) == {Model!SetToSortSeq(s, <) : s \in Model!Selection(p)}

\* Every selection, told as it is or with one thing wrong, an unknown grant and
\* a grant named twice.
Claims(p) ==
    {Honest(p, s) : s \in Selections(p)}
    \cup {Claim(<<1>>, 0, Model!Effective(p, {1})), Claim(<<1>>, Model!CostOf(p, {1}), P)}
    \cup {[Honest(p, <<1>>) EXCEPT !.grants = @ \o <<g>>] : g \in {0, 1}}

\* Every selection, told as it is, and one with a wrong cost.
FewClaims(p) ==
    {Honest(p, s) : s \in Selections(p)} \cup {[Honest(p, <<1>>) EXCEPT !.cost = @ + 1]}

Search == INSTANCE PrivilegeSearch WITH
    MaxUint64 <- 7, Candidates <- Claims, Budgets <- {0, 3, 4, 8},
    Problems <- ProblemsOf({Costs(1, 2, 1), Costs(2, 3, 2), Costs(3, 7, 1)},
                           {<<{"a"}, {"b"}, {"c"}>>, <<{"b"}, {"a", "c"}, {"c"}>>, <<{"a", "b"}, {"b", "c"}>>, <<{"a"}>>})

Certificate == INSTANCE PrivilegeCertificate WITH
    MaxUint64 <- 7, Candidates <- FewClaims, Budgets <- {0, 3, 15},
    Problems <- ProblemsOf({Costs(1, 2, 1), Costs(2, 3, 2)},
                           {<<{"a"}, {"b"}, {"c"}>>, <<{"b"}, {"a", "c"}>>, <<{"a", "b"}, {"b", "c"}>>})
-----------------------------------------------------------------------------
(* The quorum is the specification that this module extends: the next epoch *)
(* of the policy takes one authority less.                                   *)
FirstEpoch == [map |-> "m", threshold |-> 2, authorities |-> {"A", "B", "C"}, from |-> 1, until |-> 4]
NextEpoch == [map |-> "m", threshold |-> 1, authorities |-> {"A", "B"}, from |-> 1, until |-> 3]

SlotOf(proof) ==
    CASE proof.credential \in {"ka", "ka2"} -> "A"
      [] proof.credential = "kb" -> "B"
      [] proof.credential = "kc" -> "C"
      [] OTHER -> None

Prove(p, operation, principal, credential, id, expiresAt) ==
    [decision |-> "d1", policy |-> p, operation |-> operation, principal |-> principal,
     credential |-> credential, id |-> id, issuedAt |-> 1, expiresAt |-> expiresAt]

\* Three slots, the third held by the second's principal, a rotated key of the
\* first slot, an approval of another operation, one under the next epoch.
Proofs ==
    {Prove(FirstEpoch, "x1", "a", "ka", 1, 3), Prove(FirstEpoch, "x1", "a", "ka2", 2, 4),
     Prove(FirstEpoch, "x1", "b", "kb", 3, 3), Prove(FirstEpoch, "x1", "b", "kc", 4, 4),
     Prove(FirstEpoch, "x1", "c", "kc", 5, 2), Prove(FirstEpoch, "x2", "b", "kb", 6, 3),
     Prove(NextEpoch, "x1", "a", "ka", 7, 3)}

Epochs == {FirstEpoch, NextEpoch}
-----------------------------------------------------------------------------
(* Routing: `calls` is the history of observations, `nodes` the tables. *)
Table == INSTANCE Discovery WITH Agents <- <<>>, Names <- <<>>, MaxRecords <- 0, MaxTombstones <- 0

Peer == {0, 1, 3, 4, 6}
Near(self, b) == {p \in Peer \ {self} : Table!bucketIndex(self, p) = b}
Bucket(self, b) == IF Near(self, b) = {} THEN {<<>>} ELSE {<<p>> : p \in Near(self, b)}
Buckets(self) == {0 :> x @@ 1 :> y @@ 2 :> z : x \in Bucket(self, 0), y \in Bucket(self, 1), z \in Bucket(self, 2)}

HistoryInit == calls = <<>> /\ nodes = None
HistoryNext == Len(calls) < 4 /\ \E p \in {0, 2, 4, 5, 6} : calls' = Append(calls, p) /\ UNCHANGED <<nodes, read>>

TablesInit ==
    /\ calls = None
    /\ \E a \in Buckets(0), b \in Buckets(1), c \in Buckets(3), d \in Buckets(4), e \in Buckets(6) :
        nodes = (0 :> a @@ 1 :> b @@ 3 :> c @@ 4 :> d @@ 6 :> e)
-----------------------------------------------------------------------------
(* The approval application: r1 and r2 share a receipt. *)
Receipts == [r1 |-> "A", r2 |-> "A", r3 |-> "B"]
Proposed == [r1 |-> "o1", r2 |-> "o1", r3 |-> "o2"]
Values == [r1 |-> TRUE, r2 |-> None, r3 |-> FALSE]
Browsers == [t1 |-> "b1", t2 |-> "b1", t3 |-> "b2"]

ReceiptRuns == INSTANCE HumanApp WITH
    Run <- {"r1", "r2"}, Page <- {}, Waits <- {"r1"}, Given <- {"r3"},
    ReceiptOf <- Receipts, OperationOf <- Proposed, EnabledOf <- Values, BrowserOf <- Browsers,
    Operations <- <<"o1", "o2">>, MaxMutations <- 4, MaxReplay <- 3, MaxPending <- 1, MaxInbox <- 1,
    MaxSessions <- 1, MaxRevision <- 3, TTL <- 1, Lifetime <- 1, MaxDecisions <- 0, MaxLogins <- 0,
    MaxFaults <- 3, MaxTime <- 1, calls <- requests, decisions <- made

Reviews == INSTANCE HumanApp WITH
    Run <- {"r1", "r3"}, Page <- {"t1"}, Waits <- {}, Given <- {"r3"},
    ReceiptOf <- Receipts, OperationOf <- Proposed, EnabledOf <- Values, BrowserOf <- Browsers,
    Operations <- <<"o1", "o2">>, MaxMutations <- 4, MaxReplay <- 6, MaxPending <- 2, MaxInbox <- 1,
    MaxSessions <- 1, MaxRevision <- 3, TTL <- 1, Lifetime <- 1, MaxDecisions <- 2, MaxLogins <- 1,
    MaxFaults <- 0, MaxTime <- 2, calls <- requests, decisions <- made

Retries == INSTANCE HumanApp WITH
    Run <- {"r1", "r2"}, Page <- {"t1"}, Waits <- {"r1"}, Given <- {"r3"},
    ReceiptOf <- Receipts, OperationOf <- Proposed, EnabledOf <- Values, BrowserOf <- Browsers,
    Operations <- <<"o1", "o2">>, MaxMutations <- 4, MaxReplay <- 7, MaxPending <- 2, MaxInbox <- 1,
    MaxSessions <- 1, MaxRevision <- 3, TTL <- 1, Lifetime <- 1, MaxDecisions <- 1, MaxLogins <- 1,
    MaxFaults <- 1, MaxTime <- 1, calls <- requests, decisions <- made

Sessions == INSTANCE HumanApp WITH
    Run <- {"r1"}, Page <- {"t1", "t2", "t3"}, Waits <- {}, Given <- {"r3"},
    ReceiptOf <- Receipts, OperationOf <- Proposed, EnabledOf <- Values, BrowserOf <- Browsers,
    Operations <- <<"o1", "o2">>, MaxMutations <- 4, MaxReplay <- 4, MaxPending <- 2, MaxInbox <- 1,
    MaxSessions <- 1, MaxRevision <- 3, TTL <- 1, Lifetime <- 1, MaxDecisions <- 1, MaxLogins <- 3,
    MaxFaults <- 0, MaxTime <- 1, calls <- requests, decisions <- made

Expiry == INSTANCE HumanApp WITH
    Run <- {"r1"}, Page <- {"t1"}, Waits <- {}, Given <- {"r3"},
    ReceiptOf <- Receipts, OperationOf <- Proposed, EnabledOf <- Values, BrowserOf <- Browsers,
    Operations <- <<"o1", "o2">>, MaxMutations <- 4, MaxReplay <- 2, MaxPending <- 2, MaxInbox <- 1,
    MaxSessions <- 1, MaxRevision <- 3, TTL <- 1, Lifetime <- 1, MaxDecisions <- 1, MaxLogins <- 1,
    MaxFaults <- 1, MaxTime <- 2, calls <- requests, decisions <- made

Capacity == INSTANCE HumanApp WITH
    Run <- {"r1", "r3"}, Page <- {"t1"}, Waits <- {}, Given <- {"r1", "r3"},
    ReceiptOf <- Receipts, OperationOf <- Proposed, EnabledOf <- Values, BrowserOf <- Browsers,
    Operations <- <<"o1", "o2">>, MaxMutations <- 2, MaxReplay <- 6, MaxPending <- 2, MaxInbox <- 1,
    MaxSessions <- 1, MaxRevision <- 3, TTL <- 1, Lifetime <- 1, MaxDecisions <- 1, MaxLogins <- 1,
    MaxFaults <- 0, MaxTime <- 1, calls <- requests, decisions <- made

Maintenance == INSTANCE HumanFiles WITH
    Process <- {p1, p2}, Commands <- {"init", "serve", "agent", "rotate", "token"}, Contents <- 0, MaxStarted <- 4

Exports == INSTANCE HumanFiles WITH
    Process <- {p1, p2}, Commands <- {"export"}, Contents <- 1, MaxStarted <- 4

Verification == INSTANCE HumanFiles WITH
    Process <- {p1, p2}, Commands <- {"export", "verify"}, Contents <- 1, MaxStarted <- 3
-----------------------------------------------------------------------------
NoProblem == problem = None /\ budget = 0 /\ phase = None /\ origin = None /\ candidate = None
NoSearch == stack = None /\ mask = 0 /\ evaluations = 0 /\ best = None
NoCertificate == calls = None /\ nodes = None /\ read = 0
NoStore ==
    /\ policy = None /\ decisions = [d \in Decision |-> None] /\ consumptions = None /\ revocations = None /\ call = None /\ granted = None
NoDecision == clock = 0 /\ NoStore
NoApp ==
    /\ db = None /\ writer = None /\ up = None /\ pending = None /\ sessions = None /\ cookies = None /\ pages = None
    /\ runs = None /\ receipts = None /\ requests = None /\ submitted = None /\ unsure = None /\ told = None
    /\ made = 0 /\ logins = 0 /\ faults = 0
NoFiles ==
    /\ files = None /\ generations = None /\ pointer = None /\ shared = None /\ exclusive = None /\ procs = None
    /\ content = None /\ archive = None /\ manifest = None /\ verified = None /\ started = 0
NoHuman == NoApp /\ NoFiles
NoAuthority == NoProblem /\ NoSearch /\ NoCertificate

AppInit ==
    \/ instance = "RECEIPTS" /\ ReceiptRuns!Init
    \/ instance = "REVIEWS" /\ Reviews!Init
    \/ instance = "RETRIES" /\ Retries!Init
    \/ instance = "SESSIONS" /\ Sessions!Init
    \/ instance = "EXPIRY" /\ Expiry!Init
    \/ instance = "CAPACITY" /\ Capacity!Init

FilesInit ==
    \/ instance = "MAINTENANCE" /\ Maintenance!Init
    \/ instance = "EXPORTS" /\ Exports!Init
    \/ instance = "VERIFICATION" /\ Verification!Init

MCInit ==
    \/ instance = "SEARCH" /\ Search!Init /\ NoCertificate /\ NoDecision /\ NoHuman
    \/ instance = "CERTIFICATE" /\ Certificate!Init /\ NoSearch /\ NoDecision /\ NoHuman
    \/ instance = "QUORUM" /\ Init /\ NoAuthority /\ NoHuman
    \/ instance = "ROUTING" /\ HistoryInit /\ read = 0 /\ NoProblem /\ NoSearch /\ NoDecision /\ NoHuman
    \/ instance = "LOOKUP" /\ TablesInit /\ read = 0 /\ NoProblem /\ NoSearch /\ NoDecision /\ NoHuman
    \/ AppInit /\ NoAuthority /\ NoStore /\ NoFiles
    \/ FilesInit /\ NoAuthority /\ NoDecision /\ NoApp

AppNext ==
    \/ instance = "RECEIPTS" /\ ReceiptRuns!Next
    \/ instance = "REVIEWS" /\ Reviews!Next
    \/ instance = "RETRIES" /\ Retries!Next
    \/ instance = "SESSIONS" /\ Sessions!Next
    \/ instance = "EXPIRY" /\ Expiry!Next
    \/ instance = "CAPACITY" /\ Capacity!Next

FilesNext ==
    \/ instance = "MAINTENANCE" /\ Maintenance!Next
    \/ instance = "EXPORTS" /\ Exports!Next
    \/ instance = "VERIFICATION" /\ Verification!Next

MCNext ==
    \/ instance = "SEARCH" /\ Search!Next /\ UNCHANGED <<instance, certificateVars, quorumVars, humanVars>>
    \/ instance = "CERTIFICATE" /\ Certificate!Next /\ UNCHANGED <<instance, searchVars, quorumVars, humanVars>>
    \/ instance = "QUORUM" /\ Next /\ UNCHANGED <<instance, problemVars, searchVars, certificateVars, humanVars>>
    \/ instance = "ROUTING" /\ HistoryNext /\ UNCHANGED <<instance, problemVars, searchVars, quorumVars, humanVars>>
    \/ AppNext /\ UNCHANGED <<instance, problemVars, searchVars, certificateVars, storeVars, fileVars>>
    \/ FilesNext /\ UNCHANGED <<instance, problemVars, searchVars, certificateVars, quorumVars, appVars>>

MCSpec == MCInit /\ [][MCNext]_mcVars

Symmetry == Permutations({p1, p2})
-----------------------------------------------------------------------------
(* The properties, each on the instances that put it at risk.  QuorumIsGenuine *)
(* of AuthorityQuorum is checked as it is.                                      *)

\* Every variable keeps its type, and for the quorum the inductive invariant holds,
\* with the longest acceptance and one grant per decision in it.
TypesOK ==
    /\ instance = "SEARCH" => Search!TypeOK
    /\ instance = "CERTIFICATE" => Certificate!TypeOK
    /\ instance = "QUORUM" => ConstantsOK /\ IndInv
    /\ instance = "RECEIPTS" => ReceiptRuns!TypeOK
    /\ instance = "REVIEWS" => Reviews!TypeOK
    /\ instance = "RETRIES" => Retries!TypeOK
    /\ instance = "SESSIONS" => Sessions!TypeOK
    /\ instance = "EXPIRY" => Expiry!TypeOK
    /\ instance = "CAPACITY" => Capacity!TypeOK
    /\ instance = "MAINTENANCE" => Maintenance!TypeOK
    /\ instance = "EXPORTS" => Exports!TypeOK
    /\ instance = "VERIFICATION" => Verification!TypeOK

\* Solve, Verify, Generate and Check are exact.  Whatever claim or certificate is
\* accepted is that of a feasible selection of least cost, with the permissions and
\* the cost it really has; no accepted leaf has cut off a cheaper one; a refusal is
\* true; and what Solve or Generate returns, Verify or Check accepts within the
\* same budget.  A bucket of the routing table holds the peers observed last, and an
\* iterative lookup ends at the node nearest to its target.
SearchesAreExact ==
    /\ instance = "SEARCH" =>
           Search!AcceptedIsOptimal /\ Search!SolutionIsVerifiable /\ Search!RefusalIsJustified
    /\ instance = "CERTIFICATE" =>
           Certificate!ValidIsOptimal /\ Certificate!NothingCheaperIsCutOff /\ Certificate!GeneratedIsValid
    /\ instance = "ROUTING" => Table!ObserveIsExact(2, 2, 3, calls)
    /\ instance = "LOOKUP" => \A count \in {1, 2} : Table!LocateIsExact(nodes, 3, 1, count, 1)

\* The setting is what the approved proposals made of it, one revision each; every
\* proposal is the one its receipt holds, is decided at most once, and can still be
\* decided; every answer given is kept and given again; and whatever runs on the
\* data directory runs on one complete, current set of credentials.  Whatever a
\* quorum returns for a decision is one quorum, within its acceptance, not revoked,
\* and no other choice among its approvals would have been accepted for longer.
ApprovalsAreSound ==
    /\ TypesOK
    /\ instance = "RECEIPTS" => ReceiptRuns!AppIsSound
    /\ instance = "REVIEWS" => Reviews!AppIsSound
    /\ instance = "RETRIES" => Retries!AppIsSound
    /\ instance = "SESSIONS" => Sessions!AppIsSound
    /\ instance = "EXPIRY" => Expiry!AppIsSound
    /\ instance = "CAPACITY" => Capacity!AppIsSound
    /\ instance = "MAINTENANCE" => Maintenance!FilesAreSound
    /\ instance = "EXPORTS" => Exports!FilesAreSound
    /\ instance = "VERIFICATION" => Verification!FilesAreSound
=============================================================================
