SPECIFICATION RetrySpec
CONSTANTS
    Thread = {t1, t2, t3}
    Client = {c1, c2}
    Replica = {s1, s2}
    o1 = o1
    d1 = d1
    d2 = d2
    x1 = x1
    x2 = x2
    r1 = r1
    r2 = r2
    k1 = k1
    k2 = k2
    None = None
    Operation = {o1}
    Digest = {d1, d2}
    Outcome = {x1, x2}
    Sealed = {r1, r2}
    ReplayKey = {k1}
    OutcomeOf <- SealedOutcome
    MaxTime = 2
    AcceptanceRequest = {}
    Decision <- RivalDecisions
    ClockStep <- BackAndForth
    MaxCommitLoss = 3
    MaxAcceptances = 1
CHECK_DEADLOCK FALSE
INVARIANTS
    AnsweredDecisionsAgree
