SPECIFICATION MCSpec
CONSTANTS
    None = None
    Run = {1, 2}
    Program = {"p", "q"}
    Caller = {"c"}
    MaxGeneration = 1
    Proof <- Proofs
    Call = {"c", "other"}
    RunID = {"r1", "r2"}
    MaxAge = 1
    MaxSkew = 1
    MaxTime = 3
    MaxFault = 2
    MaxStart = 3
CHECK_DEADLOCK FALSE
INVARIANTS
    ProofsAreGoodOnce
PROPERTIES
    RunsAreIsolated
    StopIsObeyed
