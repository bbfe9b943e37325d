SPECIFICATION MCSpec
CONSTANTS
    p1 = p1
    p2 = p2
    None = None
    Partial = Partial
    Policy <- Epochs
    Proof <- Proofs
    AuthorityOf <- SlotOf
    AuthorityMap = "m"
    Decision = {"d1"}
    ConsumptionID = {"q1", "q2"}
    Operation = {"x1"}
    RevocationID = {"v1"}
    Worker = {p1, p2}
    MaxTime = 3
SYMMETRY Symmetry
CHECK_DEADLOCK FALSE
INVARIANTS
    SearchesAreExact
    QuorumIsGenuine
    ApprovalsAreSound
