SPECIFICATION MCSpec
CONSTANTS
    Worker = {c1, c2}
    Node = {n1, n2}
    a1 = a1
    a2 = a2
    e1 = e1
    e2 = e2
    e3 = e3
    e4 = e4
    s1 = s1
    w1 = w1
    None = None
    Assignment = {a1, a2}
    Event = {e1, e2, e3}
    Consumer = {c1, c2}
    LeaseID = {n1, n2}
    QuarantineID = {"q"}
    Limits = {1, 2}
    LeaseDuration = 1
    MaxJournalRecords = 3
    MaxRevision = 2
    MaxFaults = 1
CONSTRAINT Explored
SYMMETRY Symmetry
INVARIANTS
    DeliveriesAreSound
    AnsweredIsReplicated
    RivalsAreSerialized
PROPERTIES
    StaleWorkerNeverSettles
