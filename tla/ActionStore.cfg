CONSTANTS
    a1 = a1
    a2 = a2
    s1 = s1
    s2 = s2
    x1 = x1
    x2 = x2
    d1 = d1
    d2 = d2
    d3 = d3
    p1 = p1
    p2 = p2
SPECIFICATION Spec
SYMMETRY Symmetry
CONSTRAINT Explored
CHECK_DEADLOCK FALSE
INVARIANTS
    LeasesDoNotOverlap
    OwnChecksPass
    NeverStuck
    AcceptanceAnswersAgree
PROPERTIES
    CommitIsCurrent
