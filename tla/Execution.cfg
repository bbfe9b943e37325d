SPECIFICATION Spec
CONSTANTS
    p1 = p1
    p2 = p2
    p3 = p3
    a1 = a1
    a2 = a2
    a3 = a3
    None = None
SYMMETRY Symmetry
CHECK_DEADLOCK FALSE
INVARIANTS
    AtMostOneEffect
    RecordedOutcomeIsTrue
    ResourcesAreAccounted
PROPERTIES
    DispatchIsAuthorized
