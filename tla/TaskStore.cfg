SPECIFICATION MCSpec
CONSTANTS
    ParticipantID = {p1, p2}
    AssignmentID = {a1, a2}
    EventID = {1, 2, 3, 4, 5, 6, 7}
    InteractionID = {i1}
    Time = {1}
    Registrable <- EveryRecord
    None = None
    MaxRequests = 5
SYMMETRY Symmetry
CONSTRAINT InOrder
INVARIANTS
    IndInv
    OneWinnerPerRevision
    HistoryIsSound
PROPERTIES
    IdentityIsImmutable
