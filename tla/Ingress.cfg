SPECIFICATION MCSpec
CONSTANTS
    h1 = h1
    h2 = h2
    c1 = c1
    c2 = c2
    c3 = c3
    None = None
    Handler <- Handlers
    Key <- Keys
    KeyOf <- ClientOf
    Event <- EventIDs
    Assignment = {"a", "b"}
    Existing = {"a"}
    Human = {"human"}
    Active <- Participants
    Connection = {1, 3}
    Challenge <- Challenges
    Request <- Recoveries
    Durable = TRUE
    ChallengeTTL = 1
    MaxPending = 2
    MaxTotalPending = 2
    Limit = {9}
    Lifetime = {1}
    MaxTime = 2
SYMMETRY Symmetry
INVARIANTS
    OutcomeIsAtomic
    AnswersAreTrue
    LimitsAreExact
PROPERTIES
    CommitsAreAuthorized
