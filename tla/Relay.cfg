SPECIFICATION MCSpec
CONSTANTS
    h1 = h1
    h2 = h2
    a1 = a1
    a2 = a2
    Process = {p1, p2}
    Nobody = Nobody
    Human = {h1}
    Agent = {a1}
    Active = {h1, a1}
    ConsentRequest <- LongConsent
    WithdrawalRequest = {}
    GrantRequest <- ShortGrant
    RevocationRequest <- Revocation
    Reader = {"reader"}
    ClockStep <- BackAndForth
    MaxClock = 2
    RelayRequest <- RivalIntents
    FileBacked = TRUE
    MaxFailures = 3
SYMMETRY Symmetry
INVARIANTS
    OneAttempt
    StoredIsLoadable
    WithdrawnStaysGone
PROPERTIES
    AttemptIsAuthorized
    AuthorizedWhenUsed
