SPECIFICATION Behaviour
CONSTANTS
    a1 = a1
    a2 = a2
    h1 = h1
    h2 = h2
    p1 = p1
    p2 = p2
    Null = Null
    Agents = {a1, a2}
    Humans = {h1}
    Remotes = {}
    Delegates = {a2}
    ExemptRemotes = {}
    PolicyCounts = {0}
    ResolveCounts = {}
    RosterReviewers = {}
    Policies <- EditedPolicies
    Ceiling = 7
    CrashAfterCommit = TRUE
    RemoteStartExposed = FALSE
    MaxEpoch = 4
    MaxRound = 1
    MaxRetryCount = 2
    MaxDeletions = 0
INVARIANTS
    BudgetHolds
    OwnershipIsExclusive
PROPERTIES
    LateReceiptsAreInert
    RetriesFollow
CHECK_DEADLOCK FALSE
