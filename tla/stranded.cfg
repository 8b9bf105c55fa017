SPECIFICATION Spec
CONSTANTS
    a1 = a1
    a2 = a2
    h1 = h1
    h2 = h2
    p1 = p1
    p2 = p2
    Null = Null
    Agents = {a1, a2}
    Humans = {h1}
    Remotes = {p1}
    Delegates = {a1, a2}
    ExemptRemotes = {}
    PolicyCounts = {0}
    ResolveCounts = {}
    RosterReviewers = {}
    Policies <- NoPolicy
    Ceiling = 0
    CrashAfterCommit = FALSE
    RemoteStartExposed = FALSE
    MaxEpoch = 4
    MaxRound = 0
    MaxRetryCount = 0
    MaxDeletions = 0
INVARIANTS
    PendingIsUnowned
CHECK_DEADLOCK FALSE
