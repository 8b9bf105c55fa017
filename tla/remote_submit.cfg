SPECIFICATION RemoteWorkerSpec
CONSTANTS
    a1 = a1
    a2 = a2
    h1 = h1
    h2 = h2
    p1 = p1
    p2 = p2
    Null = Null
    Agents = {a1}
    Humans = {h1}
    Remotes = {p1}
    Delegates = {}
    ExemptRemotes = {p1}
    PolicyCounts = {0, 1}
    ResolveCounts = {}
    RosterReviewers = {}
    Policies <- NoPolicy
    Ceiling = 0
    CrashAfterCommit = FALSE
    RemoteStartExposed = FALSE
    MaxEpoch = 3
    MaxRound = 1
    MaxRetryCount = 1
    MaxDeletions = 0
PROPERTIES
    RemoteClaimIsWorkable
CHECK_DEADLOCK FALSE
