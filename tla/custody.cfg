SPECIFICATION Spec
CONSTANTS
    a1 = a1
    a2 = a2
    h1 = h1
    h2 = h2
    p1 = p1
    p2 = p2
    Null = Null
    Agents = {a1, a2}
    Humans = {h1}
    Remotes = {}
    Delegates = {a1, a2}
    ExemptRemotes = {}
    PolicyCounts = {0, 1}
    ResolveCounts = {}
    RosterReviewers = {}
    Policies <- StablePolicies
    Ceiling = 0
    CrashAfterCommit = TRUE
    RemoteStartExposed = FALSE
    MaxEpoch = 4
    MaxRound = 1
    MaxRetryCount = 1
    MaxDeletions = 1
INVARIANTS
    CustodyIsHeld
    TokenNamesTheOwner
    ResultIsOfThisEpoch
    PointersNameTheLastEnd
    ProofIsOfThisApproval
PROPERTIES
    ImplementsPeriods
CHECK_DEADLOCK FALSE
