SPECIFICATION Spec
CONSTANTS
    a1 = a1
    a2 = a2
    h1 = h1
    h2 = h2
    p1 = p1
    p2 = p2
    Null = Null
    Agents = {a1, a2}
    Humans = {h1, h2}
    Remotes = {}
    Delegates = {}
    ExemptRemotes = {}
    PolicyCounts = {0, 1, 2}
    ResolveCounts = {0, 1}
    RosterReviewers = {a1, a2}
    Policies <- NoPolicy
    Ceiling = 0
    CrashAfterCommit = FALSE
    RemoteStartExposed = FALSE
    MaxEpoch = 3
    MaxRound = 1
    MaxRetryCount = 0
    MaxDeletions = 0
INVARIANTS
    TypeOK
    DecisionsAreOfThisClaim
    ResubmissionReopensSlots
    RelaxationIsOfThisGeneration
PROPERTIES
    FinalityIsEarned
    BaselineNeverDrops
    UnknownIsSticky
CHECK_DEADLOCK FALSE
