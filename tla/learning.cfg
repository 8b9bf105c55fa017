SPECIFICATION Behaviour
CONSTANTS
    ann = ann
    bob = bob
    w1 = w1
    w2 = w2
    i1 = i1
    i2 = i2
    c1 = c1
    c2 = c2
    c3 = c3
    claim = claim
    f1 = f1
    f2 = f2
    f3 = f3
    m1 = m1
    m2 = m2
    r1 = r1
    patch = patch
    Reviewers <- Two
    Workers <- Processes
    Instants <- OneInstant
    MaxDecisions = 2
    MaxCalls = 2
    MaxFaults = 1
    MaxEdits = 1
CHECK_DEADLOCK FALSE
INVARIANTS
    FindingAgrees
    RunsAgree
    ReleaseAgrees
PROPERTIES
    DecisionsStand
    LearningConcludes
