SPECIFICATION Behaviour
CONSTANTS
    a1 = a1
    a2 = a2
    w1 = w1
    w2 = w2
    r1 = r1
    r2 = r2
    Keys <- OneKey
    Targeted <- OneKey
    Requests <- TwoRequests
    Workers <- TwoWorkers
    TaskKinds = {"stream"}
    EventKinds = {"feed"}
    Others = {"other"}
    Limit = 1
    Deletable <- OneKey
    MaxCrashes = 1
CHECK_DEADLOCK FALSE
INVARIANTS
    PublicationsAgree
    OccurrencesAgree
PROPERTIES
    OccurrenceIsFinal
    CreationsSettle
