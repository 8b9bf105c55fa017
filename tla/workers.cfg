SPECIFICATION Behaviour
CONSTANTS
    n1 = n1
    w1 = w1
    w2 = w2
    slack = slack
    t1 = t1
    t2 = t2
    d1 = d1
    d2 = d2
    a1 = a1
    a2 = a2
    r1 = r1
    r2 = r2
    p1 = p1
    p2 = p2
    Deliveries <- OneDelivery
    Destinations <- OneHook
    Chat <- OneChat
    Menus <- Mixed
    Total = 2
    MaxStops = 1
    MaxToggles = 1
    AdminClears = TRUE
CHECK_DEADLOCK FALSE
INVARIANTS
    SessionsAgree
    InboxAgrees
    NotificationsAgree
PROPERTIES
    TakenFromTheEnded
    NothingIsStranded
