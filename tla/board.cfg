SPECIFICATION Behaviour
CONSTANTS
    a1 = a1
    a2 = a2
    b1 = b1
    A = A
    B = B
    q1 = q1
    q2 = q2
    q3 = q3
    v1 = v1
    v2 = v2
    Tasks = {a1, b1}
    Missions = {A, B}
    MissionOf <- Two
    Unpublished = {b1}
    Columns = 4
    Terminal = TRUE
    Debounce = TRUE
    Commands = {"publish", "assign", "delete", "wire", "edit", "status", "move", "archive"}
    MaxEdits = 2
    MaxSetbacks = 0
    MaxCrashes = 1
INVARIANTS
    HabitatAgrees
PROPERTIES
    OrderIsKept
    WorkIsFinished
CHECK_DEADLOCK FALSE
