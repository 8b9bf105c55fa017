SPECIFICATION Behaviour
CONSTANTS
    t1 = t1
    h1 = h1
    m1 = m1
    k1 = k1
    a1 = a1
    ann = ann
    lea = lea
    r1 = r1
    c1 = c1
    c2 = c2
    g1 = g1
    q1 = q1
    q2 = q2
    q3 = q3
    v1 = v1
    v2 = v2
    Teams = {t1}
    Habitats = {h1}
    Missions = {m1}
    Tasks = {k1}
    Agents = {a1}
    Users = {ann}
    Admins = {ann}
    Viewers = {}
    Leads <- LedByAnn
    Home <- InTeam
    Unborn = {}
    Roles = {r1}
    Builtins = {}
    Expiring = FALSE
    RestoreRaces = FALSE
    MaxCommands = 3
    MaxGrants = 2
    MaxRevisions = 1
    MaxImports = 1
INVARIANTS
    AuthorityAgrees
PROPERTIES
    AuthorityMovesOn
CHECK_DEADLOCK FALSE
