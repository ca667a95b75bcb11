SPECIFICATION MCSpec
CONSTANTS
    g1 = g1  g2 = g2  b1 = b1  w1 = w1
    u1 = u1  u2 = u2  admin = admin  operator = operator
    c1 = c1  Clients = {c1}  Savers = {s1}  Viewers = {v1}  Janitor = janitor  UserOf <- OneUser  Capacity = 1

    Users = {u1, u2}
    Roles = {admin, operator}
    Groups = {g1, g2}
    Browsers = {b1}
    Writers = {w1}
    Viewer = viewer
    Rank <- Priorities
    Assigned <- FirstAdmin
    Members <- FirstMember
    GroupRoles <- FirstGroupRole
    Inherits <- SeededInheritance
    MaxCommits = 2
INVARIANTS
    RoleExplained
    PresenceAccurate
PROPERTIES
    OutdatedEnds
