\* Two users: with a reader, a writer and bulk edits over two instants; with
\* two roles, a group, two scopes, a revocation and edits as records.
CONSTANTS
    Users = {c1, c2}
    Readers = {r1}
    Writers = {x1}
    TTL = 1
    MaxClock = 1
    u1 = u1  u2 = u2  admin = admin  operator = operator  g1 = g1  w1 = w1  any = any  app = app
    Accounts = {u1, u2}
    Roles = {admin, operator}
    Groups = {g1}
    Scopes = {any, app}
    Global = any
    Requests = {w1}
    Root = u1
    Admin = admin
    FormEdits = TRUE
    MaxRows = 2
    MaxEdits = 1
    Inherits <- SeededInheritance
SPECIFICATION MCSpec
SYMMETRY Symmetry
INVARIANTS
    AnswerFresh
PROPERTIES
    GuardHolds
