\* Two rows under three sets of rules, a request and somebody else; calls
\* of ingest_event for the same and for neighbouring observables.
CONSTANTS
    a = a  b = Null
    Ids = {1, 2}
    CreatedAt <- MCCreatedAt
    Place <- MCPlace
    Fields = {"owner", "state"}
    Values = {a}
    Null = Null
    InitialRecords <- MCInitial
    Securities <- MCSecurities
    RoleSets <- MCRoles
    AppRole <- MCAppRole
    Queries <- MCQueries
    DefaultLimit = 1
    Cap = 2
    PageSizes = {1, 2}
    System = System
    NotLoaded = NotLoaded
    MaxOps = 1
    MaxChanges = 1
    d1 = d1  d2 = d2  d3 = d3  t1 = t1  t2 = t2  T1 = T1  e1 = e1  f1 = f1
    Deliveries = {d1, d2, d3}
    Targets = {t1, t2}
    Payloads <- MCPayloads
    Canonical <- MCCanonical
    EntityOf <- MCEntityOf
    DefinitionOf <- MCDefinitionOf
    Provisioned <- MCProvisioned
    Absent = Absent
    MaxDeletes = 1
SPECIFICATION MCSpec
SYMMETRY Symmetry
INVARIANTS
    ListsComplete
    PagesCoverRows
    PreviewSound
    RolledUpUnlessOverlapped
    RowDecides
    SomeoneProceeds
PROPERTIES
    WritesPermitted
CHECK_DEADLOCK FALSE
