\* Two editors of an app and of the app it depends on.
CONSTANTS
    crm = crm  base = base  t = t  b = b  n = n  z = z  m = m
    Apps = {crm, base}
    Requests = {q1, q2}
    TablesOf <- MCTables
    Names = {n, z}
    Canon <- MCCanon
    Preferred = {n}
    Authenticated = authenticated
    Choices <- MCChoices
    Start <- MCDraft
    StartLive <- MCStart
SPECIFICATION Spec
SYMMETRY Symmetry
INVARIANTS
    LiveCallsLive
    NoInheritanceCycle
    FieldsResolve
    ListedFound
PROPERTIES
    EditIsLocal
CHECK_DEADLOCK FALSE
