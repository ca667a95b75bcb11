\* A record page, an API save, a bulk update and a script on one record; two
\* editor pages of articles.
CONSTANTS
    w1 = w1  w2 = w2  w3 = w3
    Fields = {f}
    Values = {v1}
    Null = Null
    Pages = {p1}
    Writers = {w1, w2, w3}
    Kind <- MCAll
    MaxVersion = 3
    Articles = {a1, a2}
    Slugs = {s1, s2}
    Bodies = {b1, b2}
    Editors = {e1, e2}
    Seeded = {a1}
    NoSlug = NoSlug
    NoArticle = NoArticle
    NoRowsMatch = TRUE
    MaxSaves = 2
SPECIFICATION MCSpec
SYMMETRY Symmetry
INVARIANTS
    AuditExact
    HistoryMatches
PROPERTIES
    OverwritesOnlyRefreshed
    SavedValuesStored
    StraysOnlyAfterMove
CHECK_DEADLOCK FALSE
