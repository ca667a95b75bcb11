\* Is a record saved between the count of the rows and the drop of a column.
CONSTANTS
    t1 = t1  t2 = t2  x = x  s1 = s1  s2 = s2  r1 = r1  r2 = r2  r3 = r3
    Tables = {t1}
    Others = {x}
    Sessions = {s1, s2}
    Builders = {s1, s2}
    Bundles <- MCBundles
    MaxVersion = 4
    Procs = {p1, p2}
    Columns <- MCColumns
    Rows = {r1}
    InitialStates <- MCStates
    Null = Null
    MaxOps = 2
    MaxCrashes = 1
    Numbered = {t1, t2}
    Records = {r1, r2, r3}
    HomeTable <- MCHome
    ScopeOf <- MCScope
    Unique = {t1}
    Pruned = {{"crm"}}
    Numbering <- MCNumbering
    Prefixes = {"CASE", "TASK"}
    Same = Same
    Base = 2
    Width = 2
    Typed = {2}
    MaxNumber = 5
    MaxSteps = 3
SPECIFICATION MCSpec
SYMMETRY Symmetry
PROPERTY NoValueDropped
CHECK_DEADLOCK FALSE
