---------------------------- MODULE DefinitionEditor ----------------------------
(***************************************************************************)
(* The app editor: the explorer that lists the objects of an app's draft,  *)
(* the save and delete handlers that rewrite the draft one object at a     *)
(* time, the normalisation and validation every write runs, and a publish  *)
(* (cmd/server/handleAppEditorObjectSave.go, cmd/server/handlePageBuilder. *)
(* go, internal/db/AppDefinition.go).                                      *)
(*                                                                         *)
(* An object is a key <<kind, owner, name>>; its content is what           *)
(* validation reads: the keys it refers to, and one switch (extensible,    *)
(* public, enabled).  A request reads every app once (the apps are cached  *)
(* for the length of a request), so it validates and writes from that one  *)
(* snapshot.                                                               *)
(***************************************************************************)
EXTENDS Naturals, Sequences, FiniteSets

CONSTANTS Apps,            \* registered apps
          Requests,        \* editor requests; each saves, deletes or publishes once
          TablesOf,        \* app -> the table names its prefix allows; prefixes may
                           \* overlap (crm_ and crm_x_, or base and task_definition)
          Names,           \* names in normal form
          Canon,           \* spelling -> name (normalizeLooseIdentifier)
          Preferred,       \* column names that become a display field by default
          Authenticated,   \* the reserved role
          Choices(_, _),   \* kind, owner -> the contents a form may post
          Start,           \* app -> the draft it starts with
          StartLive        \* app -> the published definition it starts with

None == "none"
AllTables == UNION {TablesOf[a] : a \in Apps}
ASSUME SpellingAssumption ==
    /\ Names \subseteq DOMAIN Canon /\ Canon \in [DOMAIN Canon -> Names]
    /\ \A n \in Names : Canon[n] = n
    /\ IsFiniteSet(Apps) /\ IsFiniteSet(AllTables)
    /\ None \notin AllTables /\ None \notin Apps

VARIABLES draft,       \* app -> definition_yaml
          live,        \* app -> published_definition_yaml
          req,         \* request -> its progress
          overtaken,   \* another app changed between a save's read and its write
          seen,        \* app -> the drafts its last save was validated against
          based,       \* app -> the live definitions its last publish was validated against
          owners       \* table -> the apps whose drafts have declared it so far

vars == <<draft, live, req, overtaken, seen, based, owners>>

Nowhere == <<None, None, None>>
TableKinds == {"column", "form", "list", "policy", "tableTrigger", "relatedList", "rule"}
TopKinds == {"table", "role", "service", "endpoint", "trigger", "schedule",
             "clientScript", "page", "documentation", "dependency"}
\* The parts of an object that the explorer lists, and that are saved, apart.
Parts(kind) ==
    CASE kind \in {"form", "page"} -> {"layout", "actions", "security"}
      [] kind = "clientScript" -> {"code"}
      [] kind = "documentation" -> {"content", "category", "visibility", "related"}
      [] OTHER -> {}
LooseKinds == {"role", "service", "method", "endpoint", "trigger", "schedule",
               "clientScript", "documentation", "policy", "tableTrigger", "relatedList", "rule"}

Table(t) == <<"table", None, t>>
Column(t, c) == <<"column", t, c>>
Objects(d) == DOMAIN d.objs
Refs(d, k) == d.objs[k].refs
RefsOf(d, k, kind) == {r \in Refs(d, k) : r[1] = kind}
Keep(d, K) == [d EXCEPT !.objs = [k \in K |-> d.objs[k]]]
Put(d, k, c) == [d EXCEPT !.objs = [j \in Objects(d) \cup {k} |-> IF j = k THEN c ELSE d.objs[j]]]
\* What hangs below an object: a table's parts, a service's methods.
Below(d, k) == {j \in Objects(d) : j[2] = k[3] /\ k[1] \in {"table", "service"}
                                   /\ (j[1] = "method") = (k[1] = "service")}

(***************************************************************************)
(* What a validation sees: the definition itself, and of each dependency   *)
(* the tables of its draft and the public methods of its live definition.  *)
(***************************************************************************)
Dependencies(d) == {b \in Apps : <<"dependency", None, b>> \in Objects(d)}

\* resolveValidationTable: the app whose table of that name is found, the app's
\* own first, then a dependency's draft.  Which one, of several dependencies that
\* declare it, is the order of a map: here a fixed one.
FoundIn(a, d, drafts, t) ==
    LET theirs == {b \in Dependencies(d) : Table(t) \in Objects(drafts[b])} IN
    IF Table(t) \in Objects(d) THEN a ELSE IF theirs = {} THEN None ELSE CHOOSE b \in theirs : TRUE

\* The definition itself, and the tables that only a dependency has.
TableOf(k) == IF k[1] = "table" THEN k[3] ELSE k[2]
Borrowed(a, d, drafts) ==
    {k \in UNION {Objects(drafts[b]) : b \in Dependencies(d)} :
        /\ k[1] \in {"table", "column"}
        /\ FoundIn(a, d, drafts, TableOf(k)) \in Dependencies(d)
        /\ k \in Objects(drafts[FoundIn(a, d, drafts, TableOf(k))])}
Scope(a, d, drafts) ==
    [k \in Objects(d) \cup Borrowed(a, d, drafts) |->
        IF k \in Objects(d) THEN d.objs[k] ELSE drafts[FoundIn(a, d, drafts, TableOf(k))].objs[k]]

Parent(S, t) ==
    LET up == IF Table(t) \in DOMAIN S THEN {r \in S[Table(t)].refs : r[1] = "table"} ELSE {}
    IN  IF up = {} THEN None ELSE (CHOOSE r \in up : TRUE)[3]

\* The tables above t, t first; a cycle shows as a chain that does not end (no
\* two apps declare more tables than Height).
Height == Cardinality(Apps) * Cardinality(AllTables)
Chain(S, t) ==
    LET up[n \in 0 .. Height] == IF n = 0 THEN t
                                ELSE LET u == up[n - 1] IN IF u = None THEN None ELSE Parent(S, u)
    IN  up
Cyclic(S, t) == Chain(S, t)[Height] # None
Lineage(S, t) == LET up == Chain(S, t) IN {up[n] : n \in 0 .. Height} \ {None}
Fields(S, t) == LET L == Lineage(S, t) IN {c \in Names : \E u \in L : Column(u, c) \in DOMAIN S}

\* mutant: a chain may return to its start
InheritsCyclic(S, d, t) ==
    LET p == Parent(S, t) IN p = None \/ (Table(p) \in DOMAIN S /\ (Table(p) \in Objects(d) \/ S[Table(p)].on))
InheritsWell(S, d, t) ==
    LET p == Parent(S, t) IN
    p = None \/ /\ Table(p) \in DOMAIN S
                /\ Table(p) \in Objects(d) \/ S[Table(p)].on
                /\ ~Cyclic(S, t)
                /\ \A u \in Lineage(S, t) : Parent(S, u) = None \/ Table(Parent(S, u)) \in DOMAIN S
                /\ \A c \in Fields(S, p) : Column(t, c) \notin Objects(d)

\* mutant: a private method of a dependency may be called
CallableIfNamed(d, lives, m) == m \in Objects(d) \/ \E b \in Dependencies(d) : m \in Objects(lives[b])
\* validateMethodCall: a method of the app, or a public one of a dependency's
\* published definition.
Callable(d, lives, m) ==
    \/ m \in Objects(d)
    \/ \E b \in Dependencies(d) : m \in Objects(lives[b]) /\ lives[b].objs[m].on

\* The roles named by actions, methods, endpoints and security rules, which alone
\* may not name the reserved one; those of a table's forms are not looked at.
Declared(d, k, r) == k[1] = "form" \/ r \in Objects(d) \/ (r[3] = Authenticated /\ k[1] # "rule")

\* mutant: the columns a form or a list names are not looked up
ResolvesAnyColumn(S, d, lives, k, r) ==
    \/ r[1] = "role" /\ (k[1] = "form" \/ r \in Objects(d) \/ r[3] = Authenticated)
    \/ r[1] = "table" /\ r \in DOMAIN S
    \/ r[1] = "column"
    \/ r[1] = "method" /\ (k[1] = "tableTrigger" \/ Callable(d, lives, r))
Resolves(S, d, lives, k, r) ==
    CASE r[1] = "role"   -> Declared(d, k, r)
      [] r[1] = "table"  -> IF k[1] \in {"trigger", "clientScript"} THEN r \in Objects(d)
                            ELSE r \in DOMAIN S
      [] r[1] = "column" -> IF k[1] = "clientScript" THEN r \in Objects(d)
                            ELSE r[3] \in Fields(S, r[2])
      [] r[1] = "method" -> k[1] = "tableTrigger" \/ Callable(d, lives, r)
      [] OTHER -> TRUE

\* Disabled endpoints and client scripts are not looked at.
Checked(d, k) == k[1] \in {"endpoint", "clientScript"} => d.objs[k].on
\* validateAppEntryPointRoleDeclarations
EntryPoint(d, k) == k[1] \in {"method", "endpoint"} /\ d.objs[k].on

Valid(a, d, drafts, lives) ==
    LET S == Scope(a, d, drafts) IN
    /\ \A k \in Objects(d) :
        /\ k[1] = "dependency" => k[3] \in Apps
        /\ k[1] = "table" => k[3] \in TablesOf[a] /\ InheritsWell(S, d, k[3])
        /\ k[1] = "role" => k[3] # Authenticated
        /\ EntryPoint(d, k) => RefsOf(d, k, "role") # {}
        /\ Checked(d, k) => \A r \in Refs(d, k) : Resolves(S, d, lives, k, r)

(***************************************************************************)
(* Normalisation.  A dependency on the app itself goes; a table without a  *)
(* display field gets a preferred column as one.                           *)
(***************************************************************************)
DisplayField(d, k) ==
    LET own == {Column(k[3], c) : c \in Preferred} \cap Objects(d) IN
    IF k[1] # "table" \/ RefsOf(d, k, "column") # {} \/ own = {} THEN {}
    ELSE {CHOOSE c \in own : TRUE}

Normal(a, d) ==
    [d EXCEPT !.objs = [k \in Objects(d) \ {<<"dependency", None, a>>} |->
                            [d.objs[k] EXCEPT !.refs = @ \cup DisplayField(d, k)]]]

(***************************************************************************)
(* The handlers.  Each yields the drafts it may hand to the save, with the *)
(* object the browser is sent back to and the objects the user named.      *)
(***************************************************************************)
Everything == {"role", "table", "column", "method", "on"}
Result(d, active, touched) == [def |-> d, active |-> active, touched |-> touched, posted |-> Everything]

NamesFor(a, kind) == CASE kind = "table" -> TablesOf[a]
                       [] kind = "dependency" -> Apps \cup Names
                       [] kind \in LooseKinds -> DOMAIN Canon
                       [] OTHER -> Names
Normalised(kind, n) == IF kind \in LooseKinds THEN Canon[n] ELSE n

Owners(d, kind) == CASE kind \in TableKinds -> {k[3] : k \in {j \in Objects(d) : j[1] = "table"}}
                     [] kind = "method" -> {k[3] : k \in {j \in Objects(d) : j[1] = "service"}}
                     [] OTHER -> {None}

\* A handler compares only the spelling posted with the stored names.  One that
\* normalises to a stored name is refused by the normalisation, except that of a
\* security rule, which it drops.
Repeated(d, k) == k \in Objects(d) /\ k[1] # "rule"
Dropped(d, k) == k \in Objects(d) /\ k[1] = "rule"
Added(d, kind, owner, n, c) ==
    LET posted == <<kind, owner, n>>
        k == <<kind, owner, Normalised(kind, n)>>
    IN  IF posted \in Objects(d) \/ Repeated(d, k) THEN {}
        ELSE {Result(IF Dropped(d, k) THEN d ELSE Put(d, k, c), posted, {k})}

\* A new form or page is posted without its parts.
NewContents(kind, o) == IF kind \in {"form", "page"} THEN {[on |-> FALSE, refs |-> {}]} ELSE Choices(kind, o)
NewOf(a, d, kinds) ==
    UNION {UNION {UNION {Added(d, p[1], p[2], n, c) : c \in NewContents(p[1], p[2])} : n \in NamesFor(a, p[1])}
           : p \in UNION {{kind} \X Owners(d, kind) : kind \in kinds}}
NewTable(a, d) == NewOf(a, d, {"table"})
NewTablePart(a, d) == NewOf(a, d, TableKinds \ {"list"})
NewDependency(a, d) == NewOf(a, d, {"dependency"})

TableEdits(d, dropped) ==
    {[Result(Keep(Put(d, k, [c EXCEPT !.refs = {r \in @ : r[1] # "table"} \cup RefsOf(d, k, "table")]),
                  {j \in Objects(d) : ~(j[2] = k[3] /\ j[1] \in dropped)}), k, {k})
        EXCEPT !.posted = @ \ {"table"}]
     : k \in {j \in Objects(d) : j[1] = "table"}, c \in Choices("table", None)}
\* mutant: everything but the columns is emptied
SaveTableColumns(d) == TableEdits(d, TableKinds \ {"column"})
\* Saving a table's own properties keeps what it extends, and posts neither
\* forms nor lists, so both are emptied.
SaveTable(d) == TableEdits(d, {"form", "list"})

\* What a post to an object, or to one of its parts, replaces of it.
Posted(kind, part) ==
    CASE part = None /\ kind \notin {"form", "page"} -> Everything
      [] kind = "form" /\ part = "layout" -> {"column"}
      [] part \in {"actions", "security"} -> {"role"}
      [] OTHER -> {}
Replaced(d, k, c, what) ==
    [Result(Put(d, k, [on |-> IF "on" \in what THEN c.on ELSE d.objs[k].on,
                       refs |-> {r \in Refs(d, k) : r[1] \notin what} \cup {r \in c.refs : r[1] \in what}]),
            k, {k}) EXCEPT !.posted = what]
SaveOf(d, K) ==
    UNION {UNION {{Replaced(d, k, c, Posted(k[1], part)) : c \in Choices(k[1], k[2])}
                  : part \in {None} \cup Parts(k[1])} : k \in K}
SaveTablePart(d) == SaveOf(d, {k \in Objects(d) : k[1] \in TableKinds \ {"list"}})

\* What is not of a table, new or known.
SaveEntry(a, d, kinds) == NewOf(a, d, kinds) \cup SaveOf(d, {k \in Objects(d) : k[1] \in kinds})
SaveService(a, d) == SaveEntry(a, d, {"role", "service", "method", "endpoint", "trigger", "schedule"})
SavePage(a, d) == SaveEntry(a, d, {"page"})
SaveClientScript(a, d) == SaveEntry(a, d, {"clientScript"})
SaveDocumentation(a, d) == SaveEntry(a, d, {"documentation"})

\* The name of a security rule and of a dependency can be edited.  A rule
\* given the name of another takes its place or loses to it, whichever comes
\* first in their order; the browser is sent back to the old name.
Renamed(a, d, k, n) ==
    LET j == <<k[1], k[2], Normalised(k[1], n)>>
        moved == Keep(d, Objects(d) \ {k})
    IN  {Result(Put(moved, j, d.objs[k]), k, {j, k})}
        \cup (IF j \in Objects(d) THEN {Result(moved, k, {j, k})} ELSE {})
Rename(a, d) ==
    UNION {UNION {Renamed(a, d, k, n) : n \in NamesFor(a, k[1])}
           : k \in {j \in Objects(d) : j[1] \in {"rule", "dependency"}}}

\* The lists posted as a whole: the dependencies of the application, and a
\* table's policies, triggers, related lists or rules; here some left out.
SaveWhole(d) ==
    {Result(Keep(d, Objects(d) \ gone), Nowhere, gone)
     : gone \in {g \in SUBSET Objects(d) :
                    \E kind \in {"dependency", "policy", "tableTrigger", "relatedList", "rule"} :
                        /\ g # {} /\ \A j, k \in g : j[1] = kind /\ j[2] = k[2]}}

\* The definition as text; here the published one is put back, or the entry of
\* a table is rewritten, which is how what it extends can change.
SaveYaml(d, published) ==
    {Result(y, Nowhere, Objects(d) \cup Objects(y) \cup {<<"seed", d.seeds[i].table, i>> : i \in 1 .. Len(d.seeds)}) :
        y \in {published} \cup {Put(d, k, c) : k \in {j \in Objects(d) : j[1] = "table"}, c \in Choices("table", None)}}

\* Rows posted for a seed reach the first seed of its table.
SaveSeed(d) ==
    UNION {{Result([d EXCEPT !.seeds[CHOOSE j \in 1 .. i : /\ d.seeds[j].table = d.seeds[i].table
                                                         /\ \A h \in 1 .. (j - 1) : d.seeds[h].table # d.seeds[i].table].rows = v],
                   <<"seed", d.seeds[i].table, i>>, {<<"seed", d.seeds[i].table, i>>}) : v \in 0 .. 1}
           : i \in 1 .. Len(d.seeds)}

DeleteObject(d, kinds) ==
    {Result(Keep(d, Objects(d) \ ({k} \cup Below(d, k))),
            IF k[1] \in TableKinds THEN Table(k[2])
            ELSE IF k[1] = "method" THEN <<"service", None, k[2]>> ELSE Nowhere,
            {k} \cup Below(d, k))
     : k \in {j \in Objects(d) : j[1] \in kinds}}
DeleteTablePart(d) == DeleteObject(d, (TableKinds \ {"list"}) \cup {"table"})
DeleteEntry(d) == DeleteObject(d, (TopKinds \cup {"method"}) \ {"table"})

DeleteSeed(d) ==
    {Result([d EXCEPT !.seeds = SubSeq(@, 1, i - 1) \o SubSeq(@, i + 1, Len(@))],
            Nowhere, {<<"seed", d.seeds[i].table, i>>}) : i \in 1 .. Len(d.seeds)}

Saves(a, d, published) ==
    NewTable(a, d) \cup NewTablePart(a, d) \cup NewDependency(a, d)
        \cup SaveTable(d) \cup SaveTablePart(d)
        \cup SaveService(a, d) \cup SavePage(a, d) \cup SaveClientScript(a, d) \cup SaveDocumentation(a, d)
        \cup Rename(a, d) \cup SaveWhole(d) \cup SaveYaml(d, published) \cup SaveSeed(d)
Deletes(d) == DeleteTablePart(d) \cup DeleteEntry(d) \cup DeleteSeed(d)

(***************************************************************************)
(* The shape of a definition: forms and lists refer to columns of their    *)
(* own table, and what hangs below a table or a service has one.           *)
(***************************************************************************)
FormedContent(k, c) ==
    /\ c = [on |-> c.on, refs |-> c.refs]
    /\ \A r \in c.refs : r[1] \in {"role", "table", "column", "method"}
    /\ k[1] \in {"form", "list"} => \A r \in c.refs : r[1] = "column" => r = Column(k[2], r[3])
FormedKey(d, k) ==
    /\ k = <<k[1], k[2], k[3]>>
    /\ k[1] \in TopKinds => k[2] = None
    /\ k[1] \in TableKinds => Table(k[2]) \in Objects(d)
    /\ k[1] = "method" => <<"service", None, k[2]>> \in Objects(d)
    /\ k[1] = "service" => k[3] \in Names
Formed(d) ==
    /\ DOMAIN d = {"objs", "seeds"} /\ d.seeds \in Seq([table : AllTables, rows : Nat])
    /\ \A k \in Objects(d) : FormedKey(d, k) /\ FormedContent(k, d.objs[k])

\* The tables and columns of all drafts.
Merged(drafts) ==
    [k \in UNION {Objects(drafts[b]) : b \in Apps} |-> drafts[CHOOSE b \in Apps : k \in Objects(drafts[b])].objs[k]]

\* No two drafts declare one table.
Apart(drafts) ==
    \A a, b \in Apps : \A t \in AllTables :
        Table(t) \in Objects(drafts[a]) /\ Table(t) \in Objects(drafts[b]) => a = b

\* What forms post has that shape; the apps start with definitions that have
\* passed the validation.
ASSUME EditorAssumption ==
    /\ \A kind \in TableKinds \cup TopKinds \cup {"method"}, owner \in AllTables \cup Names \cup {None} :
         \A c \in Choices(kind, owner) : FormedContent(<<kind, owner, None>>, c)
    /\ DOMAIN Start = Apps /\ DOMAIN StartLive = Apps
    /\ \A a \in Apps : \A d \in {Start[a], StartLive[a]} : Formed(d) /\ a \notin Dependencies(d)
    /\ \A a \in Apps : Valid(a, Start[a], Start, StartLive) /\ Valid(a, StartLive[a], StartLive, StartLive)
    /\ Apart(Start) => \A t \in AllTables : ~Cyclic(Merged(Start), t)

(***************************************************************************)
(* Requests                                                                *)
(***************************************************************************)
Idle == [pc |-> "idle", app |-> None, drafts |-> <<>>, lives |-> <<>>, publish |-> FALSE,
         active |-> Nowhere, touched |-> {}, posted |-> {}]

Init == /\ draft = Start /\ live = StartLive
        /\ req = [r \in Requests |-> Idle]
        /\ overtaken = FALSE
        /\ seen = [a \in Apps |-> Start] /\ based = [a \in Apps |-> StartLive]
        /\ owners = [t \in AllTables |-> {a \in Apps : Table(t) \in Objects(Start[a])}]

Read(r) ==
    /\ req[r].pc = "idle"
    /\ \E a \in Apps, publish \in BOOLEAN, pc \in {"edit", "publish"} :
        /\ pc = "publish" => publish
        /\ req' = [req EXCEPT ![r] = [pc |-> pc, app |-> a, drafts |-> draft, lives |-> live,
                                      publish |-> publish, active |-> Nowhere, touched |-> {}, posted |-> {}]]
    /\ UNCHANGED <<draft, live, overtaken, seen, based, owners>>

\* SaveAppDefinition with what a handler made of the draft it read.
Write(r, e) ==
    LET a == req[r].app
        d == Normal(a, e.def)
    IN  /\ Valid(a, d, req[r].drafts, req[r].lives)
        /\ draft' = [draft EXCEPT ![a] = d]
        /\ overtaken' = (overtaken \/ \E b \in Apps \ {a} : req[r].drafts[b] # draft[b])
        /\ seen' = [seen EXCEPT ![a] = req[r].drafts]
        /\ owners' = [t \in AllTables |-> owners[t] \cup IF Table(t) \in Objects(d) THEN {a} ELSE {}]
        /\ UNCHANGED <<live, based>>

Save(r) ==
    /\ req[r].pc = "edit"
    /\ \E e \in Saves(req[r].app, req[r].drafts[req[r].app], req[r].lives[req[r].app]) :
        /\ Write(r, e)
        /\ req' = [req EXCEPT ![r].pc = IF req[r].publish THEN "publish" ELSE "done",
                              ![r].active = e.active, ![r].touched = e.touched,
                              ![r].posted = e.posted]

Delete(r) ==
    /\ req[r].pc = "edit" /\ ~req[r].publish
    /\ \E e \in Deletes(req[r].drafts[req[r].app]) :
        /\ Write(r, e)
        /\ req' = [req EXCEPT ![r].pc = "done", ![r].active = e.active, ![r].touched = e.touched,
                              ![r].posted = e.posted]

\* The edit is refused: not found, duplicate, or invalid.
Refuse(r) ==
    /\ req[r].pc = "edit"
    /\ req' = [req EXCEPT ![r] = [Idle EXCEPT !.pc = "done"]]
    /\ UNCHANGED <<draft, live, overtaken, seen, based, owners>>

\* PublishAppDefinition: the draft of the snapshot, also after a save of the
\* same request.
Publish(r) ==
    /\ req[r].pc = "publish"
    /\ LET a == req[r].app
           d == Normal(a, req[r].drafts[a])
           ok == Valid(a, d, req[r].drafts, req[r].lives)
       IN  /\ live' = IF ok THEN [live EXCEPT ![a] = d] ELSE live
           /\ based' = IF ok THEN [based EXCEPT ![a] = req[r].lives] ELSE based
    /\ req' = [req EXCEPT ![r] = [Idle EXCEPT !.pc = "done"]]
    /\ UNCHANGED <<draft, overtaken, seen, owners>>

Next == \E r \in Requests : Read(r) \/ Save(r) \/ Delete(r) \/ Refuse(r) \/ Publish(r)
Spec == Init /\ [][Next]_vars

(***************************************************************************)
(* The explorer: what it lists of a draft.                                 *)
(***************************************************************************)
\* BuildYAMLColumnsWithContext: a table's columns and those of the tables
\* above, each looked up from the app that declares the one below; its own alone
\* when one is missing or the chain, of apps with their tables, does not end.
ResolvedChain(a, t) ==
    LET Above(u) == LET p == Parent(draft[u[1]].objs, u[2]) IN <<FoundIn(u[1], draft[u[1]], draft, p), p>>
        up[n \in 0 .. Height] == IF n = 0 THEN <<a, t>>
                                ELSE IF up[n - 1][1] = None THEN up[n - 1] ELSE Above(up[n - 1])
    IN  up
ResolvedColumns(a, t) ==
    LET up == ResolvedChain(a, t)
        chain == IF up[Height] = <<None, None>> THEN {up[n] : n \in 0 .. Height} \ {<<None, None>>} ELSE {<<a, t>>}
    IN  {Column(t, c) : c \in {n \in Names : \E u \in chain : Column(u[2], n) \in Objects(draft[u[1]])}}

\* The ids listed: a key, or a key with the name of a part.
Under(d, kinds) == {k \in Objects(d) : k[1] \in kinds}
WithParts(K) == K \cup UNION {{Append(k, part) : part \in Parts(k[1])} : k \in K}
ListedDefinition(a, d) == {<<"application", None, a>>, <<"yaml", None, a>>} \cup Under(d, {"dependency"})
ListedTables(a, d) == Under(d, {"table", "rule"}) \cup UNION {ResolvedColumns(a, k[3]) : k \in Under(d, {"table"})}
ListedTableParts(d) == Under(d, {"policy", "tableTrigger", "relatedList"})
ListedForms(d) == WithParts(Under(d, {"form"}))
ListedPages(d) == WithParts(Under(d, {"page"}))
ListedDocumentation(d) == WithParts(Under(d, {"documentation"}))
ListedScripts(d) == WithParts(Under(d, {"clientScript", "endpoint"}))
ListedServices(d) == Under(d, {"role", "service", "method"})
ListedJobs(d) == Under(d, {"trigger", "schedule"}) \cup {<<"seed", d.seeds[i].table, i>> : i \in 1 .. Len(d.seeds)}
Listed(a) ==
    LET d == draft[a] IN
    ListedDefinition(a, d) \cup ListedTables(a, d) \cup ListedTableParts(d) \cup ListedForms(d) \cup ListedPages(d)
        \cup ListedDocumentation(d) \cup ListedScripts(d) \cup ListedServices(d) \cup ListedJobs(d)

\* The object an id leads a save to: a part to its whole, a seed to the first
\* of its table.
Whole(id) == SubSeq(id, 1, 3)
\* mutant: an id is looked up whole, part and all
RequiredUnparsed(d, id) ==
    id[1] \in {"application", "yaml"} \/ id \in Objects(d) \/ \E i \in 1 .. Len(d.seeds) : d.seeds[i].table = id[2]
Required(d, id) ==
    CASE id[1] \in {"application", "yaml"} -> TRUE
      [] id[1] = "seed" -> \E i \in 1 .. Len(d.seeds) : d.seeds[i].table = id[2]
      [] OTHER -> Whole(id) \in Objects(d)

\* Whether an id is marked as published.
Marked(a, id) ==
    CASE id[1] \in {"application", "yaml"} -> TRUE
      [] id[1] = "seed" -> id[3] <= Len(live[a].seeds) /\ live[a].seeds[id[3]].table = id[2]
      [] OTHER -> Whole(id) \in Objects(live[a])

(***************************************************************************)
(* Properties                                                              *)
(***************************************************************************)
\* Every script a published trigger, schedule or enabled endpoint calls is
\* published, in its own app or as a public method of a dependency, until a
\* dependency publishes again (validateMethodCall reads published definitions).
LiveCallsLive ==
    \A a \in Apps : (\A b \in Apps \ {a} : live[b] = based[a][b]) =>
        \A k \in Objects(live[a]) : k[1] # "tableTrigger" /\ Checked(live[a], k) =>
            \A m \in RefsOf(live[a], k, "method") :
                \/ m \in Objects(live[a])
                \/ \E b \in Dependencies(live[a]) \ {a} : m \in Objects(live[b]) /\ live[b].objs[m].on

\* Two apps have declared one table, now or earlier (validateAppDefinitionTableName
\* compares prefixes only): the validation looks from the app it validates at every
\* table of a chain, the runtime from the app of the table below, and they may
\* then find different tables.
Contested == \E t \in AllTables : \E a, b \in owners[t] : a # b

\* No table inherits from itself across apps, unless a save overlapped a change
\* of another app (each validation sees the other app as it was when read) or two
\* apps have declared one table.
NoInheritanceCycle ==
    ~overtaken /\ ~Contested => \A a \in Apps : \A t \in TablesOf[a] :
        ~Cyclic(Merged(draft), t)

\* The fields a draft's forms and lists name are columns the runtime resolves,
\* as long as the other apps are as they were when the draft was validated and no
\* two apps have declared one table: the validator and the resolver follow
\* inheritance in two different functions.
FieldsResolve ==
    ~Contested => \A a \in Apps : (\A b \in Apps \ {a} : draft[b] = seen[a][b]) =>
        \A k \in Objects(draft[a]) : k[1] \in {"form", "list"} =>
            RefsOf(draft[a], k, "column") \subseteq ResolvedColumns(a, k[2])

\* Every id the explorer lists, of an object or of one of its parts, leads a
\* save to an object, and a draft with nothing unpublished is marked published
\* throughout, but for inherited columns: they are listed as editable, never
\* found and never marked.
ListedFound ==
    \A a \in Apps : \A id \in Listed(a) :
        LET inherited == id[1] = "column" /\ id \notin Objects(draft[a]) IN
        /\ inherited => Parent(draft[a].objs, id[2]) # None
        /\ ~inherited => Required(draft[a], id) /\ (draft[a] = live[a] => Marked(a, id))

\* An edit changes nothing in the draft it read but what the user named, and of
\* that only what the form posts (a form's layout keeps its roles, a table's
\* properties keep what it extends), except that saving a table's properties
\* empties its forms and lists, a table gets a default display field, and rows
\* saved for a seed reach an earlier seed of its table.
ChangedSeeds(d, e) == {i \in 1 .. Len(d.seeds) : d.seeds[i] # e.seeds[i]}
KeptOf(c, posted) == [on |-> IF "on" \in posted THEN FALSE ELSE c.on, refs |-> {r \in c.refs : r[1] \notin posted}]
EditIsLocal ==
    [][\A r \in Requests : (req[r].pc = "edit" /\ req'[r] # req[r] /\ draft' # draft) =>
        LET before == req[r].drafts[req[r].app]
            after == draft'[req[r].app]
            named == req'[r].touched
            differs == {k \in Objects(before) \cup Objects(after) :
                            ~(k \in Objects(before) /\ k \in Objects(after)) \/ before.objs[k] # after.objs[k]}
        IN  /\ \A k \in differs :
                \/ /\ k \in named
                   /\ k \in Objects(before) /\ k \in Objects(after) =>
                        KeptOf(before.objs[k], req'[r].posted) = KeptOf(after.objs[k], req'[r].posted)
                \/ k[1] \in {"form", "list"} /\ Table(k[2]) \in named
                \/ k[1] = "table" /\ k \in Objects(before) /\ k \in Objects(after)
                                 /\ before.objs[k].refs \subseteq after.objs[k].refs
            /\ Len(after.seeds) = Len(before.seeds) =>
                \A i \in ChangedSeeds(before, after) :
                    \E j \in i .. Len(before.seeds) : <<"seed", before.seeds[i].table, j>> \in named]_vars
=============================================================================
