------------------------------- MODULE BootSync -------------------------------
(***************************************************************************)
(* What every start does to the database before it serves (db/Migrations.go *)
(* RunMigrations, cmd/server/bootstrap.go): apply the migration files that *)
(* are not recorded, repair definitions of older versions, bring the       *)
(* system, base and bundled apps up to date, write the pages, create the   *)
(* first user.  Nothing locks the database for the whole of it: servers of *)
(* two builds and the helper commands start side by side, people edit apps *)
(* on a server that is already up, and a process may stop anywhere.        *)
(*                                                                         *)
(* A definition is the set of its items; an item is its kind, its name and *)
(* its text.                                                               *)
(***************************************************************************)
EXTENDS Integers, Sequences, FiniteSets, SequencesExt, FiniteSetsExt

CONSTANTS
    Procs,        \* processes that start
    Builds,       \* [files : migration -> content, ships : app -> definition]
    InitialStates, \* [recorded, ran, physical, apps]: databases at the start, a bound
    Edits,        \* what people add to definitions
    Null,
    MaxStarts, MaxEdits, MaxStops   \* bounds

VARIABLES
    recorded,     \* _schema_migration: version -> checksum or Null
    ran,          \* history: the migrations that ran, in order
    physical,     \* the _tables that exist
    apps,         \* _app: name -> its row
    pages,        \* _page: app -> its page
    route,        \* the property that says where signed-in users land
    registry,     \* the property with the names of bundled apps, or Null
    records,      \* seeded rows: id -> [value, deleted]
    users,        \* users, by who created them
    proc,         \* process -> [pc, build, copy, todo]
    lock,         \* who holds the advisory lock of the first user
    quiet,        \* history: processes nobody interfered with since they started
    kept,         \* history: edits saved while nothing started that no later
                  \* edit replaced; when starts overlap, those of the base app
    starts, edits, stops

db == <<recorded, ran, physical, apps, pages, route, registry, records, users>>
vars == <<db, proc, lock, quiet, kept, starts, edits, stops>>

-----------------------------------------------------------------------------
(* Definitions.                                                            *)

M042 == 42  M043 == 43  M047 == 47  M070 == 70  M076 == 76
OwnApps == {"system", "base"}
TaskDefinition == "task_definition"             \* a second app of base's namespace
UserTable == "_user"
TokenTable == "_agent_api_token"
SystemTables == {UserTable, TokenTable}
Table(t) == <<"table", t, "physical">>          \* a description as the database has it
Old(t) == <<"table", t, "other">>               \* and one that differs
Legacy == <<"script", "report", "source">>      \* scripts at the top level
Open == <<"endpoint", "report", "no roles">>    \* an entry point without roles
Closed == <<"endpoint", "report", "authenticated">>
WorkOrders == <<"table", "base_task", "work orders">>   \* the task model before it was renamed
Tasks == <<"table", "base_task", "tasks">>
Observability == <<"table", "base_observable", "shipped">>
Catalog == <<"table", "base_task_definition", "shipped">>   \* what task_definition contributes
Landing == <<"page", "landing", "shipped">>
OwnLanding == <<"page", "landing", "own">>      \* the same page rewritten by somebody
TaskRoute == "/task"
Seed(table, key, value) == <<"seed", table, key, value>>

\* f with v at key a, and f over g.
Put(f, a, v) == [x \in DOMAIN f \cup {a} |-> IF x = a THEN v ELSE f[x]]
Over(f, g) == [x \in DOMAIN f \cup DOMAIN g |-> IF x \in DOMAIN f THEN f[x] ELSE g[x]]

Row(draft, published, dv, pv) == [draft |-> draft, published |-> published, dv |-> dv, pv |-> pv]
\* Items of one kind and name are one item; of seeds and dependencies there can
\* be many.
KeyOf(i) == IF i[1] \in {"seed", "dependency"} THEN i ELSE <<i[1], i[2]>>
Replacing(d, e) == {i \in d : KeyOf(i) # KeyOf(e)} \cup {e}
PageOf(d) == d \cap {Landing, OwnLanding}
SeedsOf(d) == {i \in d : i[1] = "seed"}

\* ParseAppDefinition refuses scripts, and one app that does not parse fails
\* the list of all; ValidateAppDefinition refuses entry points without roles.
Listable(table) == \A app \in DOMAIN table : Legacy \notin table[app].published
Valid(d) == Open \notin d

\* The passes, on one definition.
Unscripted(d) == IF Legacy \in d THEN (d \ {Legacy}) \cup {Closed} ELSE d
Backfilled(d) == IF Open \in d THEN (d \ {Open}) \cup {Closed} ELSE d
WithPhysical(d, tables) == (d \ {Old(t) : t \in tables}) \cup {Table(t) : t \in tables}
Described(d) == {t \in SystemTables : Table(t) \in d \/ Old(t) \in d}
WithLanding(d) == IF OwnLanding \in d THEN d ELSE d \cup {Landing}
Simplified(d) == (d \ {WorkOrders}) \cup {Tasks}
Observed(d) == d \cup {Observability}

\* composeOOTBBaseDefinition: the label is base's, the description is the
\* code's and nothing depends on the two apps.  Of every other kind, what the
\* system app says comes first and base's items of the same name are left out.
Rewritten(i) == i[1] = "description" \/ (i[1] = "dependency" /\ i[2] \in OwnApps)
Unlabelled(d) == {i \in d : i[1] # "label"}
BaseFirst(system, base) ==                                                  \* mutant
    {i \in base \cup Unlabelled(system) :
        ~Rewritten(i) /\ (i \notin base => \A b \in base : KeyOf(b) # KeyOf(i))}
MergedByName(system, base) ==
    {i \in Unlabelled(system) \cup base :
        ~Rewritten(i) /\ (i \notin Unlabelled(system) => \A s \in Unlabelled(system) : KeyOf(s) # KeyOf(i))}
Composed(system, base) == WithLanding(MergedByName(system, base))

\* A seeded row's id is made of app, table and _seed_key; a row without a key
\* counts as one whose key is Null, and a key names one table only.
SeedId(app, seed) == <<app, seed[2], seed[3]>>
KeyClash(d) == \E s, t \in SeedsOf(d) : s[3] = t[3] /\ s[2] # t[2]

\* The CASE of every sync: a column that changes gets a version above both.
Above(row) == IF row.dv < row.pv THEN row.pv + 1 ELSE row.dv + 1
DraftOnly(row, draft, published) ==                                         \* mutant
    Row(draft, row.published, IF row.draft = draft THEN row.dv ELSE Above(row), row.pv)
Synced(row, draft, published) ==
    Row(draft, published, IF row.draft = draft THEN row.dv ELSE Above(row),
                          IF row.published = published THEN row.pv ELSE Above(row))
\* WHERE name = $1 OR namespace = $1: the app, and others of its namespace.
NamespaceOf(app) == IF app = TaskDefinition THEN "base" ELSE app
Matching(table, name) == {app \in DOMAIN table : name \in {app, NamespaceOf(app)}}
Update(table, name, draft, published) ==
    [app \in DOMAIN table |->
        IF app \in Matching(table, name) THEN Synced(table[app], draft, published) ELSE table[app]]

-----------------------------------------------------------------------------
(* Releases and the databases they find.                                   *)

\* "Migration files are append-only" (CHANGELOG.md): a release adds files after
\* those of the one before.  It ships no app named like those of the files, and
\* no two seeds of an app have the same id.
FilesOf(b) == DOMAIN Builds[b].files
ASSUME ReleaseAssumption ==
    \A b \in DOMAIN Builds :
        /\ FilesOf(b) \subseteq Nat /\ {M042, M047} \subseteq FilesOf(b)
        /\ \A c \in DOMAIN Builds : \A v \in FilesOf(b), w \in FilesOf(c) : v < w => v \in FilesOf(c)
        /\ DOMAIN Builds[b].ships \cap (OwnApps \cup {TaskDefinition}) = {}
        /\ \A app \in DOMAIN Builds[b].ships : \A s, t \in SeedsOf(Builds[b].ships[app]) :
              SeedId(app, s) = SeedId(app, t) => s = t

\* A database starts with the files up to some file applied, in order.  042
\* brings the system app, 047 the base app and 076 task_definition; what the
\* base app describes of the system's tables exists, and base's own tables are
\* not the system's: the names of the two begin differently.
ASSUME DatabaseAssumption ==
    \A s \in InitialStates :
        /\ s.recorded = [v \in DOMAIN s.recorded |-> s.recorded[v]]
        /\ s.apps = [app \in DOMAIN s.apps |-> s.apps[app]]
        /\ s.ran \in Seq(Nat) /\ ToSet(s.ran) = DOMAIN s.recorded
        /\ \A i, j \in DOMAIN s.ran : i < j => s.ran[i] < s.ran[j]
        /\ \A b \in DOMAIN Builds : \A v \in FilesOf(b), w \in DOMAIN s.recorded : v < w => v \in DOMAIN s.recorded
        /\ s.physical \subseteq SystemTables
        /\ \A app \in DOMAIN s.apps :
              LET row == s.apps[app] IN
              /\ row = Row(row.draft, row.published, row.dv, row.pv)
              /\ app = "system" => /\ M042 \in DOMAIN s.recorded
                                  /\ \A i \in row.draft \cup row.published, b \in {Tasks, Observability} : KeyOf(i) # KeyOf(b)
              /\ app = "base" => M047 \in DOMAIN s.recorded /\ Described(row.published) \subseteq s.physical
              /\ app = TaskDefinition => M076 \in DOMAIN s.recorded
        /\ M047 \in DOMAIN s.recorded => "base" \in DOMAIN s.apps

\* What a pass writes anew at every start is the release's; people edit the
\* rest, the landing page, and things that the two apps both have.
Known == {Legacy, Open, Closed, WorkOrders, Tasks, Observability} \cup {Table(t) : t \in SystemTables}
ASSUME EditAssumption ==
    \A e \in Edits : /\ \A i \in Known : KeyOf(e) # KeyOf(i)
                     /\ KeyOf(e) = KeyOf(Landing) => e = OwnLanding
ASSUME NullAssumption == Null \notin Procs /\ Null # TaskRoute

-----------------------------------------------------------------------------
(* Processes.                                                              *)

\* An edit of the system or the base app that the merge keeps.
Lasting(app, e) ==
    /\ app \in OwnApps /\ ~Rewritten(e)
    /\ app = "system" => e[1] # "label"
    /\ app = "base" /\ "system" \in DOMAIN apps =>
          \A i \in Unlabelled(apps["system"].draft) \cup {Landing} : KeyOf(i) # KeyOf(e)

Idle == [pc |-> "down", build |-> Null, copy |-> Null, todo |-> {}]

Init ==
    /\ \E s \in InitialStates :
         recorded = s.recorded /\ ran = s.ran /\ physical = s.physical /\ apps = s.apps
    /\ pages = [app \in {} |-> {}] /\ route = Null /\ registry = Null
    /\ records = [id \in {} |-> {}] /\ users = {}
    /\ proc = [p \in Procs |-> Idle] /\ lock = Null
    /\ quiet = {} /\ kept = {e \in Edits : \E app \in DOMAIN apps : e \in apps[app].draft /\ Lasting(app, e)}
    /\ starts = 0 /\ edits = 0 /\ stops = 0

At(p, pc) == proc[p].pc = pc
Turn(p, pc, copy, todo) ==
    proc' = [proc EXCEPT ![p] = [pc |-> pc, build |-> proc[p].build, copy |-> copy, todo |-> todo]]
Go(p, pc) == Turn(p, pc, proc[p].copy, proc[p].todo)
Copy(p, pc) == Turn(p, pc, apps, proc[p].todo)
Did(p, pc, item) == Turn(p, pc, proc[p].copy, proc[p].todo \ {item})
Ended == {"down", "up", "failed"}
Booting(p) == proc[p].pc \notin Ended
Nobody == ~\E p \in Procs : Booting(p)
Build(p) == Builds[proc[p].build]
Files(p) == DOMAIN Build(p).files

Noticed(p) == quiet' = IF db' = db THEN quiet ELSE quiet \cap {p}
Counters == <<kept, starts, edits, stops>>
Own == UNCHANGED <<lock, Counters>>

\* Start: the table of migrations, what it holds, and the files are compared.
Start(p) ==
    /\ At(p, "down") /\ starts < MaxStarts /\ starts' = starts + 1
    /\ \E b \in DOMAIN Builds :
         proc' = [proc EXCEPT ![p] = [pc |-> "verify", build |-> b, copy |-> recorded, todo |-> {}]]
    /\ quiet' = quiet \cup {p}
    /\ kept' = IF Nobody THEN kept ELSE {e \in kept : "base" \in DOMAIN apps /\ e \in apps["base"].draft}
    /\ UNCHANGED <<db, lock, edits, stops>>

\* A recorded file that changed or left the build ends the start; one without
\* a checksum gets the one of the file.
Mismatched(p, version) ==
    LET sum == proc[p].copy[version]
    IN version \notin Files(p) \/ sum \notin {Null, Build(p).files[version]}
Verify(p) ==
    /\ At(p, "verify")
    /\ IF \E version \in DOMAIN proc[p].copy : Mismatched(p, version)
         THEN Go(p, "failed") /\ UNCHANGED recorded
         ELSE /\ recorded' = [version \in DOMAIN recorded |->
                                 IF recorded[version] = Null /\ version \in DOMAIN proc[p].copy
                                   THEN Build(p).files[version] ELSE recorded[version]]
              /\ Turn(p, "migrate", proc[p].copy, Files(p) \ DOMAIN proc[p].copy)
    /\ UNCHANGED <<ran, physical, apps, pages, route, registry, records, users>>
    /\ Noticed(p) /\ Own

\* What the files do that matters here.
RunsOver(version) == version = M043 => UserTable \in physical
AppsAfter(version) ==
    IF version = M042 THEN Put(apps, "system", Row({Table(UserTable)}, {Table(UserTable)}, 1, 1))
    ELSE IF version = M047 THEN Put(apps, "base", Row({WorkOrders}, {WorkOrders}, 1, 1))
    ELSE IF version = M076 THEN Put(apps, TaskDefinition, Row({Catalog}, {Catalog}, 1, 1))
    ELSE apps

\* The file and its record commit together; a file that another process has
\* recorded meanwhile fails on the key.
Rerun(version) == TRUE                                                      \* mutant
FirstRun(version) == version \notin DOMAIN recorded
ApplyMigration(p) ==
    /\ At(p, "migrate") /\ proc[p].todo # {}
    /\ LET version == Min(proc[p].todo) IN
       IF FirstRun(version) /\ RunsOver(version)
         THEN /\ recorded' = Put(recorded, version, Build(p).files[version])
              /\ ran' = Append(ran, version)
              /\ apps' = AppsAfter(version)
              /\ physical' = physical \cup (IF version = M070 THEN {TokenTable} ELSE {})
              /\ Did(p, IF version = M042 THEN "after042" ELSE "migrate", version)
         ELSE Go(p, "failed") /\ UNCHANGED <<recorded, ran, apps, physical>>
    /\ UNCHANGED <<pages, route, registry, records, users>>
    /\ Noticed(p) /\ Own

\* EnsureRequiredSystemTablesAfter042, a transaction of its own.
After042(p) ==
    /\ At(p, "after042")
    /\ IF ~Listable(apps) THEN Go(p, "failed") /\ UNCHANGED physical
       ELSE /\ Go(p, "migrate")
            /\ physical' = IF "system" \in DOMAIN apps
                             THEN physical \cup ({UserTable} \cap Described(apps["system"].published)) ELSE physical
    /\ UNCHANGED <<recorded, ran, apps, pages, route, registry, records, users>>
    /\ Noticed(p) /\ Own

-----------------------------------------------------------------------------
(* Passes over the definitions: read them, write them back later.          *)

Apps == UNCHANGED <<recorded, ran, physical, pages, route, registry, records, users>>

\* MigrateLegacyScriptDefinitions and MigrateEntryPointRoles list all apps and
\* update those that change, one by one and without a new version.
Done(p, pc) == At(p, pc) /\ proc[p].todo = {}
ReadLegacy(p) ==
    /\ Done(p, "migrate")
    /\ Turn(p, "legacyw", apps, DOMAIN apps)
    /\ UNCHANGED <<db, quiet>> /\ Own
ReadRoles(p) ==
    /\ Done(p, "legacyw")
    /\ Turn(p, "rolesw", apps, DOMAIN apps)
    /\ UNCHANGED <<db, quiet>> /\ Own
RewriteEach(p, Pass(_), here) ==
    /\ At(p, here)
    /\ \E app \in proc[p].todo :
         LET old == proc[p].copy[app] IN
         /\ Did(p, here, app)
         /\ apps' = IF app \in DOMAIN apps /\ (Pass(old.draft) # old.draft \/ Pass(old.published) # old.published)
                      THEN [apps EXCEPT ![app] = Row(Pass(old.draft), Pass(old.published), @.dv, @.pv)]
                      ELSE apps
    /\ Apps /\ Noticed(p) /\ Own
WriteLegacy(p) == RewriteEach(p, Unscripted, "legacyw")
WriteRoles(p) == RewriteEach(p, Backfilled, "rolesw")

\* SyncSystemAppDefinitionWithPhysicalTables; once the apps are one, "system"
\* means base.
SystemName(table) == IF "system" \in DOMAIN table THEN "system" ELSE "base"
ReadSystem(p) ==
    /\ Done(p, "rolesw")
    /\ IF ~Listable(apps) THEN Go(p, "refused")
       ELSE IF SystemName(apps) \in DOMAIN apps THEN Copy(p, "systemtables") ELSE Go(p, "task")
    /\ UNCHANGED <<db, quiet>> /\ Own
\* Tables the published definition describes and the database lacks.
CreateSystemTables(p) ==
    /\ At(p, "systemtables")
    /\ IF ~Listable(apps) THEN Go(p, "refused") /\ UNCHANGED physical
       ELSE /\ Go(p, "systemw")
            /\ physical' = physical \cup Described(proc[p].copy[SystemName(proc[p].copy)].published)
    /\ UNCHANGED <<recorded, ran, apps, pages, route, registry, records, users>>
    /\ Noticed(p) /\ Own

\* The definitions of one app, written where they changed and are valid.
SyncApp(p, app, draft, published, next) ==
    LET old == proc[p].copy[app] IN
    IF draft = old.draft /\ published = old.published THEN Go(p, next) /\ UNCHANGED apps
    ELSE IF ~Listable(apps) \/ ~Valid(draft) \/ ~Valid(published) THEN Go(p, "refused") /\ UNCHANGED apps
    ELSE Go(p, next) /\ apps' = Update(apps, app, draft, published)
WriteSystem(p) ==
    /\ At(p, "systemw")
    /\ LET app == SystemName(proc[p].copy)
           Pass(d) == WithLanding(WithPhysical(d, physical))
       IN SyncApp(p, app, Pass(proc[p].copy[app].draft), Pass(proc[p].copy[app].published), "landing")
    /\ Apps /\ Noticed(p) /\ Own

\* syncSystemLandingPageAndRoute: the page of the published definition, and a
\* route where there is none that can be followed.
RouteAfter(now) == IF now = Null THEN TaskRoute ELSE now
PagesAfter(app, d) == IF PageOf(d) = {} THEN pages ELSE Put(pages, app, PageOf(d))
ShowLanding(p, d, next) ==
    /\ route' = RouteAfter(route) /\ pages' = PagesAfter("base", d) /\ Go(p, next)
    /\ UNCHANGED <<recorded, ran, physical, apps, registry, records, users>>
    /\ Noticed(p) /\ Own
SystemLanding(p) ==
    /\ At(p, "landing")
    /\ ShowLanding(p, WithLanding(proc[p].copy[SystemName(proc[p].copy)].published), "task")

\* SyncBaseAppDefinitionTaskModel, SyncBaseObservabilityDefinition.
ReadBase(p, here, there, none) ==
    /\ At(p, here)
    /\ IF ~Listable(apps) THEN Go(p, "refused")
       ELSE IF "base" \in DOMAIN apps THEN Copy(p, there) ELSE Go(p, none)
    /\ UNCHANGED <<db, quiet>> /\ Own
WriteBase(p, Pass(_), here, next) ==
    /\ At(p, here)
    /\ SyncApp(p, "base", Pass(proc[p].copy["base"].draft), Pass(proc[p].copy["base"].published), next)
    /\ Apps /\ Noticed(p) /\ Own
ReadTask(p) == ReadBase(p, "task", "taskw", "obs")
WriteTask(p) == WriteBase(p, Simplified, "taskw", "obs")
ReadObservability(p) == ReadBase(p, "obs", "obsw", "compose")
WriteObservability(p) == WriteBase(p, Observed, "obsw", "compose")

\* SyncOOTBBaseAppDefinition: system and base become one row.
ReadOOTB(p) == ReadBase(p, "compose", "composew", "bundled")
SystemOf(p, column) ==
    IF "system" \in DOMAIN proc[p].copy THEN proc[p].copy["system"][column] ELSE {}
ComposedBase(p, column) == Composed(SystemOf(p, column), proc[p].copy["base"][column])
WriteOOTB(p) ==
    /\ At(p, "composew")
    /\ IF ~Listable(apps) \/ ~Valid(ComposedBase(p, "draft")) \/ ~Valid(ComposedBase(p, "published"))
         THEN Go(p, "refused") /\ UNCHANGED apps
         ELSE /\ Go(p, "landing2")
              /\ LET gone == IF "system" \in DOMAIN proc[p].copy THEN Matching(apps, "system") ELSE {}
                 IN apps' = [app \in DOMAIN apps \ gone |->
                                IF app = "base" THEN Synced(apps[app], ComposedBase(p, "draft"), ComposedBase(p, "published"))
                                ELSE apps[app]]
    /\ Apps /\ Noticed(p) /\ Own
OOTBLanding(p) == At(p, "landing2") /\ ShowLanding(p, ComposedBase(p, "published"), "bundled")

-----------------------------------------------------------------------------
(* Bundled apps, pages and the first user.                                 *)

\* loadBundledAppRegistry; without one it is the app that used to be bundled.
DefaultNames == {"velm"}
Shipped(p) == DOMAIN Build(p).ships
Managed == IF registry = Null THEN DefaultNames ELSE registry
Unbundled(p) == Shipped(p) = {} /\ proc[p].copy = DefaultNames
ReadBundled(p) ==
    /\ At(p, "bundled")
    /\ Turn(p, "upsert", Managed, Shipped(p))
    /\ UNCHANGED <<db, quiet>> /\ Own

\* syncBundledAppDefinition: one statement makes the file's definition draft
\* and published; a second transaction brings tables and seeds.
UpsertBundled(p) ==
    /\ At(p, "upsert") /\ proc[p].todo # {}
    /\ LET app == CHOOSE a \in proc[p].todo : TRUE
           d == Build(p).ships[app]
       IN IF ~Listable(apps) \/ ~Valid(d) THEN Go(p, "refused") /\ UNCHANGED apps
          ELSE /\ Go(p, "seed")
               /\ apps' = IF app \in DOMAIN apps THEN [apps EXCEPT ![app] = Synced(@, d, d)]
                          ELSE Put(apps, app, Row(d, d, 1, 1))
    /\ Apps /\ Noticed(p) /\ Own

NoRecord == [value |-> Null, deleted |-> FALSE]
Restored(old, seed) == [value |-> seed[4], deleted |-> FALSE]               \* mutant
Upserted(old, seed) == [value |-> seed[4], deleted |-> old.deleted]
Seeded(app, d) ==
    Over([id \in {SeedId(app, s) : s \in SeedsOf(d)} |->
            LET seed == CHOOSE s \in SeedsOf(d) : SeedId(app, s) = id
            IN Upserted(IF id \in DOMAIN records THEN records[id] ELSE NoRecord, seed)],
         records)
SeedBundled(p) ==
    /\ At(p, "seed")
    /\ LET app == CHOOSE a \in proc[p].todo : TRUE IN
       IF ~Listable(apps) \/ (app \in DOMAIN apps /\ KeyClash(apps[app].published))
         THEN Go(p, "failed") /\ UNCHANGED records
         ELSE /\ Did(p, "upsert", app)
              /\ records' = IF app \in DOMAIN apps THEN Seeded(app, apps[app].published) ELSE records
    /\ UNCHANGED <<recorded, ran, physical, apps, pages, route, registry, users>>
    /\ Noticed(p) /\ Own
UpsertedAll(p) ==
    /\ Done(p, "upsert")
    /\ Turn(p, "prune", IF Unbundled(p) THEN DefaultNames ELSE Shipped(p),
                        IF Unbundled(p) THEN {} ELSE proc[p].copy \ Shipped(p))
    /\ UNCHANGED <<db, quiet>> /\ Own

\* pruneBundledAppDefinition: the app is read; pages and seeds of the definition
\* read and the row itself go in one transaction.
ReadPruned(p) ==
    /\ At(p, "prune")
    /\ \E app \in proc[p].todo :
         IF ~Listable(apps) THEN Go(p, "refused")
         ELSE IF app \in DOMAIN apps THEN Turn(p, "prunew", <<proc[p].copy, app, apps[app].published>>, proc[p].todo)
         ELSE Did(p, "prune", app)
    /\ UNCHANGED <<db, quiet>> /\ Own
PruneBundled(p) ==
    /\ At(p, "prunew")
    /\ LET names == proc[p].copy[1]
           app == proc[p].copy[2]
           d == proc[p].copy[3]
       IN /\ Turn(p, "prune", names, proc[p].todo \ {app})
          /\ apps' = [a \in DOMAIN apps \ Matching(apps, app) |-> apps[a]]
          /\ pages' = [a \in DOMAIN pages \ (IF PageOf(d) = {} THEN {} ELSE {app}) |-> pages[a]]
          /\ records' = [id \in DOMAIN records \ {SeedId(app, s) : s \in SeedsOf(d)} |-> records[id]]
    /\ UNCHANGED <<recorded, ran, physical, route, registry, users>>
    /\ Noticed(p) /\ Own
SaveRegistry(p) ==
    /\ Done(p, "prune")
    /\ registry' = proc[p].copy /\ Go(p, "pages")
    /\ UNCHANGED <<recorded, ran, physical, apps, pages, route, records, users>>
    /\ Noticed(p) /\ Own

\* SyncPublishedAppPages: the pages of all published definitions.
ReadPages(p) ==
    /\ At(p, "pages")
    /\ IF Listable(apps) THEN Copy(p, "pagesw") ELSE Go(p, "refused")
    /\ UNCHANGED <<db, quiet>> /\ Own
WritePages(p) ==
    /\ At(p, "pagesw")
    /\ LET shown == {a \in DOMAIN proc[p].copy : PageOf(proc[p].copy[a].published) # {}}
       IN pages' = Over([a \in shown |-> PageOf(proc[p].copy[a].published)], pages)
    /\ Go(p, "first")
    /\ UNCHANGED <<recorded, ran, physical, apps, route, registry, records, users>>
    /\ Noticed(p) /\ Own

\* BootstrapFirstUser looks for users under an advisory lock.
Unlocked(p) == TRUE                                                        \* mutant
MayLock(p) == lock = Null
LookForUsers(p) ==
    /\ At(p, "first") /\ MayLock(p)
    /\ IF users = {} THEN lock' = p /\ Go(p, "firstw") ELSE UNCHANGED lock /\ Go(p, "up")
    /\ UNCHANGED <<db, quiet, Counters>>
CreateFirstUser(p) ==
    /\ At(p, "firstw")
    /\ users' = users \cup {<<"first", p>>} /\ lock' = Null /\ Go(p, "up")
    /\ UNCHANGED <<recorded, ran, physical, apps, pages, route, registry, records, Counters>>
    /\ Noticed(p)
\* BootstrapUser of the helper command, without the lock.
HelperUser(p) ==
    /\ At(p, "first")
    /\ users' = users \cup {<<"helper", p>>} /\ Go(p, "up")
    /\ UNCHANGED <<recorded, ran, physical, apps, pages, route, registry, records>>
    /\ Noticed(p) /\ Own

\* A process ends, or dies wherever it is; an open transaction is undone.
Exit(p) ==
    /\ proc[p].pc \in {"failed", "refused"}
    /\ proc' = [proc EXCEPT ![p] = Idle] /\ quiet' = quiet \ {p}
    /\ UNCHANGED <<db, lock, Counters>>
Stop(p) ==
    /\ ~At(p, "down") /\ stops < MaxStops /\ stops' = stops + 1
    /\ proc' = [proc EXCEPT ![p] = Idle] /\ quiet' = quiet \ {p}
    /\ lock' = IF lock = p THEN Null ELSE lock
    /\ UNCHANGED <<db, kept, starts, edits>>

-----------------------------------------------------------------------------
(* People, on a server that is up.                                         *)

Serving == \E p \in Procs : At(p, "up")
Edited == Serving /\ edits < MaxEdits /\ edits' = edits + 1 /\ quiet' = {} /\ UNCHANGED <<proc, lock, starts, stops>>

\* appUsesOOTBLandingPage: the base app does once it has no namespace, that is
\* once it is the system app too.  A definition that names another app is
\* refused, and base's is the one with the task model.
ShowsLanding(app) == app = "system" \/ (app = "base" /\ "system" \notin DOMAIN apps)
Landed(app, d) == IF ShowsLanding(app) THEN WithLanding(d) ELSE d
NamedFor(app, d) == Tasks \in d => app = "base"
Accepted(app, d) == Listable(apps) /\ Valid(d) /\ NamedFor(app, d)

\* SaveAppDefinition, with an item added or changed in the draft.  The editor
\* may change the description of a system table.
SaveDraft ==
    /\ Edited
    /\ \E app \in DOMAIN apps, e \in Edits \cup {OwnLanding} \cup {Old(t) : t \in SystemTables} :
         LET draft == Landed(app, Replacing(apps[app].draft, e))
             others == {f \in kept : KeyOf(f) # KeyOf(e)}
         IN /\ Accepted(app, draft)
            /\ apps' = [a \in DOMAIN apps |->
                          IF a \in Matching(apps, app) THEN Synced(apps[a], draft, apps[a].published) ELSE apps[a]]
            /\ kept' = IF Nobody /\ e \in Edits /\ Lasting(app, e) THEN others \cup {e} ELSE others
    /\ Apps
PublishDraft ==
    /\ Edited
    /\ \E app \in DOMAIN apps :
         LET d == Landed(app, apps[app].draft) IN
         /\ Accepted(app, d)
         /\ apps' = [a \in DOMAIN apps |->
                       IF a \in Matching(apps, app) THEN Row(apps[a].draft, d, apps[a].dv, apps[a].dv) ELSE apps[a]]
         /\ pages' = PagesAfter(app, d)
         /\ route' = IF ShowsLanding(app) THEN RouteAfter(route) ELSE route
    /\ UNCHANGED <<recorded, ran, physical, registry, records, users, kept>>
\* A seeded record is deleted (softly) or changed.
TouchRecord ==
    /\ Edited
    /\ \E id \in DOMAIN records, deleted \in BOOLEAN :
         records' = [records EXCEPT ![id] = [value |-> Null, deleted |-> deleted]]
    /\ UNCHANGED <<recorded, ran, physical, apps, pages, route, registry, users, kept>>

Boot(p) ==
    \/ Start(p) \/ Verify(p) \/ ApplyMigration(p) \/ After042(p)
    \/ ReadLegacy(p) \/ WriteLegacy(p) \/ ReadRoles(p) \/ WriteRoles(p)
    \/ ReadSystem(p) \/ CreateSystemTables(p) \/ WriteSystem(p) \/ SystemLanding(p)
    \/ ReadTask(p) \/ WriteTask(p) \/ ReadObservability(p) \/ WriteObservability(p)
    \/ ReadOOTB(p) \/ WriteOOTB(p) \/ OOTBLanding(p)
    \/ ReadBundled(p) \/ UpsertBundled(p) \/ SeedBundled(p) \/ UpsertedAll(p)
    \/ ReadPruned(p) \/ PruneBundled(p) \/ SaveRegistry(p)
    \/ ReadPages(p) \/ WritePages(p)
    \/ LookForUsers(p) \/ CreateFirstUser(p) \/ HelperUser(p)
    \/ Exit(p) \/ Stop(p)
Next == (\E p \in Procs : Boot(p)) \/ SaveDraft \/ PublishDraft \/ TouchRecord

Spec == Init /\ [][Next]_vars

-----------------------------------------------------------------------------
(* Properties.                                                             *)

\* Whatever starts side by side or dies, a file runs at most once and in order,
\* and it is recorded exactly if it has run (applyMigration).
MigrationsOnce ==
    /\ ToSet(ran) = DOMAIN recorded
    /\ \A i, j \in DOMAIN ran : i < j => ran[i] < ran[j]

\* A start that nobody interferes with leaves nothing for the next one to do:
\* one base app that every pass leaves alone, the system tables it describes,
\* the shipped definitions live with their seeds, pages as published.
StartSettles ==
    \A p \in quiet : At(p, "up") =>
        /\ "system" \notin DOMAIN apps
        /\ "base" \in DOMAIN apps =>
             \A d \in {apps["base"].draft, apps["base"].published} :
                /\ Backfilled(Unscripted(d)) = d
                /\ WithPhysical(d, physical) = d
                /\ Observed(Simplified(d)) = d
                /\ Composed({}, d) = d
        /\ "base" \in DOMAIN apps => Described(apps["base"].published) \subseteq physical
        /\ \A app \in Shipped(p) :
             /\ app \in DOMAIN apps /\ apps[app].draft = Build(p).ships[app] /\ apps[app].published = apps[app].draft
             /\ \A s \in SeedsOf(apps[app].published) :
                  SeedId(app, s) \in DOMAIN records /\ records[SeedId(app, s)].value = s[4]
        /\ \A app \in DOMAIN apps : PageOf(apps[app].published) # {} => pages[app] = PageOf(apps[app].published)
        /\ route # Null

\* An edit of the system or the base app that nobody replaces outlives the
\* starts that come after it, cut off anywhere: the passes write whole rows from
\* what they read before, and the merge (composeOOTBBaseDefinition) drops what
\* the other app has of the same name only.  Starts that overlap may lose what
\* is in the system app, never what is in the base app.
EditsSurvive == \A e \in kept : \E app \in OwnApps \cap DOMAIN apps : e \in apps[app].draft

\* However many servers start at once, one of them creates the first user
\* (BootstrapFirstUser).
OneFirstUser == Cardinality({u \in users : u[1] = "first"}) <= 1

\* Seeding again brings no deleted record back (seedUpdateExcludedColumn).
DeletionsStay ==
    [][\A id \in DOMAIN records \cap DOMAIN records' :
          records[id].deleted => records'[id].deleted \/ edits' # edits]_vars

\* "Later migrations (043+) reference _user, so the minimal required system
\* tables must exist before those apply on a fresh DB" (RunMigrations).
UserTableFirst ==
    \A p \in Procs : At(p, "migrate") /\ proc[p].todo # {} /\ M042 \notin proc[p].todo => UserTable \in physical

\* "more than one app legitimately contributes tables to the same prefix: 047
\* seeds 'base', 076 seeds 'task_definition' (both namespace 'base')": what the
\* second app contributes is still its own (081_drop_app_namespace_unique.sql).
ContributionStays == TaskDefinition \in DOMAIN apps => Catalog \in apps[TaskDefinition].published
=============================================================================
