# Velm: a verification project

TLA+ models of [velm](../src/README.md), a low-code platform written in Go: one
server process in front of PostgreSQL, which serves apps that its users define
at run time. The modules are translated from the code at this commit. TLC checks
them on small instances, and TLAPS proves the main properties for every value of
the constants.

Contents: [the system](#1-the-system) · [plan](#2-plan) ·
[modules and code](#3-modules-and-code) · [runs](#4-runs) ·
[proofs](#5-proofs) · [divergences found](#6-divergences-found) ·
[limits](#7-limits)

## 1. The system

Everything runs in one Go process (`cmd/server`): one goroutine for each request,
a worker for derived observability, a janitor for presence, and PostgreSQL
through one pgx pool. Nothing forbids a second process on the same database: the
migration command (`cmd/migrate`) and a new release run beside the old one.

The parts of the core, with the state they keep, what changes it, what is hard
about it and what makes it right:

| Component | State | Operations | Hard | Right when |
| --- | --- | --- | --- | --- |
| Derived-observability queue (`internal/db/ObservabilityQueue.go`) | a buffered channel, a `stopping` flag under a lock, counters | enqueue, start, stop; the worker's receive, coalesce, emit | a send against `close`, one deadline for a whole batch, a script that hangs | accepted jobs are emitted once and in order, no send meets the closed channel, a request never waits |
| App definition lifecycle (`AppDefinition.go`, `AppPublish.go`, `AppBuilder.go`, `BundledApps.go`) | one `_app` row with draft and published definition and two versions; the physical tables | save draft, publish, the schema builder, the sync of a bundled app | everything is read before its transaction; two transactions for one sync; an old and a new release | the live definition has its tables, versions name drafts, "in sync" is true |
| Record saves (`HandleSave.go`, `handleBulkUpdate.go`, `ScriptOps.go`, `form-view.html`) | a record and its version, the page's copy, the audit trail | save with and without expected version, bulk update, script update, realtime event | the snapshot is older than the transaction; what follows the commit can be lost; the page keeps its own copy | no silent overwriting, an exact and complete audit trail |
| Realtime hub (`internal/realtime/hub.go`, `handleRealtime.go`) | presence entries, subscriptions with bounded buffers | heartbeat, leave, publish, stream, janitor | snapshots taken under the lock and sent outside it; full buffers drop | a settled page shows who is there; nobody waits for a page |
| Last administrator guard (`AuthzAdmin.go`, `AuthzEffective.go`) | assignments, groups, inheritance, permissions | grant, revoke (four queries), edits as records | check, count and delete are separate transactions; a recursive count | a revocation does not take the last global administrator |
| Permission cache (`AuthzQueries.go`) | answers with an expiry | lookup, query, store; invalidations by every writer | an answer stored after the invalidation that was meant for it; writers without one | no answer older than the TTL; every wrong entry has a known reason |
| Docs articles (`handleDocs.go`, `docs-view.html`) | articles, snapshots, the slug an open page keeps | save, create, archive | an article is addressed by a slug that can change; lost answers | snapshots numbered without a gap; a page keeps to its article |
| Connection pool (`ConnectToDB.go` and its users) | connections, the queue of waiters | acquire, release, cancel, in the order each handler asks | handlers that hold one connection while they wait for another | a request ends, whatever fails |
| Session versions and login (`SessionSecurity.go`, `sessionVersionMiddleware.go`, `loginPostHandler.go`) | a version for each user, a role in each session | login, check, bump | the role is read before the version; bumps follow the commit and look users up in the new tables | every session with an outdated role has a bump to come, or a known reason; an ended session stays ended |
| Boot (`Migrations.go`, `bootstrap.go`, `BootstrapUser.go`, `BundledApps.go`, the `*Sync.go` files) | applied versions; the system, base and bundled apps; seeds, pages, the first user | migrate, backfill, compose, sync, prune, seed | crashes between transactions, two servers of two builds, users at work meanwhile | files run once and in order, a start leaves the next nothing to do, nobody's edits or deletions are undone |
| Schema jobs and column requests (`BuilderSchemaJobs.go`, `AppBuilder.go`) | one table, its columns in the definition, jobs with their steps | plan, execute, mark; add, change, drop a column | plans made before any lock, marks through a second connection, table locks | a job's status tells what happened; table and definition keep in step |
| Auto numbers (`AutoNumber.go`, migrations 051 and 058) | counters, triggers, the numbers of records | the trigger of each write; renumbering by column changes and publishes; prune | rows of counters locked to the end of a transaction, numbers people type, `LPAD` | no number given twice, the next one free, single saves never in a circle |
| Security rules (`SecurityRules.go` and all who ask them) | rules in the definition, rows, roles | lists, pages, preview, save, bulk update, delete, restore; a script's models | rules are asked about what was read before, others change rows and roles in between | what is written was permitted, lists hold what their user may read, a preview tells what the save will do |
| Observability ingest (`BaseObservabilitySync.go`, `handleObservabilityWebhook.go`) | entities, definitions, observables, events, linked tasks | one script call for each event, in one transaction | concurrent first events; partial saves of an observable | the row shows its last event, the row decides which tasks are open |
| App editor (`handleAppEditorObjectSave.go`, `handlePageBuilder.go`, validation in `AppDefinition.go`) | the draft and the live definition of each app | list, save, delete one object; validate; publish | every branch rewrites a shared definition by hand; apps refer to each other | references resolve, no inheritance returns to its start, an edit stays local |
| Notifications, task board, saved views, search and export, agent tokens | rows | one or a few statements each | marks after the commit | — |

How they interact:

```
 browser page ──save──▶ HandleSave ──UPDATE──▶ row + version ─▶ audit, notifications
      ▲                    │  ▲                                    │
      │ record.changed     │  └── security rules, active apps      ▼
      └──── hub ◀──publish─┘         (through the same pool)   authz side effects:
 heartbeat ─▶ hub ─▶ streams                                    cache, session versions
 request ─▶ metrics ─▶ observability queue ─▶ worker ─▶ service script ─▶ records
 editor ─▶ draft ─▶ publish ─▶ tables ◀── schema builder, bundled sync
```

`HandleSave` is where most parts meet: it writes a record (RecordSave), asks for
permissions (AuthzCache), edits the tables the guard protects (AdminGuard),
publishes to the hub (PresenceHub) and holds a connection of the pool while it
asks for more (ConnPool).

`PROJECT.json` lists every component, also the ones without a model and why, and
under `hazards` what can go wrong at which line.

## 2. Plan

The order follows what a failure costs: first the parts whose errors lose or
corrupt data or stop the process.

| Step | Modules | State |
| --- | --- | --- |
| 1 | `BestEffortFifo` (abstract) ◀ `ObservabilityQueue` | checked, proved |
| 2 | `AppLifecycle` | checked, proved |
| 3 | `RecordSave` | checked, proved |
| 4 | `PresenceHub` | checked, proved |
| 5 | `AdminGuard` | checked, proved |
| 6 | `AuthzCache` | checked, proved |
| 7 | `DocsArticles` | checked, proved |
| 8 | `ConnPool` | checked, proved |
| 9 | `SessionVersion` | checked, proved |
| 10 | `DefinitionEditor` | checked, proved |
| 11 | `RecordRules`, `ObservabilityIngest` | checked, proved |
| 12 | `BootSync` | checked, proved |
| 13 | `SchemaJobs`, `AutoNumber` | checked, proved |
| 14 | notifications after a commit, as further steps of `RecordSave` | open |
| 15 | a second server process in `AuthzCache`, with a cache of its own | open |

`MCProcessState`, `MCAuthz`, `MCAppLifecycle`, `MCRecordSave`, `MCRecordRules` and
`MCSessionVersion` each put components side by side that belong to the same level of
the system and share no state in the code's transactions; see `part` in
[4](#4-runs).

Abstract specifications: `BestEffortFifo` for the queue. Worth stating next: a
register with a version that `RecordSave` implements when no page refreshes
blindly, and an atomic publish that `AppLifecycle` implements when no request is
stale.

## 3. Modules and code

Each module starts with what it models and what it leaves out; `map` in
`PROJECT.json` gives the lines of each definition. An `MC` module and a `.cfg`
give a module its instance; a `Proofs` module holds its theorems, and
`ProcessStateProofs` those of three: the queue, the pool and the permission cache, which
is why `ConnPool` and `AuthzCache` call their parts `PoolInit`, `CacheInit` and so on. Operators
marked `mutant` are defects that the properties have been tried against, and are
used by nothing.

**ObservabilityQueue.** `rpc` is where a request is in
`enqueueDerivedObservability`: it takes the read lock, tests `stopping`
(`ReadLock`) and sends or drops (`Send`). `stop` asks for the write lock and
closes the channel (`StopCall`, `StopClose`). The worker (`wpc`) receives, folds
up to `MaxBatch` waiting jobs into its batch, and runs the emit: one call of the
ingest service for each event, all under one deadline counted in `elapsed`. The
contents of the events are left out. `BestEffortFifo` is its abstract
specification: jobs are accepted, dropped or refused at once, and what was
accepted is handled first in, first out.

**AppLifecycle.** One row of `_app` and the tables that exist. A definition is
the set of objects it declares. A request reads both definitions (`EditRead`,
`PublishRead`, `BuilderRead`), and commits later, whatever has happened since; the
history variables `stale` and `gap` note which kind of write was based on an
outdated definition. A save-and-publish works on the definition the request's
metadata cache holds, which is why its publish is a read before the save and a
commit after it. The bundled sync has its two transactions and may die between
them; `Bundles` holds the definitions of more than one release.

**RecordSave.** One record under pages, API saves, bulk updates and scripts. A
page has the values in its controls (`form`), the values it compares with
(`baseline`) and the hidden `expected_version`. A save reads its snapshot
(`Post`), updates in one statement with the version test in its WHERE
(`PageCommit`) and audits after the commit; `Crash` may come between. The other
writers have no expected version. An event under way to a page (`inbox`) may come
late or never; what the page does with it depends on whether the form is dirty.

**PresenceHub.** The presence entries of one record (`status`, `stale`), the
goroutines with a snapshot to send (`sender`), the streams (`stream`, `queue`) and
what a page shows (`view`). `behind` and `missed` note senders and pages whose
snapshot is not the newest one.

**AdminGuard.** The five tables and the revocations under way, one query for each
step (`request[w].pc` is the next one). `Effective` is the recursive query, as
the least closed set of roles. The record form edits the same tables without the
guard (`FormSave`).

**AuthzCache.** One permission, one role and one group. Readers go through
`Lookup`, `Query` and `Store`; a writer changes a table and owes a sequence of
invalidations (`writer[w]`). `held[u][a]` is when answer `a` was last right for
`u`.

**SessionVersion.** Who has which role, a version for each user, the login under
way and the session of each browser, and the bumps each writer still owes.
`Seeds` and `Effective` are the recursive query of the login, `Impacting` the one
that looks for the users of a role in the other direction. A session that is
let through is `Valid`. `raced` marks a login that read its role before a change
that it did not see; `gap` holds the users whom a change left without a bump.

**DocsArticles.** Articles with slug, text and version, their snapshots, editor
pages and the save of each page step by step. `NoRowsMatch` says whether
`err == sql.ErrNoRows` holds for an empty result. It does not with pgx; the
passing run sets it so that the branch that creates is covered as well.

**ConnPool.** Each handler as its sequence of pool operations with the context it
waits under, and the pool's queue. pgxpool is external: a free connection goes to
the longest waiter.

**DefinitionEditor.** `draft` and `live` of two apps that depend on each other. An
object is a key with the keys it refers to and one switch. A request (`req`) reads
every app once; then `Saves` and `Deletes` give what each branch of the save and
delete handlers may hand on, one operator a branch (`SaveTable`, `NewTablePart`,
`SaveService`, ...); the save normalises and validates it against the snapshot
read, and may publish. `Listed` is what the explorer shows, `Required` what a save
finds, `Marked` what the page marks as published, each translated from its own
function. `overtaken`, `seen` and `based` record against what a write was
validated.

A table's name must begin with its app's namespace and a `_`, and no more is asked
of it. So an app `crm` and an app `crm_x`, or `base` and `task_definition` (migrations
076 and 081 give them one namespace), may both declare one table; `TablesOf` overlaps,
and `owners` records which apps have declared a table. Where two have (`Contested`),
the validator, which looks for every table of a chain from the app it validates
(`FoundIn`), and the runtime, which looks from the app of the table below
(`ResolvedChain`), can find different tables, and what one has accepted says nothing
of the other. `NoInheritanceCycle` and `FieldsResolve` are stated for the rest, over
every choice of names. `mergeRegisteredApps`, which makes one app of two rows of a
namespace when apps are looked up, is not modelled.

**RecordRules.** One table with its published `security`, the roles of one user,
and one request at a time (`pc`, `job`): a save, a preview, a bulk update, a delete
or restore, a page of the list, a script call. Between any two statements of the
request others change rows, roles and rules (`stale` notes which rows). A save reads
its snapshot (`SavePost`), asks with the roles and rules of that moment, before its
transaction (`SaveAsk`), and updates later, whoever has lost a role meanwhile
(`SaveCommit`, `SaveRefused`): what is permitted is what was permitted when asked.
Rules are ordered and evaluated as `SecurityRules.go` does it: gate, field scope,
condition, the first that decides. A script's writes stay its own (`own`) until its
end.

A page of the list is the loop of `loadSecureListPage`, row by row (`RowRead`): skip
what may not be read, count, keep the last rows in a ring, collect the page, stop at
one row more. `ORDER BY` names one column, and rows that agree in it may come in
any order (`Orders`), another one in each query.

**ObservabilityIngest.** Deliveries as transactions of the `ingest_event` script:
look up or insert entity, definition and observable under unique keys that make
the second inserter wait; lock and update the observable with the fields that
changed; open, keep or close tasks. `answer` is how a delivery ended, an
interrupt included. A row's actions are evaluated one after the other, each with a
query of its own over the latest events (`Matched`), so another delivery may commit
between two of them. The latest events are those within the code's limit of
`max(4n, 50)`; a run has fewer, so the limit never bites there. Secrets, signatures
and texts are left out.

**BootSync.** What `main` does before it serves, pass by pass, in up to two
processes of different builds: migrations one transaction each, the pass after
042, backfills, the merge of system and base, the sync and the prune of bundled
apps with their seeds, pages, the first user under its advisory lock. A definition
is the set of its items, each with a kind, a name and a text, so a pass is an operator
on sets (`Unscripted`, `Backfilled`, `WithPhysical`, `Simplified`, `Observed`,
`Composed`). A process (`proc`) has its place, the copy of `_app` it has read and what
it has still to do; `Turn` moves it on. `ran` holds the files in the order they ran,
those of the initial database first. `quiet` holds the processes nobody interfered
with.

The merge takes the system app's items first and drops base's of the same name, kind
by kind (`MergedByName`: roles, forms, services, pages, ... as well as tables); it
keeps base's label, sets a description of its own and drops dependencies between
the two. Syncs, saves and publishes write every row whose name or namespace is the
app's (`Matching`): a write of base reaches `task_definition` too, which migration 076
gives the namespace `base`. `kept` holds the edits that should last: those of the
system or the base app, made while nothing started, that no later edit replaced and
that the merge does not drop (`Lasting`); when starts overlap, those of base. An
edit may carry any name but those of the items that the passes write anew at every
start (`EditAssumption`). The order in which apps are listed (by label) and other
apps of a bundled app's namespace are left out.

**SchemaJobs.** One table (`physical`), its `published` columns, records, and
administrators whose requests go statement by statement with PostgreSQL's shared
and exclusive table locks. A plan has one step for each thing the table lacks and a
warning (`ExtraSteps`) for each column the definition lacks; the marks say what has
become of each step. A job notes a failure on other connections after its
own transaction is gone; a circle of waiters is broken by failing one.

**AutoNumber.** The counters, the triggers, the numbers of records, and
transactions (`tx`) that hold tables, records and counters to their end: saves,
scripts of two writes, column changes, publishes. `Forget` is the prune of
another app whose `LIKE` matches. A number is a prefix and a natural number;
`Shown` is what `LPAD` makes of it.

## 4. Runs

The finite instances, and why they are enough: each has the fewest actors for
which the behaviours a property rules out exist. Its mutants show it: for each
property `PROJECT.json` names a plausible defect of the code with which the
same run finds a violation.

| Run | Instance | What it shows |
| --- | --- | --- |
| `process` | **queue**: three requests with one or two events, one with none; channel and batches of 2; deadline 3, script 2. **pool**: two saves, a board and a read on two connections | refinement of `BestEffortFifo`: jobs are accepted, dropped or refused at once and emitted once in order, no send on the closed channel; delivery and shutdown when the worker runs. Only nesting handlers block the pool; otherwise every request ends |
| `app_lifecycle` | **app**: one table, one other object, two requests, two releases, versions to 4. **schema**: two administrators, two columns, one record, four initial tables, two operations, one crash. **numbers**: two tables of one scope, three records, two transactions with three writes or changes, numbers of two bits | tables, definitions and versions agree but for the named stale writes; jobs tell what happened, leave nothing to do, column requests keep table and definition in step; numbers are neither given twice nor used up, and plain saves and column changes never deadlock |
| `record` | **record**: one page, an API save, a bulk update, a script; one field, one value and NULL; versions to 3. **docs**: two pages, two articles, two slugs, two texts, versions to 2 | what the expected version protects, and an exact audit trail; snapshots are exact, and why a page can write another article |
| `authz` | **guard**: two users, two roles with the seeded inheritance, one group, two scopes, one revocation; two assignments, one row in any other table. **cache**: two users, a reader, a writer, TTL 1, two instants | a revocation that nothing overtook leaves an administrator; answers are younger than the TTL, whatever order commits, invalidations and stores come in |
| `session` | **session**: one browser, two users, two roles, two groups, one writer; two changes of the tables. **hub**: a tab, a save, a page, the janitor; a buffer of one event | who can go on with an outdated role, and why nobody else; outdated sessions end; a settled page shows who is there |
| `editor` | two editors, each one request, on an app with an object of every kind and on the app it extends, which may declare one table of the first | references, inheritance and fields resolve, what is listed is found, edits stay local |
| `rules` | **rules**: two rows, of one instant or of two, three securities, three sets of roles, four queries, pages of one and two rows, one request, one change by others. **ingest**: three deliveries for two observables, five payloads, one deletion | what users and scripts see and write is permitted; pages hold the readable rows and count right, in whatever order equal rows come; the row shows its last event and decides the tasks; deliveries never wait in a circle |
| `boot` | two processes, three builds, a new and an old database; two starts, one edit of a form, a role that both apps have, or the landing page, one stop | migrations once and in order; a quiet start settles; edits and deletions survive; one first user |
| `docs_create_fails`, `boot_042`, `boot_076`, `column_drop` | see [6](#6-divergences-found) | each refutes one statement of the repository |

`part`. Some runs hold two or three components that do not touch each other's
tables within the behaviours checked. `part` is chosen in the initial state and
never changes: it says which component moves, and the others keep one initial
state. So a run explores each of its components completely and never their
product, which no property is about. `MCProcessState`, `MCAuthz`,
`MCSessionVersion`, `MCRecordSave`, `MCRecordRules` and `MCAppLifecycle` are built so.

Bounds. `MaxVersion`, `MaxSaves`, `MaxRows`, `MaxEdits`, `MaxCommits`, `MaxClock`,
`MaxOps`, `MaxCrashes`, `MaxChanges`, `MaxDeletes`, `MaxStarts`, `MaxStops`,
`MaxSteps` and `MaxNumber` are guards on how often something is done or how late it
is: they cut behaviours off, they add none. `TTL`, `QueueSize`, `MaxBatch`,
`Capacity`, `MaxConns`, `DefaultLimit`, `Cap`, `PageSizes`, `Base` and `Width` are the
code's own limits at a smaller size, so that the limit is reached: with `Base = 2`
and `Width = 2` a number is cut off at 4, as `LPAD` does at 1,000,000. Several users,
readers or writers beyond the instance are covered by the proofs, which have no
bounds.

Deadlock is checked in `authz` and `session`. Elsewhere the system
may stop: after `stop` the worker of the queue ends, and the other instances run
out of operations (their bounds). Waiting for ever is the subject of properties of
its own: `EndsUnlessBlocked` and `BlockedByHolders` for the pool, `SomeoneProceeds` for
ingest, `OnlyLongOnesDeadlock` for numbers. For schema jobs no such property is
stated: their requests do wait in a circle, PostgreSQL fails one of them, and
`JobsTellTheTruth` says what its job then shows.

Symmetry is used in `app_lifecycle`, `record`, `authz`, `editor`, `rules`, `boot`
and `column_drop`, whose properties are invariants and action properties; the runs
with liveness (`process`, `session`) have none.

Fairness. The Go scheduler runs every goroutine that can run, so a request that
holds no lock others wait for goes on (`RequestFairness`; `Fairness` in
`ConnPool`: a query of the database ends, and the pool serves its queue). A
request that has committed goes on to its bumps (`FairSpec` of `SessionVersion`).
`MCProcessState` states the fairness of each of its components in that component's
part.
Nothing obliges a user to act: `Arrive`, posts, `stop` and errors have no fairness.
Nor has the worker of the queue: an ingest script may hang, so
`EventuallyDelivered` assumes `WorkerRuns` explicitly. Everything else is checked
without fairness.

## 5. Proofs

A theorem holds for every value of the constants that meets the named assumptions
of its module:

| Assumption | Says | Why |
| --- | --- | --- |
| `QueueAssumption`, `LifecycleAssumption`, `SaveAssumption`, `GuardAssumption`, `CacheAssumption`, `SessionAssumption`, `PoolAssumption` | types of the constants, limits are positive, there is a seeded administrator | the code's constants and seeds |
| `DocsAssumption`, `HubAssumption`, `SchemaAssumption` | types of the instance's constants; no slug is not a slug, no table is not a set of columns | `NoSlug` and `Null` stand for the empty answer |
| `NumberingAssumption` | finitely many records and tables; at the start numbers are under their table's prefix, below its counter and each once | what a renumbering of the table leaves (`applyTableAutoNumberStateTx`), on tables where no number was cut off |
| `ReleaseAssumption` | releases only append migration files, and each has 042 and 047; a shipped app has a name of its own, not one of a migration's app, its seeds differ in their ids | "migration files are append-only" (`CHANGELOG.md:49`); an id is made of app, table and key (`plannedSeedRecordID`), and a key is given once in a definition |
| `DatabaseAssumption` | a database has had the files up to some file, in order; 042 brought the system app, 047 the base app, whose described system tables exist, 076 `task_definition`; the system app has no table of the task model or of observability | what `RunMigrations`, `047_base_app.sql` and the passes of every earlier start leave |
| `EditAssumption`, `NullAssumption` | people's edits have other names than the items that the passes write anew at every start, and the landing page is edited into one's own; `Null` is no process and no route | the passes exist to write those items again: about them `EditsSurvive` promises nothing. Items that both apps have, labels, descriptions and dependencies may be edited |
| `RulesAssumption` | records are finitely many, ordered by id, and have an instant of creation; values are ordered; limits are numbers, a page holds a row; the system is no set of roles | scripts sort by `_id`, pages by `_created_at` or a column; `listScriptRecordsWithQuerier` and `loadSecureListPage` clamp limit and page size |
| `IngestAssumption` | every payload is normalised to an observable; keys of entities, definitions and observables differ; no provisioned action closes the task another opens on the same state | `normalizeEvent`; three tables; migration 067 provisions a task on critical and its resolution on ok |
| `SpellingAssumption` | normalised names are names; apps and tables are finitely many, and none of them is `None`. Which tables an app may declare is left open | `normalizeLooseIdentifier`; `validateAppDefinitionTableName` compares a prefix |
| `EditorAssumption` | posts have the shape the handlers give them; the definitions at the start, drafts and published ones, have passed validation against each other, and unless two of them declare one table, no table inherits from itself | `AppDefinition`'s structs; an app is installed by a save and a publish |

A theorem about a component inside an `MC` module (`Schema!Spec => ...`) is about the
component's own specification; the `MC` module only renames its variables.

| Module | Theorems | Argument |
| --- | --- | --- |
| `ProcessStateProofs`, the queue | `TypeCorrect`, `FifoConservation`, `NeverSendsOnClosed`, `EndsDrained`, `FifoRefinement` | `QueueInv`: accepted = delivered ∘ batch ∘ jobs alone is not inductive; it needs that an idle worker holds an empty batch and that a worker ends only with an empty, closed channel. `NoSendOnClosed` needs that the lock is free when stop closes. The refinement follows step by step from `QueueInv` |
| `AppLifecycleProofs`, the app | `TypeCorrect`, `LiveTablesExist`, `TablesBelong`, `VersionsTellSync`, `DraftVersions` | each property is inductive with the types and with `NextVersion` being above both counters |
| `AppLifecycleProofs`, schema jobs | `JobsTruthful`, `AppliedJobsSettle`, `ColumnChangesInStep` | `SchemaInv`: a request under way owns its job, and its marks say of each step what it has done so far. `FollowInv`: what the plan of a request nobody disturbs has still to do is what the table it sees still lacks, so at its end nothing is left, and what it adds is in the definition. That a plan holds the steps of every column is `PlanCovers`, over the concatenation of all of them |
| `AppLifecycleProofs`, numbers | `ShortNeverDeadlock`, `NumbersNeverRepeat` | `NumbersInv`: a save of one record or a change of one column that still waits holds no counter, and before it has the table it holds nothing. So whom it blocks is at an earlier point of the one order in which short transactions lock, and a circle needs a long one. `CountInv`: below |
| `RecordSaveProofs`, records | `TypeCorrect`, `OverwriteNeedsRefresh`, `FormValuesStored`, `AuditIsExact`, `AuditIsComplete` | `Vouched(p)`: while a posted page's expected version is the row's version, its snapshot is the row, because every write raises the version. `Written(p)` carries that over the commit to the audit row |
| `RecordSaveProofs`, docs | `HistoryCorrect`, `StraysNeedAMove` | `DocsInv`: the property article by article, inductive with the types, because version and snapshot are written in one commit. `StrayInv`: as long as nobody has renamed the article behind a page, the slug the page sends is the article's, and slugs are unique, so its SELECT finds that article |
| `AdminGuardProofs` | `TypeCorrect`, `GuardCorrect` | `GuardInv`: a request that is about to delete and has not been overtaken is `Harmless`. It rests on lemmas about the closure: it is monotone, it distributes over union, and a role that does not lead to the permission can be taken away |
| `ProcessStateProofs`, the cache | `CacheTypeCorrect`, `FreshAnswers`, `CoherentCache` | `FreshInv`: what is about to be stored was right since the request began, so an entry was right until a TTL before its expiry. `CoherentInv`: what is about to be stored by a reader that was not overtaken is right now |
| `SessionVersionProofs`, sessions | `TypeCorrect`, `RoleCorrect`, `EndedForGood` | looking down from a user and up from a role finds the same pairs (`UpAndDown`), so a due bump keeps reaching a user whose roles stay; a change of inheritance leaves alone who has none of its roles (`OtherInheritance`). So each commit explains whose roles it changes. `LoginInv` carries a login's role to its session |
| `SessionVersionProofs`, the hub | `PresenceCorrect` | the property speaks of pages nothing is on its way to; `HubInv` says what is true before: while no entry is stale, every broadcast that no later one has overtaken carries the entries as they are, and a page that missed none still gets it or has it as its newest |
| `ProcessStateProofs`, the pool | `PoolTypeCorrect`, `BlockedOnlyByHolders`, `PoolLost` | `PoolInv`: who waits holds no query connection and only nesting handlers hold an outer one, so a blocked pool has all its connections with them. `PoolLost` follows by cases: no step of a blocked request is enabled, and none of another frees a connection |
| `BootSyncProofs` | `FilesRunOnce`, `FirstUserOnce`, `EditsOutlive`, `StartsSettle`, `DeletedStay` | below |
| `RecordRulesProofs`, rules | `WritesKeepTheRules`, `ListsHoldWhatMayBeRead`, `PagesShowEveryRow`, `PreviewTellsTheTruth` | `RulesInv` carries the answer of the rules, with the roles and rules of the moment they were asked (`job.actor`, `job.guard`), from the statement that asked to the one that writes, whatever happens to roles and rules in between: unless somebody else has written the row (`stale`), what is about to be written was permitted. Pages: below |
| `RecordRulesProofs`, ingest | `LastEventShown`, `RowDecidesTasks` | `RollInv`: unless another call for the observable committed meanwhile, a call has read the row its save finds. `DecideInv`: one call at a time holds the row, and of the actions it has evaluated so far, what it is about to open and close is what the row it saves asks for; actions that count events are not in the property |
| `DefinitionEditorProofs` | `PublishedCallsResolve`, `InheritanceEnds`, `FormFieldsResolve`, `ListedIdsLead`, `EditsStayLocal` | below |

What `NumbersNeverRepeat` rests on. `NumbersHold` speaks of what is committed, and a
commit writes whatever its transaction has gathered, so it is not inductive.
`CountInv` says it of what each transaction sees, its own changes over the committed
records, counters and triggers (`View`): each table is numbered under its prefix
(`Fit`), below the next number (`Under`), and no number is there twice (`Once`) that
nobody typed.

- A number given or typed, and a whole renumbering, keep the view of the transaction
  itself: `WrittenView`, `GivenSound` and `ChangedView`, over lemmas on the highest number
  kept and the counter lifted over it (`MaxOfNumbers`, `SyncedAbove`).
- A commit keeps the view of everybody else (`OtherView`) because of the locks: nobody
  shares a table that another one has alone, and nobody draws from a counter that another
  one holds (`Parted`). So if two have written to one table, it has no numbers
  (`BothWroteNone`), and who renumbers a table has every record of it (`Holding`).
- A deleted counter is nobody's (`ForgottenCounter`): the tables that drew from it are
  excepted from then on, by `forgotten` until they are renumbered.

What the theorems about pages and the editor rest on:

- Lists. A finite set of ids can be listed in order of `_id` in one way
  (`SortedLists`, by induction on its size), so a script's list is a part of one
  sequence of the readable rows.
- Pages. `SeenInv` says what the loop of a page knows after `i` rows: how many of them
  were readable (`Rank`), which of these it has collected, and that its ring holds the
  last `size` of them. It is kept by one more row (`RowReadKeeps`), so it holds at the
  end for every order of the rows (`LoopKnows`), and `PageRight` reads off the page. With no
  two readable rows alike in the column sorted by, a row's rank is the same in every
  order (`UntiedRank`), so one page has it and no other (`OnOnePage`).
- Edits. Every branch of the handlers is a `Proper` edit of the draft it read (one lemma
  for each: `NewProper`, `SaveOfProper`, `RenamedProper`, ...): it leaves a definition in
  form, and outside what it names and posts it leaves the draft alone. That is
  `EditIsLocal`, and what a save and a publish need to keep `EditorInv`.
- `EditorInv`. Each draft is one that validation accepted with the drafts `seen` then,
  each live definition with the live ones it is `based` on. While the others are still
  those, what validation looked up is what the runtime finds: `PublishedCallsResolve`
  for scripts, `FormFieldsResolve` for columns. Validation follows inheritance over the
  scope of the app it validates, the resolver app by app. Where no table is contested, a
  table that two definitions have has one owner (`OwnersInv`, `TablesAtHome`), so `ScopeIs`
  and `MergedIs` say that its parent is the same in both, and `PlaceUp` follows the two
  up the chain side by side.
- `NoLoops`. That no chain is endless is not inductive step by step, for a save changes
  all chains through its tables at once. The invariant speaks of sets: no set of tables
  is closed under `Parent`. A chain as long as there are tables meets one table twice
  (the pigeonhole), and the tables between form such a set; a saved app whose own
  tables are in one would not have passed validation.

What the theorems about the boot rest on:

- `FilesInv`. The recorded files are closed downwards in every build. So the smallest
  file a process has not seen recorded is above all that have run, unless another
  process has recorded it meanwhile; then the key refuses it.
- `LockInv`. Who has found no user holds the advisory lock until its user is written.
- `KeptInv`. A kept edit stands in the base app where nothing of the system app has its
  name, in the database and in every copy that will be written back (`InBase`): that
  outlives starts that overlap too. Or it stands in the system app, and one process
  at a time starts, with a copy that has it (`InSystem`, `CopyHas`). A pass drops nothing
  but what the release writes (`PassesKeep`, `PassedKeeps`), and the merge takes the
  system's items and those of base that the system has not (`ComposedKeeps`).
- `MergedInv`. What the two apps look like until they are one, whoever writes them: the
  system app has nothing of base's name, what the base app describes exists; and once they
  are one, no copy brings the system app back. `NamesInv` adds that no bundled or
  pruned app is one of the two, so only their own syncs write them.
- `QuietInv`. Stage by stage, what a start nobody interfered with has put right: after
  its pass a definition is one that the pass leaves alone, and later passes keep it so
  (`PassesDrop`, `PassesMatch`, `ComposedSettles`). `ShipsOK` and `PagesOK` say the same of
  the bundled apps with their seeds, and of the pages. `StartSettles` alone is far
  from inductive: it speaks of the end, and each pass writes whole rows again.

`DeletionsStay` is an action property and needs only the shape of the state.

Induction over numbers is used where a property is about the first or the last of
several: the smallest file, the concatenation of a plan's parts, the chain of inheritance. The library's
induction theorems take an operator; these proofs take the least element of a set
instead (`WFMin` over the order of `Nat`; `Smallest`, `SetInduction`, `NumberInduction`).

The theorems state 35 of the 39 properties of the passing runs, all but the four
below. Others state properties no run lists, since the run would only repeat them on
a small instance: the types (`TypeOK`, `PoolTypeOK`, `CacheTypeOK`), `Conservation`, `NoSendOnClosed`
and `DrainedAtEnd` of the queue, `VersionNamesDraft`, `AuditComplete`, `CacheCoherent`,
`NeverRevived` and `ExhaustedForever`.

Model-checked only: liveness (`EventuallyDelivered`, `OutdatedEnds`,
`EndsUnlessBlocked`) and `ENABLED` (`SomeoneProceeds`), which are out of this prover's
reach.

## 6. Divergences found

Four statements of the repository are refuted by a run:

| Run | The repository says | The code does |
| --- | --- | --- |
| `docs_create_fails` | "Create Article" (`docs-view.html`) | `err == sql.ErrNoRows` never holds with pgx, so creating fails |
| `boot_042` | "Later migrations (043+) reference _user, so the minimal required system tables must exist before those apply on a fresh DB" (`Migrations.go`) | the pass after 042 runs outside its transaction; a process that dies between them leaves 042 recorded and the tables missing, and the next start goes on with 043 |
| `boot_076` | "more than one app legitimately contributes tables to the same prefix: 047 seeds 'base', 076 seeds 'task_definition' (both namespace 'base')" (`081_drop_app_namespace_unique.sql`) | a sync of base updates `WHERE name = $1 OR namespace = $1`, so `task_definition` gets base's definitions, and its own contribution is gone after the first start |
| `column_drop` | "cannot drop column from non-empty table" (`AppBuilder.go:735`) | the rows are counted before the table is locked, so a record saved in between loses its value |

Further ones, met while modelling and not given a run:

Records and permissions

- "Record changed by another user; refresh and try again" (`HandleSave.go`): the
  page puts a newer version into a dirty form (`form-view.html:2777`) and
  overwrites. `OverwritesOnlyRefreshed` states that this is the only way.
- "cannot remove the last global admin" (`AuthzAdmin.go`): two revocations count
  each other's administrator, and both delete. `GuardHolds` excepts revocations
  that were overtaken.
- "Draft and live app are in sync." (`page-builder-view.html:647`) is shown when
  the versions are equal. A save-and-publish publishes the definition its metadata
  cache holds from before the save. `InSyncUnlessStale` states what is true:
  `"draft" \in stale` marks exactly those publishes.
- "Keep original_slug in sync so subsequent saves patch the same article"
  (`docs-view.html:552`): after a rename by another page, or one whose answer was
  lost, and a second article that takes the old slug, the next save patches the
  second. `StraysOnlyAfterMove` states when.
- "Create Article" with a slug that is taken replaces the article that has it.
- "Keep going after a failure" (`ObservabilityAnalysis.go`): the deadline of a
  batch is as long as that of one script, so the first script that hangs leaves
  nothing for the events after it.
- `TaskEngine.go:18-20` says that the audit trail captures writes made by
  scripts; `ScriptOps.go` writes none. `AuditComplete` excepts scripts by name.
- "Clear" for a nullable reference, and then "Saved!" (`form-view.html:216`, `:767`):
  a field that became NULL is left out of the UPDATE and keeps its value.
  `SavedValuesStored` is stated for the fields that are not blank.
- A bulk edit of role assignments invalidates no cached answer and no session.
- A group's role that moves to another group bumps the role's users as they are
  after the move, so the members of the group that lost it keep their sessions.
  Both are the `gap` of `SessionVersion`; a login that a change overtakes is its
  `raced`.
- A value that a trigger service clears on save is left out of the UPDATE, and a
  script cannot clear a field either; a bulk update does.
- A bulk update reads its snapshots for the audit outside any transaction, so
  another write between them shows up as its own.

Rules

- "contains duplicate security rule" (`AppDefinition.go`) is never said, since the
  normalisation before it drops repeated names.
- A comment calls a script's look-up before an update a read, but only the update
  rules are asked; a script's create asks none, and scripts apply no field rules.
- Rules of a form take part in the preview and not in the save. The preview and the
  save also differ when a field is blanked.
- Past its last page a list shows the last `pageSize` readable rows under the last
  page's number, and they overlap the page before.
- A list has no tie-breaker in its `ORDER BY` and each page is a query of its own, so
  rows that agree in the column can be on two pages or on none; `PagesCoverRows`
  promises each row one page only where no two agree.
- A save asks the rules before its transaction and updates afterwards: a role or a rule
  that is withdrawn in between no longer stops it. `WritesPermitted` speaks of the roles
  and rules found when asked.
- `updateWhere` without a limit touches the first 100 rows, `deleteWhere` all of them.

Ingest

- The whole script is one transaction, so the look-up in its `catch` after a
  refused insert always fails too.
- A deleted observable or definition keeps its unique key: events for it are
  refused until it is restored.
- A delivery that overlaps another saves only the fields it saw differ, so the
  observable can show the state of one event and name the other
  (`RolledUpUnlessOverlapped`).
- GitHub's "queued" has a severity that counts as ok and resolves an incident.

Schema builder, editor and numbers

- `IF NOT EXISTS` lets a job on a stale plan mark a step as applied that did
  nothing; an applied job leaves nothing to do all the same when nobody interfered
  (`SettlesAfterApply`).
- Saving a table's properties empties its forms and lists. Rows saved for the second
  seed of a table reach the first. Inherited columns are listed as editable and never
  found. `EditIsLocal` and `ListedFound` except these by name.
- Tables are checked against the drafts of dependencies, calls against their
  published definitions.
- Two apps may declare one table, since only the prefix of its name is compared; the
  validator and the runtime then follow inheritance to different tables (`Contested`).
- `LPAD(…, 6, '0')` cuts a seventh digit off. From 1,000,000 on numbers repeat, and
  under the unique index of `base_task` and `base_entity` every insert without a number
  is refused, for the rollback takes the counter back too. Validation accepts a typed
  number of seven digits, which has the same effect at once. `NumbersHold` excepts the
  tables where it happened (`wide`).
- A prune deletes the counters `LIKE scope_%`, and `_` stands for any character: the
  counters of an app whose scope only starts so go with it (`forgotten`).
- Each write of a numbered record locks its counter, so a script of two writes can
  deadlock with a single save, which PostgreSQL then breaks
  (`OnlyLongOnesDeadlock`).
- Renaming a task table in the schema builder changes the prefix that saves are
  validated with; the trigger keeps the old one until the next publish.

Boot

- Two starts side by side: the pass that composes the base app writes from a stale
  read, so the system app's own edits can be lost; `EditsSurvive` then speaks of base's
  only. An editor's save between a pass's read and write is lost too.
- What base says under a name that the system app has too is dropped by the merge, of
  every kind: it is not `Lasting`.
- An editor's save or publish of base also writes `task_definition`'s row.
- A sync gives both versions the same number although draft and published
  definition may differ, so the page says "in sync".
- A build older than the database refuses to start, as intended; an app first shipped
  by a start that was cut off and dropped by the next build is never pruned.
- Pruning deletes a group of seeds that another bundled app refers to.

## 7. Limits

Not modelled, and why, is listed for each component in `PROJECT.json`. In short:
HTML, YAML and SQL text (data the properties do not distinguish), the contents of
events and notifications, cryptography, the JavaScript engine, and PostgreSQL
itself, which is taken to be as isolated as READ COMMITTED with row locks, a
statement at a time. The task engine (`TaskEngine.go`) has no caller.

Of the modelled components, each module's header and the `note` of its component
say what is abstracted. What is left without a model are single statements of one
user (saved views, AI connections), reads (search, export, the task board), pure
functions of one value (expressions, validation), code that nothing calls (the task
engine, multi-factor authentication), and notifications, which a save creates after its commit.
