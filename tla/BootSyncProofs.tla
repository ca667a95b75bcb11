---------------------------- MODULE BootSyncProofs ----------------------------
(***************************************************************************)
(* Proofs about BootSync, for any processes, builds, databases, edits and  *)
(* bounds that the assumptions of that module allow.                       *)
(*                                                                         *)
(* Five arguments, each an invariant of its own:                           *)
(*                                                                         *)
(* FilesInv.  The recorded files are closed downwards in every build, so   *)
(*   the smallest file a process has not seen recorded is above all that   *)
(*   are; a file recorded meanwhile fails on the key.                      *)
(* LockInv.  A process that has seen no user holds the lock until it has   *)
(*   written one.                                                          *)
(* KeptInv.  As long as one process starts at a time, what it writes back  *)
(*   comes from a copy that shares every kept edit with the database.      *)
(* MergedInv.  What the system and base apps look like until they are one, *)
(*   whoever writes them, and that they stay one.                          *)
(* QuietInv.  Stage by stage, what a start nobody interfered with has      *)
(*   already put right.  Every copy it writes back is what the database    *)
(*   holds, and no later pass undoes an earlier one.                       *)
(***************************************************************************)
EXTENDS BootSync, WellFoundedInduction, FiniteSetTheorems, TLAPS

-----------------------------------------------------------------------------
(* Processes and their steps.                                              *)

Stages == {"down", "verify", "migrate", "after042", "legacyw", "rolesw", "systemtables", "systemw", "landing",
           "task", "taskw", "obs", "obsw", "compose", "composew", "landing2", "bundled", "upsert", "seed", "prune",
           "prunew", "pages", "pagesw", "first", "firstw", "up", "failed", "refused"}
IsRow(row) == row = Row(row.draft, row.published, row.dv, row.pv)
IsProc(s) == s = [pc |-> s.pc, build |-> s.build, copy |-> s.copy, todo |-> s.todo] /\ s.pc \in Stages
ProcShape ==
    /\ proc = [p \in Procs |-> proc[p]]
    /\ \A p \in Procs : IsProc(proc[p]) /\ (~At(p, "down") => proc[p].build \in DOMAIN Builds)
DataShape ==
    /\ recorded = [v \in DOMAIN recorded |-> recorded[v]]
    /\ records = [id \in DOMAIN records |-> records[id]]

\* A process after a turn, and the others.
LEMMA Turned ==
    ASSUME ProcShape, NEW p \in Procs, NEW pc \in Stages, NEW copy, NEW todo, Turn(p, pc, copy, todo)
    PROVE  /\ proc'[p] = [pc |-> pc, build |-> proc[p].build, copy |-> copy, todo |-> todo]
           /\ \A q \in Procs \ {p} : proc'[q] = proc[q]
           /\ proc' = [q \in Procs |-> proc'[q]]
<1>1. DOMAIN proc = Procs
    BY DEF ProcShape
<1> QED BY <1>1 DEF Turn

\* A turn leaves every process a record.
LEMMA TurnedShape ==
    ASSUME ProcShape, NEW p \in Procs, NEW pc \in Stages, NEW copy, NEW todo, Turn(p, pc, copy, todo), ~At(p, "down")
    PROVE  ProcShape'
<1>1. /\ proc'[p] = [pc |-> pc, build |-> proc[p].build, copy |-> copy, todo |-> todo]
      /\ \A q \in Procs \ {p} : proc'[q] = proc[q]
      /\ proc' = [q \in Procs |-> proc'[q]]
    BY Turned
<1>2. IsProc(proc'[p])
    BY <1>1 DEF IsProc
<1>3. proc'[p].build = proc[p].build /\ proc[p].build \in DOMAIN Builds
    BY <1>1 DEF ProcShape
<1> QED BY <1>1, <1>2, <1>3 DEF ProcShape, At

\* A process that starts, and one that ends.
LEMMA Replaced ==
    ASSUME ProcShape, NEW p \in Procs, NEW r, proc' = [proc EXCEPT ![p] = r]
    PROVE  /\ proc'[p] = r
           /\ \A q \in Procs \ {p} : proc'[q] = proc[q]
           /\ proc' = [q \in Procs |-> proc'[q]]
<1>1. DOMAIN proc = Procs
    BY DEF ProcShape
<1> QED BY <1>1

Runs(p) == \E pc \in Stages : \E copy, todo : Turn(p, pc, copy, todo) /\ ~At(p, "down")

Works(p) ==
    \/ Verify(p) \/ ApplyMigration(p) \/ After042(p) \/ ReadLegacy(p) \/ WriteLegacy(p) \/ ReadRoles(p)
    \/ WriteRoles(p) \/ ReadSystem(p) \/ CreateSystemTables(p) \/ WriteSystem(p) \/ SystemLanding(p)
    \/ ReadTask(p) \/ WriteTask(p) \/ ReadObservability(p) \/ WriteObservability(p) \/ ReadOOTB(p)
    \/ WriteOOTB(p) \/ OOTBLanding(p) \/ ReadBundled(p) \/ UpsertBundled(p) \/ SeedBundled(p)
    \/ UpsertedAll(p) \/ ReadPruned(p) \/ PruneBundled(p) \/ SaveRegistry(p) \/ ReadPages(p) \/ WritePages(p)
    \/ LookForUsers(p) \/ CreateFirstUser(p) \/ HelperUser(p)

\* A step of a start is a start, an end, or one of the working steps.
LEMMA BootCases == ASSUME NEW p, Boot(p) PROVE Start(p) \/ Exit(p) \/ Stop(p) \/ Works(p)
BY DEF Boot, Works

\* Every working step is a turn of its process.
LEMMA WorksRuns ==
    ASSUME NEW p, Works(p)
    PROVE  Runs(p)
<1> USE DEF Runs, Go, Copy, Did, Done, At, Stages
<1>1. CASE Verify(p)
    BY <1>1 DEF Verify
<1>2. CASE ApplyMigration(p)
    BY <1>2 DEF ApplyMigration
<1>3. CASE After042(p)
    BY <1>3 DEF After042
<1>4. CASE ReadLegacy(p)
    BY <1>4 DEF ReadLegacy
<1>5. CASE WriteLegacy(p)
    BY <1>5 DEF WriteLegacy, RewriteEach
<1>6. CASE ReadRoles(p)
    BY <1>6 DEF ReadRoles
<1>7. CASE WriteRoles(p)
    BY <1>7 DEF WriteRoles, RewriteEach
<1>8. CASE ReadSystem(p)
    BY <1>8 DEF ReadSystem
<1>9. CASE CreateSystemTables(p)
    BY <1>9 DEF CreateSystemTables
<1>10. CASE WriteSystem(p)
    BY <1>10 DEF WriteSystem, SyncApp
<1>11. CASE SystemLanding(p)
    BY <1>11 DEF SystemLanding, ShowLanding
<1>12. CASE ReadTask(p)
    BY <1>12 DEF ReadTask, ReadBase
<1>13. CASE WriteTask(p)
    BY <1>13 DEF WriteTask, WriteBase, SyncApp
<1>14. CASE ReadObservability(p)
    BY <1>14 DEF ReadObservability, ReadBase
<1>15. CASE WriteObservability(p)
    BY <1>15 DEF WriteObservability, WriteBase, SyncApp
<1>16. CASE ReadOOTB(p)
    BY <1>16 DEF ReadOOTB, ReadBase
<1>17. CASE WriteOOTB(p)
    BY <1>17 DEF WriteOOTB
<1>18. CASE OOTBLanding(p)
    BY <1>18 DEF OOTBLanding, ShowLanding
<1>19. CASE ReadBundled(p)
    BY <1>19 DEF ReadBundled
<1>20. CASE UpsertBundled(p)
    BY <1>20 DEF UpsertBundled
<1>21. CASE SeedBundled(p)
    BY <1>21 DEF SeedBundled
<1>22. CASE UpsertedAll(p)
    BY <1>22 DEF UpsertedAll
<1>23. CASE PruneBundled(p)
    BY <1>23 DEF PruneBundled
<1>24. CASE SaveRegistry(p)
    BY <1>24 DEF SaveRegistry
<1>25. CASE ReadPages(p)
    BY <1>25 DEF ReadPages
<1>30. CASE ReadPruned(p)
    BY <1>30 DEF ReadPruned
<1>26. CASE WritePages(p)
    BY <1>26 DEF WritePages
<1>27. CASE LookForUsers(p)
    BY <1>27 DEF LookForUsers
<1>28. CASE CreateFirstUser(p)
    BY <1>28 DEF CreateFirstUser
<1>29. CASE HelperUser(p)
    BY <1>29 DEF HelperUser
<1> QED BY <1>1, <1>2, <1>3, <1>4, <1>5, <1>6, <1>7, <1>8, <1>9, <1>10, <1>11, <1>12, <1>13, <1>14, <1>15, <1>16, <1>17, <1>18, <1>19, <1>20, <1>21, <1>22, <1>23, <1>24, <1>25, <1>26, <1>27, <1>28, <1>29, <1>30 DEF Works

\* Who writes what.
LEMMA Writers ==
    ASSUME NEW p, Works(p)
    PROVE  /\ UNCHANGED <<apps, pages>> \/ ApplyMigration(p) \/ WriteLegacy(p) \/ WriteRoles(p) \/ WriteSystem(p) \/ WriteTask(p)
                \/ WriteObservability(p) \/ WriteOOTB(p) \/ UpsertBundled(p) \/ PruneBundled(p)
                \/ (UNCHANGED apps /\ (SystemLanding(p) \/ OOTBLanding(p) \/ WritePages(p)))
           /\ UNCHANGED <<recorded, ran>> \/ Verify(p) \/ ApplyMigration(p)
           /\ UNCHANGED physical \/ ApplyMigration(p) \/ After042(p) \/ CreateSystemTables(p)
           /\ UNCHANGED records \/ SeedBundled(p) \/ PruneBundled(p)
           /\ UNCHANGED registry \/ SaveRegistry(p)
           /\ UNCHANGED route \/ SystemLanding(p) \/ OOTBLanding(p)
           /\ UNCHANGED users \/ CreateFirstUser(p) \/ HelperUser(p)
           /\ UNCHANGED lock \/ LookForUsers(p) \/ CreateFirstUser(p)
           /\ UNCHANGED <<kept, starts, edits>>
<1> USE DEF db, Own, Counters
<1>1. CASE Verify(p)
    BY <1>1 DEF Verify
<1>2. CASE ApplyMigration(p)
    BY <1>2 DEF ApplyMigration
<1>3. CASE After042(p)
    BY <1>3 DEF After042
<1>4. CASE ReadLegacy(p)
    BY <1>4 DEF ReadLegacy
<1>5. CASE WriteLegacy(p)
    BY <1>5 DEF WriteLegacy, RewriteEach, Apps
<1>6. CASE ReadRoles(p)
    BY <1>6 DEF ReadRoles
<1>7. CASE WriteRoles(p)
    BY <1>7 DEF WriteRoles, RewriteEach, Apps
<1>8. CASE ReadSystem(p)
    BY <1>8 DEF ReadSystem
<1>9. CASE CreateSystemTables(p)
    BY <1>9 DEF CreateSystemTables
<1>10. CASE WriteSystem(p)
    BY <1>10 DEF WriteSystem, SyncApp, Apps
<1>11. CASE SystemLanding(p)
    BY <1>11 DEF SystemLanding, ShowLanding
<1>12. CASE ReadTask(p)
    BY <1>12 DEF ReadTask, ReadBase
<1>13. CASE WriteTask(p)
    BY <1>13 DEF WriteTask, WriteBase, SyncApp, Apps
<1>14. CASE ReadObservability(p)
    BY <1>14 DEF ReadObservability, ReadBase
<1>15. CASE WriteObservability(p)
    BY <1>15 DEF WriteObservability, WriteBase, SyncApp, Apps
<1>16. CASE ReadOOTB(p)
    BY <1>16 DEF ReadOOTB, ReadBase
<1>17. CASE WriteOOTB(p)
    BY <1>17 DEF WriteOOTB, Apps
<1>18. CASE OOTBLanding(p)
    BY <1>18 DEF OOTBLanding, ShowLanding
<1>19. CASE ReadBundled(p)
    BY <1>19 DEF ReadBundled
<1>20. CASE UpsertBundled(p)
    BY <1>20 DEF UpsertBundled, Apps
<1>21. CASE SeedBundled(p)
    BY <1>21 DEF SeedBundled
<1>22. CASE UpsertedAll(p)
    BY <1>22 DEF UpsertedAll
<1>23. CASE PruneBundled(p)
    BY <1>23 DEF PruneBundled
<1>24. CASE SaveRegistry(p)
    BY <1>24 DEF SaveRegistry
<1>25. CASE ReadPages(p)
    BY <1>25 DEF ReadPages
<1>30. CASE ReadPruned(p)
    BY <1>30 DEF ReadPruned
<1>26. CASE WritePages(p)
    BY <1>26 DEF WritePages
<1>27. CASE LookForUsers(p)
    BY <1>27 DEF LookForUsers
<1>28. CASE CreateFirstUser(p)
    BY <1>28 DEF CreateFirstUser
<1>29. CASE HelperUser(p)
    BY <1>29 DEF HelperUser
<1> QED BY <1>1, <1>2, <1>3, <1>4, <1>5, <1>6, <1>7, <1>8, <1>9, <1>10, <1>11, <1>12, <1>13, <1>14, <1>15, <1>16, <1>17, <1>18, <1>19, <1>20, <1>21, <1>22, <1>23, <1>24, <1>25, <1>26, <1>27, <1>28, <1>29, <1>30 DEF Works

-----------------------------------------------------------------------------
(* What the writers of definitions write.                                  *)

TableShape(T) == T = [app \in DOMAIN T |-> T[app]] /\ \A app \in DOMAIN T : IsRow(T[app])

\* Rows, and tables with a row put, set or removed.
LEMMA RowFields ==
    ASSUME NEW x, NEW y, NEW m, NEW n
    PROVE  /\ IsRow(Row(x, y, m, n))
           /\ Row(x, y, m, n).draft = x /\ Row(x, y, m, n).published = y
BY DEF IsRow, Row

\* A row added.
LEMMA PutRow ==
    ASSUME NEW T, TableShape(T), NEW a, NEW r, IsRow(r), NEW U,
           U = [x \in DOMAIN T \cup {a} |-> IF x = a THEN r ELSE T[x]]
    PROVE  /\ TableShape(U) /\ DOMAIN U = DOMAIN T \cup {a}
           /\ U[a] = r
           /\ \A b \in DOMAIN T \ {a} : U[b] = T[b]
BY DEF TableShape

\* A row replaced.
LEMMA SetRow ==
    ASSUME NEW T, TableShape(T), NEW a, a \in DOMAIN T, NEW r, IsRow(r), NEW U, U = [T EXCEPT ![a] = r]
    PROVE  /\ TableShape(U) /\ DOMAIN U = DOMAIN T
           /\ U[a] = r
           /\ \A b \in DOMAIN T \ {a} : U[b] = T[b]
BY DEF TableShape

\* Rows left out.
LEMMA CutTable ==
    ASSUME NEW T, TableShape(T), NEW S, S \subseteq DOMAIN T
    PROVE  TableShape([a \in S |-> T[a]])
BY DEF TableShape

\* An update writes the app and those of its namespace.
LEMMA UpdateShape ==
    ASSUME NEW T, TableShape(T), NEW a, NEW x, NEW y
    PROVE  /\ TableShape(Update(T, a, x, y)) /\ DOMAIN Update(T, a, x, y) = DOMAIN T
           /\ a \in DOMAIN T => Update(T, a, x, y)[a].draft = x /\ Update(T, a, x, y)[a].published = y
           /\ \A b \in DOMAIN T \ {a, TaskDefinition} : Update(T, a, x, y)[b] = T[b]
<1> DEFINE U == Update(T, a, x, y)
<1>1. DOMAIN U = DOMAIN T /\ U = [b \in DOMAIN U |-> U[b]]
    BY DEF Update
<1>2. \A b \in DOMAIN T : U[b] = IF b \in Matching(T, a) THEN Synced(T[b], x, y) ELSE T[b]
    BY DEF Update
<1>3. \A b : IsRow(Synced(T[b], x, y)) /\ Synced(T[b], x, y).draft = x /\ Synced(T[b], x, y).published = y
    BY RowFields DEF Synced
<1> HIDE DEF U
<1>4. \A b \in DOMAIN T : IsRow(U[b])
    BY <1>2, <1>3 DEF TableShape
<1>5. a \in DOMAIN T => a \in Matching(T, a)
    BY DEF Matching
<1>6. \A b \in DOMAIN T \ {a, TaskDefinition} : b \notin Matching(T, a)
    BY DEF Matching, NamespaceOf
<1>7. a \in DOMAIN T => U[a].draft = x /\ U[a].published = y
    BY <1>2, <1>3, <1>5
<1>8. \A b \in DOMAIN T \ {a, TaskDefinition} : U[b] = T[b]
    BY <1>2, <1>6
<1> QED BY <1>1, <1>4, <1>7, <1>8 DEF TableShape, U

\* What the writers of definitions write.
Rewrites(p, Pass(_), here) ==
    \E app \in proc[p].todo :
        /\ At(p, here) /\ Did(p, here, app)
        /\ \/ apps' = apps /\ app \notin DOMAIN apps
           \/ apps' = apps /\ Pass(proc[p].copy[app].draft) = proc[p].copy[app].draft
                           /\ Pass(proc[p].copy[app].published) = proc[p].copy[app].published
           \/ /\ TableShape(apps') /\ DOMAIN apps' = DOMAIN apps /\ app \in DOMAIN apps
              /\ apps'[app].draft = Pass(proc[p].copy[app].draft)
              /\ apps'[app].published = Pass(proc[p].copy[app].published)
              /\ \A b \in DOMAIN apps \ {app} : apps'[b] = apps[b]

\* The pass over scripts at the top level.
LEMMA LegacyRewrites ==
    ASSUME NEW p, WriteLegacy(p), TableShape(apps)
    PROVE  Rewrites(p, Unscripted, "legacyw")
<1>1. PICK app \in proc[p].todo :
         /\ Did(p, "legacyw", app)
         /\ apps' = IF app \in DOMAIN apps /\ (Unscripted(proc[p].copy[app].draft) # proc[p].copy[app].draft
                                              \/ Unscripted(proc[p].copy[app].published) # proc[p].copy[app].published)
                      THEN [apps EXCEPT ![app] = Row(Unscripted(proc[p].copy[app].draft), Unscripted(proc[p].copy[app].published), @.dv, @.pv)]
                      ELSE apps
    BY DEF WriteLegacy, RewriteEach
<1>2. At(p, "legacyw")
    BY DEF WriteLegacy, RewriteEach
<1> DEFINE r == Row(Unscripted(proc[p].copy[app].draft), Unscripted(proc[p].copy[app].published), apps[app].dv, apps[app].pv)
<1>3. IsRow(r) /\ r.draft = Unscripted(proc[p].copy[app].draft) /\ r.published = Unscripted(proc[p].copy[app].published)
    BY RowFields
<1>4. \/ apps' = apps /\ app \notin DOMAIN apps
      \/ apps' = apps /\ Unscripted(proc[p].copy[app].draft) = proc[p].copy[app].draft
                           /\ Unscripted(proc[p].copy[app].published) = proc[p].copy[app].published
      \/ app \in DOMAIN apps /\ apps' = [apps EXCEPT ![app] = r]
    BY <1>1
<1> HIDE DEF r
<1>5. ASSUME app \in DOMAIN apps, apps' = [apps EXCEPT ![app] = r]
      PROVE  /\ TableShape(apps') /\ DOMAIN apps' = DOMAIN apps
             /\ apps'[app] = r
             /\ \A b \in DOMAIN apps \ {app} : apps'[b] = apps[b]
    BY <1>3, <1>5, SetRow
<1> QED BY <1>1, <1>2, <1>3, <1>4, <1>5 DEF Rewrites
\* The pass over entry points without roles.
LEMMA RolesRewrites ==
    ASSUME NEW p, WriteRoles(p), TableShape(apps)
    PROVE  Rewrites(p, Backfilled, "rolesw")
<1>1. PICK app \in proc[p].todo :
         /\ Did(p, "rolesw", app)
         /\ apps' = IF app \in DOMAIN apps /\ (Backfilled(proc[p].copy[app].draft) # proc[p].copy[app].draft
                                              \/ Backfilled(proc[p].copy[app].published) # proc[p].copy[app].published)
                      THEN [apps EXCEPT ![app] = Row(Backfilled(proc[p].copy[app].draft), Backfilled(proc[p].copy[app].published), @.dv, @.pv)]
                      ELSE apps
    BY DEF WriteRoles, RewriteEach
<1>2. At(p, "rolesw")
    BY DEF WriteRoles, RewriteEach
<1> DEFINE r == Row(Backfilled(proc[p].copy[app].draft), Backfilled(proc[p].copy[app].published), apps[app].dv, apps[app].pv)
<1>3. IsRow(r) /\ r.draft = Backfilled(proc[p].copy[app].draft) /\ r.published = Backfilled(proc[p].copy[app].published)
    BY RowFields
<1>4. \/ apps' = apps /\ app \notin DOMAIN apps
      \/ apps' = apps /\ Backfilled(proc[p].copy[app].draft) = proc[p].copy[app].draft
                           /\ Backfilled(proc[p].copy[app].published) = proc[p].copy[app].published
      \/ app \in DOMAIN apps /\ apps' = [apps EXCEPT ![app] = r]
    BY <1>1
<1> HIDE DEF r
<1>5. ASSUME app \in DOMAIN apps, apps' = [apps EXCEPT ![app] = r]
      PROVE  /\ TableShape(apps') /\ DOMAIN apps' = DOMAIN apps
             /\ apps'[app] = r
             /\ \A b \in DOMAIN apps \ {app} : apps'[b] = apps[b]
    BY <1>3, <1>5, SetRow
<1> QED BY <1>1, <1>2, <1>3, <1>4, <1>5 DEF Rewrites

\* What a sync pass writes of one app.
LEMMA SyncWrites ==
    ASSUME NEW p, NEW app, NEW x, NEW y, NEW next, SyncApp(p, app, x, y, next)
    PROVE  \/ apps' = apps /\ Go(p, next) /\ x = proc[p].copy[app].draft /\ y = proc[p].copy[app].published
           \/ apps' = apps /\ Go(p, "refused")
           \/ Valid(x) /\ Valid(y) /\ Go(p, next) /\ apps' = Update(apps, app, x, y)
BY DEF SyncApp

\* What a migration file does to the apps.
LEMMA FileWrites ==
    ASSUME NEW v, TableShape(apps)
    PROVE  /\ TableShape(AppsAfter(v))
           /\ v = M076 => /\ DOMAIN AppsAfter(v) = DOMAIN apps \cup {TaskDefinition}
                          /\ \A a \in DOMAIN apps \ {TaskDefinition} : AppsAfter(v)[a] = apps[a]
           /\ v = M042 => /\ DOMAIN AppsAfter(v) = DOMAIN apps \cup {"system"}
                          /\ AppsAfter(v)["system"] = Row({Table(UserTable)}, {Table(UserTable)}, 1, 1)
                          /\ \A a \in DOMAIN apps \ {"system"} : AppsAfter(v)[a] = apps[a]
           /\ v = M047 => /\ DOMAIN AppsAfter(v) = DOMAIN apps \cup {"base"}
                          /\ AppsAfter(v)["base"] = Row({WorkOrders}, {WorkOrders}, 1, 1)
                          /\ \A a \in DOMAIN apps \ {"base"} : AppsAfter(v)[a] = apps[a]
           /\ v # M042 /\ v # M047 /\ v # M076 => AppsAfter(v) = apps
<1>1. CASE v = M042
    <2>1. AppsAfter(v) = Put(apps, "system", Row({Table(UserTable)}, {Table(UserTable)}, 1, 1))
        BY <1>1 DEF AppsAfter
    <2>2. v # M047 /\ v # M076
        BY <1>1 DEF M042, M047, M076
    <2> DEFINE r == Row({Table(UserTable)}, {Table(UserTable)}, 1, 1)
    <2>3. IsRow(r)
        BY RowFields
    <2> HIDE DEF r
    <2>5. AppsAfter(v) = Put(apps, "system", r)
        BY <2>1 DEF r
    <2>4. /\ TableShape(AppsAfter(v)) /\ DOMAIN AppsAfter(v) = DOMAIN apps \cup {"system"}
          /\ AppsAfter(v)["system"] = r
          /\ \A b \in DOMAIN apps \ {"system"} : AppsAfter(v)[b] = apps[b]
        BY <2>3, <2>5, PutRow DEF Put
    <2>6. r = Row({Table(UserTable)}, {Table(UserTable)}, 1, 1)
        BY DEF r
    <2> QED BY <1>1, <2>2, <2>4, <2>5, <2>6
<1>2. CASE v = M047
    <2>1. v # M042 /\ v # M076
        BY <1>2 DEF M042, M047, M076
    <2>2. AppsAfter(v) = Put(apps, "base", Row({WorkOrders}, {WorkOrders}, 1, 1))
        BY <1>2, <2>1 DEF AppsAfter
    <2> DEFINE r == Row({WorkOrders}, {WorkOrders}, 1, 1)
    <2>3. IsRow(r)
        BY RowFields
    <2> HIDE DEF r
    <2>5. AppsAfter(v) = Put(apps, "base", r)
        BY <2>2 DEF r
    <2>4. /\ TableShape(AppsAfter(v)) /\ DOMAIN AppsAfter(v) = DOMAIN apps \cup {"base"}
          /\ AppsAfter(v)["base"] = r
          /\ \A b \in DOMAIN apps \ {"base"} : AppsAfter(v)[b] = apps[b]
        BY <2>3, <2>5, PutRow DEF Put
    <2>6. r = Row({WorkOrders}, {WorkOrders}, 1, 1)
        BY DEF r
    <2> QED BY <1>2, <2>1, <2>4, <2>5, <2>6
<1>4. CASE v = M076
    <2>1. v # M042 /\ v # M047
        BY <1>4 DEF M042, M047, M076
    <2> DEFINE r == Row({Catalog}, {Catalog}, 1, 1)
    <2>2. IsRow(r)
        BY RowFields
    <2>3. AppsAfter(v) = Put(apps, TaskDefinition, r)
        BY <1>4, <2>1 DEF AppsAfter
    <2> HIDE DEF r
    <2>4. /\ TableShape(AppsAfter(v)) /\ DOMAIN AppsAfter(v) = DOMAIN apps \cup {TaskDefinition}
          /\ \A b \in DOMAIN apps \ {TaskDefinition} : AppsAfter(v)[b] = apps[b]
        <3>1. AppsAfter(v) = [x \in DOMAIN apps \cup {TaskDefinition} |-> IF x = TaskDefinition THEN r ELSE apps[x]]
            BY <2>3 DEF Put
        <3> QED BY <2>2, <3>1, PutRow
    <2> QED BY <1>4, <2>1, <2>4
<1>3. CASE v # M042 /\ v # M047 /\ v # M076
    BY <1>3 DEF AppsAfter
<1> QED BY <1>1, <1>2, <1>3, <1>4

\* SyncOOTBBaseAppDefinition drops the system app and rewrites the base app.
LEMMA OOTBWrites ==
    ASSUME NEW p, WriteOOTB(p), TableShape(apps)
    PROVE  \/ apps' = apps /\ Go(p, "refused")
           \/ /\ Valid(ComposedBase(p, "draft")) /\ Valid(ComposedBase(p, "published")) /\ Go(p, "landing2")
              /\ TableShape(apps')
              /\ DOMAIN apps' = IF "system" \in DOMAIN proc[p].copy THEN DOMAIN apps \ {"system"} ELSE DOMAIN apps
              /\ "base" \in DOMAIN apps => apps'["base"].draft = ComposedBase(p, "draft")
                                           /\ apps'["base"].published = ComposedBase(p, "published")
              /\ \A a \in DOMAIN apps' \ {"base"} : apps'[a] = apps[a]
<1> DEFINE x == ComposedBase(p, "draft")
           y == ComposedBase(p, "published")
           gone == IF "system" \in DOMAIN proc[p].copy THEN Matching(apps, "system") ELSE {}
           left == DOMAIN apps \ gone
<1>1. \/ apps' = apps /\ Go(p, "refused")
      \/ /\ Valid(x) /\ Valid(y) /\ Go(p, "landing2")
         /\ apps' = [app \in left |-> IF app = "base" THEN Synced(apps[app], x, y) ELSE apps[app]]
    BY DEF WriteOOTB
<1>2. Matching(apps, "system") = DOMAIN apps \cap {"system"}
    BY DEF Matching, NamespaceOf, TaskDefinition
<1>3. left = IF "system" \in DOMAIN proc[p].copy THEN DOMAIN apps \ {"system"} ELSE DOMAIN apps
    BY <1>2
<1>4. IsRow(Synced(apps["base"], x, y)) /\ Synced(apps["base"], x, y).draft = x /\ Synced(apps["base"], x, y).published = y
    BY RowFields DEF Synced
<1>5. x = ComposedBase(p, "draft") /\ y = ComposedBase(p, "published")
    OBVIOUS
<1>6. left \subseteq DOMAIN apps /\ ("base" \in DOMAIN apps => "base" \in left)
    BY <1>3
<1> DEFINE r0 == Synced(apps["base"], x, y)
<1>7. \/ apps' = apps /\ Go(p, "refused")
      \/ /\ Valid(x) /\ Valid(y) /\ Go(p, "landing2")
         /\ apps' = [app \in left |-> IF app = "base" THEN r0 ELSE apps[app]]
    <2>1. [app \in left |-> IF app = "base" THEN Synced(apps[app], x, y) ELSE apps[app]]
              = [app \in left |-> IF app = "base" THEN r0 ELSE apps[app]]
        OBVIOUS
    <2> QED BY <1>1, <2>1
<1>8. IsRow(r0) /\ r0.draft = x /\ r0.published = y
    BY <1>4
<1> HIDE DEF r0, left, gone, x, y
<1>9. CASE apps' = [app \in left |-> IF app = "base" THEN r0 ELSE apps[app]]
    <2>1. DOMAIN apps' = left /\ \A a \in left : apps'[a] = IF a = "base" THEN r0 ELSE apps[a]
        BY <1>9
    <2>2. TableShape(apps')
        BY <1>6, <1>8, <1>9, <2>1 DEF TableShape
    <2>3. /\ "base" \in DOMAIN apps => apps'["base"].draft = x /\ apps'["base"].published = y
          /\ \A a \in DOMAIN apps' \ {"base"} : apps'[a] = apps[a]
        BY <1>6, <1>8, <2>1
    <2> QED BY <1>3, <1>5, <1>7, <2>1, <2>2, <2>3
<1> QED BY <1>7, <1>9

\* A bundled app takes the definition of its file.
Ships(p) == Build(p).ships
Chosen(p) == CHOOSE a \in proc[p].todo : TRUE
\* The definition of the file becomes draft and published.
LEMMA UpsertWrites ==
    ASSUME NEW p, UpsertBundled(p), TableShape(apps)
    PROVE  \/ apps' = apps /\ Go(p, "refused")
           \/ /\ Go(p, "seed") /\ TableShape(apps') /\ DOMAIN apps' = DOMAIN apps \cup {Chosen(p)}
              /\ apps'[Chosen(p)].draft = Ships(p)[Chosen(p)] /\ apps'[Chosen(p)].published = Ships(p)[Chosen(p)]
              /\ \A a \in DOMAIN apps \ {Chosen(p)} : apps'[a] = apps[a]
<1> DEFINE app == Chosen(p)
           d == Ships(p)[app]
<1>1. CASE ~Listable(apps) \/ ~Valid(d)
    BY <1>1 DEF UpsertBundled, Chosen, Ships
<1>2. CASE Listable(apps) /\ Valid(d)
    <2>1. /\ Go(p, "seed")
          /\ apps' = IF app \in DOMAIN apps THEN [apps EXCEPT ![app] = Synced(@, d, d)] ELSE Put(apps, app, Row(d, d, 1, 1))
        BY <1>2 DEF UpsertBundled, Chosen, Ships
    <2>a. app = Chosen(p) /\ d = Ships(p)[Chosen(p)]
        OBVIOUS
    <2> HIDE DEF app, d
    <2> DEFINE r1 == Synced(apps[app], d, d)
    <2>2. app \in DOMAIN apps => apps' = [apps EXCEPT ![app] = r1]
        BY <2>1
    <2>9. IsRow(r1) /\ r1.draft = d /\ r1.published = d
        BY RowFields DEF Synced
    <2> HIDE DEF r1
    <2>3. ASSUME app \in DOMAIN apps
          PROVE  /\ TableShape(apps') /\ DOMAIN apps' = DOMAIN apps
                 /\ apps'[app] = r1
                 /\ \A b \in DOMAIN apps \ {app} : apps'[b] = apps[b]
        BY <2>2, <2>3, <2>9, SetRow
    <2> DEFINE r == Row(d, d, 1, 1)
    <2>4. IsRow(r) /\ r.draft = d /\ r.published = d
        BY RowFields
    <2>5. app \notin DOMAIN apps => apps' = Put(apps, app, r)
        BY <2>1
    <2> HIDE DEF r
    <2>6. ASSUME app \notin DOMAIN apps
          PROVE  /\ TableShape(apps') /\ DOMAIN apps' = DOMAIN apps \cup {app}
                 /\ apps'[app] = r
                 /\ \A b \in DOMAIN apps \ {app} : apps'[b] = apps[b]
        BY <2>4, <2>5, <2>6, PutRow DEF Put
    <2>7. CASE app \in DOMAIN apps
        BY <2>1, <2>a, <2>3, <2>7, <2>9
    <2>8. CASE app \notin DOMAIN apps
        BY <2>1, <2>a, <2>4, <2>5, <2>6, <2>8
    <2> QED BY <2>7, <2>8
<1> QED BY <1>1, <1>2

\* An app that is pruned goes with the records that the definition read seeds.
Pruned(p) == proc[p].copy[2]
LEMMA PruneWrites ==
    ASSUME NEW p, PruneBundled(p), TableShape(apps)
    PROVE  /\ Turn(p, "prune", proc[p].copy[1], proc[p].todo \ {Pruned(p)})
           /\ TableShape(apps') /\ DOMAIN apps' = DOMAIN apps \ Matching(apps, Pruned(p))
           /\ \A a \in DOMAIN apps' : apps'[a] = apps[a]
           /\ records' = [id \in DOMAIN records \ {SeedId(Pruned(p), s) : s \in SeedsOf(proc[p].copy[3])} |-> records[id]]
<1> DEFINE left == DOMAIN apps \ Matching(apps, Pruned(p))
<1>1. /\ Turn(p, "prune", proc[p].copy[1], proc[p].todo \ {Pruned(p)})
      /\ apps' = [a \in left |-> apps[a]]
      /\ records' = [id \in DOMAIN records \ {SeedId(Pruned(p), s) : s \in SeedsOf(proc[p].copy[3])} |-> records[id]]
    BY DEF PruneBundled, Pruned
<1>2. left \subseteq DOMAIN apps /\ left = DOMAIN apps \ Matching(apps, Pruned(p))
    OBVIOUS
<1> HIDE DEF left
<1>3. TableShape(apps')
    BY <1>1, <1>2, CutTable
<1> QED BY <1>1, <1>2, <1>3

\* What people write: the draft of an app, or what is published of it, and the
\* same in the rows of its namespace.
SavedItems == Edits \cup {OwnLanding} \cup {Old(t) : t \in SystemTables}
NewDraft(app, e) == Landed(app, Replacing(apps[app].draft, e))
NewKept(app, e) ==
    IF Nobody /\ e \in Edits /\ Lasting(app, e) THEN {f \in kept : KeyOf(f) # KeyOf(e)} \cup {e}
    ELSE {f \in kept : KeyOf(f) # KeyOf(e)}
Saves(app, e) ==
    /\ Accepted(app, NewDraft(app, e)) /\ kept' = NewKept(app, e)
    /\ TableShape(apps') /\ DOMAIN apps' = DOMAIN apps
    /\ apps'[app].draft = NewDraft(app, e)
    /\ \A b \in DOMAIN apps : apps'[b].published = apps[b].published
    /\ \A b \in DOMAIN apps \ {app, TaskDefinition} : apps'[b] = apps[b]
LEMMA SaveWrites ==
    ASSUME SaveDraft, TableShape(apps)
    PROVE  \E app \in DOMAIN apps, e \in SavedItems : Saves(app, e)
<1>1. PICK app \in DOMAIN apps, e \in SavedItems :
         /\ Accepted(app, NewDraft(app, e)) /\ kept' = NewKept(app, e)
         /\ apps' = [a \in DOMAIN apps |->
               IF a \in Matching(apps, app) THEN Synced(apps[a], NewDraft(app, e), apps[a].published) ELSE apps[a]]
    BY DEF SaveDraft, SavedItems, NewDraft, NewKept
<1> DEFINE x == NewDraft(app, e)
<1>2. \A b : /\ IsRow(Synced(apps[b], x, apps[b].published))
             /\ Synced(apps[b], x, apps[b].published).draft = x
             /\ Synced(apps[b], x, apps[b].published).published = apps[b].published
    BY RowFields DEF Synced
<1>3. app \in Matching(apps, app) /\ \A b \in DOMAIN apps \ {app, TaskDefinition} : b \notin Matching(apps, app)
    BY DEF Matching, NamespaceOf
<1>4. /\ DOMAIN apps' = DOMAIN apps /\ apps' = [a \in DOMAIN apps' |-> apps'[a]]
      /\ \A a \in DOMAIN apps : apps'[a] = IF a \in Matching(apps, app) THEN Synced(apps[a], x, apps[a].published) ELSE apps[a]
    BY <1>1
<1> HIDE DEF x
<1>5. \A a \in DOMAIN apps : IsRow(apps'[a]) /\ apps'[a].published = apps[a].published
    BY <1>2, <1>4 DEF TableShape
<1>6. TableShape(apps')
    BY <1>4, <1>5 DEF TableShape
<1>7. apps'[app].draft = x /\ \A b \in DOMAIN apps \ {app, TaskDefinition} : apps'[b] = apps[b]
    BY <1>2, <1>3, <1>4
<1> QED BY <1>1, <1>4, <1>5, <1>6, <1>7 DEF Saves, x

\* Nothing of a draft is written by publishing.
Publishes(app) ==
    /\ Accepted(app, Landed(app, apps[app].draft))
    /\ TableShape(apps') /\ DOMAIN apps' = DOMAIN apps
    /\ apps'[app].published = Landed(app, apps[app].draft)
    /\ \A b \in DOMAIN apps : apps'[b].draft = apps[b].draft
    /\ \A b \in DOMAIN apps \ {app, TaskDefinition} : apps'[b] = apps[b]
LEMMA PublishWrites ==
    ASSUME PublishDraft, TableShape(apps)
    PROVE  \E app \in DOMAIN apps : Publishes(app)
<1>1. PICK app \in DOMAIN apps :
         /\ Accepted(app, Landed(app, apps[app].draft))
         /\ apps' = [a \in DOMAIN apps |->
               IF a \in Matching(apps, app) THEN Row(apps[a].draft, Landed(app, apps[app].draft), apps[a].dv, apps[a].dv) ELSE apps[a]]
    BY DEF PublishDraft
<1> DEFINE d == Landed(app, apps[app].draft)
<1>2. \A b : /\ IsRow(Row(apps[b].draft, d, apps[b].dv, apps[b].dv))
             /\ Row(apps[b].draft, d, apps[b].dv, apps[b].dv).draft = apps[b].draft
             /\ Row(apps[b].draft, d, apps[b].dv, apps[b].dv).published = d
    BY RowFields
<1>3. app \in Matching(apps, app) /\ \A b \in DOMAIN apps \ {app, TaskDefinition} : b \notin Matching(apps, app)
    BY DEF Matching, NamespaceOf
<1>4. /\ DOMAIN apps' = DOMAIN apps /\ apps' = [a \in DOMAIN apps' |-> apps'[a]]
      /\ \A a \in DOMAIN apps : apps'[a] = IF a \in Matching(apps, app) THEN Row(apps[a].draft, d, apps[a].dv, apps[a].dv) ELSE apps[a]
    BY <1>1
<1> HIDE DEF d
<1>5. \A a \in DOMAIN apps : IsRow(apps'[a]) /\ apps'[a].draft = apps[a].draft
    BY <1>2, <1>4 DEF TableShape
<1>6. TableShape(apps')
    BY <1>4, <1>5 DEF TableShape
<1>7. apps'[app].published = d /\ \A b \in DOMAIN apps \ {app, TaskDefinition} : apps'[b] = apps[b]
    BY <1>2, <1>3, <1>4
<1> QED BY <1>1, <1>4, <1>5, <1>6, <1>7 DEF Publishes, d

\* No working step spoils the table of apps.
LEMMA WorksShape ==
    ASSUME NEW p, Works(p), TableShape(apps)
    PROVE  TableShape(apps')
<1>1. CASE ApplyMigration(p)
    <2>1. apps' = apps \/ \E v : apps' = AppsAfter(v)
        BY <1>1 DEF ApplyMigration
    <2> QED BY <2>1, FileWrites
<1>2. CASE WriteLegacy(p)
    BY <1>2, LegacyRewrites DEF Rewrites
<1>3. CASE WriteRoles(p)
    BY <1>3, RolesRewrites DEF Rewrites
<1>4. CASE WriteSystem(p) \/ WriteTask(p) \/ WriteObservability(p)
    <2>1. \E app, x, y, next : SyncApp(p, app, x, y, next)
        BY <1>4 DEF WriteSystem, WriteTask, WriteObservability, WriteBase
    <2>2. apps' = apps \/ \E app, x, y : apps' = Update(apps, app, x, y)
        BY <2>1, SyncWrites
    <2> QED BY <2>2, UpdateShape
<1>5. CASE WriteOOTB(p)
    BY <1>5, OOTBWrites
<1>6. CASE UpsertBundled(p)
    BY <1>6, UpsertWrites
<1>7. CASE PruneBundled(p)
    BY <1>7, PruneWrites
<1> QED BY <1>1, <1>2, <1>3, <1>4, <1>5, <1>6, <1>7, Writers

-----------------------------------------------------------------------------
(* Shapes, and deleted records.                                            *)

ShapeInv == ProcShape /\ TableShape(apps) /\ DataShape /\ starts \in Nat /\ edits \in Nat

\* The first databases have the shape, and every step keeps it.
LEMMA ShapeStarts == Init => ShapeInv
<1> SUFFICES ASSUME Init PROVE ShapeInv
    OBVIOUS
<1>1. PICK s \in InitialStates : recorded = s.recorded /\ ran = s.ran /\ physical = s.physical /\ apps = s.apps
    BY DEF Init
<1>2. IsProc(Idle) /\ Idle.pc = "down"
    BY DEF IsProc, Idle, Stages
<1>3. proc = [p \in Procs |-> Idle]
    BY DEF Init
<1>4. ProcShape
    BY <1>2, <1>3 DEF ProcShape, At
<1>5. /\ s.apps = [app \in DOMAIN s.apps |-> s.apps[app]]
      /\ s.recorded = [v \in DOMAIN s.recorded |-> s.recorded[v]]
    BY DatabaseAssumption
<1>6. \A app \in DOMAIN s.apps : IsRow(s.apps[app])
    BY DatabaseAssumption DEF IsRow
<1>7. records = [id \in DOMAIN records |-> records[id]] /\ starts = 0 /\ edits = 0
    BY DEF Init
<1> QED BY <1>1, <1>4, <1>5, <1>6, <1>7 DEF ShapeInv, TableShape, DataShape

\* A step of a process leaves the others where they are.
LEMMA BootShape ==
    ASSUME NEW p \in Procs, Boot(p), ProcShape
    PROVE  ProcShape' /\ \A q \in Procs \ {p} : proc'[q] = proc[q]
<1>1. CASE Start(p)
    <2>1. PICK b \in DOMAIN Builds : proc' = [proc EXCEPT ![p] = [pc |-> "verify", build |-> b, copy |-> recorded, todo |-> {}]]
        BY <1>1 DEF Start
    <2> DEFINE r == [pc |-> "verify", build |-> b, copy |-> recorded, todo |-> {}]
    <2>2. IsProc(r) /\ r.build \in DOMAIN Builds
        BY DEF IsProc, Stages
    <2>3. proc' = [proc EXCEPT ![p] = r]
        BY <2>1
    <2> HIDE DEF r
    <2>4. proc'[p] = r /\ (\A q \in Procs \ {p} : proc'[q] = proc[q]) /\ proc' = [q \in Procs |-> proc'[q]]
        BY <2>3, Replaced
    <2> QED BY <2>2, <2>4 DEF ProcShape, At
<1>2. CASE Exit(p) \/ Stop(p)
    <2>1. proc' = [proc EXCEPT ![p] = Idle]
        BY <1>2 DEF Exit, Stop
    <2>2. IsProc(Idle) /\ Idle.pc = "down"
        BY DEF IsProc, Idle, Stages
    <2>3. proc'[p] = Idle /\ (\A q \in Procs \ {p} : proc'[q] = proc[q]) /\ proc' = [q \in Procs |-> proc'[q]]
        BY <2>1, Replaced
    <2> QED BY <2>2, <2>3 DEF ProcShape, At
<1>3. CASE Works(p)
    <2>1. PICK pc \in Stages : \E copy, todo : Turn(p, pc, copy, todo) /\ ~At(p, "down")
        BY <1>3, WorksRuns DEF Runs
    <2>2. PICK copy, todo : Turn(p, pc, copy, todo) /\ ~At(p, "down")
        BY <2>1
    <2> QED BY <2>2, Turned, TurnedShape
<1> QED BY <1>1, <1>2, <1>3, BootCases

\* What seeding makes of the records (seedUpdateExcludedColumn keeps the flag).
LEMMA SeededData ==
    ASSUME NEW app, NEW d
    PROVE  /\ Seeded(app, d) = [id \in DOMAIN Seeded(app, d) |-> Seeded(app, d)[id]]
           /\ DOMAIN records \subseteq DOMAIN Seeded(app, d)
           /\ \A id \in DOMAIN Seeded(app, d) :
                \/ id \in DOMAIN records /\ Seeded(app, d)[id] = records[id]
                \/ \E s \in SeedsOf(d) : Seeded(app, d)[id] = Upserted(IF id \in DOMAIN records THEN records[id] ELSE NoRecord, s)
           /\ \A id \in DOMAIN records : id[1] # app => Seeded(app, d)[id] = records[id]
           /\ (\A s, t \in SeedsOf(d) : SeedId(app, s) = SeedId(app, t) => s = t) =>
                \A s \in SeedsOf(d) : SeedId(app, s) \in DOMAIN Seeded(app, d) /\ Seeded(app, d)[SeedId(app, s)].value = s[4]
<1> DEFINE S == {SeedId(app, s) : s \in SeedsOf(d)}
           pick(id) == CHOOSE s \in SeedsOf(d) : SeedId(app, s) = id
           f == [id \in S |-> Upserted(IF id \in DOMAIN records THEN records[id] ELSE NoRecord, pick(id))]
<1>1. Seeded(app, d) = Over(f, records)
    BY DEF Seeded
<1>2. Seeded(app, d) = [x \in S \cup DOMAIN records |-> IF x \in S THEN f[x] ELSE records[x]]
    BY <1>1 DEF Over
<1>3. \A id \in S : pick(id) \in SeedsOf(d) /\ SeedId(app, pick(id)) = id
    OBVIOUS
<1>4. \A id \in S : f[id] = Upserted(IF id \in DOMAIN records THEN records[id] ELSE NoRecord, pick(id))
    OBVIOUS
<1>5. \A id \in S : id[1] = app
    BY DEF SeedId
<1>6. \A s \in SeedsOf(d) : SeedId(app, s) \in S
    OBVIOUS
<1>7. \A old, s : Upserted(old, s).value = s[4]
    BY DEF Upserted
<1> HIDE DEF S, f, pick
<1>8. \A id \in DOMAIN Seeded(app, d) :
                \/ id \in DOMAIN records /\ Seeded(app, d)[id] = records[id]
                \/ \E s \in SeedsOf(d) : Seeded(app, d)[id] = Upserted(IF id \in DOMAIN records THEN records[id] ELSE NoRecord, s)
    BY <1>2, <1>3, <1>4
<1>9. \A id \in DOMAIN records : id[1] # app => Seeded(app, d)[id] = records[id]
    BY <1>2, <1>5
<1>10. ASSUME \A s, t \in SeedsOf(d) : SeedId(app, s) = SeedId(app, t) => s = t, NEW s \in SeedsOf(d)
       PROVE  SeedId(app, s) \in DOMAIN Seeded(app, d) /\ Seeded(app, d)[SeedId(app, s)].value = s[4]
    <2> DEFINE id == SeedId(app, s)
    <2>1. id \in S
        BY <1>6
    <2>2. pick(id) = s
        BY <1>3, <1>10, <2>1
    <2>3. Seeded(app, d)[id] = f[id] /\ id \in DOMAIN Seeded(app, d)
        BY <1>2, <2>1
    <2> HIDE DEF id
    <2>4. Seeded(app, d)[id].value = s[4]
        BY <1>4, <1>7, <2>1, <2>2, <2>3
    <2> QED BY <2>3, <2>4 DEF id
<1> QED BY <1>2, <1>8, <1>9, <1>10

\* Every step keeps the shape.
LEMMA ShapeKept == ASSUME ShapeInv, [Next]_vars PROVE ShapeInv'
<1> USE DEF ShapeInv
<1>1. CASE UNCHANGED vars
    BY <1>1 DEF vars, db, ProcShape, At, DataShape, TableShape
<1>2. ASSUME NEW p \in Procs, Boot(p) PROVE ShapeInv'
    <2>1. ProcShape'
        BY <1>2, BootShape
    <2>2. CASE Start(p) \/ Exit(p) \/ Stop(p)
        <3>1. UNCHANGED <<apps, recorded, records, edits>> /\ starts' \in Nat
            BY <2>2 DEF Start, Exit, Stop, db, Counters
        <3> QED BY <2>1, <3>1 DEF DataShape, TableShape
    <2>3. CASE Works(p)
        <3>1. TableShape(apps')
            BY <2>3, WorksShape
        <3>2. UNCHANGED <<starts, edits>>
            BY <2>3, Writers
        <3>3. recorded' = [v \in DOMAIN recorded' |-> recorded'[v]]
            <4>1. CASE Verify(p)
                BY <4>1 DEF Verify, DataShape
            <4>2. CASE ApplyMigration(p)
                BY <4>2 DEF ApplyMigration, DataShape, Put
            <4> QED BY <4>1, <4>2, <2>3, Writers DEF DataShape
        <3>4. records' = [id \in DOMAIN records' |-> records'[id]]
            <4>1. CASE SeedBundled(p)
                <5>1. records' = records \/ \E app, d : records' = Seeded(app, d)
                    BY <4>1 DEF SeedBundled
                <5> QED BY <5>1, SeededData DEF DataShape
            <4>2. CASE PruneBundled(p)
                BY <4>2 DEF PruneBundled
            <4> QED BY <4>1, <4>2, <2>3, Writers DEF DataShape
        <3> QED BY <2>1, <3>1, <3>2, <3>3, <3>4 DEF DataShape
    <2> QED BY <1>2, <2>2, <2>3, BootCases
<1>3. CASE SaveDraft
    <2>2. TableShape(apps')
        BY <1>3, SaveWrites DEF Saves
    <2>3. UNCHANGED <<proc, recorded, records, starts>> /\ edits' = edits + 1
        BY <1>3 DEF SaveDraft, Edited, Apps
    <2> QED BY <2>2, <2>3 DEF ProcShape, At, DataShape
<1>4. CASE PublishDraft
    <2>2. TableShape(apps')
        BY <1>4, PublishWrites DEF Publishes
    <2>3. UNCHANGED <<proc, recorded, records, starts>> /\ edits' = edits + 1
        BY <1>4 DEF PublishDraft, Edited
    <2> QED BY <2>2, <2>3 DEF ProcShape, At, DataShape
<1>5. CASE TouchRecord
    <2>1. UNCHANGED <<proc, recorded, apps, starts>> /\ edits' = edits + 1
        BY <1>5 DEF TouchRecord, Edited
    <2>2. records' = [id \in DOMAIN records' |-> records'[id]]
        BY <1>5 DEF TouchRecord, DataShape
    <2> QED BY <2>1, <2>2 DEF ProcShape, At, DataShape, TableShape
<1> QED BY <1>1, <1>2, <1>3, <1>4, <1>5 DEF Next

\* DeletionsStay: a bundled seed that somebody deleted stays deleted through every
\* later start (seedBundledApp, seedUpdateExcludedColumn); only a person's edit
\* brings a record back.
THEOREM DeletedStay == Spec => DeletionsStay
<1>1. ASSUME ShapeInv, [Next]_vars
      PROVE  [\A id \in DOMAIN records \cap DOMAIN records' :
                 records[id].deleted => records'[id].deleted \/ edits' # edits]_vars
    <2> SUFFICES ASSUME NEW id \in DOMAIN records \cap DOMAIN records', records[id].deleted, edits' = edits
                 PROVE  records'[id].deleted
        OBVIOUS
    <2>1. CASE UNCHANGED vars
        BY <2>1 DEF vars, db
    <2>2. ASSUME NEW p \in Procs, Boot(p) PROVE records'[id].deleted
        <3>1. CASE Start(p) \/ Exit(p) \/ Stop(p)
            BY <3>1 DEF Start, Exit, Stop, db
        <3>2. CASE SeedBundled(p)
            <4>1. records' = records \/ \E app, d : records' = Seeded(app, d)
                BY <3>2 DEF SeedBundled
            <4>2. CASE records' = records
                BY <4>2
            <4>3. ASSUME NEW app, NEW d, records' = Seeded(app, d) PROVE records'[id].deleted
                <5>1. \/ records'[id] = records[id]
                      \/ \E s \in SeedsOf(d) : records'[id] = Upserted(records[id], s)
                    BY <4>3, SeededData
                <5>2. \A s : Upserted(records[id], s).deleted = records[id].deleted
                    BY DEF Upserted
                <5> QED BY <5>1, <5>2
            <4> QED BY <4>1, <4>2, <4>3
        <3>3. CASE PruneBundled(p)
            BY <3>3 DEF PruneBundled
        <3> QED BY <2>2, <3>1, <3>2, <3>3, BootCases, Writers
    <2>3. CASE SaveDraft \/ PublishDraft \/ TouchRecord
        <3>1. edits' = edits + 1
            BY <2>3 DEF SaveDraft, PublishDraft, TouchRecord, Edited
        <3>2. edits \in Nat
            BY <1>1 DEF ShapeInv
        <3> QED BY <3>1, <3>2
    <2> QED BY <1>1, <2>1, <2>2, <2>3 DEF Next
<1> QED BY <1>1, ShapeStarts, ShapeKept, PTL DEF Spec, DeletionsStay

-----------------------------------------------------------------------------
(* Files.                                                                  *)

Migrating == {"migrate", "after042"}
Migrated == Stages \ ({"down", "verify", "failed", "refused"} \cup Migrating)

\* Where the steps after the migrations lead.
LEMMA LaterPlaces ==
    ASSUME NEW p \in Procs, Works(p), ProcShape
    PROVE  \/ Verify(p) \/ ApplyMigration(p) \/ After042(p) \/ ReadLegacy(p)
           \/ /\ proc[p].pc \in Migrated /\ proc'[p].pc \in Migrated \cup {"failed", "refused"}
              /\ proc'[p].build = proc[p].build
              /\ proc'[p].pc = "firstw" => LookForUsers(p)
              /\ proc'[p].pc = "prunew" => ReadPruned(p)
              /\ proc'[p].pc \in {"upsert", "seed", "prune"} =>
                    ReadBundled(p) \/ UpsertBundled(p) \/ SeedBundled(p) \/ UpsertedAll(p) \/ ReadPruned(p) \/ PruneBundled(p)
              /\ proc'[p].pc \in {"legacyw", "rolesw", "systemtables", "systemw", "taskw", "obsw", "composew"} =>
                    WriteLegacy(p) \/ WriteRoles(p) \/ ReadRoles(p) \/ ReadSystem(p) \/ CreateSystemTables(p)
                    \/ ReadTask(p) \/ ReadObservability(p) \/ ReadOOTB(p)
<1>0. DOMAIN proc = Procs
    BY DEF ProcShape
<1> USE DEF Go, Copy, Did, Turn, Done, At, Stages, Migrated, Migrating
<1>1. CASE WriteLegacy(p)
    <2>1. At(p, "legacyw") /\ \E app : Did(p, "legacyw", app)
        BY <1>1 DEF WriteLegacy, RewriteEach
    <2>2. proc[p].pc = "legacyw" /\ proc'[p].pc = "legacyw" /\ proc'[p].build = proc[p].build
        BY <1>0, <2>1
    <2> QED BY <1>1, <2>2
<1>2. CASE ReadRoles(p)
    BY <1>0, <1>2 DEF ReadRoles
<1>3. CASE WriteRoles(p)
    <2>1. At(p, "rolesw") /\ \E app : Did(p, "rolesw", app)
        BY <1>3 DEF WriteRoles, RewriteEach
    <2>2. proc[p].pc = "rolesw" /\ proc'[p].pc = "rolesw" /\ proc'[p].build = proc[p].build
        BY <1>0, <2>1
    <2> QED BY <1>3, <2>2
<1>4. CASE ReadSystem(p)
    BY <1>0, <1>4 DEF ReadSystem
<1>5. CASE CreateSystemTables(p)
    BY <1>0, <1>5 DEF CreateSystemTables
<1>6. CASE WriteSystem(p)
    BY <1>0, <1>6 DEF WriteSystem, SyncApp
<1>7. CASE SystemLanding(p)
    BY <1>0, <1>7 DEF SystemLanding, ShowLanding
<1>8. CASE ReadTask(p)
    BY <1>0, <1>8 DEF ReadTask, ReadBase
<1>9. CASE WriteTask(p)
    BY <1>0, <1>9 DEF WriteTask, WriteBase, SyncApp
<1>10. CASE ReadObservability(p)
    BY <1>0, <1>10 DEF ReadObservability, ReadBase
<1>11. CASE WriteObservability(p)
    BY <1>0, <1>11 DEF WriteObservability, WriteBase, SyncApp
<1>12. CASE ReadOOTB(p)
    BY <1>0, <1>12 DEF ReadOOTB, ReadBase
<1>13. CASE WriteOOTB(p)
    BY <1>0, <1>13 DEF WriteOOTB
<1>14. CASE OOTBLanding(p)
    BY <1>0, <1>14 DEF OOTBLanding, ShowLanding
<1>15. CASE ReadBundled(p)
    BY <1>0, <1>15 DEF ReadBundled
<1>16. CASE UpsertBundled(p)
    BY <1>0, <1>16 DEF UpsertBundled
<1>17. CASE SeedBundled(p)
    BY <1>0, <1>17 DEF SeedBundled
<1>18. CASE UpsertedAll(p)
    BY <1>0, <1>18 DEF UpsertedAll
<1>19. CASE PruneBundled(p)
    <2>1. At(p, "prunew") /\ \E c, t : Turn(p, "prune", c, t)
        BY <1>19 DEF PruneBundled
    <2>2. proc[p].pc = "prunew" /\ proc'[p].pc = "prune" /\ proc'[p].build = proc[p].build
        BY <1>0, <2>1
    <2> QED BY <1>19, <2>2
<1>26. CASE ReadPruned(p)
    <2>1. At(p, "prune") /\ (Go(p, "refused") \/ \E c, t : Turn(p, "prunew", c, t) \/ Turn(p, "prune", c, t))
        BY <1>26 DEF ReadPruned
    <2>2. proc[p].pc = "prune" /\ proc'[p].pc \in {"prune", "prunew", "refused"} /\ proc'[p].build = proc[p].build
        BY <1>0, <2>1
    <2> QED BY <1>26, <2>2
<1>20. CASE SaveRegistry(p)
    BY <1>0, <1>20 DEF SaveRegistry
<1>21. CASE ReadPages(p)
    BY <1>0, <1>21 DEF ReadPages
<1>22. CASE WritePages(p)
    BY <1>0, <1>22 DEF WritePages
<1>23. CASE LookForUsers(p)
    BY <1>0, <1>23 DEF LookForUsers
<1>24. CASE CreateFirstUser(p)
    BY <1>0, <1>24 DEF CreateFirstUser
<1>25. CASE HelperUser(p)
    BY <1>0, <1>25 DEF HelperUser
<1> QED BY <1>1, <1>2, <1>3, <1>4, <1>5, <1>6, <1>7, <1>8, <1>9, <1>10, <1>11, <1>12, <1>13, <1>14, <1>15, <1>16, <1>17, <1>18, <1>19, <1>20, <1>21, <1>22, <1>23, <1>24, <1>25, <1>26 DEF Works

\* The smallest version of a set.
LEMMA Smallest ==
    ASSUME NEW S, S \subseteq Nat, S # {}
    PROVE  Min(S) \in S /\ \A v \in S : Min(S) <= v
<1> DEFINE R == {ss \in Nat \X Nat : ss[1] < ss[2]}
<1>1. IsWellFoundedOn(R, Nat)
    BY NatLessThanWellFounded DEF OpToRel
<1>2. \A i, j \in Nat : <<i, j>> \in R <=> i < j
    OBVIOUS
<1> HIDE DEF R
<1>3. PICK m \in S : \A k \in S : ~(<<k, m>> \in R)
    BY <1>1, WFMin, Zenon
<1>4. ASSUME NEW k \in S PROVE m <= k
    <2>1. k \in Nat /\ m \in Nat
        OBVIOUS
    <2>2. ~(k < m)
        BY <1>2, <1>3, <2>1
    <2> QED BY <2>1, <2>2
<1> QED BY <1>3, <1>4, Zenon DEF Min

FilesInv ==
    /\ ran \in Seq(Nat) /\ MigrationsOnce
    /\ \A b \in DOMAIN Builds : \A v \in FilesOf(b), w \in DOMAIN recorded : v < w => v \in DOMAIN recorded
    /\ \A p \in Procs :
         /\ At(p, "verify") => DOMAIN proc[p].copy \subseteq DOMAIN recorded
         /\ proc[p].pc \in Migrating => proc[p].todo \subseteq Files(p) /\ Files(p) \ proc[p].todo \subseteq DOMAIN recorded
         /\ proc[p].pc \in Migrated => Files(p) \subseteq DOMAIN recorded

\* What the invariant says of one process.
FilesOK(s, done) ==
    /\ s.pc = "verify" => DOMAIN s.copy \subseteq done
    /\ s.pc \in Migrating => s.todo \subseteq FilesOf(s.build) /\ FilesOf(s.build) \ s.todo \subseteq done
    /\ s.pc \in Migrated => FilesOf(s.build) \subseteq done
\* FilesInv, process by process.
LEMMA FilesInvSays ==
    FilesInv <=> /\ ran \in Seq(Nat) /\ MigrationsOnce
                 /\ \A b \in DOMAIN Builds : \A v \in FilesOf(b), w \in DOMAIN recorded : v < w => v \in DOMAIN recorded
                 /\ \A p \in Procs : FilesOK(proc[p], DOMAIN recorded)
BY DEF FilesInv, FilesOK, At, Files, Build, FilesOf

\* More recorded files do no harm.
LEMMA MoreDone ==
    ASSUME NEW s, NEW done, NEW more, done \subseteq more, FilesOK(s, done)
    PROVE  FilesOK(s, more)
BY DEF FilesOK

\* The first databases have their files recorded in order.
LEMMA FilesStart == Init => FilesInv
<1> SUFFICES ASSUME Init PROVE FilesInv
    OBVIOUS
<1>1. PICK s \in InitialStates : recorded = s.recorded /\ ran = s.ran
    BY DEF Init
<1>2. \A p \in Procs : proc[p] = Idle
    BY DEF Init
<1>3. \A p \in Procs : FilesOK(proc[p], DOMAIN recorded)
    BY <1>2 DEF FilesOK, Idle, Migrating, Migrated, Stages
<1>4. /\ s.ran \in Seq(Nat) /\ ToSet(s.ran) = DOMAIN s.recorded
      /\ \A i, j \in DOMAIN s.ran : i < j => s.ran[i] < s.ran[j]
      /\ \A b \in DOMAIN Builds : \A v \in FilesOf(b), w \in DOMAIN s.recorded : v < w => v \in DOMAIN s.recorded
    BY DatabaseAssumption
<1> QED BY <1>1, <1>3, <1>4, FilesInvSays DEF MigrationsOnce

\* A file that runs is above all that ran before it.
LEMMA RunsInOrder ==
    ASSUME ShapeInv, FilesInv, NEW p \in Procs, ApplyMigration(p), DOMAIN recorded' # DOMAIN recorded
    PROVE  FilesInv'
<1> DEFINE v == Min(proc[p].todo)
           F == FilesOf(proc[p].build)
<1>1. /\ At(p, "migrate") /\ proc[p].todo # {} /\ v \notin DOMAIN recorded
      /\ recorded' = Put(recorded, v, Build(p).files[v]) /\ ran' = Append(ran, v)
      /\ Did(p, IF v = M042 THEN "after042" ELSE "migrate", v)
    BY DEF ApplyMigration, FirstRun
<1>2. proc[p].build \in DOMAIN Builds
    BY <1>1 DEF ShapeInv, ProcShape, At
<1>3. F \subseteq Nat
    BY <1>2, ReleaseAssumption
<1>4. proc[p].todo \subseteq F /\ F \ proc[p].todo \subseteq DOMAIN recorded
    BY <1>1 DEF FilesInv, Migrating, At, Files, Build, FilesOf
<1>5. v \in proc[p].todo /\ v \in F /\ v \in Nat /\ \A w \in proc[p].todo : v <= w
    <2>1. proc[p].todo \subseteq Nat /\ proc[p].todo # {}
        BY <1>1, <1>3, <1>4
    <2> QED BY <1>3, <1>4, <2>1, Smallest
<1>6. DOMAIN recorded' = DOMAIN recorded \cup {v}
    BY <1>1 DEF Put
<1>7. PICK n \in Nat : n = Len(ran) /\ DOMAIN ran = 1 .. n
    BY DEF FilesInv
<1>8. /\ ran' \in Seq(Nat) /\ DOMAIN ran' = 1 .. (n + 1)
      /\ ran'[n + 1] = v /\ \A i \in 1 .. n : ran'[i] = ran[i]
    BY <1>1, <1>5, <1>7 DEF FilesInv
<1>9. ToSet(ran) = DOMAIN recorded /\ \A i, j \in DOMAIN ran : i < j => ran[i] < ran[j]
    BY DEF FilesInv, MigrationsOnce
<1>10. \A i \in 1 .. n : ran[i] \in DOMAIN recorded /\ ran[i] \in Nat
    BY <1>7, <1>9 DEF ToSet, FilesInv
<1> HIDE DEF v, F
<1>11. \A w \in DOMAIN recorded : w \in Nat => w < v
    <2> SUFFICES ASSUME NEW w \in DOMAIN recorded, w \in Nat, ~(w < v) PROVE FALSE
        OBVIOUS
    <2>1. v < w
        BY <1>1, <1>5
    <2>2. v \in DOMAIN recorded
        BY <1>2, <1>5, <2>1 DEF FilesInv, F
    <2> QED BY <1>1, <2>2
<1>12. ToSet(ran') = DOMAIN recorded'
    <2>1. ToSet(ran') = {ran'[i] : i \in 1 .. (n + 1)}
        BY <1>8 DEF ToSet
    <2>2. ToSet(ran) = {ran[i] : i \in 1 .. n}
        BY <1>7 DEF ToSet
    <2>3. 1 .. (n + 1) = (1 .. n) \cup {n + 1}
        BY <1>7
    <2> QED BY <1>6, <1>8, <1>9, <2>1, <2>2, <2>3
<1>13. \A i, j \in DOMAIN ran' : i < j => ran'[i] < ran'[j]
    <2> SUFFICES ASSUME NEW i \in 1 .. (n + 1), NEW j \in 1 .. (n + 1), i < j PROVE ran'[i] < ran'[j]
        BY <1>8
    <2>1. i \in 1 .. n
        BY <1>7
    <2>2. CASE j = n + 1
        BY <1>8, <1>10, <1>11, <2>1, <2>2
    <2>3. CASE j # n + 1
        <3>1. j \in 1 .. n
            BY <1>7, <2>3
        <3> QED BY <1>7, <1>8, <1>9, <2>1, <3>1
    <2> QED BY <2>2, <2>3
<1>14. \A b \in DOMAIN Builds : \A x \in FilesOf(b), w \in DOMAIN recorded' : x < w => x \in DOMAIN recorded'
    <2> SUFFICES ASSUME NEW b \in DOMAIN Builds, NEW x \in FilesOf(b), NEW w \in DOMAIN recorded', x < w
                 PROVE  x \in DOMAIN recorded'
        OBVIOUS
    <2>1. CASE w \in DOMAIN recorded
        BY <1>6, <2>1 DEF FilesInv
    <2>2. CASE w = v
        <3>1. x \in F
            BY <1>2, <1>5, <2>2, ReleaseAssumption DEF F
        <3>2. x \notin proc[p].todo
            BY <1>3, <1>5, <2>2, <3>1
        <3> QED BY <1>4, <1>6, <3>1, <3>2
    <2> QED BY <1>6, <2>1, <2>2
<1>15. /\ proc'[p] = [pc |-> IF v = M042 THEN "after042" ELSE "migrate", build |-> proc[p].build,
                      copy |-> proc[p].copy, todo |-> proc[p].todo \ {v}]
       /\ \A q \in Procs \ {p} : proc'[q] = proc[q]
    <2>1. DOMAIN proc = Procs
        BY DEF ShapeInv, ProcShape
    <2> QED BY <1>1, <2>1 DEF Did, Turn
<1>16. FilesOK(proc'[p], DOMAIN recorded')
    BY <1>4, <1>6, <1>15 DEF FilesOK, Migrating, Migrated, Stages, F
<1>17. \A q \in Procs : FilesOK(proc'[q], DOMAIN recorded')
    BY <1>6, <1>15, <1>16, FilesInvSays, MoreDone
<1> QED BY <1>8, <1>12, <1>13, <1>14, <1>17 DEF FilesInv, FilesOK, MigrationsOnce, At, Files, Build, FilesOf

\* No step records a file twice or out of order.
LEMMA FilesKept == ASSUME ShapeInv, FilesInv, [Next]_vars PROVE FilesInv'
<1>0. ProcShape /\ DOMAIN proc = Procs
    BY DEF ShapeInv, ProcShape
<1>a. ASSUME recorded' = recorded \/ DOMAIN recorded' = DOMAIN recorded, ran' = ran,
             \A p \in Procs : FilesOK(proc'[p], DOMAIN recorded)
      PROVE  FilesInv'
    <2>1. DOMAIN recorded' = DOMAIN recorded
        BY <1>a
    <2> QED BY <1>a, <2>1 DEF FilesInv, FilesOK, MigrationsOnce, At, Files, Build, FilesOf
<1>b. \A q \in Procs : FilesOK(proc[q], DOMAIN recorded)
    BY FilesInvSays
<1>1. CASE UNCHANGED vars
    BY <1>1, <1>a, <1>b DEF vars, db
<1>2. ASSUME NEW p \in Procs, Boot(p) PROVE FilesInv'
    <2>1. \A q \in Procs \ {p} : FilesOK(proc'[q], DOMAIN recorded)
        BY <1>0, <1>2, <1>b, BootShape
    <2>2. CASE Start(p)
        <3>1. UNCHANGED <<recorded, ran>> /\ \E b : proc'[p] = [pc |-> "verify", build |-> b, copy |-> recorded, todo |-> {}]
            BY <1>0, <2>2 DEF Start, db
        <3>2. FilesOK(proc'[p], DOMAIN recorded)
            BY <3>1 DEF FilesOK, Migrating, Migrated, Stages
        <3> QED BY <1>a, <2>1, <3>1, <3>2
    <2>3. CASE Exit(p) \/ Stop(p)
        <3>1. UNCHANGED <<recorded, ran>> /\ proc'[p] = Idle
            BY <1>0, <2>3 DEF Exit, Stop, db
        <3>2. FilesOK(proc'[p], DOMAIN recorded)
            BY <3>1 DEF FilesOK, Migrating, Migrated, Stages, Idle
        <3> QED BY <1>a, <2>1, <3>1, <3>2
    <2>4. CASE Verify(p)
        <3>1. DOMAIN recorded' = DOMAIN recorded /\ ran' = ran
            BY <2>4 DEF Verify
        <3>2. \/ proc'[p].pc = "failed"
              \/ proc'[p] = [pc |-> "migrate", build |-> proc[p].build, copy |-> proc[p].copy,
                             todo |-> Files(p) \ DOMAIN proc[p].copy]
            <4>1. \/ Go(p, "failed")
                  \/ Turn(p, "migrate", proc[p].copy, Files(p) \ DOMAIN proc[p].copy)
                BY <2>4 DEF Verify
            <4> QED BY <1>0, <4>1 DEF Go, Turn
        <3>3. DOMAIN proc[p].copy \subseteq DOMAIN recorded
            BY <2>4 DEF Verify, FilesInv
        <3>4. FilesOK(proc'[p], DOMAIN recorded)
            BY <3>2, <3>3 DEF FilesOK, Migrating, Migrated, Stages, Files, Build, FilesOf
        <3> QED BY <1>a, <2>1, <3>1, <3>4
    <2>5. CASE ApplyMigration(p)
        <3>1. CASE DOMAIN recorded' = DOMAIN recorded
            <4>1. CASE FirstRun(Min(proc[p].todo)) /\ RunsOver(Min(proc[p].todo))
                BY <2>5, <3>1, <4>1 DEF ApplyMigration, FirstRun, Put
            <4>2. CASE ~(FirstRun(Min(proc[p].todo)) /\ RunsOver(Min(proc[p].todo)))
                <5>1. Go(p, "failed") /\ UNCHANGED <<recorded, ran>>
                    BY <2>5, <4>2 DEF ApplyMigration
                <5>2. FilesOK(proc'[p], DOMAIN recorded)
                    BY <1>0, <5>1 DEF Go, Turn, FilesOK, Migrating, Migrated, Stages
                <5> QED BY <1>a, <2>1, <5>1, <5>2
            <4> QED BY <4>1, <4>2
        <3>2. CASE DOMAIN recorded' # DOMAIN recorded
            BY <2>5, <3>2, RunsInOrder
        <3> QED BY <3>1, <3>2
    <2>6. CASE After042(p)
        <3>1. UNCHANGED <<recorded, ran>>
            BY <2>6 DEF After042
        <3>2. \/ proc'[p].pc = "failed"
              \/ proc'[p] = [pc |-> "migrate", build |-> proc[p].build, copy |-> proc[p].copy, todo |-> proc[p].todo]
            BY <1>0, <2>6 DEF After042, Go, Turn
        <3>3. proc[p].todo \subseteq Files(p) /\ Files(p) \ proc[p].todo \subseteq DOMAIN recorded
            BY <2>6 DEF After042, FilesInv, Migrating, At
        <3>4. FilesOK(proc'[p], DOMAIN recorded)
            BY <3>2, <3>3 DEF FilesOK, Migrating, Migrated, Stages, Files, Build, FilesOf
        <3> QED BY <1>a, <2>1, <3>1, <3>4
    <2>7. CASE ReadLegacy(p)
        <3>1. UNCHANGED <<recorded, ran>>
            BY <2>7 DEF ReadLegacy, db
        <3>2. proc'[p].pc = "legacyw" /\ proc'[p].build = proc[p].build
            BY <1>0, <2>7 DEF ReadLegacy, Turn
        <3>3. Files(p) \subseteq DOMAIN recorded
            BY <2>7 DEF ReadLegacy, Done, FilesInv, Migrating, At
        <3>4. FilesOK(proc'[p], DOMAIN recorded)
            BY <3>2, <3>3 DEF FilesOK, Migrating, Files, Build, FilesOf
        <3> QED BY <1>a, <2>1, <3>1, <3>4
    <2>8. CASE Works(p) /\ ~Verify(p) /\ ~ApplyMigration(p) /\ ~After042(p) /\ ~ReadLegacy(p)
        <3>1. UNCHANGED <<recorded, ran>>
            BY <2>8, Writers
        <3>2. /\ proc[p].pc \in Migrated /\ proc'[p].pc \in Migrated \cup {"failed", "refused"}
              /\ proc'[p].build = proc[p].build
            BY <1>0, <2>8, LaterPlaces
        <3>3. FilesOK(proc[p], DOMAIN recorded)
            BY <1>b
        <3>4. FilesOK(proc'[p], DOMAIN recorded)
            BY <3>2, <3>3 DEF FilesOK, Migrating, Migrated, Stages
        <3> QED BY <1>a, <2>1, <3>1, <3>4
    <2> QED BY <1>2, <2>2, <2>3, <2>4, <2>5, <2>6, <2>7, <2>8, BootCases
<1>3. CASE SaveDraft \/ PublishDraft \/ TouchRecord
    <2>1. UNCHANGED <<recorded, ran, proc>>
        BY <1>3 DEF SaveDraft, PublishDraft, TouchRecord, Edited, Apps
    <2> QED BY <1>a, <1>b, <2>1
<1> QED BY <1>1, <1>2, <1>3 DEF Next

\* MigrationsOnce: whatever starts side by side or dies, every file runs at most
\* once, in order, and is recorded exactly if it ran (applyMigration).
THEOREM FilesRunOnce == Spec => []MigrationsOnce
<1>1. FilesInv => MigrationsOnce
    BY DEF FilesInv
<1> QED BY <1>1, ShapeStarts, ShapeKept, FilesStart, FilesKept, PTL DEF Spec

LockInv ==
    /\ \A p \in Procs : At(p, "firstw") => lock = p /\ \A u \in users : u[1] # "first"
    /\ \A u, v \in users : u[1] = "first" /\ v[1] = "first" => u = v

\* Every step keeps the lock with the process that saw no user.
LEMMA LockKept == ASSUME ShapeInv, LockInv, [Next]_vars PROVE LockInv'
<1>0. ProcShape /\ DOMAIN proc = Procs
    BY DEF ShapeInv, ProcShape
<1>1. CASE UNCHANGED vars
    BY <1>1 DEF vars, db, LockInv, At
<1>2. ASSUME NEW p \in Procs, Boot(p) PROVE LockInv'
    <2>1. \A q \in Procs \ {p} : proc'[q] = proc[q]
        BY <1>0, <1>2, BootShape
    <2>2. CASE Start(p)
        <3>1. UNCHANGED <<lock, users>> /\ proc'[p].pc = "verify"
            BY <1>0, <2>2 DEF Start, db
        <3> QED BY <2>1, <3>1 DEF LockInv, At
    <2>3. CASE Exit(p)
        <3>1. UNCHANGED <<lock, users>> /\ proc'[p].pc = "down"
            BY <1>0, <2>3 DEF Exit, db, Idle
        <3> QED BY <2>1, <3>1 DEF LockInv, At
    <2>4. CASE Stop(p)
        <3>1. users' = users /\ proc'[p].pc = "down" /\ (lock # p => lock' = lock)
            BY <1>0, <2>4 DEF Stop, db, Idle
        <3> QED BY <2>1, <3>1 DEF LockInv, At
    <2>5. CASE LookForUsers(p)
        <3>1. users' = users
            BY <2>5 DEF LookForUsers, db
        <3>2. CASE users = {}
            <4>1. lock = Null /\ lock' = p
                BY <2>5, <3>2 DEF LookForUsers, MayLock
            <4> QED BY <2>1, <3>1, <3>2, <4>1, NullAssumption DEF LockInv, At
        <3>3. CASE users # {}
            <4>1. lock' = lock /\ proc'[p].pc = "up"
                BY <1>0, <2>5, <3>3 DEF LookForUsers, Go, Turn
            <4> QED BY <2>1, <3>1, <4>1 DEF LockInv, At
        <3> QED BY <3>2, <3>3
    <2>6. CASE CreateFirstUser(p)
        <3>1. users' = users \cup {<<"first", p>>} /\ proc'[p].pc = "up" /\ At(p, "firstw")
            BY <1>0, <2>6 DEF CreateFirstUser, Go, Turn
        <3>2. \A u \in users : u[1] # "first"
            BY <3>1 DEF LockInv
        <3>3. \A q \in Procs \ {p} : proc[q].pc # "firstw"
            BY <3>1 DEF LockInv, At
        <3> QED BY <2>1, <3>1, <3>2, <3>3 DEF LockInv, At
    <2>7. CASE HelperUser(p)
        <3>1. users' = users \cup {<<"helper", p>>} /\ proc'[p].pc = "up" /\ lock' = lock
            BY <1>0, <2>7 DEF HelperUser, Go, Turn, Own
        <3>2. <<"helper", p>>[1] # "first"
            OBVIOUS
        <3> QED BY <2>1, <3>1, <3>2 DEF LockInv, At
    <2>8. CASE Works(p) /\ ~LookForUsers(p) /\ ~CreateFirstUser(p) /\ ~HelperUser(p)
        <3>1. UNCHANGED <<lock, users>>
            BY <2>8, Writers
        <3>2. proc'[p].pc # "firstw"
            <4>1. CASE Verify(p) \/ ApplyMigration(p) \/ After042(p) \/ ReadLegacy(p)
                BY <1>0, <4>1 DEF Verify, ApplyMigration, After042, ReadLegacy, Go, Did, Turn
            <4> QED BY <1>0, <2>8, <4>1, LaterPlaces
        <3> QED BY <2>1, <3>1, <3>2 DEF LockInv, At
    <2> QED BY <1>2, <2>2, <2>3, <2>4, <2>5, <2>6, <2>7, <2>8, BootCases
<1>3. CASE SaveDraft \/ PublishDraft \/ TouchRecord
    <2>1. UNCHANGED <<users, lock, proc>>
        BY <1>3 DEF SaveDraft, PublishDraft, TouchRecord, Edited, Apps
    <2> QED BY <2>1 DEF LockInv, At
<1> QED BY <1>1, <1>2, <1>3 DEF Next

\* At first there is no user and no process.
LEMMA LockStart == Init => LockInv
BY DEF Init, LockInv, At, Idle

\* OneFirstUser: however many servers find no users, the advisory lock lets one of
\* them create the first (BootstrapFirstUser).
THEOREM FirstUserOnce == Spec => []OneFirstUser
<1>1. LockInv => OneFirstUser
    <2> SUFFICES ASSUME LockInv PROVE OneFirstUser
        OBVIOUS
    <2> DEFINE F == {u \in users : u[1] = "first"}
    <2>1. F = {} \/ \E u : F = {u}
        BY DEF LockInv
    <2> HIDE DEF F
    <2>2. Cardinality(F) \in {0, 1}
        BY <2>1, FS_EmptySet, FS_Singleton
    <2> QED BY <2>2 DEF OneFirstUser, F
<1> QED BY <1>1, ShapeStarts, ShapeKept, LockStart, LockKept, PTL DEF Spec

-----------------------------------------------------------------------------
(* The names of apps.                                                      *)

ShipsOf(b) == DOMAIN Builds[b].ships
NamesOK(s) ==
    /\ s.pc \in {"upsert", "seed"} => s.copy \cap OwnApps = {} /\ s.todo \subseteq ShipsOf(s.build)
    /\ s.pc \in {"prune", "prunew"} => s.todo \cap OwnApps = {} /\ s.todo \cap ShipsOf(s.build) = {}
    /\ s.pc = "prune" => s.copy \cap OwnApps = {}
    /\ s.pc = "prunew" => s.copy[1] \cap OwnApps = {} /\ s.copy[2] \in s.todo
NamesInv ==
    /\ registry = Null \/ registry \cap OwnApps = {}
    /\ \A p \in Procs : NamesOK(proc[p])
    /\ M047 \in DOMAIN recorded <=> "base" \in DOMAIN apps
    /\ "system" \in DOMAIN apps => M042 \in DOMAIN recorded
    /\ physical \subseteq SystemTables

\* At first nothing is registered and 042 and 047 have brought their apps.
LEMMA NamesStart == Init => NamesInv
<1> SUFFICES ASSUME Init PROVE NamesInv
    OBVIOUS
<1>1. PICK s \in InitialStates : recorded = s.recorded /\ physical = s.physical /\ apps = s.apps
    BY DEF Init
<1>2. \A p \in Procs : NamesOK(proc[p])
    BY DEF Init, NamesOK, Idle
<1>3. /\ s.physical \subseteq SystemTables
      /\ M047 \in DOMAIN s.recorded => "base" \in DOMAIN s.apps
      /\ \A app \in DOMAIN s.apps :
              /\ app = "system" => M042 \in DOMAIN s.recorded
              /\ app = "base" => M047 \in DOMAIN s.recorded
    BY DatabaseAssumption
<1> QED BY <1>1, <1>2, <1>3 DEF NamesInv, Init

\* The names a process has still to bundle, seed or prune.
LEMMA NamesOfProcess ==
    ASSUME ShapeInv, NamesInv, NEW p \in Procs, Works(p)
    PROVE  NamesOK(proc'[p])
<1>0. ProcShape /\ DOMAIN proc = Procs
    BY DEF ShapeInv, ProcShape
<1>1. CASE proc'[p].pc \notin {"upsert", "seed", "prune", "prunew"}
    BY <1>1 DEF NamesOK
<1>2. NamesOK(proc[p])
    BY DEF NamesInv
<1>3. CASE ReadBundled(p)
    <2>1. proc'[p] = [pc |-> "upsert", build |-> proc[p].build, copy |-> Managed, todo |-> Shipped(p)]
        BY <1>0, <1>3 DEF ReadBundled, Turn
    <2>2. Managed \cap OwnApps = {}
        BY DEF Managed, DefaultNames, OwnApps, NamesInv
    <2> QED BY <2>1, <2>2 DEF NamesOK, Shipped, Build, ShipsOf
<1>4. CASE UpsertBundled(p)
    BY <1>0, <1>2, <1>4 DEF UpsertBundled, Go, Turn, NamesOK, At
<1>5. CASE SeedBundled(p)
    BY <1>0, <1>2, <1>5 DEF SeedBundled, Go, Did, Turn, NamesOK, At
<1>6. CASE UpsertedAll(p)
    <2>1. proc'[p] = [pc |-> "prune", build |-> proc[p].build,
                      copy |-> IF Unbundled(p) THEN DefaultNames ELSE Shipped(p),
                      todo |-> IF Unbundled(p) THEN {} ELSE proc[p].copy \ Shipped(p)]
        BY <1>0, <1>6 DEF UpsertedAll, Turn
    <2>2. proc[p].copy \cap OwnApps = {} /\ proc[p].build \in DOMAIN Builds
        BY <1>0, <1>2, <1>6 DEF UpsertedAll, Done, At, NamesOK, ProcShape
    <2>3. DefaultNames \cap OwnApps = {} /\ Shipped(p) \cap OwnApps = {}
        BY <2>2, ReleaseAssumption DEF DefaultNames, Shipped, Build, OwnApps
    <2> DEFINE names == IF Unbundled(p) THEN DefaultNames ELSE Shipped(p)
               left == IF Unbundled(p) THEN {} ELSE proc[p].copy \ Shipped(p)
    <2>4. names \cap OwnApps = {} /\ left \cap OwnApps = {} /\ left \cap Shipped(p) = {}
        BY <2>2, <2>3
    <2>5. proc'[p] = [pc |-> "prune", build |-> proc[p].build, copy |-> names, todo |-> left]
        BY <2>1
    <2> HIDE DEF names, left
    <2> QED BY <2>4, <2>5 DEF NamesOK, Shipped, Build, ShipsOf
<1>7. CASE PruneBundled(p)
    <2>1. proc'[p] = [pc |-> "prune", build |-> proc[p].build, copy |-> proc[p].copy[1], todo |-> proc[p].todo \ {proc[p].copy[2]}]
        BY <1>0, <1>7 DEF PruneBundled, Turn
    <2>2. proc[p].pc = "prunew"
        BY <1>7 DEF PruneBundled, At
    <2> QED BY <1>2, <2>1, <2>2 DEF NamesOK
<1>9. CASE ReadPruned(p)
    <2>1. PICK app \in proc[p].todo :
             \/ Go(p, "refused")
             \/ Turn(p, "prunew", <<proc[p].copy, app, apps[app].published>>, proc[p].todo)
             \/ Did(p, "prune", app)
        BY <1>9 DEF ReadPruned
    <2>2. proc[p].pc = "prune"
        BY <1>9 DEF ReadPruned, At
    <2>3. CASE Go(p, "refused")
        BY <1>0, <2>3 DEF Go, Turn, NamesOK
    <2>4. CASE Turn(p, "prunew", <<proc[p].copy, app, apps[app].published>>, proc[p].todo)
        <3> DEFINE c == <<proc[p].copy, app, apps[app].published>>
        <3>1. proc'[p] = [pc |-> "prunew", build |-> proc[p].build, copy |-> c, todo |-> proc[p].todo]
            BY <1>0, <2>4 DEF Turn
        <3>2. c[1] = proc[p].copy /\ c[2] = app
            OBVIOUS
        <3> HIDE DEF c
        <3> QED BY <1>2, <2>1, <2>2, <3>1, <3>2 DEF NamesOK
    <2>5. CASE Did(p, "prune", app)
        <3>1. proc'[p] = [pc |-> "prune", build |-> proc[p].build, copy |-> proc[p].copy, todo |-> proc[p].todo \ {app}]
            BY <1>0, <2>5 DEF Did, Turn
        <3> QED BY <1>2, <2>2, <3>1 DEF NamesOK
    <2> QED BY <2>1, <2>3, <2>4, <2>5
<1>8. CASE Verify(p) \/ ApplyMigration(p) \/ After042(p) \/ ReadLegacy(p)
    <2>1. proc'[p].pc \notin {"upsert", "seed", "prune", "prunew"}
        BY <1>0, <1>8 DEF Verify, ApplyMigration, After042, ReadLegacy, Go, Did, Turn
    <2> QED BY <1>1, <2>1
<1> QED BY <1>0, <1>1, <1>3, <1>4, <1>5, <1>6, <1>7, <1>8, <1>9, LaterPlaces

\* What a process prunes is one app, and not one of the two.
LEMMA PrunedApart ==
    ASSUME NamesInv, NEW p \in Procs, PruneBundled(p)
    PROVE  /\ Pruned(p) \in proc[p].todo /\ Pruned(p) \notin OwnApps
           /\ Pruned(p) \notin ShipsOf(proc[p].build)
           /\ Matching(apps, Pruned(p)) = DOMAIN apps \cap {Pruned(p)}
<1>1. proc[p].pc = "prunew" /\ NamesOK(proc[p])
    BY DEF PruneBundled, At, NamesInv
<1>2. Pruned(p) \in proc[p].todo /\ Pruned(p) \notin OwnApps /\ Pruned(p) \notin ShipsOf(proc[p].build)
    BY <1>1 DEF NamesOK, Pruned
<1>3. Pruned(p) # "base"
    BY <1>2 DEF OwnApps
<1>4. \A a \in DOMAIN apps : Pruned(p) \in {a, NamespaceOf(a)} <=> a = Pruned(p)
    BY <1>3 DEF NamespaceOf
<1> QED BY <1>2, <1>4 DEF Matching

\* Which of the two own apps there are changes only with 042, 047 and the merge.
LEMMA OwnRows ==
    ASSUME ShapeInv, NamesInv, NEW p \in Procs, Works(p)
    PROVE  /\ M047 \in DOMAIN recorded' <=> "base" \in DOMAIN apps'
           /\ "system" \in DOMAIN apps' => M042 \in DOMAIN recorded'
           /\ "system" \in DOMAIN apps' => "system" \in DOMAIN apps \/ M042 \notin DOMAIN recorded
<1>0. ~At(p, "down") => proc[p].build \in DOMAIN Builds
    BY DEF ShapeInv, ProcShape
<1>a. TableShape(apps)
    BY DEF ShapeInv
<1>b. /\ M047 \in DOMAIN recorded <=> "base" \in DOMAIN apps
      /\ "system" \in DOMAIN apps => M042 \in DOMAIN recorded
    BY DEF NamesInv
<1>1. CASE ApplyMigration(p)
    <2> DEFINE v == Min(proc[p].todo)
    <2>1. CASE FirstRun(v) /\ RunsOver(v)
        <3>1. apps' = AppsAfter(v) /\ recorded' = Put(recorded, v, Build(p).files[v])
            BY <1>1, <2>1 DEF ApplyMigration
        <3>2. DOMAIN recorded' = DOMAIN recorded \cup {v} /\ v \notin DOMAIN recorded
            BY <2>1, <3>1 DEF Put, FirstRun
        <3> HIDE DEF v
        <3>3. /\ v = M042 => DOMAIN apps' = DOMAIN apps \cup {"system"}
              /\ v = M047 => DOMAIN apps' = DOMAIN apps \cup {"base"}
              /\ v = M076 => DOMAIN apps' = DOMAIN apps \cup {TaskDefinition}
              /\ v # M042 /\ v # M047 /\ v # M076 => apps' = apps
            BY <1>a, <3>1, FileWrites
        <3> QED BY <1>b, <3>2, <3>3 DEF M042, M047, M076, TaskDefinition
    <2>2. CASE ~(FirstRun(v) /\ RunsOver(v))
        BY <1>1, <1>b, <2>2 DEF ApplyMigration
    <2> QED BY <2>1, <2>2
<1>2. CASE ~ApplyMigration(p)
    <2>1. DOMAIN recorded' = DOMAIN recorded
        BY <1>2, Writers DEF Verify
    <2>2. ("base" \in DOMAIN apps' <=> "base" \in DOMAIN apps) /\ ("system" \in DOMAIN apps' => "system" \in DOMAIN apps)
        <3>1. CASE WriteLegacy(p)
            BY <1>a, <3>1, LegacyRewrites DEF Rewrites
        <3>2. CASE WriteRoles(p)
            BY <1>a, <3>2, RolesRewrites DEF Rewrites
        <3>3. CASE WriteSystem(p) \/ WriteTask(p) \/ WriteObservability(p)
            <4>1. \E app, x, y, next : SyncApp(p, app, x, y, next)
                BY <3>3 DEF WriteSystem, WriteTask, WriteObservability, WriteBase
            <4>2. apps' = apps \/ \E app, x, y : apps' = Update(apps, app, x, y)
                BY <4>1, SyncWrites
            <4> QED BY <1>a, <4>2, UpdateShape
        <3>4. CASE WriteOOTB(p)
            BY <1>a, <3>4, OOTBWrites
        <3>5. CASE UpsertBundled(p)
            <4>1. Chosen(p) \in proc[p].todo
                BY <3>5 DEF UpsertBundled, Chosen
            <4>2. proc[p].todo \subseteq ShipsOf(proc[p].build) /\ proc[p].build \in DOMAIN Builds
                BY <1>0, <3>5 DEF UpsertBundled, NamesInv, NamesOK, At
            <4>3. Chosen(p) \notin OwnApps
                BY <4>1, <4>2, ReleaseAssumption DEF ShipsOf
            <4> QED BY <1>a, <3>5, <4>3, UpsertWrites DEF OwnApps
        <3>6. CASE PruneBundled(p)
            <4>1. DOMAIN apps' = DOMAIN apps \ (DOMAIN apps \cap {Pruned(p)}) /\ Pruned(p) \notin OwnApps
                BY <1>a, <3>6, PruneWrites, PrunedApart
            <4> QED BY <4>1 DEF OwnApps
        <3> QED BY <1>2, <3>1, <3>2, <3>3, <3>4, <3>5, <3>6, Writers
    <2> QED BY <1>b, <2>1, <2>2
<1> QED BY <1>1, <1>2

\* No step bundles or prunes the system's own apps.
LEMMA NamesKept == ASSUME ShapeInv, NamesInv, [Next]_vars PROVE NamesInv'
<1>0. ProcShape /\ DOMAIN proc = Procs
    BY DEF ShapeInv, ProcShape
<1>1. CASE UNCHANGED vars
    BY <1>1 DEF vars, db, NamesInv
<1>2. ASSUME NEW p \in Procs, Boot(p) PROVE NamesInv'
    <2>1. \A q \in Procs \ {p} : proc'[q] = proc[q]
        BY <1>0, <1>2, BootShape
    <2>2. CASE Start(p) \/ Exit(p) \/ Stop(p)
        <3>1. UNCHANGED <<registry, recorded, apps, physical>>
            BY <2>2 DEF Start, Exit, Stop, db
        <3>2. proc'[p].pc \in {"verify", "down"}
            BY <1>0, <2>2 DEF Start, Exit, Stop, Idle
        <3>3. NamesOK(proc'[p])
            BY <3>2 DEF NamesOK
        <3> QED BY <2>1, <3>1, <3>3 DEF NamesInv
    <2>3. CASE Works(p)
        <3>1. NamesOK(proc'[p])
            BY <2>3, NamesOfProcess
        <3>2. registry' = Null \/ registry' \cap OwnApps = {}
            <4>1. CASE SaveRegistry(p)
                <5>1. registry' = proc[p].copy /\ proc[p].pc = "prune"
                    BY <4>1 DEF SaveRegistry, Done, At
                <5> QED BY <5>1 DEF NamesInv, NamesOK
            <4> QED BY <2>3, <4>1, Writers DEF NamesInv
        <3>3. physical' \subseteq SystemTables
            BY <2>3, Writers DEF NamesInv, ApplyMigration, After042, CreateSystemTables, Described, SystemTables
        <3> QED BY <2>1, <2>3, <3>1, <3>2, <3>3, OwnRows DEF NamesInv
    <2> QED BY <1>2, <2>2, <2>3, BootCases
<1>3. CASE SaveDraft \/ PublishDraft \/ TouchRecord
    <2>1. UNCHANGED <<registry, recorded, physical, proc>> /\ DOMAIN apps' = DOMAIN apps
        <3>1. UNCHANGED <<registry, recorded, physical, proc>>
            BY <1>3 DEF SaveDraft, PublishDraft, TouchRecord, Edited, Apps
        <3>2. TableShape(apps)
            BY DEF ShapeInv
        <3>3. CASE SaveDraft
            BY <3>1, <3>2, <3>3, SaveWrites DEF Saves
        <3>4. CASE PublishDraft
            BY <3>1, <3>2, <3>4, PublishWrites DEF Publishes
        <3>5. CASE TouchRecord
            BY <3>1, <3>5 DEF TouchRecord
        <3> QED BY <1>3, <3>3, <3>4, <3>5
    <2> QED BY <2>1 DEF NamesInv
<1> QED BY <1>1, <1>2, <1>3 DEF Next

-----------------------------------------------------------------------------
(* Until system and base are one.                                          *)

\* The things in definitions are different things.
LEMMA Apart ==
    /\ Legacy \notin {Open, Closed, WorkOrders, Tasks, Observability, Landing, OwnLanding}
    /\ Open \notin {Closed, WorkOrders, Tasks, Observability, Landing, OwnLanding}
    /\ WorkOrders \notin {Closed, Tasks, Observability, Landing, OwnLanding}
    /\ Tasks \notin {Closed, Observability, Landing, OwnLanding}
    /\ Observability \notin {Closed, Landing, OwnLanding}
    /\ OwnLanding \notin {Closed, Landing}
BY DEF Legacy, Open, Closed, WorkOrders, Tasks, Observability, Landing, OwnLanding

\* So are the descriptions of tables.
LEMMA TablesApart ==
    /\ \A t \in SystemTables :
          {Table(t), Old(t)} \cap {Legacy, Open, Closed, WorkOrders, Tasks, Observability, Landing, OwnLanding} = {}
    /\ \A t, u \in SystemTables : Table(t) # Old(u) /\ (Table(t) = Table(u) => t = u) /\ (Old(t) = Old(u) => t = u)
BY DEF Legacy, Open, Closed, WorkOrders, Tasks, Observability, Landing, OwnLanding, Table, Old

\* What the passes do to the tables a definition describes and to work orders.
LEMMA PassesDescribe ==
    ASSUME NEW d
    PROVE  /\ Described(Unscripted(d)) = Described(d) /\ Described(Backfilled(d)) = Described(d)
           /\ Described(Simplified(d)) = Described(d) /\ Described(Observed(d)) = Described(d)
<1>1. ASSUME NEW d2, \A t \in SystemTables : (Table(t) \in d2 <=> Table(t) \in d) /\ (Old(t) \in d2 <=> Old(t) \in d)
      PROVE  Described(d2) = Described(d)
    BY <1>1 DEF Described
<1>2. Described(Unscripted(d)) = Described(d)
    BY <1>1, TablesApart DEF Unscripted
<1>3. Described(Backfilled(d)) = Described(d)
    BY <1>1, TablesApart DEF Backfilled
<1>4. Described(Simplified(d)) = Described(d)
    BY <1>1, TablesApart DEF Simplified
<1>5. Described(Observed(d)) = Described(d)
    BY <1>1, TablesApart DEF Observed
<1> QED BY <1>2, <1>3, <1>4, <1>5

\* The names of the things in definitions.
LEMMA Keys ==
    /\ KeyOf(Legacy) = <<"script", "report">> /\ KeyOf(Open) = <<"endpoint", "report">> /\ KeyOf(Closed) = <<"endpoint", "report">>
    /\ KeyOf(WorkOrders) = <<"table", "base_task">> /\ KeyOf(Tasks) = <<"table", "base_task">>
    /\ KeyOf(Observability) = <<"table", "base_observable">>
    /\ KeyOf(Landing) = <<"page", "landing">> /\ KeyOf(OwnLanding) = <<"page", "landing">>
    /\ \A t \in SystemTables : KeyOf(Table(t)) = <<"table", t>> /\ KeyOf(Old(t)) = <<"table", t>>
BY DEF KeyOf, Legacy, Open, Closed, WorkOrders, Tasks, Observability, Landing, OwnLanding, Table, Old

\* What has no item named like base's own tables.
Separate(d) == \A i \in d : KeyOf(i) # KeyOf(Tasks) /\ KeyOf(i) # KeyOf(Observability)

\* The passes over the system app bring none.
LEMMA PassesApart ==
    ASSUME NEW d, Separate(d), NEW ph \in SUBSET SystemTables
    PROVE  Separate(Unscripted(d)) /\ Separate(Backfilled(d)) /\ Separate(WithLanding(WithPhysical(d, ph)))
<1>1. /\ KeyOf(Closed) # KeyOf(Tasks) /\ KeyOf(Closed) # KeyOf(Observability)
      /\ KeyOf(Landing) # KeyOf(Tasks) /\ KeyOf(Landing) # KeyOf(Observability)
    BY Keys
<1>2. \A t \in SystemTables : KeyOf(Table(t)) # KeyOf(Tasks) /\ KeyOf(Table(t)) # KeyOf(Observability)
    BY Keys DEF SystemTables, UserTable, TokenTable
<1>3. Separate(WithPhysical(d, ph))
    BY <1>2 DEF Separate, WithPhysical
<1> QED BY <1>1, <1>3 DEF Separate, Unscripted, Backfilled, WithLanding

-----------------------------------------------------------------------------
Copying == {"legacyw", "rolesw", "systemtables", "systemw", "taskw", "obsw", "composew"}
Merging == {"landing2", "bundled", "upsert", "seed", "prune", "prunew", "pages", "pagesw", "first", "firstw", "up"}
Sane(T) == "system" \in DOMAIN T => Separate(T["system"].draft) /\ Separate(T["system"].published)
Covered(T, ph) == "base" \in DOMAIN T => Described(T["base"].published) \subseteq ph
Unmerged == M042 \notin DOMAIN recorded \/ "system" \in DOMAIN apps
CopyOK(s, T, ph) ==
    s.pc \in Copying =>
        /\ Sane(s.copy) /\ "base" \in DOMAIN s.copy
        /\ "system" \in DOMAIN T => "system" \in DOMAIN s.copy
        /\ "system" \in DOMAIN s.copy => Covered(s.copy, ph)
MergedInv ==
    /\ Sane(apps)
    /\ Unmerged => Covered(apps, physical)
    /\ \A p \in Procs : CopyOK(proc[p], apps, physical) /\ (proc[p].pc \in Merging => "system" \notin DOMAIN apps)

\* The first databases: the assumption says so.
LEMMA MergedStart == Init => MergedInv
<1> SUFFICES ASSUME Init PROVE MergedInv
    OBVIOUS
<1>1. PICK s \in InitialStates : recorded = s.recorded /\ physical = s.physical /\ apps = s.apps
    BY DEF Init
<1>2. \A p \in Procs : proc[p].pc = "down"
    BY DEF Init, Idle
<1>3. \A app \in DOMAIN s.apps :
              /\ app = "system" => \A i \in s.apps[app].draft \cup s.apps[app].published, b \in {Tasks, Observability} : KeyOf(i) # KeyOf(b)
              /\ app = "base" => Described(s.apps[app].published) \subseteq s.physical
    BY DatabaseAssumption
<1>4. Sane(s.apps)
    BY <1>3 DEF Sane, Separate
<1> QED BY <1>1, <1>2, <1>3, <1>4 DEF MergedInv, Covered, CopyOK, Copying, Merging

\* A copy stays good while tables are added and no system app appears.
LEMMA CopyStays ==
    ASSUME NEW s, NEW T, NEW T2, NEW ph, NEW ph2, CopyOK(s, T, ph), ph \subseteq ph2,
           "system" \in DOMAIN T2 => "system" \in DOMAIN T
    PROVE  CopyOK(s, T2, ph2)
BY DEF CopyOK, Covered

\* A process past its migrations finds both files recorded and the base app there.
LEMMA BaseThere ==
    ASSUME ShapeInv, FilesInv, NamesInv, NEW p \in Procs, proc[p].pc \in Migrated
    PROVE  M042 \in DOMAIN recorded /\ M047 \in DOMAIN recorded /\ "base" \in DOMAIN apps
<1>1. Files(p) \subseteq DOMAIN recorded
    BY DEF FilesInv
<1>2. proc[p].build \in DOMAIN Builds
    BY DEF ShapeInv, ProcShape, Migrated, At
<1>3. {M042, M047} \subseteq FilesOf(proc[p].build)
    BY <1>2, ReleaseAssumption
<1> QED BY <1>1, <1>3 DEF Files, Build, FilesOf, NamesInv

\* No step drops a table.
LEMMA TablesStay == ASSUME NEW p, Works(p) PROVE physical \subseteq physical'
BY Writers DEF ApplyMigration, After042, CreateSystemTables

\* The rows of the two own apps after a bundled app is written or removed.
LEMMA OthersStay ==
    ASSUME ShapeInv, NamesInv, NEW p \in Procs, UpsertBundled(p) \/ PruneBundled(p)
    PROVE  \A a \in OwnApps : /\ a \in DOMAIN apps' <=> a \in DOMAIN apps
                              /\ a \in DOMAIN apps => apps'[a] = apps[a]
<1>0. TableShape(apps) /\ (~At(p, "down") => proc[p].build \in DOMAIN Builds)
    BY DEF ShapeInv, ProcShape
<1>1. CASE UpsertBundled(p)
    <2>1. Chosen(p) \in proc[p].todo
        BY <1>1 DEF UpsertBundled, Chosen
    <2>2. proc[p].todo \subseteq ShipsOf(proc[p].build) /\ proc[p].build \in DOMAIN Builds
        BY <1>0, <1>1 DEF UpsertBundled, NamesInv, NamesOK, At
    <2>3. Chosen(p) \notin OwnApps
        BY <2>1, <2>2, ReleaseAssumption DEF ShipsOf
    <2>4. \/ apps' = apps
          \/ DOMAIN apps' = DOMAIN apps \cup {Chosen(p)} /\ \A a \in DOMAIN apps \ {Chosen(p)} : apps'[a] = apps[a]
        BY <1>0, <1>1, UpsertWrites
    <2> QED BY <2>3, <2>4
<1>2. CASE PruneBundled(p)
    <2>1. DOMAIN apps' = DOMAIN apps \ (DOMAIN apps \cap {Pruned(p)}) /\ Pruned(p) \notin OwnApps
        BY <1>0, <1>2, PruneWrites, PrunedApart
    <2>2. \A a \in DOMAIN apps' : apps'[a] = apps[a]
        BY <1>0, <1>2, PruneWrites
    <2> QED BY <2>1, <2>2
<1> QED BY <1>1, <1>2

\* One row rewritten from the definitions x and y, and maybe that of TaskDefinition.
Rewrote(T, T2, app, x, y) ==
    T2 = T \/ (/\ DOMAIN T2 = DOMAIN T
               /\ app \in DOMAIN T => T2[app].draft = x /\ T2[app].published = y
               /\ \A b \in DOMAIN T \ {app, TaskDefinition} : T2[b] = T[b])
\* What holds of the two apps after it.
LEMMA RewriteRows ==
    ASSUME NEW T, NEW T2, NEW app, NEW x, NEW y, NEW ph,
           Sane(T), "system" \in DOMAIN T => Covered(T, ph),
           Rewrote(T, T2, app, x, y),
           app = "system" /\ app \in DOMAIN T => Separate(x) /\ Separate(y),
           app = "base" /\ "system" \in DOMAIN T => Described(y) \subseteq ph
    PROVE  Sane(T2) /\ ("system" \in DOMAIN T2 => "system" \in DOMAIN T /\ Covered(T2, ph))
<1>1. CASE T2 = T
    BY <1>1
<1>2. CASE T2 # T
    <2>1. Sane(T2)
        BY <1>2 DEF Rewrote, Sane, TaskDefinition
    <2>2. "system" \in DOMAIN T2 => "system" \in DOMAIN T /\ Covered(T2, ph)
        BY <1>2 DEF Rewrote, Covered, TaskDefinition
    <2> QED BY <2>1, <2>2
<1> QED BY <1>1, <1>2

\* The two own apps after a step.
LEMMA MergedRows ==
    ASSUME ShapeInv, FilesInv, NamesInv, MergedInv, NEW p \in Procs, Works(p)
    PROVE  Sane(apps') /\ (Unmerged' => Covered(apps', physical'))
<1>0. ProcShape /\ DOMAIN proc = Procs /\ TableShape(apps) /\ physical \subseteq physical'
    BY TablesStay DEF ShapeInv, ProcShape
<1>a. /\ Sane(apps) /\ (Unmerged => Covered(apps, physical))
      /\ CopyOK(proc[p], apps, physical)
    BY DEF MergedInv
<1>1. CASE ApplyMigration(p)
    <2> DEFINE v == Min(proc[p].todo)
    <2>1. CASE FirstRun(v) /\ RunsOver(v)
        <3>1. apps' = AppsAfter(v) /\ recorded' = Put(recorded, v, Build(p).files[v])
            BY <1>1, <2>1 DEF ApplyMigration
        <3>2. DOMAIN recorded' = DOMAIN recorded \cup {v} /\ v \notin DOMAIN recorded
            BY <2>1, <3>1 DEF Put, FirstRun
        <3> HIDE DEF v
        <3>3. CASE v = M042
            <4>1. Covered(apps, physical)
                BY <1>a, <3>2, <3>3 DEF Unmerged
            <4>2. /\ DOMAIN apps' = DOMAIN apps \cup {"system"}
                  /\ apps'["system"].draft = {Table(UserTable)} /\ apps'["system"].published = {Table(UserTable)}
                  /\ \A a \in DOMAIN apps \ {"system"} : apps'[a] = apps[a]
                <5>1. /\ DOMAIN apps' = DOMAIN apps \cup {"system"}
                      /\ apps'["system"] = Row({Table(UserTable)}, {Table(UserTable)}, 1, 1)
                      /\ \A a \in DOMAIN apps \ {"system"} : apps'[a] = apps[a]
                    BY <1>0, <3>1, <3>3, FileWrites
                <5> QED BY <5>1 DEF Row
            <4>3. Separate({Table(UserTable)})
                BY Keys DEF SystemTables, UserTable, Separate
            <4> QED BY <1>0, <4>1, <4>2, <4>3 DEF Sane, Covered
        <3>4. CASE v = M047
            <4>1. /\ DOMAIN apps' = DOMAIN apps \cup {"base"}
                  /\ apps'["base"].published = {WorkOrders}
                  /\ \A a \in DOMAIN apps \ {"base"} : apps'[a] = apps[a]
                <5>1. /\ DOMAIN apps' = DOMAIN apps \cup {"base"}
                      /\ apps'["base"] = Row({WorkOrders}, {WorkOrders}, 1, 1)
                      /\ \A a \in DOMAIN apps \ {"base"} : apps'[a] = apps[a]
                    BY <1>0, <3>1, <3>4, FileWrites
                <5> QED BY <5>1 DEF Row
            <4>2. Described({WorkOrders}) = {}
                BY TablesApart DEF Described
            <4> QED BY <1>a, <4>1, <4>2 DEF Sane, Covered
        <3>5. CASE v # M042 /\ v # M047
            <4>1. \A a \in OwnApps : (a \in DOMAIN apps' <=> a \in DOMAIN apps) /\ (a \in DOMAIN apps => apps'[a] = apps[a])
                <5>1. CASE v = M076
                    <6>1. DOMAIN apps' = DOMAIN apps \cup {TaskDefinition} /\ \A a \in DOMAIN apps \ {TaskDefinition} : apps'[a] = apps[a]
                        BY <1>0, <3>1, <5>1, FileWrites
                    <6> QED BY <6>1 DEF OwnApps, TaskDefinition
                <5>2. CASE v # M076
                    <6>1. apps' = apps
                        BY <1>0, <3>1, <3>5, <5>2, FileWrites
                    <6> QED BY <6>1
                <5> QED BY <5>1, <5>2
            <4>2. Unmerged' => Unmerged
                BY <3>2, <3>5, <4>1 DEF Unmerged, OwnApps
            <4> QED BY <1>0, <1>a, <4>1, <4>2 DEF Covered, Sane, OwnApps
        <3> QED BY <3>3, <3>4, <3>5
    <2>2. CASE ~(FirstRun(v) /\ RunsOver(v))
        <3>1. UNCHANGED <<apps, recorded, physical>>
            BY <1>1, <2>2 DEF ApplyMigration
        <3> QED BY <1>a, <3>1 DEF Unmerged
    <2> QED BY <2>1, <2>2
<1>b. ASSUME ~ApplyMigration(p)
      PROVE  DOMAIN recorded' = DOMAIN recorded
    BY <1>b, Writers DEF Verify
<1>2. CASE apps' = apps /\ ~ApplyMigration(p)
    <2>1. Unmerged' <=> Unmerged
        BY <1>2, <1>b DEF Unmerged
    <2> QED BY <1>0, <1>2, <1>a, <2>1 DEF Covered
<1>c. ASSUME ~ApplyMigration(p), proc[p].pc \in Migrated
      PROVE  /\ Unmerged' <=> "system" \in DOMAIN apps'
             /\ "system" \in DOMAIN apps => Covered(apps, physical')
    <2>1. M042 \in DOMAIN recorded
        BY <1>c, BaseThere
    <2>2. "system" \in DOMAIN apps => Covered(apps, physical)
        BY <1>a DEF Unmerged
    <2> QED BY <1>0, <1>b, <1>c, <2>1, <2>2 DEF Unmerged, Covered
<1>3. ASSUME NEW app, NEW x, NEW y, ~ApplyMigration(p), proc[p].pc \in Migrated,
             Rewrote(apps, apps', app, x, y),
             app = "system" /\ app \in DOMAIN apps => Separate(x) /\ Separate(y),
             app = "base" /\ "system" \in DOMAIN apps => Described(y) \subseteq physical
      PROVE  Sane(apps') /\ (Unmerged' => Covered(apps', physical'))
    <2>1. "system" \in DOMAIN apps => Covered(apps, physical')
        BY <1>3, <1>c
    <2>2. app = "base" /\ "system" \in DOMAIN apps => Described(y) \subseteq physical'
        BY <1>0, <1>3
    <2>3. Sane(apps') /\ ("system" \in DOMAIN apps' => Covered(apps', physical'))
        BY <1>3, <1>a, <2>1, <2>2, RewriteRows
    <2> QED BY <1>3, <1>c, <2>3
<1>d. ASSUME proc[p].pc \in Copying
      PROVE  /\ proc[p].pc \in Migrated
             /\ "system" \in DOMAIN apps =>
                  /\ Separate(proc[p].copy["system"].draft) /\ Separate(proc[p].copy["system"].published)
                  /\ Described(proc[p].copy["base"].published) \subseteq physical
                  /\ "system" \in DOMAIN proc[p].copy
    BY <1>a, <1>d DEF CopyOK, Sane, Covered, Copying, Migrated, Migrating, Stages
<1>4. CASE WriteLegacy(p)
    <2>1. PICK app \in proc[p].todo :
              At(p, "legacyw") /\ Rewrote(apps, apps', app, Unscripted(proc[p].copy[app].draft), Unscripted(proc[p].copy[app].published))
        BY <1>0, <1>4, LegacyRewrites DEF Rewrites, Rewrote
    <2>2. proc[p].pc \in Copying /\ ~ApplyMigration(p)
        BY <2>1 DEF At, Copying, ApplyMigration
    <2>3. app = "system" /\ app \in DOMAIN apps =>
              Separate(Unscripted(proc[p].copy[app].draft)) /\ Separate(Unscripted(proc[p].copy[app].published))
        BY <1>d, <2>2, PassesApart
    <2>4. app = "base" /\ "system" \in DOMAIN apps => Described(Unscripted(proc[p].copy[app].published)) \subseteq physical
        BY <1>d, <2>2, PassesDescribe
    <2> QED BY <1>3, <1>d, <2>1, <2>2, <2>3, <2>4
<1>5. CASE WriteRoles(p)
    <2>1. PICK app \in proc[p].todo :
              At(p, "rolesw") /\ Rewrote(apps, apps', app, Backfilled(proc[p].copy[app].draft), Backfilled(proc[p].copy[app].published))
        BY <1>0, <1>5, RolesRewrites DEF Rewrites, Rewrote
    <2>2. proc[p].pc \in Copying /\ ~ApplyMigration(p)
        BY <2>1 DEF At, Copying, ApplyMigration
    <2>3. app = "system" /\ app \in DOMAIN apps =>
              Separate(Backfilled(proc[p].copy[app].draft)) /\ Separate(Backfilled(proc[p].copy[app].published))
        BY <1>d, <2>2, PassesApart
    <2>4. app = "base" /\ "system" \in DOMAIN apps => Described(Backfilled(proc[p].copy[app].published)) \subseteq physical
        BY <1>d, <2>2, PassesDescribe
    <2> QED BY <1>3, <1>d, <2>1, <2>2, <2>3, <2>4
<1>6. ASSUME NEW app, NEW x, NEW y, NEW next, SyncApp(p, app, x, y, next), proc[p].pc \in Copying, ~ApplyMigration(p),
             app = "system" /\ app \in DOMAIN apps => Separate(x) /\ Separate(y),
             app = "base" /\ "system" \in DOMAIN apps => Described(y) \subseteq physical
      PROVE  Sane(apps') /\ (Unmerged' => Covered(apps', physical'))
    <2>1. apps' = apps \/ apps' = Update(apps, app, x, y)
        BY <1>6, SyncWrites
    <2>2. Rewrote(apps, apps', app, x, y)
        BY <1>0, <2>1, UpdateShape DEF Rewrote
    <2> QED BY <1>3, <1>6, <1>d, <2>2
<1>7. CASE WriteSystem(p)
    <2> DEFINE app == SystemName(proc[p].copy)
               x == WithLanding(WithPhysical(proc[p].copy[app].draft, physical))
               y == WithLanding(WithPhysical(proc[p].copy[app].published, physical))
    <2>1. SyncApp(p, app, x, y, "landing") /\ proc[p].pc \in Copying /\ ~ApplyMigration(p)
        BY <1>7 DEF WriteSystem, At, Copying, ApplyMigration
    <2>2. "system" \in DOMAIN apps => app = "system"
        BY <1>d, <2>1 DEF SystemName
    <2>3. physical \in SUBSET SystemTables
        BY DEF NamesInv
    <2>4. app = "system" /\ app \in DOMAIN apps => Separate(x) /\ Separate(y)
        BY <1>d, <2>1, <2>3, PassesApart
    <2> HIDE DEF app, x, y
    <2> QED BY <1>6, <2>1, <2>2, <2>4
<1>8. CASE WriteTask(p)
    <2>1. SyncApp(p, "base", Simplified(proc[p].copy["base"].draft), Simplified(proc[p].copy["base"].published), "obs")
        BY <1>8 DEF WriteTask, WriteBase
    <2>2. proc[p].pc \in Copying /\ ~ApplyMigration(p)
        BY <1>8 DEF WriteTask, WriteBase, At, Copying, ApplyMigration
    <2>3. "system" \in DOMAIN apps => Described(Simplified(proc[p].copy["base"].published)) \subseteq physical
        BY <1>d, <2>2, PassesDescribe
    <2> QED BY <1>6, <2>1, <2>2, <2>3
<1>9. CASE WriteObservability(p)
    <2>1. SyncApp(p, "base", Observed(proc[p].copy["base"].draft), Observed(proc[p].copy["base"].published), "compose")
        BY <1>9 DEF WriteObservability, WriteBase
    <2>2. proc[p].pc \in Copying /\ ~ApplyMigration(p)
        BY <1>9 DEF WriteObservability, WriteBase, At, Copying, ApplyMigration
    <2>3. "system" \in DOMAIN apps => Described(Observed(proc[p].copy["base"].published)) \subseteq physical
        BY <1>d, <2>2, PassesDescribe
    <2> QED BY <1>6, <2>1, <2>2, <2>3
<1>10. CASE WriteOOTB(p)
    <2>1. proc[p].pc \in Copying /\ ~ApplyMigration(p)
        BY <1>10 DEF WriteOOTB, At, Copying, ApplyMigration
    <2>2. \/ apps' = apps
          \/ DOMAIN apps' = IF "system" \in DOMAIN proc[p].copy THEN DOMAIN apps \ {"system"} ELSE DOMAIN apps
        BY <1>0, <1>10, OOTBWrites
    <2>3. CASE apps' = apps
        BY <1>2, <2>1, <2>3
    <2>4. CASE apps' # apps
        <3>1. "system" \notin DOMAIN apps'
            BY <1>d, <2>1, <2>2, <2>4
        <3> QED BY <1>c, <1>d, <2>1, <3>1 DEF Sane
    <2> QED BY <2>3, <2>4
<1>11. CASE UpsertBundled(p) \/ PruneBundled(p)
    <2>1. \A a \in OwnApps : (a \in DOMAIN apps' <=> a \in DOMAIN apps) /\ (a \in DOMAIN apps => apps'[a] = apps[a])
        BY <1>11, OthersStay
    <2>2. proc[p].pc \in Migrated /\ ~ApplyMigration(p)
        BY <1>11 DEF UpsertBundled, PruneBundled, At, Migrated, Migrating, Stages, ApplyMigration
    <2> QED BY <1>a, <1>c, <2>1, <2>2 DEF Sane, Covered, OwnApps
<1> QED BY <1>1, <1>2, <1>4, <1>5, <1>7, <1>8, <1>9, <1>10, <1>11, Writers

\* Only the merge brings a process to the stages after it.
LEMMA MergingFrom ==
    ASSUME NEW p \in Procs, Works(p), ProcShape, "base" \in DOMAIN apps, proc'[p].pc \in Merging
    PROVE  \/ WriteOOTB(p)
           \/ /\ proc[p].pc \in Merging
              /\ \/ OOTBLanding(p) \/ ReadBundled(p) \/ UpsertBundled(p) \/ SeedBundled(p) \/ UpsertedAll(p) \/ ReadPruned(p) \/ PruneBundled(p)
                 \/ SaveRegistry(p) \/ ReadPages(p) \/ WritePages(p) \/ LookForUsers(p) \/ CreateFirstUser(p) \/ HelperUser(p)
<1>0. DOMAIN proc = Procs
    BY DEF ProcShape
<1> USE DEF Go, Copy, Did, Turn, Done, At, Merging
<1>1. CASE Verify(p) \/ ApplyMigration(p) \/ After042(p) \/ ReadLegacy(p)
    BY <1>0, <1>1 DEF Verify, ApplyMigration, After042, ReadLegacy
<1>2. CASE WriteLegacy(p)
    <2>1. \E pc \in {"legacyw", "rolesw"} : \E app : Did(p, pc, app)
        BY <1>2 DEF WriteLegacy, RewriteEach
    <2> QED BY <1>0, <2>1
<1>3. CASE ReadRoles(p)
    BY <1>0, <1>3 DEF ReadRoles
<1>4. CASE WriteRoles(p)
    <2>1. \E pc \in {"legacyw", "rolesw"} : \E app : Did(p, pc, app)
        BY <1>4 DEF WriteRoles, RewriteEach
    <2> QED BY <1>0, <2>1
<1>5. CASE ReadSystem(p)
    BY <1>0, <1>5 DEF ReadSystem, SystemName
<1>6. CASE CreateSystemTables(p)
    BY <1>0, <1>6 DEF CreateSystemTables
<1>7. CASE WriteSystem(p)
    BY <1>0, <1>7 DEF WriteSystem, SyncApp
<1>8. CASE SystemLanding(p)
    BY <1>0, <1>8 DEF SystemLanding, ShowLanding
<1>9. CASE ReadTask(p)
    BY <1>0, <1>9 DEF ReadTask, ReadBase
<1>10. CASE WriteTask(p)
    BY <1>0, <1>10 DEF WriteTask, WriteBase, SyncApp
<1>11. CASE ReadObservability(p)
    BY <1>0, <1>11 DEF ReadObservability, ReadBase
<1>12. CASE WriteObservability(p)
    BY <1>0, <1>12 DEF WriteObservability, WriteBase, SyncApp
<1>13. CASE ReadOOTB(p)
    BY <1>0, <1>13 DEF ReadOOTB, ReadBase
<1>14. CASE OOTBLanding(p) \/ ReadBundled(p) \/ UpsertBundled(p) \/ SeedBundled(p) \/ UpsertedAll(p) \/ ReadPruned(p) \/ PruneBundled(p)
           \/ SaveRegistry(p) \/ ReadPages(p) \/ WritePages(p) \/ LookForUsers(p) \/ CreateFirstUser(p) \/ HelperUser(p)
    BY <1>14 DEF OOTBLanding, ReadBundled, UpsertBundled, SeedBundled, UpsertedAll, ReadPruned, PruneBundled, SaveRegistry, ReadPages, WritePages,
               LookForUsers, CreateFirstUser, HelperUser, ReadBase
<1> QED BY <1>1, <1>2, <1>3, <1>4, <1>5, <1>6, <1>7, <1>8, <1>9, <1>10, <1>11, <1>12, <1>13, <1>14 DEF Works

\* The copy of the process that steps, and the merged apps it leaves.
LEMMA MergedProcess ==
    ASSUME ShapeInv, FilesInv, NamesInv, MergedInv, NEW p \in Procs, Works(p)
    PROVE  CopyOK(proc'[p], apps', physical') /\ (proc'[p].pc \in Merging => "system" \notin DOMAIN apps')
<1>0. ProcShape /\ DOMAIN proc = Procs /\ TableShape(apps) /\ physical \subseteq physical'
    BY TablesStay DEF ShapeInv, ProcShape
<1>a. /\ Sane(apps) /\ (Unmerged => Covered(apps, physical))
      /\ CopyOK(proc[p], apps, physical)
      /\ proc[p].pc \in Merging => "system" \notin DOMAIN apps
    BY DEF MergedInv
<1>b. ASSUME proc[p].pc \in Migrated
      PROVE  "base" \in DOMAIN apps /\ ("system" \in DOMAIN apps' => "system" \in DOMAIN apps)
    BY <1>b, BaseThere, OwnRows
<1>1. CASE Verify(p) \/ ApplyMigration(p) \/ After042(p)
    <2>1. proc'[p].pc \in {"failed", "migrate", "after042"}
        BY <1>0, <1>1 DEF Verify, ApplyMigration, After042, Go, Did, Turn
    <2> QED BY <2>1 DEF CopyOK, Copying, Merging
<1>2. CASE ReadLegacy(p)
    <2>1. /\ proc'[p] = [pc |-> "legacyw", build |-> proc[p].build, copy |-> apps, todo |-> DOMAIN apps]
          /\ apps' = apps
        BY <1>0, <1>2 DEF ReadLegacy, Turn, db
    <2>2. M042 \in DOMAIN recorded /\ "base" \in DOMAIN apps
        <3>1. Files(p) \subseteq DOMAIN recorded /\ proc[p].build \in DOMAIN Builds
            BY <1>0, <1>2 DEF ReadLegacy, Done, At, FilesInv, Migrating, ProcShape
        <3>2. {M042, M047} \subseteq FilesOf(proc[p].build)
            BY <3>1, ReleaseAssumption
        <3> QED BY <3>1, <3>2 DEF Files, Build, FilesOf, NamesInv
    <2>3. "system" \in DOMAIN apps => Covered(apps, physical')
        BY <1>0, <1>a DEF Unmerged, Covered
    <2> QED BY <1>a, <2>1, <2>2, <2>3 DEF CopyOK, Merging
<1>3. CASE /\ proc[p].pc \in Migrated /\ ~ReadLegacy(p)
    <2>1. CASE proc'[p].pc \in Copying
        <3>1. \/ WriteLegacy(p) \/ WriteRoles(p) \/ CreateSystemTables(p)
              \/ ReadRoles(p) \/ ReadSystem(p) \/ ReadTask(p) \/ ReadObservability(p) \/ ReadOOTB(p)
            BY <1>0, <1>3, <2>1, LaterPlaces
                DEF Copying, Verify, ApplyMigration, After042, At, Migrated, Migrating, Stages
        <3>2. CASE WriteLegacy(p) \/ WriteRoles(p) \/ CreateSystemTables(p)
            <4>1. proc'[p].copy = proc[p].copy /\ proc[p].pc \in Copying
                <5>1. CASE WriteLegacy(p) \/ WriteRoles(p)
                    <6>1. proc[p].pc \in Copying /\ \E pc, item : Did(p, pc, item)
                        BY <5>1 DEF WriteLegacy, WriteRoles, RewriteEach, At, Copying
                    <6> QED BY <1>0, <6>1 DEF Did, Turn
                <5>2. CASE CreateSystemTables(p)
                    BY <1>0, <5>2 DEF CreateSystemTables, Go, Turn, At, Copying
                <5> QED BY <3>2, <5>1, <5>2
            <4> QED BY <1>0, <1>a, <1>b, <1>3, <2>1, <4>1 DEF CopyOK, Covered, Copying, Merging
        <3>3. CASE ReadRoles(p) \/ ReadSystem(p) \/ ReadTask(p) \/ ReadObservability(p) \/ ReadOOTB(p)
            <4>1. apps' = apps
                BY <3>3 DEF ReadRoles, ReadSystem, ReadTask, ReadObservability, ReadOOTB, ReadBase, db
            <4>2. proc'[p].copy = apps
                <5>1. \/ \E pc, todo : Turn(p, pc, apps, todo)
                      \/ \E pc \in {"refused", "task", "obs", "compose", "bundled"} : Go(p, pc)
                    BY <3>3 DEF ReadRoles, ReadSystem, ReadTask, ReadObservability, ReadOOTB, ReadBase, Copy
                <5> QED BY <1>0, <2>1, <5>1 DEF Turn, Go, Copying
            <4>3. "system" \in DOMAIN apps => Covered(apps, physical')
                BY <1>0, <1>a DEF Unmerged, Covered
            <4> QED BY <1>a, <1>b, <1>3, <2>1, <4>1, <4>2, <4>3 DEF CopyOK, Copying, Merging
        <3> QED BY <3>1, <3>2, <3>3
    <2>2. CASE proc'[p].pc \in Merging
        <3>1. CASE WriteOOTB(p)
            <4>1. \/ Go(p, "refused")
                  \/ DOMAIN apps' = IF "system" \in DOMAIN proc[p].copy THEN DOMAIN apps \ {"system"} ELSE DOMAIN apps
                BY <1>0, <3>1, OOTBWrites
            <4>2. DOMAIN apps' = IF "system" \in DOMAIN proc[p].copy THEN DOMAIN apps \ {"system"} ELSE DOMAIN apps
                BY <1>0, <2>2, <4>1 DEF Go, Turn, Merging
            <4>3. "system" \in DOMAIN apps => "system" \in DOMAIN proc[p].copy
                BY <1>a, <3>1 DEF CopyOK, WriteOOTB, At, Copying
            <4> QED BY <2>2, <4>2, <4>3 DEF CopyOK, Copying, Merging
        <3>2. CASE ~WriteOOTB(p)
            <4>1. proc[p].pc \in Merging
                <5>1. "base" \in DOMAIN apps
                    BY <1>b, <1>3
                <5> QED BY <1>0, <1>3, <2>2, <3>2, <5>1, MergingFrom
            <4> QED BY <1>a, <1>b, <1>3, <2>2, <4>1 DEF CopyOK, Copying, Merging
        <3> QED BY <3>1, <3>2
    <2>3. CASE proc'[p].pc \notin Copying \cup Merging
        BY <2>3 DEF CopyOK
    <2> QED BY <2>1, <2>2, <2>3
<1> QED BY <1>0, <1>1, <1>2, <1>3, LaterPlaces

\* Every step keeps MergedInv: people edit only where the merge is done.
LEMMA MergedKept == ASSUME ShapeInv, FilesInv, NamesInv, MergedInv, [Next]_vars PROVE MergedInv'
<1>0. ProcShape /\ DOMAIN proc = Procs /\ TableShape(apps)
    BY DEF ShapeInv, ProcShape
<1>1. CASE UNCHANGED vars
    BY <1>1 DEF vars, db, MergedInv, Unmerged
<1>2. ASSUME NEW p \in Procs, Boot(p) PROVE MergedInv'
    <2>1. \A q \in Procs \ {p} : proc'[q] = proc[q]
        BY <1>0, <1>2, BootShape
    <2>2. CASE Start(p) \/ Exit(p) \/ Stop(p)
        <3>1. UNCHANGED <<recorded, apps, physical>>
            BY <2>2 DEF Start, Exit, Stop, db
        <3>2. proc'[p].pc \in {"verify", "down"}
            BY <1>0, <2>2 DEF Start, Exit, Stop, Idle
        <3> QED BY <2>1, <3>1, <3>2 DEF MergedInv, Unmerged, CopyOK, Copying, Merging
    <2>3. CASE Works(p)
        <3>1. Sane(apps') /\ (Unmerged' => Covered(apps', physical'))
            BY <2>3, MergedRows
        <3>2. CopyOK(proc'[p], apps', physical') /\ (proc'[p].pc \in Merging => "system" \notin DOMAIN apps')
            BY <2>3, MergedProcess
        <3>3. ASSUME NEW q \in Procs \ {p}
              PROVE  CopyOK(proc'[q], apps', physical') /\ (proc'[q].pc \in Merging => "system" \notin DOMAIN apps')
            <4>1. CASE proc[q].pc \in Copying \cup Merging
                <5>1. proc[q].pc \in Migrated
                    BY <4>1 DEF Copying, Merging, Migrated, Migrating, Stages
                <5>2. "system" \in DOMAIN apps' => "system" \in DOMAIN apps
                    BY <2>3, <5>1, BaseThere, OwnRows
                <5>3. CopyOK(proc[q], apps, physical) /\ (proc[q].pc \in Merging => "system" \notin DOMAIN apps)
                    BY DEF MergedInv
                <5>4. CopyOK(proc[q], apps', physical')
                    BY <2>3, <5>2, <5>3, CopyStays, TablesStay
                <5> QED BY <2>1, <5>2, <5>3, <5>4
            <4>2. CASE proc[q].pc \notin Copying \cup Merging
                BY <2>1, <4>2 DEF CopyOK
            <4> QED BY <4>1, <4>2
        <3> QED BY <3>1, <3>2, <3>3 DEF MergedInv
    <2> QED BY <1>2, <2>2, <2>3, BootCases
<1>3. CASE SaveDraft \/ PublishDraft \/ TouchRecord
    <2>1. UNCHANGED <<recorded, physical, proc>> /\ DOMAIN apps' = DOMAIN apps /\ Serving
        <3>1. UNCHANGED <<recorded, physical, proc>> /\ Serving
            BY <1>3 DEF SaveDraft, PublishDraft, TouchRecord, Edited, Apps
        <3>2. CASE SaveDraft
            BY <1>0, <3>1, <3>2, SaveWrites DEF Saves
        <3>3. CASE PublishDraft
            BY <1>0, <3>1, <3>3, PublishWrites DEF Publishes
        <3>4. CASE TouchRecord
            BY <3>1, <3>4 DEF TouchRecord
        <3> QED BY <1>3, <3>1, <3>2, <3>3, <3>4
    <2>2. PICK q \in Procs : proc[q].pc = "up"
        BY <2>1 DEF Serving, At
    <2>3. "system" \notin DOMAIN apps
        BY <2>2 DEF MergedInv, Merging
    <2>4. M042 \in DOMAIN recorded
        BY <2>2, BaseThere DEF Migrated, Migrating, Stages
    <2> QED BY <2>1, <2>3, <2>4 DEF MergedInv, Sane, Unmerged, CopyOK
<1> QED BY <1>1, <1>2, <1>3 DEF Next

-----------------------------------------------------------------------------
(* Edits.                                                                  *)

\* What a pass adds or drops is the release's own.
Passed(d, x) ==
    /\ x \subseteq d \cup Known \cup {Landing}
    /\ \A i \in d \ x : \E k \in Known : KeyOf(i) = KeyOf(k)

\* Each pass does.
LEMMA PassesKeep ==
    ASSUME NEW d, NEW ph \in SUBSET SystemTables
    PROVE  /\ Passed(d, Unscripted(d)) /\ Passed(d, Backfilled(d))
           /\ Passed(d, WithLanding(WithPhysical(d, ph)))
           /\ Passed(d, Simplified(d)) /\ Passed(d, Observed(d))
<1>1. {Legacy, Open, Closed, WorkOrders, Tasks, Observability} \subseteq Known /\ \A t \in SystemTables : Table(t) \in Known
    BY DEF Known
<1>2. Passed(d, Unscripted(d))
    BY <1>1 DEF Passed, Unscripted
<1>3. Passed(d, Backfilled(d))
    BY <1>1 DEF Passed, Backfilled
<1>4. Passed(d, WithLanding(WithPhysical(d, ph)))
    <2>1. \A t \in SystemTables : KeyOf(Old(t)) = KeyOf(Table(t))
        BY Keys
    <2>2. WithPhysical(d, ph) \subseteq d \cup Known
        BY <1>1 DEF WithPhysical
    <2>3. \A i \in d : i \notin WithPhysical(d, ph) => \E t \in ph : i = Old(t)
        BY DEF WithPhysical
    <2> QED BY <1>1, <2>1, <2>2, <2>3 DEF Passed, WithLanding
<1>5. Passed(d, Simplified(d))
    BY <1>1 DEF Passed, Simplified
<1>6. Passed(d, Observed(d))
    BY <1>1 DEF Passed, Observed
<1> QED BY <1>2, <1>3, <1>4, <1>5, <1>6

\* A definition that has nothing of the edit's name, or the edit itself.
Clear(d, e) == \A i \in Unlabelled(d) \cup {Landing} : KeyOf(i) # KeyOf(e)
Stands(d, e) == e \in Unlabelled(d) \/ Clear(d, e)

\* An edit is nothing of the release's.
LEMMA EditsApart ==
    ASSUME NEW e \in Edits
    PROVE  e # Landing /\ e \notin Known /\ \A i \in Known : KeyOf(i) # KeyOf(e)
<1>1. \A i \in Known : KeyOf(e) # KeyOf(i)
    BY EditAssumption
<1>2. e # Landing
    BY EditAssumption, Apart
<1> QED BY <1>1, <1>2

\* What a pass leaves of an edit.
LEMMA PassedKeeps ==
    ASSUME NEW e \in Edits, NEW d, NEW x, Passed(d, x)
    PROVE  /\ e \in x <=> e \in d
           /\ e \in Unlabelled(d) => e \in Unlabelled(x)
           /\ Stands(d, e) => Stands(x, e)
<1>1. e # Landing /\ e \notin Known /\ \A i \in Known : KeyOf(i) # KeyOf(e)
    BY EditsApart
<1>2. e \in x <=> e \in d
    BY <1>1 DEF Passed
<1>3. Clear(d, e) => Clear(x, e)
    <2>1. ASSUME Clear(d, e), NEW i \in Unlabelled(x) PROVE KeyOf(i) # KeyOf(e)
        <3>1. i \in x /\ i[1] # "label"
            BY <2>1 DEF Unlabelled
        <3>2. i \in d => i \in Unlabelled(d)
            BY <3>1 DEF Unlabelled
        <3> QED BY <1>1, <2>1, <3>1, <3>2 DEF Passed, Clear
    <2> QED BY <2>1 DEF Clear
<1> QED BY <1>2, <1>3 DEF Unlabelled, Stands

\* Where an edit is: in the draft of the base app, so that the merge keeps it, or
\* in that of the system app.
BaseHas(T, e) == "base" \in DOMAIN T /\ e \in T["base"].draft
InBase(T, e) == BaseHas(T, e) /\ ("system" \in DOMAIN T => Stands(T["system"].draft, e))
InSystem(T, e) == "system" \in DOMAIN T /\ e \in Unlabelled(T["system"].draft)
CopyHas(T, U, e) == InSystem(U, e) /\ (BaseHas(T, e) => BaseHas(U, e))
OneBoots == \A p, q \in Procs : Booting(p) /\ Booting(q) => p = q
BaseKept(e) == InBase(apps, e) /\ \A p \in Procs : proc[p].pc \in Copying => InBase(proc[p].copy, e)
SystemKept(e) ==
    /\ InSystem(apps, e) /\ OneBoots
    /\ \A p \in Procs : proc[p].pc \in Copying => CopyHas(apps, proc[p].copy, e)
KeptInv == kept \subseteq Edits /\ \A e \in kept : ~Rewritten(e) /\ (BaseKept(e) \/ SystemKept(e))

\* A pass over one app, from a copy that has the edit.
LEMMA RewroteKeeps ==
    ASSUME NEW e \in Edits, NEW T, NEW T2, NEW U, NEW app, NEW x, NEW y, Rewrote(T, T2, app, x, y),
           app \in OwnApps /\ app \in DOMAIN T => app \in DOMAIN U /\ Passed(U[app].draft, x)
    PROVE  /\ InBase(T, e) /\ InBase(U, e) => InBase(T2, e)
           /\ InSystem(T, e) /\ CopyHas(T, U, e) => InSystem(T2, e) /\ CopyHas(T2, U, e)
<1>1. CASE T2 = T
    BY <1>1
<1>2. CASE T2 # T
    <2>1. /\ DOMAIN T2 = DOMAIN T
          /\ app \in DOMAIN T => T2[app].draft = x
          /\ \A b \in DOMAIN T \ {app, TaskDefinition} : T2[b] = T[b]
        BY <1>2 DEF Rewrote
    <2>2. TaskDefinition # "system" /\ TaskDefinition # "base" /\ OwnApps = {"system", "base"}
        BY DEF TaskDefinition, OwnApps
    <2>3. app \in OwnApps /\ app \in DOMAIN T =>
              /\ app \in DOMAIN U
              /\ e \in x <=> e \in U[app].draft
              /\ e \in Unlabelled(U[app].draft) => e \in Unlabelled(x)
              /\ Stands(U[app].draft, e) => Stands(x, e)
        BY PassedKeeps
    <2>4. CASE app = "base"
        BY <2>1, <2>2, <2>3, <2>4 DEF InBase, BaseHas, InSystem, CopyHas
    <2>5. CASE app = "system"
        BY <2>1, <2>2, <2>3, <2>5 DEF InBase, BaseHas, InSystem, CopyHas
    <2>6. CASE app \notin OwnApps
        BY <2>1, <2>2, <2>6 DEF InBase, BaseHas, InSystem, CopyHas
    <2> QED BY <2>2, <2>4, <2>5, <2>6
<1> QED BY <1>1, <1>2

\* The two own apps stay as they are.
LEMMA SameKeeps ==
    ASSUME NEW e, NEW T, NEW T2, NEW U,
           \A a \in OwnApps : (a \in DOMAIN T2 <=> a \in DOMAIN T) /\ (a \in DOMAIN T => T2[a].draft = T[a].draft)
    PROVE  (InBase(T, e) => InBase(T2, e)) /\ (InSystem(T, e) => InSystem(T2, e)) /\ (CopyHas(T, U, e) => CopyHas(T2, U, e))
BY DEF OwnApps, InBase, BaseHas, InSystem, CopyHas

\* The merge keeps what is in the copy.
LEMMA ComposedKeeps ==
    ASSUME NEW e, ~Rewritten(e), NEW s, NEW b, e \in Unlabelled(s) \/ (e \in b /\ Stands(s, e))
    PROVE  e \in Composed(s, b)
<1>1. e \in MergedByName(s, b)
    BY DEF MergedByName, Stands, Clear
<1> QED BY <1>1 DEF Composed, WithLanding

\* A process that works is starting.
LEMMA BootsAt ==
    ASSUME NEW p, Works(p)
    PROVE  Booting(p)
<1> USE DEF Booting, Ended, At, Done
<1>1. CASE Verify(p) \/ ApplyMigration(p) \/ After042(p) \/ ReadLegacy(p) \/ ReadRoles(p) \/ WriteLegacy(p) \/ WriteRoles(p)
    BY <1>1 DEF Verify, ApplyMigration, After042, ReadLegacy, ReadRoles, WriteLegacy, WriteRoles, RewriteEach
<1>2. CASE ReadSystem(p) \/ CreateSystemTables(p) \/ WriteSystem(p) \/ SystemLanding(p)
           \/ ReadTask(p) \/ WriteTask(p) \/ ReadObservability(p) \/ WriteObservability(p)
    BY <1>2 DEF ReadSystem, CreateSystemTables, WriteSystem, SystemLanding, ReadTask, ReadBase, WriteTask, WriteBase,
               ReadObservability, WriteObservability
<1>3. CASE ReadOOTB(p) \/ WriteOOTB(p) \/ OOTBLanding(p) \/ ReadBundled(p) \/ UpsertBundled(p) \/ SeedBundled(p)
           \/ UpsertedAll(p) \/ ReadPruned(p) \/ PruneBundled(p) \/ SaveRegistry(p)
    BY <1>3 DEF ReadOOTB, ReadBase, WriteOOTB, OOTBLanding, ReadBundled, UpsertBundled, SeedBundled, UpsertedAll,
               ReadPruned, PruneBundled, SaveRegistry
<1>4. CASE ReadPages(p) \/ WritePages(p) \/ LookForUsers(p) \/ CreateFirstUser(p) \/ HelperUser(p)
    BY <1>4 DEF ReadPages, WritePages, LookForUsers, CreateFirstUser, HelperUser
<1> QED BY <1>1, <1>2, <1>3, <1>4 DEF Works

\* A process at work on what it has read, with an edit there and in the database.
Tracks(s, T, e) == InBase(T, e) /\ (s.pc \in Copying => InBase(s.copy, e))
TracksSystem(s, T, e) == InSystem(T, e) /\ (s.pc \in Copying => CopyHas(T, s.copy, e))
Follows(s, T, s2, T2, e) ==
    /\ Tracks(s, T, e) => Tracks(s2, T2, e)
    /\ TracksSystem(s, T, e) => TracksSystem(s2, T2, e) \/ (InBase(T2, e) /\ s2.pc \notin Copying)

\* A step that leaves the two own apps alone, and reads or leaves off copying.
LEMMA QuietFollows ==
    ASSUME NEW s, NEW s2, NEW T, NEW T2, NEW e,
           \A a \in OwnApps : (a \in DOMAIN T2 <=> a \in DOMAIN T) /\ (a \in DOMAIN T => T2[a].draft = T[a].draft),
           s2.pc \in Copying => s2.copy = T2 \/ (s.pc \in Copying /\ s2.copy = s.copy)
    PROVE  Follows(s, T, s2, T2, e)
<1>1. \A U : (InBase(T, e) => InBase(T2, e)) /\ (InSystem(T, e) => InSystem(T2, e)) /\ (CopyHas(T, U, e) => CopyHas(T2, U, e))
    BY SameKeeps
<1> QED BY <1>1 DEF Follows, Tracks, TracksSystem, CopyHas

\* A pass over one app.
LEMMA PassFollows ==
    ASSUME NEW s, NEW s2, NEW T, NEW T2, NEW e \in Edits, NEW app, NEW x, NEW y, Rewrote(T, T2, app, x, y),
           NEW ph, CopyOK(s, T, ph),
           s.pc \in Copying, s2.pc \in Copying => s2.copy = s.copy,
           app \in OwnApps /\ app \in DOMAIN T => Passed(s.copy[app].draft, x)
    PROVE  Follows(s, T, s2, T2, e)
<1>1. app \in OwnApps /\ app \in DOMAIN T => app \in DOMAIN s.copy
    BY DEF CopyOK, OwnApps
<1>2. /\ InBase(T, e) /\ InBase(s.copy, e) => InBase(T2, e)
      /\ InSystem(T, e) /\ CopyHas(T, s.copy, e) => InSystem(T2, e) /\ CopyHas(T2, s.copy, e)
    BY <1>1, RewroteKeeps
<1> QED BY <1>2 DEF Follows, Tracks, TracksSystem

\* Every step at work follows the edit.
LEMMA WorksFollow ==
    ASSUME ShapeInv, FilesInv, NamesInv, MergedInv, NEW p \in Procs, Works(p), NEW e \in Edits, ~Rewritten(e)
    PROVE  Follows(proc[p], apps, proc'[p], apps', e)
<1>0. ProcShape /\ DOMAIN proc = Procs /\ TableShape(apps)
    BY DEF ShapeInv, ProcShape
<1>a. CopyOK(proc[p], apps, physical) /\ physical \in SUBSET SystemTables
    BY DEF MergedInv, NamesInv
<1>b. proc[p].pc \in Copying =>
          /\ proc[p].pc \in Migrated /\ "base" \in DOMAIN proc[p].copy
          /\ "system" \in DOMAIN apps => "system" \in DOMAIN proc[p].copy
    BY <1>a DEF CopyOK, Copying, Migrated, Migrating, Stages
<1>1. CASE ApplyMigration(p)
    <2>1. proc'[p].pc \notin Copying
        BY <1>0, <1>1 DEF ApplyMigration, Go, Did, Turn, Copying
    <2> DEFINE v == Min(proc[p].todo)
    <2>2. CASE FirstRun(v) /\ RunsOver(v)
        <3>1. apps' = AppsAfter(v) /\ v \notin DOMAIN recorded
            BY <1>1, <2>2 DEF ApplyMigration, FirstRun
        <3> HIDE DEF v
        <3>2. CASE v = M042
            <4>1. proc[p].build \in DOMAIN Builds
                BY <1>0, <1>1 DEF ProcShape, ApplyMigration, At
            <4>2. {M042, M047} \subseteq FilesOf(proc[p].build)
                BY <4>1, ReleaseAssumption
            <4>3. M047 \in DOMAIN recorded => M042 \in DOMAIN recorded
                BY <4>1, <4>2 DEF FilesInv, M042, M047
            <4>4. "system" \notin DOMAIN apps /\ "base" \notin DOMAIN apps
                BY <3>1, <3>2, <4>3 DEF NamesInv
            <4> QED BY <4>4 DEF Follows, Tracks, TracksSystem, InBase, BaseHas, InSystem
        <3>3. CASE v = M047
            <4>1. "base" \notin DOMAIN apps
                BY <3>1, <3>3 DEF NamesInv
            <4>2. DOMAIN apps' = DOMAIN apps \cup {"base"} /\ \A a \in DOMAIN apps \ {"base"} : apps'[a] = apps[a]
                BY <1>0, <3>1, <3>3, FileWrites
            <4>3. InSystem(apps, e) => InSystem(apps', e)
                BY <4>2 DEF InSystem
            <4> QED BY <2>1, <4>1, <4>3 DEF Follows, Tracks, TracksSystem, InBase, BaseHas
        <3>4. CASE v # M042 /\ v # M047
            <4>1. \A a \in OwnApps : (a \in DOMAIN apps' <=> a \in DOMAIN apps) /\ (a \in DOMAIN apps => apps'[a] = apps[a])
                <5>1. CASE v = M076
                    <6>1. DOMAIN apps' = DOMAIN apps \cup {TaskDefinition} /\ \A a \in DOMAIN apps \ {TaskDefinition} : apps'[a] = apps[a]
                        BY <1>0, <3>1, <5>1, FileWrites
                    <6> QED BY <6>1 DEF OwnApps, TaskDefinition
                <5>2. CASE v # M076
                    <6>1. apps' = apps
                        BY <1>0, <3>1, <3>4, <5>2, FileWrites
                    <6> QED BY <6>1
                <5> QED BY <5>1, <5>2
            <4> QED BY <2>1, <4>1, QuietFollows
        <3> QED BY <3>2, <3>3, <3>4
    <2>3. CASE ~(FirstRun(v) /\ RunsOver(v))
        <3>1. apps' = apps
            BY <1>1, <2>3 DEF ApplyMigration
        <3> QED BY <2>1, <3>1, QuietFollows
    <2> QED BY <2>2, <2>3
<1>2. CASE WriteLegacy(p)
    <2>1. PICK app \in proc[p].todo :
              At(p, "legacyw") /\ Did(p, "legacyw", app)
              /\ Rewrote(apps, apps', app, Unscripted(proc[p].copy[app].draft), Unscripted(proc[p].copy[app].published))
        BY <1>0, <1>2, LegacyRewrites DEF Rewrites, Rewrote
    <2>2. proc[p].pc \in Copying /\ proc'[p].copy = proc[p].copy
        BY <1>0, <2>1 DEF At, Did, Turn, Copying
    <2>3. Passed(proc[p].copy[app].draft, Unscripted(proc[p].copy[app].draft))
        BY <1>a, PassesKeep
    <2> QED BY <1>a, <2>1, <2>2, <2>3, PassFollows
<1>3. CASE WriteRoles(p)
    <2>1. PICK app \in proc[p].todo :
              At(p, "rolesw") /\ Did(p, "rolesw", app)
              /\ Rewrote(apps, apps', app, Backfilled(proc[p].copy[app].draft), Backfilled(proc[p].copy[app].published))
        BY <1>0, <1>3, RolesRewrites DEF Rewrites, Rewrote
    <2>2. proc[p].pc \in Copying /\ proc'[p].copy = proc[p].copy
        BY <1>0, <2>1 DEF At, Did, Turn, Copying
    <2>3. Passed(proc[p].copy[app].draft, Backfilled(proc[p].copy[app].draft))
        BY <1>a, PassesKeep
    <2> QED BY <1>a, <2>1, <2>2, <2>3, PassFollows
<1>4. ASSUME NEW app, NEW x, NEW y, NEW next, SyncApp(p, app, x, y, next), next \notin Copying,
             proc[p].pc \in Copying, Passed(proc[p].copy[app].draft, x)
      PROVE  Follows(proc[p], apps, proc'[p], apps', e)
    <2>1. proc'[p].copy = proc[p].copy
        BY <1>0, <1>4, SyncWrites DEF Go, Turn
    <2>2. apps' = apps \/ apps' = Update(apps, app, x, y)
        BY <1>4, SyncWrites
    <2>3. Rewrote(apps, apps', app, x, y)
        BY <1>0, <2>2, UpdateShape DEF Rewrote
    <2> QED BY <1>4, <1>a, <2>1, <2>3, PassFollows
<1>5. CASE WriteSystem(p)
    <2> DEFINE app == SystemName(proc[p].copy)
               x == WithLanding(WithPhysical(proc[p].copy[app].draft, physical))
               y == WithLanding(WithPhysical(proc[p].copy[app].published, physical))
    <2>1. SyncApp(p, app, x, y, "landing") /\ proc[p].pc \in Copying
        BY <1>5 DEF WriteSystem, At, Copying
    <2>2. Passed(proc[p].copy[app].draft, x)
        BY <1>a, PassesKeep
    <2> HIDE DEF app, x, y
    <2>3. "landing" \notin Copying
        BY DEF Copying
    <2> QED BY <1>4, <2>1, <2>2, <2>3
<1>6. CASE WriteTask(p)
    <2>1. SyncApp(p, "base", Simplified(proc[p].copy["base"].draft), Simplified(proc[p].copy["base"].published), "obs") /\ proc[p].pc \in Copying
        BY <1>6 DEF WriteTask, WriteBase, At, Copying
    <2>2. Passed(proc[p].copy["base"].draft, Simplified(proc[p].copy["base"].draft))
        BY <1>a, PassesKeep
    <2>3. "obs" \notin Copying
        BY DEF Copying
    <2> QED BY <1>4, <2>1, <2>2, <2>3
<1>7. CASE WriteObservability(p)
    <2>1. SyncApp(p, "base", Observed(proc[p].copy["base"].draft), Observed(proc[p].copy["base"].published), "compose") /\ proc[p].pc \in Copying
        BY <1>7 DEF WriteObservability, WriteBase, At, Copying
    <2>2. Passed(proc[p].copy["base"].draft, Observed(proc[p].copy["base"].draft))
        BY <1>a, PassesKeep
    <2>3. "compose" \notin Copying
        BY DEF Copying
    <2> QED BY <1>4, <2>1, <2>2, <2>3
<1>8. CASE WriteOOTB(p)
    <2>1. proc[p].pc \in Copying
        BY <1>8 DEF WriteOOTB, At, Copying
    <2>2. proc'[p].pc \notin Copying
        BY <1>0, <1>8, OOTBWrites DEF Go, Turn, Copying
    <2>3. "base" \in DOMAIN apps
        BY <1>b, <2>1, BaseThere
    <2>4. ASSUME apps' # apps
          PROVE  /\ "base" \in DOMAIN apps' /\ apps'["base"].draft = ComposedBase(p, "draft")
                 /\ "system" \notin DOMAIN apps'
        <3>1. /\ DOMAIN apps' = IF "system" \in DOMAIN proc[p].copy THEN DOMAIN apps \ {"system"} ELSE DOMAIN apps
              /\ apps'["base"].draft = ComposedBase(p, "draft")
            BY <1>0, <1>8, <2>3, <2>4, OOTBWrites
        <3> QED BY <1>b, <2>1, <2>3, <3>1
    <2>5. ASSUME InBase(proc[p].copy, e) \/ InSystem(proc[p].copy, e)
          PROVE  e \in ComposedBase(p, "draft")
        <3>1. CASE InSystem(proc[p].copy, e)
            <4>1. e \in Unlabelled(SystemOf(p, "draft"))
                BY <3>1 DEF InSystem, SystemOf
            <4> QED BY <4>1, ComposedKeeps DEF ComposedBase
        <3>2. CASE InBase(proc[p].copy, e) /\ "system" \in DOMAIN proc[p].copy
            <4>1. e \in proc[p].copy["base"].draft /\ Stands(SystemOf(p, "draft"), e)
                BY <3>2 DEF InBase, BaseHas, SystemOf
            <4> QED BY <4>1, ComposedKeeps DEF ComposedBase
        <3>3. CASE InBase(proc[p].copy, e) /\ "system" \notin DOMAIN proc[p].copy
            <4>1. e \in proc[p].copy["base"].draft /\ SystemOf(p, "draft") = {}
                BY <3>3 DEF InBase, BaseHas, SystemOf
            <4>2. e \in MergedByName({}, proc[p].copy["base"].draft)
                BY <4>1 DEF MergedByName, Unlabelled
            <4> QED BY <4>1, <4>2 DEF ComposedBase, Composed, WithLanding
        <3> QED BY <2>5, <3>1, <3>2, <3>3
    <2>6. CASE apps' = apps
        BY <2>2, <2>6, QuietFollows
    <2>7. CASE apps' # apps
        BY <2>1, <2>2, <2>4, <2>5, <2>7 DEF Follows, Tracks, TracksSystem, CopyHas, InBase, BaseHas
    <2> QED BY <2>6, <2>7
<1>9. CASE UpsertBundled(p) \/ PruneBundled(p)
    <2>1. \A a \in OwnApps : (a \in DOMAIN apps' <=> a \in DOMAIN apps) /\ (a \in DOMAIN apps => apps'[a].draft = apps[a].draft)
        BY <1>9, OthersStay
    <2>2. proc'[p].pc \notin Copying
        <3>1. CASE UpsertBundled(p)
            <4>1. Go(p, "refused") \/ Go(p, "seed")
                BY <1>0, <3>1, UpsertWrites
            <4> QED BY <1>0, <4>1 DEF Go, Turn, Copying
        <3>2. CASE PruneBundled(p)
            <4>1. Turn(p, "prune", proc[p].copy[1], proc[p].todo \ {Pruned(p)})
                BY <1>0, <3>2, PruneWrites
            <4> QED BY <1>0, <4>1 DEF Turn, Copying
        <3> QED BY <1>9, <3>1, <3>2
    <2> QED BY <2>1, <2>2, QuietFollows
<1>11. CASE apps' = apps /\ ~WriteLegacy(p) /\ ~WriteRoles(p)
    <2>1. proc'[p].pc \in Copying => proc'[p].copy = apps' \/ (proc[p].pc \in Copying /\ proc'[p].copy = proc[p].copy)
        <3>1. CASE ReadLegacy(p) \/ ReadRoles(p) \/ ReadSystem(p) \/ ReadTask(p) \/ ReadObservability(p) \/ ReadOOTB(p)
            <4>1. \/ \E pc, todo : Turn(p, pc, apps, todo)
                  \/ \E pc \in {"refused", "task", "obs", "compose", "bundled"} : Go(p, pc)
                BY <3>1 DEF ReadLegacy, ReadRoles, ReadSystem, ReadTask, ReadObservability, ReadOOTB, ReadBase, Copy
            <4> QED BY <1>0, <1>11, <4>1 DEF Turn, Go, Copying
        <3>2. CASE CreateSystemTables(p)
            <4>1. proc'[p].copy = proc[p].copy /\ proc[p].pc \in Copying
                BY <1>0, <3>2 DEF CreateSystemTables, Go, Turn, At, Copying
            <4> QED BY <4>1
        <3>3. CASE Verify(p) \/ ApplyMigration(p) \/ After042(p)
            <4>1. proc'[p].pc \notin Copying
                BY <1>0, <3>3 DEF Verify, ApplyMigration, After042, Go, Did, Turn, Copying
            <4> QED BY <4>1
        <3> QED BY <1>0, <1>11, <3>1, <3>2, <3>3, LaterPlaces DEF Copying
    <2> QED BY <1>11, <2>1, QuietFollows
<1> QED BY <1>1, <1>2, <1>3, <1>5, <1>6, <1>7, <1>8, <1>9, <1>11, Writers

\* At first an edit is kept if it is in one of the two apps, and the merge keeps it.
LEMMA KeptStart == Init => KeptInv
<1> SUFFICES ASSUME Init PROVE KeptInv
    OBVIOUS
<1>1. kept = {e \in Edits : \E app \in DOMAIN apps : e \in apps[app].draft /\ Lasting(app, e)}
    BY DEF Init
<1>2. \A p \in Procs : proc[p].pc \notin Copying /\ ~Booting(p)
    BY DEF Init, Idle, Booting, Ended, Copying
<1>3. ASSUME NEW e \in kept PROVE ~Rewritten(e) /\ (BaseKept(e) \/ SystemKept(e))
    <2>1. PICK app \in DOMAIN apps : e \in apps[app].draft /\ Lasting(app, e)
        BY <1>1
    <2>2. ~Rewritten(e) /\ (app = "system" \/ app = "base")
        BY <2>1 DEF Lasting, OwnApps
    <2>3. CASE app = "system"
        <3>1. InSystem(apps, e)
            BY <2>1, <2>3 DEF InSystem, Lasting, Unlabelled
        <3> QED BY <1>2, <2>2, <3>1 DEF SystemKept, OneBoots
    <2>4. CASE app = "base"
        <3>1. InBase(apps, e)
            BY <2>1, <2>4 DEF InBase, BaseHas, Lasting, Stands, Clear
        <3> QED BY <1>2, <2>2, <3>1 DEF BaseKept
    <2> QED BY <2>2, <2>3, <2>4
<1> QED BY <1>1, <1>3 DEF KeptInv

\* An edit after a step of one process that works.
LEMMA WorksKeep ==
    ASSUME ShapeInv, FilesInv, NamesInv, MergedInv, NEW p \in Procs, Works(p), \A q \in Procs \ {p} : proc'[q] = proc[q],
           NEW e \in Edits, ~Rewritten(e), BaseKept(e) \/ SystemKept(e)
    PROVE  BaseKept(e)' \/ SystemKept(e)'
<1>1. Follows(proc[p], apps, proc'[p], apps', e)
    BY WorksFollow
<1>2. CASE BaseKept(e)
    <2>1. Tracks(proc'[p], apps', e)
        BY <1>1, <1>2 DEF BaseKept, Follows, Tracks
    <2>2. \A q \in Procs \ {p} : proc'[q].pc \in Copying => InBase(proc'[q].copy, e)
        BY <1>2 DEF BaseKept
    <2>3. \A q \in Procs : proc'[q].pc \in Copying => InBase(proc'[q].copy, e)
        BY <2>1, <2>2 DEF Tracks
    <2>4. InBase(apps', e)
        BY <2>1 DEF Tracks
    <2> QED BY <2>3, <2>4 DEF BaseKept
<1>3. CASE SystemKept(e)
    <2>1. TracksSystem(proc'[p], apps', e) \/ (InBase(apps', e) /\ proc'[p].pc \notin Copying)
        BY <1>1, <1>3 DEF SystemKept, Follows, TracksSystem
    <2>2. \A q \in Procs \ {p} : ~Booting(q)
        BY <1>3, BootsAt DEF SystemKept, OneBoots
    <2>3. \A q \in Procs \ {p} : ~Booting(q)' /\ proc'[q].pc \notin Copying
        BY <2>2 DEF Booting, Ended, Copying
    <2>4. OneBoots'
        BY <2>3 DEF OneBoots
    <2>5. CASE TracksSystem(proc'[p], apps', e)
        BY <2>3, <2>4, <2>5 DEF SystemKept, TracksSystem
    <2>6. CASE InBase(apps', e) /\ proc'[p].pc \notin Copying
        BY <2>3, <2>6 DEF BaseKept
    <2> QED BY <2>1, <2>5, <2>6
<1> QED BY <1>2, <1>3

\* Every step keeps what is kept.
LEMMA KeptKept ==
    ASSUME ShapeInv, FilesInv, NamesInv, MergedInv, KeptInv, [Next]_vars
    PROVE  KeptInv'
<1>0. ProcShape /\ DOMAIN proc = Procs /\ TableShape(apps)
    BY DEF ShapeInv, ProcShape
<1>1. CASE UNCHANGED vars
    BY <1>1 DEF vars, db, KeptInv, BaseKept, SystemKept, OneBoots, Booting
<1>2. ASSUME NEW p \in Procs, Start(p) PROVE KeptInv'
    <2>1. /\ UNCHANGED apps
          /\ kept' = IF Nobody THEN kept ELSE {e \in kept : "base" \in DOMAIN apps /\ e \in apps["base"].draft}
          /\ \A q \in Procs \ {p} : proc'[q] = proc[q]
        BY <1>0, <1>2, BootShape DEF Start, db, Boot
    <2>2. proc'[p].pc \notin Copying
        BY <1>0, <1>2 DEF Start, Copying
    <2>3. CASE ~Nobody
        <3>1. ASSUME NEW e \in kept' PROVE ~Rewritten(e) /\ BaseKept(e)'
            <4>1. e \in kept /\ BaseHas(apps, e)
                BY <2>1, <2>3, <3>1 DEF BaseHas
            <4>2. ~Rewritten(e) /\ (BaseKept(e) \/ SystemKept(e))
                BY <4>1 DEF KeptInv
            <4>3. BaseKept(e)
                <5>1. CASE SystemKept(e)
                    BY <4>1, <5>1 DEF SystemKept, BaseKept, CopyHas, InSystem, InBase, Stands
                <5> QED BY <4>2, <5>1
            <4> QED BY <2>1, <2>2, <4>2, <4>3 DEF BaseKept
        <3>2. kept' \subseteq kept
            BY <2>1
        <3> QED BY <3>1, <3>2 DEF KeptInv
    <2>4. CASE Nobody
        <3>1. \A q \in Procs : ~Booting(q)
            BY <2>4 DEF Nobody
        <3>2. \A q \in Procs \ {p} : ~Booting(q)' /\ proc'[q].pc \notin Copying
            BY <2>1, <3>1 DEF Booting, Ended, Copying
        <3>3. OneBoots'
            BY <3>2 DEF OneBoots
        <3>4. \A e : (BaseKept(e) => BaseKept(e)') /\ (SystemKept(e) => SystemKept(e)')
            BY <2>1, <2>2, <3>2, <3>3 DEF BaseKept, SystemKept
        <3>5. kept' = kept
            BY <2>1, <2>4
        <3> QED BY <3>4, <3>5 DEF KeptInv
    <2> QED BY <2>3, <2>4
<1>3. ASSUME NEW p \in Procs, Exit(p) \/ Stop(p) PROVE KeptInv'
    <2>1. UNCHANGED <<apps, kept>> /\ proc' = [proc EXCEPT ![p] = Idle]
        BY <1>3 DEF Exit, Stop, db, Counters
    <2>2. proc'[p].pc = "down" /\ \A q \in Procs \ {p} : proc'[q] = proc[q]
        BY <1>0, <2>1, BootShape DEF Idle
    <2>3. proc'[p].pc \notin Copying /\ ~Booting(p)'
        BY <2>2 DEF Copying, Booting, Ended
    <2>4. \A q \in Procs : Booting(q)' => Booting(q) /\ q # p
        BY <2>2, <2>3 DEF Booting
    <2>5. \A e : (BaseKept(e) => BaseKept(e)') /\ (SystemKept(e) => SystemKept(e)')
        BY <2>1, <2>2, <2>3, <2>4 DEF BaseKept, SystemKept, OneBoots
    <2> QED BY <2>1, <2>5 DEF KeptInv
<1>4. ASSUME NEW p \in Procs, Works(p) PROVE KeptInv'
    <2>1. kept' = kept
        BY <1>4, Writers
    <2>2. \A q \in Procs \ {p} : proc'[q] = proc[q]
        BY <1>0, <1>4, BootShape DEF Works, Boot
    <2>3. \A e \in kept : ~Rewritten(e) /\ (BaseKept(e)' \/ SystemKept(e)')
        BY <1>4, <2>2, WorksKeep DEF KeptInv
    <2> QED BY <2>1, <2>3 DEF KeptInv
<1>5. CASE SaveDraft
    <2>1. PICK app \in DOMAIN apps, e \in SavedItems : Saves(app, e)
        BY <1>0, <1>5, SaveWrites
    <2>2. proc' = proc /\ "system" \notin DOMAIN apps
        <3>1. proc' = proc /\ Serving
            BY <1>5 DEF SaveDraft, Edited
        <3>2. PICK q \in Procs : proc[q].pc = "up"
            BY <3>1 DEF Serving, At
        <3> QED BY <3>1, <3>2 DEF MergedInv, Merging
    <2>3. /\ DOMAIN apps' = DOMAIN apps /\ apps'[app].draft = NewDraft(app, e) /\ kept' = NewKept(app, e)
          /\ \A b \in DOMAIN apps \ {app, TaskDefinition} : apps'[b] = apps[b]
        BY <2>1 DEF Saves
    <2>4. ASSUME NEW f \in kept, KeyOf(f) # KeyOf(e) PROVE ~Rewritten(f) /\ BaseKept(f)'
        <3>1. ~Rewritten(f) /\ BaseKept(f)
            BY <2>2 DEF KeptInv, SystemKept, InSystem
        <3>2. InBase(apps', f)
            <4>1. "base" \in DOMAIN apps /\ f \in apps["base"].draft
                BY <3>1 DEF BaseKept, InBase, BaseHas
            <4>2. f \in apps'["base"].draft
                <5>1. CASE app = "base"
                    <6>1. f \in Replacing(apps["base"].draft, e)
                        BY <2>4, <4>1 DEF Replacing
                    <6> QED BY <2>3, <5>1, <6>1 DEF NewDraft, Landed, WithLanding
                <5>2. CASE app # "base"
                    BY <2>3, <4>1, <5>2 DEF TaskDefinition
                <5> QED BY <5>1, <5>2
            <4> QED BY <2>2, <2>3, <4>1, <4>2 DEF InBase, BaseHas
        <3> QED BY <2>2, <3>1, <3>2 DEF BaseKept
    <2>5. ASSUME Nobody, e \in Edits, Lasting(app, e) PROVE ~Rewritten(e) /\ BaseKept(e)'
        <3>1. ~Rewritten(e) /\ app = "base"
            BY <2>2, <2>5 DEF Lasting, OwnApps
        <3>2. e \in apps'["base"].draft
            BY <2>3, <3>1 DEF NewDraft, Landed, WithLanding, Replacing
        <3>3. InBase(apps', e)
            BY <2>2, <2>3, <3>1, <3>2 DEF InBase, BaseHas
        <3>4. \A q \in Procs : proc'[q].pc \notin Copying
            BY <2>2, <2>5 DEF Nobody, Booting, Ended, Copying
        <3> QED BY <3>1, <3>3, <3>4 DEF BaseKept
    <2>6. \A f \in kept' : (f \in kept /\ KeyOf(f) # KeyOf(e)) \/ (f = e /\ Nobody /\ e \in Edits /\ Lasting(app, e))
        BY <2>3 DEF NewKept
    <2>7. kept' \subseteq Edits
        BY <2>6 DEF KeptInv
    <2> QED BY <2>4, <2>5, <2>6, <2>7 DEF KeptInv
<1>6. CASE PublishDraft
    <2>1. PICK app \in DOMAIN apps : Publishes(app)
        BY <1>0, <1>6, PublishWrites
    <2>2. DOMAIN apps' = DOMAIN apps /\ \A b \in DOMAIN apps : apps'[b].draft = apps[b].draft
        BY <2>1 DEF Publishes
    <2>3. UNCHANGED <<proc, kept>>
        BY <1>6 DEF PublishDraft, Edited
    <2>4. \A e, U : /\ InBase(apps, e) => InBase(apps', e)
                    /\ InSystem(apps, e) => InSystem(apps', e)
                    /\ CopyHas(apps, U, e) => CopyHas(apps', U, e)
        BY <2>2, SameKeeps
    <2>5. OneBoots => OneBoots'
        BY <2>3 DEF OneBoots, Booting
    <2>6. \A e : (BaseKept(e) => BaseKept(e)') /\ (SystemKept(e) => SystemKept(e)')
        BY <2>3, <2>4, <2>5 DEF BaseKept, SystemKept
    <2> QED BY <2>3, <2>6 DEF KeptInv
<1>7. CASE TouchRecord
    BY <1>7 DEF TouchRecord, Edited, KeptInv, BaseKept, SystemKept, OneBoots, Booting
<1> QED BY <1>1, <1>2, <1>3, <1>4, <1>5, <1>6, <1>7, BootCases DEF Next

\* EditsSurvive: an edit saved while nothing starts outlives the starts after it,
\* cut off anywhere; the merge carries it into the base app, or leaves it there
\* (composeOOTBBaseDefinition).
THEOREM EditsOutlive == Spec => []EditsSurvive
<1>1. Init => ShapeInv /\ FilesInv /\ NamesInv /\ MergedInv /\ KeptInv
    BY ShapeStarts, FilesStart, NamesStart, MergedStart, KeptStart
<1>2. ShapeInv /\ FilesInv /\ NamesInv /\ MergedInv /\ KeptInv /\ [Next]_vars
          => (ShapeInv /\ FilesInv /\ NamesInv /\ MergedInv /\ KeptInv)'
    BY ShapeKept, FilesKept, NamesKept, MergedKept, KeptKept
<1>3. KeptInv => EditsSurvive
    BY DEF KeptInv, BaseKept, SystemKept, InBase, BaseHas, InSystem, Unlabelled, EditsSurvive, OwnApps
<1> QED BY <1>1, <1>2, <1>3, PTL DEF Spec

-----------------------------------------------------------------------------
(* What the passes leave.                                                  *)

Matched(d, ph) == (\A t \in ph : Table(t) \in d /\ Old(t) \notin d) /\ (Landing \in d \/ OwnLanding \in d)
Modeled(d) == WorkOrders \notin d /\ Tasks \in d

\* What each pass removes, and that no other pass brings it back.
LEMMA PassesDrop ==
    ASSUME NEW d
    PROVE  /\ Legacy \notin Unscripted(d) /\ Open \notin Backfilled(d)
           /\ \A x \in {Legacy, Open} : x \notin d =>
                /\ x \notin Unscripted(d) /\ x \notin Backfilled(d) /\ x \notin Simplified(d) /\ x \notin Observed(d)
                /\ \A ph \in SUBSET SystemTables : x \notin WithLanding(WithPhysical(d, ph))
<1>1. Legacy \notin Unscripted(d) /\ Open \notin Backfilled(d)
    BY Apart DEF Unscripted, Backfilled
<1>2. ASSUME NEW x \in {Legacy, Open}, x \notin d
      PROVE  x \notin Unscripted(d) /\ x \notin Backfilled(d) /\ x \notin Simplified(d) /\ x \notin Observed(d)
    BY <1>2, Apart DEF Unscripted, Backfilled, Simplified, Observed
<1>3. ASSUME NEW x \in {Legacy, Open}, x \notin d, NEW ph \in SUBSET SystemTables
      PROVE  x \notin WithLanding(WithPhysical(d, ph))
    <2>1. x \notin WithPhysical(d, ph)
        BY <1>3, TablesApart DEF WithPhysical
    <2> QED BY <1>3, <2>1, Apart DEF WithLanding
<1> QED BY <1>1, <1>2, <1>3

\* What each pass makes sure of, and that later passes leave it so.
LEMMA PassesMatch ==
    ASSUME NEW d, NEW ph \in SUBSET SystemTables
    PROVE  /\ Matched(WithLanding(WithPhysical(d, ph)), ph)
           /\ Described(WithLanding(WithPhysical(d, ph))) \subseteq Described(d) \cup ph
           /\ Matched(d, ph) => Matched(Simplified(d), ph) /\ Matched(Observed(d), ph)
           /\ Modeled(Simplified(d)) /\ (Modeled(d) => Modeled(Observed(d)))
           /\ Observability \in Observed(d)
<1> DEFINE m == WithPhysical(d, ph)
<1>1. \A t \in ph : Table(t) \in m /\ Old(t) \notin m
    BY TablesApart DEF WithPhysical
<1>2. \A t \in SystemTables : Table(t) \in m \/ Old(t) \in m => t \in Described(d) \cup ph
    BY TablesApart DEF WithPhysical, Described
<1>3. \A t \in SystemTables : (Table(t) \in WithLanding(m) <=> Table(t) \in m) /\ (Old(t) \in WithLanding(m) <=> Old(t) \in m)
    BY TablesApart DEF WithLanding
<1>4. Landing \in WithLanding(m) \/ OwnLanding \in WithLanding(m)
    BY DEF WithLanding
<1>5. Matched(WithLanding(m), ph) /\ Described(WithLanding(m)) \subseteq Described(d) \cup ph
    <2> HIDE DEF m
    <2> QED BY <1>1, <1>2, <1>3, <1>4 DEF Matched, Described
<1>6. Matched(d, ph) => Matched(Simplified(d), ph) /\ Matched(Observed(d), ph)
    <2>1. \A t \in SystemTables : /\ Table(t) \in d => Table(t) \in Simplified(d) /\ Table(t) \in Observed(d)
                                  /\ Old(t) \notin d => Old(t) \notin Simplified(d) /\ Old(t) \notin Observed(d)
        BY TablesApart DEF Simplified, Observed
    <2>2. \A x \in {Landing, OwnLanding} : x \in d => x \in Simplified(d) /\ x \in Observed(d)
        BY Apart DEF Simplified, Observed
    <2> QED BY <2>1, <2>2 DEF Matched
<1>7. Modeled(Simplified(d)) /\ (Modeled(d) => Modeled(Observed(d))) /\ Observability \in Observed(d)
    BY Apart DEF Modeled, Simplified, Observed
<1> QED BY <1>5, <1>6, <1>7

\* The merge leaves nothing it would rewrite.
Ready(d) == \A i \in d : ~Rewritten(i)

\* What the merge makes of two definitions.
LEMMA ComposedSettles ==
    ASSUME NEW s, NEW b, Separate(s), NEW ph \in SUBSET SystemTables
    PROVE  /\ \A x \in {Legacy, Open} : x \notin s /\ x \notin b => x \notin Composed(s, b)
           /\ Described(Composed(s, b)) \subseteq Described(s) \cup Described(b)
           /\ Matched(s, ph) \/ (s = {} /\ Matched(b, ph)) => Matched(Composed(s, b), ph)
           /\ Modeled(b) => Modeled(Composed(s, b))
           /\ Observability \in b => Observability \in Composed(s, b)
           /\ Ready(Composed(s, b))
<1> DEFINE m == MergedByName(s, b)
<1>1. /\ \A i \in m : (i \in s \/ i \in b) /\ ~Rewritten(i)
      /\ \A i : i \in Unlabelled(s) /\ ~Rewritten(i) => i \in m
      /\ \A i : i \in b /\ ~Rewritten(i) /\ (\A x \in Unlabelled(s) : KeyOf(x) # KeyOf(i)) => i \in m
      /\ \A i \in m : i \in Unlabelled(s) \/ (i \in b /\ \A x \in Unlabelled(s) : KeyOf(x) # KeyOf(i))
    BY DEF MergedByName, Unlabelled
<1>a. /\ \A i \in {Tasks, Observability, Landing} : ~Rewritten(i)
      /\ \A t \in SystemTables : ~Rewritten(Table(t)) /\ Table(t)[1] # "label" /\ KeyOf(Table(t)) = KeyOf(Old(t))
    BY Keys DEF Rewritten, Tasks, Observability, Landing, Table
<1>b. WorkOrders \notin s
    BY Keys DEF Separate
<1>2. \A i \in {Tasks, Observability} : i \in b => i \in m
    BY <1>1, <1>a DEF Separate, Unlabelled
<1>3. Matched(s, ph) => \A t \in ph : Table(t) \in m /\ Old(t) \notin m
    <2> SUFFICES ASSUME Matched(s, ph), NEW t \in ph PROVE Table(t) \in m /\ Old(t) \notin m
        OBVIOUS
    <2>1. Table(t) \in s /\ Old(t) \notin s /\ t \in SystemTables
        BY DEF Matched
    <2>2. Table(t) \in Unlabelled(s) /\ Old(t) \notin Unlabelled(s)
        BY <1>a, <2>1 DEF Unlabelled
    <2> HIDE DEF m
    <2> QED BY <1>1, <1>a, <2>1, <2>2
<1>4. s = {} /\ Matched(b, ph) => \A t \in ph : Table(t) \in m /\ Old(t) \notin m
    <2> SUFFICES ASSUME s = {}, Matched(b, ph), NEW t \in ph PROVE Table(t) \in m /\ Old(t) \notin m
        OBVIOUS
    <2>1. Table(t) \in b /\ Old(t) \notin b /\ t \in SystemTables
        BY DEF Matched
    <2>2. Unlabelled(s) = {}
        BY DEF Unlabelled
    <2> HIDE DEF m
    <2> QED BY <1>1, <1>a, <2>1, <2>2
<1>5. Composed(s, b) = WithLanding(m)
    BY DEF Composed
<1> HIDE DEF m
<1>6. \A i : i # Landing => (i \in WithLanding(m) <=> i \in m)
    BY DEF WithLanding
<1>7. Landing \in WithLanding(m) \/ OwnLanding \in WithLanding(m)
    BY DEF WithLanding
<1>8. \A x \in {Legacy, Open} : x \notin s /\ x \notin b => x \notin WithLanding(m)
    BY <1>1, <1>6, Apart
<1>9. Described(WithLanding(m)) \subseteq Described(s) \cup Described(b)
    BY <1>1, <1>6, TablesApart DEF Described
<1>10. Matched(s, ph) \/ (s = {} /\ Matched(b, ph)) => Matched(WithLanding(m), ph)
    <2> SUFFICES ASSUME Matched(s, ph) \/ (s = {} /\ Matched(b, ph)) PROVE Matched(WithLanding(m), ph)
        OBVIOUS
    <2>1. \A t \in ph : Table(t) \in m /\ Old(t) \notin m
        BY <1>3, <1>4
    <2> QED BY <1>6, <1>7, <2>1, TablesApart DEF Matched
<1>11. Modeled(b) => Modeled(WithLanding(m))
    BY <1>1, <1>b, <1>2, <1>6, Apart DEF Modeled
<1>12. Observability \in b => Observability \in WithLanding(m)
    BY <1>2, <1>6, Apart
<1>13. Ready(WithLanding(m))
    BY <1>1, <1>6, <1>a DEF Ready
<1> QED BY <1>5, <1>8, <1>9, <1>10, <1>11, <1>12, <1>13

\* A definition that every pass is done with.
LEMMA NothingLeft ==
    ASSUME NEW d, NEW ph \in SUBSET SystemTables,
           Legacy \notin d, Open \notin d, Matched(d, ph), Modeled(d), Observability \in d, Ready(d)
    PROVE  /\ Backfilled(Unscripted(d)) = d /\ WithPhysical(d, ph) = d
           /\ Observed(Simplified(d)) = d /\ Composed({}, d) = d
<1>1. Backfilled(Unscripted(d)) = d
    BY DEF Unscripted, Backfilled
<1>2. WithPhysical(d, ph) = d
    BY DEF WithPhysical, Matched
<1>3. Observed(Simplified(d)) = d
    BY DEF Observed, Simplified, Modeled
<1>5. MergedByName({}, d) = d
    BY DEF MergedByName, Unlabelled, Ready
<1>6. WithLanding(d) = d
    BY DEF WithLanding, Matched
<1> QED BY <1>1, <1>2, <1>3, <1>5, <1>6 DEF Composed

-----------------------------------------------------------------------------
(* Definitions after a quiet start.                                        *)

\* The stages from which on a pass has been made.
Watching == Merging \cup {"composew", "compose"}
Modeling == Watching \cup {"obs", "obsw"}
Routed == Modeling \cup {"task", "taskw"}
Placing == Routed \cup {"landing"}
Describing == Placing \cup {"systemw"}
Closing == Describing \cup {"systemtables"}
Unscripting == Closing \cup {"rolesw"}
Reading == {"systemtables", "systemw", "taskw", "obsw", "composew", "pagesw"}

Lacks(row, x) == x \notin row.draft /\ x \notin row.published
Free(T, x) == \A a \in OwnApps : a \in DOMAIN T => Lacks(T[a], x)
Part(T, U, todo, x) == \A a \in OwnApps : a \in DOMAIN T => IF a \in todo THEN T[a] = U[a] ELSE Lacks(T[a], x)
Main(T) == T[SystemName(T)]
Facts(pc, T, ph, r) ==
    /\ pc \in Unscripting => Free(T, Legacy)
    /\ pc \in Closing => Free(T, Open)
    /\ pc \in Describing => Described(Main(T).published) \subseteq ph
    /\ pc \in Placing => Matched(Main(T).draft, ph) /\ Matched(Main(T).published, ph)
    /\ pc \in Routed => r # Null
    /\ pc \in Modeling => Modeled(T["base"].draft) /\ Modeled(T["base"].published)
    /\ pc \in Watching => Observability \in T["base"].draft /\ Observability \in T["base"].published
    /\ pc \in Merging => Ready(T["base"].draft) /\ Ready(T["base"].published)
CopyTells(s, T) ==
    /\ s.pc \in Reading => s.copy = T
    /\ s.pc = "legacyw" => Part(T, s.copy, s.todo, Legacy)
    /\ s.pc = "rolesw" => Part(T, s.copy, s.todo, Open)
DefsOK(s, T, ph, r) == CopyTells(s, T) /\ Facts(s.pc, T, ph, r)

\* A sync pass from an up-to-date copy leaves the definitions it computed.
LEMMA SyncSettles ==
    ASSUME NEW p, NEW app, NEW x, NEW y, NEW next, SyncApp(p, app, x, y, next),
           proc[p].copy = apps, app \in DOMAIN apps, TableShape(apps)
    PROVE  \/ Go(p, "refused")
           \/ /\ Go(p, next) /\ DOMAIN apps' = DOMAIN apps
              /\ apps'[app].draft = x /\ apps'[app].published = y
              /\ \A b \in DOMAIN apps \ {app, TaskDefinition} : apps'[b] = apps[b]
<1>1. CASE apps' = apps
    BY <1>1, SyncWrites, UpdateShape
<1>2. CASE apps' # apps
    <2>1. Go(p, "refused") \/ (Go(p, next) /\ apps' = Update(apps, app, x, y))
        BY <1>2, SyncWrites
    <2> QED BY <2>1, UpdateShape
<1> QED BY <1>1, <1>2

\* A row rewritten without a thing, in a table that is free of it or was up to here.
LEMMA FreeAfter ==
    ASSUME NEW T, NEW T2, NEW app, NEW z, Free(T, z), DOMAIN T2 = DOMAIN T,
           z \notin T2[app].draft, z \notin T2[app].published, \A b \in DOMAIN T \ {app, TaskDefinition} : T2[b] = T[b]
    PROVE  Free(T2, z)
BY DEF Free, Lacks, OwnApps, TaskDefinition

\* One app less to do.
LEMMA PartAfter ==
    ASSUME NEW T, NEW T2, NEW U, NEW todo, NEW app, NEW z, Part(T, U, todo, z), DOMAIN T2 = DOMAIN T,
           app \in OwnApps /\ app \in DOMAIN T => Lacks(T2[app], z), \A b \in DOMAIN T \ {app} : T2[b] = T[b]
    PROVE  Part(T2, U, todo \ {app}, z)
BY DEF Part

\* When no app is left the whole table is free of it.
LEMMA PartDone ==
    ASSUME NEW T, NEW U, NEW todo, todo = {}, NEW z, Part(T, U, todo, z)
    PROVE  Free(T, z)
BY DEF Part, Free

\* The facts are about the own apps.
LEMMA SameFacts ==
    ASSUME NEW T, NEW T2, NEW ph, NEW r, NEW pc, Facts(pc, T, ph, r), "base" \in DOMAIN T,
           \A a \in OwnApps : (a \in DOMAIN T2 <=> a \in DOMAIN T) /\ (a \in DOMAIN T => T2[a] = T[a])
    PROVE  Facts(pc, T2, ph, r)
<1>1. SystemName(T2) = SystemName(T) /\ SystemName(T) \in OwnApps /\ SystemName(T) \in DOMAIN T
    BY DEF SystemName, OwnApps
<1>2. Main(T2) = Main(T)
    BY <1>1 DEF Main
<1>3. \A x : Free(T, x) => Free(T2, x)
    BY DEF Free
<1>4. T2["base"] = T["base"]
    BY DEF OwnApps
<1> QED BY <1>2, <1>3, <1>4 DEF Facts

\* The two passes over all apps, app by app.
LEMMA LegacyStep ==
    ASSUME ShapeInv, NEW p \in Procs, WriteLegacy(p), DefsOK(proc[p], apps, physical, route)
    PROVE  DefsOK(proc'[p], apps', physical', route')
<1>0. ProcShape /\ DOMAIN proc = Procs /\ TableShape(apps)
    BY DEF ShapeInv, ProcShape
<1>1. PICK app \in proc[p].todo :
          /\ At(p, "legacyw") /\ Did(p, "legacyw", app)
          /\ \/ apps' = apps /\ app \notin DOMAIN apps
             \/ apps' = apps /\ Unscripted(proc[p].copy[app].draft) = proc[p].copy[app].draft
                             /\ Unscripted(proc[p].copy[app].published) = proc[p].copy[app].published
             \/ /\ DOMAIN apps' = DOMAIN apps
                /\ apps'[app].draft = Unscripted(proc[p].copy[app].draft)
                /\ apps'[app].published = Unscripted(proc[p].copy[app].published)
                /\ \A b \in DOMAIN apps \ {app} : apps'[b] = apps[b]
    BY <1>0, LegacyRewrites DEF Rewrites
<1>2. proc'[p] = [pc |-> "legacyw", build |-> proc[p].build, copy |-> proc[p].copy, todo |-> proc[p].todo \ {app}]
    BY <1>0, <1>1 DEF Did, Turn
<1>3. Part(apps, proc[p].copy, proc[p].todo, Legacy)
    BY <1>1 DEF DefsOK, CopyTells, At
<1>4. app \in OwnApps /\ app \in DOMAIN apps => Lacks(apps'[app], Legacy)
    <2> SUFFICES ASSUME app \in OwnApps, app \in DOMAIN apps PROVE Lacks(apps'[app], Legacy)
        OBVIOUS
    <2>1. apps[app] = proc[p].copy[app]
        BY <1>1, <1>3 DEF Part
    <2>2. apps'[app].draft = Unscripted(proc[p].copy[app].draft) /\ apps'[app].published = Unscripted(proc[p].copy[app].published)
        BY <1>1, <2>1
    <2> QED BY <2>2, PassesDrop DEF Lacks
<1>5. DOMAIN apps' = DOMAIN apps /\ \A b \in DOMAIN apps \ {app} : apps'[b] = apps[b]
    BY <1>1
<1>6. Part(apps', proc[p].copy, proc[p].todo \ {app}, Legacy)
    BY <1>3, <1>4, <1>5, PartAfter
<1> QED BY <1>2, <1>6 DEF DefsOK, CopyTells, Facts, Reading, Unscripting, Closing, Describing, Placing, Routed, Modeling, Watching, Merging

\* The second pass, over entry points without roles.
LEMMA RolesStep ==
    ASSUME ShapeInv, NEW p \in Procs, WriteRoles(p), DefsOK(proc[p], apps, physical, route)
    PROVE  DefsOK(proc'[p], apps', physical', route')
<1>0. ProcShape /\ DOMAIN proc = Procs /\ TableShape(apps)
    BY DEF ShapeInv, ProcShape
<1>1. PICK app \in proc[p].todo :
          /\ At(p, "rolesw") /\ Did(p, "rolesw", app)
          /\ \/ apps' = apps /\ app \notin DOMAIN apps
             \/ apps' = apps /\ Backfilled(proc[p].copy[app].draft) = proc[p].copy[app].draft
                             /\ Backfilled(proc[p].copy[app].published) = proc[p].copy[app].published
             \/ /\ DOMAIN apps' = DOMAIN apps
                /\ apps'[app].draft = Backfilled(proc[p].copy[app].draft)
                /\ apps'[app].published = Backfilled(proc[p].copy[app].published)
                /\ \A b \in DOMAIN apps \ {app} : apps'[b] = apps[b]
    BY <1>0, RolesRewrites DEF Rewrites
<1>2. proc'[p] = [pc |-> "rolesw", build |-> proc[p].build, copy |-> proc[p].copy, todo |-> proc[p].todo \ {app}]
    BY <1>0, <1>1 DEF Did, Turn
<1>3. Part(apps, proc[p].copy, proc[p].todo, Open) /\ Free(apps, Legacy)
    BY <1>1 DEF DefsOK, CopyTells, Facts, Unscripting, At
<1>4. app \in OwnApps /\ app \in DOMAIN apps => Lacks(apps'[app], Open) /\ Lacks(apps'[app], Legacy)
    <2> SUFFICES ASSUME app \in OwnApps, app \in DOMAIN apps PROVE Lacks(apps'[app], Open) /\ Lacks(apps'[app], Legacy)
        OBVIOUS
    <2>1. apps[app] = proc[p].copy[app] /\ Lacks(apps[app], Legacy)
        BY <1>1, <1>3 DEF Part, Free
    <2>2. apps'[app].draft = Backfilled(proc[p].copy[app].draft) /\ apps'[app].published = Backfilled(proc[p].copy[app].published)
        BY <1>1, <2>1
    <2> QED BY <2>1, <2>2, PassesDrop DEF Lacks
<1>5. DOMAIN apps' = DOMAIN apps /\ \A b \in DOMAIN apps \ {app} : apps'[b] = apps[b]
    BY <1>1
<1>6. Part(apps', proc[p].copy, proc[p].todo \ {app}, Open)
    BY <1>3, <1>4, <1>5, PartAfter
<1>7. Free(apps', Legacy)
    BY <1>3, <1>4, <1>5 DEF Free
<1> QED BY <1>2, <1>6, <1>7 DEF DefsOK, CopyTells, Facts, Reading, Unscripting, Closing, Describing, Placing, Routed, Modeling, Watching, Merging

\* The system app and the tables there are.
LEMMA SystemStep ==
    ASSUME ShapeInv, NamesInv, "base" \in DOMAIN apps, NEW p \in Procs, WriteSystem(p),
           DefsOK(proc[p], apps, physical, route)
    PROVE  DefsOK(proc'[p], apps', physical', route')
<1>0. ProcShape /\ DOMAIN proc = Procs /\ TableShape(apps) /\ physical \in SUBSET SystemTables
    BY DEF ShapeInv, ProcShape, NamesInv
<1> DEFINE app == SystemName(apps)
           x == WithLanding(WithPhysical(apps[app].draft, physical))
           y == WithLanding(WithPhysical(apps[app].published, physical))
<1>1. At(p, "systemw") /\ UNCHANGED <<physical, route>>
    BY DEF WriteSystem, Apps
<1>2. /\ proc[p].copy = apps /\ Free(apps, Legacy) /\ Free(apps, Open)
      /\ Described(apps[app].published) \subseteq physical
    BY <1>1 DEF DefsOK, CopyTells, Facts, Reading, Unscripting, Closing, Describing, Main, At
<1>3. app \in DOMAIN apps /\ app \in OwnApps
    BY DEF SystemName, OwnApps
<1>4. SyncApp(p, app, x, y, "landing")
    BY <1>2 DEF WriteSystem
<1>5. /\ Legacy \notin x /\ Legacy \notin y /\ Open \notin x /\ Open \notin y
      /\ Described(y) \subseteq physical /\ Matched(x, physical) /\ Matched(y, physical)
    <2>1. Lacks(apps[app], Legacy) /\ Lacks(apps[app], Open)
        BY <1>2, <1>3 DEF Free
    <2>2. Legacy \notin x /\ Legacy \notin y /\ Open \notin x /\ Open \notin y
        BY <1>0, <2>1, PassesDrop DEF Lacks
    <2> QED BY <1>0, <1>2, <2>2, PassesMatch
<1>a. app = SystemName(apps)
    OBVIOUS
<1> HIDE DEF app, x, y
<1>6. CASE Go(p, "refused")
    <2>1. proc'[p].pc = "refused"
        BY <1>0, <1>6 DEF Go, Turn
    <2> QED BY <2>1 DEF DefsOK, CopyTells, Facts, Reading, Unscripting, Closing, Describing, Placing, Routed, Modeling, Watching, Merging
<1>7. CASE /\ Go(p, "landing") /\ DOMAIN apps' = DOMAIN apps
           /\ apps'[app].draft = x /\ apps'[app].published = y
           /\ \A b \in DOMAIN apps \ {app, TaskDefinition} : apps'[b] = apps[b]
    <2>1. proc'[p].pc = "landing"
        BY <1>0, <1>7 DEF Go, Turn
    <2>2. Free(apps', Legacy) /\ Free(apps', Open)
        BY <1>2, <1>5, <1>7, FreeAfter
    <2>3. Main(apps') = apps'[app]
        BY <1>a, <1>7 DEF Main, SystemName
    <2> QED BY <1>1, <1>5, <1>7, <2>1, <2>2, <2>3
        DEF DefsOK, CopyTells, Facts, Reading, Unscripting, Closing, Describing, Placing, Routed, Modeling, Watching, Merging
<1> QED BY <1>0, <1>2, <1>3, <1>4, <1>6, <1>7, SyncSettles

\* The task model.
LEMMA TaskStep ==
    ASSUME ShapeInv, NamesInv, "base" \in DOMAIN apps, NEW p \in Procs, WriteTask(p),
           DefsOK(proc[p], apps, physical, route)
    PROVE  DefsOK(proc'[p], apps', physical', route')
<1>0. ProcShape /\ DOMAIN proc = Procs /\ TableShape(apps) /\ physical \in SUBSET SystemTables
    BY DEF ShapeInv, ProcShape, NamesInv
<1> DEFINE x == Simplified(apps["base"].draft)
           y == Simplified(apps["base"].published)
<1>1. At(p, "taskw") /\ UNCHANGED <<physical, route>>
    BY DEF WriteTask, WriteBase, Apps
<1>2. /\ proc[p].copy = apps /\ Free(apps, Legacy) /\ Free(apps, Open)
      /\ Described(Main(apps).published) \subseteq physical
      /\ Matched(Main(apps).draft, physical) /\ Matched(Main(apps).published, physical) /\ route # Null
    BY <1>1 DEF DefsOK, CopyTells, Facts, Reading, Unscripting, Closing, Describing, Placing, Routed, At
<1>3. SyncApp(p, "base", x, y, "obs")
    BY <1>2 DEF WriteTask, WriteBase
<1>4. Legacy \notin x /\ Legacy \notin y /\ Open \notin x /\ Open \notin y
    <2>1. Lacks(apps["base"], Legacy) /\ Lacks(apps["base"], Open)
        BY <1>2 DEF Free, OwnApps
    <2> QED BY <2>1, PassesDrop DEF Lacks
<1>5. /\ Described(y) = Described(apps["base"].published) /\ Modeled(x) /\ Modeled(y)
      /\ Matched(apps["base"].draft, physical) => Matched(x, physical)
      /\ Matched(apps["base"].published, physical) => Matched(y, physical)
    BY <1>0, PassesMatch, PassesDescribe
<1> HIDE DEF x, y
<1>6. CASE Go(p, "refused")
    <2>1. proc'[p].pc = "refused"
        BY <1>0, <1>6 DEF Go, Turn
    <2> QED BY <2>1 DEF DefsOK, CopyTells, Facts, Reading, Unscripting, Closing, Describing, Placing, Routed, Modeling, Watching, Merging
<1>7. CASE /\ Go(p, "obs") /\ DOMAIN apps' = DOMAIN apps
           /\ apps'["base"].draft = x /\ apps'["base"].published = y
           /\ \A b \in DOMAIN apps \ {"base", TaskDefinition} : apps'[b] = apps[b]
    <2>1. proc'[p].pc = "obs"
        BY <1>0, <1>7 DEF Go, Turn
    <2>2. Free(apps', Legacy) /\ Free(apps', Open)
        BY <1>2, <1>4, <1>7, FreeAfter
    <2>3. /\ Described(Main(apps').published) \subseteq physical
          /\ Matched(Main(apps').draft, physical) /\ Matched(Main(apps').published, physical)
        <3>1. CASE "system" \in DOMAIN apps
            BY <1>2, <1>7, <3>1 DEF Main, SystemName, TaskDefinition
        <3>2. CASE "system" \notin DOMAIN apps
            BY <1>2, <1>5, <1>7, <3>2 DEF Main, SystemName, TaskDefinition
        <3> QED BY <3>1, <3>2
    <2> QED BY <1>1, <1>2, <1>5, <1>7, <2>1, <2>2, <2>3
        DEF DefsOK, CopyTells, Facts, Reading, Unscripting, Closing, Describing, Placing, Routed, Modeling, Watching, Merging
<1> QED BY <1>0, <1>2, <1>3, <1>6, <1>7, SyncSettles

\* The observability of the base app.
LEMMA ObservabilityStep ==
    ASSUME ShapeInv, NamesInv, "base" \in DOMAIN apps, NEW p \in Procs, WriteObservability(p),
           DefsOK(proc[p], apps, physical, route)
    PROVE  DefsOK(proc'[p], apps', physical', route')
<1>0. ProcShape /\ DOMAIN proc = Procs /\ TableShape(apps) /\ physical \in SUBSET SystemTables
    BY DEF ShapeInv, ProcShape, NamesInv
<1> DEFINE x == Observed(apps["base"].draft)
           y == Observed(apps["base"].published)
<1>1. At(p, "obsw") /\ UNCHANGED <<physical, route>>
    BY DEF WriteObservability, WriteBase, Apps
<1>2. /\ proc[p].copy = apps /\ Free(apps, Legacy) /\ Free(apps, Open)
      /\ Described(Main(apps).published) \subseteq physical
      /\ Matched(Main(apps).draft, physical) /\ Matched(Main(apps).published, physical) /\ route # Null
      /\ Modeled(apps["base"].draft) /\ Modeled(apps["base"].published)
    BY <1>1 DEF DefsOK, CopyTells, Facts, Reading, Unscripting, Closing, Describing, Placing, Routed, Modeling, At
<1>3. SyncApp(p, "base", x, y, "compose")
    BY <1>2 DEF WriteObservability, WriteBase
<1>4. Legacy \notin x /\ Legacy \notin y /\ Open \notin x /\ Open \notin y
    <2>1. Lacks(apps["base"], Legacy) /\ Lacks(apps["base"], Open)
        BY <1>2 DEF Free, OwnApps
    <2> QED BY <2>1, PassesDrop DEF Lacks
<1>5. /\ Described(y) = Described(apps["base"].published) /\ Modeled(x) /\ Modeled(y)
      /\ Observability \in x /\ Observability \in y
      /\ Matched(apps["base"].draft, physical) => Matched(x, physical)
      /\ Matched(apps["base"].published, physical) => Matched(y, physical)
    BY <1>0, <1>2, PassesMatch, PassesDescribe
<1> HIDE DEF x, y
<1>6. CASE Go(p, "refused")
    <2>1. proc'[p].pc = "refused"
        BY <1>0, <1>6 DEF Go, Turn
    <2> QED BY <2>1 DEF DefsOK, CopyTells, Facts, Reading, Unscripting, Closing, Describing, Placing, Routed, Modeling, Watching, Merging
<1>7. CASE /\ Go(p, "compose") /\ DOMAIN apps' = DOMAIN apps
           /\ apps'["base"].draft = x /\ apps'["base"].published = y
           /\ \A b \in DOMAIN apps \ {"base", TaskDefinition} : apps'[b] = apps[b]
    <2>1. proc'[p].pc = "compose"
        BY <1>0, <1>7 DEF Go, Turn
    <2>2. Free(apps', Legacy) /\ Free(apps', Open)
        BY <1>2, <1>4, <1>7, FreeAfter
    <2>3. /\ Described(Main(apps').published) \subseteq physical
          /\ Matched(Main(apps').draft, physical) /\ Matched(Main(apps').published, physical)
        <3>1. CASE "system" \in DOMAIN apps
            BY <1>2, <1>7, <3>1 DEF Main, SystemName, TaskDefinition
        <3>2. CASE "system" \notin DOMAIN apps
            BY <1>2, <1>5, <1>7, <3>2 DEF Main, SystemName, TaskDefinition
        <3> QED BY <3>1, <3>2
    <2> QED BY <1>1, <1>2, <1>5, <1>7, <2>1, <2>2, <2>3
        DEF DefsOK, CopyTells, Facts, Reading, Unscripting, Closing, Describing, Placing, Routed, Modeling, Watching, Merging
<1> QED BY <1>0, <1>2, <1>3, <1>6, <1>7, SyncSettles

\* System and base become one app.
LEMMA MergeStep ==
    ASSUME ShapeInv, NamesInv, MergedInv, "base" \in DOMAIN apps, NEW p \in Procs, WriteOOTB(p),
           DefsOK(proc[p], apps, physical, route)
    PROVE  DefsOK(proc'[p], apps', physical', route')
<1>0. ProcShape /\ DOMAIN proc = Procs /\ TableShape(apps) /\ physical \in SUBSET SystemTables
    BY DEF ShapeInv, ProcShape, NamesInv
<1>1. At(p, "composew") /\ UNCHANGED <<physical, route>>
    BY DEF WriteOOTB, Apps
<1>2. /\ proc[p].copy = apps /\ Free(apps, Legacy) /\ Free(apps, Open)
      /\ Described(Main(apps).published) \subseteq physical
      /\ Matched(Main(apps).draft, physical) /\ Matched(Main(apps).published, physical) /\ route # Null
      /\ Modeled(apps["base"].draft) /\ Modeled(apps["base"].published)
      /\ Observability \in apps["base"].draft /\ Observability \in apps["base"].published
    BY <1>1 DEF DefsOK, CopyTells, Facts, Reading, Unscripting, Closing, Describing, Placing, Routed, Modeling, Watching, At
<1> DEFINE x == ComposedBase(p, "draft")
           y == ComposedBase(p, "published")
           sx == SystemOf(p, "draft")
           sy == SystemOf(p, "published")
<1>3. /\ x = Composed(sx, apps["base"].draft) /\ y = Composed(sy, apps["base"].published)
      /\ sx = IF "system" \in DOMAIN apps THEN apps["system"].draft ELSE {}
      /\ sy = IF "system" \in DOMAIN apps THEN apps["system"].published ELSE {}
    BY <1>2 DEF ComposedBase, SystemOf
<1>a. x = ComposedBase(p, "draft") /\ y = ComposedBase(p, "published")
    OBVIOUS
<1> HIDE DEF x, y, sx, sy
<1>4. /\ \A z \in {Legacy, Open} : z \notin sx /\ z \notin sy /\ z \notin apps["base"].draft /\ z \notin apps["base"].published
      /\ Separate(sx) /\ Separate(sy)
    <2>1. \A z \in {Legacy, Open} : Lacks(apps["base"], z) /\ ("system" \in DOMAIN apps => Lacks(apps["system"], z))
        BY <1>2 DEF Free, OwnApps
    <2>2. "system" \in DOMAIN apps => Separate(apps["system"].draft) /\ Separate(apps["system"].published)
        BY DEF MergedInv, Sane
    <2>3. Separate({})
        BY DEF Separate
    <2> QED BY <1>3, <2>1, <2>2, <2>3 DEF Lacks
<1>5. Described(sy) \cup Described(apps["base"].published) \subseteq physical
    <2>1. CASE "system" \in DOMAIN apps
        <3>1. Described(apps["base"].published) \subseteq physical
            BY <2>1 DEF MergedInv, Unmerged, Covered
        <3> QED BY <1>2, <1>3, <2>1, <3>1 DEF Main, SystemName
    <2>2. CASE "system" \notin DOMAIN apps
        <3>1. Described({}) = {}
            BY DEF Described
        <3> QED BY <1>2, <1>3, <2>2, <3>1 DEF Main, SystemName
    <2> QED BY <2>1, <2>2
<1>6. /\ Matched(sx, physical) \/ (sx = {} /\ Matched(apps["base"].draft, physical))
      /\ Matched(sy, physical) \/ (sy = {} /\ Matched(apps["base"].published, physical))
    BY <1>2, <1>3 DEF Main, SystemName
<1>7. /\ Legacy \notin x /\ Open \notin x /\ Matched(x, physical) /\ Modeled(x) /\ Observability \in x
      /\ Legacy \notin y /\ Open \notin y /\ Matched(y, physical) /\ Modeled(y) /\ Observability \in y
      /\ Described(y) \subseteq physical /\ Ready(x) /\ Ready(y)
    BY <1>0, <1>2, <1>3, <1>4, <1>5, <1>6, ComposedSettles
<1>8. CASE Go(p, "refused")
    <2>1. proc'[p].pc = "refused"
        BY <1>0, <1>8 DEF Go, Turn
    <2> QED BY <2>1 DEF DefsOK, CopyTells, Facts, Reading, Unscripting, Closing, Describing, Placing, Routed, Modeling, Watching, Merging
<1>9. CASE ~Go(p, "refused")
    <2>1. /\ Go(p, "landing2")
          /\ DOMAIN apps' = DOMAIN apps \ {"system"}
          /\ apps'["base"].draft = x /\ apps'["base"].published = y
        <3>1. DOMAIN apps' = IF "system" \in DOMAIN proc[p].copy THEN DOMAIN apps \ {"system"} ELSE DOMAIN apps
            BY <1>0, <1>9, OOTBWrites
        <3> QED BY <1>0, <1>2, <1>9, <1>a, <3>1, OOTBWrites
    <2>2. proc'[p].pc = "landing2"
        BY <1>0, <2>1 DEF Go, Turn
    <2>3. Main(apps') = apps'["base"]
        BY <2>1 DEF Main, SystemName
    <2>4. Free(apps', Legacy) /\ Free(apps', Open)
        BY <1>7, <2>1 DEF Free, Lacks, OwnApps
    <2> QED BY <1>1, <1>2, <1>7, <2>1, <2>2, <2>3, <2>4
        DEF DefsOK, CopyTells, Facts, Reading, Unscripting, Closing, Describing, Placing, Routed, Modeling, Watching, Merging
<1> QED BY <1>8, <1>9

\* Where the steps after the merge lead.
LEMMA MergedPlaces ==
    ASSUME NEW p \in Procs, ProcShape,
           \/ OOTBLanding(p) \/ ReadBundled(p) \/ UpsertBundled(p) \/ SeedBundled(p) \/ UpsertedAll(p) \/ ReadPruned(p) \/ PruneBundled(p)
           \/ SaveRegistry(p) \/ ReadPages(p) \/ WritePages(p) \/ LookForUsers(p) \/ CreateFirstUser(p) \/ HelperUser(p)
    PROVE  /\ proc'[p].pc \in Merging \cup {"refused", "failed"} /\ proc'[p].build = proc[p].build
           /\ proc'[p].pc \in {"upsert", "seed"} => ReadBundled(p) \/ UpsertBundled(p) \/ SeedBundled(p)
           /\ proc'[p].pc = "seed" => UpsertBundled(p)
           /\ proc'[p].pc \in {"prune", "prunew"} => UpsertedAll(p) \/ ReadPruned(p) \/ PruneBundled(p)
           /\ proc'[p].pc \in {"pages", "pagesw", "first", "firstw", "up"} =>
                SaveRegistry(p) \/ ReadPages(p) \/ WritePages(p) \/ LookForUsers(p) \/ CreateFirstUser(p) \/ HelperUser(p)
           /\ proc'[p].pc = "pagesw" => ReadPages(p)
           /\ proc'[p].pc \in {"first", "firstw", "up"} =>
                ReadPages(p) \/ WritePages(p) \/ LookForUsers(p) \/ CreateFirstUser(p) \/ HelperUser(p)
<1>0. DOMAIN proc = Procs
    BY DEF ProcShape
<1> USE DEF Go, Copy, Did, Turn, Done, At, Merging
<1>1. CASE OOTBLanding(p)
    BY <1>0, <1>1 DEF OOTBLanding, ShowLanding
<1>2. CASE ReadBundled(p)
    BY <1>0, <1>2 DEF ReadBundled
<1>3. CASE UpsertBundled(p)
    BY <1>0, <1>3 DEF UpsertBundled
<1>4. CASE SeedBundled(p)
    BY <1>0, <1>4 DEF SeedBundled
<1>5. CASE UpsertedAll(p)
    BY <1>0, <1>5 DEF UpsertedAll
<1>6. CASE PruneBundled(p)
    <2>1. \E copy, todo : Turn(p, "prune", copy, todo)
        BY <1>6 DEF PruneBundled
    <2> QED BY <1>0, <1>6, <2>1
<1>13. CASE ReadPruned(p)
    <2>1. \/ \E app : Did(p, "prune", app)
          \/ Go(p, "refused")
          \/ \E copy, todo : Turn(p, "prunew", copy, todo)
        BY <1>13 DEF ReadPruned
    <2> QED BY <1>0, <1>13, <2>1
<1>7. CASE SaveRegistry(p)
    BY <1>0, <1>7 DEF SaveRegistry
<1>8. CASE ReadPages(p)
    BY <1>0, <1>8 DEF ReadPages, ReadBase
<1>9. CASE WritePages(p)
    BY <1>0, <1>9 DEF WritePages
<1>10. CASE LookForUsers(p)
    BY <1>0, <1>10 DEF LookForUsers
<1>11. CASE CreateFirstUser(p)
    BY <1>0, <1>11 DEF CreateFirstUser
<1>12. CASE HelperUser(p)
    BY <1>0, <1>12 DEF HelperUser
<1> QED BY <1>1, <1>2, <1>3, <1>4, <1>5, <1>6, <1>7, <1>8, <1>9, <1>10, <1>11, <1>12, <1>13

\* The steps that leave the definitions as they are.
LEMMA DefsStep ==
    ASSUME ShapeInv, FilesInv, NamesInv, MergedInv, NEW p \in Procs, Works(p), DefsOK(proc[p], apps, physical, route)
    PROVE  DefsOK(proc'[p], apps', physical', route')
<1>0. ProcShape /\ DOMAIN proc = Procs /\ TableShape(apps)
    BY DEF ShapeInv, ProcShape
<1>a. ASSUME proc'[p].pc \notin Unscripting \cup Reading \cup {"legacyw"}
      PROVE  DefsOK(proc'[p], apps', physical', route')
    BY <1>a DEF DefsOK, CopyTells, Facts, Reading, Unscripting, Closing, Describing, Placing, Routed, Modeling, Watching, Merging
<1>b. proc[p].pc \in Migrated => "base" \in DOMAIN apps
    BY BaseThere
<1>1. CASE Verify(p) \/ ApplyMigration(p) \/ After042(p)
    <2>1. proc'[p].pc \in {"failed", "migrate", "after042"}
        BY <1>0, <1>1 DEF Verify, ApplyMigration, After042, Go, Did, Turn
    <2> QED BY <1>a, <2>1 DEF Reading, Unscripting, Closing, Describing, Placing, Routed, Modeling, Watching, Merging
<1>2. CASE ReadLegacy(p)
    <2>1. /\ proc'[p] = [pc |-> "legacyw", build |-> proc[p].build, copy |-> apps, todo |-> DOMAIN apps]
          /\ apps' = apps
        BY <1>0, <1>2 DEF ReadLegacy, Turn, db
    <2>2. Part(apps, apps, DOMAIN apps, Legacy)
        BY DEF Part
    <2> QED BY <2>1, <2>2 DEF DefsOK, CopyTells, Facts, Reading, Unscripting, Closing, Describing, Placing, Routed, Modeling, Watching, Merging
<1>3. CASE ReadRoles(p)
    <2>1. /\ proc'[p] = [pc |-> "rolesw", build |-> proc[p].build, copy |-> apps, todo |-> DOMAIN apps]
          /\ apps' = apps /\ proc[p].pc = "legacyw" /\ proc[p].todo = {}
        BY <1>0, <1>3 DEF ReadRoles, Turn, db, Done, At
    <2>2. Part(apps, apps, DOMAIN apps, Open)
        BY DEF Part
    <2>3. Free(apps, Legacy)
        BY <2>1, PartDone DEF DefsOK, CopyTells
    <2> QED BY <2>1, <2>2, <2>3 DEF DefsOK, CopyTells, Facts, Reading, Unscripting, Closing, Describing, Placing, Routed, Modeling, Watching, Merging
<1>4. CASE ReadSystem(p)
    <2>1. proc[p].pc = "rolesw" /\ proc[p].todo = {} /\ apps' = apps
        BY <1>4 DEF ReadSystem, Done, At, db
    <2>2. SystemName(apps) \in DOMAIN apps
        BY <1>b, <2>1 DEF SystemName, Migrated, Migrating, Stages
    <2>3. Go(p, "refused") \/ Copy(p, "systemtables")
        BY <1>4, <2>2 DEF ReadSystem
    <2>4. proc'[p].pc = "refused" \/ (proc'[p].pc = "systemtables" /\ proc'[p].copy = apps)
        BY <1>0, <2>3 DEF Go, Copy, Turn
    <2>5. Free(apps, Open) /\ Free(apps, Legacy)
        BY <2>1, PartDone DEF DefsOK, CopyTells, Facts, Unscripting
    <2> QED BY <2>1, <2>4, <2>5 DEF DefsOK, CopyTells, Facts, Reading, Unscripting, Closing, Describing, Placing, Routed, Modeling, Watching, Merging
<1>5. CASE CreateSystemTables(p)
    <2>0. CASE ~Listable(apps)
        <3>1. proc'[p].pc = "refused"
            BY <1>0, <1>5, <2>0 DEF CreateSystemTables, Go, Turn
        <3> QED BY <1>a, <3>1 DEF Reading, Unscripting, Closing, Describing, Placing, Routed, Modeling, Watching, Merging
    <2> SUFFICES ASSUME Listable(apps) PROVE DefsOK(proc'[p], apps', physical', route')
        BY <2>0
    <2>1. /\ proc[p].pc = "systemtables" /\ proc'[p].pc = "systemw" /\ proc'[p].copy = proc[p].copy
          /\ physical' = physical \cup Described(proc[p].copy[SystemName(proc[p].copy)].published)
          /\ apps' = apps
        BY <1>0, <1>5 DEF CreateSystemTables, Go, Turn, At
    <2>2. proc[p].copy = apps /\ Free(apps, Open) /\ Free(apps, Legacy)
        BY <2>1 DEF DefsOK, CopyTells, Facts, Reading, Unscripting, Closing
    <2>3. Described(Main(apps).published) \subseteq physical'
        BY <2>1, <2>2 DEF Main
    <2> QED BY <2>1, <2>2, <2>3 DEF DefsOK, CopyTells, Facts, Reading, Unscripting, Closing, Describing, Placing, Routed, Modeling, Watching, Merging
<1>6. CASE SystemLanding(p)
    <2>1. /\ proc[p].pc = "landing" /\ proc'[p].pc = "task" /\ UNCHANGED <<apps, physical>>
          /\ route' = RouteAfter(route)
        BY <1>0, <1>6 DEF SystemLanding, ShowLanding, Go, Turn, At
    <2>2. route' # Null
        BY <2>1, NullAssumption DEF RouteAfter
    <2>3. Facts("landing", apps, physical, route)
        BY <2>1 DEF DefsOK
    <2> QED BY <2>1, <2>2, <2>3 DEF DefsOK, CopyTells, Facts, Reading, Unscripting, Closing, Describing, Placing, Routed, Modeling, Watching, Merging
<1>7. CASE ReadTask(p) \/ ReadObservability(p) \/ ReadOOTB(p)
    <2>1. /\ \/ proc[p].pc = "task" /\ ReadBase(p, "task", "taskw", "obs")
             \/ proc[p].pc = "obs" /\ ReadBase(p, "obs", "obsw", "compose")
             \/ proc[p].pc = "compose" /\ ReadBase(p, "compose", "composew", "bundled")
          /\ UNCHANGED <<apps, physical, route>>
        BY <1>7 DEF ReadTask, ReadObservability, ReadOOTB, ReadBase, At, db
    <2>2. "base" \in DOMAIN apps
        BY <1>b, <2>1 DEF Migrated, Migrating, Stages
    <2>3. \/ Go(p, "refused")
          \/ proc[p].pc = "task" /\ Copy(p, "taskw")
          \/ proc[p].pc = "obs" /\ Copy(p, "obsw")
          \/ proc[p].pc = "compose" /\ Copy(p, "composew")
        BY <2>1, <2>2 DEF ReadBase
    <2>4. \/ proc'[p].pc = "refused"
          \/ /\ proc'[p].copy = apps
             /\ \/ proc[p].pc = "task" /\ proc'[p].pc = "taskw"
                \/ proc[p].pc = "obs" /\ proc'[p].pc = "obsw"
                \/ proc[p].pc = "compose" /\ proc'[p].pc = "composew"
        BY <1>0, <2>3 DEF Go, Copy, Turn
    <2>5. Facts(proc[p].pc, apps, physical, route)
        BY DEF DefsOK
    <2>6. Facts(proc'[p].pc, apps, physical, route)
        BY <2>4, <2>5 DEF Facts, Unscripting, Closing, Describing, Placing, Routed, Modeling, Watching, Merging
    <2>7. CopyTells(proc'[p], apps)
        BY <2>4 DEF CopyTells, Reading
    <2> QED BY <2>1, <2>6, <2>7 DEF DefsOK
<1>8. CASE \/ OOTBLanding(p) \/ ReadBundled(p) \/ SeedBundled(p) \/ UpsertedAll(p) \/ SaveRegistry(p)
           \/ ReadPages(p) \/ WritePages(p) \/ LookForUsers(p) \/ CreateFirstUser(p) \/ HelperUser(p)
           \/ UpsertBundled(p) \/ ReadPruned(p) \/ PruneBundled(p)
    <2>1. proc[p].pc \in Merging
        BY <1>8 DEF OOTBLanding, ReadBundled, SeedBundled, UpsertedAll, SaveRegistry, ReadPages, WritePages, ReadBase,
                    LookForUsers, CreateFirstUser, HelperUser, UpsertBundled, ReadPruned, PruneBundled, Done, At, Merging
    <2>2. "base" \in DOMAIN apps /\ physical' = physical
        <3>1. physical' = physical
            BY <1>8, Writers, <2>1 DEF ApplyMigration, After042, CreateSystemTables, At, Merging
        <3> QED BY <1>b, <2>1, <3>1 DEF Merging, Migrated, Migrating, Stages
    <2>3. \A a \in OwnApps : (a \in DOMAIN apps' <=> a \in DOMAIN apps) /\ (a \in DOMAIN apps => apps'[a] = apps[a])
        <3>1. CASE UpsertBundled(p) \/ PruneBundled(p)
            BY <3>1, OthersStay
        <3>2. CASE ~(UpsertBundled(p) \/ PruneBundled(p))
            BY <1>8, <3>2 DEF OOTBLanding, ShowLanding, ReadBundled, SeedBundled, UpsertedAll, SaveRegistry, ReadPages, WritePages, ReadPruned,
                     LookForUsers, CreateFirstUser, HelperUser, db
        <3> QED BY <3>1, <3>2
    <2>4. route # Null /\ route' # Null
        <3>1. route # Null
            BY <2>1 DEF DefsOK, Facts, Routed, Modeling, Watching
        <3>2. route' = route \/ route' = RouteAfter(route)
            BY Writers DEF SystemLanding, OOTBLanding, ShowLanding
        <3> QED BY <3>1, <3>2 DEF RouteAfter
    <2>5. Facts(proc[p].pc, apps', physical, route)
        BY <2>2, <2>3, SameFacts DEF DefsOK
    <2>6. \A pc : Facts(pc, apps', physical, route')
        BY <2>1, <2>2, <2>4, <2>5 DEF Facts, Unscripting, Closing, Describing, Placing, Routed, Modeling, Watching
    <2>7. CASE proc'[p].pc \in Merging
        <3>1. proc'[p].pc = "pagesw" => proc'[p].copy = apps'
            <4> SUFFICES ASSUME proc'[p].pc = "pagesw" PROVE proc'[p].copy = apps'
                OBVIOUS
            <4>1. ReadPages(p)
                BY <1>0, <1>8, MergedPlaces
            <4>2. (Go(p, "refused") \/ Copy(p, "pagesw")) /\ apps' = apps
                BY <4>1 DEF ReadPages, db
            <4> QED BY <1>0, <4>2 DEF Go, Copy, Turn
        <3>2. proc'[p].pc \in Reading => proc'[p].pc = "pagesw"
            BY <2>7 DEF Reading, Merging
        <3>3. CopyTells(proc'[p], apps')
            BY <2>7, <3>1, <3>2 DEF CopyTells, Merging
        <3> QED BY <2>2, <2>6, <3>3 DEF DefsOK
    <2>8. CASE proc'[p].pc \notin Merging
        <3>1. proc'[p].pc \in {"refused", "failed"}
            BY <1>0, <1>8, <2>8, MergedPlaces
        <3> QED BY <1>a, <3>1 DEF Reading, Unscripting, Closing, Describing, Placing, Routed, Modeling, Watching, Merging
    <2> QED BY <2>7, <2>8
<1>9. CASE WriteLegacy(p)
    BY <1>9, LegacyStep
<1>10. CASE WriteRoles(p)
    BY <1>10, RolesStep
<1>11. CASE WriteSystem(p)
    BY <1>11, <1>b, SystemStep DEF WriteSystem, At, Migrated, Migrating, Stages
<1>12. CASE WriteTask(p)
    BY <1>12, <1>b, TaskStep DEF WriteTask, WriteBase, At, Migrated, Migrating, Stages
<1>13. CASE WriteObservability(p)
    BY <1>13, <1>b, ObservabilityStep DEF WriteObservability, WriteBase, At, Migrated, Migrating, Stages
<1>14. CASE WriteOOTB(p)
    BY <1>14, <1>b, MergeStep DEF WriteOOTB, At, Migrated, Migrating, Stages
<1> QED BY <1>1, <1>2, <1>3, <1>4, <1>5, <1>6, <1>7, <1>8, <1>9, <1>10, <1>11, <1>12, <1>13, <1>14 DEF Works

-----------------------------------------------------------------------------
(* Bundled apps, pages and the theorem.                                    *)

Installed(app, d, T, R) ==
    /\ app \in DOMAIN T /\ T[app].draft = d /\ T[app].published = d
    /\ \A s \in SeedsOf(d) : SeedId(app, s) \in DOMAIN R /\ R[SeedId(app, s)].value = s[4]
Picked(S) == CHOOSE a \in S : TRUE
Bundled == {"prune", "prunew", "pages", "pagesw", "first", "firstw", "up"}
ShipsOK(s, T, R) ==
    /\ s.pc \in {"upsert", "seed"} =>
          \A app \in ShipsOf(s.build) \ s.todo : Installed(app, Builds[s.build].ships[app], T, R)
    /\ s.pc = "seed" =>
          \E app \in s.todo : /\ app = Picked(s.todo) /\ app \in DOMAIN T
                              /\ T[app].draft = Builds[s.build].ships[app]
                              /\ T[app].published = Builds[s.build].ships[app]
    /\ s.pc \in Bundled => \A app \in ShipsOf(s.build) : Installed(app, Builds[s.build].ships[app], T, R)
PagesOK(s, T, P) ==
    s.pc \in {"first", "firstw", "up"} =>
        \A app \in DOMAIN T : PageOf(T[app].published) # {} => app \in DOMAIN P /\ P[app] = PageOf(T[app].published)

\* Another app's row and records do not matter to an installed one.
LEMMA StaysInstalled ==
    ASSUME NEW app, NEW d, NEW T, NEW R, NEW T2, NEW R2, Installed(app, d, T, R),
           app \in DOMAIN T2 /\ T2[app] = T[app],
           \A id \in DOMAIN R : id[1] = app => id \in DOMAIN R2 /\ R2[id] = R[id]
    PROVE  Installed(app, d, T2, R2)
<1>1. \A s : SeedId(app, s)[1] = app
    BY DEF SeedId
<1> HIDE DEF SeedId
<1> QED BY <1>1 DEF Installed

\* A bundled app takes its definition, then its seeds.
LEMMA UpsertShips ==
    ASSUME ShapeInv, NamesInv, NEW p \in Procs, UpsertBundled(p), ShipsOK(proc[p], apps, records)
    PROVE  ShipsOK(proc'[p], apps', records')
<1>0. ProcShape /\ DOMAIN proc = Procs /\ TableShape(apps)
    BY DEF ShapeInv, ProcShape
<1>1. At(p, "upsert") /\ Chosen(p) \in proc[p].todo /\ records' = records
    BY DEF UpsertBundled, Chosen, Apps
<1>2. CASE Go(p, "refused")
    BY <1>0, <1>2 DEF Go, Turn, ShipsOK, Bundled
<1>3. CASE ~Go(p, "refused")
    <2>1. /\ Go(p, "seed") /\ DOMAIN apps' = DOMAIN apps \cup {Chosen(p)}
          /\ apps'[Chosen(p)].draft = Ships(p)[Chosen(p)] /\ apps'[Chosen(p)].published = Ships(p)[Chosen(p)]
          /\ \A a \in DOMAIN apps \ {Chosen(p)} : apps'[a] = apps[a]
        BY <1>0, <1>3, UpsertWrites
    <2>2. proc'[p] = [pc |-> "seed", build |-> proc[p].build, copy |-> proc[p].copy, todo |-> proc[p].todo]
        BY <1>0, <2>1 DEF Go, Turn
    <2>3. ASSUME NEW app \in ShipsOf(proc[p].build) \ proc[p].todo
          PROVE  Installed(app, Builds[proc[p].build].ships[app], apps', records')
        <3>1. Installed(app, Builds[proc[p].build].ships[app], apps, records)
            BY <1>1 DEF ShipsOK, At
        <3>2. app \in DOMAIN apps' /\ apps'[app] = apps[app]
            BY <1>1, <2>1, <3>1 DEF Installed
        <3> QED BY <1>1, <3>1, <3>2, StaysInstalled
    <2>4. Chosen(p) = Picked(proc[p].todo)
        BY DEF Chosen, Picked
    <2>5. \E app \in proc[p].todo : /\ app = Picked(proc[p].todo) /\ app \in DOMAIN apps'
                                    /\ apps'[app].draft = Builds[proc[p].build].ships[app]
                                    /\ apps'[app].published = Builds[proc[p].build].ships[app]
        BY <1>1, <2>1, <2>4 DEF Ships, Build
    <2> QED BY <2>2, <2>3, <2>5 DEF ShipsOK, Bundled
<1> QED BY <1>2, <1>3

\* The seeds of the app that was written.
LEMMA SeedShips ==
    ASSUME ShapeInv, NamesInv, NEW p \in Procs, SeedBundled(p), ShipsOK(proc[p], apps, records)
    PROVE  ShipsOK(proc'[p], apps', records')
<1>0. ProcShape /\ DOMAIN proc = Procs
    BY DEF ShapeInv, ProcShape
<1> DEFINE b == proc[p].build
<1>1. At(p, "seed") /\ apps' = apps /\ b \in DOMAIN Builds
    BY <1>0 DEF SeedBundled, ProcShape, At
<1>2. PICK app \in proc[p].todo : /\ app = Picked(proc[p].todo) /\ app \in DOMAIN apps
                                  /\ apps[app].draft = Builds[b].ships[app]
                                  /\ apps[app].published = Builds[b].ships[app]
    BY <1>1 DEF ShipsOK, At
<1>3. app \in ShipsOf(b)
    BY <1>1 DEF NamesInv, NamesOK, At
<1>4. Go(p, "failed") \/ (Did(p, "upsert", app) /\ records' = Seeded(app, apps[app].published))
    BY <1>2 DEF SeedBundled, Picked
<1>5. CASE Go(p, "failed")
    BY <1>0, <1>5 DEF Go, Turn, ShipsOK, Bundled
<1>6. CASE Did(p, "upsert", app) /\ records' = Seeded(app, apps[app].published)
    <2>1. proc'[p] = [pc |-> "upsert", build |-> b, copy |-> proc[p].copy, todo |-> proc[p].todo \ {app}]
        BY <1>0, <1>6 DEF Did, Turn
    <2> DEFINE d == Builds[b].ships[app]
    <2>2. \A s, t \in SeedsOf(d) : SeedId(app, s) = SeedId(app, t) => s = t
        BY <1>1, <1>3, ReleaseAssumption DEF ShipsOf
    <2>3. records' = Seeded(app, d)
        BY <1>2, <1>6
    <2>a. apps[app].draft = d /\ apps[app].published = d
        BY <1>2
    <2>b. d = Builds[proc[p].build].ships[app]
        OBVIOUS
    <2> HIDE DEF d, b
    <2>4. \A s \in SeedsOf(d) : SeedId(app, s) \in DOMAIN records' /\ records'[SeedId(app, s)].value = s[4]
        BY <2>2, <2>3, SeededData
    <2>5. Installed(app, d, apps', records')
        BY <1>1, <1>2, <2>4, <2>a DEF Installed
    <2>6. ASSUME NEW a \in ShipsOf(b) \ proc[p].todo
          PROVE  Installed(a, Builds[b].ships[a], apps', records')
        <3>1. Installed(a, Builds[b].ships[a], apps, records)
            BY <1>1 DEF ShipsOK, At, b
        <3>2. a # app
            OBVIOUS
        <3>3. \A id \in DOMAIN records : id[1] = a => id \in DOMAIN records' /\ records'[id] = records[id]
            BY <2>3, <3>2, SeededData
        <3>4. a \in DOMAIN apps' /\ apps'[a] = apps[a]
            BY <1>1, <3>1 DEF Installed
        <3> QED BY <3>1, <3>3, <3>4, StaysInstalled
    <2>7. \A a \in ShipsOf(b) \ (proc[p].todo \ {app}) : Installed(a, Builds[b].ships[a], apps', records')
        BY <2>5, <2>6, <2>b DEF b
    <2> QED BY <2>1, <2>7 DEF ShipsOK, Bundled
<1> QED BY <1>4, <1>5, <1>6

\* Only apps that are not shipped are pruned.
LEMMA PruneShips ==
    ASSUME ShapeInv, NamesInv, NEW p \in Procs, PruneBundled(p), ShipsOK(proc[p], apps, records)
    PROVE  ShipsOK(proc'[p], apps', records')
<1>0. ProcShape /\ DOMAIN proc = Procs /\ TableShape(apps)
    BY DEF ShapeInv, ProcShape
<1>1. At(p, "prunew") /\ Pruned(p) \notin ShipsOf(proc[p].build)
    BY PrunedApart DEF PruneBundled
<1> DEFINE gone == {SeedId(Pruned(p), s) : s \in SeedsOf(proc[p].copy[3])}
<1>2. /\ Turn(p, "prune", proc[p].copy[1], proc[p].todo \ {Pruned(p)})
      /\ DOMAIN apps' = DOMAIN apps \ (DOMAIN apps \cap {Pruned(p)})
      /\ \A a \in DOMAIN apps' : apps'[a] = apps[a]
      /\ records' = [id \in DOMAIN records \ gone |-> records[id]]
    BY <1>0, PruneWrites, PrunedApart
<1>3. proc'[p].pc = "prune" /\ proc'[p].build = proc[p].build
    BY <1>0, <1>2 DEF Turn
<1>5. \A id \in gone : id[1] = Pruned(p)
    BY DEF SeedId
<1> HIDE DEF gone
<1>4. ASSUME NEW a \in ShipsOf(proc[p].build)
      PROVE  Installed(a, Builds[proc[p].build].ships[a], apps', records')
    <2>1. Installed(a, Builds[proc[p].build].ships[a], apps, records)
        BY <1>1 DEF ShipsOK, At, Bundled
    <2>2. a # Pruned(p)
        BY <1>1, <1>4
    <2>3. a \in DOMAIN apps' /\ apps'[a] = apps[a]
        BY <1>2, <2>1, <2>2 DEF Installed
    <2>4. \A id \in DOMAIN records : id[1] = a => id \in DOMAIN records' /\ records'[id] = records[id]
        BY <1>2, <1>5, <2>2
    <2> QED BY <2>1, <2>3, <2>4, StaysInstalled
<1> QED BY <1>3, <1>4 DEF ShipsOK, Bundled

\* The bundled apps after a step.
LEMMA ShipsStep ==
    ASSUME ShapeInv, FilesInv, NamesInv, NEW p \in Procs, Works(p), ShipsOK(proc[p], apps, records)
    PROVE  ShipsOK(proc'[p], apps', records')
<1>0. ProcShape /\ DOMAIN proc = Procs
    BY DEF ShapeInv, ProcShape
<1>1. CASE proc'[p].pc \notin Merging
    BY <1>1 DEF ShipsOK, Bundled, Merging
<1>2. CASE UpsertBundled(p) \/ SeedBundled(p) \/ PruneBundled(p)
    BY <1>2, UpsertShips, SeedShips, PruneShips
<1>3. CASE ReadBundled(p)
    <2>1. proc'[p] = [pc |-> "upsert", build |-> proc[p].build, copy |-> Managed, todo |-> ShipsOf(proc[p].build)]
        BY <1>0, <1>3 DEF ReadBundled, Turn, Shipped, Build, ShipsOf
    <2> QED BY <2>1 DEF ShipsOK, Bundled
<1>4. CASE UpsertedAll(p)
    <2>1. /\ proc[p].pc = "upsert" /\ proc[p].todo = {} /\ UNCHANGED <<apps, records>>
          /\ proc'[p].pc = "prune" /\ proc'[p].build = proc[p].build
        BY <1>0, <1>4 DEF UpsertedAll, Done, At, Turn, db
    <2> QED BY <2>1 DEF ShipsOK, Bundled
<1>5. CASE SaveRegistry(p) \/ ReadPruned(p) \/ ReadPages(p) \/ WritePages(p) \/ LookForUsers(p) \/ CreateFirstUser(p) \/ HelperUser(p)
    <2>1. proc[p].pc \in Bundled /\ UNCHANGED <<apps, records>>
        BY <1>5 DEF SaveRegistry, ReadPruned, ReadPages, WritePages, LookForUsers, CreateFirstUser, HelperUser, Done, At, Bundled, db
    <2>2. proc'[p].build = proc[p].build /\ proc'[p].pc \notin {"upsert", "seed"}
        BY <1>0, <1>5, MergedPlaces DEF SaveRegistry, ReadPruned, ReadPages, WritePages, LookForUsers, CreateFirstUser, HelperUser,
               Done, At, ReadBundled, UpsertBundled, SeedBundled
    <2> QED BY <2>1, <2>2 DEF ShipsOK
<1>6. CASE OOTBLanding(p)
    <2>1. proc'[p].pc = "bundled"
        BY <1>0, <1>6 DEF OOTBLanding, ShowLanding, Go, Turn
    <2> QED BY <2>1 DEF ShipsOK, Bundled
<1>7. CASE WriteOOTB(p) /\ proc'[p].pc \in Merging
    <2>1. Go(p, "refused") \/ Go(p, "landing2")
        BY <1>7 DEF WriteOOTB
    <2>2. proc'[p].pc \in {"refused", "landing2"}
        BY <1>0, <2>1 DEF Go, Turn
    <2> QED BY <2>2 DEF ShipsOK, Bundled
<1>8. CASE Verify(p) \/ ApplyMigration(p) \/ After042(p) \/ ReadLegacy(p)
    <2>1. proc'[p].pc \in {"failed", "migrate", "after042", "legacyw"}
        BY <1>0, <1>8 DEF Verify, ApplyMigration, After042, ReadLegacy, Go, Did, Turn
    <2> QED BY <2>1 DEF ShipsOK, Bundled
<1>9. CASE proc[p].pc \in Migrated /\ proc'[p].pc \in Merging
    <2>1. "base" \in DOMAIN apps
        BY <1>9, BaseThere
    <2> QED BY <1>0, <1>2, <1>3, <1>4, <1>5, <1>6, <1>7, <1>9, <2>1, MergingFrom
<1> QED BY <1>0, <1>1, <1>8, <1>9, LaterPlaces

\* The pages after a step.
LEMMA PagesStep ==
    ASSUME ShapeInv, FilesInv, NamesInv, NEW p \in Procs, Works(p),
           DefsOK(proc[p], apps, physical, route), PagesOK(proc[p], apps, pages)
    PROVE  PagesOK(proc'[p], apps', pages')
<1>0. ProcShape /\ DOMAIN proc = Procs
    BY DEF ShapeInv, ProcShape
<1>1. CASE proc'[p].pc \notin {"first", "firstw", "up"}
    BY <1>1 DEF PagesOK
<1>2. CASE proc'[p].pc \in {"first", "firstw", "up"}
    <2>1. CASE Verify(p) \/ ApplyMigration(p) \/ After042(p) \/ ReadLegacy(p)
        <3>1. proc'[p].pc \in {"failed", "migrate", "after042", "legacyw"}
            BY <1>0, <2>1 DEF Verify, ApplyMigration, After042, ReadLegacy, Go, Did, Turn
        <3> QED BY <3>1 DEF PagesOK
    <2>2. CASE proc[p].pc \in Migrated
        <3>1. "base" \in DOMAIN apps
            BY <2>2, BaseThere
        <3>2. CASE WriteOOTB(p)
            <4>1. Go(p, "refused") \/ Go(p, "landing2")
                BY <3>2 DEF WriteOOTB
            <4>2. proc'[p].pc \in {"refused", "landing2"}
                BY <1>0, <4>1 DEF Go, Turn
            <4> QED BY <4>2 DEF PagesOK
        <3>3. CASE ReadPages(p)
            <4>1. Go(p, "refused") \/ Copy(p, "pagesw")
                BY <3>1, <3>3 DEF ReadPages
            <4>2. proc'[p].pc \in {"refused", "pagesw"}
                BY <1>0, <4>1 DEF Go, Copy, Turn
            <4> QED BY <4>2 DEF PagesOK
        <3>4. CASE WritePages(p)
            <4> DEFINE shown == {a \in DOMAIN apps : PageOf(apps[a].published) # {}}
                       f == [a \in shown |-> PageOf(apps[a].published)]
            <4>1. proc[p].pc = "pagesw" /\ apps' = apps
                BY <3>4 DEF WritePages, At
            <4>2. proc[p].copy = apps
                BY <4>1 DEF DefsOK, CopyTells, Reading
            <4>3. pages' = Over(f, pages)
                BY <3>4, <4>2 DEF WritePages
            <4>4. \A a \in shown : a \in DOMAIN pages' /\ pages'[a] = PageOf(apps[a].published)
                BY <4>3 DEF Over
            <4> QED BY <4>1, <4>4 DEF PagesOK
        <3>5. CASE LookForUsers(p) \/ CreateFirstUser(p) \/ HelperUser(p)
            <4>1. proc[p].pc \in {"first", "firstw", "up"} /\ UNCHANGED <<apps, pages>>
                BY <3>5 DEF LookForUsers, CreateFirstUser, HelperUser, At, db
            <4> QED BY <4>1 DEF PagesOK
        <3>6. CASE /\ ~WriteOOTB(p)
                   /\ \/ OOTBLanding(p) \/ ReadBundled(p) \/ UpsertBundled(p) \/ SeedBundled(p) \/ UpsertedAll(p) \/ ReadPruned(p) \/ PruneBundled(p)
                      \/ SaveRegistry(p) \/ ReadPages(p) \/ WritePages(p) \/ LookForUsers(p) \/ CreateFirstUser(p) \/ HelperUser(p)
            BY <1>0, <1>2, <3>3, <3>4, <3>5, <3>6, MergedPlaces
        <3>7. proc'[p].pc \in Merging
            BY <1>2 DEF Merging
        <3> QED BY <1>0, <3>1, <3>2, <3>6, <3>7, MergingFrom
    <2> QED BY <1>0, <2>1, <2>2, LaterPlaces
<1> QED BY <1>1, <1>2

\* A step that changes the database is noticed.
LEMMA NoticedOrNot == ASSUME NEW p, Works(p) PROVE (db' = db /\ quiet' = quiet) \/ Noticed(p)
<1>1. CASE Verify(p)
    BY <1>1 DEF Verify
<1>2. CASE ApplyMigration(p)
    BY <1>2 DEF ApplyMigration
<1>3. CASE After042(p)
    BY <1>3 DEF After042
<1>4. CASE ReadLegacy(p)
    BY <1>4 DEF ReadLegacy
<1>5. CASE WriteLegacy(p)
    BY <1>5 DEF WriteLegacy, RewriteEach
<1>6. CASE ReadRoles(p)
    BY <1>6 DEF ReadRoles
<1>7. CASE WriteRoles(p)
    BY <1>7 DEF WriteRoles, RewriteEach
<1>8. CASE ReadSystem(p)
    BY <1>8 DEF ReadSystem
<1>9. CASE CreateSystemTables(p)
    BY <1>9 DEF CreateSystemTables
<1>10. CASE WriteSystem(p)
    BY <1>10 DEF WriteSystem
<1>11. CASE SystemLanding(p)
    BY <1>11 DEF SystemLanding, ShowLanding
<1>12. CASE ReadTask(p)
    BY <1>12 DEF ReadTask, ReadBase
<1>13. CASE WriteTask(p)
    BY <1>13 DEF WriteTask, WriteBase
<1>14. CASE ReadObservability(p)
    BY <1>14 DEF ReadObservability, ReadBase
<1>15. CASE WriteObservability(p)
    BY <1>15 DEF WriteObservability, WriteBase
<1>16. CASE ReadOOTB(p)
    BY <1>16 DEF ReadOOTB, ReadBase
<1>17. CASE WriteOOTB(p)
    BY <1>17 DEF WriteOOTB
<1>18. CASE OOTBLanding(p)
    BY <1>18 DEF OOTBLanding, ShowLanding
<1>19. CASE ReadBundled(p)
    BY <1>19 DEF ReadBundled
<1>20. CASE UpsertBundled(p)
    BY <1>20 DEF UpsertBundled
<1>21. CASE SeedBundled(p)
    BY <1>21 DEF SeedBundled
<1>22. CASE UpsertedAll(p)
    BY <1>22 DEF UpsertedAll
<1>23. CASE PruneBundled(p)
    BY <1>23 DEF PruneBundled
<1>24. CASE SaveRegistry(p)
    BY <1>24 DEF SaveRegistry
<1>25. CASE ReadPages(p)
    BY <1>25 DEF ReadPages
<1>30. CASE ReadPruned(p)
    BY <1>30 DEF ReadPruned
<1>26. CASE WritePages(p)
    BY <1>26 DEF WritePages
<1>27. CASE LookForUsers(p)
    BY <1>27 DEF LookForUsers
<1>28. CASE CreateFirstUser(p)
    BY <1>28 DEF CreateFirstUser
<1>29. CASE HelperUser(p)
    BY <1>29 DEF HelperUser
<1> QED BY <1>1, <1>2, <1>3, <1>4, <1>5, <1>6, <1>7, <1>8, <1>9, <1>10, <1>11, <1>12, <1>13, <1>14, <1>15, <1>16, <1>17, <1>18, <1>19, <1>20, <1>21, <1>22, <1>23, <1>24, <1>25, <1>26, <1>27, <1>28, <1>29, <1>30 DEF Works

QuietOK(p) ==
    /\ DefsOK(proc[p], apps, physical, route)
    /\ ShipsOK(proc[p], apps, records)
    /\ PagesOK(proc[p], apps, pages)
QuietInv == quiet \subseteq Procs /\ \A p \in quiet : QuietOK(p)

\* What the others do to a quiet start: nothing.
LEMMA QuietSame ==
    ASSUME NEW q, QuietOK(q), db' = db, proc'[q] = proc[q]
    PROVE  QuietOK(q)'
BY DEF QuietOK, db

\* Every step keeps QuietInv.
LEMMA QuietKept ==
    ASSUME ShapeInv, FilesInv, NamesInv, MergedInv, QuietInv, [Next]_vars
    PROVE  QuietInv'
<1>0. ProcShape /\ DOMAIN proc = Procs
    BY DEF ShapeInv, ProcShape
<1>1. CASE UNCHANGED vars
    <2>1. db' = db /\ quiet' = quiet /\ proc' = proc
        BY <1>1 DEF vars
    <2> QED BY <2>1, QuietSame DEF QuietInv
<1>2. ASSUME NEW p \in Procs, Boot(p) PROVE QuietInv'
    <2>1. \A q \in Procs \ {p} : proc'[q] = proc[q]
        BY <1>0, <1>2, BootShape
    <2>2. CASE Start(p)
        <3>1. db' = db /\ quiet' = quiet \cup {p}
            BY <2>2 DEF Start
        <3>2. proc'[p].pc = "verify"
            BY <1>0, <2>2 DEF Start
        <3>3. QuietOK(p)'
            BY <3>2 DEF QuietOK, DefsOK, CopyTells, Facts, ShipsOK, PagesOK, Bundled,
                        Reading, Unscripting, Closing, Describing, Placing, Routed, Modeling, Watching, Merging
        <3> QED BY <2>1, <3>1, <3>3, QuietSame DEF QuietInv
    <2>3. CASE Exit(p) \/ Stop(p)
        <3>1. db' = db /\ quiet' = quiet \ {p}
            BY <2>3 DEF Exit, Stop
        <3> QED BY <2>1, <3>1, QuietSame DEF QuietInv
    <2>4. CASE Works(p)
        <3>1. quiet' \subseteq quiet /\ (db' = db \/ quiet' \subseteq {p})
            BY <2>4, NoticedOrNot DEF Noticed
        <3>2. ASSUME NEW q \in quiet', q # p PROVE QuietOK(q)'
            BY <2>1, <3>1, <3>2, QuietSame DEF QuietInv
        <3>3. ASSUME p \in quiet PROVE QuietOK(p)'
            <4>1. /\ DefsOK(proc[p], apps, physical, route) /\ ShipsOK(proc[p], apps, records)
                  /\ PagesOK(proc[p], apps, pages)
                BY <3>3 DEF QuietInv, QuietOK
            <4> QED BY <2>4, <4>1, DefsStep, ShipsStep, PagesStep DEF QuietOK
        <3> QED BY <3>1, <3>2, <3>3 DEF QuietInv
    <2> QED BY <1>2, <2>2, <2>3, <2>4, BootCases
<1>3. CASE SaveDraft \/ PublishDraft \/ TouchRecord
    <2>1. quiet' = {}
        BY <1>3 DEF SaveDraft, PublishDraft, TouchRecord, Edited
    <2> QED BY <2>1 DEF QuietInv
<1> QED BY <1>1, <1>2, <1>3 DEF Next

\* At the end of a quiet start nothing is left.
LEMMA QuietSettles ==
    ASSUME ShapeInv, FilesInv, NamesInv, MergedInv, QuietInv
    PROVE  StartSettles
<1> SUFFICES ASSUME NEW p \in quiet, At(p, "up")
             PROVE  /\ "system" \notin DOMAIN apps
                    /\ "base" \in DOMAIN apps =>
                         \A d \in {apps["base"].draft, apps["base"].published} :
                            /\ Backfilled(Unscripted(d)) = d
                            /\ WithPhysical(d, physical) = d
                            /\ Observed(Simplified(d)) = d
                            /\ Composed({}, d) = d
                    /\ "base" \in DOMAIN apps => Described(apps["base"].published) \subseteq physical
                    /\ \A app \in Shipped(p) :
                         /\ app \in DOMAIN apps /\ apps[app].draft = Build(p).ships[app] /\ apps[app].published = apps[app].draft
                         /\ \A s \in SeedsOf(apps[app].published) :
                              SeedId(app, s) \in DOMAIN records /\ records[SeedId(app, s)].value = s[4]
                    /\ \A app \in DOMAIN apps : PageOf(apps[app].published) # {} => pages[app] = PageOf(apps[app].published)
                    /\ route # Null
    BY DEF StartSettles
<1>1. p \in Procs /\ proc[p].pc = "up" /\ QuietOK(p) /\ physical \in SUBSET SystemTables
    BY DEF QuietInv, At, NamesInv
<1>2. "system" \notin DOMAIN apps
    BY <1>1 DEF MergedInv, Merging
<1>3. Facts("up", apps, physical, route)
    BY <1>1 DEF QuietOK, DefsOK
<1>4. /\ Free(apps, Legacy) /\ Free(apps, Open) /\ route # Null
      /\ Described(apps["base"].published) \subseteq physical
      /\ Matched(apps["base"].draft, physical) /\ Matched(apps["base"].published, physical)
      /\ Modeled(apps["base"].draft) /\ Modeled(apps["base"].published)
      /\ Observability \in apps["base"].draft /\ Observability \in apps["base"].published
      /\ Ready(apps["base"].draft) /\ Ready(apps["base"].published)
    <2>1. Main(apps) = apps["base"]
        BY <1>2 DEF Main, SystemName
    <2> QED BY <1>3, <2>1 DEF Facts, Unscripting, Closing, Describing, Placing, Routed, Modeling, Watching, Merging
<1>5. ASSUME "base" \in DOMAIN apps, NEW d \in {apps["base"].draft, apps["base"].published}
      PROVE  /\ Backfilled(Unscripted(d)) = d /\ WithPhysical(d, physical) = d
             /\ Observed(Simplified(d)) = d /\ Composed({}, d) = d
    <2>1. Legacy \notin d /\ Open \notin d
        BY <1>4, <1>5 DEF Free, Lacks, OwnApps
    <2>2. Matched(d, physical) /\ Modeled(d) /\ Observability \in d /\ Ready(d)
        BY <1>4
    <2> QED BY <1>1, <2>1, <2>2, NothingLeft
<1>6. \A app \in Shipped(p) : Installed(app, Build(p).ships[app], apps, records)
    BY <1>1 DEF QuietOK, ShipsOK, Bundled, Shipped, ShipsOf, Build
<1>7. \A app \in Shipped(p) :
         /\ app \in DOMAIN apps /\ apps[app].draft = Build(p).ships[app] /\ apps[app].published = apps[app].draft
         /\ \A s \in SeedsOf(apps[app].published) :
              SeedId(app, s) \in DOMAIN records /\ records[SeedId(app, s)].value = s[4]
    BY <1>6 DEF Installed
<1>8. \A app \in DOMAIN apps : PageOf(apps[app].published) # {} => pages[app] = PageOf(apps[app].published)
    BY <1>1 DEF QuietOK, PagesOK
<1> QED BY <1>2, <1>4, <1>5, <1>7, <1>8

\* StartSettles: a start that nobody interferes with leaves the next one nothing to
\* do, whatever earlier starts left half done (RunMigrations, bootstrap.go).
THEOREM StartsSettle == Spec => []StartSettles
<1>1. Init => ShapeInv /\ FilesInv /\ NamesInv /\ MergedInv /\ QuietInv
    <2>1. Init => QuietInv
        BY DEF Init, QuietInv
    <2> QED BY <2>1, ShapeStarts, FilesStart, NamesStart, MergedStart
<1>2. ShapeInv /\ FilesInv /\ NamesInv /\ MergedInv /\ QuietInv /\ [Next]_vars
         => (ShapeInv /\ FilesInv /\ NamesInv /\ MergedInv /\ QuietInv)'
    BY ShapeKept, FilesKept, NamesKept, MergedKept, QuietKept
<1>3. ShapeInv /\ FilesInv /\ NamesInv /\ MergedInv /\ QuietInv => StartSettles
    BY QuietSettles
<1> QED BY <1>1, <1>2, <1>3, PTL DEF Spec
=============================================================================
