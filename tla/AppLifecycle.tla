---------------------------- MODULE AppLifecycle ----------------------------
(***************************************************************************)
(* One registered app: its draft and published definitions with their      *)
(* version counters (one row of _app) and the physical tables the          *)
(* published definition stands for.  Requests edit the draft and publish   *)
(* it (cmd/server/handleAppEditorObjectSave.go, AppDefinition.go,          *)
(* AppPublish.go) or change tables directly with the schema builder        *)
(* (AppBuilder.go); RunMigrations rewrites a bundled app                   *)
(* (BundledApps.go), at the boot of the server or from a command started   *)
(* beside a running one.                                                   *)
(*                                                                         *)
(* A definition is the set of objects it declares.  Every request reads    *)
(* the definitions first and writes later in one transaction; the DDL of a *)
(* transaction takes exclusive locks before it looks, so a transaction is  *)
(* one step, taken or aborted.                                             *)
(***************************************************************************)
EXTENDS Naturals, FiniteSets

CONSTANTS
    Tables,       \* tables a definition may declare
    Others,       \* its other objects: forms, services, pages...
    Sessions,     \* concurrent requests
    Builders,     \* the requests that may use the schema builder
    Bundles,      \* definitions the builds of the binary may bundle
    MaxVersion    \* bound: no definition is written once a version gets there

ASSUME LifecycleAssumption ==
    /\ Builders \subseteq Sessions
    /\ Bundles \subseteq SUBSET (Tables \cup Others)
    /\ MaxVersion \in Nat

VARIABLES
    draft,       \* _app.definition_yaml
    published,   \* _app.published_definition_yaml
    defVersion,  \* _app.definition_version
    pubVersion,  \* _app.published_version
    physical,    \* tables of this app that exist in the database
    pc,          \* what each request is doing: "idle", "edit", "publish", "build"
    snap,        \* the definitions it has read
    sync,        \* the sync of the bundled app: "idle", "read", "apply"
    syncSnap,    \* the published definition that sync has read
    gap,         \* history: what may have left a published table without a physical one
    stale        \* history: commits that were based on definitions changed since

row == <<draft, published, defVersion, pubVersion>>
history == <<gap, stale>>
vars == <<row, physical, pc, snap, sync, syncSnap, history>>

Objects == Tables \cup Others
Definitions == SUBSET Objects
Snapshots == [draft : Definitions, published : Definitions]
Greatest(a, b) == IF a > b THEN a ELSE b
NextVersion == Greatest(defVersion, pubVersion) + 1
Writable == NextVersion <= MaxVersion

\* CreateApp: a draft at version 1, nothing published.
Init ==
    /\ draft = {} /\ published = {}
    /\ defVersion = 1 /\ pubVersion = 0
    /\ physical = {}
    /\ pc = [s \in Sessions |-> "idle"]
    /\ snap = [s \in Sessions |-> [draft |-> {}, published |-> {}]]
    /\ sync = "idle" /\ syncSnap = {}
    /\ gap = {} /\ stale = {}

-----------------------------------------------------------------------------
(* Reading.  GetActiveAppByName returns both definitions.                  *)

Read(s, state) ==
    /\ pc[s] = "idle"
    /\ pc' = [pc EXCEPT ![s] = state]
    /\ snap' = [snap EXCEPT ![s] = [draft |-> draft, published |-> published]]
    /\ UNCHANGED <<row, physical, sync, syncSnap, history>>

EditRead(s) == Read(s, "edit")
PublishRead(s) == Read(s, "publish")
BuilderRead(s) == s \in Builders /\ Read(s, "build")

\* Any error before the commit: a validation, a lost table, a dropped client.
\* The transaction rolls back.
Abort(s) ==
    /\ pc[s] # "idle"
    /\ pc' = [pc EXCEPT ![s] = "idle"]
    /\ UNCHANGED <<row, physical, snap, sync, syncSnap, history>>

-----------------------------------------------------------------------------
(* The app editor: one object added, changed or removed, or the whole YAML. *)

\* SaveAppDefinition: the version moves only when the text changes.  A request
\* that is to publish as well goes on with the definitions it has read: its
\* ListActiveApps answers from the metadata cache of the request.
SaveDraft(s, definition, version) ==
    /\ pc[s] = "edit" /\ Writable
    /\ draft' = definition
    /\ defVersion' = IF definition = draft THEN defVersion ELSE version
    /\ \E next \in {"idle", "publish"} : pc' = [pc EXCEPT ![s] = next]
    /\ UNCHANGED <<published, pubVersion, physical, snap, sync, syncSnap, history>>

\* The objects of the definition read, one of them toggled, or all replaced.
EditSaveAt(s, version) ==
    \/ SaveDraft(s, snap[s].draft, version)
    \/ \E o \in Objects : \/ SaveDraft(s, snap[s].draft \cup {o}, version)
                          \/ SaveDraft(s, snap[s].draft \ {o}, version)
    \/ \E yaml \in Definitions : SaveDraft(s, yaml, version)

EditSavePlusOne(s) == EditSaveAt(s, defVersion + 1)        \* mutant: GREATEST left out
EditSave(s) == EditSaveAt(s, NextVersion)

-----------------------------------------------------------------------------
(* PublishAppDefinition.                                                   *)

\* reconcileDefinitionSchemaTx drops what the published definition had and the
\* next one lacks; applyDefinitionSchemaTx creates what is missing.
Dropped(old, new) == (old \ new) \cap Tables
Ensured(new) == new \cap Tables

PublishWith(s, drops, creates) ==
    /\ pc[s] = "publish"
    /\ physical' = (physical \ drops) \cup creates
    /\ published' = snap[s].draft
    /\ pubVersion' = Greatest(defVersion, 1)
    /\ pc' = [pc EXCEPT ![s] = "idle"]
    /\ gap' = {}
    /\ stale' = stale \cup (IF snap[s].draft # draft THEN {"draft"} ELSE {})
                      \cup (IF snap[s].published # published THEN {"published"} ELSE {})
    /\ UNCHANGED <<draft, defVersion, snap, sync, syncSnap>>

PublishKeepingDropped(s) == PublishWith(s, {}, Ensured(snap[s].draft))  \* mutant: no reconcile
PublishCreatingNothing(s) ==                                            \* mutant: no apply
    PublishWith(s, Dropped(snap[s].published, snap[s].draft), {})
PublishCommit(s) ==
    PublishWith(s, Dropped(snap[s].published, snap[s].draft), Ensured(snap[s].draft))

-----------------------------------------------------------------------------
(* The schema builder works on the published definition and writes both.   *)

\* saveAppDefinitionTx
SaveBoth(s, definition) ==
    /\ pc[s] = "build" /\ Writable
    /\ draft' = definition /\ published' = definition
    /\ defVersion' = NextVersion /\ pubVersion' = NextVersion
    /\ pc' = [pc EXCEPT ![s] = "idle"]
    /\ IF snap[s].published = published
         THEN UNCHANGED history
         ELSE gap' = gap \cup {"builder"} /\ stale' = stale \cup {"published"}
    /\ UNCHANGED <<snap, sync, syncSnap>>

\* CreateAppTable: neither the definition read nor the database has the table.
CreateTable(s) ==
    \E t \in Tables \ (snap[s].published \cup physical) :
        /\ SaveBoth(s, snap[s].published \cup {t})
        /\ physical' = physical \cup {t}

\* UpdateAppTable and the column operations on a table of the definition read.
\* UpdateAppTable needs no physical table.
UpdateTable(s) ==
    /\ snap[s].published \cap Tables # {}
    /\ SaveBoth(s, snap[s].published)
    /\ UNCHANGED physical

\* DeleteAppTable: the table exists, is empty and nothing depends on it.
DeleteTable(s) ==
    \E t \in snap[s].published \cap physical :
        /\ SaveBoth(s, snap[s].published \ {t})
        /\ physical' = physical \ {t}

-----------------------------------------------------------------------------
(* SyncBundledAppDefinitions for this app: the upsert and the schema are    *)
(* separate transactions.                                                  *)

\* syncBundledAppDefinition's upsert: each version moves if its text does.
SyncUpsert ==
    /\ sync = "idle" /\ Writable
    /\ \E bundle \in Bundles :
          /\ draft' = bundle /\ published' = bundle
          /\ defVersion' = IF draft = bundle THEN defVersion ELSE NextVersion
          /\ pubVersion' = IF published = bundle THEN pubVersion ELSE NextVersion
          /\ stale' = stale \cup (IF Dropped(published, bundle) # {} THEN {"bundle"} ELSE {})
    /\ gap' = gap \cup {"sync"}
    /\ sync' = "read"
    /\ UNCHANGED <<physical, pc, snap, syncSnap>>

\* EnsurePublishedAppSchema reads the published definition...
SyncRead ==
    /\ sync = "read"
    /\ syncSnap' = published
    /\ sync' = "apply"
    /\ UNCHANGED <<row, physical, pc, snap, history>>

\* ... and creates its tables; it drops none.
SyncApply ==
    /\ sync = "apply"
    /\ physical' = physical \cup Ensured(syncSnap)
    /\ gap' = IF syncSnap = published THEN {} ELSE gap
    /\ stale' = stale \cup (IF syncSnap # published THEN {"published"} ELSE {})
    /\ sync' = "idle"
    /\ UNCHANGED <<row, pc, snap, syncSnap>>

\* The process that syncs fails or is killed between its transactions.
SyncCrash ==
    /\ sync # "idle"
    /\ sync' = "idle"
    /\ UNCHANGED <<row, physical, pc, snap, syncSnap, history>>

-----------------------------------------------------------------------------
Editor(s) == EditRead(s) \/ EditSave(s) \/ PublishRead(s) \/ PublishCommit(s) \/ Abort(s)
Builder(s) == BuilderRead(s) \/ CreateTable(s) \/ UpdateTable(s) \/ DeleteTable(s)
Sync == SyncUpsert \/ SyncRead \/ SyncApply \/ SyncCrash
Next == (\E s \in Sessions : Editor(s) \/ Builder(s)) \/ Sync

Spec == Init /\ [][Next]_vars
-----------------------------------------------------------------------------
(* Properties.                                                             *)

\* Type invariant of the _app row, the requests and the sync.
TypeOK ==
    /\ draft \in Definitions /\ published \in Definitions
    /\ defVersion \in Nat /\ pubVersion \in Nat
    /\ physical \subseteq Tables
    /\ pc \in [Sessions -> {"idle", "edit", "publish", "build"}]
    /\ snap \in [Sessions -> Snapshots]
    /\ sync \in {"idle", "read", "apply"} /\ syncSnap \in Definitions
    /\ gap \subseteq {"builder", "sync"}
    /\ stale \subseteq {"draft", "published", "bundle"}

\* Concurrent publishes, edits and builder calls never leave the live
\* definition naming a table that does not exist, with two exceptions: a schema
\* builder call that wrote back a definition published over since it read it,
\* and an unfinished sync of a bundled app.  The next publish or finished sync
\* repairs both (PublishAppDefinition, EnsurePublishedAppSchema).
PublishedTablesExist == gap = {} => published \cap Tables \subseteq physical

\* A table that exists belongs to the published definition, so that dropping
\* it from the definition drops it (reconcileDefinitionSchemaTx), as long as no
\* writer worked on a definition changed since, and no build dropped the table
\* from its bundle.
NoOrphanTables == stale \cap {"published", "bundle"} = {} => physical \subseteq published

\* The editor's "Draft and live app are in sync": the version counters say so
\* only of equal definitions (HasUnpublishedDraft in handlePageBuilder.go).
InSync == defVersion <= pubVersion => draft = published

\* It is true as long as every publish published the draft of its moment, also
\* through bundled syncs, which may put the published version ahead.
InSyncUnlessStale == "draft" \notin stale => InSync

\* The draft's version names its text: it never goes back, and a draft never
\* changes under an unchanged version, whoever writes it.
VersionNamesDraft ==
    [][defVersion' >= defVersion /\ (defVersion' = defVersion => draft' = draft)]_vars
=============================================================================
