-------------------------- MODULE AppLifecycleProofs --------------------------
(* Proofs about AppLifecycle, for every set of tables, sessions and bundles,  *)
(* and about its parts AutoNumber and SchemaJobs, for every set of requests,  *)
(* records, columns, tables and prefixes.                                     *)
EXTENDS MCAppLifecycle, Integers, WellFoundedInduction, SequenceTheorems, FiniteSetTheorems, TLAPS

RowTypes ==
    /\ draft \in Definitions /\ published \in Definitions
    /\ defVersion \in Nat /\ pubVersion \in Nat
    /\ physical \subseteq Tables

\* The versions the writers choose are numbers, and above both counters.
LEMMA NextVersionAbove ==
    ASSUME defVersion \in Nat, pubVersion \in Nat
    PROVE  NextVersion \in Nat /\ NextVersion > defVersion /\ NextVersion > pubVersion
BY DEF NextVersion, Greatest

\* What one request does, as the disjuncts the proofs go through.
LEMMA StepCases ==
    ASSUME Next
    PROVE  \/ \E s \in Sessions : EditRead(s) \/ PublishRead(s) \/ BuilderRead(s) \/ Abort(s)
           \/ \E s \in Sessions : EditSave(s)
           \/ \E s \in Sessions : PublishCommit(s)
           \/ \E s \in Sessions : CreateTable(s)
           \/ \E s \in Sessions : UpdateTable(s)
           \/ \E s \in Sessions : DeleteTable(s)
           \/ SyncUpsert \/ SyncRead \/ SyncApply \/ SyncCrash
BY DEF Next, Editor, Builder, Sync

\* An edit writes some definition as the draft and leaves the rest of the row.
LEMMA EditWrites ==
    ASSUME TypeOK, NEW s \in Sessions, EditSave(s)
    PROVE  \E d \in Definitions, next \in {"idle", "publish"} :
              /\ draft' = d
              /\ defVersion' = IF d = draft THEN defVersion ELSE NextVersion
              /\ pc' = [pc EXCEPT ![s] = next]
              /\ UNCHANGED <<published, pubVersion, physical, snap, sync, syncSnap, history>>
<1> snap[s].draft \in Definitions BY DEF TypeOK, Snapshots
<1>1. PICK d \in Definitions : SaveDraft(s, d, NextVersion)
  BY DEF EditSave, EditSaveAt, Definitions, Objects
<1> QED BY <1>1 DEF SaveDraft

-----------------------------------------------------------------------------
\* Every reachable state is typed (the _app row, the requests, the sync).
THEOREM TypeCorrect == Spec => []TypeOK
<1>1. Init => TypeOK
  BY LifecycleAssumption DEF Init, TypeOK, Definitions, Snapshots, Objects
<1>2. TypeOK /\ [Next]_vars => TypeOK'
  <2> SUFFICES ASSUME TypeOK, [Next]_vars PROVE TypeOK' OBVIOUS
  <2>0. NextVersion \in Nat BY NextVersionAbove DEF TypeOK
  <2>1. ASSUME NEW s \in Sessions, EditRead(s) \/ PublishRead(s) \/ BuilderRead(s) \/ Abort(s)
        PROVE TypeOK'
    <3>1. PICK state \in {"idle", "edit", "publish", "build"} : pc' = [pc EXCEPT ![s] = state]
      BY <2>1 DEF EditRead, PublishRead, BuilderRead, Abort, Read
    <3>2. pc' \in [Sessions -> {"idle", "edit", "publish", "build"}] BY <3>1 DEF TypeOK
    <3>3. snap' = snap \/ snap' = [snap EXCEPT ![s] = [draft |-> draft, published |-> published]]
      BY <2>1 DEF EditRead, PublishRead, BuilderRead, Abort, Read
    <3>4. [draft |-> draft, published |-> published] \in Snapshots BY DEF TypeOK, Snapshots
    <3>5. snap' \in [Sessions -> Snapshots] BY <3>3, <3>4 DEF TypeOK
    <3>6. UNCHANGED <<row, physical, sync, syncSnap, history>>
      BY <2>1 DEF EditRead, PublishRead, BuilderRead, Abort, Read
    <3> QED BY <3>2, <3>5, <3>6 DEF TypeOK, row, history
  <2>2. ASSUME NEW s \in Sessions, EditSave(s) PROVE TypeOK'
    BY <2>0, <2>2, EditWrites DEF TypeOK, history
  <2>3. ASSUME NEW s \in Sessions, PublishCommit(s) PROVE TypeOK'
    BY <2>3 DEF PublishCommit, PublishWith, Ensured, Dropped, Greatest, TypeOK, Snapshots
  <2>4. ASSUME NEW s \in Sessions, CreateTable(s) PROVE TypeOK'
    BY <2>0, <2>4 DEF CreateTable, SaveBoth, TypeOK, Snapshots, Definitions, Objects, history
  <2>5. ASSUME NEW s \in Sessions, UpdateTable(s) PROVE TypeOK'
    BY <2>0, <2>5 DEF UpdateTable, SaveBoth, TypeOK, Snapshots, history
  <2>6. ASSUME NEW s \in Sessions, DeleteTable(s) PROVE TypeOK'
    BY <2>0, <2>6 DEF DeleteTable, SaveBoth, TypeOK, Snapshots, Definitions,
                      history
  <2>7. ASSUME SyncUpsert PROVE TypeOK'
    BY <2>0, <2>7, LifecycleAssumption DEF SyncUpsert, TypeOK, Definitions, Objects
  <2>8. ASSUME SyncRead \/ SyncApply \/ SyncCrash PROVE TypeOK'
    BY <2>8 DEF SyncRead, SyncApply, SyncCrash, Ensured, TypeOK, row, history
  <2>9. ASSUME UNCHANGED vars PROVE TypeOK'
    BY <2>9 DEF vars, row, history, TypeOK
  <2> QED BY <2>1, <2>2, <2>3, <2>4, <2>5, <2>6, <2>7, <2>8, <2>9, StepCases
<1> QED BY <1>1, <1>2, PTL DEF Spec

\* A live definition never names a missing table, except after a stale builder
\* write or within a sync (PublishAppDefinition, saveAppDefinitionTx).
THEOREM LiveTablesExist == Spec => []PublishedTablesExist
<1>1. Init => PublishedTablesExist BY DEF Init, PublishedTablesExist
<1>2. TypeOK /\ PublishedTablesExist /\ [Next]_vars => PublishedTablesExist'
  <2> SUFFICES ASSUME TypeOK, PublishedTablesExist, [Next]_vars PROVE PublishedTablesExist'
    OBVIOUS
  <2>1. ASSUME NEW s \in Sessions, EditRead(s) \/ PublishRead(s) \/ BuilderRead(s) \/ Abort(s)
        PROVE PublishedTablesExist'
    BY <2>1 DEF EditRead, PublishRead, BuilderRead, Abort, Read, PublishedTablesExist, row, history
  <2>2. ASSUME NEW s \in Sessions, EditSave(s) PROVE PublishedTablesExist'
    BY <2>2, EditWrites DEF PublishedTablesExist, history
  <2>3. ASSUME NEW s \in Sessions, PublishCommit(s) PROVE PublishedTablesExist'
    BY <2>3 DEF PublishCommit, PublishWith, Ensured, PublishedTablesExist
  <2>4. ASSUME NEW s \in Sessions, CreateTable(s) PROVE PublishedTablesExist'
    BY <2>4 DEF CreateTable, SaveBoth, PublishedTablesExist, history
  <2>5. ASSUME NEW s \in Sessions, UpdateTable(s) PROVE PublishedTablesExist'
    BY <2>5 DEF UpdateTable, SaveBoth, PublishedTablesExist, history
  <2>6. ASSUME NEW s \in Sessions, DeleteTable(s) PROVE PublishedTablesExist'
    BY <2>6 DEF DeleteTable, SaveBoth, PublishedTablesExist, history
  <2>7. ASSUME SyncUpsert PROVE PublishedTablesExist'
    BY <2>7 DEF SyncUpsert, PublishedTablesExist
  <2>8. ASSUME SyncRead \/ SyncApply \/ SyncCrash PROVE PublishedTablesExist'
    BY <2>8 DEF SyncRead, SyncApply, SyncCrash, Ensured, PublishedTablesExist, row, history
  <2>9. ASSUME UNCHANGED vars PROVE PublishedTablesExist'
    BY <2>9 DEF vars, row, history, PublishedTablesExist
  <2> QED BY <2>1, <2>2, <2>3, <2>4, <2>5, <2>6, <2>7, <2>8, <2>9, StepCases
<1> QED BY <1>1, <1>2, TypeCorrect, PTL DEF Spec

\* No orphan table as long as no writer was stale (reconcileDefinitionSchemaTx).
THEOREM TablesBelong == Spec => []NoOrphanTables
<1>1. Init => NoOrphanTables BY DEF Init, NoOrphanTables
<1>2. TypeOK /\ NoOrphanTables /\ [Next]_vars => NoOrphanTables'
  <2> SUFFICES ASSUME TypeOK, NoOrphanTables, [Next]_vars PROVE NoOrphanTables' OBVIOUS
  <2>1. ASSUME NEW s \in Sessions, EditRead(s) \/ PublishRead(s) \/ BuilderRead(s) \/ Abort(s)
        PROVE NoOrphanTables'
    BY <2>1 DEF EditRead, PublishRead, BuilderRead, Abort, Read, NoOrphanTables, row, history
  <2>2. ASSUME NEW s \in Sessions, EditSave(s) PROVE NoOrphanTables'
    BY <2>2, EditWrites DEF NoOrphanTables, history
  <2>3. ASSUME NEW s \in Sessions, PublishCommit(s) PROVE NoOrphanTables'
    BY <2>3 DEF PublishCommit, PublishWith, Ensured, Dropped, NoOrphanTables, TypeOK
  <2>4. ASSUME NEW s \in Sessions, CreateTable(s) PROVE NoOrphanTables'
    BY <2>4 DEF CreateTable, SaveBoth, NoOrphanTables, history
  <2>5. ASSUME NEW s \in Sessions, UpdateTable(s) PROVE NoOrphanTables'
    BY <2>5 DEF UpdateTable, SaveBoth, NoOrphanTables, history
  <2>6. ASSUME NEW s \in Sessions, DeleteTable(s) PROVE NoOrphanTables'
    BY <2>6 DEF DeleteTable, SaveBoth, NoOrphanTables, history
  <2>7. ASSUME SyncUpsert PROVE NoOrphanTables'
    BY <2>7 DEF SyncUpsert, Dropped, NoOrphanTables, TypeOK
  <2>8. ASSUME SyncRead \/ SyncApply \/ SyncCrash PROVE NoOrphanTables'
    BY <2>8 DEF SyncRead, SyncApply, SyncCrash, Ensured, NoOrphanTables, row, history
  <2>9. ASSUME UNCHANGED vars PROVE NoOrphanTables'
    BY <2>9 DEF vars, row, history, NoOrphanTables
  <2> QED BY <2>1, <2>2, <2>3, <2>4, <2>5, <2>6, <2>7, <2>8, <2>9, StepCases
<1> QED BY <1>1, <1>2, TypeCorrect, PTL DEF Spec

\* Equal versions mean equal definitions unless a publish was stale
\* (HasUnpublishedDraft, SaveAppDefinition, PublishAppDefinition).
THEOREM VersionsTellSync == Spec => []InSyncUnlessStale
<1>1. Init => InSyncUnlessStale BY DEF Init, InSyncUnlessStale, InSync
<1>2. TypeOK /\ InSyncUnlessStale /\ [Next]_vars => InSyncUnlessStale'
  <2> SUFFICES ASSUME TypeOK, InSyncUnlessStale, [Next]_vars PROVE InSyncUnlessStale' OBVIOUS
  <2>0. NextVersion \in Nat /\ NextVersion > defVersion /\ NextVersion > pubVersion
    BY NextVersionAbove DEF TypeOK
  <2>1. ASSUME NEW s \in Sessions, EditRead(s) \/ PublishRead(s) \/ BuilderRead(s) \/ Abort(s)
        PROVE InSyncUnlessStale'
    BY <2>1 DEF EditRead, PublishRead, BuilderRead, Abort, Read, InSyncUnlessStale, InSync, row, history
  <2>2. ASSUME NEW s \in Sessions, EditSave(s) PROVE InSyncUnlessStale'
    <3>1. PICK d \in Definitions :
             /\ draft' = d
             /\ defVersion' = IF d = draft THEN defVersion ELSE NextVersion
             /\ UNCHANGED <<published, pubVersion, stale>>
      BY <2>2, EditWrites DEF history
    <3> QED BY <2>0, <3>1 DEF InSyncUnlessStale, InSync, TypeOK
  <2>3. ASSUME NEW s \in Sessions, PublishCommit(s) PROVE InSyncUnlessStale'
    BY <2>3 DEF PublishCommit, PublishWith, InSyncUnlessStale, InSync
  <2>4. ASSUME NEW s \in Sessions, CreateTable(s) \/ UpdateTable(s) \/ DeleteTable(s)
        PROVE InSyncUnlessStale'
    BY <2>4 DEF CreateTable, UpdateTable, DeleteTable, SaveBoth,
                InSyncUnlessStale, InSync
  <2>5. ASSUME SyncUpsert PROVE InSyncUnlessStale'
    BY <2>5 DEF SyncUpsert, InSyncUnlessStale, InSync
  <2>6. ASSUME SyncRead \/ SyncApply \/ SyncCrash PROVE InSyncUnlessStale'
    BY <2>6 DEF SyncRead, SyncApply, SyncCrash, InSyncUnlessStale, InSync, row, history
  <2>7. ASSUME UNCHANGED vars PROVE InSyncUnlessStale'
    BY <2>7 DEF vars, row, history, InSyncUnlessStale, InSync
  <2> QED BY <2>1, <2>2, <2>3, <2>4, <2>5, <2>6, <2>7, StepCases
<1> QED BY <1>1, <1>2, TypeCorrect, PTL DEF Spec

\* A draft never changes under an unchanged version (SaveAppDefinition,
\* saveAppDefinitionTx, syncBundledAppDefinition).
THEOREM DraftVersions == Spec => VersionNamesDraft
<1> DEFINE Named == defVersion' >= defVersion /\ (defVersion' = defVersion => draft' = draft)
<1>1. TypeOK /\ [Next]_vars => [Named]_vars
  <2> SUFFICES ASSUME TypeOK, Next PROVE Named OBVIOUS
  <2>0. NextVersion \in Nat /\ NextVersion > defVersion
    BY NextVersionAbove DEF TypeOK
  <2>1. ASSUME NEW s \in Sessions, EditSave(s) PROVE Named
    <3>1. PICK d \in Definitions :
             draft' = d /\ defVersion' = IF d = draft THEN defVersion ELSE NextVersion
      BY <2>1, EditWrites
    <3> QED BY <2>0, <3>1 DEF TypeOK
  <2>2. ASSUME NEW s \in Sessions, CreateTable(s) \/ UpdateTable(s) \/ DeleteTable(s) PROVE Named
    BY <2>0, <2>2 DEF CreateTable, UpdateTable, DeleteTable, SaveBoth, TypeOK
  <2>3. ASSUME SyncUpsert PROVE Named
    BY <2>0, <2>3 DEF SyncUpsert, TypeOK
  <2>4. ASSUME NEW s \in Sessions,
               EditRead(s) \/ PublishRead(s) \/ BuilderRead(s) \/ Abort(s) \/ PublishCommit(s)
        PROVE Named
    BY <2>4 DEF EditRead, PublishRead, BuilderRead, Abort, Read, PublishCommit, PublishWith, row, TypeOK
  <2>5. ASSUME SyncRead \/ SyncApply \/ SyncCrash PROVE Named
    BY <2>5 DEF SyncRead, SyncApply, SyncCrash, row, TypeOK
  <2> QED BY <2>1, <2>2, <2>3, <2>4, <2>5, StepCases
<1> QED BY <1>1, TypeCorrect, PTL DEF Spec, VersionNamesDraft

-----------------------------------------------------------------------------
(* Numbers in tables (AutoNumber).  Transactions of one statement, the saves *)
(* and the changes of one column, are never caught in a circle of locks.     *)

TxFields == {"kind", "todo", "stage", "shared", "alone", "new", "count", "config", "cut"}
TxShape ==
    /\ DOMAIN tx = Procs /\ tx = [p \in Procs |-> tx[p]]
    /\ \A p \in Procs : DOMAIN tx[p] = TxFields
\* A save or a change of one column has one step: until it is done the
\* transaction has written nothing and holds no counter, and before it has the
\* table it holds nothing at all.
ShortForm(r) ==
    r.todo # <<>> =>
        /\ r.todo = <<Head(r.todo)>> /\ r.stage \in {1, 2}
        /\ DOMAIN r.new = {} /\ DOMAIN r.count = {}
        /\ r.stage = 1 => r.shared = {} /\ r.alone = {}
TxForm(r) ==
    /\ r.kind = "idle" => r = Numbers!Idle
    /\ r.kind \in {"save", "column"} => ShortForm(r)
NumbersInv == TxShape /\ \A p \in Procs : TxForm(tx[p])

\* A step of one transaction leaves the others as they are.
LEMMA OneTxReplaced ==
    ASSUME NumbersInv, NEW p \in Procs, NEW r, tx' = [tx EXCEPT ![p] = r],
           DOMAIN r = TxFields, TxForm(r)
    PROVE  NumbersInv'
<1>1. DOMAIN tx' = Procs /\ tx' = [q \in Procs |-> tx'[q]]
    BY DEF NumbersInv, TxShape
<1>2. \A q \in Procs : tx'[q] = IF q = p THEN r ELSE tx[q]
    BY DEF NumbersInv, TxShape
<1>3. \A q \in Procs : DOMAIN tx'[q] = TxFields
    BY <1>2 DEF NumbersInv, TxShape
<1>4. \A q \in Procs : TxForm(tx'[q])
    BY <1>2 DEF NumbersInv
<1> HIDE DEF TxForm, TxFields
<1> QED BY <1>1, <1>3, <1>4 DEF NumbersInv, TxShape

\* Who waits for a counter waits for a transaction that has drawn from it, and
\* who waits for a table or a record for one that holds it (base_next_autnumber,
\* the row lock of an UPDATE, the table lock of ALTER TABLE).
LEMMA BlockedAtCounter ==
    ASSUME NEW p, NEW q, Numbers!Blocks(q, p), Numbers!StageOf(p) = "counter"
    PROVE  Numbers!KeyOf(p) \in DOMAIN tx[q].count
    BY DEF Numbers!Blocks

LEMMA BlockedAtTable ==
    ASSUME NEW p, NEW q, Numbers!Blocks(q, p), Numbers!StageOf(p) # "counter"
    PROVE  \/ Numbers!On(p) \in tx[q].shared \/ Numbers!On(p) \in tx[q].alone
           \/ Numbers!Op(p).on \in DOMAIN tx[q].new
    BY DEF Numbers!Blocks

\* In a circle everybody waits, so nobody has a counter; nobody can then wait for
\* one; so all wait for their table, and nobody has one.
LEMMA ShortCirclesNever == NumbersInv => Numbers!OnlyLongOnesDeadlock
<1> SUFFICES ASSUME NumbersInv, NEW circle \in (SUBSET Numbers!Short) \ {{}},
                    \A p \in circle : \E q \in circle : Numbers!Blocks(q, p)
             PROVE  FALSE
    BY Zenon DEF Numbers!OnlyLongOnesDeadlock
<1> circle \in SUBSET Numbers!Short /\ circle # {}
    OBVIOUS
<1>1. \A p \in circle : p \in Procs /\ ShortForm(tx[p]) /\ tx[p].todo # <<>>
    BY DEF NumbersInv, TxForm, Numbers!Short, Numbers!Blocks
<1>2. \A p \in circle : DOMAIN tx[p].new = {} /\ DOMAIN tx[p].count = {} /\ tx[p].stage \in {1, 2}
                        /\ (tx[p].stage = 1 => tx[p].shared = {} /\ tx[p].alone = {})
    BY <1>1 DEF ShortForm
<1>3. \A p \in circle : tx[p].stage = 1
    <2> SUFFICES ASSUME NEW p \in circle, tx[p].stage # 1 PROVE FALSE
        OBVIOUS
    <2>1. Numbers!StageOf(p) = "counter"
        BY <1>2 DEF Numbers!StageOf, Numbers!Stages
    <2>2. PICK q \in circle : Numbers!Blocks(q, p)
        OBVIOUS
    <2> QED BY <2>1, <2>2, <1>2, BlockedAtCounter
<1>4. PICK p \in circle : TRUE
    OBVIOUS
<1>5. PICK q \in circle : Numbers!Blocks(q, p)
    OBVIOUS
<1>6. Numbers!StageOf(p) = "table"
    BY <1>3 DEF Numbers!StageOf, Numbers!Stages
<1> QED BY <1>5, <1>6, <1>2, <1>3, BlockedAtTable

\* A transaction that has ended holds nothing.
LEMMA IdleFits == DOMAIN Numbers!Idle = TxFields /\ TxForm(Numbers!Idle)
    BY DEF Numbers!Idle, TxFields, TxForm, ShortForm

\* At the start no transaction is under way.
LEMMA NumbersStart == Numbers!Init => NumbersInv
<1> SUFFICES ASSUME Numbers!Init PROVE NumbersInv
    OBVIOUS
<1>1. tx = [p \in Procs |-> Numbers!Idle]
    BY DEF Numbers!Init
<1> QED BY <1>1, IdleFits DEF NumbersInv, TxShape

\* Save, Script, ChangeColumn and Publish begin with nothing held.
LEMMA BeginKeepsForms ==
    ASSUME NumbersInv, NEW p \in Procs, NEW kind, NEW todo, Numbers!Begin(p, kind, todo),
           kind # "idle", kind \in {"save", "column"} => todo = <<Head(todo)>>
    PROVE  NumbersInv'
<1> DEFINE r == [tx[p] EXCEPT !.kind = kind, !.todo = todo]
<1>1. tx[p] = Numbers!Idle /\ DOMAIN tx = Procs
    BY DEF NumbersInv, TxShape, TxForm, Numbers!Begin, Numbers!Ready
<1>2. tx' = [tx EXCEPT ![p] = r]
    BY <1>1 DEF Numbers!Begin
<1>3. DOMAIN r = TxFields
    BY <1>1 DEF Numbers!Idle, TxFields
<1>4. /\ r.kind = kind /\ r.todo = todo /\ r.stage = 1 /\ r.shared = {} /\ r.alone = {}
      /\ DOMAIN r.new = {} /\ DOMAIN r.count = {}
    BY <1>1 DEF Numbers!Idle, Numbers!Empty
<1>5. TxForm(r)
    BY <1>4 DEF TxForm, ShortForm
<1> HIDE DEF r
<1> QED BY <1>2, <1>3, <1>5, OneTxReplaced

\* After the only step nothing is left to do.
LEMMA OneStepLeft ==
    ASSUME NEW op, NEW todo, todo = <<op>>
    PROVE  Tail(todo) = <<>>
    OBVIOUS

\* The trigger and the renumbering, which draw from the counter, are the last
\* step of a short transaction.
LEMMA LastStepDone ==
    ASSUME NumbersInv, NEW p \in Procs, tx[p].kind # "idle", Numbers!At(p, "counter"),
           NEW r, DOMAIN r = TxFields, r.kind = tx[p].kind, r.todo = Numbers!Advanced(p).todo,
           tx' = [tx EXCEPT ![p] = r]
    PROVE  NumbersInv'
<1>1. tx[p].kind \in {"save", "column"} => r.todo = <<>>
    <2> SUFFICES ASSUME tx[p].kind \in {"save", "column"} PROVE r.todo = <<>>
        OBVIOUS
    <2>1. tx[p].todo = <<Head(tx[p].todo)>> /\ tx[p].stage \in {1, 2}
        BY DEF NumbersInv, TxForm, ShortForm, Numbers!At, Numbers!Free
    <2>2. tx[p].stage = 2
        BY <2>1 DEF Numbers!At, Numbers!StageOf, Numbers!Stages
    <2>3. Numbers!Advanced(p).todo = Tail(tx[p].todo)
        BY <2>2 DEF Numbers!Advanced, NumbersInv, TxShape, TxFields
    <2> QED BY <2>1, <2>3, OneStepLeft
<1>2. TxForm(r)
    BY <1>1 DEF TxForm, ShortForm
<1> QED BY <1>2, OneTxReplaced

\* Going on changes neither the kind nor the shape of a transaction.
LEMMA AdvancedShape ==
    ASSUME NumbersInv, NEW p \in Procs
    PROVE  DOMAIN Numbers!Advanced(p) = TxFields /\ Numbers!Advanced(p).kind = tx[p].kind
    BY DEF Numbers!Advanced, NumbersInv, TxShape, TxFields

\* A statement that takes its table keeps the rest.
LEMMA TakeTableKeepsForms ==
    ASSUME NumbersInv, NEW p \in Procs, Numbers!TakeTable(p)
    PROVE  NumbersInv'
<1>1. tx[p].todo # <<>> /\ Numbers!StageOf(p) = "table"
    BY DEF Numbers!TakeTable, Numbers!At, Numbers!Free
<1>2. tx[p].kind # "idle"
    BY <1>1 DEF NumbersInv, TxForm, Numbers!Idle
<1>3. PICK r : /\ tx' = [tx EXCEPT ![p] = r] /\ DOMAIN r = TxFields /\ r.kind = tx[p].kind
               /\ r.todo = Numbers!Advanced(p).todo /\ r.stage = Numbers!Advanced(p).stage
               /\ r.new = Numbers!Advanced(p).new /\ r.count = Numbers!Advanced(p).count
    <2> DEFINE a == Numbers!Advanced(p)
               u1 == [a EXCEPT !.alone = @ \cup {Numbers!On(p)}]
               u2 == [a EXCEPT !.shared = @ \cup {Numbers!On(p)}]
    <2>0. DOMAIN a = TxFields /\ a.kind = tx[p].kind
        BY AdvancedShape
    <2>1. tx' = [tx EXCEPT ![p] = u1] \/ tx' = [tx EXCEPT ![p] = u2]
        BY DEF Numbers!TakeTable
    <2> HIDE DEF a
    <2>2. /\ DOMAIN u1 = TxFields /\ u1.kind = tx[p].kind /\ u1.todo = a.todo
          /\ u1.stage = a.stage /\ u1.new = a.new /\ u1.count = a.count
        BY <2>0 DEF TxFields
    <2>3. /\ DOMAIN u2 = TxFields /\ u2.kind = tx[p].kind /\ u2.todo = a.todo
          /\ u2.stage = a.stage /\ u2.new = a.new /\ u2.count = a.count
        BY <2>0 DEF TxFields
    <2> HIDE DEF u1, u2
    <2> QED BY <2>1, <2>2, <2>3 DEF a
<1>4. ASSUME tx[p].kind \in {"save", "column"} PROVE ShortForm(r)
    <2>1. ShortForm(tx[p])
        BY <1>4 DEF NumbersInv, TxForm
    <2>2. tx[p].stage = 1
        BY <2>1, <1>1 DEF ShortForm, Numbers!StageOf, Numbers!Stages
    <2>3. r.todo = tx[p].todo /\ r.stage = 2 /\ r.new = tx[p].new /\ r.count = tx[p].count
        BY <2>2, <1>3 DEF Numbers!Advanced, NumbersInv, TxShape, TxFields
    <2> QED BY <2>1, <2>3 DEF ShortForm
<1>5. TxForm(r)
    BY <1>2, <1>3, <1>4 DEF TxForm
<1> QED BY <1>3, <1>5, OneTxReplaced

\* base_autnumber_before_write ends a save's only step.
LEMMA WriteKeepsForms ==
    ASSUME NumbersInv, NEW p \in Procs, Numbers!Write(p)
    PROVE  NumbersInv'
<1>1. Numbers!At(p, "counter") /\ tx[p].todo # <<>>
    BY DEF Numbers!Write, Numbers!At, Numbers!Free
<1>2. tx[p].kind # "idle"
    BY <1>1 DEF NumbersInv, TxForm, Numbers!Idle
<1>3. \E number, count, cut : Numbers!Wrote(p, Numbers!Op(p).on, number, count, cut)
    BY DEF Numbers!Write
<1>4. PICK number, count, cut : Numbers!Wrote(p, Numbers!Op(p).on, number, count, cut)
    BY <1>3
<1> DEFINE a == Numbers!Advanced(p)
<1>5. PICK new, cut2 : tx' = [tx EXCEPT ![p] = [a EXCEPT !.new = new, !.count = count, !.cut = cut2]]
    BY <1>4, Zenon DEF Numbers!Wrote
<1> HIDE DEF a
<1> DEFINE r == [a EXCEPT !.new = new, !.count = count, !.cut = cut2]
<1>6. DOMAIN r = TxFields /\ r.kind = tx[p].kind /\ r.todo = a.todo
    BY AdvancedShape DEF TxFields, a
<1> HIDE DEF r
<1> QED BY <1>1, <1>2, <1>5, <1>6, LastStepDone DEF a, r

\* applyTableAutoNumberStateTx ends a column change's only step.
LEMMA SchemaKeepsForms ==
    ASSUME NumbersInv, NEW p \in Procs, Numbers!Schema(p)
    PROVE  NumbersInv'
<1>1. Numbers!At(p, "counter") /\ tx[p].todo # <<>>
    BY DEF Numbers!Schema, Numbers!At, Numbers!Free
<1>2. tx[p].kind # "idle"
    BY <1>1 DEF NumbersInv, TxForm, Numbers!Idle
<1> DEFINE a == Numbers!Advanced(p)
<1>3. PICK new, count, cut : Numbers!Became(p, new, count, cut)
    BY DEF Numbers!Schema
<1>4. PICK new2, config2, cut2 :
        tx' = [tx EXCEPT ![p] = [a EXCEPT !.new = new2, !.count = count, !.cut = cut2, !.config = config2]]
    BY <1>3, Zenon DEF Numbers!Became
<1> HIDE DEF a
<1> DEFINE r == [a EXCEPT !.new = new2, !.count = count, !.cut = cut2, !.config = config2]
<1>5. DOMAIN r = TxFields /\ r.kind = tx[p].kind /\ r.todo = a.todo
    BY AdvancedShape DEF TxFields, a
<1> HIDE DEF r
<1> QED BY <1>1, <1>2, <1>4, <1>5, LastStepDone DEF a, r

\* Every step keeps the forms.
LEMMA NumbersStep ==
    ASSUME NumbersInv, [Numbers!Next]_(Numbers!vars)
    PROVE  NumbersInv'
<1>1. ASSUME NEW p \in Procs, Numbers!Save(p) PROVE NumbersInv'
    <2>1. PICK w \in Numbers!Writes : Numbers!Begin(p, "save", <<w>>)
        BY <1>1 DEF Numbers!Save
    <2> QED BY <2>1, BeginKeepsForms
<1>2. ASSUME NEW p \in Procs, Numbers!Script(p) PROVE NumbersInv'
    <2>1. PICK todo : Numbers!Begin(p, "script", todo)
        BY <1>2 DEF Numbers!Script
    <2> QED BY <2>1, BeginKeepsForms
<1>3. ASSUME NEW p \in Procs, Numbers!ChangeColumn(p) PROVE NumbersInv'
    <2>1. PICK op : Numbers!Begin(p, "column", <<op>>)
        BY <1>3 DEF Numbers!ChangeColumn
    <2> QED BY <2>1, BeginKeepsForms
<1>4. ASSUME NEW p \in Procs, Numbers!Publish(p) PROVE NumbersInv'
    <2>1. PICK todo : Numbers!Begin(p, "publish", todo)
        BY <1>4 DEF Numbers!Publish
    <2> QED BY <2>1, BeginKeepsForms
<1>5. ASSUME NEW p \in Procs, Numbers!Commit(p) \/ Numbers!Fail(p) PROVE NumbersInv'
    <2>1. tx' = [tx EXCEPT ![p] = Numbers!Idle]
        BY <1>5 DEF Numbers!Commit, Numbers!Fail
    <2> QED BY <2>1, IdleFits, OneTxReplaced
<1>6. ASSUME NEW scopes \in Pruned, Numbers!Forget(scopes) PROVE NumbersInv'
    BY <1>6 DEF Numbers!Forget, NumbersInv, TxShape
<1>7. ASSUME UNCHANGED Numbers!vars PROVE NumbersInv'
    BY <1>7 DEF Numbers!vars, NumbersInv, TxShape
<1> QED BY <1>1, <1>2, <1>3, <1>4, <1>5, <1>6, <1>7, TakeTableKeepsForms, WriteKeepsForms, SchemaKeepsForms DEF Numbers!Next

\* Saves of one record and changes of one column never wait for each other in a
\* circle, however many run at once: a statement of the trigger or of
\* applyTableAutoNumberStateTx that PostgreSQL cancels for a deadlock belongs to
\* a script that writes several records or to a publish of several tables.
THEOREM ShortNeverDeadlock == Numbers!Spec => []OnlyLongOnesDeadlock
<1>1. NumbersInv => OnlyLongOnesDeadlock
    BY ShortCirclesNever DEF OnlyLongOnesDeadlock
<1> QED BY <1>1, NumbersStart, NumbersStep, PTL DEF Numbers!Spec

-----------------------------------------------------------------------------
(* Schema jobs (SchemaJobs).  What the community modules' FlattenSeq gives,    *)
(* by induction over the number of sequences.                                *)

\* Induction over the numbers, for a set: the least number outside it would
\* have a predecessor inside it.
LEMMA SetInduction ==
    ASSUME NEW S, 0 \in S, \A n \in Nat : n \in S => n + 1 \in S
    PROVE  Nat \subseteq S
<1> DEFINE T == Nat \ S
           R == {ss \in Nat \X Nat : ss[1] < ss[2]}
<1>1. IsWellFoundedOn(R, Nat)
    BY NatLessThanWellFounded DEF OpToRel
<1> HIDE DEF R
<1>2. SUFFICES ASSUME T # {} PROVE FALSE
    OBVIOUS
<1>3. T \subseteq Nat
    OBVIOUS
<1> HIDE DEF T
<1>4. \E m \in T : \A k \in T : ~(<<k, m>> \in R)
    BY <1>1, <1>2, <1>3, WFMin, Zenon
<1>5. PICK m \in T : \A k \in T : ~(<<k, m>> \in R)
    BY <1>4
<1>a. m \in Nat /\ m \notin S
    BY <1>5 DEF T
<1>6. m \in Nat /\ m - 1 \in Nat
    BY <1>a
<1>b. \A i, j \in Nat : i < j => <<i, j>> \in R
    BY DEF R
<1>7. m - 1 \in S
    <2>1. <<m - 1, m>> \in R
       BY <1>6, <1>b
    <2> QED BY <1>5, <1>6, <2>1 DEF T
<1> QED BY <1>5, <1>6, <1>7 DEF T

\* The accumulator of FlattenSeq, as far as n.
Flat(seqs, n, g) == \A i \in 1 .. n : g[i] = IF i = 1 THEN seqs[i] ELSE g[i - 1] \o seqs[i]

\* Such an accumulator exists for every sequence of sequences.
LEMMA FlatExists ==
    ASSUME NEW S, NEW seqs \in Seq(Seq(S))
    PROVE  \A n \in 0 .. Len(seqs) : \E g \in [1 .. n -> Seq(S)] : Flat(seqs, n, g)
<1> DEFINE A == {n \in Nat : n <= Len(seqs) => \E g \in [1 .. n -> Seq(S)] : Flat(seqs, n, g)}
<1>1. 0 \in A
    <2> DEFINE none == [i \in 1 .. 0 |-> seqs]
    <2>1. none \in [1 .. 0 -> Seq(S)]
        OBVIOUS
    <2>2. Flat(seqs, 0, none)
        BY DEF Flat
    <2> HIDE DEF none
    <2> QED BY <2>1, <2>2
<1>2. ASSUME NEW n \in Nat, n \in A PROVE n + 1 \in A
    <2> SUFFICES ASSUME n + 1 <= Len(seqs) PROVE \E g \in [1 .. n + 1 -> Seq(S)] : Flat(seqs, n + 1, g)
        OBVIOUS
    <2>1. PICK g \in [1 .. n -> Seq(S)] : Flat(seqs, n, g)
        BY <1>2
    <2>2. seqs[n + 1] \in Seq(S)
        OBVIOUS
    <2> DEFINE last == IF n + 1 = 1 THEN seqs[n + 1] ELSE g[n] \o seqs[n + 1]
               h == [i \in 1 .. n + 1 |-> IF i = n + 1 THEN last ELSE g[i]]
    <2>3. last \in Seq(S)
        <3>1. CASE n = 0
            BY <3>1, <2>2
        <3>2. CASE n # 0
            <4>1. g[n] \in Seq(S)
                BY <3>2
            <4> QED BY <4>1, <2>2, <3>2
        <3> QED BY <3>1, <3>2
    <2>4. h \in [1 .. n + 1 -> Seq(S)]
        <3> HIDE DEF last
        <3> QED BY <2>3
    <2>5. ASSUME NEW i \in 1 .. n + 1 PROVE h[i] = IF i = 1 THEN seqs[i] ELSE h[i - 1] \o seqs[i]
        <3>1. CASE i = n + 1
            <4>1. h[i] = last
                BY <3>1
            <4>2. i # 1 => h[i - 1] = g[n]
                BY <3>1
            <4> QED BY <3>1, <4>1, <4>2
        <3>2. CASE i # n + 1
            <4>1. i \in 1 .. n
                BY <3>2
            <4>2. g[i] = IF i = 1 THEN seqs[i] ELSE g[i - 1] \o seqs[i]
                BY <4>1, <2>1 DEF Flat
            <4>3. h[i] = g[i]
                BY <4>1, <3>2
            <4>4. i # 1 => i - 1 \in 1 .. n + 1 /\ i - 1 # n + 1
                BY <4>1
            <4>5. i # 1 => h[i - 1] = g[i - 1]
                BY <4>4
            <4> QED BY <4>2, <4>3, <4>5
        <3> QED BY <3>1, <3>2
    <2> HIDE DEF h
    <2> QED BY <2>4, <2>5 DEF Flat
<1> HIDE DEF A
<1>3. Nat \subseteq A
    BY <1>1, <1>2, SetInduction
<1>4. ASSUME NEW n \in 0 .. Len(seqs) PROVE n \in A /\ n <= Len(seqs)
    BY <1>3
<1> QED BY <1>4 DEF A

\* So FlattenSeq, which chooses one, obeys its recursion.
LEMMA FlattenRecursion ==
    ASSUME NEW S, NEW seqs \in Seq(Seq(S)), Len(seqs) # 0
    PROVE  \E c : /\ Schema!FlattenSeq(seqs) = c[Len(seqs)]
                  /\ \A i \in 1 .. Len(seqs) : c[i] = IF i = 1 THEN seqs[i] ELSE c[i - 1] \o seqs[i]
<1> DEFINE F(f) == f = [i \in 1 .. Len(seqs) |-> IF i = 1 THEN seqs[i] ELSE f[i - 1] \o seqs[i]]
<1>1. PICK g \in [1 .. Len(seqs) -> Seq(S)] : Flat(seqs, Len(seqs), g)
    BY FlatExists
<1>2. F(g)
    BY <1>1 DEF Flat
<1> DEFINE c == CHOOSE f : F(f)
<1>3. F(c)
    BY <1>2, Zenon
<1>4. Schema!FlattenSeq(seqs) = c[Len(seqs)]
    BY Zenon DEF Schema!FlattenSeq
<1> HIDE DEF c
<1>5. \A i \in 1 .. Len(seqs) : c[i] = IF i = 1 THEN seqs[i] ELSE c[i - 1] \o seqs[i]
    BY <1>3
<1> QED BY <1>4, <1>5

\* Flattening sequences over a set gives a sequence over that set: the lists
\* of steps buildSchemaPlanSteps appends, column by column.
LEMMA FlattenSeqType ==
    ASSUME NEW S, NEW seqs \in Seq(Seq(S))
    PROVE  Schema!FlattenSeq(seqs) \in Seq(S)
<1>1. CASE Len(seqs) = 0
    BY <1>1 DEF Schema!FlattenSeq
<1>2. CASE Len(seqs) # 0
    <2>1. PICK c : /\ Schema!FlattenSeq(seqs) = c[Len(seqs)]
                   /\ \A i \in 1 .. Len(seqs) : c[i] = IF i = 1 THEN seqs[i] ELSE c[i - 1] \o seqs[i]
        BY <1>2, FlattenRecursion
    <2> DEFINE B == {n \in Nat : n + 1 <= Len(seqs) => c[n + 1] \in Seq(S)}
    <2>2. 0 \in B
        BY <2>1, <1>2
    <2>3. ASSUME NEW n \in Nat, n \in B PROVE n + 1 \in B
        <3> SUFFICES ASSUME n + 2 <= Len(seqs) PROVE c[n + 2] \in Seq(S)
            OBVIOUS
        <3>1. c[n + 1] \in Seq(S) /\ seqs[n + 2] \in Seq(S)
            BY <2>3
        <3>2. n + 2 \in 1 .. Len(seqs) /\ n + 2 # 1 /\ (n + 2) - 1 = n + 1
            OBVIOUS
        <3>3. c[n + 2] = c[n + 1] \o seqs[n + 2]
            BY <2>1, <3>2
        <3> QED BY <3>1, <3>3
    <2> HIDE DEF B
    <2>4. Nat \subseteq B
        BY <2>2, <2>3, SetInduction
    <2>5. Len(seqs) - 1 \in B
        BY <2>4, <1>2
    <2> QED BY <2>1, <2>5, <1>2 DEF B
<1> QED BY <1>1, <1>2

\* Flattening loses nothing: every element of every sequence is in the
\* result.
LEMMA FlattenSeqCovers ==
    ASSUME NEW S, NEW seqs \in Seq(Seq(S)), NEW i \in 1 .. Len(seqs), NEW k \in 1 .. Len(seqs[i])
    PROVE  \E m \in 1 .. Len(Schema!FlattenSeq(seqs)) : Schema!FlattenSeq(seqs)[m] = seqs[i][k]
<1>1. PICK c : /\ Schema!FlattenSeq(seqs) = c[Len(seqs)]
               /\ \A j \in 1 .. Len(seqs) : c[j] = IF j = 1 THEN seqs[j] ELSE c[j - 1] \o seqs[j]
    BY FlattenRecursion
<1> DEFINE e == seqs[i][k]
           Has(s) == \E m \in 1 .. Len(s) : s[m] = e
           A == {n \in Nat : n + 1 <= Len(seqs) => c[n + 1] \in Seq(S) /\ (i <= n + 1 => Has(c[n + 1]))}
<1>0. \A j \in 1 .. Len(seqs) : seqs[j] \in Seq(S)
    OBVIOUS
<1>2. Has(seqs[i])
    OBVIOUS
<1> HIDE DEF e
<1>3. ASSUME NEW s \in Seq(S), NEW t \in Seq(S), Has(s) \/ Has(t) PROVE Has(s \o t)
    <2>1. CASE Has(s)
        <3>1. PICK m \in 1 .. Len(s) : s[m] = e
            BY <2>1
        <3>2. m \in 1 .. Len(s \o t) /\ (s \o t)[m] = e
            BY <3>1
        <3> QED BY <3>2
    <2>2. CASE Has(t)
        <3>1. PICK m \in 1 .. Len(t) : t[m] = e
            BY <2>2
        <3>2. Len(s) + m \in 1 .. Len(s \o t) /\ (s \o t)[Len(s) + m] = e
            BY <3>1
        <3> QED BY <3>2
    <2> QED BY <1>3, <2>1, <2>2
<1> HIDE DEF Has
<1>4. 0 \in A
    <2>1. 1 <= Len(seqs) /\ c[1] = seqs[1] /\ seqs[1] \in Seq(S)
        BY <1>0, <1>1
    <2> QED BY <1>2, <2>1
<1>5. ASSUME NEW n \in Nat, n \in A PROVE n + 1 \in A
    <2> SUFFICES ASSUME n + 2 <= Len(seqs)
                 PROVE  c[n + 2] \in Seq(S) /\ (i <= n + 2 => Has(c[n + 2]))
        OBVIOUS
    <2>1. n + 2 \in 1 .. Len(seqs) /\ n + 2 # 1 /\ (n + 2) - 1 = n + 1
        OBVIOUS
    <2>2. c[n + 2] = c[n + 1] \o seqs[n + 2]
        BY <1>1, <2>1
    <2>3. c[n + 1] \in Seq(S) /\ seqs[n + 2] \in Seq(S) /\ (i <= n + 1 => Has(c[n + 1]))
        BY <1>0, <1>5, <2>1
    <2>4. i <= n + 2 => Has(c[n + 1]) \/ Has(seqs[n + 2])
        <3>1. CASE i = n + 2
            BY <3>1, <1>2
        <3>2. CASE i <= n + 1
            BY <3>2, <2>3
        <3> QED BY <3>1, <3>2
    <2> QED BY <1>3, <2>2, <2>3, <2>4
<1> HIDE DEF A
<1>6. Nat \subseteq A
    BY <1>4, <1>5, SetInduction
<1>7. Len(seqs) - 1 \in A /\ Len(seqs) - 1 \in Nat
    BY <1>6
<1>8. Has(c[Len(seqs)])
    BY <1>7 DEF A
<1> QED BY <1>1, <1>8 DEF Has, e

-----------------------------------------------------------------------------
(* Types of the builder's state, and the invariant of its jobs.              *)
\* What a row of a job, a request and a step can be.
Col == [type : Schema!Types, nullable : BOOLEAN]
Actions == {"create_table", "ensure_record_version_trigger", "add_column", "drop_column", "drop_not_null",
            "precheck_no_nulls", "set_not_null", "count_rows", "warn_extra_column", "warn_type_drift"}
Steps == {s \in [action : Actions, column : Schema!Names \cup {Null}, as : Col \cup {Null}] :
             s.action = "add_column" => s.column \in Schema!Names /\ s.as \in Col}
Marks == {"planned", "applied", "skipped", "failed"}
JobRows == [dry : BOOLEAN, status : {"planned", "failed", "applied"}, steps : Seq(Steps), marks : Seq(Marks)]
JobOps == [kind : {"job"}, dry : BOOLEAN]
ColumnOps == [kind : {"create", "update", "delete"}, column : Schema!Names, nullable : BOOLEAN]
Requests == [pc : {"idle", "table", "columns", "plan", "empty", "run", "markjob", "marksteps", "definition"},
             op : JobOps \cup ColumnOps \cup {Null}, def : ColumnSets \cup {Null}, exists : BOOLEAN,
             job : Nat, at : Nat, mine : ColumnSets \cup {Null}, steps : Seq(Steps), marks : Seq(Marks)]
SchemaTypes ==
    /\ columns \in ColumnSets /\ table \in ColumnSets \cup {Null}
    /\ jobs \in Seq(JobRows)
    /\ proc \in [Procs -> Requests]
\* The mark a step gets when it has been executed.
DoneMark(step) == IF Schema!Warns(step) THEN "skipped" ELSE "applied"
\* A job's row says what happened: the property, with the sequences' lengths.
JobTruth(j) ==
    /\ Len(j.marks) = Len(j.steps)
    /\ \A k \in 1 .. Len(j.steps) :
          IF j.status = "applied" THEN j.marks[k] = DoneMark(j.steps[k]) ELSE j.marks[k] # "applied"
\* What a request holds at each of its points.
RequestForm(r) ==
    /\ r.pc = "idle" => r = Schema!Idle
    /\ r.pc \in {"table", "columns", "plan"} => r.op \in JobOps /\ r.job = 0
    /\ r.pc = "definition" => r.op \in ColumnOps /\ r.job = 0
    /\ r.pc = "plan" => r.def \in ColumnSets
    /\ r.pc = "run" =>
          /\ r.at \in 1 .. Len(r.steps) + 1 /\ Len(r.marks) = Len(r.steps)
          /\ \A k \in 1 .. r.at - 1 : r.marks[k] = DoneMark(r.steps[k])
          /\ r.job = 0 => /\ r.op \in ColumnOps /\ r.def \in ColumnSets
                          /\ r.op.kind = "update" => r.op.column \in DOMAIN r.def
    /\ r.pc \in {"empty", "markjob", "marksteps"} => r.job # 0
    /\ r.pc = "empty" => r.steps = <<>>
\* A request under way and the row of its job agree.
Owns(r) ==
    r.job # 0 =>
        /\ r.job <= Len(jobs) /\ jobs[r.job].steps = r.steps
        /\ jobs[r.job].status = IF r.pc = "marksteps" THEN "failed" ELSE "planned"
\* No two requests work on one job.
SchemaInv ==
    /\ SchemaTypes
    /\ \A i \in 1 .. Len(jobs) : JobTruth(jobs[i])
    /\ \A p \in Procs : RequestForm(proc[p]) /\ Owns(proc[p])
    /\ \A p, q \in Procs : p # q /\ proc[p].job = proc[q].job => proc[p].job = 0

\* A set of columns is a function from some of the names.
LEMMA ColumnSetShape ==
    \A t : t \in ColumnSets <=> DOMAIN t \subseteq Schema!Names /\ t \in [DOMAIN t -> Col]
<1>1. ASSUME NEW t, t \in ColumnSets PROVE DOMAIN t \subseteq Schema!Names /\ t \in [DOMAIN t -> Col]
    <2>1. PICK S \in SUBSET Schema!Names : t \in [S -> Col]
        BY <1>1 DEF ColumnSets, Col
    <2> QED BY <2>1
<1>2. ASSUME NEW t, DOMAIN t \subseteq Schema!Names, t \in [DOMAIN t -> Col] PROVE t \in ColumnSets
    BY <1>2 DEF ColumnSets, Col
<1> QED BY <1>1, <1>2

\* A column the builder makes has the type of a column.
LEMMA ColumnFits ==
    ASSUME NEW type \in Schema!Types, NEW nullable \in BOOLEAN
    PROVE  Schema!Column(type, nullable) \in Col
    BY DEF Schema!Column, Col

\* A table that does not exist yet has no columns (loadPhysicalColumnsTx
\* returns none).
LEMMA TableOfFits ==
    ASSUME NEW now \in ColumnSets \cup {Null}
    PROVE  Schema!TableOf(now) \in ColumnSets
<1>1. Schema!EmptyTable \in ColumnSets
    <2>1. DOMAIN Schema!EmptyTable = {} /\ Schema!EmptyTable \in [{} -> Col]
        BY DEF Schema!EmptyTable
    <2> QED BY <2>1, ColumnSetShape
<1> QED BY <1>1 DEF Schema!TableOf

\* The names are the elements of the sequence the model is given.
LEMMA ColumnNames ==
    /\ Columns \in Seq(Schema!Names)
    /\ \A k \in DOMAIN Columns : Columns[k] \in Schema!Names
    /\ \A c \in Schema!Names : \E k \in DOMAIN Columns : Columns[k] = c
    BY SchemaAssumption DEF Schema!Names, Schema!ToSet

\* Nothing is neither a set of columns nor a name.
LEMMA NullNowhere == Null \notin ColumnSets /\ Null \notin Schema!Names
    BY SchemaAssumption

\* A step of the plan has the fields it is made with.
LEMMA StepFits ==
    ASSUME NEW action \in Actions, NEW c \in Schema!Names \cup {Null}, NEW now \in Col \cup {Null},
           action = "add_column" => c \in Schema!Names /\ now \in Col
    PROVE  /\ Schema!Step(action, c, now) \in Steps
           /\ Schema!Step(action, c, now).action = action /\ Schema!Step(action, c, now).column = c
           /\ Schema!Step(action, c, now).as = now
    BY DEF Schema!Step, Steps

\* What a difference in nullability asks for is a list of steps.
LEMMA NullabilityFits ==
    ASSUME NEW c \in Schema!Names, NEW to \in Col, NEW from \in Col
    PROVE  Schema!Nullability(c, to, from) \in Seq(Steps)
<1>1. /\ Schema!Step("drop_not_null", c, to) \in Steps
      /\ Schema!Step("precheck_no_nulls", c, to) \in Steps
      /\ Schema!Step("set_not_null", c, to) \in Steps
    BY StepFits DEF Actions
<1> HIDE DEF Steps
<1> QED BY <1>1 DEF Schema!Nullability

\* So is what a column asks for.
LEMMA ColumnStepsFit ==
    ASSUME NEW def \in ColumnSets, NEW now \in ColumnSets, NEW c \in Schema!Names
    PROVE  Schema!ColumnSteps(c, def, now) \in Seq(Steps) /\ Schema!ExtraSteps(c, def, now) \in Seq(Steps)
<1>1. /\ c \in DOMAIN def => def[c] \in Col /\ Schema!Step("add_column", c, def[c]) \in Steps
      /\ Schema!Step("warn_type_drift", c, Null) \in Steps
      /\ Schema!Step("warn_extra_column", c, Null) \in Steps
    BY StepFits, ColumnSetShape DEF Actions
<1>2. c \in DOMAIN def /\ c \in DOMAIN now => Schema!Nullability(c, def[c], now[c]) \in Seq(Steps)
    BY NullabilityFits, ColumnSetShape
<1> HIDE DEF Steps
<1> QED BY <1>1, <1>2 DEF Schema!ColumnSteps, Schema!ExtraSteps, Schema!If

\* So is what a missing table asks for.
LEMMA NewTableFits == ASSUME NEW exists PROVE Schema!NewTable(exists) \in Seq(Steps)
<1>1. /\ Schema!Step("create_table", Null, Null) \in Steps
      /\ Schema!Step("ensure_record_version_trigger", Null, Null) \in Steps
    BY StepFits DEF Actions
<1> HIDE DEF Steps
<1> QED BY <1>1 DEF Schema!NewTable, Schema!If

\* A function on 1 .. n is a sequence of length n.
LEMMA FunctionIsSeq ==
    ASSUME NEW S, NEW n \in Nat, NEW f \in [1 .. n -> S]
    PROVE  f \in Seq(S) /\ Len(f) = n
    BY SeqDef

\* A plan has no other steps than those of the missing table, of the columns
\* of the definition and of the surplus ones (buildSchemaPlanSteps).
LEMMA PlanOnly ==
    ASSUME NEW T, NEW exists, NEW def, NEW now, Schema!NewTable(exists) \in Seq(T),
           \A c \in Schema!Names : Schema!ColumnSteps(c, def, now) \in Seq(T) /\ Schema!ExtraSteps(c, def, now) \in Seq(T)
    PROVE  Schema!Plan(exists, def, now) \in Seq(T)
<1> DEFINE missing == [k \in DOMAIN Columns |-> Schema!ColumnSteps(Columns[k], def, now)]
           extra == [k \in DOMAIN Columns |-> Schema!ExtraSteps(Columns[k], def, now)]
<1>1. missing \in Seq(Seq(T)) /\ extra \in Seq(Seq(T))
    <2>1. DOMAIN Columns = 1 .. Len(Columns) /\ Len(Columns) \in Nat
        BY ColumnNames
    <2>2. missing \in [1 .. Len(Columns) -> Seq(T)] /\ extra \in [1 .. Len(Columns) -> Seq(T)]
        BY <2>1, ColumnNames
    <2> HIDE DEF missing, extra
    <2> QED BY <2>1, <2>2, FunctionIsSeq
<1> HIDE DEF missing, extra
<1>2. Schema!FlattenSeq(missing) \in Seq(T) /\ Schema!FlattenSeq(extra) \in Seq(T)
    BY <1>1, FlattenSeqType
<1>3. Schema!Plan(exists, def, now) = Schema!NewTable(exists) \o Schema!FlattenSeq(missing) \o Schema!FlattenSeq(extra)
    BY Zenon DEF Schema!Plan, missing, extra
<1> QED BY <1>2, <1>3

\* A plan is a list of steps.
LEMMA PlanFits ==
    ASSUME NEW exists, NEW def \in ColumnSets, NEW now \in ColumnSets
    PROVE  Schema!Plan(exists, def, now) \in Seq(Steps)
BY NewTableFits, ColumnStepsFit, PlanOnly

\* What a statement leaves of the table is a table
\* (executeBuilderSchemaStepTx).
LEMMA AfterFits ==
    ASSUME NEW step \in Steps, NEW now \in ColumnSets \cup {Null}, ~Schema!Fails(step, now)
    PROVE  Schema!After(step, now) \in ColumnSets
<1>1. CASE step.action = "create_table"
    BY <1>1, TableOfFits DEF Schema!After
<1>2. CASE step.action # "create_table"
    <2>1. now \in ColumnSets
        BY <1>2 DEF Schema!Fails
    <2>2. DOMAIN now \subseteq Schema!Names /\ now \in [DOMAIN now -> Col]
        BY <2>1, ColumnSetShape
    <2>3. CASE step.action = "add_column" /\ step.column \notin DOMAIN now
        <3> DEFINE new == [c \in DOMAIN now \cup {step.column} |-> IF c = step.column THEN step.as ELSE now[c]]
        <3>1. Schema!After(step, now) = new
            BY <2>3 DEF Schema!After
        <3>2. step.column \in Schema!Names /\ step.as \in Col
            BY <2>3 DEF Steps
        <3>3. DOMAIN new \subseteq Schema!Names /\ new \in [DOMAIN new -> Col]
            BY <2>2, <3>2
        <3> QED BY <3>1, <3>3, ColumnSetShape
    <2>4. CASE step.action \in {"drop_not_null", "set_not_null"}
        <3> DEFINE new == [now EXCEPT ![step.column].nullable = (step.action = "drop_not_null")]
        <3>1. Schema!After(step, now) = new
            BY <2>4 DEF Schema!After
        <3>2. step.column \in DOMAIN now
            BY <2>1, <2>4 DEF Schema!Fails
        <3>3. DOMAIN new = DOMAIN now /\ new \in [DOMAIN now -> Col]
            BY <2>2, <3>2 DEF Col
        <3> HIDE DEF new
        <3> QED BY <3>1, <3>3, <2>2, ColumnSetShape
    <2>5. CASE step.action = "drop_column"
        <3> DEFINE new == [c \in DOMAIN now \ {step.column} |-> now[c]]
        <3>1. Schema!After(step, now) = new
            BY <2>5 DEF Schema!After
        <3>2. DOMAIN new \subseteq Schema!Names /\ new \in [DOMAIN new -> Col]
            BY <2>2
        <3> HIDE DEF new
        <3> QED BY <3>1, <3>2, ColumnSetShape
    <2>6. CASE /\ step.action \notin {"drop_not_null", "set_not_null", "drop_column"}
               /\ ~(step.action = "add_column" /\ step.column \notin DOMAIN now)
        BY <1>2, <2>1, <2>6 DEF Schema!After
    <2> QED BY <2>3, <2>4, <2>5, <2>6
<1> QED BY <1>1, <1>2

\* The statements of CreateAppColumn, UpdateAppColumn and DeleteAppColumn are
\* steps.
LEMMA ColumnPlanFits ==
    ASSUME NEW op \in ColumnOps, NEW def \in ColumnSets, op.kind = "update" => op.column \in DOMAIN def
    PROVE  Schema!ColumnPlan(op, def) \in Seq(Steps)
<1>1. Schema!CountRows \in Steps
    BY DEF Schema!CountRows, Steps, Actions
<1>2. op.column \in Schema!Names /\ op.nullable \in BOOLEAN
    BY DEF ColumnOps
<1>3. Schema!Column("text", op.nullable) \in Col
    BY <1>2, ColumnFits DEF Schema!Types
<1>4. /\ Schema!Step("add_column", op.column, Schema!Column("text", op.nullable)) \in Steps
      /\ Schema!Step("drop_column", op.column, Null) \in Steps
    BY <1>2, <1>3, StepFits DEF Actions
<1> HIDE DEF Steps
<1>5. CASE op.kind = "create"
    BY <1>1, <1>4, <1>5 DEF Schema!ColumnPlan, Schema!If
<1>6. CASE op.kind = "update"
    <2>1. def[op.column] \in Col
        BY <1>6, ColumnSetShape
    <2> QED BY <1>2, <1>3, <1>6, <2>1, NullabilityFits DEF Schema!ColumnPlan
<1>7. CASE op.kind = "delete"
    BY <1>1, <1>4, <1>7 DEF Schema!ColumnPlan
<1> QED BY <1>5, <1>6, <1>7 DEF ColumnOps

\* The definition they save is a definition.
LEMMA DefinedFits ==
    ASSUME NEW op \in ColumnOps, NEW def \in ColumnSets, op.kind = "update" => op.column \in DOMAIN def
    PROVE  Schema!Defined(op, def) \in ColumnSets
<1>1. DOMAIN def \subseteq Schema!Names /\ def \in [DOMAIN def -> Col]
    BY ColumnSetShape
<1>2. op.column \in Schema!Names /\ op.nullable \in BOOLEAN
    BY DEF ColumnOps
<1>3. CASE op.kind = "delete"
    <2> DEFINE new == [c \in DOMAIN def \ {op.column} |-> def[c]]
    <2>1. Schema!Defined(op, def) = new
        BY <1>3 DEF Schema!Defined
    <2>2. DOMAIN new \subseteq Schema!Names /\ new \in [DOMAIN new -> Col]
        BY <1>1
    <2> HIDE DEF new
    <2> QED BY <2>1, <2>2, ColumnSetShape
<1>4. CASE op.kind # "delete"
    <2> DEFINE col == IF op.kind = "create" THEN Schema!Column("text", op.nullable)
                      ELSE [def[op.column] EXCEPT !.nullable = op.nullable]
               new == [c \in DOMAIN def \cup {op.column} |-> IF c # op.column THEN def[c] ELSE col]
    <2>1. col \in Col
        <3>1. CASE op.kind = "create"
            BY <3>1, <1>2, ColumnFits DEF Schema!Types
        <3>2. CASE op.kind # "create"
            <4>1. op.column \in DOMAIN def
                BY <1>4, <3>2 DEF ColumnOps
            <4>2. def[op.column] \in Col
                BY <4>1, <1>1
            <4> QED BY <3>2, <4>2, <1>2 DEF Col
        <3> QED BY <3>1, <3>2
    <2>2. Schema!Defined(op, def) = new
        <3>1. \A c \in DOMAIN def \cup {op.column} :
                 (IF c # op.column THEN def[c]
                  ELSE IF op.kind = "create" THEN Schema!Column("text", op.nullable)
                       ELSE [def[c] EXCEPT !.nullable = op.nullable])
                 = IF c # op.column THEN def[c] ELSE col
            OBVIOUS
        <3> HIDE DEF col
        <3> QED BY <1>4, <3>1 DEF Schema!Defined
    <2> HIDE DEF col
    <2>3. DOMAIN new \subseteq Schema!Names /\ new \in [DOMAIN new -> Col]
        BY <1>1, <1>2, <2>1
    <2> HIDE DEF new
    <2> QED BY <2>2, <2>3, ColumnSetShape
<1> QED BY <1>3, <1>4

-----------------------------------------------------------------------------
(* Every step keeps the types and the jobs' rows.                            *)
RestFits == columns' \in ColumnSets /\ table' \in ColumnSets \cup {Null}

\* A step that replaces one request, and at most the row of its own job or a
\* new row, keeps the invariant.
LEMMA OneRequestReplaced ==
    ASSUME SchemaInv, NEW p \in Procs, NEW r \in Requests, proc' = [proc EXCEPT ![p] = r],
           RequestForm(r), RestFits,
           jobs' \in Seq(JobRows), Len(jobs') >= Len(jobs),
           \A i \in 1 .. Len(jobs') : JobTruth(jobs'[i]),
           \A i \in 1 .. Len(jobs) : i # proc[p].job => jobs'[i] = jobs[i],
           r.job \in {0, proc[p].job, Len(jobs) + 1},
           r.job # 0 => /\ r.job <= Len(jobs') /\ jobs'[r.job].steps = r.steps
                        /\ jobs'[r.job].status = IF r.pc = "marksteps" THEN "failed" ELSE "planned"
    PROVE  SchemaInv'
<1>1. SchemaTypes'
    BY DEF SchemaInv, SchemaTypes, RestFits
<1>2. \A q \in Procs : proc'[q] = IF q = p THEN r ELSE proc[q]
    BY DEF SchemaInv, SchemaTypes
<1>3. ASSUME NEW q \in Procs PROVE proc[q].job \in Nat /\ (proc[q].job # 0 => proc[q].job <= Len(jobs))
    BY DEF SchemaInv, SchemaTypes, Requests, Owns
<1>4. ASSUME NEW q \in Procs PROVE RequestForm(proc'[q]) /\ Owns(proc[q])'
    <2>1. CASE q = p
        <3>1. proc'[q] = r
            BY <1>2, <2>1
        <3> QED BY <3>1 DEF Owns
    <2>2. CASE q # p
        <3>1. proc'[q] = proc[q] /\ RequestForm(proc[q]) /\ Owns(proc[q])
            BY <1>2, <2>2 DEF SchemaInv
        <3>2. proc[q].job # 0 => proc[q].job # proc[p].job /\ proc[q].job \in 1 .. Len(jobs)
            BY <1>3, <2>2 DEF SchemaInv
        <3>3. proc[q].job # 0 => jobs'[proc[q].job] = jobs[proc[q].job]
            BY <3>2
        <3>4. Len(jobs') \in Nat /\ Len(jobs) \in Nat
            BY DEF SchemaInv, SchemaTypes
        <3> QED BY <1>3, <3>1, <3>3, <3>4 DEF Owns
    <2> QED BY <2>1, <2>2
<1>5. ASSUME NEW q1 \in Procs, NEW q2 \in Procs, q1 # q2, proc'[q1].job = proc'[q2].job PROVE proc'[q1].job = 0
    <2>0. Len(jobs) \in Nat
        BY DEF SchemaInv, SchemaTypes
    <2>1. CASE q1 # p /\ q2 # p
        BY <1>2, <1>5, <2>1 DEF SchemaInv
    <2>2. CASE q1 = p
        <3>1. proc'[q1] = r /\ proc'[q2] = proc[q2]
            BY <1>2, <1>5, <2>2
        <3>2. r.job # Len(jobs) + 1
            BY <1>3, <1>5, <3>1, <2>0
        <3> QED BY <1>5, <3>1, <3>2, <2>2 DEF SchemaInv
    <2>3. CASE q2 = p
        <3>1. proc'[q2] = r /\ proc'[q1] = proc[q1]
            BY <1>2, <1>5, <2>3
        <3>2. r.job # Len(jobs) + 1
            BY <1>3, <1>5, <3>1, <2>0
        <3> QED BY <1>5, <3>1, <3>2, <2>3 DEF SchemaInv
    <2> QED BY <2>1, <2>2, <2>3
<1> QED BY <1>1, <1>4, <1>5 DEF SchemaInv

\* A step that replaces one request and no job keeps the invariant.
LEMMA RequestReplacedJobsKept ==
    ASSUME SchemaInv, NEW p \in Procs, NEW r \in Requests, proc' = [proc EXCEPT ![p] = r],
           RequestForm(r), RestFits, jobs' = jobs,
           r.job \in {0, proc[p].job},
           r.job # 0 => r.steps = proc[p].steps /\ (r.pc = "marksteps" <=> proc[p].pc = "marksteps")
    PROVE  SchemaInv'
<1>1. jobs \in Seq(JobRows) /\ Len(jobs) \in Nat
    BY DEF SchemaInv, SchemaTypes
<1>2. \A i \in 1 .. Len(jobs') : JobTruth(jobs'[i])
    BY DEF SchemaInv
<1>3. r.job # 0 => /\ r.job <= Len(jobs') /\ jobs'[r.job].steps = r.steps
                   /\ jobs'[r.job].status = IF r.pc = "marksteps" THEN "failed" ELSE "planned"
    BY DEF SchemaInv, Owns
<1>4. jobs' \in Seq(JobRows) /\ Len(jobs') >= Len(jobs)
    BY <1>1
<1>5. \A i \in 1 .. Len(jobs) : i # proc[p].job => jobs'[i] = jobs[i]
    OBVIOUS
<1>6. r.job \in {0, proc[p].job, Len(jobs) + 1}
    OBVIOUS
<1> HIDE DEF SchemaInv, RequestForm, RestFits, JobTruth
<1> QED BY <1>2, <1>3, <1>4, <1>5, <1>6, OneRequestReplaced

\* A request that is over holds nothing.
LEMMA IdleRequest ==
    /\ Schema!Idle \in Requests /\ RequestForm(Schema!Idle) /\ Schema!Idle.job = 0 /\ Schema!Idle.pc = "idle"
    BY DEF Schema!Idle, Requests, RequestForm

\* A request may end at any point.
LEMMA RequestGone ==
    ASSUME SchemaInv, NEW p \in Procs, proc' = [proc EXCEPT ![p] = Schema!Idle], RestFits, jobs' = jobs
    PROVE  SchemaInv'
    BY IdleRequest, RequestReplacedJobsKept

\* StartJob and StartColumn.
LEMMA BeginKeeps ==
    ASSUME SchemaInv, NEW p \in Procs, NEW op, NEW place, Schema!Begin(p, op, place),
           \/ place = "table" /\ op \in JobOps
           \/ place = "definition" /\ op \in ColumnOps
    PROVE  SchemaInv'
<1> DEFINE r == [Schema!Idle EXCEPT !.pc = place, !.op = op]
<1>1. proc' = [proc EXCEPT ![p] = r] /\ jobs' = jobs /\ RestFits
    BY DEF Schema!Begin, Schema!world, SchemaInv, SchemaTypes, RestFits
<1>2. r \in Requests /\ r.job = 0 /\ r.pc = place /\ r.op = op
    <2>1. Schema!Idle \in Requests /\ Schema!Idle.job = 0
        BY IdleRequest
    <2> QED BY <2>1 DEF Requests
<1>3. RequestForm(r)
    BY <1>2 DEF RequestForm
<1> HIDE DEF r
<1> QED BY <1>1, <1>2, <1>3, RequestReplacedJobsKept

\* The first read of PlanAndApplyBuilderSchema.
LEMMA ReadTableKeeps ==
    ASSUME SchemaInv, NEW p \in Procs, Schema!ReadTable(p)
    PROVE  SchemaInv'
<1> DEFINE r == [proc[p] EXCEPT !.pc = "columns", !.exists = (table # Null)]
<1>1. proc' = [proc EXCEPT ![p] = r] /\ jobs' = jobs /\ RestFits
    BY DEF Schema!ReadTable, Schema!world, SchemaInv, SchemaTypes, RestFits
<1>2. proc[p] \in Requests /\ RequestForm(proc[p]) /\ proc[p].pc = "table"
    BY DEF SchemaInv, SchemaTypes, Schema!ReadTable, Schema!At
<1>3. r \in Requests /\ r.job = 0 /\ r.pc = "columns" /\ r.op \in JobOps
    BY <1>2 DEF Requests, RequestForm
<1>4. RequestForm(r)
    BY <1>3 DEF RequestForm
<1> HIDE DEF r
<1> QED BY <1>1, <1>3, <1>4, RequestReplacedJobsKept

\* Its second read.
LEMMA ReadColumnsKeeps ==
    ASSUME SchemaInv, NEW p \in Procs, Schema!ReadColumns(p)
    PROVE  SchemaInv'
<1> DEFINE r == [proc[p] EXCEPT !.pc = "plan", !.def = columns]
<1>1. proc' = [proc EXCEPT ![p] = r] /\ jobs' = jobs /\ RestFits /\ columns \in ColumnSets
    BY DEF Schema!ReadColumns, Schema!world, SchemaInv, SchemaTypes, RestFits
<1>2. proc[p] \in Requests /\ RequestForm(proc[p]) /\ proc[p].pc = "columns"
    BY DEF SchemaInv, SchemaTypes, Schema!ReadColumns, Schema!At
<1>3. r \in Requests /\ r.job = 0 /\ r.pc = "plan" /\ r.op \in JobOps /\ r.def \in ColumnSets
    BY <1>1, <1>2 DEF Requests, RequestForm
<1>4. RequestForm(r)
    BY <1>3 DEF RequestForm
<1> HIDE DEF r
<1> QED BY <1>1, <1>3, <1>4, RequestReplacedJobsKept

\* The rows createBuilderSchemaJob inserts are all planned.
LEMMA PlannedMarks ==
    ASSUME NEW steps \in Seq(Steps)
    PROVE  /\ Schema!Planned(steps) \in Seq(Marks) /\ Len(Schema!Planned(steps)) = Len(steps)
           /\ \A k \in 1 .. Len(steps) : Schema!Planned(steps)[k] = "planned"
    BY DEF Schema!Planned, Marks

\* createBuilderSchemaJob: a new row, owned by nobody or by the request that
\* made it.
LEMMA CreateJobKeeps ==
    ASSUME SchemaInv, NEW p \in Procs, Schema!CreateJob(p)
    PROVE  SchemaInv'
<1> DEFINE steps == Schema!Plan(proc[p].exists, proc[p].def, Schema!TableOf(table))
           dry == proc[p].op.dry
           job == [dry |-> dry, status |-> "planned", steps |-> steps, marks |-> Schema!Planned(steps)]
           r == [proc[p] EXCEPT !.pc = IF steps = <<>> THEN "empty" ELSE "run",
                                !.job = Len(jobs) + 1, !.at = 1, !.steps = steps, !.marks = Schema!Planned(steps)]
<1>1. /\ jobs' = Append(jobs, job) /\ RestFits
      /\ proc' = [proc EXCEPT ![p] = IF dry THEN Schema!Idle ELSE r]
    BY DEF Schema!CreateJob, Schema!world, SchemaInv, SchemaTypes, RestFits
<1>2. /\ proc[p] \in Requests /\ RequestForm(proc[p]) /\ proc[p].pc = "plan"
      /\ jobs \in Seq(JobRows) /\ Len(jobs) \in Nat /\ table \in ColumnSets \cup {Null}
    BY DEF SchemaInv, SchemaTypes, Schema!CreateJob, Schema!At
<1>3. proc[p].def \in ColumnSets /\ proc[p].op \in JobOps /\ dry \in BOOLEAN /\ proc[p].job = 0
    BY <1>2 DEF RequestForm, JobOps
<1>4. steps \in Seq(Steps)
    BY <1>2, <1>3, PlanFits, TableOfFits
<1> HIDE DEF steps, dry
<1>5. job \in JobRows /\ JobTruth(job) /\ job.steps = steps /\ job.status = "planned"
    <2>1. job \in JobRows
        BY <1>3, <1>4, PlannedMarks DEF JobRows
    <2>2. JobTruth(job)
        BY <1>4, PlannedMarks DEF JobTruth
    <2> QED BY <2>1, <2>2
<1> HIDE DEF job
<1>6. /\ jobs' \in Seq(JobRows) /\ Len(jobs') = Len(jobs) + 1 /\ jobs'[Len(jobs) + 1] = job
      /\ \A i \in 1 .. Len(jobs) : jobs'[i] = jobs[i]
    BY <1>1, <1>2, <1>5
<1>7. \A i \in 1 .. Len(jobs') : JobTruth(jobs'[i])
    <2> TAKE i \in 1 .. Len(jobs')
    <2>1. CASE i = Len(jobs) + 1
        BY <2>1, <1>5, <1>6
    <2>2. CASE i # Len(jobs) + 1
        <3>1. i \in 1 .. Len(jobs)
            BY <1>2, <1>6, <2>2
        <3> QED BY <3>1, <1>6 DEF SchemaInv
    <2> QED BY <2>1, <2>2
<1>8. /\ r \in Requests /\ r.job = Len(jobs) + 1 /\ r.steps = steps /\ r.at = 1 /\ r.marks = Schema!Planned(steps)
      /\ r.pc = IF steps = <<>> THEN "empty" ELSE "run"
    <2>1. Schema!Planned(steps) \in Seq(Marks) /\ Len(jobs) + 1 \in Nat /\ 1 \in Nat
        BY <1>2, <1>4, PlannedMarks
    <2> QED BY <1>2, <1>4, <2>1 DEF Requests
<1>9. RequestForm(r)
    <2>1. Len(steps) \in Nat /\ Len(r.marks) = Len(r.steps) /\ r.job # 0
        BY <1>2, <1>4, <1>8, PlannedMarks
    <2> HIDE DEF r
    <2> QED BY <1>8, <2>1 DEF RequestForm
<1>10. CASE dry
    <2>1. proc' = [proc EXCEPT ![p] = Schema!Idle]
        BY <1>1, <1>10
    <2>2. Len(jobs') >= Len(jobs) /\ \A i \in 1 .. Len(jobs) : i # proc[p].job => jobs'[i] = jobs[i]
        BY <1>2, <1>6
    <2> HIDE DEF SchemaInv
    <2> QED BY <1>1, <1>6, <1>7, <2>1, <2>2, IdleRequest, OneRequestReplaced
<1>11. CASE ~dry
    <2>1. proc' = [proc EXCEPT ![p] = r]
        BY <1>1, <1>11
    <2>2. r.pc # "marksteps"
        BY <1>8
    <2>3. Len(jobs') >= Len(jobs) /\ \A i \in 1 .. Len(jobs) : i # proc[p].job => jobs'[i] = jobs[i]
        BY <1>2, <1>6
    <2>4. r.job \in {0, proc[p].job, Len(jobs) + 1}
        BY <1>8
    <2>5. /\ r.job <= Len(jobs') /\ jobs'[r.job].steps = r.steps
          /\ jobs'[r.job].status = IF r.pc = "marksteps" THEN "failed" ELSE "planned"
        <3> HIDE DEF r
        <3> QED BY <1>2, <1>5, <1>6, <1>8, <2>2
    <2> HIDE DEF SchemaInv, r
    <2> QED BY <1>1, <1>6, <1>7, <1>8, <1>9, <2>1, <2>3, <2>4, <2>5, OneRequestReplaced
<1> QED BY <1>10, <1>11

\* A job without a step is applied.
LEMMA MarkEmptyKeeps ==
    ASSUME SchemaInv, NEW p \in Procs, Schema!MarkEmpty(p)
    PROVE  SchemaInv'
<1> DEFINE n == proc[p].job
<1>1. /\ proc[p] \in Requests /\ RequestForm(proc[p]) /\ proc[p].pc = "empty" /\ Owns(proc[p])
      /\ jobs \in Seq(JobRows) /\ Len(jobs) \in Nat
    BY DEF SchemaInv, SchemaTypes, Schema!MarkEmpty, Schema!At
<1>2. n \in 1 .. Len(jobs) /\ jobs[n].steps = <<>>
    BY <1>1 DEF Requests, RequestForm, Owns
<1>3. /\ proc' = [proc EXCEPT ![p] = Schema!Idle] /\ RestFits
      /\ jobs' = [jobs EXCEPT ![n].status = "applied"]
    BY DEF Schema!MarkEmpty, Schema!world, SchemaInv, SchemaTypes, RestFits
<1>4. /\ jobs' \in Seq(JobRows) /\ Len(jobs') = Len(jobs)
      /\ \A i \in 1 .. Len(jobs) : i # n => jobs'[i] = jobs[i]
      /\ jobs'[n] = [jobs[n] EXCEPT !.status = "applied"]
    <2>1. jobs[n] \in JobRows
        BY <1>1, <1>2
    <2>2. [jobs[n] EXCEPT !.status = "applied"] \in JobRows
        BY <2>1 DEF JobRows
    <2> HIDE DEF JobRows
    <2> QED BY <1>1, <1>2, <1>3, <2>2
<1>5. \A i \in 1 .. Len(jobs') : JobTruth(jobs'[i])
    <2>1. jobs[n] \in JobRows /\ JobTruth(jobs[n])
        BY <1>1, <1>2 DEF SchemaInv
    <2>2. jobs'[n].steps = <<>> /\ jobs'[n].marks = jobs[n].marks
        BY <1>2, <1>4, <2>1 DEF JobRows
    <2>3. JobTruth(jobs'[n])
        BY <1>2, <2>1, <2>2 DEF JobTruth
    <2> QED BY <1>4, <2>3 DEF SchemaInv
<1>6. Len(jobs') >= Len(jobs) /\ \A i \in 1 .. Len(jobs) : i # proc[p].job => jobs'[i] = jobs[i]
    BY <1>1, <1>4
<1> HIDE DEF n, SchemaInv
<1> QED BY <1>3, <1>4, <1>5, <1>6, IdleRequest, OneRequestReplaced

\* A failed statement ends its transaction, and no row of the job has been
\* written yet.
LEMMA FailedKeeps ==
    ASSUME SchemaInv, NEW p \in Procs, proc[p].pc = "run", Schema!Failed(p)
    PROVE  SchemaInv'
<1> DEFINE r == [proc[p] EXCEPT !.pc = "markjob", !.mine = Null]
<1>1. /\ proc' = [proc EXCEPT ![p] = IF proc[p].job = 0 THEN Schema!Idle ELSE r]
      /\ jobs' = jobs /\ RestFits
    BY DEF Schema!Failed, Schema!world, SchemaInv, SchemaTypes, RestFits
<1>2. proc[p] \in Requests
    BY DEF SchemaInv, SchemaTypes
<1>3. CASE proc[p].job = 0
    <2>1. proc' = [proc EXCEPT ![p] = Schema!Idle]
        BY <1>1, <1>3
    <2> QED BY <1>1, <2>1, RequestGone
<1>4. CASE proc[p].job # 0
    <2>1. proc' = [proc EXCEPT ![p] = r]
        BY <1>1, <1>4
    <2>2. r \in Requests /\ r.job = proc[p].job /\ r.pc = "markjob" /\ r.steps = proc[p].steps
        BY <1>2 DEF Requests
    <2>3. RequestForm(r)
        BY <2>2, <1>4 DEF RequestForm
    <2> HIDE DEF r
    <2> QED BY <1>1, <2>1, <2>2, <2>3, RequestReplacedJobsKept
<1> QED BY <1>3, <1>4

\* One more step has been executed, and only those before it carry its mark.
LEMMA MarkKeeps ==
    ASSUME SchemaInv, NEW p \in Procs, Schema!Ready(p), NEW mine \in ColumnSets \cup {Null},
           proc' = [proc EXCEPT ![p] = [Schema!Mark(p, DoneMark(Schema!Current(p))) EXCEPT !.mine = mine]],
           RestFits, jobs' = jobs
    PROVE  SchemaInv'
<1> DEFINE s == proc[p]
           marks == [s.marks EXCEPT ![s.at] = DoneMark(s.steps[s.at])]
           r == [s EXCEPT !.at = s.at + 1, !.marks = marks, !.mine = mine]
<1>1. s \in Requests /\ RequestForm(s) /\ s.pc = "run" /\ s.at <= Len(s.steps)
    BY DEF SchemaInv, SchemaTypes, Schema!Ready, Schema!At
<1>2. /\ s.at \in 1 .. Len(s.steps) /\ Len(s.marks) = Len(s.steps) /\ s.marks \in Seq(Marks)
      /\ s.steps \in Seq(Steps) /\ s.at \in Nat
      /\ \A k \in 1 .. s.at - 1 : s.marks[k] = DoneMark(s.steps[k])
      /\ s.job = 0 => /\ s.op \in ColumnOps /\ s.def \in ColumnSets
                      /\ s.op.kind = "update" => s.op.column \in DOMAIN s.def
    BY <1>1 DEF RequestForm, Requests
<1>3. DoneMark(s.steps[s.at]) \in Marks
    BY DEF DoneMark, Marks
<1>4. /\ marks \in Seq(Marks) /\ Len(marks) = Len(s.marks)
      /\ \A k \in 1 .. s.at : marks[k] = DoneMark(s.steps[k])
    <2> HIDE DEF s
    <2> DEFINE mark == DoneMark(s.steps[s.at])
    <2>1. mark \in Marks
        BY <1>3
    <2>2. marks = [s.marks EXCEPT ![s.at] = mark]
        OBVIOUS
    <2> HIDE DEF mark, Marks
    <2>3. marks \in Seq(Marks) /\ Len(marks) = Len(s.marks) /\ marks[s.at] = mark
        BY <1>2, <2>1, <2>2
    <2>4. ASSUME NEW k \in 1 .. s.at PROVE marks[k] = DoneMark(s.steps[k])
        <3>1. CASE k = s.at
            BY <3>1, <2>3 DEF mark
        <3>2. CASE k # s.at
            <4>1. k \in 1 .. s.at - 1
                BY <3>2, <1>2
            <4>2. marks[k] = s.marks[k]
                BY <3>2, <4>1, <1>2, <2>2
            <4> QED BY <4>1, <4>2, <1>2
        <3> QED BY <3>1, <3>2
    <2> QED BY <2>3, <2>4
<1>5. r \in Requests /\ r.at = s.at + 1 /\ r.marks = marks /\ r.job = s.job /\ r.pc = "run"
      /\ r.steps = s.steps /\ r.op = s.op /\ r.def = s.def
    <2>1. s \in Requests /\ s.pc = "run" /\ marks \in Seq(Marks) /\ s.at + 1 \in Nat
        BY <1>1, <1>2, <1>4
    <2> HIDE DEF marks, s
    <2> QED BY <2>1 DEF Requests
<1>6. [Schema!Mark(p, DoneMark(Schema!Current(p))) EXCEPT !.mine = mine] = r
    <2> HIDE DEF Requests
    <2>1. DOMAIN s = {"pc", "op", "def", "exists", "job", "at", "mine", "steps", "marks"}
        BY <1>1 DEF Requests
    <2> QED BY <2>1 DEF Schema!Mark, Schema!Current
<1>7. RequestForm(r)
    <2> HIDE DEF r, marks, s
    <2>1. r.at \in 1 .. Len(r.steps) + 1 /\ Len(r.marks) = Len(r.steps)
        BY <1>2, <1>4, <1>5
    <2>2. \A k \in 1 .. r.at - 1 : r.marks[k] = DoneMark(r.steps[k])
        BY <1>2, <1>4, <1>5
    <2> QED BY <1>2, <1>5, <2>1, <2>2 DEF RequestForm
<1>8. proc' = [proc EXCEPT ![p] = r]
    BY <1>6
<1> HIDE DEF r, marks, SchemaInv
<1> QED BY <1>1, <1>5, <1>7, <1>8, RequestReplacedJobsKept

\* A warning is skipped.
LEMMA WarnedKeeps ==
    ASSUME SchemaInv, NEW p \in Procs, Schema!Warned(p)
    PROVE  SchemaInv'
<1>1. /\ Schema!Ready(p) /\ DoneMark(Schema!Current(p)) = "skipped"
      /\ proc' = [proc EXCEPT ![p] = Schema!Mark(p, "skipped")] /\ jobs' = jobs /\ RestFits
    BY DEF Schema!Warned, DoneMark, Schema!world, SchemaInv, SchemaTypes, RestFits
<1>2. proc[p] \in Requests
    BY DEF SchemaInv, SchemaTypes
<1>3. proc[p].mine \in ColumnSets \cup {Null}
    BY <1>2 DEF Requests
<1>4. Schema!Mark(p, "skipped") = [Schema!Mark(p, "skipped") EXCEPT !.mine = proc[p].mine]
    BY <1>2 DEF Schema!Mark, Requests
<1> QED BY <1>1, <1>3, <1>4, MarkKeeps

\* What a transaction sees is a table or none.
LEMMA ViewFits ==
    ASSUME SchemaInv, NEW p \in Procs
    PROVE  Schema!View(p) \in ColumnSets \cup {Null}
    BY DEF SchemaInv, SchemaTypes, Schema!View, Requests

\* A statement fails or is applied.
LEMMA StatementKeeps ==
    ASSUME SchemaInv, NEW p \in Procs, Schema!Statement(p)
    PROVE  SchemaInv'
<1>0. Schema!Ready(p) /\ proc[p].pc = "run" /\ DoneMark(Schema!Current(p)) = "applied"
    BY DEF Schema!Statement, Schema!Ready, Schema!At, DoneMark
<1>1. CASE Schema!Fails(Schema!Current(p), Schema!View(p))
    BY <1>0, <1>1, FailedKeeps DEF Schema!Statement
<1>2. CASE ~Schema!Fails(Schema!Current(p), Schema!View(p))
    <2> DEFINE mine == IF Schema!Wants(p) = "excl" THEN Schema!After(Schema!Current(p), Schema!View(p)) ELSE proc[p].mine
    <2>1. proc[p] \in Requests /\ RequestForm(proc[p])
        BY DEF SchemaInv, SchemaTypes
    <2>2. Schema!Current(p) \in Steps
        <3>1. proc[p].steps \in Seq(Steps) /\ proc[p].at \in 1 .. Len(proc[p].steps)
            BY <1>0, <2>1 DEF Schema!Ready, RequestForm, Requests
        <3> HIDE DEF Steps
        <3> QED BY <3>1 DEF Schema!Current
    <2>3. mine \in ColumnSets \cup {Null}
        <3>1. proc[p].mine \in ColumnSets \cup {Null}
            BY <2>1 DEF Requests
        <3>2. Schema!After(Schema!Current(p), Schema!View(p)) \in ColumnSets
            BY <1>2, <2>2, ViewFits, AfterFits
        <3> QED BY <3>1, <3>2
    <2>4. /\ proc' = [proc EXCEPT ![p] = [Schema!Mark(p, "applied") EXCEPT !.mine =
                            IF Schema!Wants(p) = "excl" THEN Schema!After(Schema!Current(p), Schema!View(p)) ELSE @]]
          /\ jobs' = jobs /\ RestFits
        BY <1>2 DEF Schema!Statement, Schema!world, SchemaInv, SchemaTypes, RestFits
    <2>5. Schema!Mark(p, "applied").mine = proc[p].mine
        BY <2>1 DEF Schema!Mark, Requests
    <2>6. proc' = [proc EXCEPT ![p] = [Schema!Mark(p, "applied") EXCEPT !.mine = mine]]
        BY <2>4, <2>5
    <2> HIDE DEF mine, SchemaInv
    <2> QED BY <1>0, <2>3, <2>4, <2>6, MarkKeeps
<1> QED BY <1>1, <1>2

\* One row of the jobs replaced, the others stay.
LEMMA JobReplaced ==
    ASSUME jobs \in Seq(JobRows), NEW n \in 1 .. Len(jobs), NEW j \in JobRows, jobs' = [jobs EXCEPT ![n] = j]
    PROVE  /\ jobs' \in Seq(JobRows) /\ Len(jobs') = Len(jobs) /\ Len(jobs) \in Nat
           /\ jobs'[n] = j /\ \A i \in 1 .. Len(jobs) : i # n => jobs'[i] = jobs[i]
<1> HIDE DEF JobRows
<1> QED OBVIOUS

\* A step that replaces the row of its own job by a true one keeps the
\* invariant.
LEMMA JobRowReplaced ==
    ASSUME SchemaInv, NEW p \in Procs, NEW r \in Requests, NEW j \in JobRows,
           proc[p].job # 0, jobs' = [jobs EXCEPT ![proc[p].job] = j], JobTruth(j),
           proc' = [proc EXCEPT ![p] = r], RequestForm(r), RestFits,
           r.job \in {0, proc[p].job},
           r.job # 0 => /\ j.steps = r.steps
                        /\ j.status = IF r.pc = "marksteps" THEN "failed" ELSE "planned"
    PROVE  SchemaInv'
<1>1. jobs \in Seq(JobRows) /\ proc[p].job \in 1 .. Len(jobs)
    BY DEF SchemaInv, SchemaTypes, Requests, Owns
<1>2. /\ jobs' \in Seq(JobRows) /\ Len(jobs') = Len(jobs) /\ Len(jobs) \in Nat /\ jobs'[proc[p].job] = j
      /\ \A i \in 1 .. Len(jobs) : i # proc[p].job => jobs'[i] = jobs[i]
    BY <1>1, JobReplaced
<1>3. \A i \in 1 .. Len(jobs') : JobTruth(jobs'[i])
    BY <1>2 DEF SchemaInv
<1>4. Len(jobs') >= Len(jobs) /\ r.job \in {0, proc[p].job, Len(jobs) + 1}
    BY <1>2
<1>5. r.job # 0 => /\ r.job <= Len(jobs') /\ jobs'[r.job].steps = r.steps
                   /\ jobs'[r.job].status = IF r.pc = "marksteps" THEN "failed" ELSE "planned"
    BY <1>1, <1>2
<1> HIDE DEF SchemaInv
<1> QED BY <1>2, <1>3, <1>4, <1>5, OneRequestReplaced

\* The commit of executeBuilderSchemaJob writes all marks at once, when all
\* steps have been executed.
LEMMA CommitJobKeeps ==
    ASSUME SchemaInv, NEW p \in Procs, Schema!CommitJob(p)
    PROVE  SchemaInv'
<1> DEFINE n == proc[p].job
           s == proc[p]
           j == [jobs[n] EXCEPT !.status = "applied", !.marks = s.marks]
<1>1. /\ s \in Requests /\ RequestForm(s) /\ s.pc = "run" /\ s.at > Len(s.steps) /\ n # 0 /\ Owns(s)
      /\ jobs \in Seq(JobRows)
    BY DEF Schema!CommitJob, Schema!Ended, Schema!At, SchemaInv, SchemaTypes
<1>2. n \in 1 .. Len(jobs) /\ jobs[n].steps = s.steps
    BY <1>1 DEF Owns, Requests
<1>3. /\ proc' = [proc EXCEPT ![p] = Schema!Idle] /\ jobs' = [jobs EXCEPT ![n] = j]
    BY DEF Schema!CommitJob
<1>4. RestFits
    BY ViewFits DEF Schema!CommitJob, SchemaInv, SchemaTypes, RestFits
<1>5. /\ Len(s.marks) = Len(s.steps) /\ s.marks \in Seq(Marks) /\ s.steps \in Seq(Steps)
      /\ \A k \in 1 .. Len(s.steps) : s.marks[k] = DoneMark(s.steps[k])
    BY <1>1 DEF RequestForm, Requests
<1>6. jobs[n] \in JobRows
    BY <1>1, <1>2
<1>7. j \in JobRows /\ j.status = "applied" /\ j.steps = s.steps /\ j.marks = s.marks
    BY <1>2, <1>5, <1>6 DEF JobRows
<1>8. JobTruth(j)
    <2> HIDE DEF j
    <2> QED BY <1>5, <1>7 DEF JobTruth
<1> HIDE DEF j, SchemaInv
<1> QED BY <1>1, <1>3, <1>4, <1>7, <1>8, IdleRequest, JobRowReplaced

\* The first note of a failure, by another connection: no mark says applied.
LEMMA MarkJobFailedKeeps ==
    ASSUME SchemaInv, NEW p \in Procs, Schema!MarkJobFailed(p)
    PROVE  SchemaInv'
<1> DEFINE n == proc[p].job
           r == [proc[p] EXCEPT !.pc = "marksteps"]
           j == [jobs[n] EXCEPT !.status = "failed"]
<1>1. /\ proc[p] \in Requests /\ RequestForm(proc[p]) /\ proc[p].pc = "markjob" /\ Owns(proc[p])
      /\ jobs \in Seq(JobRows)
    BY DEF Schema!MarkJobFailed, Schema!At, SchemaInv, SchemaTypes
<1>2. n # 0 /\ n \in 1 .. Len(jobs) /\ jobs[n].steps = proc[p].steps /\ jobs[n].status = "planned"
    BY <1>1 DEF Owns, Requests, RequestForm
<1>3. /\ proc' = [proc EXCEPT ![p] = r] /\ jobs' = [jobs EXCEPT ![n] = j] /\ RestFits
    BY DEF Schema!MarkJobFailed, Schema!Go, Schema!world, SchemaInv, SchemaTypes, RestFits
<1>4. jobs[n] \in JobRows /\ JobTruth(jobs[n])
    BY <1>1, <1>2 DEF SchemaInv
<1>5. j \in JobRows /\ j.status = "failed" /\ j.steps = jobs[n].steps /\ j.marks = jobs[n].marks
    BY <1>4 DEF JobRows
<1>6. JobTruth(j)
    <2> HIDE DEF j
    <2> QED BY <1>2, <1>4, <1>5 DEF JobTruth
<1>7. r \in Requests /\ r.job = n /\ r.pc = "marksteps" /\ r.steps = proc[p].steps
    BY <1>1 DEF Requests
<1>8. RequestForm(r)
    BY <1>2, <1>7 DEF RequestForm
<1> HIDE DEF j, r, SchemaInv
<1> QED BY <1>2, <1>3, <1>5, <1>6, <1>7, <1>8, JobRowReplaced

\* The second note marks the step that failed.
LEMMA MarkStepsFailedKeeps ==
    ASSUME SchemaInv, NEW p \in Procs, Schema!MarkStepsFailed(p)
    PROVE  SchemaInv'
<1> DEFINE n == proc[p].job
           marks == Schema!FailedMarks(p, jobs[n].marks)
           j == [jobs[n] EXCEPT !.marks = marks]
<1>1. /\ proc[p] \in Requests /\ RequestForm(proc[p]) /\ proc[p].pc = "marksteps" /\ Owns(proc[p])
      /\ jobs \in Seq(JobRows)
    BY DEF Schema!MarkStepsFailed, Schema!At, SchemaInv, SchemaTypes
<1>2. n # 0 /\ n \in 1 .. Len(jobs) /\ jobs[n].status = "failed"
    BY <1>1 DEF Owns, Requests, RequestForm
<1>3. /\ proc' = [proc EXCEPT ![p] = Schema!Idle] /\ jobs' = [jobs EXCEPT ![n] = j] /\ RestFits
    BY DEF Schema!MarkStepsFailed, Schema!world, SchemaInv, SchemaTypes, RestFits
<1>4. jobs[n] \in JobRows /\ JobTruth(jobs[n])
    BY <1>1, <1>2 DEF SchemaInv
<1>5. jobs[n].marks \in Seq(Marks) /\ jobs[n].steps \in Seq(Steps) /\ Len(jobs[n].marks) = Len(jobs[n].steps)
    BY <1>4 DEF JobRows, JobTruth
<1>6. /\ marks \in Seq(Marks) /\ Len(marks) = Len(jobs[n].marks)
      /\ \A k \in 1 .. Len(jobs[n].marks) : marks[k] = "failed" \/ marks[k] = jobs[n].marks[k]
    BY <1>5 DEF Schema!FailedMarks, Marks
<1> HIDE DEF marks
<1>7. j \in JobRows /\ j.status = "failed" /\ j.steps = jobs[n].steps /\ j.marks = marks
    BY <1>2, <1>4, <1>6 DEF JobRows
<1>8. JobTruth(j)
    <2> HIDE DEF j
    <2> QED BY <1>2, <1>4, <1>5, <1>6, <1>7 DEF JobTruth
<1> HIDE DEF j, SchemaInv
<1> QED BY <1>2, <1>3, <1>7, <1>8, IdleRequest, JobRowReplaced

\* The read of the definition that starts a column's change, or refuses it.
LEMMA ReadDefinitionKeeps ==
    ASSUME SchemaInv, NEW p \in Procs, Schema!ReadDefinition(p)
    PROVE  SchemaInv'
<1> DEFINE steps == Schema!ColumnPlan(proc[p].op, columns)
           r == [proc[p] EXCEPT !.pc = "run", !.at = 1, !.def = columns, !.steps = steps,
                                !.marks = Schema!Planned(steps)]
<1>1. /\ proc[p] \in Requests /\ RequestForm(proc[p]) /\ proc[p].pc = "definition" /\ columns \in ColumnSets
      /\ jobs' = jobs /\ RestFits
    BY DEF Schema!ReadDefinition, Schema!At, Schema!world, SchemaInv, SchemaTypes, RestFits
<1>2. \/ proc' = [proc EXCEPT ![p] = Schema!Idle]
      \/ ~Schema!Refused(p) /\ proc' = [proc EXCEPT ![p] = r]
    BY DEF Schema!ReadDefinition
<1>3. CASE proc' = [proc EXCEPT ![p] = Schema!Idle]
    BY <1>1, <1>3, RequestGone
<1>4. CASE ~Schema!Refused(p) /\ proc' = [proc EXCEPT ![p] = r]
    <2>1. proc[p].op \in ColumnOps /\ proc[p].job = 0
        BY <1>1 DEF RequestForm
    <2>2. proc[p].op.kind = "update" => proc[p].op.column \in DOMAIN columns
        BY <1>4 DEF Schema!Refused
    <2>3. steps \in Seq(Steps)
        BY <1>1, <2>1, <2>2, ColumnPlanFits
    <2> HIDE DEF steps
    <2>4. /\ r \in Requests /\ r.job = 0 /\ r.pc = "run" /\ r.at = 1 /\ r.steps = steps /\ r.op = proc[p].op
          /\ r.def = columns /\ r.marks = Schema!Planned(steps)
        <3>1. Schema!Planned(steps) \in Seq(Marks)
            BY <2>3, PlannedMarks
        <3> QED BY <1>1, <2>1, <2>3, <3>1 DEF Requests
    <2>5. RequestForm(r)
        <3>1. Len(steps) \in Nat /\ Len(r.marks) = Len(r.steps)
            BY <2>3, <2>4, PlannedMarks
        <3> HIDE DEF r
        <3> QED BY <1>1, <2>1, <2>2, <2>4, <3>1 DEF RequestForm
    <2> HIDE DEF r, SchemaInv
    <2> QED BY <1>1, <1>4, <2>4, <2>5, RequestReplacedJobsKept
<1> QED BY <1>2, <1>3, <1>4

\* The commit of a column's change touches no job.
LEMMA CommitColumnKeeps ==
    ASSUME SchemaInv, NEW p \in Procs, Schema!CommitColumn(p)
    PROVE  SchemaInv'
<1>1. /\ proc[p] \in Requests /\ RequestForm(proc[p]) /\ proc[p].pc = "run" /\ proc[p].job = 0
      /\ proc' = [proc EXCEPT ![p] = Schema!Idle] /\ jobs' = jobs
      /\ columns' = Schema!Defined(proc[p].op, proc[p].def) /\ table' = Schema!View(p)
    BY DEF Schema!CommitColumn, Schema!Ended, Schema!At, SchemaInv, SchemaTypes
<1>2. /\ proc[p].op \in ColumnOps /\ proc[p].def \in ColumnSets
      /\ proc[p].op.kind = "update" => proc[p].op.column \in DOMAIN proc[p].def
    BY <1>1 DEF RequestForm
<1>3. RestFits
    BY <1>1, <1>2, DefinedFits, ViewFits DEF RestFits
<1> QED BY <1>1, <1>3, RequestGone

\* Saving a record touches no request and no job.
LEMMA OthersKeep ==
    ASSUME SchemaInv, Schema!InsertRecord \/ UNCHANGED Schema!vars
    PROVE  SchemaInv'
<1>1. columns' = columns /\ table' = table /\ jobs' = jobs /\ proc' = proc
    BY DEF Schema!InsertRecord, Schema!vars, Schema!world
<1> QED BY <1>1 DEF SchemaInv, SchemaTypes, Owns

\* A crash ends every request; the rows it leaves are planned or failed.
LEMMA CrashKeeps ==
    ASSUME SchemaInv, Schema!Crash
    PROVE  SchemaInv'
<1>1. columns' = columns /\ table' = table /\ jobs' = jobs /\ proc' = [q \in Procs |-> Schema!Idle]
    BY DEF Schema!Crash, Schema!world
<1>2. SchemaTypes'
    BY <1>1, IdleRequest DEF SchemaInv, SchemaTypes
<1>3. \A q \in Procs : proc'[q] = Schema!Idle
    BY <1>1
<1>4. \A q \in Procs : RequestForm(proc'[q]) /\ Owns(proc[q])'
    BY <1>3, IdleRequest DEF Owns
<1>5. \A i \in 1 .. Len(jobs') : JobTruth(jobs'[i])
    BY <1>1 DEF SchemaInv
<1>6. \A q1, q2 \in Procs : q1 # q2 /\ proc'[q1].job = proc'[q2].job => proc'[q1].job = 0
    BY <1>3, IdleRequest
<1> QED BY <1>2, <1>4, <1>5, <1>6 DEF SchemaInv

\* At the start there is no job and no request.
LEMMA SchemaStart == Schema!Init => SchemaInv
<1> SUFFICES ASSUME Schema!Init PROVE SchemaInv
    OBVIOUS
<1>1. jobs = <<>> /\ proc = [q \in Procs |-> Schema!Idle]
    BY DEF Schema!Init
<1>2. columns \in ColumnSets /\ table \in ColumnSets \cup {Null}
    BY SchemaAssumption DEF Schema!Init
<1>3. SchemaTypes
    BY <1>1, <1>2, IdleRequest DEF SchemaTypes
<1>4. \A q \in Procs : proc[q] = Schema!Idle
    BY <1>1
<1> QED BY <1>1, <1>3, <1>4, IdleRequest DEF SchemaInv, Owns

\* Every step keeps the invariant.
LEMMA SchemaStep ==
    ASSUME SchemaInv, [Schema!Next]_(Schema!vars)
    PROVE  SchemaInv'
<1>1. ASSUME NEW p \in Procs, Schema!StartJob(p) PROVE SchemaInv'
    <2>1. PICK dry \in BOOLEAN : Schema!Begin(p, [kind |-> "job", dry |-> dry], "table")
        BY <1>1 DEF Schema!StartJob
    <2>2. [kind |-> "job", dry |-> dry] \in JobOps
        BY DEF JobOps
    <2> QED BY <2>1, <2>2, BeginKeeps
<1>2. ASSUME NEW p \in Procs, Schema!StartColumn(p) PROVE SchemaInv'
    <2>1. PICK c \in Schema!Names, nullable \in BOOLEAN, kind \in {"create", "update", "delete"} :
              Schema!Begin(p, [kind |-> kind, column |-> c, nullable |-> nullable], "definition")
        BY <1>2 DEF Schema!StartColumn
    <2>2. [kind |-> kind, column |-> c, nullable |-> nullable] \in ColumnOps
        BY DEF ColumnOps
    <2> QED BY <2>1, <2>2, BeginKeeps
<1>3. ASSUME NEW p \in Procs, Schema!Deadlocked(p) PROVE SchemaInv'
    <2>1. Schema!Wants(p) = "excl" /\ Schema!Failed(p)
        BY <1>3 DEF Schema!Deadlocked, Schema!Circle
    <2>2. proc[p].pc = "run"
        BY <2>1 DEF Schema!Wants, Schema!Ready, Schema!At
    <2> QED BY <2>1, <2>2, FailedKeeps
<1>4. ASSUME NEW p \in Procs, Schema!Continue(p) PROVE SchemaInv'
    BY <1>3, <1>4, ReadTableKeeps, ReadColumnsKeeps, CreateJobKeeps, MarkEmptyKeeps, WarnedKeeps, StatementKeeps,
       CommitJobKeeps, MarkJobFailedKeeps, MarkStepsFailedKeeps, ReadDefinitionKeeps, CommitColumnKeeps
    DEF Schema!Continue
<1> QED BY <1>1, <1>2, <1>4, OthersKeep, CrashKeeps DEF Schema!Next

\* The page of a job tells what happened, whatever failed, deadlocked or died
\* on the way: the marks are written in the transaction of the statements,
\* and the notes of a failure by other connections only after it has ended
\* (executeBuilderSchemaJob, markBuilderSchemaJobFailed).
THEOREM JobsTruthful == Schema!Spec => []JobsTellTheTruth
<1>1. SchemaInv => JobsTellTheTruth
    <2> SUFFICES ASSUME SchemaInv, NEW i \in DOMAIN jobs, NEW k \in DOMAIN jobs[i].steps
                 PROVE  IF jobs[i].status = "applied"
                        THEN jobs[i].marks[k] = IF Schema!Warns(jobs[i].steps[k]) THEN "skipped" ELSE "applied"
                        ELSE jobs[i].marks[k] # "applied"
        BY DEF JobsTellTheTruth, Schema!JobsTellTheTruth, Schema!ToSet
    <2>1. i \in 1 .. Len(jobs) /\ jobs[i] \in JobRows
        BY DEF SchemaInv, SchemaTypes
    <2>2. k \in 1 .. Len(jobs[i].steps)
        BY <2>1 DEF JobRows
    <2> QED BY <2>1, <2>2 DEF SchemaInv, JobTruth, DoneMark
<1> QED BY <1>1, SchemaStart, SchemaStep, PTL DEF Schema!Spec

-----------------------------------------------------------------------------
(* A plan has all the steps of every column.                                 *)

\* The elements of a sequence stay where they are when another one follows.
LEMMA InFront ==
    ASSUME NEW T, NEW s \in Seq(T), NEW t \in Seq(T), NEW m \in 1 .. Len(s)
    PROVE  m \in 1 .. Len(s \o t) /\ (s \o t)[m] = s[m]
    OBVIOUS

\* The elements of the second sequence follow those of the first.
LEMMA InBack ==
    ASSUME NEW T, NEW s \in Seq(T), NEW t \in Seq(T), NEW m \in 1 .. Len(t)
    PROVE  Len(s) + m \in 1 .. Len(s \o t) /\ (s \o t)[Len(s) + m] = t[m]
    OBVIOUS

\* Every element of one sequence is one of the other.
Within(steps, plan) == \A m \in 1 .. Len(steps) : \E n \in 1 .. Len(plan) : plan[n] = steps[m]

\* A plan has the steps of the missing table, of every column of the
\* definition and of every surplus one (buildSchemaPlanSteps).
LEMMA PlanCovers ==
    ASSUME NEW exists, NEW def \in ColumnSets, NEW now \in ColumnSets
    PROVE  /\ Within(Schema!NewTable(exists), Schema!Plan(exists, def, now))
           /\ \A c \in Schema!Names : /\ Within(Schema!ColumnSteps(c, def, now), Schema!Plan(exists, def, now))
                                      /\ Within(Schema!ExtraSteps(c, def, now), Schema!Plan(exists, def, now))
<1> DEFINE missing == [k \in DOMAIN Columns |-> Schema!ColumnSteps(Columns[k], def, now)]
           extra == [k \in DOMAIN Columns |-> Schema!ExtraSteps(Columns[k], def, now)]
<1>0. DOMAIN Columns = 1 .. Len(Columns) /\ Len(Columns) \in Nat
    BY ColumnNames
<1>1. /\ missing \in Seq(Seq(Steps)) /\ extra \in Seq(Seq(Steps)) /\ Len(missing) = Len(Columns) /\ Len(extra) = Len(Columns)
      /\ \A k \in 1 .. Len(Columns) : missing[k] = Schema!ColumnSteps(Columns[k], def, now)
      /\ \A k \in 1 .. Len(Columns) : extra[k] = Schema!ExtraSteps(Columns[k], def, now)
    <2>1. missing \in [1 .. Len(Columns) -> Seq(Steps)] /\ extra \in [1 .. Len(Columns) -> Seq(Steps)]
        BY <1>0, ColumnNames, ColumnStepsFit
    <2>2. /\ \A k \in 1 .. Len(Columns) : missing[k] = Schema!ColumnSteps(Columns[k], def, now)
          /\ \A k \in 1 .. Len(Columns) : extra[k] = Schema!ExtraSteps(Columns[k], def, now)
        BY <1>0
    <2> HIDE DEF missing, extra
    <2> QED BY <1>0, <2>1, <2>2, FunctionIsSeq
<1>2. Schema!Plan(exists, def, now) = Schema!NewTable(exists) \o Schema!FlattenSeq(missing) \o Schema!FlattenSeq(extra)
    BY Zenon DEF Schema!Plan
<1> HIDE DEF missing, extra, Steps
<1>3. Schema!FlattenSeq(missing) \in Seq(Steps) /\ Schema!FlattenSeq(extra) \in Seq(Steps)
    BY <1>1, FlattenSeqType
<1>4. Schema!NewTable(exists) \in Seq(Steps)
    BY NewTableFits
<1> DEFINE plan == Schema!Plan(exists, def, now)
           e == Schema!NewTable(exists)
           y == Schema!FlattenSeq(missing)
           z == Schema!FlattenSeq(extra)
           InPlan(steps) == Within(steps, plan)
<1>5. e \in Seq(Steps) /\ y \in Seq(Steps) /\ z \in Seq(Steps) /\ plan = e \o y \o z
    BY <1>2, <1>3, <1>4
<1> HIDE DEF plan, e, y, z
<1>6. e \o y \in Seq(Steps)
    BY <1>5
<1>7. InPlan(e)
    <2> SUFFICES \A m \in 1 .. Len(e) : \E n \in 1 .. Len(plan) : plan[n] = e[m]
        BY DEF Within
    <2> TAKE m \in 1 .. Len(e)
    <2>1. m \in 1 .. Len(e \o y) /\ (e \o y)[m] = e[m]
        BY <1>5, InFront
    <2>2. m \in 1 .. Len(plan) /\ plan[m] = e[m]
        BY <1>5, <1>6, <2>1, InFront
    <2> QED BY <2>2
<1>8. InPlan(y)
    <2> SUFFICES \A m \in 1 .. Len(y) : \E n \in 1 .. Len(plan) : plan[n] = y[m]
        BY DEF Within
    <2> TAKE m \in 1 .. Len(y)
    <2>1. Len(e) + m \in 1 .. Len(e \o y) /\ (e \o y)[Len(e) + m] = y[m]
        BY <1>5, InBack
    <2>2. Len(e) + m \in 1 .. Len(plan) /\ plan[Len(e) + m] = y[m]
        BY <1>5, <1>6, <2>1, InFront
    <2> QED BY <2>2
<1>9. InPlan(z)
    <2> SUFFICES \A m \in 1 .. Len(z) : \E n \in 1 .. Len(plan) : plan[n] = z[m]
        BY DEF Within
    <2> TAKE m \in 1 .. Len(z)
    <2>1. Len(e \o y) + m \in 1 .. Len(plan) /\ plan[Len(e \o y) + m] = z[m]
        BY <1>5, <1>6, InBack
    <2> QED BY <2>1
<1>10. ASSUME NEW seqs \in Seq(Seq(Steps)), InPlan(Schema!FlattenSeq(seqs)), NEW k \in 1 .. Len(seqs)
       PROVE  InPlan(seqs[k])
    <2> SUFFICES \A m \in 1 .. Len(seqs[k]) : \E n \in 1 .. Len(plan) : plan[n] = seqs[k][m]
        BY DEF Within
    <2> TAKE m \in 1 .. Len(seqs[k])
    <2>1. PICK n \in 1 .. Len(Schema!FlattenSeq(seqs)) : Schema!FlattenSeq(seqs)[n] = seqs[k][m]
        BY FlattenSeqCovers
    <2>2. PICK i \in 1 .. Len(plan) : plan[i] = Schema!FlattenSeq(seqs)[n]
        BY <1>10, <2>1 DEF Within
    <2> QED BY <2>1, <2>2
<1>11. ASSUME NEW c \in Schema!Names
       PROVE  InPlan(Schema!ColumnSteps(c, def, now)) /\ InPlan(Schema!ExtraSteps(c, def, now))
    <2>1. PICK k \in DOMAIN Columns : Columns[k] = c
        BY ColumnNames
    <2>2. /\ k \in 1 .. Len(missing) /\ k \in 1 .. Len(extra)
          /\ missing[k] = Schema!ColumnSteps(c, def, now) /\ extra[k] = Schema!ExtraSteps(c, def, now)
        BY <1>0, <1>1, <2>1
    <2>3. missing \in Seq(Seq(Steps)) /\ extra \in Seq(Seq(Steps))
        BY <1>1
    <2>4. InPlan(Schema!FlattenSeq(missing)) /\ InPlan(Schema!FlattenSeq(extra))
        BY <1>8, <1>9 DEF y, z
    <2> HIDE DEF InPlan
    <2>5. InPlan(missing[k]) /\ InPlan(extra[k])
        BY <1>10, <2>2, <2>3, <2>4
    <2> QED BY <2>2, <2>5
<1> QED BY <1>7, <1>11 DEF e, plan

-----------------------------------------------------------------------------
(* The invariant of the requests nobody disturbs: what a quiet request has   *)
(* still to do is what the table it sees still lacks.                        *)
\* A step that gives a column the nullability it is defined with.
Touches(step, c) == step.column = c /\ step.action \in {"add_column", "drop_not_null", "set_not_null"}
\* The column is there, with the nullability it is defined with.
Agrees(now, c, def) == c \in DOMAIN Schema!TableOf(now) /\ Schema!TableOf(now)[c].nullable = def[c].nullable
\* What a quiet job's step may be: nothing is dropped, and what is added or
\* changed is as the definition says.
StepServes(step, def, base) ==
    /\ step.action # "drop_column"
    /\ step.action \in {"add_column", "drop_not_null", "set_not_null"} => step.column \in DOMAIN def
    /\ step.action = "add_column" => step.column \notin DOMAIN Schema!TableOf(base) /\ step.as = def[step.column]
    /\ step.action = "drop_not_null" => def[step.column].nullable
    /\ step.action = "set_not_null" => ~def[step.column].nullable
\* Columns that were not in the committed table are the job's, and as
\* defined.
FromBase(now, def, base) ==
    \A c \in DOMAIN Schema!TableOf(now) :
        c \in DOMAIN Schema!TableOf(base) \/ (c \in DOMAIN def /\ Schema!TableOf(now)[c] = def[c])
\* What is missing in the table the job sees is still to be executed.
RunFollows(steps, at, now, def, base) ==
    /\ \A k \in 1 .. Len(steps) : StepServes(steps[k], def, base)
    /\ now # Null \/ \E k \in at .. Len(steps) : steps[k].action = "create_table"
    /\ \A c \in DOMAIN def : Agrees(now, c, def) \/ \E k \in at .. Len(steps) : Touches(steps[k], c)
    /\ FromBase(now, def, base)
\* The table a request sees.
Work(r, base) == IF r.mine = Null THEN base ELSE r.mine
\* A quiet job has read the definition and the table as they still are.
JobFollows(r, def, base) ==
    /\ r.pc \in {"columns", "plan"} => r.exists = (base # Null)
    /\ r.pc = "plan" => r.def = def
    /\ r.pc \in {"table", "columns", "plan", "definition"} => r.mine = Null
    /\ r.pc = "run" /\ r.job # 0 => RunFollows(r.steps, r.at, Work(r, base), def, base)
\* A quiet change of a column has too; after its last statement the table is
\* what the definition is going to be.
ColumnFollows(r, def, base) ==
    r.pc = "run" /\ r.job = 0 =>
        /\ r.def = def /\ r.steps = Schema!ColumnPlan(r.op, def)
        /\ (r.op.kind = "create") = (r.op.column \notin DOMAIN def)
        /\ base = def => Work(r, base) = IF r.at <= Len(r.steps) THEN def ELSE Schema!Defined(r.op, def)
Follows(r, def, base) == JobFollows(r, def, base) /\ ColumnFollows(r, def, base)
FollowInv == quiet \subseteq Procs /\ \A p \in quiet : Follows(proc[p], columns, table)

\* A request that is over follows anything.
LEMMA IdleFollows == ASSUME NEW def, NEW base PROVE Follows(Schema!Idle, def, base)
    BY DEF Schema!Idle, Follows, JobFollows, ColumnFollows

\* A step that leaves definition and table alone and makes one request follow
\* them keeps all following.
LEMMA OneFollows ==
    ASSUME SchemaInv, FollowInv, columns' = columns, table' = table, NEW p \in Procs, quiet' \subseteq quiet \cup {p},
           NEW r, proc' = [proc EXCEPT ![p] = r], p \in quiet' => Follows(r, columns, table)
    PROVE  FollowInv'
<1>1. \A q \in Procs : proc'[q] = IF q = p THEN r ELSE proc[q]
    BY DEF SchemaInv, SchemaTypes
<1>2. quiet' \subseteq Procs
    BY DEF FollowInv
<1>3. ASSUME NEW q \in quiet' PROVE Follows(proc'[q], columns', table')
    <2>1. CASE q = p
        BY <1>1, <1>3, <2>1
    <2>2. CASE q # p
        <3>1. q \in quiet /\ q \in Procs
            BY <1>2, <2>2
        <3> QED BY <1>1, <2>2, <3>1 DEF FollowInv
    <2> QED BY <2>1, <2>2
<1> QED BY <1>2, <1>3 DEF FollowInv

\* After a commit that changed definition or table nobody else is quiet.
LEMMA NoneFollows == ASSUME quiet' = {} PROVE FollowInv'
    BY DEF FollowInv

\* The reads of PlanAndApplyBuilderSchema.
LEMMA ReadsFollow ==
    ASSUME SchemaInv, FollowInv, NEW p \in Procs, Schema!ReadTable(p) \/ Schema!ReadColumns(p)
    PROVE  FollowInv'
<1>1. columns' = columns /\ table' = table /\ quiet' \subseteq quiet \cup {p} /\ proc[p] \in Requests
    BY DEF Schema!ReadTable, Schema!ReadColumns, Schema!world, SchemaInv, SchemaTypes
<1>2. CASE Schema!ReadTable(p)
    <2> DEFINE r == [proc[p] EXCEPT !.pc = "columns", !.exists = (table # Null)]
    <2>1. proc' = [proc EXCEPT ![p] = r] /\ quiet' = quiet /\ proc[p].pc = "table"
        BY <1>2 DEF Schema!ReadTable, Schema!At
    <2>2. p \in quiet => proc[p].mine = Null
        BY <2>1 DEF FollowInv, Follows, JobFollows
    <2>3. r.pc = "columns" /\ r.exists = (table # Null) /\ r.mine = proc[p].mine
        BY <1>1 DEF Requests
    <2> HIDE DEF r
    <2>4. p \in quiet' => Follows(r, columns, table)
        BY <2>1, <2>2, <2>3 DEF Follows, JobFollows, ColumnFollows
    <2> QED BY <1>1, <2>1, <2>4, OneFollows
<1>3. CASE Schema!ReadColumns(p)
    <2> DEFINE r == [proc[p] EXCEPT !.pc = "plan", !.def = columns]
    <2>1. proc' = [proc EXCEPT ![p] = r] /\ quiet' = quiet /\ proc[p].pc = "columns"
        BY <1>3 DEF Schema!ReadColumns, Schema!At
    <2>2. p \in quiet => proc[p].mine = Null /\ proc[p].exists = (table # Null)
        BY <2>1 DEF FollowInv, Follows, JobFollows
    <2>3. r.pc = "plan" /\ r.def = columns /\ r.exists = proc[p].exists /\ r.mine = proc[p].mine
        BY <1>1 DEF Requests
    <2> HIDE DEF r
    <2>4. p \in quiet' => Follows(r, columns, table)
        BY <2>1, <2>2, <2>3 DEF Follows, JobFollows, ColumnFollows
    <2> QED BY <1>1, <2>1, <2>4, OneFollows
<1> QED BY <1>2, <1>3

\* A request that starts is quiet and has read nothing.
LEMMA BeginFollows ==
    ASSUME SchemaInv, FollowInv, NEW p \in Procs, NEW op, NEW place \in {"table", "definition"}, Schema!Begin(p, op, place)
    PROVE  FollowInv'
<1> DEFINE r == [Schema!Idle EXCEPT !.pc = place, !.op = op]
<1>1. columns' = columns /\ table' = table /\ quiet' \subseteq quiet \cup {p} /\ proc' = [proc EXCEPT ![p] = r]
    BY DEF Schema!Begin, Schema!world
<1>2. r.pc = place /\ r.mine = Null
    BY DEF Schema!Idle
<1> HIDE DEF r
<1>3. Follows(r, columns, table)
    BY <1>2 DEF Follows, JobFollows, ColumnFollows
<1> QED BY <1>1, <1>3, OneFollows

\* A request that failed has nothing more to execute.
LEMMA FailedFollows ==
    ASSUME SchemaInv, FollowInv, NEW p \in Procs, Schema!Failed(p)
    PROVE  FollowInv'
<1> DEFINE r == IF proc[p].job = 0 THEN Schema!Idle ELSE [proc[p] EXCEPT !.pc = "markjob", !.mine = Null]
<1>1. columns' = columns /\ table' = table /\ quiet' \subseteq quiet \cup {p} /\ proc' = [proc EXCEPT ![p] = r]
    BY DEF Schema!Failed, Schema!world
<1>2. proc[p] \in Requests
    BY DEF SchemaInv, SchemaTypes
<1>3. r = Schema!Idle \/ r.pc = "markjob"
    BY <1>2 DEF Requests
<1> HIDE DEF r
<1>4. Follows(r, columns, table)
    <2>1. CASE r = Schema!Idle
        BY <2>1, IdleFollows
    <2>2. CASE r.pc = "markjob"
        BY <2>2 DEF Follows, JobFollows, ColumnFollows
    <2> QED BY <1>3, <2>1, <2>2
<1> QED BY <1>1, <1>4, OneFollows

\* The ends of requests: MarkEmpty, MarkStepsFailed and the commits.
LEMMA EndsFollow ==
    ASSUME SchemaInv, FollowInv, NEW p \in Procs,
           Schema!MarkEmpty(p) \/ Schema!MarkStepsFailed(p) \/ Schema!CommitJob(p) \/ Schema!CommitColumn(p)
    PROVE  FollowInv'
<1>1. proc' = [proc EXCEPT ![p] = Schema!Idle]
    BY DEF Schema!MarkEmpty, Schema!MarkStepsFailed, Schema!CommitJob, Schema!CommitColumn
<1>2. quiet' = {} \/ (columns' = columns /\ table' = table /\ quiet' \subseteq quiet \cup {p})
    BY DEF Schema!MarkEmpty, Schema!MarkStepsFailed, Schema!CommitJob, Schema!CommitColumn, Schema!Seen, Schema!world
<1> QED BY <1>1, <1>2, IdleFollows, OneFollows, NoneFollows

\* The first note of a failure.
LEMMA MarkJobFailedFollows ==
    ASSUME SchemaInv, FollowInv, NEW p \in Procs, Schema!MarkJobFailed(p)
    PROVE  FollowInv'
<1> DEFINE r == [proc[p] EXCEPT !.pc = "marksteps"]
<1>1. columns' = columns /\ table' = table /\ quiet' \subseteq quiet \cup {p} /\ proc' = [proc EXCEPT ![p] = r]
    BY DEF Schema!MarkJobFailed, Schema!Go, Schema!world
<1>2. r.pc = "marksteps"
    BY DEF SchemaInv, SchemaTypes, Requests
<1> HIDE DEF r
<1>3. Follows(r, columns, table)
    BY <1>2 DEF Follows, JobFollows, ColumnFollows
<1> QED BY <1>1, <1>3, OneFollows

\* Saves of records and crashes.
LEMMA OthersFollow ==
    ASSUME FollowInv, Schema!InsertRecord \/ UNCHANGED Schema!vars \/ Schema!Crash
    PROVE  FollowInv'
    BY NoneFollows DEF Schema!InsertRecord, Schema!vars, Schema!world, Schema!Crash, FollowInv

-----------------------------------------------------------------------------
(* A plan serves the definition it is made from.                             *)
Serving(def, base) == {s \in Steps : StepServes(s, def, base)}

\* PlanCovers for one step of one column.
LEMMA PlanCoversColumn ==
    ASSUME NEW exists, NEW def \in ColumnSets, NEW now \in ColumnSets, NEW c \in Schema!Names,
           NEW m \in 1 .. Len(Schema!ColumnSteps(c, def, now))
    PROVE  \E k \in 1 .. Len(Schema!Plan(exists, def, now)) :
               Schema!Plan(exists, def, now)[k] = Schema!ColumnSteps(c, def, now)[m]
<1>1. Within(Schema!ColumnSteps(c, def, now), Schema!Plan(exists, def, now))
    BY PlanCovers
<1> QED BY <1>1 DEF Within

\* Empty and one-step lists over a set.
LEMMA AtMostOne ==
    ASSUME NEW T, NEW t \in T, NEW n, n = <<>> \/ n = <<t>>
    PROVE  n \in Seq(T)
<1>1. <<>> \in Seq(T) /\ <<t>> \in Seq(T)
    OBVIOUS
<1> QED BY <1>1

\* The steps of a missing table, in any set that has them.
LEMMA NewTableSteps ==
    ASSUME NEW T, NEW exists,
           Schema!Step("create_table", Null, Null) \in T,
           Schema!Step("ensure_record_version_trigger", Null, Null) \in T
    PROVE  Schema!NewTable(exists) \in Seq(T)
    BY DEF Schema!NewTable, Schema!If

\* The steps a column of the definition asks for serve it.
LEMMA ColumnStepsServe ==
    ASSUME NEW def \in ColumnSets, NEW base \in ColumnSets \cup {Null}, NEW c \in Schema!Names
    PROVE  /\ Schema!ColumnSteps(c, def, Schema!TableOf(base)) \in Seq(Serving(def, base))
           /\ Schema!ExtraSteps(c, def, Schema!TableOf(base)) \in Seq(Serving(def, base))
<1> DEFINE T == Serving(def, base)
           now == Schema!TableOf(base)
<1>1. now \in ColumnSets
    BY TableOfFits
<1>2. ASSUME NEW a \in {"warn_type_drift", "warn_extra_column"} PROVE Schema!Step(a, c, Null) \in T
    <2>1. Schema!Step(a, c, Null) \in Steps /\ Schema!Step(a, c, Null).action = a
        BY StepFits DEF Actions
    <2> QED BY <2>1 DEF StepServes, Serving
<1>3. ASSUME c \in DOMAIN def, c \notin DOMAIN now PROVE Schema!Step("add_column", c, def[c]) \in T
    <2>0. def[c] \in Col
        BY <1>3, ColumnSetShape
    <2> DEFINE s == Schema!Step("add_column", c, def[c])
    <2>1. s \in Steps /\ s.action = "add_column" /\ s.column = c /\ s.as = def[c]
        BY <2>0, StepFits DEF Actions
    <2> HIDE DEF s
    <2>2. StepServes(s, def, base)
        BY <1>3, <2>1 DEF StepServes
    <2> QED BY <2>1, <2>2 DEF s, Serving
<1>4. ASSUME c \in DOMAIN def, c \in DOMAIN now PROVE Schema!Nullability(c, def[c], now[c]) \in Seq(T)
    <2>0. def[c] \in Col /\ now[c] \in Col
        BY <1>1, <1>4, ColumnSetShape
    <2>1. ASSUME NEW a \in {"drop_not_null", "set_not_null", "precheck_no_nulls"},
                 a = "drop_not_null" => def[c].nullable, a = "set_not_null" => ~def[c].nullable
          PROVE  Schema!Step(a, c, def[c]) \in T
        <3> DEFINE s == Schema!Step(a, c, def[c])
        <3>1. s \in Steps /\ s.action = a /\ s.column = c /\ s.as = def[c]
            BY <2>0, StepFits DEF Actions
        <3> HIDE DEF s
        <3>2. StepServes(s, def, base)
            BY <1>4, <2>1, <3>1 DEF StepServes
        <3> QED BY <3>1, <3>2 DEF s, Serving
    <2>2. CASE def[c].nullable
        <3> DEFINE t == Schema!Step("drop_not_null", c, def[c])
        <3>1. t \in T
            BY <2>1, <2>2
        <3> DEFINE n == Schema!Nullability(c, def[c], now[c])
        <3>2. n = <<>> \/ n = <<t>>
            BY <2>2 DEF Schema!Nullability
        <3> HIDE DEF now, T, t, n
        <3>3. n \in Seq(T)
            BY <3>1, <3>2, AtMostOne
        <3> QED BY <3>3 DEF n
    <2>3. CASE ~def[c].nullable
        <3>1. Schema!Step("precheck_no_nulls", c, def[c]) \in T
            BY <2>1
        <3>2. Schema!Step("set_not_null", c, def[c]) \in T
            BY <2>1, <2>3
        <3> HIDE DEF now, T
        <3> QED BY <2>3, <3>1, <3>2 DEF Schema!Nullability
    <2> QED BY <2>2, <2>3
<1> HIDE DEF now, T
<1>5. Schema!ColumnSteps(c, def, now) \in Seq(T)
    <2>1. CASE c \notin DOMAIN def
        BY <2>1 DEF Schema!ColumnSteps
    <2>2. CASE c \in DOMAIN def /\ c \notin DOMAIN now
        BY <1>3, <2>2 DEF Schema!ColumnSteps
    <2>3. CASE c \in DOMAIN def /\ c \in DOMAIN now
        <3>1. Schema!Nullability(c, def[c], now[c]) \in Seq(T) /\ Schema!Step("warn_type_drift", c, Null) \in T
            BY <1>2, <1>4, <2>3
        <3> QED BY <2>3, <3>1 DEF Schema!ColumnSteps, Schema!If
    <2> QED BY <2>1, <2>2, <2>3
<1>6. Schema!ExtraSteps(c, def, now) \in Seq(T)
    BY <1>2 DEF Schema!ExtraSteps, Schema!If
<1> QED BY <1>5, <1>6 DEF now, T

\* So does the plan.
LEMMA PlanServes ==
    ASSUME NEW def \in ColumnSets, NEW base \in ColumnSets \cup {Null}, NEW exists
    PROVE  \A k \in 1 .. Len(Schema!Plan(exists, def, Schema!TableOf(base))) :
               StepServes(Schema!Plan(exists, def, Schema!TableOf(base))[k], def, base)
<1> DEFINE T == Serving(def, base)
           plan == Schema!Plan(exists, def, Schema!TableOf(base))
<1>1. ASSUME NEW a \in {"create_table", "ensure_record_version_trigger"} PROVE Schema!Step(a, Null, Null) \in T
    <2>1. Schema!Step(a, Null, Null) \in Steps /\ Schema!Step(a, Null, Null).action = a
        BY StepFits DEF Actions
    <2> QED BY <2>1 DEF StepServes, Serving
<1>2. \A c \in Schema!Names : /\ Schema!ColumnSteps(c, def, Schema!TableOf(base)) \in Seq(T)
                              /\ Schema!ExtraSteps(c, def, Schema!TableOf(base)) \in Seq(T)
    BY ColumnStepsServe
<1>3. Schema!Step("create_table", Null, Null) \in T /\ Schema!Step("ensure_record_version_trigger", Null, Null) \in T
    BY <1>1
<1> HIDE DEF T
<1>4. Schema!NewTable(exists) \in Seq(T)
    BY <1>3, NewTableSteps
<1>5. plan \in Seq(T)
    BY <1>2, <1>4, PlanOnly
<1> HIDE DEF plan
<1>6. \A k \in 1 .. Len(plan) : plan[k] \in T
    BY <1>5
<1> QED BY <1>6 DEF T, plan, Serving

\* A plan made from the definition and the table as they are has all that is
\* missing.
LEMMA PlanStarts ==
    ASSUME NEW def \in ColumnSets, NEW base \in ColumnSets \cup {Null}, NEW steps,
           NEW exists \in BOOLEAN, exists = (base # Null), steps = Schema!Plan(exists, def, Schema!TableOf(base))
    PROVE  RunFollows(steps, 1, base, def, base)
<1> DEFINE now == Schema!TableOf(base)
<1>1. now \in ColumnSets
    BY TableOfFits
<1>2. \A k \in 1 .. Len(steps) : StepServes(steps[k], def, base)
    BY PlanServes
<1>3. base # Null \/ \E k \in 1 .. Len(steps) : steps[k].action = "create_table"
    <2> SUFFICES ASSUME base = Null PROVE \E k \in 1 .. Len(steps) : steps[k].action = "create_table"
        OBVIOUS
    <2> DEFINE e == Schema!Step("create_table", Null, Null)
               y == Schema!Step("ensure_record_version_trigger", Null, Null)
               first == Schema!NewTable(exists)
    <2>0. e.action = "create_table"
        BY DEF Schema!Step
    <2>1. first = <<e, y>>
        BY DEF Schema!NewTable, Schema!If
    <2> HIDE DEF e, y, first
    <2>2. \E m \in 1 .. Len(first) : first[m] = e
        BY <2>1
    <2>3. \E m \in 1 .. Len(steps) : steps[m] = e
        <3>1. \A m \in 1 .. Len(first) : \E k \in 1 .. Len(steps) : steps[k] = first[m]
            <4>1. Within(first, steps)
                BY <1>1, PlanCovers DEF first
            <4> QED BY <4>1 DEF Within
        <3> QED BY <2>2, <3>1
    <2> QED BY <2>0, <2>3
<1>4. ASSUME NEW c \in DOMAIN def
      PROVE  Agrees(base, c, def) \/ \E k \in 1 .. Len(steps) : Touches(steps[k], c)
    <2>0. c \in Schema!Names /\ def[c] \in Col
        BY ColumnSetShape
    <2>1. ASSUME NEW e, \E m \in 1 .. Len(Schema!ColumnSteps(c, def, now)) : Schema!ColumnSteps(c, def, now)[m] = e
          PROVE  \E k \in 1 .. Len(steps) : steps[k] = e
        <3>1. PICK m \in 1 .. Len(Schema!ColumnSteps(c, def, now)) : Schema!ColumnSteps(c, def, now)[m] = e
            BY <2>1
        <3>2. steps = Schema!Plan(exists, def, now)
            OBVIOUS
        <3> HIDE DEF now
        <3>3. \E k \in 1 .. Len(Schema!Plan(exists, def, now)) :
                  Schema!Plan(exists, def, now)[k] = Schema!ColumnSteps(c, def, now)[m]
            BY <1>1, <2>0, PlanCoversColumn
        <3> QED BY <3>1, <3>2, <3>3
    <2>2. CASE c \notin DOMAIN now
        <3> DEFINE e == Schema!Step("add_column", c, def[c])
        <3>1. e.action = "add_column" /\ e.column = c
            BY DEF Schema!Step
        <3>2. Schema!ColumnSteps(c, def, now) = <<e>>
            BY <2>2 DEF Schema!ColumnSteps
        <3> HIDE DEF e
        <3>3. \E k \in 1 .. Len(steps) : steps[k] = e
            BY <2>1, <3>2
        <3> QED BY <3>1, <3>3 DEF Touches
    <2>3. CASE c \in DOMAIN now /\ def[c].nullable = now[c].nullable
        BY <2>3 DEF Agrees
    <2>4. CASE c \in DOMAIN now /\ def[c].nullable # now[c].nullable
        <3> DEFINE a == IF def[c].nullable THEN "drop_not_null" ELSE "set_not_null"
                   e == Schema!Step(a, c, def[c])
                   w == Schema!If(def[c].type # now[c].type, <<Schema!Step("warn_type_drift", c, Null)>>)
                   n == Schema!Nullability(c, def[c], now[c])
                   s == Schema!ColumnSteps(c, def, now)
                   S == {e, Schema!Step("warn_type_drift", c, Null), Schema!Step("precheck_no_nulls", c, def[c])}
        <3>1. e.action = a /\ e.column = c /\ a \in {"drop_not_null", "set_not_null"}
            BY DEF Schema!Step
        <3>2. n \in Seq(S) /\ \E m \in 1 .. Len(n) : n[m] = e
            <4>1. CASE def[c].nullable
                <5>1. n = <<e>>
                    BY <2>4, <4>1 DEF Schema!Nullability
                <5> HIDE DEF e, n
                <5> QED BY <5>1
            <4>2. CASE ~def[c].nullable
                <5>1. n = <<Schema!Step("precheck_no_nulls", c, def[c]), e>>
                    BY <2>4, <4>2 DEF Schema!Nullability
                <5> HIDE DEF e, n
                <5> QED BY <5>1
            <4> QED BY <4>1, <4>2
        <3>3. w \in Seq(S)
            <4> DEFINE t == Schema!Step("warn_type_drift", c, Null)
            <4>1. t \in S
                OBVIOUS
            <4> HIDE DEF e, t, S
            <4> QED BY <4>1 DEF Schema!If, w, t
        <3>4. s = w \o n
            BY <2>4 DEF Schema!ColumnSteps
        <3> HIDE DEF e, w, n, S, now, a
        <3>5. PICK m \in 1 .. Len(n) : n[m] = e
            BY <3>2
        <3>6. Len(w) + m \in 1 .. Len(s) /\ s[Len(w) + m] = e
            <4> HIDE DEF s
            <4> QED BY <3>2, <3>3, <3>4, <3>5, InBack
        <3>7. \E k \in 1 .. Len(steps) : steps[k] = e
            BY <2>1, <3>6 DEF now
        <3> QED BY <3>1, <3>7 DEF Touches
    <2> QED BY <2>2, <2>3, <2>4
<1>5. FromBase(base, def, base)
    BY DEF FromBase
<1> QED BY <1>2, <1>3, <1>4, <1>5 DEF RunFollows

\* createBuilderSchemaJob, by a request that is quiet.
LEMMA CreateJobFollows ==
    ASSUME SchemaInv, FollowInv, NEW p \in Procs, Schema!CreateJob(p)
    PROVE  FollowInv'
<1> DEFINE steps == Schema!Plan(proc[p].exists, proc[p].def, Schema!TableOf(table))
           dry == proc[p].op.dry
           r == [proc[p] EXCEPT !.pc = IF steps = <<>> THEN "empty" ELSE "run",
                                !.job = Len(jobs) + 1, !.at = 1, !.steps = steps, !.marks = Schema!Planned(steps)]
<1>1. /\ columns' = columns /\ table' = table /\ proc[p].pc = "plan"
      /\ proc' = [proc EXCEPT ![p] = IF dry THEN Schema!Idle ELSE r]
      /\ quiet' = IF dry THEN quiet \ {p} ELSE quiet
    BY DEF Schema!CreateJob, Schema!world, Schema!At
<1>2. columns \in ColumnSets /\ table \in ColumnSets \cup {Null} /\ proc[p] \in Requests /\ Len(jobs) \in Nat
    BY DEF SchemaInv, SchemaTypes
<1> HIDE DEF steps, dry
<1>3. CASE dry
    <2>1. proc' = [proc EXCEPT ![p] = Schema!Idle] /\ quiet' \subseteq quiet \cup {p}
        BY <1>1, <1>3
    <2> QED BY <1>1, <2>1, IdleFollows, OneFollows
<1>4. CASE ~dry
    <2>1. proc' = [proc EXCEPT ![p] = r] /\ quiet' = quiet
        BY <1>1, <1>4
    <2>2. /\ r.pc = IF steps = <<>> THEN "empty" ELSE "run"
          /\ r.job = Len(jobs) + 1 /\ r.at = 1 /\ r.steps = steps /\ r.mine = proc[p].mine
        BY <1>2 DEF Requests
    <2> HIDE DEF r
    <2>3. ASSUME p \in quiet PROVE Follows(r, columns, table)
        <3>1. proc[p].def = columns /\ proc[p].mine = Null /\ proc[p].exists = (table # Null)
            BY <1>1, <2>3 DEF FollowInv, Follows, JobFollows
        <3>4. proc[p].exists \in BOOLEAN
            BY <1>2 DEF Requests
        <3>2. RunFollows(steps, 1, table, columns, table)
            BY <1>2, <3>1, <3>4, PlanStarts DEF steps
        <3>3. Work(r, table) = table /\ r.job # 0
            BY <1>2, <2>2, <3>1 DEF Work
        <3> QED BY <2>2, <3>2, <3>3 DEF Follows, JobFollows, ColumnFollows
    <2> QED BY <1>1, <2>1, <2>3, OneFollows
<1> QED BY <1>3, <1>4

-----------------------------------------------------------------------------
(* Executing one step of a plan leaves the rest serving.                     *)

\* A step that keeps what agrees and makes its own column agree leaves the
\* rest of the plan serving.
LEMMA StepTaken ==
    ASSUME NEW steps \in Seq(Steps), NEW at \in 1 .. Len(steps), NEW now, NEW next, NEW def, NEW base,
           RunFollows(steps, at, now, def, base),
           now # Null => next # Null,
           steps[at].action = "create_table" => next # Null,
           \A c \in DOMAIN def : Agrees(now, c, def) \/ Touches(steps[at], c) => Agrees(next, c, def),
           FromBase(next, def, base)
    PROVE  RunFollows(steps, at + 1, next, def, base)
<1>1. ASSUME NEW k \in at .. Len(steps), k # at PROVE k \in at + 1 .. Len(steps)
    BY <1>1
<1>2. next # Null \/ \E k \in at + 1 .. Len(steps) : steps[k].action = "create_table"
    BY <1>1 DEF RunFollows
<1>3. ASSUME NEW c \in DOMAIN def
      PROVE  Agrees(next, c, def) \/ \E k \in at + 1 .. Len(steps) : Touches(steps[k], c)
    <2>1. CASE Agrees(now, c, def)
        BY <2>1
    <2>2. CASE \E k \in at .. Len(steps) : Touches(steps[k], c)
        BY <1>1, <2>2
    <2> QED BY <2>1, <2>2 DEF RunFollows
<1> QED BY <1>2, <1>3 DEF RunFollows

\* A step that changes nothing (a warning, a check for NULLs) does.
LEMMA WarningTaken ==
    ASSUME NEW steps \in Seq(Steps), NEW at \in 1 .. Len(steps), NEW now, NEW def, NEW base,
           RunFollows(steps, at, now, def, base),
           steps[at].action \notin {"create_table", "add_column", "drop_not_null", "set_not_null"}
    PROVE  RunFollows(steps, at + 1, now, def, base)
<1>1. \A c \in DOMAIN def : ~Touches(steps[at], c)
    BY DEF Touches
<1>2. FromBase(now, def, base)
    BY DEF RunFollows
<1> QED BY <1>1, <1>2, StepTaken

\* So does every statement of a plan that serves, also ADD COLUMN IF NOT
\* EXISTS of a column that is there already.
LEMMA StatementTaken ==
    ASSUME NEW steps \in Seq(Steps), NEW at \in 1 .. Len(steps), NEW now \in ColumnSets \cup {Null},
           NEW def \in ColumnSets, NEW base \in ColumnSets \cup {Null},
           RunFollows(steps, at, now, def, base), ~Schema!Fails(steps[at], now)
    PROVE  RunFollows(steps, at + 1, Schema!After(steps[at], now), def, base)
<1> DEFINE step == steps[at]
           next == Schema!After(step, now)
<1>1. step \in Steps
    <2> HIDE DEF Steps
    <2> QED OBVIOUS
<1>2. StepServes(step, def, base) /\ FromBase(now, def, base)
    BY DEF RunFollows
<1>3. next \in ColumnSets /\ next # Null /\ Schema!TableOf(next) = next
    <2>1. next \in ColumnSets
        BY <1>1, AfterFits
    <2> HIDE DEF next
    <2> QED BY <2>1, NullNowhere DEF Schema!TableOf
<1> HIDE DEF step
<1>4. CASE step.action = "create_table"
    <2>1. next = Schema!TableOf(now)
        BY <1>4 DEF Schema!After
    <2> HIDE DEF next
    <2>2. \A c \in DOMAIN def : Agrees(now, c, def) \/ Touches(step, c) => Agrees(next, c, def)
        BY <1>3, <1>4, <2>1 DEF Agrees, Touches
    <2>3. FromBase(next, def, base)
        BY <1>2, <1>3, <2>1 DEF FromBase
    <2> QED BY <1>3, <2>2, <2>3, StepTaken DEF step, next
<1>5. CASE step.action # "create_table"
    <2>0. now \in ColumnSets /\ now # Null /\ Schema!TableOf(now) = now
        BY <1>5, NullNowhere DEF Schema!Fails, Schema!TableOf, step
    <2>a. DOMAIN now \subseteq Schema!Names /\ now \in [DOMAIN now -> Col]
        BY <2>0, ColumnSetShape
    <2>1. CASE step.action = "add_column" /\ step.column \notin DOMAIN now
        <3>1. next = [c \in DOMAIN now \cup {step.column} |-> IF c = step.column THEN step.as ELSE now[c]]
            BY <2>1 DEF Schema!After
        <3>2. step.column \in DOMAIN def /\ step.as = def[step.column]
            BY <1>2, <2>1 DEF StepServes
        <3> HIDE DEF next
        <3>3. \A c \in DOMAIN def : Agrees(now, c, def) \/ Touches(step, c) => Agrees(next, c, def)
            BY <1>3, <2>0, <3>1, <3>2 DEF Agrees, Touches
        <3>4. FromBase(next, def, base)
            BY <1>2, <1>3, <2>0, <3>1, <3>2 DEF FromBase
        <3> QED BY <1>3, <1>5, <3>3, <3>4, StepTaken DEF step, next
    <2>2. CASE step.action = "add_column" /\ step.column \in DOMAIN now
        <3>1. next = now
            BY <2>2 DEF Schema!After
        <3>2. now[step.column] = def[step.column]
            BY <1>2, <2>0, <2>2 DEF StepServes, FromBase
        <3> HIDE DEF next
        <3>3. \A c \in DOMAIN def : Agrees(now, c, def) \/ Touches(step, c) => Agrees(next, c, def)
            BY <1>3, <2>0, <2>2, <3>1, <3>2 DEF Agrees, Touches
        <3>4. FromBase(next, def, base)
            BY <1>2, <3>1
        <3> QED BY <1>3, <1>5, <3>3, <3>4, StepTaken DEF step, next
    <2>3. CASE step.action \in {"drop_not_null", "set_not_null"}
        <3> DEFINE c0 == step.column
                   v == (step.action = "drop_not_null")
        <3>1. next = [now EXCEPT ![c0].nullable = v]
            BY <2>3 DEF Schema!After
        <3>2. c0 \in DOMAIN now
            BY <2>0, <2>3 DEF Schema!Fails, step
        <3>3. c0 \in DOMAIN def /\ def[c0] \in Col /\ now[c0] \in Col
            BY <1>2, <2>3, <2>a, <3>2, ColumnSetShape DEF StepServes
        <3>4. def[c0].nullable = v
            <4>1. def[c0].nullable \in BOOLEAN
                BY <3>3 DEF Col
            <4> QED BY <1>2, <2>3, <4>1 DEF StepServes
        <3> HIDE DEF v, next
        <3>5. /\ DOMAIN next = DOMAIN now /\ \A c \in DOMAIN now : c # c0 => next[c] = now[c]
              /\ next[c0] = [now[c0] EXCEPT !.nullable = v]
            BY <2>a, <3>1, <3>2
        <3>6. next[c0].nullable = v /\ (now[c0] = def[c0] => next[c0] = def[c0])
            BY <3>3, <3>4, <3>5 DEF Col
        <3> HIDE DEF c0
        <3>7. \A c \in DOMAIN def : Agrees(now, c, def) \/ Touches(step, c) => Agrees(next, c, def)
            <4> TAKE c \in DOMAIN def
            <4>1. CASE c = c0
                BY <1>3, <3>2, <3>4, <3>5, <3>6, <4>1 DEF Agrees
            <4>2. CASE c # c0
                BY <1>3, <2>0, <3>5, <4>2 DEF Agrees, Touches, c0
            <4> QED BY <4>1, <4>2
        <3>8. FromBase(next, def, base)
            <4> SUFFICES ASSUME NEW c \in DOMAIN next, c \notin DOMAIN Schema!TableOf(base)
                         PROVE  c \in DOMAIN def /\ next[c] = def[c]
                BY <1>3 DEF FromBase
            <4>1. c \in DOMAIN def /\ now[c] = def[c]
                BY <1>2, <2>0, <3>5 DEF FromBase
            <4>2. CASE c = c0
                BY <3>6, <4>1, <4>2
            <4>3. CASE c # c0
                BY <3>5, <4>1, <4>3
            <4> QED BY <4>1, <4>2, <4>3
        <3> QED BY <1>3, <1>5, <3>7, <3>8, StepTaken DEF step, next
    <2>4. CASE step.action \notin {"create_table", "add_column", "drop_not_null", "set_not_null"}
        <3>1. step.action # "drop_column"
            BY <1>2 DEF StepServes
        <3>2. next = now
            BY <2>4, <3>1 DEF Schema!After
        <3> HIDE DEF next
        <3> QED BY <2>4, <3>2, WarningTaken DEF step, next
    <2> QED BY <1>5, <2>1, <2>2, <2>3, <2>4
<1> QED BY <1>4, <1>5

-----------------------------------------------------------------------------
(* The statements of one column's change.                                    *)
\* The statements of one column's change: shared ones come first, and the
\* last one, alone exclusive, makes of the table what Defined makes of the
\* definition; without a statement there is no change.
LastChanges(steps, op, def) ==
    /\ \A k \in 1 .. Len(steps) :
          /\ ~Schema!Warns(steps[k])
          /\ Schema!Mode(steps[k]) = "share" => k < Len(steps)
          /\ Schema!Mode(steps[k]) # "share" => k = Len(steps) /\ Schema!After(steps[k], def) = Schema!Defined(op, def)
    /\ Len(steps) = 0 => Schema!Defined(op, def) = def

\* A check and a change, or a change alone.
LEMMA FewSteps ==
    ASSUME NEW op, NEW def, NEW first, NEW last, NEW steps,
           steps = <<last>> \/ steps = <<first, last>>,
           Schema!Mode(first) = "share", ~Schema!Warns(first),
           Schema!Mode(last) = "excl", ~Schema!Warns(last),
           Schema!After(last, def) = Schema!Defined(op, def)
    PROVE  LastChanges(steps, op, def)
<1>1. CASE steps = <<last>>
    BY <1>1 DEF LastChanges
<1>2. CASE steps = <<first, last>>
    <2>1. Len(steps) = 2 /\ steps[1] = first /\ steps[2] = last
        BY <1>2
    <2>2. \A k \in 1 .. Len(steps) : k = 1 \/ k = 2
        BY <2>1
    <2> QED BY <2>1, <2>2 DEF LastChanges
<1> QED BY <1>1, <1>2

\* UpdateAppColumn: SET NOT NULL after its check, or DROP NOT NULL.
LEMMA NullabilityLast ==
    ASSUME NEW def \in ColumnSets, NEW op \in ColumnOps, op.kind = "update", op.column \in DOMAIN def
    PROVE  LastChanges(Schema!Nullability(op.column, Schema!Column("text", op.nullable), def[op.column]), op, def)
<1> DEFINE c == op.column
           to == Schema!Column("text", op.nullable)
           now == def[c]
           steps == Schema!Nullability(c, to, now)
<1>1. c \in DOMAIN def /\ def \in [DOMAIN def -> Col] /\ op.nullable \in BOOLEAN /\ to.nullable = op.nullable
    BY ColumnSetShape DEF ColumnOps, Schema!Column
<1>2. now \in Col /\ now.nullable \in BOOLEAN
    BY <1>1 DEF Col
<1>3. Schema!Defined(op, def) = [d \in DOMAIN def |-> IF d # c THEN def[d] ELSE [now EXCEPT !.nullable = op.nullable]]
    <2>1. DOMAIN def \cup {c} = DOMAIN def
        BY <1>1
    <2>2. \A d \in DOMAIN def : (IF d # c THEN def[d]
                ELSE IF op.kind = "create" THEN Schema!Column("text", op.nullable) ELSE [def[d] EXCEPT !.nullable = op.nullable])
             = IF d # c THEN def[d] ELSE [now EXCEPT !.nullable = op.nullable]
        OBVIOUS
    <2> QED BY <2>1, <2>2 DEF Schema!Defined
<1>4. CASE op.nullable = now.nullable
    <2>1. [now EXCEPT !.nullable = op.nullable] = now
        BY <1>2, <1>4 DEF Col
    <2> DEFINE next == [now EXCEPT !.nullable = op.nullable]
    <2> HIDE DEF next
    <2>2. Schema!Defined(op, def) = def
        BY <1>1, <1>3, <2>1 DEF next
    <2>3. steps = <<>>
        BY <1>1, <1>4 DEF Schema!Nullability
    <2> HIDE DEF steps
    <2> QED BY <2>2, <2>3 DEF LastChanges, steps
<1>5. CASE op.nullable # now.nullable
    <2> DEFINE a == IF op.nullable THEN "drop_not_null" ELSE "set_not_null"
               last == Schema!Step(a, c, to)
               first == Schema!Step("precheck_no_nulls", c, to)
    <2>1. /\ last.action = a /\ last.column = c /\ first.action = "precheck_no_nulls"
        BY DEF Schema!Step
    <2>2. steps = <<last>> \/ steps = <<first, last>>
        <3>1. CASE op.nullable
            BY <1>1, <1>5, <3>1 DEF Schema!Nullability
        <3>2. CASE ~op.nullable
            BY <1>1, <1>5, <3>2 DEF Schema!Nullability
        <3> QED BY <3>1, <3>2, <1>1
    <2> HIDE DEF last, first, steps
    <2>3. /\ Schema!Mode(first) = "share" /\ ~Schema!Warns(first)
          /\ Schema!Mode(last) = "excl" /\ ~Schema!Warns(last)
        BY <2>1 DEF Schema!Mode, Schema!Warns
    <2>4. Schema!After(last, def) = Schema!Defined(op, def)
        <3> DEFINE v == (last.action = "drop_not_null")
        <3>1. Schema!After(last, def) = [def EXCEPT ![c].nullable = v]
            BY <2>1 DEF Schema!After
        <3>2. v = op.nullable
            BY <1>1, <2>1
        <3> HIDE DEF v
        <3>3. [now EXCEPT !.nullable = v] = [now EXCEPT !.nullable = op.nullable]
            BY <3>2
        <3> DEFINE next == [now EXCEPT !.nullable = op.nullable]
        <3>4. [def EXCEPT ![c].nullable = v] = [d \in DOMAIN def |-> IF d # c THEN def[d] ELSE next]
            <4>1. [def EXCEPT ![c].nullable = v] = [def EXCEPT ![c] = [now EXCEPT !.nullable = v]]
                OBVIOUS
            <4>2. [def EXCEPT ![c].nullable = v] = [def EXCEPT ![c] = next]
                BY <3>3, <4>1
            <4> HIDE DEF next, c
            <4> QED BY <1>1, <4>2
        <3> QED BY <1>3, <3>1, <3>4
    <2>5. LastChanges(steps, op, def)
        BY <2>2, <2>3, <2>4, FewSteps
    <2> QED BY <2>5 DEF steps
<1> QED BY <1>4, <1>5

\* Two one-element sequences.
LEMMA Pair == ASSUME NEW e, NEW y PROVE <<e>> \o <<y>> = <<e, y>>
<1> DEFINE S == {e, y}
           s == <<e>> \o <<y>>
<1>1. <<e>> \in Seq(S) /\ <<y>> \in Seq(S)
    OBVIOUS
<1>2. s \in Seq(S) /\ Len(s) = 2 /\ s[1] = e /\ s[2] = y
    BY <1>1
<1> HIDE DEF s
<1>3. s = <<e, y>>
    BY <1>2
<1> QED BY <1>3 DEF s

\* The statements of CreateAppColumn, UpdateAppColumn and DeleteAppColumn.
LEMMA ColumnPlanLast ==
    ASSUME NEW def \in ColumnSets, NEW op \in ColumnOps, (op.kind = "create") = (op.column \notin DOMAIN def)
    PROVE  LastChanges(Schema!ColumnPlan(op, def), op, def)
<1> DEFINE c == op.column
<1>0. Schema!Mode(Schema!CountRows) = "share" /\ ~Schema!Warns(Schema!CountRows)
    BY DEF Schema!Mode, Schema!Warns, Schema!CountRows
<1>1. CASE op.kind = "create"
    <2> DEFINE col == Schema!Column("text", op.nullable)
               last == Schema!Step("add_column", c, col)
               steps == Schema!ColumnPlan(op, def)
    <2>1. last.action = "add_column" /\ last.column = c /\ last.as = col
        BY DEF Schema!Step
    <2>2. steps = <<last>> \/ steps = <<Schema!CountRows, last>>
        <3>1. steps = Schema!If(~op.nullable, <<Schema!CountRows>>) \o <<last>>
            BY <1>1 DEF Schema!ColumnPlan
        <3> HIDE DEF last, steps
        <3>2. steps = <<>> \o <<last>> \/ steps = <<Schema!CountRows>> \o <<last>>
            BY <3>1 DEF Schema!If
        <3>3. <<>> \o <<last>> = <<last>> /\ <<Schema!CountRows>> \o <<last>> = <<Schema!CountRows, last>>
            <4>1. <<last>> \in Seq({last})
                OBVIOUS
            <4>2. <<>> \o <<last>> = <<last>>
                BY <4>1, ConcatEmptySeq
            <4>3. <<Schema!CountRows>> \o <<last>> = <<Schema!CountRows, last>>
                BY Pair
            <4> QED BY <4>2, <4>3
        <3> QED BY <3>2, <3>3
    <2> HIDE DEF last, steps, col
    <2>3. Schema!Mode(last) = "excl" /\ ~Schema!Warns(last)
        BY <2>1 DEF Schema!Mode, Schema!Warns
    <2>4. Schema!After(last, def) = [d \in DOMAIN def \cup {c} |-> IF d = c THEN col ELSE def[d]]
        BY <1>1, <2>1 DEF Schema!After
    <2>5. Schema!Defined(op, def) = [d \in DOMAIN def \cup {c} |-> IF d # c THEN def[d] ELSE col]
        BY <1>1 DEF Schema!Defined, col
    <2>6. Schema!After(last, def) = Schema!Defined(op, def)
        BY <2>4, <2>5
    <2>7. LastChanges(steps, op, def)
        BY <1>0, <2>2, <2>3, <2>6, FewSteps
    <2> QED BY <2>7 DEF steps
<1>2. CASE op.kind = "delete"
    <2> DEFINE last == Schema!Step("drop_column", c, Null)
               steps == Schema!ColumnPlan(op, def)
    <2>1. last.action = "drop_column" /\ last.column = c
        BY DEF Schema!Step
    <2>2. steps = <<Schema!CountRows, last>>
        BY <1>2 DEF Schema!ColumnPlan
    <2> HIDE DEF last, steps
    <2>3. Schema!Mode(last) = "excl" /\ ~Schema!Warns(last)
        BY <2>1 DEF Schema!Mode, Schema!Warns
    <2>4. Schema!After(last, def) = Schema!Defined(op, def)
        BY <1>2, <2>1 DEF Schema!After, Schema!Defined
    <2>5. LastChanges(steps, op, def)
        BY <1>0, <2>2, <2>3, <2>4, FewSteps
    <2> QED BY <2>5 DEF steps
<1>3. CASE op.kind = "update"
    <2>1. op.column \in DOMAIN def
        BY <1>3
    <2>2. Schema!ColumnPlan(op, def) = Schema!Nullability(op.column, Schema!Column("text", op.nullable), def[op.column])
        BY <1>3 DEF Schema!ColumnPlan
    <2> QED BY <1>3, <2>1, <2>2, NullabilityLast
<1> QED BY <1>1, <1>2, <1>3 DEF ColumnOps

\* The read of the definition of a column's change.
LEMMA ReadDefinitionFollows ==
    ASSUME SchemaInv, FollowInv, NEW p \in Procs, Schema!ReadDefinition(p)
    PROVE  FollowInv'
<1> DEFINE steps == Schema!ColumnPlan(proc[p].op, columns)
           r == [proc[p] EXCEPT !.pc = "run", !.at = 1, !.def = columns, !.steps = steps,
                                !.marks = Schema!Planned(steps)]
<1>1. /\ columns' = columns /\ table' = table /\ quiet' = quiet /\ quiet' \subseteq quiet \cup {p}
      /\ proc[p].pc = "definition" /\ proc[p] \in Requests /\ RequestForm(proc[p]) /\ columns \in ColumnSets
    BY DEF Schema!ReadDefinition, Schema!At, Schema!world, SchemaInv, SchemaTypes
<1>2. \/ proc' = [proc EXCEPT ![p] = Schema!Idle]
      \/ ~Schema!Refused(p) /\ proc' = [proc EXCEPT ![p] = r]
    BY DEF Schema!ReadDefinition
<1>3. CASE proc' = [proc EXCEPT ![p] = Schema!Idle]
    BY <1>1, <1>3, IdleFollows, OneFollows
<1>4. CASE ~Schema!Refused(p) /\ proc' = [proc EXCEPT ![p] = r]
    <2>1. proc[p].op \in ColumnOps /\ proc[p].job = 0
        BY <1>1 DEF RequestForm
    <2>2. (proc[p].op.kind = "create") = (proc[p].op.column \notin DOMAIN columns)
        BY <1>4 DEF Schema!Refused
    <2>3. LastChanges(steps, proc[p].op, columns)
        BY <1>1, <2>1, <2>2, ColumnPlanLast
    <2>4. Len(steps) \in Nat
        <3>1. proc[p].op.kind = "update" => proc[p].op.column \in DOMAIN columns
            BY <2>2
        <3>2. steps \in Seq(Steps)
            BY <1>1, <2>1, <3>1, ColumnPlanFits
        <3> HIDE DEF steps
        <3> QED BY <3>2
    <2> DEFINE planned == steps
    <2>5. /\ r.job = 0 /\ r.pc = "run" /\ r.at = 1 /\ r.steps = planned /\ r.op = proc[p].op
          /\ r.def = columns /\ r.mine = proc[p].mine
        <3> HIDE DEF steps
        <3> QED BY <1>1, <2>1 DEF Requests
    <2> HIDE DEF r, steps
    <2>6. ASSUME p \in quiet PROVE Follows(r, columns, table)
        <3>1. r.mine = Null
            BY <1>1, <2>5, <2>6 DEF FollowInv, Follows, JobFollows
        <3>2. Work(r, table) = table
            BY <3>1 DEF Work
        <3>3. table = columns => Work(r, table) = IF r.at <= Len(r.steps) THEN columns ELSE Schema!Defined(r.op, columns)
            BY <2>3, <2>4, <2>5, <3>2 DEF LastChanges
        <3> QED BY <2>2, <2>5, <3>3 DEF Follows, JobFollows, ColumnFollows, steps
    <2> QED BY <1>1, <1>4, <2>6, OneFollows
<1> QED BY <1>2, <1>3, <1>4

\* What a mark leaves of a request.
LEMMA MarkShape ==
    ASSUME NEW p, proc[p] \in Requests, NEW status, NEW mine
    PROVE  LET r == [Schema!Mark(p, status) EXCEPT !.mine = mine] IN
           /\ r.pc = proc[p].pc /\ r.job = proc[p].job /\ r.op = proc[p].op /\ r.def = proc[p].def
           /\ r.steps = proc[p].steps /\ r.at = proc[p].at + 1 /\ r.mine = mine
    BY DEF Schema!Mark, Requests

\* One step further, the request follows if what is left does.
LEMMA MarkFollows ==
    ASSUME SchemaInv, FollowInv, NEW p \in Procs, Schema!Ready(p),
           columns' = columns, table' = table, quiet' = quiet,
           NEW r, proc' = [proc EXCEPT ![p] = r],
           r.pc = "run", r.job = proc[p].job, r.op = proc[p].op, r.def = proc[p].def,
           r.steps = proc[p].steps, r.at = proc[p].at + 1,
           p \in quiet /\ r.job # 0 => RunFollows(r.steps, r.at, Work(r, table), columns, table),
           p \in quiet /\ r.job = 0 /\ table = columns =>
               Work(r, table) = IF r.at <= Len(r.steps) THEN columns ELSE Schema!Defined(r.op, columns)
    PROVE  FollowInv'
<1>1. ASSUME p \in quiet PROVE Follows(r, columns, table)
    <2>1. proc[p].pc = "run" /\ ColumnFollows(proc[p], columns, table)
        BY <1>1 DEF FollowInv, Follows, Schema!Ready, Schema!At
    <2>2. JobFollows(r, columns, table)
        BY <1>1 DEF JobFollows
    <2>3. ColumnFollows(r, columns, table)
        BY <1>1, <2>1 DEF ColumnFollows
    <2> QED BY <2>2, <2>3 DEF Follows
<1>2. quiet' \subseteq quiet \cup {p}
    OBVIOUS
<1> QED BY <1>1, <1>2, OneFollows

\* What is known of a request that has a statement to execute.
LEMMA ReadyShape ==
    ASSUME SchemaInv, FollowInv, NEW p \in Procs, Schema!Ready(p)
    PROVE  /\ proc[p] \in Requests /\ proc[p].pc = "run" /\ proc[p].steps \in Seq(Steps)
           /\ proc[p].at \in 1 .. Len(proc[p].steps) /\ proc[p].at \in Nat /\ Len(proc[p].steps) \in Nat
           /\ Schema!Current(p) = proc[p].steps[proc[p].at]
           /\ Schema!View(p) = Work(proc[p], table)
           /\ p \in quiet /\ proc[p].job # 0 =>
                 RunFollows(proc[p].steps, proc[p].at, Schema!View(p), columns, table)
           /\ p \in quiet /\ proc[p].job = 0 =>
                 /\ LastChanges(proc[p].steps, proc[p].op, columns)
                 /\ table = columns => Schema!View(p) = columns
<1>1. proc[p] \in Requests /\ proc[p].pc = "run" /\ RequestForm(proc[p]) /\ proc[p].at <= Len(proc[p].steps)
    BY DEF SchemaInv, SchemaTypes, Schema!Ready, Schema!At
<1>2. proc[p].steps \in Seq(Steps) /\ proc[p].at \in Nat
    BY <1>1 DEF Requests
<1>3. Len(proc[p].steps) \in Nat
    <2> HIDE DEF Steps
    <2> QED BY <1>2
<1>4. proc[p].at \in 1 .. Len(proc[p].steps)
    BY <1>1, <1>2, <1>3 DEF RequestForm
<1>5. Schema!Current(p) = proc[p].steps[proc[p].at] /\ Schema!View(p) = Work(proc[p], table)
    BY DEF Schema!Current, Schema!View, Work
<1>6. ASSUME p \in quiet, proc[p].job # 0
      PROVE  RunFollows(proc[p].steps, proc[p].at, Schema!View(p), columns, table)
    BY <1>1, <1>5, <1>6 DEF FollowInv, Follows, JobFollows
<1>7. ASSUME p \in quiet, proc[p].job = 0
      PROVE  /\ LastChanges(proc[p].steps, proc[p].op, columns)
             /\ table = columns => Schema!View(p) = columns
    <2>1. ColumnFollows(proc[p], columns, table)
        BY <1>7 DEF FollowInv, Follows
    <2>2. /\ proc[p].steps = Schema!ColumnPlan(proc[p].op, columns)
          /\ (proc[p].op.kind = "create") = (proc[p].op.column \notin DOMAIN columns)
          /\ table = columns => Work(proc[p], table) = columns
        BY <1>1, <1>7, <2>1 DEF ColumnFollows
    <2>3. proc[p].op \in ColumnOps /\ columns \in ColumnSets
        BY <1>1, <1>7 DEF RequestForm, SchemaInv, SchemaTypes
    <2>4. LastChanges(Schema!ColumnPlan(proc[p].op, columns), proc[p].op, columns)
        BY <2>2, <2>3, ColumnPlanLast
    <2> QED BY <1>5, <2>2, <2>4
<1> QED BY <1>1, <1>2, <1>3, <1>4, <1>5, <1>6, <1>7

\* A warning is skipped.
LEMMA WarnedFollows ==
    ASSUME SchemaInv, FollowInv, NEW p \in Procs, Schema!Warned(p)
    PROVE  FollowInv'
<1> DEFINE r == [Schema!Mark(p, "skipped") EXCEPT !.mine = proc[p].mine]
           s == proc[p]
<1>1. /\ Schema!Ready(p) /\ Schema!Warns(Schema!Current(p))
      /\ proc' = [proc EXCEPT ![p] = Schema!Mark(p, "skipped")]
      /\ columns' = columns /\ table' = table /\ quiet' = quiet
    BY DEF Schema!Warned, Schema!world
<1>2. /\ s \in Requests /\ s.pc = "run" /\ s.steps \in Seq(Steps) /\ s.at \in 1 .. Len(s.steps)
      /\ Schema!Current(p) = s.steps[s.at] /\ Schema!View(p) = Work(s, table)
    BY <1>1, ReadyShape
<1>3. Schema!Mark(p, "skipped") = r
    BY <1>2 DEF Schema!Mark, Requests
<1>4. /\ r.pc = s.pc /\ r.job = s.job /\ r.op = s.op /\ r.def = s.def
      /\ r.steps = s.steps /\ r.at = s.at + 1 /\ r.mine = s.mine
    <2>1. s \in Requests
        BY <1>2
    <2> QED BY <2>1, MarkShape
<1>5. proc' = [proc EXCEPT ![p] = r]
    BY <1>1, <1>3
<1> HIDE DEF r
<1>6. Work(r, table) = Schema!View(p)
    BY <1>2, <1>4 DEF Work
<1>7. ASSUME p \in quiet, s.job # 0 PROVE RunFollows(s.steps, s.at + 1, Schema!View(p), columns, table)
    <2>1. RunFollows(s.steps, s.at, Schema!View(p), columns, table)
        BY <1>1, <1>7, ReadyShape
    <2>2. s.steps[s.at].action \notin {"create_table", "add_column", "drop_not_null", "set_not_null"}
        BY <1>1, <1>2 DEF Schema!Warns
    <2> QED BY <1>2, <2>1, <2>2, WarningTaken
<1>8. ASSUME p \in quiet, s.job = 0 PROVE FALSE
    <2>1. LastChanges(s.steps, s.op, columns)
        BY <1>1, <1>8, ReadyShape
    <2> QED BY <1>1, <1>2, <2>1 DEF LastChanges
<1> QED BY <1>1, <1>2, <1>4, <1>5, <1>6, <1>7, <1>8, MarkFollows

\* A statement fails or is applied.
LEMMA StatementFollows ==
    ASSUME SchemaInv, FollowInv, NEW p \in Procs, Schema!Statement(p)
    PROVE  FollowInv'
<1>1. CASE Schema!Fails(Schema!Current(p), Schema!View(p))
    BY <1>1, FailedFollows DEF Schema!Statement
<1>2. CASE ~Schema!Fails(Schema!Current(p), Schema!View(p))
    <2> DEFINE s == proc[p]
               step == s.steps[s.at]
               now == Schema!View(p)
               excl == Schema!Mode(step) = "excl"
               mine == IF excl THEN Schema!After(step, now) ELSE s.mine
               r == [Schema!Mark(p, "applied") EXCEPT !.mine = mine]
    <2>1. Schema!Ready(p) /\ ~Schema!Warns(Schema!Current(p))
        BY DEF Schema!Statement
    <2>2. /\ s \in Requests /\ s.pc = "run" /\ s.steps \in Seq(Steps) /\ s.at \in 1 .. Len(s.steps)
          /\ Schema!Current(p) = step /\ now = Work(s, table) /\ s.at \in Nat /\ Len(s.steps) \in Nat
        BY <2>1, ReadyShape
    <2>3. Schema!Wants(p) = Schema!Mode(step)
        BY <2>1, <2>2 DEF Schema!Wants
    <2>4. /\ proc' = [proc EXCEPT ![p] = [Schema!Mark(p, "applied") EXCEPT !.mine =
                          IF Schema!Wants(p) = "excl" THEN Schema!After(Schema!Current(p), Schema!View(p)) ELSE @]]
          /\ columns' = columns /\ table' = table /\ quiet' = quiet
        BY <1>2 DEF Schema!Statement, Schema!world
    <2>5. proc' = [proc EXCEPT ![p] = r]
        <3>1. Schema!Mark(p, "applied").mine = s.mine
            BY <2>2 DEF Schema!Mark, Requests
        <3> QED BY <2>2, <2>3, <2>4, <3>1
    <2>6. /\ r.pc = s.pc /\ r.job = s.job /\ r.op = s.op /\ r.def = s.def
          /\ r.steps = s.steps /\ r.at = s.at + 1 /\ r.mine = mine
        <3> HIDE DEF mine
        <3>1. s \in Requests
            BY <2>2
        <3> QED BY <3>1, MarkShape
    <2>7. now \in ColumnSets \cup {Null} /\ step \in Steps /\ columns \in ColumnSets /\ table \in ColumnSets \cup {Null}
        <3>1. step \in Steps
            <4> HIDE DEF Steps
            <4> QED BY <2>2
        <3> QED BY <3>1, ViewFits DEF SchemaInv, SchemaTypes
    <2> HIDE DEF r, now, step
    <2>8. excl => mine \in ColumnSets /\ mine # Null
        <3>1. Schema!After(step, now) \in ColumnSets
            BY <1>2, <2>2, <2>7, AfterFits DEF now
        <3> QED BY <3>1, NullNowhere
    <2>9. Work(r, table) = IF excl THEN Schema!After(step, now) ELSE now
        BY <2>2, <2>6, <2>8 DEF Work
    <2>10. ASSUME p \in quiet, s.job # 0 PROVE RunFollows(s.steps, s.at + 1, Work(r, table), columns, table)
        <3>1. RunFollows(s.steps, s.at, now, columns, table)
            BY <2>1, <2>10, ReadyShape DEF now
        <3>2. CASE excl
            <4>1. ~Schema!Fails(s.steps[s.at], now)
                BY <1>2, <2>2 DEF now, step
            <4>2. RunFollows(s.steps, s.at + 1, Schema!After(s.steps[s.at], now), columns, table)
                BY <2>2, <2>7, <3>1, <4>1, StatementTaken
            <4> QED BY <2>9, <3>2, <4>2 DEF step
        <3>3. CASE ~excl
            <4>1. s.steps[s.at].action \notin {"create_table", "add_column", "drop_not_null", "set_not_null"}
                BY <3>3 DEF Schema!Mode, step
            <4>2. RunFollows(s.steps, s.at + 1, now, columns, table)
                BY <2>2, <3>1, <4>1, WarningTaken
            <4> QED BY <2>9, <3>3, <4>2
        <3> QED BY <3>2, <3>3
    <2>11. ASSUME p \in quiet, s.job = 0, table = columns
           PROVE  Work(r, table) = IF s.at + 1 <= Len(s.steps) THEN columns ELSE Schema!Defined(s.op, columns)
        <3>1. LastChanges(s.steps, s.op, columns) /\ now = columns
            BY <2>1, <2>11, ReadyShape DEF now
        <3>2. CASE excl
            <4>1. s.at = Len(s.steps) /\ Schema!After(step, columns) = Schema!Defined(s.op, columns)
                BY <2>2, <3>1, <3>2 DEF LastChanges, step
            <4> QED BY <2>2, <2>9, <3>1, <3>2, <4>1
        <3>3. CASE ~excl
            <4>1. s.at < Len(s.steps)
                BY <2>2, <3>1, <3>3 DEF LastChanges, step, Schema!Mode
            <4> QED BY <2>2, <2>9, <3>1, <3>3, <4>1
        <3> QED BY <3>2, <3>3
    <2>12. p \in quiet /\ r.job # 0 => RunFollows(r.steps, r.at, Work(r, table), columns, table)
        BY <2>6, <2>10
    <2>13. p \in quiet /\ r.job = 0 /\ table = columns =>
               Work(r, table) = IF r.at <= Len(r.steps) THEN columns ELSE Schema!Defined(r.op, columns)
        BY <2>6, <2>11
    <2>14. r.pc = "run"
        BY <2>2, <2>6
    <2> HIDE DEF excl, mine
    <2> QED BY <2>1, <2>4, <2>5, <2>6, <2>12, <2>13, <2>14, MarkFollows
<1> QED BY <1>1, <1>2

\* At the start nobody is quiet.
LEMMA FollowStart == Schema!Init => FollowInv
    BY DEF Schema!Init, FollowInv

\* Every step keeps the quiet requests following.
LEMMA FollowStep ==
    ASSUME SchemaInv, FollowInv, [Schema!Next]_(Schema!vars)
    PROVE  FollowInv'
<1>1. ASSUME NEW p \in Procs, Schema!StartJob(p) \/ Schema!StartColumn(p) PROVE FollowInv'
    <2>1. CASE Schema!StartJob(p)
        BY <2>1, BeginFollows DEF Schema!StartJob
    <2>2. CASE Schema!StartColumn(p)
        BY <2>2, BeginFollows DEF Schema!StartColumn
    <2> QED BY <1>1, <2>1, <2>2
<1>2. ASSUME NEW p \in Procs, Schema!Deadlocked(p) PROVE FollowInv'
    BY <1>2, FailedFollows DEF Schema!Deadlocked
<1>3. ASSUME NEW p \in Procs, Schema!Continue(p) PROVE FollowInv'
    BY <1>2, <1>3, ReadsFollow, CreateJobFollows, EndsFollow, WarnedFollows, StatementFollows,
       MarkJobFailedFollows, ReadDefinitionFollows
    DEF Schema!Continue
<1> QED BY <1>1, <1>3, OthersFollow DEF Schema!Next

\* Both invariants hold.
LEMMA SchemaHolds == Schema!Spec => [](SchemaInv /\ FollowInv)
    BY SchemaStart, SchemaStep, FollowStart, FollowStep, PTL DEF Schema!Spec

-----------------------------------------------------------------------------
(* What is left at the commits.                                              *)
\* The steps a settled plan may have.
Warnings == {s \in Steps : Schema!Warns(s)}

\* Where all columns of the definition agree a plan has warnings only.
LEMMA OnlyWarningsLeft ==
    ASSUME NEW def \in ColumnSets, NEW now \in ColumnSets, NEW exists, exists = TRUE,
           \A c \in DOMAIN def : Agrees(now, c, def)
    PROVE  Schema!Plan(exists, def, now) \in Seq(Warnings)
<1>0. now # Null /\ Schema!TableOf(now) = now
    BY NullNowhere DEF Schema!TableOf
<1>1. Schema!NewTable(exists) \in Seq(Warnings)
    BY DEF Schema!NewTable, Schema!If
<1>2. ASSUME NEW c \in Schema!Names, NEW a \in {"warn_type_drift", "warn_extra_column"}
      PROVE  Schema!Step(a, c, Null) \in Warnings
    <2>1. Schema!Step(a, c, Null) \in Steps /\ Schema!Step(a, c, Null).action = a
        BY StepFits DEF Actions
    <2> QED BY <2>1 DEF Warnings, Schema!Warns
<1>3. ASSUME NEW c \in Schema!Names
      PROVE  Schema!ColumnSteps(c, def, now) \in Seq(Warnings) /\ Schema!ExtraSteps(c, def, now) \in Seq(Warnings)
    <2> DEFINE drift == Schema!Step("warn_type_drift", c, Null)
               surplus == Schema!Step("warn_extra_column", c, Null)
               w == Schema!If(def[c].type # now[c].type, <<drift>>)
    <2>1. drift \in Warnings /\ surplus \in Warnings
        BY <1>2
    <2> HIDE DEF drift, surplus
    <2>2. Schema!ExtraSteps(c, def, now) \in Seq(Warnings)
        <3>1. Schema!ExtraSteps(c, def, now) = <<>> \/ Schema!ExtraSteps(c, def, now) = <<surplus>>
            BY DEF Schema!ExtraSteps, Schema!If, surplus
        <3> QED BY <2>1, <3>1, AtMostOne
    <2>3. w = <<>> \/ w = <<drift>>
        BY DEF Schema!If
    <2>4. w \in Seq(Warnings)
        <3> HIDE DEF w
        <3> QED BY <2>1, <2>3, AtMostOne
    <2>5. CASE c \notin DOMAIN def
        BY <2>2, <2>5 DEF Schema!ColumnSteps
    <2>6. CASE c \in DOMAIN def
        <3>1. c \in DOMAIN now /\ now[c].nullable = def[c].nullable
            BY <1>0, <2>6 DEF Agrees
        <3>2. Schema!Nullability(c, def[c], now[c]) = <<>>
            BY <3>1 DEF Schema!Nullability
        <3>3. Schema!ColumnSteps(c, def, now) = w \o <<>>
            BY <2>6, <3>1, <3>2 DEF Schema!ColumnSteps, drift
        <3> HIDE DEF w
        <3>4. w \o <<>> = w
            BY <2>4, ConcatEmptySeq
        <3> QED BY <2>2, <2>4, <3>3, <3>4
    <2> QED BY <2>5, <2>6
<1> QED BY <1>1, <1>3, PlanOnly

\* At the commit of a quiet job no step is left, so all columns agree.
LEMMA CommittedJobSettles ==
    ASSUME SchemaInv, FollowInv, NEW p \in quiet, Schema!CommitJob(p)
    PROVE  \A step \in Schema!ToSet(Schema!Plan(table' # Null, columns', Schema!TableOf(table'))) : Schema!Warns(step)
<1>1. p \in Procs /\ Follows(proc[p], columns, table)
    BY DEF FollowInv
<1>2. /\ proc[p] \in Requests /\ proc[p].pc = "run" /\ proc[p].job # 0 /\ proc[p].at > Len(proc[p].steps)
      /\ columns' = columns /\ table' = Schema!View(p) /\ columns \in ColumnSets
    BY <1>1 DEF Schema!CommitJob, Schema!Ended, Schema!At, SchemaInv, SchemaTypes
<1>3. Schema!View(p) = Work(proc[p], table) /\ Schema!View(p) \in ColumnSets \cup {Null}
    BY <1>1, ViewFits DEF Schema!View, Work
<1>4. RunFollows(proc[p].steps, proc[p].at, Schema!View(p), columns, table)
    BY <1>1, <1>2, <1>3 DEF Follows, JobFollows
<1>5. ~\E k \in proc[p].at .. Len(proc[p].steps) : TRUE
    <2>1. proc[p].at \in Nat /\ proc[p].steps \in Seq(Steps)
        BY <1>2 DEF Requests
    <2>2. Len(proc[p].steps) \in Nat
        <3> HIDE DEF Steps
        <3> QED BY <2>1
    <2> QED BY <1>2, <2>1, <2>2
<1>6. table' # Null /\ table' \in ColumnSets /\ \A c \in DOMAIN columns : Agrees(table', c, columns)
    BY <1>2, <1>3, <1>4, <1>5 DEF RunFollows
<1> DEFINE exists == table' # Null
           plan == Schema!Plan(exists, columns, table')
<1>7. plan \in Seq(Warnings)
    <2>1. exists = TRUE
        BY <1>6
    <2> HIDE DEF exists
    <2> QED BY <1>2, <1>6, <2>1, OnlyWarningsLeft
<1>8. Schema!Plan(table' # Null, columns', Schema!TableOf(table')) = plan
    BY <1>2, <1>6 DEF Schema!TableOf
<1> HIDE DEF plan, Warnings
<1>9. \A step \in Schema!ToSet(plan) : step \in Warnings
    BY <1>7 DEF Schema!ToSet
<1> QED BY <1>8, <1>9 DEF Warnings

\* Once a job nobody disturbed is applied the next plan holds warnings at
\* most, although the job ran on a plan it made before it held any lock
\* (PlanAndApplyBuilderSchema, executeBuilderSchemaJob).
THEOREM AppliedJobsSettle == Schema!Spec => SettlesAfterApply
<1>1. SchemaInv /\ FollowInv => \A p \in quiet : Schema!CommitJob(p) =>
          \A step \in Schema!ToSet(Schema!Plan(table' # Null, columns', Schema!TableOf(table'))) : Schema!Warns(step)
    BY CommittedJobSettles
<1> QED BY <1>1, SchemaHolds, PTL DEF SettlesAfterApply, Schema!SettlesAfterApply

\* A plan without a step, not even a warning, says that the table has exactly
\* the columns of the definition.
LEMMA InStepIsEqual ==
    ASSUME NEW def \in ColumnSets, NEW now \in ColumnSets \cup {Null}, Schema!InStep(now, def)
    PROVE  now = def
<1> DEFINE exists == now # Null
           t == Schema!TableOf(now)
           plan == Schema!Plan(exists, def, t)
<1>1. plan = <<>> /\ t \in ColumnSets
    BY TableOfFits DEF Schema!InStep
<1>2. /\ Within(Schema!NewTable(exists), plan)
      /\ \A c \in Schema!Names : Within(Schema!ColumnSteps(c, def, t), plan) /\ Within(Schema!ExtraSteps(c, def, t), plan)
    <2> DEFINE e == exists
    <2>1. e \in BOOLEAN
        OBVIOUS
    <2> HIDE DEF exists, t
    <2> QED BY <1>1, PlanCovers
<1> HIDE DEF plan
<1>3. ASSUME NEW s, Within(s, plan), NEW e, NEW y, s = <<e>> \/ s = <<e, y>> PROVE FALSE
    <2>1. 1 \in 1 .. Len(s) /\ Len(plan) = 0
        BY <1>1, <1>3
    <2> QED BY <1>3, <2>1 DEF Within
<1>4. now # Null
    <2> SUFFICES ASSUME now = Null PROVE FALSE
        OBVIOUS
    <2>1. Schema!NewTable(exists) = <<Schema!Step("create_table", Null, Null),
                                      Schema!Step("ensure_record_version_trigger", Null, Null)>>
        BY DEF Schema!NewTable, Schema!If
    <2> HIDE DEF exists
    <2> QED BY <1>2, <1>3, <2>1
<1>5. t = now /\ now \in ColumnSets
    BY <1>4 DEF Schema!TableOf
<1>6. DOMAIN now \subseteq DOMAIN def
    <2> SUFFICES ASSUME NEW c \in DOMAIN now, c \notin DOMAIN def PROVE FALSE
        OBVIOUS
    <2>1. c \in Schema!Names
        BY <1>5, ColumnSetShape
    <2>2. Schema!ExtraSteps(c, def, t) = <<Schema!Step("warn_extra_column", c, Null)>>
        BY <1>5 DEF Schema!ExtraSteps, Schema!If
    <2> QED BY <1>2, <1>3, <2>1, <2>2
<1>7. ASSUME NEW c \in DOMAIN def PROVE c \in DOMAIN now /\ now[c] = def[c]
    <2>1. c \in Schema!Names /\ def[c] \in Col
        BY ColumnSetShape
    <2>2. c \in DOMAIN now
        <3> SUFFICES ASSUME c \notin DOMAIN now PROVE FALSE
            OBVIOUS
        <3>1. Schema!ColumnSteps(c, def, t) = <<Schema!Step("add_column", c, def[c])>>
            BY <1>5 DEF Schema!ColumnSteps
        <3> QED BY <1>2, <1>3, <2>1, <3>1
    <2>3. now[c] \in Col
        BY <1>5, <2>2, ColumnSetShape
    <2> DEFINE drift == Schema!Step("warn_type_drift", c, Null)
               w == Schema!If(def[c].type # now[c].type, <<drift>>)
               n == Schema!Nullability(c, def[c], now[c])
               s == Schema!ColumnSteps(c, def, t)
    <2>4. s = w \o n /\ Within(s, plan)
        BY <1>2, <1>5, <2>1, <2>2 DEF Schema!ColumnSteps
    <2>5. w \in Seq(Steps) /\ n \in Seq(Steps)
        <3>1. n \in Seq(Steps)
            BY <2>1, <2>3, NullabilityFits
        <3>2. drift \in Steps
            BY <2>1, StepFits DEF Actions
        <3>3. w = <<>> \/ w = <<drift>>
            BY DEF Schema!If
        <3> HIDE DEF w, drift, Steps, n
        <3> QED BY <3>1, <3>2, <3>3, AtMostOne
    <2>6. w = <<>> /\ n = <<>>
        <3> HIDE DEF w, n, s, Steps
        <3>1. s \in Seq(Steps)
            BY <2>4, <2>5
        <3>2. Len(s) = 0
            <4> SUFFICES ASSUME Len(s) # 0 PROVE FALSE
                OBVIOUS
            <4>1. 1 \in 1 .. Len(s) /\ Len(plan) = 0
                BY <1>1, <3>1
            <4> QED BY <2>4, <4>1 DEF Within
        <3> QED BY <2>4, <2>5, <3>1, <3>2
    <2>7. def[c].type = now[c].type
        <3> SUFFICES ASSUME def[c].type # now[c].type PROVE FALSE
            OBVIOUS
        <3>1. w = <<drift>>
            BY DEF Schema!If
        <3> HIDE DEF w, drift
        <3> QED BY <2>6, <3>1
    <2>8. def[c].nullable = now[c].nullable
        <3> SUFFICES ASSUME def[c].nullable # now[c].nullable PROVE FALSE
            OBVIOUS
        <3>1. \E e, y : n = <<e>> \/ n = <<e, y>>
            BY DEF Schema!Nullability
        <3> HIDE DEF n
        <3> QED BY <2>6, <3>1
    <2> QED BY <2>1, <2>2, <2>3, <2>7, <2>8 DEF Col
<1> QED BY <1>5, <1>6, <1>7, ColumnSetShape

\* And the other way round.
LEMMA EqualIsInStep ==
    ASSUME NEW def \in ColumnSets
    PROVE  Schema!InStep(def, def)
<1> DEFINE exists == def # Null
<1>1. def # Null /\ Schema!TableOf(def) = def
    BY NullNowhere DEF Schema!TableOf
<1>2. exists = TRUE
    BY <1>1
<1> HIDE DEF exists
<1>3. Schema!NewTable(exists) \in Seq({})
    BY <1>2 DEF Schema!NewTable, Schema!If
<1>4. ASSUME NEW c \in Schema!Names
      PROVE  Schema!ColumnSteps(c, def, def) = <<>> /\ Schema!ExtraSteps(c, def, def) = <<>>
    BY DEF Schema!ColumnSteps, Schema!ExtraSteps, Schema!If, Schema!Nullability
<1>5. Schema!Plan(exists, def, def) \in Seq({})
    <2>1. <<>> \in Seq({})
        OBVIOUS
    <2> QED BY <1>3, <1>4, <2>1, PlanOnly
<1>6. Schema!Plan(exists, def, def) = <<>>
    BY <1>5
<1> QED BY <1>1, <1>6 DEF Schema!InStep, exists

\* At the commit of a quiet change of a column the table is what the
\* definition becomes.
LEMMA CommittedColumnInStep ==
    ASSUME SchemaInv, FollowInv, NEW p \in quiet, Schema!CommitColumn(p), Schema!InStep(table, columns)
    PROVE  Schema!InStep(table', columns')
<1>1. p \in Procs /\ Follows(proc[p], columns, table)
    BY DEF FollowInv
<1>2. /\ proc[p] \in Requests /\ proc[p].pc = "run" /\ proc[p].job = 0 /\ proc[p].at > Len(proc[p].steps)
      /\ columns' = Schema!Defined(proc[p].op, proc[p].def) /\ table' = Schema!View(p)
      /\ columns \in ColumnSets /\ table \in ColumnSets \cup {Null} /\ RequestForm(proc[p])
    BY <1>1 DEF Schema!CommitColumn, Schema!Ended, Schema!At, SchemaInv, SchemaTypes
<1>3. table = columns
    BY <1>2, InStepIsEqual
<1>4. /\ proc[p].def = columns
      /\ Schema!View(p) = IF proc[p].at <= Len(proc[p].steps) THEN columns ELSE Schema!Defined(proc[p].op, columns)
    BY <1>1, <1>2, <1>3 DEF Follows, ColumnFollows, Schema!View, Work
<1>5. proc[p].at \in Nat /\ Len(proc[p].steps) \in Nat
    <2>1. proc[p].at \in Nat /\ proc[p].steps \in Seq(Steps)
        BY <1>2 DEF Requests
    <2> HIDE DEF Steps
    <2> QED BY <2>1
<1>6. table' = Schema!Defined(proc[p].op, columns)
    BY <1>2, <1>4, <1>5
<1>7. columns' = Schema!Defined(proc[p].op, columns)
    BY <1>2, <1>4
<1>8. Schema!Defined(proc[p].op, columns) \in ColumnSets
    <2>1. /\ proc[p].op \in ColumnOps
          /\ proc[p].op.kind = "update" => proc[p].op.column \in DOMAIN columns
        BY <1>2, <1>4 DEF RequestForm
    <2> QED BY <1>2, <2>1, DefinedFits
<1> QED BY <1>6, <1>7, <1>8, EqualIsInStep

\* Adding, changing or dropping a column keeps definition and table in step
\* when nobody else changes either meanwhile, also while records are saved
\* (CreateAppColumn, UpdateAppColumn, DeleteAppColumn).
THEOREM ColumnChangesInStep == Schema!Spec => ColumnsStayInStep
<1>1. SchemaInv /\ FollowInv =>
          \A p \in quiet : Schema!CommitColumn(p) /\ Schema!InStep(table, columns) => Schema!InStep(table', columns')
    BY CommittedColumnInStep
<1> QED BY <1>1, SchemaHolds, PTL DEF ColumnsStayInStep, Schema!ColumnsStayInStep

-----------------------------------------------------------------------------
(* The numbers themselves (AutoNumber).  Each transaction, and who has not  *)
(* begun one, sees every table numbered under its prefix, below the number  *)
(* that comes next, and no number twice that nobody typed, cut off or lost: *)
(* its own changes over what is committed.  Writes and renumberings keep that*)
(* of their own transaction.  What another one commits cannot spoil it: two *)
(* never change the same table, nor draw from the same counter, so if both  *)
(* have written to a table it has no numbers at all.                        *)

\* What a step of a transaction can be.
NumberSteps == [what : {"write"}, on : Records, to : {Same, Null} \cup (Prefixes \X Nat)]
               \cup [what : {"schema"}, on : Numbered, to : Prefixes \cup {Null}]
\* The table of a step.
TableIn(op) == IF op.what = "schema" THEN op.on ELSE HomeTable[op.on]
\* The prefix and the next number as a transaction sees them: its own schema
\* changes over the triggers T, its own counters over C.
PrefixIn(s, T, t) == IF t \in DOMAIN s.config THEN s.config[t] ELSE T[t]
NextIn(C, t, prefix) == Numbers!NextNumber(C, Numbers!Key(t, prefix))

\* The records R of a table are numbered under its prefix, below n, and none
\* twice that no user typed.
Fit(R, t, prefix) ==
    \A r \in DOMAIN R : HomeTable[r] = t =>
        IF prefix = Null THEN R[r].number = Null ELSE R[r].number \in {prefix} \X Nat
Under(R, t, n) == \A r \in DOMAIN R : HomeTable[r] = t /\ R[r].number # Null => R[r].number[2] < n
Once(R, t) ==
    \A r, q \in DOMAIN R : r # q /\ HomeTable[r] = t /\ HomeTable[q] = t /\ R[r].number = R[q].number =>
        R[r].number = Null \/ "user" \in {R[r].by, R[q].by}
\* So they are as transaction s sees them over the records R, counters C and
\* triggers T, unless the counter was deleted (F) or numbers were cut off or
\* given anew (W).
View(s, t, R, C, T, F, W) ==
    /\ Fit(Numbers!Over(s.new, R), t, PrefixIn(s, T, t))
    /\ t \notin F \/ t \in DOMAIN s.config =>
          Under(Numbers!Over(s.new, R), t, NextIn(Numbers!Over(s.count, C), t, PrefixIn(s, T, t)))
    /\ t \notin W \cup s.cut => Once(Numbers!Over(s.new, R), t)

\* What a transaction has still to do; past the first stage it has its table.
Doing(s) ==
    /\ s.todo \in Seq(NumberSteps) /\ s.stage \in {1, 2}
    /\ s.todo # <<>> /\ s.stage = 2 =>
          TableIn(Head(s.todo)) \in IF Head(s.todo).what = "schema" THEN s.alone ELSE s.shared
\* It holds the tables it has written to, and alone those it has changed; of
\* these it has written every record.  A number it has written is under a counter
\* it holds, and its counters are not behind.
Holding(s, R, C, T) ==
    /\ DOMAIN s.new \subseteq Records /\ \A r \in DOMAIN s.new : HomeTable[r] \in s.shared \cup s.alone
    /\ DOMAIN s.config \subseteq s.alone \cap Numbered
    /\ \A t \in DOMAIN s.config : s.config[t] \in Prefixes \cup {Null}
    /\ \A t \in DOMAIN s.config, r \in DOMAIN R : HomeTable[r] = t => r \in DOMAIN s.new
    /\ \A r \in DOMAIN s.new : s.new[r].number # Null =>
          Numbers!Key(HomeTable[r], PrefixIn(s, T, HomeTable[r])) \in DOMAIN s.count
    /\ \A k \in DOMAIN s.count : s.count[k] \in Nat /\ Numbers!NextNumber(C, k) <= s.count[k]
\* Two transactions hold no counter together, and no table that one has alone.
Parted(s, u) ==
    /\ s.alone \cap (u.shared \cup u.alone) = {} /\ u.alone \cap s.shared = {}
    /\ DOMAIN s.count \cap DOMAIN u.count = {}

CommittedTypes(R, C, T, F, L) ==
    /\ DOMAIN R \subseteq Records /\ T \in [Numbered -> Prefixes \cup {Null}]
    /\ \A k \in DOMAIN C : C[k] \in Nat
    /\ F \subseteq L
CountInv ==
    /\ CommittedTypes(numbered, counters, trigger, forgotten, lost)
    /\ \A t \in Numbered : View(Numbers!Idle, t, numbered, counters, trigger, forgotten, wide \cup lost)
    /\ \A p \in Procs : Doing(tx[p]) /\ Holding(tx[p], numbered, counters, trigger)
    /\ \A p, q \in Procs : p # q => Parted(tx[p], tx[q])
    /\ \A p \in Procs, t \in Numbered : View(tx[p], t, numbered, counters, trigger, forgotten, wide \cup lost)

-----------------------------------------------------------------------------
(* Helpers: prefixes, numbers, counters.                                    *)

\* The constants of AutoNumber.
LEMMA NumberConstants ==
    /\ IsFiniteSet(Records) /\ IsFiniteSet(Numbered) /\ HomeTable \in [Records -> Numbered]
    /\ Null \notin Prefixes /\ Null \notin Prefixes \X Nat /\ Typed \subseteq Nat
    /\ Base \in Nat \ {0} /\ Numbers!Limit \in Nat
BY NumberingAssumption

\* The size of a set is the same in both modules.
LEMMA SameSize == \A S : Numbers!Cardinality(S) = Cardinality(S)
BY DEF Numbers!Cardinality, Cardinality

\* A number is its prefix and a natural number, and not nothing.
LEMMA NumberParts ==
    ASSUME NEW prefix \in Prefixes
    PROVE  /\ prefix # Null
           /\ \A number \in {prefix} \X Nat : /\ number[1] = prefix /\ number[2] \in Nat /\ number # Null
                                              /\ number = <<prefix, number[2]>>
           /\ \A n \in Nat : <<prefix, n>> \in {prefix} \X Nat /\ <<prefix, n>>[2] = n /\ <<prefix, n>>[1] = prefix
<1>1. prefix # Null
    BY NumberConstants
<1>2. ASSUME NEW number \in {prefix} \X Nat
      PROVE  number[1] = prefix /\ number[2] \in Nat /\ number # Null /\ number = <<prefix, number[2]>>
    <2>1. number \in Prefixes \X Nat
        BY <1>2
    <2>2. number # Null
        BY <2>1, NumberConstants
    <2> QED BY <1>2, <2>2
<1>3. ASSUME NEW n \in Nat
      PROVE  <<prefix, n>> \in {prefix} \X Nat /\ <<prefix, n>>[2] = n /\ <<prefix, n>>[1] = prefix
    BY <1>3
<1> QED BY <1>1, <1>2, <1>3

\* What one function over another holds.
LEMMA OverAt ==
    ASSUME NEW f, NEW g
    PROVE  /\ DOMAIN Numbers!Over(f, g) = DOMAIN f \cup DOMAIN g
           /\ \A z \in DOMAIN f : Numbers!Over(f, g)[z] = f[z]
           /\ \A z \in DOMAIN g : z \notin DOMAIN f => Numbers!Over(f, g)[z] = g[z]
BY DEF Numbers!Over

\* Fewer records of a table are as good, under a higher number too.
LEMMA FewerRecords ==
    ASSUME NEW R, NEW R2, NEW t, \A r \in DOMAIN R2 : HomeTable[r] = t => r \in DOMAIN R /\ R2[r] = R[r]
    PROVE  /\ \A prefix : Fit(R, t, prefix) => Fit(R2, t, prefix)
           /\ Once(R, t) => Once(R2, t)
           /\ \A prefix \in Prefixes \cup {Null}, n \in Nat, m \in Nat :
                 Fit(R, t, prefix) /\ Under(R, t, n) /\ n <= m => Under(R2, t, m)
<1>1. \A prefix : Fit(R, t, prefix) => Fit(R2, t, prefix)
    BY DEF Fit
<1>2. Once(R, t) => Once(R2, t)
    BY DEF Once
<1>3. ASSUME NEW prefix \in Prefixes \cup {Null}, NEW n \in Nat, NEW m \in Nat, Fit(R, t, prefix), Under(R, t, n), n <= m
      PROVE  Under(R2, t, m)
    <2> SUFFICES ASSUME NEW r \in DOMAIN R2, HomeTable[r] = t, R2[r].number # Null PROVE R2[r].number[2] < m
        BY DEF Under
    <2>1. r \in DOMAIN R /\ R2[r] = R[r]
        OBVIOUS
    <2>2. R[r].number[2] < n
        BY <1>3, <2>1 DEF Under
    <2>3. prefix # Null /\ R[r].number \in {prefix} \X Nat
        BY <1>3, <2>1 DEF Fit
    <2>4. R[r].number[2] \in Nat
        BY <2>3, NumberParts
    <2> QED BY <1>3, <2>1, <2>2, <2>4
<1> QED BY <1>1, <1>2, <1>3

\* A table without numbers has none twice, and none too high.
LEMMA NoNumbers ==
    ASSUME NEW R, NEW t, Fit(R, t, Null)
    PROVE  Once(R, t) /\ \A n : Under(R, t, n)
BY DEF Fit, Once, Under

\* A table has a next number.
LEMMA NextIsNumber ==
    ASSUME NEW C, \A k \in DOMAIN C : C[k] \in Nat, NEW t, NEW prefix
    PROVE  NextIn(C, t, prefix) \in Nat
BY DEF NextIn, Numbers!NextNumber

\* A counter that is lifted leaves every table's next number where it is or higher.
LEMMA LiftedNext ==
    ASSUME NEW c, NEW C, \A k \in DOMAIN Numbers!Over(c, C) : Numbers!Over(c, C)[k] \in Nat,
           NEW t, NEW prefix, NEW m \in Nat, NextIn(Numbers!Over(c, C), t, prefix) <= m,
           NEW u, NEW other
    PROVE  LET C2 == Numbers!Over(Numbers!Put(c, Numbers!Key(t, prefix), m), C) IN
           /\ NextIn(C2, t, prefix) = m
           /\ NextIn(C2, u, other) \in Nat
           /\ NextIn(Numbers!Over(c, C), u, other) <= NextIn(C2, u, other)
<1> DEFINE key == Numbers!Key(t, prefix)
           C1 == Numbers!Over(c, C)
           C2 == Numbers!Over(Numbers!Put(c, key, m), C)
<1>1. /\ DOMAIN C2 = DOMAIN C1 \cup {key} /\ C2[key] = m
      /\ \A z \in DOMAIN C1 : z # key => C2[z] = C1[z]
    BY DEF Numbers!Put, Numbers!Over, C1, C2
<1>2. \A k \in DOMAIN C1 : C1[k] \in Nat
    OBVIOUS
<1>3. NextIn(C1, t, prefix) <= m
    OBVIOUS
<1> HIDE DEF C1, C2, key
<1>4. NextIn(C2, t, prefix) = m
    BY <1>1 DEF NextIn, Numbers!NextNumber, key
<1>5. CASE Numbers!Key(u, other) = key
    <2>1. NextIn(C2, u, other) = m /\ NextIn(C1, u, other) = NextIn(C1, t, prefix)
        BY <1>1, <1>5 DEF NextIn, Numbers!NextNumber, key
    <2> QED BY <1>3, <1>4, <2>1 DEF C1, C2, key
<1>6. CASE Numbers!Key(u, other) # key
    <2>1. NextIn(C2, u, other) = NextIn(C1, u, other)
        BY <1>1, <1>6 DEF NextIn, Numbers!NextNumber
    <2>2. NextIn(C1, u, other) \in Nat
        BY <1>2, NextIsNumber
    <2> QED BY <1>4, <2>1, <2>2 DEF C1, C2, key
<1> QED BY <1>5, <1>6

-----------------------------------------------------------------------------
(* A record written.                                                        *)

\* A record written with a number below the next one keeps a transaction's view
\* of every table, if the table has that number from nobody but a user.
LEMMA WrittenView ==
    ASSUME NEW s, NEW after, NEW R, NEW C, NEW T \in [Numbered -> Prefixes \cup {Null}], NEW F, NEW W,
           NEW r \in Records, NEW number, NEW by,
           after.new = Numbers!Put(s.new, r, [number |-> number, by |-> by]), after.config = s.config, s.cut \subseteq after.cut,
           \A u \in DOMAIN s.config : s.config[u] \in Prefixes \cup {Null},
           \A k \in DOMAIN Numbers!Over(s.count, C) : Numbers!Over(s.count, C)[k] \in Nat,
           LET t == HomeTable[r]  prefix == PrefixIn(s, T, t) IN
           /\ \/ prefix = Null /\ number = Null /\ after.count = s.count
              \/ \E n, m \in Nat : /\ prefix # Null /\ number = <<prefix, n>> /\ n < m
                                   /\ NextIn(Numbers!Over(s.count, C), t, prefix) <= m
                                   /\ after.count = Numbers!Put(s.count, Numbers!Key(t, prefix), m)
           /\ t \notin W \cup after.cut => \A q \in DOMAIN Numbers!Over(s.new, R) :
                q # r /\ HomeTable[q] = t /\ Numbers!Over(s.new, R)[q].number = number =>
                    number = Null \/ "user" \in {by, Numbers!Over(s.new, R)[q].by},
           NEW u \in Numbered, View(s, u, R, C, T, F, W)
    PROVE  View(after, u, R, C, T, F, W)
<1> DEFINE t == HomeTable[r]
           prefix == PrefixIn(s, T, t)
           own == PrefixIn(s, T, u)
           A == Numbers!Over(s.new, R)
           B == Numbers!Over(after.new, R)
           D == Numbers!Over(s.count, C)
           E == Numbers!Over(after.count, C)
<1>1. /\ DOMAIN B = DOMAIN A \cup {r} /\ B[r] = [number |-> number, by |-> by]
      /\ \A z \in DOMAIN A : z # r => B[z] = A[z]
    <2> DEFINE v == [number |-> number, by |-> by]
    <2>1. B = Numbers!Over(Numbers!Put(s.new, r, v), R)
        OBVIOUS
    <2> HIDE DEF v, B
    <2>2. /\ DOMAIN B = DOMAIN A \cup {r} /\ B[r] = v
          /\ \A z \in DOMAIN A : z # r => B[z] = A[z]
        BY <2>1 DEF Numbers!Put, Numbers!Over
    <2> QED BY <2>2 DEF v
<1>2. B[r].number = number /\ B[r].by = by
    BY <1>1
<1>3. PrefixIn(after, T, u) = own /\ own \in Prefixes \cup {Null} /\ t \in Numbered /\ prefix \in Prefixes \cup {Null}
    <2>1. t \in Numbered
        BY NumberConstants
    <2> QED BY <2>1 DEF PrefixIn
<1>4. \/ prefix = Null /\ number = Null /\ after.count = s.count
      \/ \E n, m \in Nat : /\ prefix # Null /\ number = <<prefix, n>> /\ n < m
                           /\ NextIn(D, t, prefix) <= m
                           /\ after.count = Numbers!Put(s.count, Numbers!Key(t, prefix), m)
    OBVIOUS
<1>5. t \notin W \cup after.cut => \A q \in DOMAIN A :
                q # r /\ HomeTable[q] = t /\ A[q].number = number => number = Null \/ "user" \in {by, A[q].by}
    OBVIOUS
<1>6. /\ Fit(A, u, own)
      /\ u \notin F \/ u \in DOMAIN s.config => Under(A, u, NextIn(D, u, own))
      /\ u \notin W \cup s.cut => Once(A, u)
    BY DEF View
<1>7. NextIn(D, u, own) \in Nat /\ NextIn(E, u, own) \in Nat /\ NextIn(D, u, own) <= NextIn(E, u, own)
    <2>0. \A k \in DOMAIN D : D[k] \in Nat
        OBVIOUS
    <2>1. NextIn(D, u, own) \in Nat
        BY <2>0, NextIsNumber
    <2>2. CASE after.count = s.count
        BY <2>1, <2>2
    <2>3. CASE after.count # s.count
        <3>1. PICK m \in Nat : NextIn(D, t, prefix) <= m /\ after.count = Numbers!Put(s.count, Numbers!Key(t, prefix), m)
            BY <1>4, <2>3
        <3> HIDE DEF t, prefix, own
        <3> QED BY <2>0, <2>1, <3>1, LiftedNext
    <2> QED BY <2>2, <2>3
<1>8. u = t => number = Null \/ number[2] < NextIn(E, u, own)
    <2> SUFFICES ASSUME u = t, number # Null PROVE number[2] < NextIn(E, u, own)
        OBVIOUS
    <2>0. \A k \in DOMAIN D : D[k] \in Nat
        OBVIOUS
    <2>1. PICK n, m \in Nat : /\ number = <<prefix, n>> /\ n < m /\ NextIn(D, t, prefix) <= m
                              /\ after.count = Numbers!Put(s.count, Numbers!Key(t, prefix), m)
        BY <1>4
    <2> HIDE DEF t, prefix, own
    <2>2. NextIn(E, t, prefix) = m
        BY <2>0, <2>1, LiftedNext
    <2> QED BY <2>1, <2>2 DEF own, prefix, t
<1>9. u = t => IF own = Null THEN number = Null ELSE number \in {own} \X Nat
    <2> SUFFICES ASSUME u = t, own # Null PROVE number \in {own} \X Nat
        BY <1>4
    <2>1. PICK n \in Nat : number = <<prefix, n>>
        BY <1>4
    <2> QED BY <2>1
<1> HIDE DEF A, B, D, E, own, prefix
<1>10. Fit(B, u, own)
    <2> SUFFICES ASSUME NEW z \in DOMAIN B, HomeTable[z] = u
                 PROVE  IF own = Null THEN B[z].number = Null ELSE B[z].number \in {own} \X Nat
        BY DEF Fit
    <2>1. CASE z = r
        BY <2>1, <1>2, <1>9
    <2>2. CASE z # r
        <3>1. z \in DOMAIN A /\ B[z] = A[z]
            BY <1>1, <2>2
        <3> QED BY <3>1, <1>6 DEF Fit
    <2> QED BY <2>1, <2>2
<1>11. ASSUME u \notin F \/ u \in DOMAIN s.config PROVE Under(B, u, NextIn(E, u, own))
    <2> SUFFICES ASSUME NEW z \in DOMAIN B, HomeTable[z] = u, B[z].number # Null
                 PROVE  B[z].number[2] < NextIn(E, u, own)
        BY DEF Under
    <2>1. CASE z = r
        BY <2>1, <1>2, <1>8
    <2>2. CASE z # r
        <3>1. z \in DOMAIN A /\ B[z] = A[z]
            BY <1>1, <2>2
        <3>2. A[z].number[2] < NextIn(D, u, own)
            BY <3>1, <1>6, <1>11 DEF Under
        <3>3. own \in Prefixes /\ A[z].number \in {own} \X Nat
            BY <3>1, <1>3, <1>6 DEF Fit
        <3>4. A[z].number[2] \in Nat
            BY <3>3, NumberParts
        <3> QED BY <3>1, <3>2, <3>4, <1>7
    <2> QED BY <2>1, <2>2
<1>12. ASSUME u \notin W \cup after.cut PROVE Once(B, u)
    <2>1. Once(A, u)
        BY <1>6, <1>12
    <2> SUFFICES ASSUME NEW y \in DOMAIN B, NEW z \in DOMAIN B, y # z, HomeTable[y] = u, HomeTable[z] = u,
                        B[y].number = B[z].number
                 PROVE  B[y].number = Null \/ "user" \in {B[y].by, B[z].by}
        BY DEF Once
    <2>2. CASE y # r /\ z # r
        <3>1. y \in DOMAIN A /\ B[y] = A[y] /\ z \in DOMAIN A /\ B[z] = A[z]
            BY <1>1, <2>2
        <3> QED BY <2>1, <3>1 DEF Once
    <2>3. CASE y = r
        <3>1. z \in DOMAIN A /\ B[z] = A[z]
            BY <1>1, <2>3
        <3> QED BY <1>2, <1>5, <1>12, <2>3, <3>1
    <2>4. CASE z = r
        <3>1. y \in DOMAIN A /\ B[y] = A[y]
            BY <1>1, <2>4
        <3> QED BY <1>2, <1>5, <1>12, <2>4, <3>1
    <2> QED BY <2>2, <2>3, <2>4
<1> QED BY <1>3, <1>10, <1>11, <1>12 DEF View, B, E, own

-----------------------------------------------------------------------------
(* The highest of some numbers, and a counter lifted over one.              *)

\* One of finitely many records has the highest number.
LEMMA Highest ==
    ASSUME NEW S, IsFiniteSet(S), S # {}, NEW f, \A r \in S : f[r] \in Nat
    PROVE  \E top \in S : \A r \in S : f[r] <= f[top]
<1> DEFINE A == {n \in Nat : \A U \in SUBSET S : Cardinality(U) = n /\ U # {} => \E top \in U : \A r \in U : f[r] <= f[top]}
<1>1. 0 \in A
    <2> SUFFICES ASSUME NEW U \in SUBSET S, Cardinality(U) = 0, U # {} PROVE FALSE
        OBVIOUS
    <2>1. IsFiniteSet(U)
        BY FS_Subset
    <2> QED BY <2>1, FS_EmptySet
<1>2. ASSUME NEW n \in Nat, n \in A PROVE n + 1 \in A
    <2> SUFFICES ASSUME NEW U \in SUBSET S, Cardinality(U) = n + 1, U # {}
                 PROVE  \E top \in U : \A r \in U : f[r] <= f[top]
        OBVIOUS
    <2>1. PICK e \in U : TRUE
        OBVIOUS
    <2>2. IsFiniteSet(U)
        BY FS_Subset
    <2>3. Cardinality(U \ {e}) = n
        <3>1. Cardinality(U \ {e}) = IF e \in U THEN Cardinality(U) - 1 ELSE Cardinality(U)
            BY <2>2, FS_RemoveElement, Zenon
        <3> QED BY <3>1
    <2>4. CASE U \ {e} = {}
        <3>1. \A r \in U : r = e /\ f[r] \in Nat
            BY <2>4
        <3> QED BY <2>1, <3>1
    <2>5. CASE U \ {e} # {}
        <3>1. U \ {e} \in SUBSET S
            OBVIOUS
        <3>2. PICK top \in U \ {e} : \A r \in U \ {e} : f[r] <= f[top]
            BY <1>2, <2>3, <2>5, <3>1
        <3>3. f[top] \in Nat /\ f[e] \in Nat /\ \A r \in U : r = e \/ r \in U \ {e}
            BY <2>1
        <3>4. CASE f[top] <= f[e]
            <4>1. \A r \in U : f[r] <= f[e]
                <5> TAKE r \in U
                <5>1. f[r] \in Nat
                    OBVIOUS
                <5>2. r = e \/ f[r] <= f[top]
                    BY <3>2
                <5> QED BY <5>1, <5>2, <3>3, <3>4
            <4> QED BY <2>1, <4>1
        <3>5. CASE ~(f[top] <= f[e])
            <4>1. \A r \in U : f[r] <= f[top]
                <5> TAKE r \in U
                <5>1. r = e \/ f[r] <= f[top]
                    BY <3>2
                <5> QED BY <5>1, <3>3, <3>5
            <4> QED BY <4>1
        <3> QED BY <3>4, <3>5
    <2> QED BY <2>4, <2>5
<1> HIDE DEF A
<1>3. Nat \subseteq A
    BY <1>1, <1>2, SetInduction
<1>4. Cardinality(S) \in A
    BY <1>3, FS_CardinalityType
<1> QED BY <1>4 DEF A

\* So the maximum of their numbers is one of them and none is above it.
LEMMA MaxOfNumbers ==
    ASSUME NEW S, IsFiniteSet(S), S # {}, NEW f, \A r \in S : f[r][2] \in Nat
    PROVE  LET max == Numbers!Max({f[r][2] : r \in S}) IN max \in Nat /\ \A r \in S : f[r][2] <= max
<1> DEFINE g == [r \in S |-> f[r][2]]
           M == {f[r][2] : r \in S}
<1>1. \A r \in S : g[r] \in Nat
    OBVIOUS
<1> HIDE DEF g
<1>2. PICK top \in S : \A r \in S : g[r] <= g[top]
    BY <1>1, Highest
<1>3. \A r \in S : g[r] = f[r][2]
    BY DEF g
<1>4. f[top][2] \in M /\ \A n \in M : f[top][2] >= n
    <2>1. \A r \in S : f[r][2] <= f[top][2]
        BY <1>2, <1>3
    <2> QED BY <2>1
<1>5. \E n \in M : \A k \in M : n >= k
    BY <1>4
<1>6. Numbers!Max(M) \in M /\ \A k \in M : Numbers!Max(M) >= k
    BY <1>5, Zenon DEF Numbers!Max
<1>7. M \subseteq Nat
    OBVIOUS
<1>8. \A r \in S : f[r][2] \in M
    OBVIOUS
<1> HIDE DEF M
<1>9. Numbers!Max(M) \in Nat /\ \A r \in S : f[r][2] <= Numbers!Max(M)
    BY <1>6, <1>7, <1>8
<1> QED BY <1>9 DEF M

\* The larger of two numbers.
LEMMA MaxOfTwo ==
    ASSUME NEW i \in Nat, NEW j \in Nat
    PROVE  Numbers!Max({i, j}) \in Nat /\ i <= Numbers!Max({i, j}) /\ j <= Numbers!Max({i, j})
<1>1. \E n \in {i, j} : \A k \in {i, j} : n >= k
    <2>1. CASE i >= j
        BY <2>1
    <2>2. CASE ~(i >= j)
        BY <2>2
    <2> QED BY <2>1, <2>2
<1>2. Numbers!Max({i, j}) \in {i, j} /\ \A k \in {i, j} : Numbers!Max({i, j}) >= k
    BY <1>1, Zenon DEF Numbers!Max
<1> QED BY <1>2

\* A counter lifted over a number is above it, and not lower than before
\* (base_sync_autnumber_counter).
LEMMA SyncedAbove ==
    ASSUME NEW C, \A k \in DOMAIN C : C[k] \in Nat, NEW t, NEW prefix, NEW n \in Nat
    PROVE  LET lifted == Numbers!Synced(C, Numbers!Key(t, prefix), n) IN
           /\ lifted[Numbers!Key(t, prefix)] \in Nat /\ n < lifted[Numbers!Key(t, prefix)]
           /\ NextIn(lifted, t, prefix) = lifted[Numbers!Key(t, prefix)]
           /\ NextIn(C, t, prefix) <= lifted[Numbers!Key(t, prefix)]
<1> DEFINE key == Numbers!Key(t, prefix)
           v == IF key \in DOMAIN C THEN Numbers!Max({C[key], n + 1}) ELSE n + 1
           lifted == Numbers!Put(C, key, v)
<1>1. Numbers!Synced(C, key, n) = lifted
    BY Zenon DEF Numbers!Synced
<1>2. v \in Nat /\ n < v /\ NextIn(C, t, prefix) <= v
    <2>1. CASE key \in DOMAIN C
        <3>1. C[key] \in Nat /\ n + 1 \in Nat
            BY <2>1
        <3>2. v \in Nat /\ C[key] <= v /\ n + 1 <= v
            BY <2>1, <3>1, MaxOfTwo
        <3> HIDE DEF v
        <3>3. NextIn(C, t, prefix) = C[key]
            BY <2>1 DEF NextIn, Numbers!NextNumber
        <3> QED BY <3>1, <3>2, <3>3
    <2>2. CASE key \notin DOMAIN C
        <3>1. NextIn(C, t, prefix) = 1 /\ v = n + 1
            BY <2>2 DEF NextIn, Numbers!NextNumber
        <3> QED BY <3>1
    <2> QED BY <2>1, <2>2
<1>3. key \in DOMAIN lifted /\ lifted[key] = v
    BY DEF Numbers!Put
<1> HIDE DEF lifted, v
<1>4. NextIn(lifted, t, prefix) = v
    BY <1>3 DEF NextIn, Numbers!NextNumber
<1> QED BY <1>1, <1>2, <1>3, <1>4

-----------------------------------------------------------------------------
(* A table renumbered.                                                      *)

\* The parts of a renumbering (applyTableAutoNumberStateTx) of table t of the
\* records A under a prefix, with counters D: the records with a number and
\* those without, the numbers the first ones keep, the first and the last number
\* for the others, and what the table becomes.
OldOf(A, t) == {r \in Numbers!RowsOf(t, A) : A[r].number # Null}
BlankOf(A, t) == Numbers!RowsOf(t, A) \ OldOf(A, t)
KeptOf(A, t, prefix) == [r \in OldOf(A, t) |-> Numbers!Renumbered(A[r].number, prefix)]
SeenOf(A, t, prefix) ==
    IF OldOf(A, t) = {} THEN 0 ELSE Numbers!Max({KeptOf(A, t, prefix)[r][2] : r \in OldOf(A, t)})
FirstOf(A, D, t, prefix) ==
    LET key == Numbers!Key(t, prefix) IN
    Numbers!NextNumber(IF OldOf(A, t) = {} THEN D ELSE Numbers!Synced(D, key, SeenOf(A, t, prefix)), key)
EndOf(A, D, t, prefix) == FirstOf(A, D, t, prefix) + Numbers!Cardinality(BlankOf(A, t))
Orders(A, D, t, prefix) ==
    Numbers!Bijection(BlankOf(A, t), FirstOf(A, D, t, prefix) .. EndOf(A, D, t, prefix) - 1)
GivenOf(A, t, prefix, order) ==
    Numbers!Over([r \in BlankOf(A, t) |-> <<prefix, Numbers!Shown(order[r])>>], KeptOf(A, t, prefix))
RewrittenOf(A, t, prefix, order) ==
    [r \in Numbers!RowsOf(t, A) |->
        [number |-> GivenOf(A, t, prefix, order)[r], by |-> IF r \in BlankOf(A, t) THEN "counter" ELSE A[r].by]]
CutOf(A, D, t, prefix) ==
    {q \in {t} : \/ BlankOf(A, t) # {} /\ EndOf(A, D, t, prefix) > Numbers!Limit
                 \/ \E r \in OldOf(A, t) : KeptOf(A, t, prefix)[r][2] # A[r].number[2]}
ClearedOf(A, t) == [r \in Numbers!RowsOf(t, A) |-> [number |-> Null, by |-> "counter"]]

\* What LPAD shows is no larger, and the number itself below the limit.
LEMMA ShownBelow ==
    ASSUME NEW n \in Nat
    PROVE  Numbers!Shown(n) \in Nat /\ Numbers!Shown(n) <= n /\ (n < Numbers!Limit => Numbers!Shown(n) = n)
<1>1. Base \in Nat /\ Base >= 1
    BY NumberConstants
<1>2. n \div Base \in Nat /\ n \div Base <= n
    <2>1. n \div Base \in Int /\ n % Base \in 0 .. Base - 1 /\ n = Base * (n \div Base) + (n % Base)
        BY <1>1
    <2> DEFINE d == n \div Base
               m == n % Base
    <2> HIDE DEF d, m
    <2>2. d \in Int /\ m \in Int /\ 0 <= m /\ m <= Base - 1 /\ n = Base * d + m
        BY <2>1, <1>1 DEF d, m
    <2>3. d >= 0
        BY <2>2, <1>1
    <2>4. d <= Base * d
        BY <2>2, <2>3, <1>1
    <2>5. Base * d \in Int
        BY <2>2, <1>1
    <2> QED BY <2>2, <2>3, <2>4, <2>5 DEF d
<1>3. Numbers!Shown(n) = n \/ Numbers!Shown(n) = n \div Base
    BY DEF Numbers!Shown
<1> QED BY <1>2, <1>3 DEF Numbers!Shown

\* The numbers a table keeps are under its new prefix; they are the same unless
\* a digit is cut off.
LEMMA KeptNumbers ==
    ASSUME NEW A, NEW t, NEW pre \in Prefixes \cup {Null}, NEW prefix \in Prefixes, Fit(A, t, pre)
    PROVE  \A r \in OldOf(A, t) :
             /\ KeptOf(A, t, prefix)[r] \in {prefix} \X Nat
             /\ pre \in Prefixes /\ A[r].number = <<pre, A[r].number[2]>>
<1> SUFFICES ASSUME NEW r \in OldOf(A, t)
             PROVE  /\ KeptOf(A, t, prefix)[r] \in {prefix} \X Nat
                    /\ pre \in Prefixes /\ A[r].number = <<pre, A[r].number[2]>>
    OBVIOUS
<1>1. r \in DOMAIN A /\ HomeTable[r] = t /\ A[r].number # Null
    BY DEF OldOf, Numbers!RowsOf
<1>2. pre \in Prefixes /\ A[r].number \in {pre} \X Nat
    BY <1>1 DEF Fit
<1>3. A[r].number[1] = pre /\ A[r].number[2] \in Nat /\ A[r].number = <<pre, A[r].number[2]>>
    BY <1>2, NumberParts
<1>4. KeptOf(A, t, prefix)[r] = Numbers!Renumbered(A[r].number, prefix)
    BY DEF KeptOf
<1>5. Numbers!Renumbered(A[r].number, prefix) \in {prefix} \X Nat
    <2>1. CASE A[r].number[1] = prefix
        BY <2>1, <1>2, <1>3 DEF Numbers!Renumbered
    <2>2. CASE A[r].number[1] # prefix
        <3>1. Numbers!Shown(A[r].number[2]) \in Nat
            BY <1>3, ShownBelow
        <3> QED BY <2>2, <3>1 DEF Numbers!Renumbered
    <2> QED BY <2>1, <2>2
<1> QED BY <1>2, <1>3, <1>4, <1>5

\* The first number for a record without one is above all that are kept, and not
\* below the counter.
LEMMA FirstAbove ==
    ASSUME NEW A, NEW D, NEW t, NEW pre \in Prefixes \cup {Null}, NEW prefix \in Prefixes, Fit(A, t, pre),
           \A k \in DOMAIN D : D[k] \in Nat, IsFiniteSet(Numbers!RowsOf(t, A))
    PROVE  /\ FirstOf(A, D, t, prefix) \in Nat /\ EndOf(A, D, t, prefix) \in Nat
           /\ NextIn(D, t, prefix) <= FirstOf(A, D, t, prefix) /\ FirstOf(A, D, t, prefix) <= EndOf(A, D, t, prefix)
           /\ \A r \in OldOf(A, t) : KeptOf(A, t, prefix)[r][2] < FirstOf(A, D, t, prefix)
<1> DEFINE key == Numbers!Key(t, prefix)
           kept == KeptOf(A, t, prefix)
           first == FirstOf(A, D, t, prefix)
<1>1. \A r \in OldOf(A, t) : kept[r][2] \in Nat
    BY KeptNumbers, NumberParts
<1>2. IsFiniteSet(OldOf(A, t)) /\ Cardinality(BlankOf(A, t)) \in Nat
    <2>1. OldOf(A, t) \in SUBSET Numbers!RowsOf(t, A) /\ BlankOf(A, t) \in SUBSET Numbers!RowsOf(t, A)
        BY DEF OldOf, BlankOf
    <2>2. IsFiniteSet(OldOf(A, t)) /\ IsFiniteSet(BlankOf(A, t))
        BY <2>1, FS_Subset
    <2> QED BY <2>2, FS_CardinalityType
<1>3. first \in Nat /\ NextIn(D, t, prefix) <= first /\ \A r \in OldOf(A, t) : kept[r][2] < first
    <2>1. CASE OldOf(A, t) = {}
        <3>1. first = NextIn(D, t, prefix)
            BY <2>1 DEF FirstOf, NextIn
        <3>2. first \in Nat
            BY <3>1, NextIsNumber
        <3> QED BY <2>1, <3>1, <3>2
    <2>2. CASE OldOf(A, t) # {}
        <3> DEFINE seen == SeenOf(A, t, prefix)
        <3>1. seen = Numbers!Max({kept[r][2] : r \in OldOf(A, t)})
            BY <2>2 DEF SeenOf
        <3> HIDE DEF kept, seen
        <3>2. seen \in Nat /\ \A r \in OldOf(A, t) : kept[r][2] <= seen
            BY <1>1, <1>2, <2>2, <3>1, MaxOfNumbers
        <3>3. first = NextIn(Numbers!Synced(D, key, seen), t, prefix)
            BY <2>2 DEF FirstOf, NextIn, seen
        <3> HIDE DEF first
        <3>4. first \in Nat /\ seen < first /\ NextIn(D, t, prefix) <= first
            BY <3>2, <3>3, SyncedAbove
        <3> QED BY <1>1, <3>2, <3>4
    <2> QED BY <2>1, <2>2
<1>4. EndOf(A, D, t, prefix) \in Nat /\ first <= EndOf(A, D, t, prefix)
    BY <1>2, <1>3, SameSize DEF EndOf
<1> QED BY <1>3, <1>4

\* A renumbered table is numbered under its new prefix, below the last number
\* given, and none twice that was not, unless numbers were cut off.
LEMMA GivenSound ==
    ASSUME NEW A, NEW D, NEW t, NEW pre \in Prefixes \cup {Null}, NEW prefix \in Prefixes, Fit(A, t, pre),
           \A k \in DOMAIN D : D[k] \in Nat, IsFiniteSet(Numbers!RowsOf(t, A)),
           NEW order \in Orders(A, D, t, prefix)
    PROVE  LET B == RewrittenOf(A, t, prefix, order) IN
           /\ DOMAIN B = Numbers!RowsOf(t, A)
           /\ Fit(B, t, prefix)
           /\ Under(B, t, EndOf(A, D, t, prefix))
           /\ Once(A, t) /\ CutOf(A, D, t, prefix) = {} => Once(B, t)
<1> DEFINE B == RewrittenOf(A, t, prefix, order)
           old == OldOf(A, t)
           blank == BlankOf(A, t)
           kept == KeptOf(A, t, prefix)
           first == FirstOf(A, D, t, prefix)
           end == EndOf(A, D, t, prefix)
<1>1. DOMAIN B = Numbers!RowsOf(t, A) /\ DOMAIN B = old \cup blank /\ old \cap blank = {}
    BY DEF RewrittenOf, OldOf, BlankOf
<1>2. /\ first \in Nat /\ end \in Nat /\ first <= end
      /\ \A r \in old : kept[r][2] < first
    BY FirstAbove
<1>3. \A r \in old : /\ kept[r] \in {prefix} \X Nat
                     /\ pre \in Prefixes /\ A[r].number = <<pre, A[r].number[2]>>
    BY KeptNumbers
<1>4. /\ \A r \in blank : order[r] \in first .. end - 1
      /\ \A r, q \in blank : order[r] = order[q] => r = q
    <2>1. order \in Numbers!Bijection(blank, first .. end - 1)
        BY DEF Orders
    <2> HIDE DEF blank, first, end
    <2> QED BY <2>1 DEF Numbers!Bijection, Numbers!Injection, Numbers!IsInjective
<1>5. \A r \in blank : B[r].number = <<prefix, Numbers!Shown(order[r])>> /\ B[r].by = "counter"
    <2> SUFFICES ASSUME NEW r \in blank
                 PROVE  B[r].number = <<prefix, Numbers!Shown(order[r])>> /\ B[r].by = "counter"
        OBVIOUS
    <2>1. r \in Numbers!RowsOf(t, A)
        BY <1>1
    <2>2. GivenOf(A, t, prefix, order)[r] = <<prefix, Numbers!Shown(order[r])>>
        BY DEF GivenOf, Numbers!Over
    <2> QED BY <2>1, <2>2 DEF RewrittenOf
<1>6. \A r \in old : B[r].number = kept[r] /\ B[r].by = A[r].by
    <2> SUFFICES ASSUME NEW r \in old PROVE B[r].number = kept[r] /\ B[r].by = A[r].by
        OBVIOUS
    <2>1. r \in Numbers!RowsOf(t, A) /\ r \notin blank
        BY <1>1
    <2>2. GivenOf(A, t, prefix, order)[r] = kept[r]
        BY <2>1 DEF GivenOf, Numbers!Over, KeptOf
    <2> QED BY <2>1, <2>2 DEF RewrittenOf
<1>7. prefix # Null /\ Numbers!Limit \in Nat
    BY NumberConstants
<1>8. \A r \in blank : /\ Numbers!Shown(order[r]) \in Nat /\ Numbers!Shown(order[r]) <= order[r]
                       /\ (order[r] < Numbers!Limit => Numbers!Shown(order[r]) = order[r])
    BY <1>2, <1>4, ShownBelow
<1>9. CutOf(A, D, t, prefix) = {} =>
        /\ blank # {} => end <= Numbers!Limit
        /\ \A r \in old : kept[r][2] = A[r].number[2]
    <2> SUFFICES ASSUME CutOf(A, D, t, prefix) = {}
                 PROVE  ~(blank # {} /\ end > Numbers!Limit) /\ ~ \E r \in old : kept[r][2] # A[r].number[2]
        BY <1>2, <1>7
    <2> QED BY DEF CutOf
<1> HIDE DEF B, old, blank, kept, first, end
<1>10. Fit(B, t, prefix)
    <2> SUFFICES ASSUME NEW r \in DOMAIN B PROVE B[r].number \in {prefix} \X Nat
        BY <1>7 DEF Fit
    <2>1. CASE r \in old
        BY <2>1, <1>3, <1>6
    <2>2. CASE r \in blank
        BY <2>2, <1>5, <1>8
    <2> QED BY <1>1, <2>1, <2>2
<1>11. Under(B, t, end)
    <2> SUFFICES ASSUME NEW r \in DOMAIN B PROVE B[r].number[2] < end
        BY DEF Under
    <2>1. CASE r \in old
        <3>1. kept[r][2] \in Nat
            BY <1>3, <2>1
        <3> QED BY <2>1, <3>1, <1>2, <1>6
    <2>2. CASE r \in blank
        BY <2>2, <1>2, <1>4, <1>5, <1>8
    <2> QED BY <1>1, <2>1, <2>2
<1>12. ASSUME Once(A, t), CutOf(A, D, t, prefix) = {} PROVE Once(B, t)
    <2> SUFFICES ASSUME NEW r \in DOMAIN B, NEW q \in DOMAIN B, r # q, B[r].number = B[q].number
                 PROVE  "user" \in {B[r].by, B[q].by}
        BY DEF Once
    <2>1. \A z \in blank : B[z].number[2] = order[z] /\ order[z] \in Int /\ order[z] >= first
        <3> SUFFICES ASSUME NEW z \in blank
                     PROVE  B[z].number[2] = order[z] /\ order[z] \in Int /\ order[z] >= first
            OBVIOUS
        <3>1. order[z] \in Nat /\ order[z] < end /\ order[z] >= first
            BY <1>2, <1>4
        <3>2. order[z] < Numbers!Limit
            BY <3>1, <1>2, <1>7, <1>9, <1>12
        <3> QED BY <3>1, <3>2, <1>5, <1>8
    <2>2. \A z \in old : B[z].number[2] \in Int /\ B[z].number[2] < first
        <3> SUFFICES ASSUME NEW z \in old PROVE B[z].number[2] \in Int /\ B[z].number[2] < first
            OBVIOUS
        <3>1. kept[z][2] \in Nat
            BY <1>3
        <3> QED BY <3>1, <1>2, <1>6
    <2>3. CASE r \in blank /\ q \in blank
        BY <2>3, <2>1, <1>4
    <2>4. CASE r \in blank /\ q \in old
        BY <2>4, <2>1, <2>2, <1>2
    <2>5. CASE r \in old /\ q \in blank
        BY <2>5, <2>1, <2>2, <1>2
    <2>6. CASE r \in old /\ q \in old
        <3>1. A[r].number[2] = A[q].number[2]
            BY <2>6, <1>6, <1>9, <1>12
        <3>2. A[r].number = A[q].number
            BY <3>1, <2>6, <1>3
        <3>3. A[r].number # Null /\ r \in DOMAIN A /\ q \in DOMAIN A /\ HomeTable[r] = t /\ HomeTable[q] = t
            BY <2>6 DEF old, OldOf, Numbers!RowsOf
        <3>4. "user" \in {A[r].by, A[q].by}
            BY <3>2, <3>3, <1>12 DEF Once
        <3> QED BY <3>4, <2>6, <1>6
    <2> QED BY <1>1, <2>3, <2>4, <2>5, <2>6
<1> QED BY <1>1, <1>10, <1>11, <1>12 DEF B, end

\* A schema change that gives every record of a table what its new prefix asks
\* for, and leaves the counter above, keeps the transaction's view of every table.
LEMMA ChangedView ==
    ASSUME NEW s, NEW after, NEW R, NEW C, NEW T \in [Numbered -> Prefixes \cup {Null}], NEW F, NEW W,
           NEW t \in Numbered, NEW prefix \in Prefixes \cup {Null}, NEW B,
           DOMAIN B = Numbers!RowsOf(t, Numbers!Over(s.new, R)), Fit(B, t, prefix),
           after.new = Numbers!Over(B, s.new), after.config = Numbers!Put(s.config, t, prefix), s.cut \subseteq after.cut,
           \A u \in DOMAIN s.config : s.config[u] \in Prefixes \cup {Null},
           \A k \in DOMAIN Numbers!Over(s.count, C) : Numbers!Over(s.count, C)[k] \in Nat,
           \/ after.count = s.count /\ \A n \in Nat : Under(B, t, n)
           \/ \E m \in Nat : /\ NextIn(Numbers!Over(s.count, C), t, prefix) <= m /\ Under(B, t, m)
                             /\ after.count = Numbers!Put(s.count, Numbers!Key(t, prefix), m),
           t \notin W \cup after.cut => Once(B, t),
           NEW u \in Numbered, View(s, u, R, C, T, F, W)
    PROVE  View(after, u, R, C, T, F, W)
<1> DEFINE A == Numbers!Over(s.new, R)
           Z == Numbers!Over(after.new, R)
           D == Numbers!Over(s.count, C)
           E == Numbers!Over(after.count, C)
           own == PrefixIn(s, T, u)
<1>1. \A r \in DOMAIN B : HomeTable[r] = t /\ r \in DOMAIN A
    BY DEF Numbers!RowsOf
<1>2. \A r \in DOMAIN A : HomeTable[r] = t => r \in DOMAIN B
    BY DEF Numbers!RowsOf
<1>3. /\ DOMAIN Z = DOMAIN B \cup DOMAIN A
      /\ \A r \in DOMAIN B : Z[r] = B[r]
      /\ \A r \in DOMAIN A : r \notin DOMAIN B => Z[r] = A[r]
    <2>1. Z = Numbers!Over(Numbers!Over(B, s.new), R)
        OBVIOUS
    <2> HIDE DEF Z
    <2> QED BY <2>1 DEF Numbers!Over
<1>4. \A k \in DOMAIN D : D[k] \in Nat
    OBVIOUS
<1>5. \/ after.count = s.count /\ \A n \in Nat : Under(B, t, n)
      \/ \E m \in Nat : /\ NextIn(D, t, prefix) <= m /\ Under(B, t, m)
                        /\ after.count = Numbers!Put(s.count, Numbers!Key(t, prefix), m)
    OBVIOUS
<1>6. own \in Prefixes \cup {Null}
    BY DEF PrefixIn
<1>7. /\ Fit(A, u, own)
      /\ u \notin F \/ u \in DOMAIN s.config => Under(A, u, NextIn(D, u, own))
      /\ u \notin W \cup s.cut => Once(A, u)
    BY DEF View
<1>8. DOMAIN after.config = DOMAIN s.config \cup {t} /\ PrefixIn(after, T, u) = IF u = t THEN prefix ELSE own
    BY DEF PrefixIn, Numbers!Put
<1>9. \A other : NextIn(D, u, other) \in Nat /\ NextIn(E, u, other) \in Nat /\ NextIn(D, u, other) <= NextIn(E, u, other)
    <2> SUFFICES ASSUME NEW other
                 PROVE  NextIn(D, u, other) \in Nat /\ NextIn(E, u, other) \in Nat /\ NextIn(D, u, other) <= NextIn(E, u, other)
        OBVIOUS
    <2>1. NextIn(D, u, other) \in Nat
        BY <1>4, NextIsNumber
    <2>2. CASE after.count = s.count
        BY <2>1, <2>2
    <2>3. CASE after.count # s.count
        <3>1. PICK m \in Nat : NextIn(D, t, prefix) <= m /\ after.count = Numbers!Put(s.count, Numbers!Key(t, prefix), m)
            BY <1>5, <2>3
        <3> QED BY <2>1, <3>1, <1>4, LiftedNext
    <2> QED BY <2>2, <2>3
<1>10. Under(B, t, NextIn(E, t, prefix))
    <2>1. CASE after.count = s.count /\ \A n \in Nat : Under(B, t, n)
        BY <2>1, <1>4, NextIsNumber
    <2>2. CASE \E m \in Nat : /\ NextIn(D, t, prefix) <= m /\ Under(B, t, m)
                              /\ after.count = Numbers!Put(s.count, Numbers!Key(t, prefix), m)
        <3>1. PICK m \in Nat : /\ NextIn(D, t, prefix) <= m /\ Under(B, t, m)
                               /\ after.count = Numbers!Put(s.count, Numbers!Key(t, prefix), m)
            BY <2>2
        <3>2. NextIn(E, t, prefix) = m
            BY <3>1, <1>4, LiftedNext
        <3> QED BY <3>1, <3>2
    <2> QED BY <1>5, <2>1, <2>2
<1>11. t \notin W \cup after.cut => Once(B, t)
    OBVIOUS
<1> HIDE DEF A, D, E, Z, own
<1>12. CASE u = t
    <2>1. \A r \in DOMAIN Z : HomeTable[r] = t => r \in DOMAIN B /\ Z[r] = B[r]
        BY <1>2, <1>3
    <2>2. Fit(Z, t, prefix) /\ (Once(B, t) => Once(Z, t))
        BY <2>1, FewerRecords
    <2>3. Under(Z, t, NextIn(E, t, prefix))
        BY <1>9, <1>10, <1>12, <2>1, FewerRecords
    <2> QED BY <1>8, <1>11, <1>12, <2>2, <2>3 DEF View, Z, E
<1>13. CASE u # t
    <2>1. \A r \in DOMAIN Z : HomeTable[r] = u => r \in DOMAIN A /\ Z[r] = A[r]
        BY <1>1, <1>3, <1>13
    <2>2. Fit(Z, u, own) /\ (Once(A, u) => Once(Z, u))
        BY <1>7, <2>1, FewerRecords
    <2>3. u \notin F \/ u \in DOMAIN s.config => Under(Z, u, NextIn(E, u, own))
        BY <1>6, <1>7, <1>9, <2>1, FewerRecords
    <2>4. u \notin W \cup after.cut => Once(Z, u)
        BY <1>7, <2>2
    <2>5. PrefixIn(after, T, u) = own /\ (u \in DOMAIN after.config <=> u \in DOMAIN s.config)
        BY <1>8, <1>13
    <2> QED BY <2>2, <2>3, <2>4, <2>5 DEF View, Z, E
<1> QED BY <1>12, <1>13

-----------------------------------------------------------------------------
(* What others commit or delete.                                            *)

\* A transaction that has ended, or not begun, holds nothing.
LEMMA IdleHolds ==
    /\ Doing(Numbers!Idle)
    /\ \A R, C, T : Holding(Numbers!Idle, R, C, T)
    /\ \A u : Parted(Numbers!Idle, u) /\ Parted(u, Numbers!Idle)
<1>1. /\ Numbers!Idle.todo = <<>> /\ Numbers!Idle.stage = 1 /\ Numbers!Idle.shared = {} /\ Numbers!Idle.alone = {}
      /\ DOMAIN Numbers!Idle.new = {} /\ DOMAIN Numbers!Idle.count = {} /\ DOMAIN Numbers!Idle.config = {}
    BY DEF Numbers!Idle, Numbers!Empty
<1>2. <<>> \in Seq(NumberSteps)
    OBVIOUS
<1> QED BY <1>1, <1>2 DEF Doing, Holding, Parted

\* What a transaction sees of the counters are numbers.
LEMMA CountsAreNumbers ==
    ASSUME NEW s, NEW R, NEW C, NEW T, Holding(s, R, C, T), \A k \in DOMAIN C : C[k] \in Nat
    PROVE  \A k \in DOMAIN Numbers!Over(s.count, C) : Numbers!Over(s.count, C)[k] \in Nat
BY DEF Holding, Numbers!Over

\* A transaction that commits changes nothing that another one holds.
LEMMA OtherHolds ==
    ASSUME NEW s, NEW u, NEW R, NEW C, NEW T \in [Numbered -> Prefixes \cup {Null}],
           Holding(s, R, C, T), Holding(u, R, C, T), Parted(s, u)
    PROVE  Holding(u, Numbers!Over(s.new, R), Numbers!Over(s.count, C), Numbers!Over(s.config, T))
<1> DEFINE R2 == Numbers!Over(s.new, R)
           C2 == Numbers!Over(s.count, C)
           T2 == Numbers!Over(s.config, T)
<1>1. DOMAIN R2 = DOMAIN R \cup DOMAIN s.new
    BY DEF Numbers!Over
<1>2. \A t \in DOMAIN u.config, r \in DOMAIN R2 : HomeTable[r] = t => r \in DOMAIN u.new
    <2> SUFFICES ASSUME NEW r \in DOMAIN R2, HomeTable[r] \in DOMAIN u.config PROVE r \in DOMAIN u.new
        OBVIOUS
    <2>1. r \notin DOMAIN s.new
        BY DEF Holding, Parted
    <2> QED BY <1>1, <2>1 DEF Holding
<1>3. \A k \in DOMAIN u.count : Numbers!NextNumber(C2, k) = Numbers!NextNumber(C, k)
    BY DEF Parted, Numbers!NextNumber, Numbers!Over
<1>4. \A r \in DOMAIN u.new : PrefixIn(u, T2, HomeTable[r]) = PrefixIn(u, T, HomeTable[r])
    <2> SUFFICES ASSUME NEW r \in DOMAIN u.new PROVE PrefixIn(u, T2, HomeTable[r]) = PrefixIn(u, T, HomeTable[r])
        OBVIOUS
    <2>1. HomeTable[r] \notin DOMAIN s.config /\ HomeTable[r] \in Numbered
        BY NumberConstants DEF Holding, Parted
    <2>2. T2[HomeTable[r]] = T[HomeTable[r]]
        BY <2>1 DEF Numbers!Over
    <2> QED BY <2>2 DEF PrefixIn
<1> HIDE DEF R2, C2, T2
<1>5. Holding(u, R2, C2, T2)
    BY <1>2, <1>3, <1>4 DEF Holding
<1> QED BY <1>5 DEF R2, C2, T2

\* If both have written to a table, neither gives numbers there.
LEMMA BothWroteNone ==
    ASSUME NEW s, NEW u, NEW R, NEW C, NEW T \in [Numbered -> Prefixes \cup {Null}],
           Holding(s, R, C, T), Holding(u, R, C, T), Parted(s, u),
           NEW t \in Numbered, t \notin DOMAIN s.config, t \notin DOMAIN u.config,
           Fit(Numbers!Over(s.new, R), t, T[t]), Fit(Numbers!Over(u.new, R), t, T[t]),
           NEW y \in DOMAIN s.new, HomeTable[y] = t, NEW z \in DOMAIN u.new, HomeTable[z] = t
    PROVE  T[t] = Null
<1> SUFFICES ASSUME T[t] # Null PROVE FALSE
    OBVIOUS
<1>1. T[t] \in Prefixes
    OBVIOUS
<1>2. s.new[y].number # Null
    <2>1. y \in DOMAIN Numbers!Over(s.new, R) /\ Numbers!Over(s.new, R)[y] = s.new[y]
        BY DEF Numbers!Over
    <2>2. s.new[y].number \in {T[t]} \X Nat
        BY <2>1 DEF Fit
    <2> QED BY <1>1, <2>2, NumberParts
<1>3. u.new[z].number # Null
    <2>1. z \in DOMAIN Numbers!Over(u.new, R) /\ Numbers!Over(u.new, R)[z] = u.new[z]
        BY DEF Numbers!Over
    <2>2. u.new[z].number \in {T[t]} \X Nat
        BY <2>1 DEF Fit
    <2> QED BY <1>1, <2>2, NumberParts
<1>4. Numbers!Key(t, T[t]) \in DOMAIN s.count
    BY <1>2 DEF Holding, PrefixIn
<1>5. Numbers!Key(t, T[t]) \in DOMAIN u.count
    BY <1>3 DEF Holding, PrefixIn
<1> QED BY <1>4, <1>5 DEF Parted

\* A transaction that commits leaves every other one, and who has not begun, a
\* view of every table that is as good.
LEMMA OtherView ==
    ASSUME NEW s, NEW u, NEW R, NEW C, NEW T \in [Numbered -> Prefixes \cup {Null}], NEW F, NEW W,
           \A k \in DOMAIN C : C[k] \in Nat,
           Holding(s, R, C, T), Holding(u, R, C, T), Parted(s, u),
           NEW t \in Numbered, View(s, t, R, C, T, F, W), View(u, t, R, C, T, F, W)
    PROVE  View(u, t, Numbers!Over(s.new, R), Numbers!Over(s.count, C), Numbers!Over(s.config, T),
                F \ DOMAIN s.config, W \cup s.cut)
<1> DEFINE R2 == Numbers!Over(s.new, R)
           C2 == Numbers!Over(s.count, C)
           T2 == Numbers!Over(s.config, T)
           A == Numbers!Over(u.new, R)
           Z == Numbers!Over(u.new, R2)
           D == Numbers!Over(u.count, C)
           E == Numbers!Over(u.count, C2)
           before == PrefixIn(u, T, t)
           own == PrefixIn(u, T2, t)
           seen == PrefixIn(s, T, t)
<1>1. /\ DOMAIN Z = DOMAIN u.new \cup DOMAIN R2
      /\ \A r \in DOMAIN u.new : Z[r] = u.new[r] /\ A[r] = u.new[r]
      /\ \A r \in DOMAIN R2 : r \notin DOMAIN u.new => Z[r] = R2[r]
      /\ DOMAIN A = DOMAIN u.new \cup DOMAIN R
      /\ \A r \in DOMAIN R : r \notin DOMAIN u.new => A[r] = R[r]
      /\ DOMAIN R2 = DOMAIN s.new \cup DOMAIN R
      /\ \A r \in DOMAIN s.new : R2[r] = s.new[r]
      /\ \A r \in DOMAIN R : r \notin DOMAIN s.new => R2[r] = R[r]
    BY DEF Numbers!Over
<1>2. /\ Fit(A, t, before)
      /\ t \notin F \/ t \in DOMAIN u.config => Under(A, t, NextIn(D, t, before))
      /\ t \notin W \cup u.cut => Once(A, t)
    BY DEF View
<1>3. /\ Fit(R2, t, seen)
      /\ t \notin F \/ t \in DOMAIN s.config => Under(R2, t, NextIn(C2, t, seen))
      /\ t \notin W \cup s.cut => Once(R2, t)
    BY DEF View
<1>4. /\ before \in Prefixes \cup {Null} /\ seen \in Prefixes \cup {Null}
      /\ (t \in DOMAIN u.config => t \notin DOMAIN s.config /\ own = before)
      /\ (t \notin DOMAIN u.config => own = seen)
      /\ (t \notin DOMAIN s.config => own = before)
    BY DEF PrefixIn, Holding, Parted, Numbers!Over
<1>5. (\A k \in DOMAIN C2 : C2[k] \in Nat) /\ (\A k \in DOMAIN D : D[k] \in Nat) /\ (\A k \in DOMAIN E : E[k] \in Nat)
    <2>1. \A k \in DOMAIN C2 : C2[k] \in Nat
        BY CountsAreNumbers
    <2>2. \A k \in DOMAIN u.count : u.count[k] \in Nat
        BY DEF Holding
    <2> QED BY <2>1, <2>2 DEF Numbers!Over
<1>6. \A other : /\ NextIn(C2, t, other) \in Nat /\ NextIn(D, t, other) \in Nat /\ NextIn(E, t, other) \in Nat
                 /\ NextIn(C2, t, other) <= NextIn(E, t, other) /\ NextIn(D, t, other) <= NextIn(E, t, other)
    <2> SUFFICES ASSUME NEW other
                 PROVE  /\ NextIn(C2, t, other) \in Nat /\ NextIn(D, t, other) \in Nat /\ NextIn(E, t, other) \in Nat
                        /\ NextIn(C2, t, other) <= NextIn(E, t, other) /\ NextIn(D, t, other) <= NextIn(E, t, other)
        OBVIOUS
    <2> DEFINE key == Numbers!Key(t, other)
    <2>0. NextIn(C2, t, other) \in Nat /\ NextIn(D, t, other) \in Nat /\ NextIn(E, t, other) \in Nat /\ NextIn(C, t, other) \in Nat
        BY <1>5, NextIsNumber
    <2>1. CASE key \in DOMAIN u.count
        <3>1. NextIn(E, t, other) = u.count[key] /\ NextIn(D, t, other) = u.count[key]
            BY <2>1 DEF NextIn, Numbers!NextNumber, Numbers!Over
        <3>2. NextIn(C2, t, other) = NextIn(C, t, other)
            BY <2>1 DEF NextIn, Numbers!NextNumber, Numbers!Over, Parted
        <3>3. NextIn(C, t, other) <= u.count[key]
            BY <2>1 DEF Holding, NextIn
        <3> HIDE DEF C2, D, E, key
        <3> QED BY <2>0, <3>1, <3>2, <3>3
    <2>2. CASE key \notin DOMAIN u.count
        <3>1. NextIn(E, t, other) = NextIn(C2, t, other) /\ NextIn(D, t, other) = NextIn(C, t, other)
            BY <2>2 DEF NextIn, Numbers!NextNumber, Numbers!Over
        <3>2. NextIn(C, t, other) <= NextIn(C2, t, other)
            <4>1. CASE key \in DOMAIN s.count
                <5>1. NextIn(C2, t, other) = s.count[key]
                    BY <4>1 DEF NextIn, Numbers!NextNumber, Numbers!Over
                <5> QED BY <4>1, <5>1 DEF Holding, NextIn
            <4>2. CASE key \notin DOMAIN s.count
                <5>1. NextIn(C2, t, other) = NextIn(C, t, other)
                    BY <4>2 DEF NextIn, Numbers!NextNumber, Numbers!Over
                <5> HIDE DEF C2, D, E, key
                <5> QED BY <5>1, <2>0
            <4> QED BY <4>1, <4>2
        <3> HIDE DEF C2, D, E, key
        <3> QED BY <2>0, <3>1, <3>2
    <2> QED BY <2>1, <2>2
<1>7. (\A r \in DOMAIN s.new : HomeTable[r] # t) \/ (\A r \in DOMAIN u.new : HomeTable[r] # t) \/ own = Null
    <2> SUFFICES ASSUME NEW y \in DOMAIN s.new, HomeTable[y] = t, NEW z \in DOMAIN u.new, HomeTable[z] = t
                 PROVE  own = Null
        OBVIOUS
    <2>1. t \notin DOMAIN s.config /\ t \notin DOMAIN u.config
        BY DEF Holding, Parted
    <2>2. before = T[t] /\ seen = T[t]
        BY <2>1 DEF PrefixIn
    <2>3. Fit(A, t, T[t]) /\ Fit(R2, t, T[t])
        BY <1>2, <1>3, <2>2
    <2>4. T[t] = Null
        BY <2>1, <2>3, BothWroteNone
    <2> QED BY <1>4, <2>1, <2>2, <2>4
<1>8. (\E r \in DOMAIN s.new : HomeTable[r] = t) => t \notin DOMAIN u.config
    BY DEF Holding, Parted
<1>9. (\E r \in DOMAIN u.new : HomeTable[r] = t) => t \notin DOMAIN s.config
    BY DEF Holding, Parted
<1>10. t \in DOMAIN s.config => \A r \in DOMAIN R : HomeTable[r] = t => r \in DOMAIN s.new
    BY DEF Holding
<1> HIDE DEF R2, C2, T2, A, Z, D, E, before, own, seen
<1>11. CASE \A r \in DOMAIN s.new : HomeTable[r] # t
    <2>1. \A r \in DOMAIN Z : HomeTable[r] = t => r \in DOMAIN A /\ Z[r] = A[r]
        BY <1>1, <1>11
    <2>2. CASE own = before
        <3>1. Fit(Z, t, own) /\ (Once(A, t) => Once(Z, t))
            BY <1>2, <2>1, <2>2, FewerRecords
        <3>2. Under(A, t, NextIn(D, t, before)) => Under(Z, t, NextIn(E, t, own))
            BY <1>2, <1>4, <1>6, <2>1, <2>2, FewerRecords
        <3>3. t \notin F \ DOMAIN s.config \/ t \in DOMAIN u.config => Under(Z, t, NextIn(E, t, own))
            <4>1. CASE t \in DOMAIN s.config
                <5>1. \A r \in DOMAIN Z : HomeTable[r] # t
                    BY <1>1, <1>9, <1>10, <1>11, <4>1
                <5> QED BY <5>1 DEF Under
            <4>2. CASE t \notin DOMAIN s.config
                BY <1>2, <3>2, <4>2
            <4> QED BY <4>1, <4>2
        <3> QED BY <1>2, <3>1, <3>3 DEF View, Z, E, own, R2, C2, T2
    <2>3. CASE own # before
        <3>1. \A r \in DOMAIN Z : HomeTable[r] # t
            BY <1>1, <1>4, <1>9, <1>10, <1>11, <2>3
        <3>2. Fit(Z, t, own) /\ Once(Z, t) /\ Under(Z, t, NextIn(E, t, own))
            BY <3>1 DEF Fit, Once, Under
        <3> QED BY <3>2 DEF View, Z, E, own, R2, C2, T2
    <2> QED BY <2>2, <2>3
<1>12. CASE (\E r \in DOMAIN s.new : HomeTable[r] = t) /\ \A r \in DOMAIN u.new : HomeTable[r] # t
    <2>1. \A r \in DOMAIN Z : HomeTable[r] = t => r \in DOMAIN R2 /\ Z[r] = R2[r]
        BY <1>1, <1>12
    <2>2. t \notin DOMAIN u.config /\ own = seen
        BY <1>4, <1>8, <1>12
    <2>3. Fit(Z, t, own) /\ (Once(R2, t) => Once(Z, t))
        BY <1>3, <2>1, <2>2, FewerRecords
    <2>4. Under(R2, t, NextIn(C2, t, seen)) => Under(Z, t, NextIn(E, t, own))
        BY <1>3, <1>4, <1>6, <2>1, <2>2, FewerRecords
    <2> QED BY <1>3, <2>2, <2>3, <2>4 DEF View, Z, E, own, R2, C2, T2
<1>13. CASE /\ \E r \in DOMAIN s.new : HomeTable[r] = t
            /\ \E r \in DOMAIN u.new : HomeTable[r] = t
    <2>1. own = Null /\ own = before /\ own = seen
        BY <1>4, <1>7, <1>8, <1>9, <1>13
    <2>2. Fit(Z, t, Null)
        <3> SUFFICES ASSUME NEW r \in DOMAIN Z, HomeTable[r] = t PROVE Z[r].number = Null
            BY DEF Fit
        <3>1. (r \in DOMAIN A /\ Z[r] = A[r]) \/ (r \in DOMAIN R2 /\ Z[r] = R2[r])
            BY <1>1
        <3> QED BY <1>2, <1>3, <2>1, <3>1 DEF Fit
    <2>3. Once(Z, t) /\ \A n : Under(Z, t, n)
        BY <2>2, NoNumbers
    <2> QED BY <2>1, <2>2, <2>3 DEF View, Z, E, own, R2, C2, T2
<1> QED BY <1>11, <1>12, <1>13

\* A counter that is deleted is held by nobody; it leaves the others what they
\* hold, and the tables that drew from it are known.
LEMMA ForgottenCounter ==
    ASSUME NEW u, NEW R, NEW C, NEW T \in [Numbered -> Prefixes \cup {Null}], NEW F, NEW W, NEW gone, NEW more, NEW C2,
           C2 = [k \in DOMAIN C \ gone |-> C[k]],
           Holding(u, R, C, T), DOMAIN u.count \cap gone = {},
           \A t \in Numbered : Numbers!Key(t, T[t]) \in gone => t \in more
    PROVE  /\ Holding(u, R, C2, T)
           /\ \A t \in Numbered : View(u, t, R, C, T, F, W) => View(u, t, R, C2, T, F \cup more, W \cup more)
<1>1. \A k \in DOMAIN u.count : Numbers!NextNumber(C2, k) = Numbers!NextNumber(C, k)
    BY DEF Numbers!NextNumber
<1>2. Holding(u, R, C2, T)
    BY <1>1 DEF Holding
<1>3. ASSUME NEW t \in Numbered, View(u, t, R, C, T, F, W)
      PROVE  View(u, t, R, C2, T, F \cup more, W \cup more)
    <2> DEFINE A == Numbers!Over(u.new, R)
               own == PrefixIn(u, T, t)
               D == Numbers!Over(u.count, C)
               E == Numbers!Over(u.count, C2)
    <2>1. /\ Fit(A, t, own)
          /\ t \notin F \/ t \in DOMAIN u.config => Under(A, t, NextIn(D, t, own))
          /\ t \notin W \cup u.cut => Once(A, t)
        BY <1>3 DEF View
    <2>2. Numbers!Key(t, own) \notin gone => NextIn(D, t, own) = NextIn(E, t, own)
        BY DEF NextIn, Numbers!NextNumber, Numbers!Over
    <2>3. t \notin DOMAIN u.config => own = T[t]
        BY DEF PrefixIn
    <2>4. t \in DOMAIN u.config => \A r \in DOMAIN A : HomeTable[r] = t => r \in DOMAIN u.new /\ A[r] = u.new[r]
        BY DEF Holding, Numbers!Over
    <2>5. \A r \in DOMAIN u.new : HomeTable[r] = t /\ u.new[r].number # Null => Numbers!Key(t, own) \in DOMAIN u.count
        BY DEF Holding
    <2> HIDE DEF A, own, D, E
    <2>6. ASSUME t \notin F \cup more \/ t \in DOMAIN u.config PROVE Under(A, t, NextIn(E, t, own))
        <3>1. CASE Numbers!Key(t, own) \notin gone
            BY <2>1, <2>2, <2>6, <3>1
        <3>2. CASE Numbers!Key(t, own) \in gone
            <4>1. t \in DOMAIN u.config
                BY <2>3, <2>6, <3>2
            <4>2. \A r \in DOMAIN A : HomeTable[r] = t => A[r].number = Null
                BY <2>4, <2>5, <3>2, <4>1
            <4> QED BY <4>2 DEF Under
        <3> QED BY <3>1, <3>2
    <2> QED BY <2>1, <2>6 DEF View, A, own, E
<1> QED BY <1>2, <1>3

-----------------------------------------------------------------------------
(* Every step keeps the view of every transaction.                          *)

\* Who is apart from another one is so the other way round.
LEMMA PartedBoth ==
    ASSUME NEW s, NEW u, Parted(s, u)
    PROVE  Parted(u, s)
BY DEF Parted

\* A step of one transaction that changes nothing committed.
LEMMA TxViewsReplaced ==
    ASSUME NumbersInv, CountInv, NEW p \in Procs, NEW after, tx' = [tx EXCEPT ![p] = after],
           UNCHANGED <<numbered, counters, trigger, forgotten, lost, wide>>,
           Doing(after), Holding(after, numbered, counters, trigger),
           \A q \in Procs : q # p => Parted(after, tx[q]),
           \A t \in Numbered : View(after, t, numbered, counters, trigger, forgotten, wide \cup lost)
    PROVE  CountInv'
<1>1. \A q \in Procs : tx'[q] = IF q = p THEN after ELSE tx[q]
    BY DEF NumbersInv, TxShape
<1>2. \A q, o \in Procs : q # o => Parted(tx'[q], tx'[o])
    <2> SUFFICES ASSUME NEW q \in Procs, NEW o \in Procs, q # o PROVE Parted(tx'[q], tx'[o])
        OBVIOUS
    <2>1. CASE q = p
        BY <1>1, <2>1
    <2>2. CASE o = p
        BY <1>1, <2>2, PartedBoth
    <2>3. CASE q # p /\ o # p
        BY <1>1, <2>3 DEF CountInv
    <2> QED BY <2>1, <2>2, <2>3
<1>3. CommittedTypes(numbered, counters, trigger, forgotten, lost)'
    BY DEF CountInv, CommittedTypes
<1>4. \A t \in Numbered : View(Numbers!Idle, t, numbered', counters', trigger', forgotten', wide' \cup lost')
    BY DEF CountInv
<1>5. \A q \in Procs : Doing(tx'[q]) /\ Holding(tx'[q], numbered', counters', trigger')
    BY <1>1 DEF CountInv
<1>6. \A q \in Procs, t \in Numbered : View(tx'[q], t, numbered', counters', trigger', forgotten', wide' \cup lost')
    BY <1>1 DEF CountInv
<1>7. (\A t \in Numbered : View(Numbers!Idle, t, numbered, counters, trigger, forgotten, wide \cup lost))'
    BY <1>4 DEF View, Numbers!Idle, Numbers!Empty
<1> QED BY <1>2, <1>3, <1>5, <1>6, <1>7 DEF CountInv

\* What matters of a transaction for what it sees and holds.
LEMMA SameParts ==
    ASSUME NEW s, NEW after, after.new = s.new, after.count = s.count, after.config = s.config, after.cut = s.cut,
           s.shared \subseteq after.shared, s.alone \subseteq after.alone
    PROVE  /\ \A R, C, T : Holding(s, R, C, T) => Holding(after, R, C, T)
           /\ \A t, R, C, T, F, W : View(s, t, R, C, T, F, W) => View(after, t, R, C, T, F, W)
<1>1. \A T, t : PrefixIn(after, T, t) = PrefixIn(s, T, t)
    BY DEF PrefixIn
<1>2. ASSUME NEW R, NEW C, NEW T, Holding(s, R, C, T) PROVE Holding(after, R, C, T)
    BY <1>1, <1>2 DEF Holding
<1>3. ASSUME NEW t, NEW R, NEW C, NEW T, NEW F, NEW W, View(s, t, R, C, T, F, W)
      PROVE  View(after, t, R, C, T, F, W)
    BY <1>1, <1>3 DEF View
<1> QED BY <1>2, <1>3

\* A transaction that begins has seen and holds nothing.
LEMMA BeginKeepsCounts ==
    ASSUME NumbersInv, CountInv, NEW p \in Procs, NEW kind, NEW todo \in Seq(NumberSteps), Numbers!Begin(p, kind, todo)
    PROVE  CountInv'
<1> DEFINE after == [tx[p] EXCEPT !.kind = kind, !.todo = todo]
<1>1. tx[p] = Numbers!Idle /\ DOMAIN tx = Procs
    BY DEF NumbersInv, TxShape, TxForm, Numbers!Begin, Numbers!Ready
<1>2. tx' = [tx EXCEPT ![p] = after] /\ UNCHANGED <<numbered, counters, trigger, forgotten, lost, wide>>
    BY <1>1 DEF Numbers!Begin, Numbers!Committed
<1>3. /\ after.todo = todo /\ after.stage = 1
      /\ after.shared = tx[p].shared /\ after.alone = tx[p].alone /\ after.new = tx[p].new
      /\ after.count = tx[p].count /\ after.config = tx[p].config /\ after.cut = tx[p].cut
    BY <1>1 DEF Numbers!Idle
<1> HIDE DEF after
<1>4. Doing(after)
    BY <1>3 DEF Doing
<1>5. Holding(after, numbered, counters, trigger)
    BY <1>3, SameParts DEF CountInv
<1>6. \A q \in Procs : q # p => Parted(after, tx[q])
    BY <1>3 DEF CountInv, Parted
<1>7. \A t \in Numbered : View(after, t, numbered, counters, trigger, forgotten, wide \cup lost)
    BY <1>3, SameParts DEF CountInv
<1> QED BY <1>2, <1>4, <1>5, <1>6, <1>7, TxViewsReplaced

\* The steps of saves, scripts, column changes and publishes.
LEMMA BeginsKeepCounts ==
    ASSUME NumbersInv, CountInv, NEW p \in Procs,
           Numbers!Save(p) \/ Numbers!Script(p) \/ Numbers!ChangeColumn(p) \/ Numbers!Publish(p)
    PROVE  CountInv'
<1>1. Numbers!Writes \subseteq NumberSteps
    <2> SUFFICES ASSUME NEW r \in Records, NEW value \in {Same, Null} \cup (Prefixes \X Typed)
                 PROVE  Numbers!WriteOf(r, value) \in NumberSteps
        BY DEF Numbers!Writes
    <2>1. value \in {Same, Null} \cup (Prefixes \X Nat)
        BY NumberConstants
    <2> QED BY <2>1 DEF Numbers!WriteOf, NumberSteps
<1>2. \A t \in Numbered, prefix \in Prefixes \cup {Null} : Numbers!Change(t, prefix) \in NumberSteps
    BY DEF Numbers!Change, NumberSteps
<1> HIDE DEF NumberSteps
<1>3. CASE Numbers!Save(p)
    <2>1. PICK w \in Numbers!Writes : Numbers!Begin(p, "save", <<w>>)
        BY <1>3 DEF Numbers!Save
    <2>2. <<w>> \in Seq(NumberSteps)
        BY <1>1
    <2> QED BY <2>1, <2>2, BeginKeepsCounts
<1>4. CASE Numbers!Script(p)
    <2>1. PICK v \in Numbers!Writes, w \in Numbers!Writes : Numbers!Begin(p, "script", <<v, w>>)
        BY <1>4 DEF Numbers!Script
    <2>2. <<v, w>> \in Seq(NumberSteps)
        BY <1>1
    <2> QED BY <2>1, <2>2, BeginKeepsCounts
<1>5. CASE Numbers!ChangeColumn(p)
    <2>1. PICK t \in Numbered, prefix \in Prefixes \cup {Null} : Numbers!Begin(p, "column", <<Numbers!Change(t, prefix)>>)
        BY <1>5 DEF Numbers!ChangeColumn
    <2>2. <<Numbers!Change(t, prefix)>> \in Seq(NumberSteps)
        BY <1>2
    <2> QED BY <2>1, <2>2, BeginKeepsCounts
<1>6. CASE Numbers!Publish(p)
    <2>0. PICK mine \in SUBSET Numbered :
            \E order \in Numbers!Bijection(1 .. Numbers!Cardinality(mine), mine), to \in [mine -> Prefixes] :
                Numbers!Begin(p, "publish", [i \in DOMAIN order |-> Numbers!Change(order[i], to[order[i]])])
        BY <1>6 DEF Numbers!Publish
    <2>1. PICK order \in Numbers!Bijection(1 .. Numbers!Cardinality(mine), mine), to \in [mine -> Prefixes] :
            Numbers!Begin(p, "publish", [i \in DOMAIN order |-> Numbers!Change(order[i], to[order[i]])])
        BY <2>0
    <2>2. Numbers!Cardinality(mine) \in Nat
        BY NumberConstants, SameSize, FS_Subset, FS_CardinalityType
    <2>3. order \in [1 .. Numbers!Cardinality(mine) -> mine]
        BY <2>1 DEF Numbers!Bijection, Numbers!Injection
    <2> DEFINE todo == [i \in DOMAIN order |-> Numbers!Change(order[i], to[order[i]])]
               n == Numbers!Cardinality(mine)
    <2> HIDE DEF n
    <2>4. \A i \in 1 .. n : todo[i] \in NumberSteps /\ DOMAIN todo = 1 .. n
        BY <1>2, <2>3 DEF n
    <2>5. todo = [i \in 1 .. n |-> todo[i]]
        BY <2>3 DEF n
    <2>6. todo \in [1 .. n -> NumberSteps]
        BY <2>4, <2>5
    <2>7. todo \in Seq(NumberSteps)
        <3> HIDE DEF todo
        <3> QED BY <2>2, <2>6 DEF n
    <2> QED BY <2>1, <2>7, BeginKeepsCounts
<1> QED BY <1>3, <1>4, <1>5, <1>6

\* What a transaction becomes when it goes on.
LEMMA AdvancedParts ==
    ASSUME NumbersInv, NEW p \in Procs, Doing(tx[p]), NEW stage \in {"table", "counter"}, Numbers!At(p, stage)
    PROVE  LET a == Numbers!Advanced(p) IN
           /\ DOMAIN a = TxFields
           /\ a.shared = tx[p].shared /\ a.alone = tx[p].alone /\ a.new = tx[p].new
           /\ a.count = tx[p].count /\ a.config = tx[p].config /\ a.cut = tx[p].cut
           /\ stage = "table" => tx[p].stage = 1 /\ a.stage = 2 /\ a.todo = tx[p].todo
           /\ stage = "counter" => tx[p].stage = 2 /\ a.stage = 1 /\ a.todo = Tail(tx[p].todo)
<1>1. tx[p].stage = IF stage = "table" THEN 1 ELSE 2
    BY DEF Doing, Numbers!At, Numbers!StageOf, Numbers!Stages
<1> QED BY <1>1 DEF Numbers!Advanced, NumbersInv, TxShape, TxFields

\* A statement that takes its table takes it from nobody.
LEMMA TakeTableKeepsCounts ==
    ASSUME NumbersInv, CountInv, NEW p \in Procs, Numbers!TakeTable(p)
    PROVE  CountInv'
<1> DEFINE a == Numbers!Advanced(p)
           u1 == [a EXCEPT !.alone = @ \cup {Numbers!On(p)}]
           u2 == [a EXCEPT !.shared = @ \cup {Numbers!On(p)}]
<1>0. Doing(tx[p]) /\ Numbers!At(p, "table")
    BY DEF CountInv, Numbers!TakeTable
<1>1. /\ DOMAIN a = TxFields
      /\ a.shared = tx[p].shared /\ a.alone = tx[p].alone /\ a.new = tx[p].new
      /\ a.count = tx[p].count /\ a.config = tx[p].config /\ a.cut = tx[p].cut
      /\ tx[p].stage = 1 /\ a.stage = 2 /\ a.todo = tx[p].todo
    BY <1>0, AdvancedParts
<1>2. /\ tx' = [tx EXCEPT ![p] = IF Numbers!Op(p).what = "schema" THEN u1 ELSE u2]
      /\ UNCHANGED <<numbered, counters, trigger, forgotten, lost, wide>>
    BY DEF Numbers!TakeTable, Numbers!Committed
<1>3. tx[p].todo # <<>> /\ \A q \in Procs : ~Numbers!Blocks(q, p)
    BY <1>0 DEF Numbers!At, Numbers!Free
<1>4. Numbers!StageOf(p) = "table"
    BY <1>0 DEF Numbers!At
<1>5. \A q \in Procs : q # p => Numbers!On(p) \notin tx[q].alone
                                /\ (Numbers!Op(p).what = "schema" => Numbers!On(p) \notin tx[q].shared)
    BY <1>3, <1>4 DEF Numbers!Blocks
<1>6. PICK after : /\ tx' = [tx EXCEPT ![p] = after] /\ after.new = tx[p].new /\ after.count = tx[p].count
                   /\ after.config = tx[p].config /\ after.cut = tx[p].cut
                   /\ after.todo = tx[p].todo /\ after.stage = 2
                   /\ IF Numbers!Op(p).what = "schema"
                      THEN after.alone = tx[p].alone \cup {Numbers!On(p)} /\ after.shared = tx[p].shared
                      ELSE after.alone = tx[p].alone /\ after.shared = tx[p].shared \cup {Numbers!On(p)}
    <2> HIDE DEF a
    <2>1. CASE Numbers!Op(p).what = "schema"
        <3>1. /\ u1.new = a.new /\ u1.count = a.count /\ u1.config = a.config /\ u1.cut = a.cut
              /\ u1.todo = a.todo /\ u1.stage = a.stage
              /\ u1.alone = a.alone \cup {Numbers!On(p)} /\ u1.shared = a.shared
            BY <1>1 DEF TxFields
        <3> HIDE DEF u1, u2
        <3> QED BY <1>1, <1>2, <2>1, <3>1
    <2>2. CASE Numbers!Op(p).what # "schema"
        <3>1. /\ u2.new = a.new /\ u2.count = a.count /\ u2.config = a.config /\ u2.cut = a.cut
              /\ u2.todo = a.todo /\ u2.stage = a.stage
              /\ u2.alone = a.alone /\ u2.shared = a.shared \cup {Numbers!On(p)}
            BY <1>1 DEF TxFields
        <3> HIDE DEF u1, u2
        <3> QED BY <1>1, <1>2, <2>2, <3>1
    <2> QED BY <2>1, <2>2
<1>7. TableIn(Head(after.todo)) = Numbers!On(p) /\ Numbers!Op(p) = Head(after.todo)
    BY <1>6 DEF TableIn, Numbers!On, Numbers!Op
<1>8. Doing(after)
    BY <1>0, <1>6, <1>7 DEF Doing
<1>9. tx[p].shared \subseteq after.shared /\ tx[p].alone \subseteq after.alone
    BY <1>6
<1>10. Holding(after, numbered, counters, trigger)
    BY <1>6, <1>9, SameParts DEF CountInv
<1>11. \A q \in Procs : q # p => Parted(after, tx[q])
    BY <1>5, <1>6 DEF CountInv, Parted
<1>12. \A t \in Numbered : View(after, t, numbered, counters, trigger, forgotten, wide \cup lost)
    BY <1>6, <1>9, SameParts DEF CountInv
<1> QED BY <1>2, <1>6, <1>8, <1>10, <1>11, <1>12, TxViewsReplaced

\* A transaction that ends without a commit leaves what there was.
LEMMA FailKeepsCounts ==
    ASSUME NumbersInv, CountInv, NEW p \in Procs, Numbers!Fail(p)
    PROVE  CountInv'
<1>1. tx' = [tx EXCEPT ![p] = Numbers!Idle] /\ UNCHANGED <<numbered, counters, trigger, forgotten, lost, wide>>
    BY DEF Numbers!Fail, Numbers!Committed
<1> QED BY <1>1, IdleHolds, TxViewsReplaced DEF CountInv

\* A transaction that commits: what it has seen is what there is.
LEMMA CommitKeepsCounts ==
    ASSUME NumbersInv, CountInv, NEW p \in Procs, Numbers!Commit(p)
    PROVE  CountInv'
<1> DEFINE s == tx[p]
           R == numbered
           C == counters
           T == trigger
           R2 == Numbers!Over(s.new, R)
           C2 == Numbers!Over(s.count, C)
           T2 == Numbers!Over(s.config, T)
<1>1. /\ numbered' = R2 /\ counters' = C2 /\ trigger' = T2 /\ wide' = wide \cup s.cut
      /\ forgotten' = forgotten \ DOMAIN s.config /\ lost' = lost
      /\ tx' = [tx EXCEPT ![p] = Numbers!Idle]
    BY DEF Numbers!Commit, Numbers!Seen, Numbers!Counted
<1>2. \A q \in Procs : tx'[q] = IF q = p THEN Numbers!Idle ELSE tx[q]
    BY <1>1 DEF NumbersInv, TxShape
<1>3. /\ DOMAIN R \subseteq Records /\ T \in [Numbered -> Prefixes \cup {Null}]
      /\ \A k \in DOMAIN C : C[k] \in Nat
      /\ forgotten \subseteq lost
    BY DEF CountInv, CommittedTypes
<1>4. /\ \A q \in Procs : Doing(tx[q]) /\ Holding(tx[q], R, C, T)
      /\ \A q \in Procs : q # p => Parted(s, tx[q])
      /\ \A q \in Procs, t \in Numbered : View(tx[q], t, R, C, T, forgotten, wide \cup lost)
      /\ \A t \in Numbered : View(Numbers!Idle, t, R, C, T, forgotten, wide \cup lost)
    BY DEF CountInv
<1>5. CommittedTypes(numbered, counters, trigger, forgotten, lost)'
    <2>1. DOMAIN R2 \subseteq Records
        BY <1>3, <1>4 DEF Holding, Numbers!Over
    <2>2. T2 \in [Numbered -> Prefixes \cup {Null}]
        <3>1. DOMAIN s.config \subseteq Numbered /\ \A t \in DOMAIN s.config : s.config[t] \in Prefixes \cup {Null}
            BY <1>4 DEF Holding
        <3> HIDE DEF s, T
        <3>2. DOMAIN s.config \cup DOMAIN T = Numbered
            BY <3>1, <1>3
        <3> QED BY <3>1, <3>2, <1>3 DEF Numbers!Over
    <2>3. \A k \in DOMAIN C2 : C2[k] \in Nat
        BY <1>3, <1>4, CountsAreNumbers
    <2> QED BY <1>1, <1>3, <2>1, <2>2, <2>3 DEF CommittedTypes
<1>6. ASSUME NEW u, Holding(u, R, C, T), Parted(s, u), NEW t \in Numbered, View(u, t, R, C, T, forgotten, wide \cup lost)
      PROVE  View(u, t, numbered', counters', trigger', forgotten', wide' \cup lost')
    <2>1. View(u, t, R2, C2, T2, forgotten \ DOMAIN s.config, (wide \cup lost) \cup s.cut)
        BY <1>3, <1>4, <1>6, OtherView
    <2>2. (wide \cup lost) \cup s.cut = wide' \cup lost'
        BY <1>1
    <2> QED BY <1>1, <2>1, <2>2
<1>7. ASSUME NEW u, Holding(u, R, C, T), Parted(s, u)
      PROVE  Holding(u, numbered', counters', trigger')
    <2>1. Holding(u, R2, C2, T2)
        BY <1>3, <1>4, <1>7, OtherHolds
    <2> QED BY <1>1, <2>1
<1> HIDE DEF s, R, C, T, R2, C2, T2
<1>8. \A t \in Numbered : View(Numbers!Idle, t, numbered', counters', trigger', forgotten', wide' \cup lost')
    BY <1>4, <1>6, IdleHolds
<1>9. \A q \in Procs : Doing(tx'[q]) /\ Holding(tx'[q], numbered', counters', trigger')
    <2> SUFFICES ASSUME NEW q \in Procs PROVE Doing(tx'[q]) /\ Holding(tx'[q], numbered', counters', trigger')
        OBVIOUS
    <2>1. CASE q = p
        BY <2>1, <1>2, IdleHolds
    <2>2. CASE q # p
        BY <2>2, <1>2, <1>4, <1>7
    <2> QED BY <2>1, <2>2
<1>10. \A q, o \in Procs : q # o => Parted(tx'[q], tx'[o])
    BY <1>2, IdleHolds DEF CountInv
<1>11. \A q \in Procs, t \in Numbered : View(tx'[q], t, numbered', counters', trigger', forgotten', wide' \cup lost')
    <2> SUFFICES ASSUME NEW q \in Procs, NEW t \in Numbered
                 PROVE  View(tx'[q], t, numbered', counters', trigger', forgotten', wide' \cup lost')
        OBVIOUS
    <2>1. CASE q = p
        BY <2>1, <1>2, <1>8
    <2>2. CASE q # p
        BY <2>2, <1>2, <1>4, <1>6
    <2> QED BY <2>1, <2>2
<1>12. (\A t \in Numbered : View(Numbers!Idle, t, numbered, counters, trigger, forgotten, wide \cup lost))'
    BY <1>8 DEF View, Numbers!Idle, Numbers!Empty
<1> QED BY <1>5, <1>9, <1>10, <1>11, <1>12 DEF CountInv

\* A counter that is deleted with another app.
LEMMA ForgetKeepsCounts ==
    ASSUME NumbersInv, CountInv, NEW scopes, Numbers!Forget(scopes)
    PROVE  CountInv'
<1> DEFINE gone == {k \in DOMAIN counters : k[1] \in scopes}
           more == {t \in Numbered : Numbers!Key(t, trigger[t]) \in gone}
           C2 == [k \in DOMAIN counters \ gone |-> counters[k]]
<1>1. /\ counters' = C2 /\ forgotten' = forgotten \cup more /\ lost' = lost \cup more
      /\ UNCHANGED <<trigger, numbered, tx, wide>>
      /\ \A p \in Procs : DOMAIN tx[p].count \cap gone = {}
    BY DEF Numbers!Forget
<1>2. \A t \in Numbered : Numbers!Key(t, trigger[t]) \in gone => t \in more
    OBVIOUS
<1>3. CommittedTypes(numbered, counters, trigger, forgotten, lost)'
    BY <1>1 DEF CountInv, CommittedTypes
<1>4. trigger \in [Numbered -> Prefixes \cup {Null}]
    BY DEF CountInv, CommittedTypes
<1>5. (wide \cup lost) \cup more = wide' \cup lost'
    BY <1>1
<1> HIDE DEF gone, more
<1>6. ASSUME NEW u, Holding(u, numbered, counters, trigger), DOMAIN u.count \cap gone = {}
      PROVE  /\ Holding(u, numbered', counters', trigger')
             /\ \A t \in Numbered : View(u, t, numbered, counters, trigger, forgotten, wide \cup lost)
                    => View(u, t, numbered', counters', trigger', forgotten', wide' \cup lost')
    <2> HIDE DEF C2
    <2>1. /\ Holding(u, numbered, C2, trigger)
          /\ \A t \in Numbered : View(u, t, numbered, counters, trigger, forgotten, wide \cup lost)
                => View(u, t, numbered, C2, trigger, forgotten \cup more, (wide \cup lost) \cup more)
        BY <1>2, <1>4, <1>6, ForgottenCounter DEF C2
    <2> QED BY <1>1, <1>5, <2>1
<1>7. \A t \in Numbered : View(Numbers!Idle, t, numbered', counters', trigger', forgotten', wide' \cup lost')
    <2>1. DOMAIN Numbers!Idle.count \cap gone = {}
        BY DEF Numbers!Idle, Numbers!Empty
    <2> QED BY <1>6, <2>1, IdleHolds DEF CountInv
<1>8. \A q \in Procs : Doing(tx'[q]) /\ Holding(tx'[q], numbered', counters', trigger')
    BY <1>1, <1>6 DEF CountInv
<1>9. \A q, o \in Procs : q # o => Parted(tx'[q], tx'[o])
    BY <1>1 DEF CountInv
<1>10. \A q \in Procs, t \in Numbered : View(tx'[q], t, numbered', counters', trigger', forgotten', wide' \cup lost')
    BY <1>1, <1>6 DEF CountInv
<1>11. (\A t \in Numbered : View(Numbers!Idle, t, numbered, counters, trigger, forgotten, wide \cup lost))'
    BY <1>7 DEF View, Numbers!Idle, Numbers!Empty
<1> QED BY <1>3, <1>8, <1>9, <1>10, <1>11 DEF CountInv

-----------------------------------------------------------------------------
(* The trigger and the renumbering at their counter.                        *)

\* The counters a transaction sees are not behind those committed.
LEMMA AheadOfCommitted ==
    ASSUME NEW s, NEW R, NEW C, NEW T, Holding(s, R, C, T), \A k \in DOMAIN C : C[k] \in Nat, NEW t, NEW prefix
    PROVE  NextIn(C, t, prefix) <= NextIn(Numbers!Over(s.count, C), t, prefix)
<1> DEFINE key == Numbers!Key(t, prefix)
<1>0. NextIn(C, t, prefix) \in Nat
    BY NextIsNumber
<1>1. CASE key \in DOMAIN s.count
    <2>1. NextIn(Numbers!Over(s.count, C), t, prefix) = s.count[key]
        BY <1>1 DEF NextIn, Numbers!NextNumber, Numbers!Over
    <2> QED BY <1>1, <2>1 DEF Holding, NextIn
<1>2. CASE key \notin DOMAIN s.count
    <2>1. NextIn(Numbers!Over(s.count, C), t, prefix) = NextIn(C, t, prefix)
        BY <1>2 DEF NextIn, Numbers!NextNumber, Numbers!Over
    <2> QED BY <1>0, <2>1
<1> QED BY <1>1, <1>2

\* A counter drawn from, at least where it was, keeps the counters a transaction
\* holds ahead of those committed.
LEMMA LiftedHolds ==
    ASSUME NEW s, NEW after, NEW R, NEW C, NEW T, Holding(s, R, C, T), \A k \in DOMAIN C : C[k] \in Nat,
           NEW t, NEW prefix,
           \/ after.count = s.count
           \/ \E m \in Nat : /\ NextIn(Numbers!Over(s.count, C), t, prefix) <= m
                             /\ after.count = Numbers!Put(s.count, Numbers!Key(t, prefix), m)
    PROVE  /\ DOMAIN s.count \subseteq DOMAIN after.count
           /\ \A k \in DOMAIN after.count : after.count[k] \in Nat /\ Numbers!NextNumber(C, k) <= after.count[k]
<1>1. \A k \in DOMAIN s.count : s.count[k] \in Nat /\ Numbers!NextNumber(C, k) <= s.count[k]
    BY DEF Holding
<1>2. CASE after.count = s.count
    BY <1>1, <1>2
<1>3. CASE after.count # s.count
    <2> DEFINE key == Numbers!Key(t, prefix)
    <2>1. PICK m \in Nat : /\ NextIn(Numbers!Over(s.count, C), t, prefix) <= m
                           /\ after.count = Numbers!Put(s.count, key, m)
        BY <1>3
    <2>2. Numbers!NextNumber(C, key) <= m
        <3>1. NextIn(C, t, prefix) <= NextIn(Numbers!Over(s.count, C), t, prefix)
            BY AheadOfCommitted
        <3>2. NextIn(C, t, prefix) \in Nat
            BY NextIsNumber
        <3>3. NextIn(Numbers!Over(s.count, C), t, prefix) \in Nat
            BY CountsAreNumbers, NextIsNumber
        <3>4. NextIn(C, t, prefix) <= m
            BY <2>1, <3>1, <3>2, <3>3
        <3> QED BY <3>4 DEF NextIn
    <2> HIDE DEF key
    <2>3. /\ DOMAIN after.count = DOMAIN s.count \cup {key} /\ after.count[key] = m
          /\ \A k \in DOMAIN s.count : k # key => after.count[k] = s.count[k]
        BY <2>1 DEF Numbers!Put
    <2> QED BY <1>1, <2>2, <2>3
<1> QED BY <1>2, <1>3

\* A transaction that writes a record holds the counter of its number.
LEMMA WrittenHolds ==
    ASSUME NEW s, NEW after, NEW R, NEW C, NEW T, Holding(s, R, C, T), \A k \in DOMAIN C : C[k] \in Nat,
           NEW r \in Records, HomeTable[r] \in s.shared, NEW number, NEW by,
           after.new = Numbers!Put(s.new, r, [number |-> number, by |-> by]),
           after.config = s.config, after.shared = s.shared, after.alone = s.alone,
           LET t == HomeTable[r]  prefix == PrefixIn(s, T, t) IN
           \/ number = Null /\ after.count = s.count
           \/ \E m \in Nat : /\ NextIn(Numbers!Over(s.count, C), t, prefix) <= m
                             /\ after.count = Numbers!Put(s.count, Numbers!Key(t, prefix), m)
    PROVE  Holding(after, R, C, T)
<1> DEFINE t == HomeTable[r]
           prefix == PrefixIn(s, T, t)
           v == [number |-> number, by |-> by]
<1>1. /\ DOMAIN after.new = DOMAIN s.new \cup {r} /\ after.new[r].number = number
      /\ \A z \in DOMAIN s.new : z # r => after.new[z] = s.new[z]
    <2>1. after.new = Numbers!Put(s.new, r, v) /\ v.number = number
        OBVIOUS
    <2> HIDE DEF v
    <2> QED BY <2>1 DEF Numbers!Put
<1>2. /\ DOMAIN s.count \subseteq DOMAIN after.count
      /\ \A k \in DOMAIN after.count : after.count[k] \in Nat /\ Numbers!NextNumber(C, k) <= after.count[k]
    <2>1. \/ after.count = s.count
          \/ \E m \in Nat : /\ NextIn(Numbers!Over(s.count, C), t, prefix) <= m
                            /\ after.count = Numbers!Put(s.count, Numbers!Key(t, prefix), m)
        OBVIOUS
    <2> HIDE DEF t, prefix
    <2> QED BY <2>1, LiftedHolds
<1>3. \A u : PrefixIn(after, T, u) = PrefixIn(s, T, u)
    BY DEF PrefixIn
<1>4. number # Null => Numbers!Key(t, prefix) \in DOMAIN after.count
    <2> SUFFICES ASSUME number # Null PROVE Numbers!Key(t, prefix) \in DOMAIN after.count
        OBVIOUS
    <2>1. \E m \in Nat : after.count = Numbers!Put(s.count, Numbers!Key(t, prefix), m)
        OBVIOUS
    <2> HIDE DEF t, prefix
    <2> QED BY <2>1 DEF Numbers!Put
<1>5. \A z \in DOMAIN after.new : after.new[z].number # Null =>
          Numbers!Key(HomeTable[z], PrefixIn(after, T, HomeTable[z])) \in DOMAIN after.count
    <2> SUFFICES ASSUME NEW z \in DOMAIN after.new, after.new[z].number # Null
                 PROVE  Numbers!Key(HomeTable[z], PrefixIn(s, T, HomeTable[z])) \in DOMAIN after.count
        BY <1>3
    <2>1. CASE z = r
        BY <2>1, <1>1, <1>4
    <2>2. CASE z # r
        <3>1. z \in DOMAIN s.new /\ s.new[z].number # Null
            BY <1>1, <2>2
        <3> QED BY <3>1, <1>2 DEF Holding
    <2> QED BY <2>1, <2>2
<1>6. \A z \in DOMAIN after.new : HomeTable[z] \in after.shared \cup after.alone
    BY <1>1 DEF Holding
<1> HIDE DEF t, prefix
<1> QED BY <1>1, <1>2, <1>5, <1>6 DEF Holding

\* A transaction that renumbers a table has written all of it and holds the
\* counter of its numbers.
LEMMA ChangedHolds ==
    ASSUME NEW s, NEW after, NEW R, NEW C, NEW T, Holding(s, R, C, T), \A k \in DOMAIN C : C[k] \in Nat,
           DOMAIN R \subseteq Records, NEW t \in Numbered, t \in s.alone, NEW prefix \in Prefixes \cup {Null}, NEW B,
           DOMAIN B = Numbers!RowsOf(t, Numbers!Over(s.new, R)),
           after.new = Numbers!Over(B, s.new), after.config = Numbers!Put(s.config, t, prefix),
           after.shared = s.shared, after.alone = s.alone,
           \/ (\A r \in DOMAIN B : B[r].number = Null) /\ after.count = s.count
           \/ \E m \in Nat : /\ NextIn(Numbers!Over(s.count, C), t, prefix) <= m
                             /\ after.count = Numbers!Put(s.count, Numbers!Key(t, prefix), m)
    PROVE  Holding(after, R, C, T)
<1>1. /\ DOMAIN after.new = DOMAIN B \cup DOMAIN s.new
      /\ \A r \in DOMAIN B : after.new[r] = B[r]
      /\ \A r \in DOMAIN s.new : r \notin DOMAIN B => after.new[r] = s.new[r]
    BY DEF Numbers!Over
<1>2. /\ DOMAIN B \subseteq Records
      /\ \A r \in DOMAIN B : HomeTable[r] = t
      /\ \A r \in DOMAIN s.new \cup DOMAIN R : HomeTable[r] = t => r \in DOMAIN B
    BY DEF Numbers!RowsOf, Numbers!Over, Holding
<1>3. /\ DOMAIN s.count \subseteq DOMAIN after.count
      /\ \A k \in DOMAIN after.count : after.count[k] \in Nat /\ Numbers!NextNumber(C, k) <= after.count[k]
    BY LiftedHolds
<1>4. /\ DOMAIN after.config = DOMAIN s.config \cup {t} /\ after.config[t] = prefix
      /\ \A u \in DOMAIN s.config : u # t => after.config[u] = s.config[u]
    BY DEF Numbers!Put
<1>5. PrefixIn(after, T, t) = prefix /\ \A u : u # t => PrefixIn(after, T, u) = PrefixIn(s, T, u)
    BY <1>4 DEF PrefixIn
<1>6. \A r \in DOMAIN after.new : after.new[r].number # Null =>
          Numbers!Key(HomeTable[r], PrefixIn(after, T, HomeTable[r])) \in DOMAIN after.count
    <2> SUFFICES ASSUME NEW r \in DOMAIN after.new, after.new[r].number # Null
                 PROVE  Numbers!Key(HomeTable[r], PrefixIn(after, T, HomeTable[r])) \in DOMAIN after.count
        OBVIOUS
    <2>1. CASE r \in DOMAIN B
        <3>1. \E m \in Nat : after.count = Numbers!Put(s.count, Numbers!Key(t, prefix), m)
            BY <1>1, <2>1
        <3>2. Numbers!Key(t, prefix) \in DOMAIN after.count
            BY <3>1 DEF Numbers!Put
        <3> QED BY <1>2, <1>5, <2>1, <3>2
    <2>2. CASE r \notin DOMAIN B
        <3>1. r \in DOMAIN s.new /\ s.new[r].number # Null /\ HomeTable[r] # t
            BY <1>1, <1>2, <2>2
        <3> QED BY <3>1, <1>3, <1>5 DEF Holding
    <2> QED BY <2>1, <2>2
<1>7. \A u \in DOMAIN after.config, r \in DOMAIN R : HomeTable[r] = u => r \in DOMAIN after.new
    BY <1>1, <1>2, <1>4 DEF Holding
<1>8. \A r \in DOMAIN after.new : HomeTable[r] \in after.shared \cup after.alone
    BY <1>1, <1>2 DEF Holding
<1>9. DOMAIN after.config \subseteq after.alone \cap Numbered /\ \A u \in DOMAIN after.config : after.config[u] \in Prefixes \cup {Null}
    BY <1>4 DEF Holding
<1>10. DOMAIN after.new \subseteq Records
    BY <1>1, <1>2 DEF Holding
<1> QED BY <1>3, <1>6, <1>7, <1>8, <1>9, <1>10 DEF Holding

\* A step at its counter: the transaction has its table, and nobody else the counter.
LEMMA AtCounter ==
    ASSUME NumbersInv, CountInv, NEW p \in Procs, Numbers!At(p, "counter")
    PROVE  /\ tx[p].todo # <<>> /\ Numbers!Op(p) = Head(tx[p].todo) /\ Numbers!Op(p) \in NumberSteps
           /\ Numbers!On(p) = TableIn(Numbers!Op(p))
           /\ Numbers!On(p) \in IF Numbers!Op(p).what = "schema" THEN tx[p].alone ELSE tx[p].shared
           /\ Numbers!Numbers(p) => \A q \in Procs : q # p => Numbers!KeyOf(p) \notin DOMAIN tx[q].count
           /\ Tail(tx[p].todo) \in Seq(NumberSteps)
<1>1. /\ tx[p].todo # <<>> /\ tx[p].todo \in Seq(NumberSteps) /\ tx[p].stage = 2 /\ Numbers!StageOf(p) = "counter"
      /\ \A q \in Procs : ~Numbers!Blocks(q, p)
    BY DEF Numbers!At, Numbers!Free, CountInv, Doing, Numbers!StageOf, Numbers!Stages
<1>2. Numbers!Op(p) = Head(tx[p].todo) /\ Numbers!On(p) = TableIn(Numbers!Op(p))
    BY DEF Numbers!Op, Numbers!On, TableIn
<1>3. Numbers!On(p) \in IF Numbers!Op(p).what = "schema" THEN tx[p].alone ELSE tx[p].shared
    BY <1>1, <1>2 DEF CountInv, Doing
<1>4. Numbers!Numbers(p) => \A q \in Procs : q # p => Numbers!KeyOf(p) \notin DOMAIN tx[q].count
    BY <1>1 DEF Numbers!Blocks
<1>5. Numbers!Op(p) \in NumberSteps /\ Tail(tx[p].todo) \in Seq(NumberSteps)
    <2> HIDE DEF NumberSteps
    <2> QED BY <1>1, <1>2
<1> QED BY <1>1, <1>2, <1>3, <1>4, <1>5

\* After a step at its counter a transaction goes on, apart from all others.
LEMMA AfterCounter ==
    ASSUME NumbersInv, CountInv, NEW p \in Procs, Numbers!At(p, "counter"), NEW after,
           after.todo = Tail(tx[p].todo), after.stage = 1, after.shared = tx[p].shared, after.alone = tx[p].alone,
           \/ after.count = tx[p].count
           \/ Numbers!Numbers(p) /\ \E m : after.count = Numbers!Put(tx[p].count, Numbers!KeyOf(p), m)
    PROVE  /\ Doing(after)
           /\ \A q \in Procs : q # p => Parted(after, tx[q])
<1>1. Doing(after)
    BY AtCounter DEF Doing
<1>2. ASSUME NEW q \in Procs, q # p PROVE Parted(after, tx[q])
    <2>1. Parted(tx[p], tx[q])
        BY <1>2 DEF CountInv
    <2>2. CASE after.count = tx[p].count
        BY <2>1, <2>2 DEF Parted
    <2>3. CASE after.count # tx[p].count
        <3>1. Numbers!KeyOf(p) \notin DOMAIN tx[q].count
            BY <1>2, <2>3, AtCounter
        <3>2. DOMAIN after.count = DOMAIN tx[p].count \cup {Numbers!KeyOf(p)}
            BY <2>3 DEF Numbers!Put
        <3> QED BY <2>1, <3>1, <3>2 DEF Parted
    <2> QED BY <2>2, <2>3
<1> QED BY <1>1, <1>2

\* What the trigger gives: nothing without a prefix; else the next number to a
\* record without one, or a number of its own, under the prefix, over which the
\* counter is lifted.
LEMMA WriteGives ==
    ASSUME CountInv, NEW p \in Procs, Numbers!Write(p), Numbers!Op(p) \in NumberSteps
    PROVE  LET s == tx[p]  r == Numbers!Op(p).on  t == HomeTable[r]  prefix == PrefixIn(s, trigger, t)
               next == NextIn(Numbers!Over(s.count, counters), t, prefix) IN
           \E number, count, cut : \E m \in Nat :
              /\ Numbers!Wrote(p, r, number, count, cut)
              /\ \/ prefix = Null /\ number = Null /\ count = s.count
                 \/ /\ prefix # Null /\ next <= m /\ count = Numbers!Put(s.count, Numbers!Key(t, prefix), m)
                    /\ \E n \in Nat : number = <<prefix, n>> /\ n < m
              /\ \/ number = Null
                 \/ t \notin cut => number = <<prefix, next>>
                 \/ Numbers!Author(p, r, number) = "user"
                 \/ /\ r \in DOMAIN Numbers!Seen(p) /\ Numbers!Seen(p)[r].number = number
                    /\ Numbers!Author(p, r, number) = Numbers!Seen(p)[r].by
<1> DEFINE s == tx[p]
           r == Numbers!Op(p).on
           t == HomeTable[r]
           prefix == PrefixIn(s, trigger, t)
           D == Numbers!Over(s.count, counters)
           key == Numbers!Key(t, prefix)
           next == NextIn(D, t, prefix)
           posted == Numbers!Posted(p, r)
           Goal == \E number, count, cut : \E m \in Nat :
                     /\ Numbers!Wrote(p, r, number, count, cut)
                     /\ \/ prefix = Null /\ number = Null /\ count = s.count
                        \/ /\ prefix # Null /\ next <= m /\ count = Numbers!Put(s.count, key, m)
                           /\ \E n \in Nat : number = <<prefix, n>> /\ n < m
                     /\ \/ number = Null
                        \/ t \notin cut => number = <<prefix, next>>
                        \/ Numbers!Author(p, r, number) = "user"
                        \/ /\ r \in DOMAIN Numbers!Seen(p) /\ Numbers!Seen(p)[r].number = number
                           /\ Numbers!Author(p, r, number) = Numbers!Seen(p)[r].by
<1>0. SUFFICES Goal
    OBVIOUS
<1>1. /\ Numbers!Op(p).what = "write" /\ r \in Records /\ Numbers!Op(p).to \in {Same, Null} \cup (Prefixes \X Nat)
      /\ t \in Numbered
    BY NumberConstants DEF Numbers!Write, NumberSteps
<1>2. /\ Numbers!KeyOf(p) = key /\ Numbers!Prefix(p, t) = prefix /\ Numbers!Counted(p) = D
      /\ Numbers!NextNumber(D, key) = next
    BY <1>1 DEF Numbers!KeyOf, Numbers!On, Numbers!Prefix, PrefixIn, Numbers!Counted, NextIn
<1>3. prefix \in Prefixes \cup {Null} /\ \A k \in DOMAIN D : D[k] \in Nat
    <2>1. trigger \in [Numbered -> Prefixes \cup {Null}] /\ \A k \in DOMAIN counters : counters[k] \in Nat
        BY DEF CountInv, CommittedTypes
    <2>2. Holding(s, numbered, counters, trigger)
        BY DEF CountInv
    <2>3. \A k \in DOMAIN D : D[k] \in Nat
        BY <2>1, <2>2, CountsAreNumbers
    <2> QED BY <1>1, <2>1, <2>2, <2>3 DEF PrefixIn, Holding
<1>4. next \in Nat
    BY <1>3, NextIsNumber
<1>5. \/ prefix = Null /\ Numbers!Wrote(p, r, Null, s.count, {})
      \/ /\ prefix # Null
         /\ Numbers!Wrote(p, r, <<prefix, Numbers!Shown(next)>>, Numbers!Put(s.count, key, next + 1),
                          IF next < Numbers!Limit THEN {} ELSE {t})
      \/ /\ prefix # Null /\ posted # Null /\ posted[1] = prefix
         /\ Numbers!Wrote(p, r, posted, Numbers!Put(s.count, key, Numbers!Synced(D, key, posted[2])[key]), {})
    BY <1>2 DEF Numbers!Write
<1>6. posted = Null \/ posted \in Prefixes \X Nat
    <2>1. CASE Numbers!Op(p).to # Same
        BY <1>1, <2>1 DEF Numbers!Posted
    <2>2. CASE Numbers!Op(p).to = Same /\ r \in DOMAIN Numbers!Seen(p)
        <3>1. Fit(Numbers!Seen(p), t, prefix)
            BY <1>1 DEF CountInv, View, Numbers!Seen
        <3>2. posted = Numbers!Seen(p)[r].number
            BY <2>2 DEF Numbers!Posted
        <3> QED BY <1>3, <2>2, <3>1, <3>2 DEF Fit
    <2>3. CASE Numbers!Op(p).to = Same /\ r \notin DOMAIN Numbers!Seen(p)
        BY <2>3 DEF Numbers!Posted
    <2> QED BY <2>1, <2>2, <2>3
<1> HIDE DEF s, r, t, prefix, D, key, next, posted
<1>7. CASE prefix = Null /\ Numbers!Wrote(p, r, Null, s.count, {})
    <2> WITNESS Null, s.count, {}
    <2> WITNESS 0 \in Nat
    <2> QED BY <1>7
<1>8. CASE /\ prefix # Null
           /\ Numbers!Wrote(p, r, <<prefix, Numbers!Shown(next)>>, Numbers!Put(s.count, key, next + 1),
                            IF next < Numbers!Limit THEN {} ELSE {t})
    <2> DEFINE n == Numbers!Shown(next)
               m == next + 1
               cut == IF next < Numbers!Limit THEN {} ELSE {t}
    <2>1. n \in Nat /\ n <= next /\ (next < Numbers!Limit => n = next)
        BY <1>4, ShownBelow
    <2>2. m \in Nat /\ n < m /\ next <= m
        BY <1>4, <2>1
    <2>3. t \notin cut => <<prefix, n>> = <<prefix, next>>
        BY <2>1
    <2>4. Numbers!Wrote(p, r, <<prefix, n>>, Numbers!Put(s.count, key, m), cut)
        BY <1>8
    <2>5. prefix # Null
        BY <1>8
    <2> HIDE DEF n, m, cut
    <2> WITNESS <<prefix, n>>, Numbers!Put(s.count, key, m), cut
    <2> m \in Nat
        BY <2>2
    <2> WITNESS m \in Nat
    <2> QED BY <2>1, <2>2, <2>3, <2>4, <2>5
<1>9. CASE /\ prefix # Null /\ posted # Null /\ posted[1] = prefix
           /\ Numbers!Wrote(p, r, posted, Numbers!Put(s.count, key, Numbers!Synced(D, key, posted[2])[key]), {})
    <2> DEFINE n == posted[2]
               m == Numbers!Synced(D, key, n)[key]
    <2>1. n \in Nat /\ posted = <<prefix, n>>
        BY <1>6, <1>9
    <2>2. m \in Nat /\ n < m /\ next <= m
        BY <1>3, <2>1, SyncedAbove DEF key, next
    <2>3. Numbers!Wrote(p, r, posted, Numbers!Put(s.count, key, m), {})
        BY <1>9
    <2>4. \/ Numbers!Author(p, r, posted) = "user"
          \/ /\ r \in DOMAIN Numbers!Seen(p) /\ Numbers!Seen(p)[r].number = posted
             /\ Numbers!Author(p, r, posted) = Numbers!Seen(p)[r].by
        BY <1>9 DEF Numbers!Author, posted
    <2>5. prefix # Null
        BY <1>9
    <2> HIDE DEF n, m
    <2> WITNESS posted, Numbers!Put(s.count, key, m), {}
    <2> m \in Nat
        BY <2>2
    <2> WITNESS m \in Nat
    <2> QED BY <2>1, <2>2, <2>3, <2>4, <2>5
<1> QED BY <1>5, <1>7, <1>8, <1>9

\* base_autnumber_before_write keeps every transaction's view.
LEMMA WriteKeepsCounts ==
    ASSUME NumbersInv, CountInv, NEW p \in Procs, Numbers!Write(p)
    PROVE  CountInv'
<1> DEFINE s == tx[p]
           r == Numbers!Op(p).on
           t == HomeTable[r]
           prefix == PrefixIn(s, trigger, t)
           A == Numbers!Over(s.new, numbered)
           D == Numbers!Over(s.count, counters)
           next == NextIn(D, t, prefix)
           W == wide \cup lost
<1>1. Numbers!At(p, "counter") /\ Numbers!Op(p).what = "write"
    BY DEF Numbers!Write
<1>2. /\ Numbers!Op(p) \in NumberSteps /\ t \in s.shared
    BY <1>1, AtCounter DEF TableIn
<1>3. r \in Records /\ t \in Numbered
    BY <1>1, <1>2, NumberConstants DEF NumberSteps
<1>4. PICK number, count, cut, m :
         /\ m \in Nat
         /\ Numbers!Wrote(p, r, number, count, cut)
         /\ \/ prefix = Null /\ number = Null /\ count = s.count
            \/ /\ prefix # Null /\ next <= m /\ count = Numbers!Put(s.count, Numbers!Key(t, prefix), m)
               /\ \E n \in Nat : number = <<prefix, n>> /\ n < m
         /\ \/ number = Null
            \/ t \notin cut => number = <<prefix, next>>
            \/ Numbers!Author(p, r, number) = "user"
            \/ /\ r \in DOMAIN A /\ A[r].number = number
               /\ Numbers!Author(p, r, number) = A[r].by
    BY <1>2, WriteGives DEF Numbers!Seen
<1> DEFINE by == Numbers!Author(p, r, number)
           a == Numbers!Advanced(p)
           v == [number |-> number, by |-> by]
<1>5. /\ DOMAIN a = TxFields
      /\ a.shared = s.shared /\ a.alone = s.alone /\ a.new = s.new
      /\ a.count = s.count /\ a.config = s.config /\ a.cut = s.cut
      /\ a.stage = 1 /\ a.todo = Tail(s.todo)
    BY <1>1, AdvancedParts DEF CountInv
<1>6. /\ UNCHANGED <<numbered, counters, trigger, forgotten, lost, wide>>
      /\ tx' = [tx EXCEPT ![p] = [a EXCEPT !.new = Numbers!Put(@, r, v), !.count = count, !.cut = @ \cup cut]]
    BY <1>4 DEF Numbers!Wrote, Numbers!Committed
<1>7. PICK after : /\ tx' = [tx EXCEPT ![p] = after]
                   /\ after.new = Numbers!Put(s.new, r, v) /\ after.count = count /\ after.cut = s.cut \cup cut
                   /\ after.config = s.config /\ after.shared = s.shared /\ after.alone = s.alone
                   /\ after.todo = Tail(s.todo) /\ after.stage = 1
    <2> HIDE DEF a, v, s
    <2> DEFINE b == [a EXCEPT !.new = Numbers!Put(@, r, v), !.count = count, !.cut = @ \cup cut]
    <2>1. /\ b.new = Numbers!Put(a.new, r, v) /\ b.count = count /\ b.cut = a.cut \cup cut
          /\ b.config = a.config /\ b.shared = a.shared /\ b.alone = a.alone
          /\ b.todo = a.todo /\ b.stage = a.stage
        BY <1>5 DEF TxFields
    <2>2. tx' = [tx EXCEPT ![p] = b]
        BY <1>6
    <2> HIDE DEF b
    <2> QED BY <1>5, <2>1, <2>2
<1>8. /\ trigger \in [Numbered -> Prefixes \cup {Null}] /\ \A k \in DOMAIN counters : counters[k] \in Nat
      /\ Holding(s, numbered, counters, trigger) /\ forgotten \subseteq W
      /\ \A u \in Numbered : View(s, u, numbered, counters, trigger, forgotten, W)
    BY DEF CountInv, CommittedTypes
<1>9. /\ \A k \in DOMAIN D : D[k] \in Nat
      /\ \A u \in DOMAIN s.config : s.config[u] \in Prefixes \cup {Null}
    BY <1>8, CountsAreNumbers DEF Holding
<1>10. \/ prefix = Null /\ number = Null /\ after.count = s.count
       \/ \E n, k \in Nat : /\ prefix # Null /\ number = <<prefix, n>> /\ n < k /\ NextIn(D, t, prefix) <= k
                            /\ after.count = Numbers!Put(s.count, Numbers!Key(t, prefix), k)
    BY <1>4, <1>7
<1>11. t \notin W \cup after.cut => \A q \in DOMAIN A :
            q # r /\ HomeTable[q] = t /\ A[q].number = number => number = Null \/ "user" \in {by, A[q].by}
    <2> SUFFICES ASSUME t \notin W, t \notin s.cut, t \notin cut, NEW q \in DOMAIN A, q # r, HomeTable[q] = t,
                        A[q].number = number, number # Null
                 PROVE  "user" \in {by, A[q].by}
        BY <1>7
    <2>1. /\ Once(A, t) /\ Under(A, t, next)
        BY <1>3, <1>8 DEF View
    <2>2. next \in Nat
        BY <1>9, NextIsNumber
    <2>3. number # <<prefix, next>>
        <3> SUFFICES ASSUME number = <<prefix, next>> PROVE FALSE
            OBVIOUS
        <3>1. A[q].number[2] < next
            BY <2>1 DEF Under
        <3> HIDE DEF next, A, prefix
        <3> QED BY <2>2, <3>1
    <2>4. CASE r \in DOMAIN A /\ A[r].number = number /\ by = A[r].by
        <3> HIDE DEF A, by
        <3> QED BY <2>1, <2>4 DEF Once
    <2> HIDE DEF by, A
    <2> QED BY <1>4, <2>3, <2>4 DEF by, A
<1>12. \A u \in Numbered : View(after, u, numbered, counters, trigger, forgotten, W)
    <2> SUFFICES ASSUME NEW u \in Numbered PROVE View(after, u, numbered, counters, trigger, forgotten, W)
        OBVIOUS
    <2>1. View(s, u, numbered, counters, trigger, forgotten, W) /\ s.cut \subseteq after.cut
        BY <1>7, <1>8
    <2>2. after.new = Numbers!Put(s.new, r, [number |-> number, by |-> by]) /\ after.config = s.config
        BY <1>7
    <2> HIDE DEF s, W, by
    <2> QED BY <1>3, <1>8, <1>9, <1>10, <1>11, <2>1, <2>2, WrittenView
<1>13. Holding(after, numbered, counters, trigger)
    <2>1. \/ number = Null /\ after.count = s.count
          \/ \E k \in Nat : /\ NextIn(D, t, prefix) <= k /\ after.count = Numbers!Put(s.count, Numbers!Key(t, prefix), k)
        BY <1>10
    <2>2. after.new = Numbers!Put(s.new, r, [number |-> number, by |-> by])
        BY <1>7
    <2> HIDE DEF s, by
    <2> QED BY <1>2, <1>3, <1>7, <1>8, <2>1, <2>2, WrittenHolds
<1>14. Doing(after) /\ \A q \in Procs : q # p => Parted(after, tx[q])
    <2>1. Numbers!Numbers(p) /\ Numbers!KeyOf(p) = Numbers!Key(t, prefix)
        BY <1>1 DEF Numbers!Numbers, Numbers!KeyOf, Numbers!On, Numbers!Prefix, PrefixIn
    <2>2. after.count = s.count \/ \E k : after.count = Numbers!Put(s.count, Numbers!KeyOf(p), k)
        BY <1>10, <2>1
    <2> QED BY <1>1, <1>7, <2>1, <2>2, AfterCounter
<1> HIDE DEF s, W
<1> QED BY <1>6, <1>7, <1>12, <1>13, <1>14, TxViewsReplaced DEF W

\* What a schema change makes of its table: no numbers, or those of a renumbering.
LEMMA SchemaGives ==
    ASSUME NEW p \in Procs, Numbers!Schema(p)
    PROVE  LET s == tx[p]  t == Numbers!On(p)  prefix == Numbers!Op(p).to
               A == Numbers!Over(s.new, numbered)  D == Numbers!Over(s.count, counters) IN
           \/ prefix = Null /\ Numbers!Became(p, ClearedOf(A, t), s.count, {})
           \/ prefix # Null /\ \E order \in Orders(A, D, t, prefix) :
                Numbers!Became(p, RewrittenOf(A, t, prefix, order),
                               IF Numbers!RowsOf(t, A) = {} THEN s.count
                               ELSE Numbers!Put(s.count, Numbers!Key(t, prefix), EndOf(A, D, t, prefix)),
                               CutOf(A, D, t, prefix))
<1>1. Numbers!KeyOf(p) = Numbers!Key(Numbers!On(p), Numbers!Op(p).to)
    BY DEF Numbers!Schema, Numbers!KeyOf
<1>2. \/ Numbers!Op(p).to = Null
         /\ Numbers!Became(p, ClearedOf(Numbers!Seen(p), Numbers!On(p)), tx[p].count, {})
      \/ /\ Numbers!Op(p).to # Null
         /\ \E order \in Orders(Numbers!Seen(p), Numbers!Counted(p), Numbers!On(p), Numbers!Op(p).to) :
               Numbers!Became(p, RewrittenOf(Numbers!Seen(p), Numbers!On(p), Numbers!Op(p).to, order),
                              IF Numbers!RowsOf(Numbers!On(p), Numbers!Seen(p)) = {} THEN tx[p].count
                              ELSE Numbers!Put(tx[p].count, Numbers!Key(Numbers!On(p), Numbers!Op(p).to),
                                               EndOf(Numbers!Seen(p), Numbers!Counted(p), Numbers!On(p), Numbers!Op(p).to)),
                              CutOf(Numbers!Seen(p), Numbers!Counted(p), Numbers!On(p), Numbers!Op(p).to))
    BY <1>1, Zenon DEF Numbers!Schema, ClearedOf, Orders, RewrittenOf, CutOf, EndOf, FirstOf, SeenOf, KeptOf, BlankOf, OldOf, GivenOf
<1> QED BY <1>2 DEF Numbers!Seen, Numbers!Counted

\* applyTableAutoNumberStateTx keeps every transaction's view.
LEMMA SchemaKeepsCounts ==
    ASSUME NumbersInv, CountInv, NEW p \in Procs, Numbers!Schema(p)
    PROVE  CountInv'
<1> DEFINE s == tx[p]
           t == Numbers!On(p)
           prefix == Numbers!Op(p).to
           pre == PrefixIn(s, trigger, t)
           A == Numbers!Over(s.new, numbered)
           D == Numbers!Over(s.count, counters)
           W == wide \cup lost
           a == Numbers!Advanced(p)
           key == Numbers!Key(t, prefix)
<1>1. Numbers!At(p, "counter") /\ Numbers!Op(p).what = "schema"
    BY DEF Numbers!Schema
<1>2. /\ Numbers!Op(p) \in NumberSteps /\ t = Numbers!Op(p).on /\ t \in s.alone
    BY <1>1, AtCounter DEF TableIn
<1>3. t \in Numbered /\ prefix \in Prefixes \cup {Null}
    BY <1>1, <1>2 DEF NumberSteps
<1>4. /\ trigger \in [Numbered -> Prefixes \cup {Null}] /\ \A k \in DOMAIN counters : counters[k] \in Nat
      /\ DOMAIN numbered \subseteq Records
      /\ Holding(s, numbered, counters, trigger) /\ forgotten \subseteq W
      /\ \A u \in Numbered : View(s, u, numbered, counters, trigger, forgotten, W)
    BY DEF CountInv, CommittedTypes
<1>5. /\ \A k \in DOMAIN D : D[k] \in Nat
      /\ \A u \in DOMAIN s.config : s.config[u] \in Prefixes \cup {Null}
    BY <1>4, CountsAreNumbers DEF Holding
<1>6. pre \in Prefixes \cup {Null} /\ Fit(A, t, pre) /\ (t \notin W \cup s.cut => Once(A, t))
    BY <1>3, <1>4, <1>5 DEF PrefixIn, View
<1>7. IsFiniteSet(Numbers!RowsOf(t, A))
    <2>1. Numbers!RowsOf(t, A) \in SUBSET Records
        BY <1>4 DEF Numbers!RowsOf, Numbers!Over, Holding
    <2> QED BY <2>1, NumberConstants, FS_Subset
<1>8. \E B, count, cut : /\ Numbers!Became(p, B, count, cut)
                         /\ DOMAIN B = Numbers!RowsOf(t, A) /\ Fit(B, t, prefix)
                         /\ \/ (\A r \in DOMAIN B : B[r].number = Null) /\ count = s.count
                            \/ /\ DOMAIN B # {}
                               /\ \E m \in Nat : NextIn(D, t, prefix) <= m /\ Under(B, t, m) /\ count = Numbers!Put(s.count, key, m)
                         /\ t \notin W \cup (s.cut \cup cut) => Once(B, t)
    <2>1. CASE prefix = Null /\ Numbers!Became(p, ClearedOf(A, t), s.count, {})
        <3> DEFINE B == ClearedOf(A, t)
        <3>1. DOMAIN B = Numbers!RowsOf(t, A) /\ \A r \in DOMAIN B : B[r].number = Null
            BY DEF ClearedOf
        <3> HIDE DEF B, s, t, prefix, A, D, W, key
        <3>2. Fit(B, t, prefix)
            BY <2>1, <3>1 DEF Fit
        <3>3. Once(B, t)
            BY <2>1, <3>2, NoNumbers
        <3> QED BY <2>1, <3>1, <3>2, <3>3 DEF B
    <2>2. CASE prefix # Null /\ \E order \in Orders(A, D, t, prefix) :
                Numbers!Became(p, RewrittenOf(A, t, prefix, order),
                               IF Numbers!RowsOf(t, A) = {} THEN s.count
                               ELSE Numbers!Put(s.count, key, EndOf(A, D, t, prefix)), CutOf(A, D, t, prefix))
        <3>1. PICK order \in Orders(A, D, t, prefix) :
                Numbers!Became(p, RewrittenOf(A, t, prefix, order),
                               IF Numbers!RowsOf(t, A) = {} THEN s.count
                               ELSE Numbers!Put(s.count, key, EndOf(A, D, t, prefix)), CutOf(A, D, t, prefix))
            BY <2>2
        <3> DEFINE B == RewrittenOf(A, t, prefix, order)
                   m == EndOf(A, D, t, prefix)
                   cut == CutOf(A, D, t, prefix)
                   count == IF Numbers!RowsOf(t, A) = {} THEN s.count ELSE Numbers!Put(s.count, key, m)
        <3>2. prefix \in Prefixes
            BY <1>3, <2>2
        <3> HIDE DEF s, t, prefix, pre, A, D, W
        <3>3. /\ DOMAIN B = Numbers!RowsOf(t, A) /\ Fit(B, t, prefix) /\ Under(B, t, m)
              /\ Once(A, t) /\ cut = {} => Once(B, t)
            BY <1>5, <1>6, <1>7, <3>2, GivenSound
        <3>4. m \in Nat /\ NextIn(D, t, prefix) <= m
            <4>1. FirstOf(A, D, t, prefix) \in Nat /\ m \in Nat /\ NextIn(D, t, prefix) <= FirstOf(A, D, t, prefix)
                  /\ FirstOf(A, D, t, prefix) <= m
                BY <1>5, <1>6, <1>7, <3>2, FirstAbove
            <4>2. NextIn(D, t, prefix) \in Nat
                BY <1>5, NextIsNumber
            <4> HIDE DEF m
            <4> QED BY <4>1, <4>2
        <3>5. t \notin cut => cut = {}
            BY DEF CutOf
        <3>6. Numbers!Became(p, B, count, cut)
            BY <3>1
        <3>7. CASE Numbers!RowsOf(t, A) = {}
            <4>1. count = s.count
                BY <3>7
            <4> HIDE DEF B, m, cut, count, key
            <4> QED BY <1>6, <3>3, <3>5, <3>6, <3>7, <4>1
        <3>8. CASE Numbers!RowsOf(t, A) # {}
            <4>1. count = Numbers!Put(s.count, key, m)
                BY <3>8
            <4> HIDE DEF B, m, cut, count, key
            <4> QED BY <1>6, <3>3, <3>4, <3>5, <3>6, <3>8, <4>1
        <3> QED BY <3>7, <3>8
    <2>3. \/ prefix = Null /\ Numbers!Became(p, ClearedOf(A, t), s.count, {})
          \/ prefix # Null /\ \E order \in Orders(A, D, t, prefix) :
                Numbers!Became(p, RewrittenOf(A, t, prefix, order),
                               IF Numbers!RowsOf(t, A) = {} THEN s.count
                               ELSE Numbers!Put(s.count, key, EndOf(A, D, t, prefix)), CutOf(A, D, t, prefix))
        BY SchemaGives
    <2> HIDE DEF s, t, prefix, A, D, W, key
    <2> QED BY <2>1, <2>2, <2>3
<1>9. PICK B, count, cut : /\ Numbers!Became(p, B, count, cut)
                           /\ DOMAIN B = Numbers!RowsOf(t, A) /\ Fit(B, t, prefix)
                           /\ \/ (\A r \in DOMAIN B : B[r].number = Null) /\ count = s.count
                              \/ /\ DOMAIN B # {}
                                 /\ \E m \in Nat : NextIn(D, t, prefix) <= m /\ Under(B, t, m) /\ count = Numbers!Put(s.count, key, m)
                           /\ t \notin W \cup (s.cut \cup cut) => Once(B, t)
    BY <1>8
<1>10. /\ DOMAIN a = TxFields
       /\ a.shared = s.shared /\ a.alone = s.alone /\ a.new = s.new
       /\ a.count = s.count /\ a.config = s.config /\ a.cut = s.cut
       /\ a.stage = 1 /\ a.todo = Tail(s.todo)
    BY <1>1, AdvancedParts DEF CountInv
<1>11. /\ UNCHANGED <<numbered, counters, trigger, forgotten, lost, wide>>
       /\ tx' = [tx EXCEPT ![p] = [a EXCEPT !.new = Numbers!Over(B, @), !.count = count, !.cut = @ \cup cut,
                                            !.config = Numbers!Put(@, t, prefix)]]
    <2>1. UNCHANGED <<numbered, counters, trigger, forgotten, lost, wide>>
        BY DEF Numbers!Schema, Numbers!Committed
    <2>2. tx' = [tx EXCEPT ![p] = [a EXCEPT !.new = Numbers!Over(B, @), !.count = count, !.cut = @ \cup cut,
                                            !.config = Numbers!Put(@, t, prefix)]]
        BY <1>9, Zenon DEF Numbers!Became
    <2> QED BY <2>1, <2>2
<1>12. PICK after : /\ tx' = [tx EXCEPT ![p] = after]
                    /\ after.new = Numbers!Over(B, s.new) /\ after.count = count /\ after.cut = s.cut \cup cut
                    /\ after.config = Numbers!Put(s.config, t, prefix)
                    /\ after.shared = s.shared /\ after.alone = s.alone
                    /\ after.todo = Tail(s.todo) /\ after.stage = 1
    <2> HIDE DEF a, s, t, prefix
    <2> DEFINE b == [a EXCEPT !.new = Numbers!Over(B, @), !.count = count, !.cut = @ \cup cut,
                              !.config = Numbers!Put(@, t, prefix)]
    <2>1. /\ b.new = Numbers!Over(B, a.new) /\ b.count = count /\ b.cut = a.cut \cup cut
          /\ b.config = Numbers!Put(a.config, t, prefix) /\ b.shared = a.shared /\ b.alone = a.alone
          /\ b.todo = a.todo /\ b.stage = a.stage
        BY <1>10 DEF TxFields
    <2>2. tx' = [tx EXCEPT ![p] = b]
        BY <1>11
    <2> HIDE DEF b
    <2> QED BY <1>10, <2>1, <2>2
<1>13. \/ after.count = s.count /\ (\A r \in DOMAIN B : B[r].number = Null) /\ \A n \in Nat : Under(B, t, n)
       \/ /\ DOMAIN B # {}
          /\ \E m \in Nat : /\ NextIn(D, t, prefix) <= m /\ Under(B, t, m)
                            /\ after.count = Numbers!Put(s.count, key, m)
    BY <1>9, <1>12 DEF Under
<1>14. t \notin W \cup after.cut => Once(B, t)
    BY <1>9, <1>12
<1>15. \A u \in Numbered : View(after, u, numbered, counters, trigger, forgotten, W)
    <2> SUFFICES ASSUME NEW u \in Numbered PROVE View(after, u, numbered, counters, trigger, forgotten, W)
        OBVIOUS
    <2>1. View(s, u, numbered, counters, trigger, forgotten, W) /\ s.cut \subseteq after.cut
        BY <1>4, <1>12
    <2>2. \/ after.count = s.count /\ \A n \in Nat : Under(B, t, n)
          \/ \E m \in Nat : /\ NextIn(Numbers!Over(s.count, counters), t, prefix) <= m /\ Under(B, t, m)
                            /\ after.count = Numbers!Put(s.count, Numbers!Key(t, prefix), m)
        BY <1>13
    <2> HIDE DEF s, W, t, prefix
    <2> QED BY <1>3, <1>4, <1>5, <1>9, <1>12, <1>14, <2>1, <2>2, ChangedView
<1>16. Holding(after, numbered, counters, trigger)
    <2>1. \/ (\A r \in DOMAIN B : B[r].number = Null) /\ after.count = s.count
          \/ \E m \in Nat : /\ NextIn(Numbers!Over(s.count, counters), t, prefix) <= m
                            /\ after.count = Numbers!Put(s.count, Numbers!Key(t, prefix), m)
        BY <1>13
    <2> HIDE DEF s, W, t, prefix
    <2> QED BY <1>2, <1>3, <1>4, <1>9, <1>12, <2>1, ChangedHolds
<1>17. Doing(after) /\ \A q \in Procs : q # p => Parted(after, tx[q])
    <2>1. Numbers!KeyOf(p) = key
        BY <1>1 DEF Numbers!KeyOf
    <2>2. DOMAIN B # {} => Numbers!Numbers(p)
        BY <1>9 DEF Numbers!Numbers, Numbers!Seen
    <2>3. \/ after.count = s.count
          \/ Numbers!Numbers(p) /\ \E m : after.count = Numbers!Put(s.count, Numbers!KeyOf(p), m)
        BY <1>13, <2>1, <2>2
    <2> QED BY <1>1, <1>12, <2>3, AfterCounter
<1> HIDE DEF s, W
<1> QED BY <1>11, <1>12, <1>15, <1>16, <1>17, TxViewsReplaced DEF W

\* What nobody has changed is what is committed.
LEMMA IdleSees ==
    /\ \A R : DOMAIN Numbers!Over(Numbers!Idle.new, R) = DOMAIN R
              /\ \A r \in DOMAIN R : Numbers!Over(Numbers!Idle.new, R)[r] = R[r]
    /\ \A C, t, prefix : NextIn(Numbers!Over(Numbers!Idle.count, C), t, prefix) = NextIn(C, t, prefix)
    /\ \A T, t : PrefixIn(Numbers!Idle, T, t) = T[t]
    /\ Numbers!Idle.cut = {} /\ DOMAIN Numbers!Idle.config = {}
<1>1. /\ DOMAIN Numbers!Idle.new = {} /\ DOMAIN Numbers!Idle.count = {} /\ DOMAIN Numbers!Idle.config = {}
      /\ Numbers!Idle.cut = {}
    BY DEF Numbers!Idle, Numbers!Empty
<1> QED BY <1>1 DEF Numbers!Over, PrefixIn, NextIn, Numbers!NextNumber

\* At the start the numbers are as the code leaves them.
LEMMA CountsStart == Numbers!Init => CountInv
<1> SUFFICES ASSUME Numbers!Init PROVE CountInv
    OBVIOUS
<1>1. PICK s \in Numbering : trigger = s.trigger /\ numbered = s.rows /\ counters = s.counters
    BY DEF Numbers!Init
<1>2. tx = [p \in Procs |-> Numbers!Idle] /\ wide = {} /\ forgotten = {} /\ lost = {}
    BY DEF Numbers!Init
<1>3. /\ trigger \in [Numbered -> Prefixes \cup {Null}]
      /\ \A k \in DOMAIN counters : counters[k] \in Nat
      /\ DOMAIN numbered \subseteq Records
      /\ \A r \in DOMAIN numbered :
            LET prefix == trigger[HomeTable[r]]  number == numbered[r].number IN
            IF prefix = Null THEN number = Null
            ELSE number \in {prefix} \X Nat /\ number[2] < NextIn(counters, HomeTable[r], prefix)
      /\ \A r, q \in DOMAIN numbered :
            r # q /\ HomeTable[r] = HomeTable[q] /\ numbered[r].number = numbered[q].number => numbered[r].number = Null
    BY <1>1, NumberingAssumption DEF NextIn
<1>4. CommittedTypes(numbered, counters, trigger, forgotten, lost)
    BY <1>2, <1>3 DEF CommittedTypes
<1>5. ASSUME NEW t \in Numbered
      PROVE  View(Numbers!Idle, t, numbered, counters, trigger, forgotten, wide \cup lost)
    <2> DEFINE R == Numbers!Over(Numbers!Idle.new, numbered)
    <2>1. /\ DOMAIN R = DOMAIN numbered /\ \A r \in DOMAIN numbered : R[r] = numbered[r]
          /\ NextIn(Numbers!Over(Numbers!Idle.count, counters), t, trigger[t]) = NextIn(counters, t, trigger[t])
          /\ PrefixIn(Numbers!Idle, trigger, t) = trigger[t]
        BY IdleSees
    <2> HIDE DEF R
    <2>2. Fit(R, t, trigger[t]) /\ Under(R, t, NextIn(counters, t, trigger[t])) /\ Once(R, t)
        BY <1>3, <2>1 DEF Fit, Under, Once
    <2> QED BY <2>1, <2>2 DEF View, R
<1>6. \A p \in Procs : tx[p] = Numbers!Idle
    BY <1>2
<1> QED BY <1>4, <1>5, <1>6, IdleHolds DEF CountInv

\* Every step keeps the numbers of every table, as everybody sees them.
LEMMA CountsStep ==
    ASSUME NumbersInv, CountInv, [Numbers!Next]_(Numbers!vars)
    PROVE  CountInv'
<1>1. ASSUME UNCHANGED Numbers!vars PROVE CountInv'
    BY <1>1 DEF Numbers!vars, CountInv, CommittedTypes, View
<1> QED BY <1>1, BeginsKeepCounts, TakeTableKeepsCounts, WriteKeepsCounts, SchemaKeepsCounts, CommitKeepsCounts,
           FailKeepsCounts, ForgetKeepsCounts DEF Numbers!Next

\* What follows for the records committed.
LEMMA NumbersFollow == CountInv => Numbers!NumbersHold
<1> SUFFICES ASSUME CountInv PROVE Numbers!NumbersHold
    OBVIOUS
<1>1. /\ DOMAIN numbered \subseteq Records /\ forgotten \subseteq lost
      /\ \A k \in DOMAIN counters : counters[k] \in Nat
      /\ trigger \in [Numbered -> Prefixes \cup {Null}]
    BY DEF CountInv, CommittedTypes
<1>2. ASSUME NEW t \in Numbered
      PROVE  /\ Fit(numbered, t, trigger[t])
             /\ t \notin forgotten => Under(numbered, t, NextIn(counters, t, trigger[t]))
             /\ t \notin wide \cup lost => Once(numbered, t)
    <2> DEFINE R == Numbers!Over(Numbers!Idle.new, numbered)
    <2>1. /\ DOMAIN R = DOMAIN numbered /\ \A r \in DOMAIN numbered : R[r] = numbered[r]
          /\ NextIn(Numbers!Over(Numbers!Idle.count, counters), t, trigger[t]) = NextIn(counters, t, trigger[t])
          /\ PrefixIn(Numbers!Idle, trigger, t) = trigger[t] /\ Numbers!Idle.cut = {}
        BY IdleSees
    <2>2. View(Numbers!Idle, t, numbered, counters, trigger, forgotten, wide \cup lost)
        BY DEF CountInv
    <2>3. /\ Fit(R, t, trigger[t])
          /\ t \notin forgotten => Under(R, t, NextIn(counters, t, trigger[t]))
          /\ t \notin wide \cup lost => Once(R, t)
        BY <2>1, <2>2 DEF View
    <2> HIDE DEF R
    <2> QED BY <2>1, <2>3 DEF Fit, Under, Once
<1>3. \A r \in DOMAIN numbered : HomeTable[r] \in Numbered
    BY <1>1, NumberConstants
<1>4. Numbers!NeverTwice
    BY <1>2, <1>3 DEF Numbers!NeverTwice, Once
<1>5. Numbers!NextUnused
    <2> SUFFICES ASSUME NEW t \in Numbered \ forgotten, NEW r \in Numbers!RowsOf(t, numbered),
                        <<trigger[t], NextIn(counters, t, trigger[t])>> # Null,
                        numbered[r].number = <<trigger[t], NextIn(counters, t, trigger[t])>>
                 PROVE  FALSE
        BY Zenon DEF Numbers!NextUnused, Numbers!InUse, NextIn
    <2> DEFINE n == NextIn(counters, t, trigger[t])
    <2>1. n \in Nat
        BY <1>1, NextIsNumber
    <2>2. r \in DOMAIN numbered /\ HomeTable[r] = t
        BY DEF Numbers!RowsOf
    <2>3. numbered[r].number[2] < n
        BY <1>2, <2>2 DEF Under
    <2>4. numbered[r].number[2] = n
        OBVIOUS
    <2> HIDE DEF n
    <2> QED BY <2>1, <2>3, <2>4
<1>6. Numbers!Rewritable
    <2> SUFFICES ASSUME NEW r \in DOMAIN numbered
                 PROVE  LET prefix == trigger[HomeTable[r]]  number == numbered[r].number IN
                        IF prefix = Null THEN number = Null ELSE number # Null /\ number[1] = prefix
        BY DEF Numbers!Rewritable
    <2> DEFINE prefix == trigger[HomeTable[r]]
    <2>1. Fit(numbered, HomeTable[r], prefix) /\ prefix \in Prefixes \cup {Null}
        BY <1>1, <1>2, <1>3
    <2> HIDE DEF prefix
    <2>2. IF prefix = Null THEN numbered[r].number = Null ELSE numbered[r].number \in {prefix} \X Nat
        BY <2>1 DEF Fit
    <2> QED BY <2>1, <2>2, NumberParts DEF prefix
<1> QED BY <1>4, <1>5, <1>6 DEF Numbers!NumbersHold

\* A number is never given twice, the next one is never in use and each record
\* can be written again (base_autnumber_before_write, base_next_autnumber,
\* applyTableAutoNumberStateTx), however many transactions run at once, fail or
\* are committed, and whatever schema changes come between.
THEOREM NumbersNeverRepeat == Numbers!Spec => []NumbersHold
<1>1. NumbersInv /\ CountInv => NumbersHold
    BY NumbersFollow DEF NumbersHold
<1>2. Numbers!Init => NumbersInv /\ CountInv
    BY NumbersStart, CountsStart
<1>3. (NumbersInv /\ CountInv) /\ [Numbers!Next]_(Numbers!vars) => (NumbersInv /\ CountInv)'
    BY NumbersStep, CountsStep
<1> QED BY <1>1, <1>2, <1>3, PTL DEF Numbers!Spec
=============================================================================
