-------------------------- MODULE RecordSaveProofs --------------------------
(***************************************************************************)
(* Proofs about RecordSave for any fields, values, pages and writers: the  *)
(* types, and from PageInv and RowInv the properties of its runs; and      *)
(* about DocsArticles, under the names MCRecordSave gives its variables.   *)
(*                                                                         *)
(* PageInv says why the expected version vouches for the snapshot: it was  *)
(* a version of the row when the form was posted, so if the row still has  *)
(* it at the UPDATE, the row has not changed since the snapshot was read.  *)
(***************************************************************************)
EXTENDS MCRecordSave, TLAPS

USE SaveAssumption

Kinds == {"page", "api", "bulk", "script"}

Vouched(p) ==
    /\ expected[p] <= version
    /\ pc[p] = "posted" /\ expected[p] = version => old[p] = record
    /\ p \notin refreshed => expected[p] <= shown[p]
Written(p) ==
    pc[p] = "committed" =>
        /\ shown[p] \in 1..version /\ author[shown[p]] = "page"
        /\ old[p] = history[shown[p]]
PageInv == \A p \in Pages : Vouched(p) /\ Written(p)

RowInv == record = history[version + 1]

TypeInv == RowTypes /\ PageTypes /\ WriterTypes /\ audit \subseteq Entries /\ lost \in BOOLEAN
Inv == TypeInv /\ RowInv /\ PageInv

(***************************************************************************)
(* The helpers.                                                            *)
(***************************************************************************)

\* A patch gives values to some of the fields.
LEMMA PatchFacts ==
    ASSUME NEW values \in Patches
    PROVE  DOMAIN values \subseteq Fields /\ \A f \in DOMAIN values : values[f] \in Blankable
  BY DEF Patches

\* An UPDATE of fields of the record leaves a record.
LEMMA UpdatedRecord ==
    ASSUME record \in Records, NEW fields, NEW values,
           \A f \in fields \cap Fields : values[f] \in Blankable
    PROVE  Updated(fields, values) \in Records
  BY DEF Updated, Records

\* A write appends to the history and changes nothing of it.
LEMMA CommitFacts ==
    ASSUME RowTypes, NEW values \in Records, NEW kind \in Kinds, Commit(values, kind)
    PROVE  /\ RowTypes' /\ RowInv'
           /\ record' = values /\ version' = version + 1
           /\ \A v \in 1..(version + 1) : history'[v] = history[v]
           /\ history'[version + 2] = values
           /\ \A v \in 1..version : author'[v] = author[v]
           /\ author'[version + 1] = kind
  BY DEF RowTypes, RowInv, Commit, Kinds

\* What a writer puts into the row is a record.
LEMMA WriterValues ==
    ASSUME TypeInv, NEW w \in Writers
    PROVE  Updated(WriterFields(w), patch[w]) \in Records
  <1>1. patch[w] \in Patches /\ record \in Records
    BY DEF TypeInv, WriterTypes, RowTypes
  <1>2. DOMAIN patch[w] \subseteq Fields /\ \A f \in DOMAIN patch[w] : patch[w][f] \in Blankable
    BY <1>1, PatchFacts
  <1>3. WriterFields(w) \subseteq DOMAIN patch[w]
    BY DEF WriterFields, ChangedFields
  <1> QED BY <1>1, <1>2, <1>3, UpdatedRecord

\* So is what a page puts into it.
LEMMA PageValues ==
    ASSUME TypeInv, NEW p \in Pages
    PROVE  Updated(ChangedFields(old[p], form[p]), form[p]) \in Records
  <1>1. form[p] \in Records /\ record \in Records
    BY DEF TypeInv, PageTypes, RowTypes
  <1>2. \A f \in ChangedFields(old[p], form[p]) \cap Fields : form[p][f] \in Blankable
    BY <1>1 DEF Records
  <1> QED BY <1>1, <1>2, UpdatedRecord

\* A step is one of the actions.
LEMMA StepCases ==
    ASSUME Next
    PROVE  \/ \E p \in Pages : PageLoad(p) \/ PageEdit(p) \/ PagePost(p) \/ PageCommit(p)
                \/ PageRefused(p) \/ PageEffects(p) \/ PageAnswered(p) \/ PageEvent(p)
           \/ \E w \in Writers : WriterRead(w) \/ WriterStops(w) \/ WriterCommit(w)
                \/ BulkSnapshot(w) \/ WriterEffects(w)
           \/ Crash
  BY DEF Next, Page, Writer

(***************************************************************************)
(* Types.                                                                  *)
(***************************************************************************)

\* The initial state is typed.
LEMMA TypeInit == Init => TypeInv
  <1> SUFFICES ASSUME Init PROVE TypeInv
    OBVIOUS
  <1>1. Empty \in Records /\ Empty \in Patches
    BY DEF Empty, Records, Patches, Blankable
  <1>2. RowTypes
    BY <1>1 DEF Init, RowTypes
  <1>3. PageTypes
    BY <1>1 DEF Init, PageTypes
  <1>4. WriterTypes
    BY <1>1 DEF Init, WriterTypes
  <1> QED BY <1>2, <1>3, <1>4 DEF Init, TypeInv

\* The row a page or another writer shows after its write.
LEMMA SavedTypes ==
    ASSUME TypeInv, NEW p \in Pages, PageCommit(p)
    PROVE  RowTypes' /\ PageTypes'
  <1> DEFINE new == Updated(ChangedFields(old[p], form[p]), form[p])
  <1>1. Commit(new, "page") /\ new \in Records /\ RowTypes
    BY PageValues DEF PageCommit, PageCommitIf, TypeInv
  <1>2. RowTypes' /\ version' = version + 1
    BY <1>1, CommitFacts DEF Kinds
  <1>3. version \in Nat /\ \A q \in Pages : shown[q] \in Nat /\ shown[q] <= version
    BY DEF TypeInv, RowTypes, PageTypes
  <1>4. \A q \in Pages : shown'[q] \in Nat /\ shown'[q] <= version'
    BY <1>2, <1>3 DEF PageCommit, PageCommitIf, TypeInv, PageTypes
  <1>5. PageTypes'
    BY <1>4 DEF PageCommit, PageCommitIf, TypeInv, PageTypes
  <1> QED BY <1>2, <1>5

LEMMA WrittenTypes ==
    ASSUME TypeInv, NEW w \in Writers, WriterCommit(w)
    PROVE  RowTypes' /\ PageTypes' /\ WriterTypes'
  <1> DEFINE new == Updated(WriterFields(w), patch[w])
  <1>1. PICK next \in {"done", "snapshot", "committed"} :
            WriterCommitThen(w, next) /\ (Kind[w] = "script" => next = "done")
    BY DEF WriterCommit, AfterCommit
  <1>2. Commit(new, Kind[w]) /\ new \in Records /\ RowTypes /\ Kind[w] \in Kinds
    BY <1>1, WriterValues DEF WriterCommitThen, TypeInv, Kinds, SaveAssumption
  <1>3. RowTypes' /\ version' = version + 1 /\ record' \in Records
    BY <1>2, CommitFacts
  <1>4. PageTypes'
    BY <1>1, <1>3 DEF WriterCommitThen, pageVars, TypeInv, PageTypes, RowTypes
  <1>5. WriterTypes'
    BY <1>1, <1>3 DEF WriterCommitThen, TypeInv, WriterTypes, RowTypes
  <1> QED BY <1>3, <1>4, <1>5

\* Every step keeps the types.
LEMMA TypeStep == TypeInv /\ [Next]_vars => TypeInv'
  <1> SUFFICES ASSUME TypeInv, [Next]_vars PROVE TypeInv'
    OBVIOUS
  <1> USE DEF TypeInv, rowVars, pageVars, writerVars
  <1>1. ASSUME NEW p \in Pages, PageLoad(p) PROVE TypeInv'
    BY <1>1 DEF PageLoad, RowTypes, PageTypes, WriterTypes
  <1>2. ASSUME NEW p \in Pages, PageEdit(p) PROVE TypeInv'
    <2>1. PICK f \in Fields, v \in Blankable : form' = [form EXCEPT ![p][f] = v]
      BY <1>2 DEF PageEdit
    <2>2. form' \in [Pages -> Records]
      BY <2>1 DEF PageTypes, Records
    <2> QED BY <1>2, <2>2 DEF PageEdit, RowTypes, PageTypes, WriterTypes
  <1>3. ASSUME NEW p \in Pages, PagePost(p) PROVE TypeInv'
    BY <1>3 DEF PagePost, RowTypes, PageTypes, WriterTypes
  <1>4. ASSUME NEW p \in Pages, PageCommit(p) PROVE TypeInv'
    BY <1>4, SavedTypes DEF PageCommit, PageCommitIf, WriterTypes
  <1>5. ASSUME NEW p \in Pages, PageRefused(p) PROVE TypeInv'
    BY <1>5 DEF PageRefused, RowTypes, PageTypes, WriterTypes
  <1>6. ASSUME NEW p \in Pages, PageEffects(p) PROVE TypeInv'
    <2>1. shown[p] \in Nat /\ old[p] \in Records /\ shown[p] + 1 \in 1..Len(history)
      BY DEF PageTypes, RowTypes
    <2>2. history[shown[p] + 1] \in Records
      BY <2>1 DEF RowTypes
    <2>3. inbox' \subseteq Pages
      BY <1>6 DEF PageEffects, SideEffects, Publish, Open, PageTypes
    <2> DEFINE e == [kind |-> "page", version |-> shown[p], old |-> old[p], new |-> history[shown[p] + 1]]
    <2>4. e \in Entries
      BY <2>1, <2>2 DEF Entries
    <2>5. audit' \subseteq Entries /\ lost' \in BOOLEAN
      <3>1. audit' \in {audit, audit \cup {e}} /\ lost' \in {lost, TRUE}
        BY <1>6 DEF PageEffects, SideEffects
      <3> QED BY <3>1, <2>4
    <2> QED BY <1>6, <2>3, <2>5 DEF PageEffects, RowTypes, PageTypes, WriterTypes
  <1>7. ASSUME NEW p \in Pages, PageAnswered(p) PROVE TypeInv'
    BY <1>7 DEF PageAnswered, RowTypes, PageTypes, WriterTypes
  <1>8. ASSUME NEW p \in Pages, PageEvent(p) PROVE TypeInv'
    <2>1. form' \in [Pages -> Records] /\ baseline' \in [Pages -> Records]
      BY <1>8 DEF PageEvent, RowTypes, PageTypes
    <2>2. shown' \in [Pages -> Nat] /\ expected' \in [Pages -> Nat]
      BY <1>8 DEF PageEvent, RowTypes, PageTypes
    <2>3. \A q \in Pages : shown'[q] <= version
      <3>1. shown' \in {shown, [shown EXCEPT ![p] = version]}
        BY <1>8 DEF PageEvent
      <3>2. shown \in [Pages -> Nat] /\ version \in Nat /\ \A q \in Pages : shown[q] <= version
        BY DEF PageTypes, RowTypes
      <3>3. \A q \in Pages : shown'[q] \in {shown[q], version}
        BY <3>1, <3>2
      <3> QED BY <3>2, <3>3
    <2>4. refreshed' \subseteq Pages /\ inbox' \subseteq Pages
      BY <1>8 DEF PageEvent, PageTypes
    <2>5. UNCHANGED <<rowVars, pc, old, writerVars, audit, lost>>
      BY <1>8 DEF PageEvent
    <2> QED BY <2>1, <2>2, <2>3, <2>4, <2>5 DEF RowTypes, PageTypes, WriterTypes
  <1>9. ASSUME NEW w \in Writers, WriterRead(w) PROVE TypeInv'
    <2>1. patch' \in [Writers -> Patches]
      BY <1>9 DEF WriterRead, WriterTypes
    <2> QED BY <1>9, <2>1 DEF WriterRead, RowTypes, PageTypes, WriterTypes
  <1>10. ASSUME NEW w \in Writers, WriterStops(w) PROVE TypeInv'
    BY <1>10 DEF WriterStops, RowTypes, PageTypes, WriterTypes
  <1>11. ASSUME NEW w \in Writers, WriterCommit(w) PROVE TypeInv'
    BY <1>11, WrittenTypes DEF WriterCommit, WriterCommitThen
  <1>12. ASSUME NEW w \in Writers, BulkSnapshot(w) PROVE TypeInv'
    BY <1>12 DEF BulkSnapshot, RowTypes, PageTypes, WriterTypes
  <1>13. ASSUME NEW w \in Writers, WriterEffects(w) PROVE TypeInv'
    <2>1. wversion[w] \in Nat /\ wold[w] \in Records /\ wnew[w] \in Records
          /\ Kind[w] \in {"api", "bulk"}
      BY <1>13 DEF WriterEffects, WriterTypes, SaveAssumption
    <2>2. inbox' \subseteq Pages
      BY <1>13 DEF WriterEffects, SideEffects, Publish, Open, PageTypes
    <2> DEFINE e == [kind |-> Kind[w], version |-> wversion[w], old |-> wold[w], new |-> wnew[w]]
    <2>3. e \in Entries
      BY <2>1 DEF Entries
    <2>4. audit' \subseteq Entries /\ lost' \in BOOLEAN
      <3>1. audit' \in {audit, audit \cup {e}} /\ lost' \in {lost, TRUE}
        BY <1>13 DEF WriterEffects, SideEffects
      <3> QED BY <3>1, <2>3
    <2> QED BY <1>13, <2>2, <2>4 DEF WriterEffects, RowTypes, PageTypes, WriterTypes
  <1>14. CASE Crash
    BY <1>14 DEF Crash, RowTypes, PageTypes, WriterTypes
  <1>15. CASE UNCHANGED vars
    BY <1>15 DEF vars, RowTypes, PageTypes, WriterTypes
  <1> QED BY <1>1, <1>2, <1>3, <1>4, <1>5, <1>6, <1>7, <1>8, <1>9, <1>10, <1>11,
             <1>12, <1>13, <1>14, <1>15, StepCases

\* The row, the pages, the requests and the audit trail are typed in every
\* reachable state (HandleSave, form-view.html).
THEOREM TypeCorrect == Spec => []TypeOK
  <1>1. TypeInv => TypeOK
    BY DEF TypeInv, TypeOK
  <1> QED BY TypeInit, TypeStep, <1>1, PTL DEF Spec

(***************************************************************************)
(* The expected version.                                                   *)
(***************************************************************************)

\* A write makes every other page's snapshot and expected version outdated.
LEMMA OthersOutdated ==
    ASSUME Inv, NEW values \in Records, NEW kind \in Kinds, Commit(values, kind),
           NEW q \in Pages, pc'[q] = pc[q], expected'[q] = expected[q], old'[q] = old[q],
           shown'[q] = shown[q], q \in refreshed' <=> q \in refreshed
    PROVE  Vouched(q)' /\ Written(q)'
  <1>1. version \in Nat /\ expected[q] \in Nat /\ shown[q] \in Nat
    BY DEF Inv, TypeInv, RowTypes, PageTypes
  <1>2. Vouched(q) /\ Written(q) /\ RowTypes
    BY DEF Inv, TypeInv, PageInv
  <1>3. /\ version' = version + 1
        /\ \A v \in 1..(version + 1) : history'[v] = history[v]
        /\ \A v \in 1..version : author'[v] = author[v]
    BY <1>2, CommitFacts
  <1>4. Vouched(q)'
    BY <1>1, <1>2, <1>3 DEF Vouched
  <1>5. Written(q)'
    <2> SUFFICES ASSUME pc[q] = "committed" PROVE /\ shown[q] \in 1..version'
                                                  /\ author'[shown[q]] = "page"
                                                  /\ old[q] = history'[shown[q]]
      BY DEF Written
    <2>1. shown[q] \in 1..version /\ author[shown[q]] = "page" /\ old[q] = history[shown[q]]
      BY <1>2 DEF Written
    <2> QED BY <1>1, <1>3, <2>1
  <1> QED BY <1>4, <1>5

\* A save that goes through: the page's snapshot is the record it replaces.
LEMMA SaveFacts ==
    ASSUME Inv, NEW p \in Pages, PageCommit(p)
    PROVE  /\ old[p] = record
           /\ p \notin refreshed => shown[p] = version
           /\ Commit(Updated(ChangedFields(old[p], form[p]), form[p]), "page")
           /\ Updated(ChangedFields(old[p], form[p]), form[p]) \in Records
  <1>1. version \in Nat /\ shown[p] \in Nat /\ shown[p] <= version
    BY DEF Inv, TypeInv, RowTypes, PageTypes
  <1>2. pc[p] = "posted" /\ expected[p] = version /\ Vouched(p)
    BY DEF PageCommit, PageCommitIf, Inv, PageInv
  <1>3. old[p] = record /\ (p \notin refreshed => shown[p] = version)
    BY <1>1, <1>2 DEF Vouched
  <1> QED BY <1>3, PageValues DEF PageCommit, PageCommitIf, Inv

\* A save keeps PageInv and RowInv.
LEMMA SaveStep ==
    ASSUME Inv, NEW p \in Pages, PageCommit(p)
    PROVE  RowInv' /\ PageInv'
  <1> DEFINE new == Updated(ChangedFields(old[p], form[p]), form[p])
  <1>1. Commit(new, "page") /\ new \in Records /\ old[p] = record
    BY SaveFacts
  <1>2. RowTypes /\ PageTypes /\ RowInv /\ "page" \in Kinds
    BY DEF Inv, TypeInv, Kinds
  <1>3. /\ RowInv' /\ version' = version + 1
        /\ history'[version + 1] = history[version + 1] /\ author'[version + 1] = "page"
    BY <1>1, <1>2, CommitFacts DEF RowTypes
  <1>4. ASSUME NEW q \in Pages PROVE Vouched(q)' /\ Written(q)'
    <2>1. CASE q # p
      <3>1. /\ pc'[q] = pc[q] /\ expected'[q] = expected[q] /\ old'[q] = old[q]
            /\ shown'[q] = shown[q] /\ (q \in refreshed' <=> q \in refreshed)
        BY <1>2, <2>1 DEF PageCommit, PageCommitIf, PageTypes
      <3> QED BY <1>1, <1>2, <3>1, OthersOutdated
    <2>2. CASE q = p
      <3>1. /\ pc'[p] = "committed" /\ shown'[p] = version + 1
            /\ expected'[p] = version /\ old'[p] = record
        BY <1>1, <1>2 DEF PageCommit, PageCommitIf, PageTypes
      <3>2. version \in Nat /\ record = history[version + 1]
        BY <1>2 DEF RowTypes, RowInv
      <3> QED BY <1>3, <2>2, <3>1, <3>2 DEF Vouched, Written
    <2> QED BY <2>1, <2>2
  <1> QED BY <1>3, <1>4 DEF PageInv

\* So does a write of another writer.
LEMMA WriterStep ==
    ASSUME Inv, NEW w \in Writers, WriterCommit(w)
    PROVE  RowInv' /\ PageInv'
  <1> DEFINE new == Updated(WriterFields(w), patch[w])
  <1>1. Commit(new, Kind[w]) /\ new \in Records /\ Kind[w] \in Kinds /\ UNCHANGED pageVars
    BY WriterValues DEF WriterCommit, WriterCommitThen, Inv, Kinds
  <1>2. RowInv'
    BY <1>1, CommitFacts DEF Inv, TypeInv
  <1>3. ASSUME NEW q \in Pages PROVE Vouched(q)' /\ Written(q)'
    BY <1>1, OthersOutdated DEF pageVars
  <1> QED BY <1>2, <1>3 DEF PageInv

\* Steps that leave the row alone: a page that takes the row's version, posts,
\* or goes on with what it has.
LEMMA QuietStep ==
    ASSUME Inv, UNCHANGED rowVars, NEW q \in Pages,
           \/ /\ expected'[q] = version /\ pc'[q] = "open"
              /\ q \in refreshed' \/ shown'[q] = version
           \/ /\ expected'[q] = expected[q] /\ shown'[q] = shown[q]
              /\ q \in refreshed' <=> q \in refreshed
              /\ \/ pc'[q] = pc[q] /\ old'[q] = old[q]
                 \/ pc'[q] = "posted" /\ old'[q] = record
                 \/ pc'[q] \in {"closed", "open", "answered"}
    PROVE  Vouched(q)' /\ Written(q)'
  BY DEF Inv, PageInv, Vouched, Written, TypeInv, RowTypes, PageTypes, rowVars

\* Every step keeps PageInv and RowInv.
LEMMA InvStep == Inv /\ [Next]_vars => RowInv' /\ PageInv'
  <1> SUFFICES ASSUME Inv, [Next]_vars PROVE RowInv' /\ PageInv'
    OBVIOUS
  <1> USE DEF PageTypes
  <1>1. PageTypes /\ RowInv
    BY DEF Inv, TypeInv
  <1>2. UNCHANGED rowVars => RowInv'
    BY <1>1 DEF RowInv, rowVars
  <1>3. ASSUME NEW p \in Pages, PageLoad(p) PROVE PageInv' /\ UNCHANGED rowVars
    BY <1>1, <1>3, QuietStep DEF PageLoad, PageInv
  <1>4. ASSUME NEW p \in Pages, PageEdit(p) PROVE PageInv' /\ UNCHANGED rowVars
    BY <1>1, <1>4, QuietStep DEF PageEdit, PageInv
  <1>5. ASSUME NEW p \in Pages, PagePost(p) PROVE PageInv' /\ UNCHANGED rowVars
    BY <1>1, <1>5, QuietStep DEF PagePost, PageInv
  <1>6. ASSUME NEW p \in Pages, PageRefused(p) PROVE PageInv' /\ UNCHANGED rowVars
    BY <1>1, <1>6, QuietStep DEF PageRefused, PageInv
  <1>7. ASSUME NEW p \in Pages, PageEffects(p) PROVE PageInv' /\ UNCHANGED rowVars
    BY <1>1, <1>7, QuietStep DEF PageEffects, PageInv
  <1>8. ASSUME NEW p \in Pages, PageAnswered(p) PROVE PageInv' /\ UNCHANGED rowVars
    BY <1>1, <1>8, QuietStep DEF PageAnswered, PageInv
  <1>9. ASSUME NEW p \in Pages, PageEvent(p) PROVE PageInv' /\ UNCHANGED rowVars
    <2>1. UNCHANGED rowVars /\ pc[p] = "open" /\ pc' = pc /\ old' = old
      BY <1>9 DEF PageEvent
    <2>2. /\ expected'[p] = version /\ \A q \in Pages \ {p} : expected'[q] = expected[q]
          /\ \A q \in Pages \ {p} : shown'[q] = shown[q] /\ (q \in refreshed' <=> q \in refreshed)
      BY <1>1, <1>9 DEF PageEvent
    <2>3. p \in refreshed' \/ shown'[p] = version \/ (expected[p] = version /\ shown'[p] = shown[p]
                                                      /\ refreshed' = refreshed)
      BY <1>1, <1>9 DEF PageEvent
    <2>4. ASSUME NEW q \in Pages PROVE Vouched(q)' /\ Written(q)'
      BY <2>1, <2>2, <2>3, QuietStep
    <2> QED BY <2>1, <2>4 DEF PageInv
  <1>10. ASSUME NEW w \in Writers,
                WriterRead(w) \/ WriterStops(w) \/ BulkSnapshot(w) \/ WriterEffects(w)
         PROVE  PageInv' /\ UNCHANGED rowVars
    <2>1. UNCHANGED rowVars /\ UNCHANGED pageVars
      BY <1>10 DEF WriterRead, WriterStops, BulkSnapshot, WriterEffects
    <2> QED BY <2>1, QuietStep DEF PageInv, pageVars
  <1>11. CASE Crash
    BY <1>1, <1>2, <1>11, QuietStep DEF Crash, PageInv
  <1>12. CASE UNCHANGED vars
    BY <1>2, <1>12, QuietStep DEF vars, pageVars, PageInv
  <1> QED BY <1>2, <1>3, <1>4, <1>5, <1>6, <1>7, <1>8, <1>9, <1>10, <1>11, <1>12,
             SaveStep, WriterStep, StepCases

\* The invariant holds in every reachable state.
THEOREM InvCorrect == Spec => []Inv
  <1>1. Init => RowInv
    BY DEF Init, RowInv
  <1>2. Init => PageInv
    BY DEF Init, PageInv, Vouched, Written
  <1> QED BY <1>1, <1>2, TypeInit, TypeStep, InvStep, PTL DEF Spec, Inv

\* Only PageCommit lets a save through.
LEMMA SavesCommit ==
    ASSUME Inv, Next, NEW p \in Pages, Saves(p)
    PROVE  PageCommit(p)
  <1> USE DEF Saves
  <1>1. pc \in [Pages -> {"closed", "open", "posted", "committed", "answered"}]
    BY DEF Inv, TypeInv, PageTypes
  <1>2. ASSUME NEW q \in Pages, PageLoad(q) \/ PageEdit(q) \/ PagePost(q) \/ PageRefused(q)
                                  \/ PageEffects(q) \/ PageAnswered(q) \/ PageEvent(q)
        PROVE  FALSE
    BY <1>1, <1>2 DEF PageLoad, PageEdit, PagePost, PageRefused, PageEffects, PageAnswered, PageEvent
  <1>3. ASSUME NEW w \in Writers, WriterRead(w) \/ WriterStops(w) \/ WriterCommit(w)
                                    \/ BulkSnapshot(w) \/ WriterEffects(w)
        PROVE  FALSE
    BY <1>3 DEF WriterRead, WriterStops, WriterCommit, WriterCommitThen, BulkSnapshot,
               WriterEffects, pageVars
  <1>4. CASE Crash
    BY <1>1, <1>4 DEF Crash
  <1>5. ASSUME NEW q \in Pages, PageCommit(q) PROVE q = p
    BY <1>1, <1>5 DEF PageCommit, PageCommitIf
  <1> QED BY <1>2, <1>3, <1>4, <1>5, StepCases

\* No save of a page goes through over a version the page has not shown, unless
\* the page took that version without its values (form-view.html).
THEOREM OverwriteNeedsRefresh == Spec => OverwritesOnlyRefreshed
  <1>1. Inv /\ [Next]_vars => [\A p \in Pages : Saves(p) => shown[p] = version \/ p \in refreshed]_vars
    <2> SUFFICES ASSUME Inv, Next, NEW p \in Pages, Saves(p)
                 PROVE  shown[p] = version \/ p \in refreshed
      OBVIOUS
    <2>1. PageCommit(p)
      BY SavesCommit
    <2> QED BY <2>1, SaveFacts
  <1> QED BY <1>1, InvCorrect, PTL DEF Spec, OverwritesOnlyRefreshed

\* A save stores every value on its form that is not blank, also in the fields
\* its UPDATE leaves out (HandleSave, applyRuntimeTriggerRecordToFormData).
THEOREM FormValuesStored == Spec => SavedValuesStored
  <1>1. Inv /\ [Next]_vars =>
            [\A p \in Pages : Saves(p) =>
                \A f \in Fields : form[p][f] # Null => record'[f] = form[p][f]]_vars
    <2> SUFFICES ASSUME Inv, Next, NEW p \in Pages, Saves(p),
                        NEW f \in Fields, form[p][f] # Null
                 PROVE  record'[f] = form[p][f]
      OBVIOUS
    <2>1. PageCommit(p)
      BY SavesCommit
    <2>2. old[p] = record /\ record' = Updated(ChangedFields(old[p], form[p]), form[p])
      BY <2>1, SaveFacts DEF Commit
    <2>3. form[p] \in Records
      BY DEF Inv, TypeInv, PageTypes
    <2> QED BY <2>2, <2>3 DEF Updated, ChangedFields, Records
  <1> QED BY <1>1, InvCorrect, PTL DEF Spec, SavedValuesStored

(***************************************************************************)
(* The audit trail.                                                        *)
(***************************************************************************)

\* What writes the row keeps the history, and leaves the trail for later.
LEMMA WriteKeeps ==
    ASSUME Inv, NEW values \in Records, NEW kind \in Kinds, Commit(values, kind)
    PROVE  /\ version \in Nat /\ version' = version + 1
           /\ \A v \in 1..(version + 1) : history'[v] = history[v]
           /\ \A v \in 1..version : author'[v] = author[v]
           /\ author'[version + 1] = kind
  BY CommitFacts DEF Inv, TypeInv, RowTypes

\* Every step either writes the row or keeps it.
LEMMA WriteOrKeep ==
    ASSUME Inv, [Next]_vars
    PROVE  \/ UNCHANGED rowVars
           \/ \E p \in Pages : PageCommit(p)
           \/ \E w \in Writers : WriterCommit(w)
  BY StepCases DEF PageLoad, PageEdit, PagePost, PageRefused, PageEffects, PageAnswered, PageEvent,
        WriterRead, WriterStops, BulkSnapshot, WriterEffects, Crash, vars

\* What a write does, whoever makes it.
LEMMA AnyWrite ==
    ASSUME Inv, NEW p, NEW w,
           (p \in Pages /\ PageCommit(p)) \/ (w \in Writers /\ WriterCommit(w))
    PROVE  /\ version \in Nat /\ version' = version + 1
           /\ \A v \in 1..(version + 1) : history'[v] = history[v]
           /\ \A v \in 1..version : author'[v] = author[v]
           /\ UNCHANGED <<audit, lost>>
  <1>1. CASE p \in Pages /\ PageCommit(p)
    BY <1>1, SaveFacts, WriteKeeps DEF PageCommit, PageCommitIf, Kinds
  <1>2. CASE w \in Writers /\ WriterCommit(w)
    <2>1. Kind[w] \in Kinds /\ Commit(Updated(WriterFields(w), patch[w]), Kind[w])
      BY <1>2 DEF WriterCommit, WriterCommitThen, Kinds
    <2>2. Updated(WriterFields(w), patch[w]) \in Records
      BY <1>2, WriterValues DEF Inv
    <2> QED BY <1>2, <2>1, <2>2, WriteKeeps DEF WriterCommit, WriterCommitThen
  <1> QED BY <1>1, <1>2

\* A row of the audit trail stays exact as the history grows.
LEMMA ExactStep == Inv /\ AuditExact /\ [Next]_vars => AuditExact'
  <1> SUFFICES ASSUME Inv, AuditExact, [Next]_vars PROVE AuditExact'
    OBVIOUS
  <1>1. version \in Nat
    BY DEF Inv, TypeInv, RowTypes
  <1>2. ASSUME NEW p, NEW w, (p \in Pages /\ PageCommit(p)) \/ (w \in Writers /\ WriterCommit(w))
        PROVE  AuditExact'
    <2>1. /\ version' = version + 1 /\ audit' = audit
          /\ \A v \in 1..(version + 1) : history'[v] = history[v]
          /\ \A v \in 1..version : author'[v] = author[v]
      BY <1>2, AnyWrite
    <2> SUFFICES ASSUME NEW e \in audit, e.kind = "page"
                 PROVE  /\ e.version \in 1..version' /\ author'[e.version] = "page"
                        /\ e.old = history'[e.version] /\ e.new = history'[e.version + 1]
      BY <2>1 DEF AuditExact
    <2>2. /\ e.version \in 1..version /\ author[e.version] = "page"
          /\ e.old = history[e.version] /\ e.new = history[e.version + 1]
      BY DEF AuditExact
    <2> QED BY <1>1, <2>1, <2>2
  <1>3. ASSUME NEW p \in Pages, PageEffects(p) PROVE AuditExact'
    <2> DEFINE e == [kind |-> "page", version |-> shown[p], old |-> old[p], new |-> history[shown[p] + 1]]
    <2>1. audit' \subseteq audit \cup {e} /\ UNCHANGED rowVars
      BY <1>3 DEF PageEffects, SideEffects
    <2>2. shown[p] \in 1..version /\ author[shown[p]] = "page" /\ old[p] = history[shown[p]]
      BY <1>3 DEF PageEffects, Inv, PageInv, Written
    <2> QED BY <2>1, <2>2 DEF AuditExact, rowVars
  <1>4. ASSUME NEW w \in Writers, WriterEffects(w) PROVE AuditExact'
    <2> DEFINE e == [kind |-> Kind[w], version |-> wversion[w], old |-> wold[w], new |-> wnew[w]]
    <2>1. audit' \subseteq audit \cup {e} /\ UNCHANGED rowVars /\ e.kind # "page"
      BY <1>4 DEF WriterEffects, SideEffects
    <2> QED BY <2>1 DEF AuditExact, rowVars
  <1>5. CASE UNCHANGED <<rowVars, audit>>
    BY <1>5 DEF AuditExact, rowVars
  <1>6. \/ UNCHANGED <<rowVars, audit>>
        \/ \E p \in Pages : PageCommit(p) \/ PageEffects(p)
        \/ \E w \in Writers : WriterCommit(w) \/ WriterEffects(w)
    BY StepCases DEF PageLoad, PageEdit, PagePost, PageRefused, PageAnswered, PageEvent,
          WriterRead, WriterStops, BulkSnapshot, Crash, vars
  <1> QED BY <1>2, <1>3, <1>4, <1>5, <1>6

\* The audit row of a page's save tells exactly the step its write made
\* (HandleSave, CaptureDataChange).
THEOREM AuditIsExact == Spec => []AuditExact
  <1>1. Init => AuditExact
    BY DEF Init, AuditExact
  <1> QED BY <1>1, ExactStep, InvCorrect, PTL DEF Spec

Accounted(v) == Pending(v) \/ \E e \in audit : e.version = v

\* A step that is neither a write nor the audit of one forgets no write.
LEMMA PendingKept ==
    ASSUME Inv, audit \subseteq audit', NEW v, Accounted(v),
           \A p \in Pages : pc[p] = "committed" /\ shown[p] = v =>
               \/ pc'[p] = "committed" /\ shown'[p] = v
               \/ \E e \in audit' : e.version = v,
           \A w \in Writers : wpc[w] \in {"committed", "snapshot"} /\ wversion[w] = v =>
               \/ wpc'[w] \in {"committed", "snapshot"} /\ wversion'[w] = v
               \/ \E e \in audit' : e.version = v
    PROVE  Accounted(v)'
  BY DEF Accounted, Pending

\* No step forgets a write that awaits its audit row.
LEMMA AccountedStep ==
    ASSUME Inv, [Next]_vars, ~lost', NEW v, Accounted(v)
    PROVE  Accounted(v)'
  <1>1. /\ pc \in [Pages -> {"closed", "open", "posted", "committed", "answered"}]
        /\ shown \in [Pages -> Nat] /\ wversion \in [Writers -> Nat]
        /\ wpc \in [Writers -> {"idle", "read", "committed", "snapshot", "done"}]
    BY DEF Inv, TypeInv, PageTypes, WriterTypes
  <1>2. ASSUME NEW p \in Pages, PageLoad(p) \/ PageEdit(p) \/ PagePost(p) \/ PageRefused(p)
                                  \/ PageCommit(p) \/ PageAnswered(p) \/ PageEvent(p)
        PROVE  Accounted(v)'
    <2>1. /\ UNCHANGED <<audit, wpc, wversion>> /\ pc[p] # "committed"
          /\ \A q \in Pages \ {p} : pc'[q] = pc[q] /\ shown'[q] = shown[q]
      BY <1>1, <1>2 DEF PageLoad, PageEdit, PagePost, PageRefused, PageCommit, PageCommitIf,
                        PageAnswered, PageEvent, writerVars
    <2> QED BY <2>1, PendingKept
  <1>3. ASSUME NEW p \in Pages, PageEffects(p) PROVE Accounted(v)'
    <2> DEFINE e == [kind |-> "page", version |-> shown[p], old |-> old[p], new |-> history[shown[p] + 1]]
    <2>1. /\ audit' = audit \cup {e} /\ UNCHANGED <<wpc, wversion, shown>>
          /\ \A q \in Pages \ {p} : pc'[q] = pc[q]
      BY <1>1, <1>3 DEF PageEffects, SideEffects, writerVars
    <2>2. e \in audit' /\ e.version = shown[p]
      BY <2>1
    <2> HIDE DEF e
    <2> QED BY <2>1, <2>2, PendingKept
  <1>4. ASSUME NEW w \in Writers, WriterRead(w) \/ WriterStops(w) \/ WriterCommit(w)
        PROVE  Accounted(v)'
    <2>1. /\ UNCHANGED <<audit, pc, shown>> /\ wpc[w] \notin {"committed", "snapshot"}
          /\ \A x \in Writers \ {w} : wpc'[x] = wpc[x] /\ wversion'[x] = wversion[x]
      BY <1>1, <1>4 DEF WriterRead, WriterStops, WriterCommit, WriterCommitThen, pageVars
    <2> QED BY <2>1, PendingKept
  <1>5. ASSUME NEW w \in Writers, BulkSnapshot(w) PROVE Accounted(v)'
    <2>1. /\ UNCHANGED <<audit, pc, shown, wversion>> /\ wpc'[w] = "committed"
          /\ \A x \in Writers \ {w} : wpc'[x] = wpc[x]
      BY <1>1, <1>5 DEF BulkSnapshot, pageVars
    <2> QED BY <2>1, PendingKept
  <1>6. ASSUME NEW w \in Writers, WriterEffects(w) PROVE Accounted(v)'
    <2> DEFINE e == [kind |-> Kind[w], version |-> wversion[w], old |-> wold[w], new |-> wnew[w]]
    <2>1. /\ audit' = audit \cup {e} /\ UNCHANGED <<pc, shown, wversion>>
          /\ \A x \in Writers \ {w} : wpc'[x] = wpc[x]
      BY <1>1, <1>6 DEF WriterEffects, SideEffects, pageVars
    <2>2. e \in audit' /\ e.version = wversion[w]
      BY <2>1
    <2> HIDE DEF e
    <2> QED BY <2>1, <2>2, PendingKept
  <1>7. ~Crash
    BY DEF Crash
  <1>8. CASE UNCHANGED vars
    BY <1>8, PendingKept DEF vars, pageVars, writerVars
  <1> QED BY <1>2, <1>3, <1>4, <1>5, <1>6, <1>7, <1>8, StepCases

\* A write that is to be audited awaits its row.
LEMMA NewAccounted ==
    ASSUME Inv, NEW p, NEW w,
           (p \in Pages /\ PageCommit(p)) \/ (w \in Writers /\ WriterCommit(w)),
           NEW v, v = version + 1, author'[v] # "script"
    PROVE  Pending(v)'
  <1>1. /\ pc \in [Pages -> {"closed", "open", "posted", "committed", "answered"}]
        /\ shown \in [Pages -> Nat] /\ wversion \in [Writers -> Nat]
        /\ wpc \in [Writers -> {"idle", "read", "committed", "snapshot", "done"}]
        /\ version \in Nat
    BY DEF Inv, TypeInv, PageTypes, WriterTypes, RowTypes
  <1>2. CASE p \in Pages /\ PageCommit(p)
    <2>1. pc' = [pc EXCEPT ![p] = "committed"] /\ shown' = [shown EXCEPT ![p] = version + 1]
      BY <1>2 DEF PageCommit, PageCommitIf
    <2>2. pc'[p] = "committed" /\ shown'[p] = version + 1
      BY <1>1, <1>2, <2>1
    <2> QED BY <1>2, <2>2 DEF Pending
  <1>3. CASE w \in Writers /\ WriterCommit(w)
    <2>1. Kind[w] \in Kinds /\ Commit(Updated(WriterFields(w), patch[w]), Kind[w])
      BY <1>3 DEF WriterCommit, WriterCommitThen, Kinds
    <2>2. Kind[w] # "script"
      <3>1. Updated(WriterFields(w), patch[w]) \in Records
        BY <1>3, WriterValues DEF Inv
      <3>2. author'[version + 1] = Kind[w]
        BY <2>1, <3>1, WriteKeeps
      <3> QED BY <3>2
    <2>3. AfterCommit[Kind[w]] \in {"committed", "snapshot"}
      BY <1>3, <2>2 DEF AfterCommit
    <2>4. wpc'[w] \in {"committed", "snapshot"} /\ wversion'[w] = version + 1
      BY <1>1, <1>3, <2>3 DEF WriterCommit, WriterCommitThen
    <2> QED BY <1>3, <2>4 DEF Pending
  <1> QED BY <1>2, <1>3

\* Every committed save, API save and bulk update is audited or about to be,
\* unless the server died or an insert failed (HandleSave, handleBulkUpdate).
THEOREM AuditIsComplete == Spec => []AuditComplete
  <1>1. Init => AuditComplete
    BY DEF Init, AuditComplete
  <1>2. Inv /\ AuditComplete /\ [Next]_vars => AuditComplete'
    <2> SUFFICES ASSUME Inv, AuditComplete, [Next]_vars, ~lost',
                        NEW v \in 1..version', author'[v] # "script"
                 PROVE  Accounted(v)'
      BY DEF AuditComplete, Accounted
    <2>1. ~lost /\ version \in Nat
      BY StepCases DEF PageLoad, PageEdit, PagePost, PageRefused, PageCommit, PageCommitIf,
            PageEffects, PageAnswered, PageEvent, SideEffects, WriterRead, WriterStops, WriterCommit,
            WriterCommitThen, BulkSnapshot, WriterEffects, Crash, vars, Inv, TypeInv, RowTypes
    <2>2. CASE UNCHANGED rowVars
      BY <2>1, <2>2, AccountedStep DEF AuditComplete, Accounted, rowVars
    <2>3. ASSUME NEW p, NEW w, (p \in Pages /\ PageCommit(p)) \/ (w \in Writers /\ WriterCommit(w))
          PROVE  Accounted(v)'
      <3>1. version' = version + 1 /\ \A u \in 1..version : author'[u] = author[u]
        BY <2>3, AnyWrite
      <3>2. CASE v = version + 1
        BY <2>3, <3>2, NewAccounted DEF Accounted
      <3>3. CASE v \in 1..version
        BY <2>1, <3>1, <3>3, AccountedStep DEF AuditComplete, Accounted
      <3> QED BY <2>1, <3>1, <3>2, <3>3
    <2> QED BY <2>2, <2>3, WriteOrKeep
  <1> QED BY <1>1, <1>2, InvCorrect, PTL DEF Spec

-----------------------------------------------------------------------------
(***************************************************************************)
(* The articles of a docs library (DocsArticles), for any articles, slugs, *)
(* texts and editor pages: the history of HistoryMatches, and StrayInv,    *)
(* which says what a page's original_slug still stands for.                *)
(***************************************************************************)

\* A request holds a slug and a text; once the SELECT has found a row, it knows it.
Sending == {"posted", "checked", "found", "missing", "norows"}
SaveTypes == \A e \in Editors :
    /\ save[e].step \in Sending \cup {"done"} => save[e].slug \in Slugs /\ save[e].body \in Bodies
    /\ save[e].step \in {"found", "done"} => save[e].found \in Articles
DocsTypes == Docs!TypeOK /\ SaveTypes

\* HistoryMatches of one article.
History(a) ==
    /\ \A s \in versions : s.article = a => s.version \in 1..article[a].version
    /\ \A n \in 1..article[a].version : \E s \in versions : s.article = a /\ s.version = n
    /\ \A s, t \in versions : s.article = a /\ t.article = a /\ s.version = t.version => s = t
    /\ \A s \in versions : s.article = a /\ s.version = article[a].version => s.body = article[a].body
    /\ \A e \in Editors : save[e].step = "done" /\ save[e].found = a
          => Docs!Snap(a, save[e].version, save[e].body) \in versions
DocsInv == DocsTypes /\ \A a \in Articles : History(a)

\* HistoryMatches is History of every article (saveDocsArticle).
LEMMA HistoryByArticle == (\A a \in Articles : History(a)) <=> HistoryMatches
  <1> SUFFICES ASSUME NEW a \in Articles
               PROVE  History(a) <=>
                        LET mine == {s \in versions : s.article = a} IN
                        /\ {s.version : s \in mine} = 1 .. article[a].version
                        /\ \A s, t \in mine : s.version = t.version => s = t
                        /\ \A s \in mine : s.version = article[a].version => s.body = article[a].body
                        /\ \A p \in Editors : save[p].step = "done" /\ save[p].found = a
                             => Docs!Snap(a, save[p].version, save[p].body) \in mine
    BY Zenon DEF HistoryMatches, Docs!HistoryMatches
  <1>1. \A n, b : Docs!Snap(a, n, b).article = a
    BY DEF Docs!Snap
  <1> QED BY <1>1 DEF History

\* The articles of migration 065 start with their first snapshot.
LEMMA DocsInit == Docs!Init => DocsInv
  <1> SUFFICES ASSUME Docs!Init PROVE DocsInv OBVIOUS
  <1> USE DocsAssumption
  <1>1. Docs!TypeOK
    BY DEF Docs!Init, Docs!TypeOK, Docs!Row, Docs!Snapshot, Docs!Page, Docs!Save, Docs!Version, Docs!Closed,
           Docs!Idle, Docs!Absent, Docs!Snap
  <1>2. SaveTypes
    BY DEF Docs!Init, SaveTypes, Sending, Docs!Idle
  <1>3. ASSUME NEW a \in Articles PROVE History(a)
    <2>1. PICK s \in [Seeded -> Slugs], b \in [Seeded -> Bodies] :
            /\ article = [x \in Articles |-> IF x \in Seeded THEN [slug |-> s[x], body |-> b[x], version |-> 1]
                                            ELSE Docs!Absent]
            /\ versions = {Docs!Snap(x, 1, b[x]) : x \in Seeded}
      BY DEF Docs!Init
    <2>2. \A e \in Editors : save[e].step = "idle"
      BY DEF Docs!Init, Docs!Idle
    <2>3. article[a].version = (IF a \in Seeded THEN 1 ELSE 0) /\ (a \in Seeded => article[a].body = b[a])
      BY <2>1 DEF Docs!Absent
    <2>4. \A v \in versions : v.article \in Seeded /\ v = Docs!Snap(v.article, 1, b[v.article])
                               /\ v.version = 1 /\ v.body = b[v.article]
      BY <2>1 DEF Docs!Snap
    <2>5. a \in Seeded => \E v \in versions : v.article = a /\ v.version = 1
      <3>1. a \in Seeded => Docs!Snap(a, 1, b[a]) \in versions
        BY <2>1
      <3> QED BY <3>1 DEF Docs!Snap
    <2>6. \A v, w \in versions : v.article = w.article => v = w
      BY <2>4, Zenon
    <2>7. \A n \in 1..article[a].version : n = 1 /\ a \in Seeded
      BY <2>3
    <2>8. \A v \in versions : v.article = a => a \in Seeded /\ v.version = 1 /\ v.body = article[a].body
      BY <2>3, <2>4
    <2>9. \A n \in 1..article[a].version : \E v \in versions : v.article = a /\ v.version = n
      BY <2>5, <2>7
    <2>10. \A v \in versions : v.article = a => v.version \in 1..article[a].version
      BY <2>3, <2>8
    <2> QED BY <2>2, <2>6, <2>8, <2>9, <2>10, Zenon DEF History
  <1> QED BY <1>1, <1>2, <1>3 DEF DocsInv, DocsTypes

\* A step that writes no row keeps every history.
LEMMA DocsKept ==
    ASSUME DocsInv, UNCHANGED <<article, versions>>,
           \A e \in Editors : save'[e].step = "done" => save'[e] = save[e],
           NEW a \in Articles
    PROVE  History(a)'
  BY DEF DocsInv, History

\* A page's request is replaced by r.
SaveFits(r) ==
    /\ r \in Docs!Save
    /\ r.step \in Sending \cup {"done"} => r.slug \in Slugs /\ r.body \in Bodies
    /\ r.step \in {"found", "done"} => r.found \in Articles

\* Nobody else's request changes with it (ajaxSave).
LEMMA SaveOne ==
    ASSUME save \in [Editors -> Docs!Save], SaveTypes, NEW e \in Editors, NEW r, SaveFits(r),
           save' = [save EXCEPT ![e] = r]
    PROVE  save' \in [Editors -> Docs!Save] /\ SaveTypes'
  BY DEF SaveFits, SaveTypes

\* A request goes on without finding a row.
LEMMA SaveMoves ==
    ASSUME NEW r \in Docs!Save, SaveFits(r), NEW s \in {"checked", "missing", "norows", "done"}, r.step \in Sending,
           s = "done" => r.step = "found"
    PROVE  SaveFits([r EXCEPT !.step = s])
  BY DEF SaveFits, Docs!Save, Sending


\* A request finds a row, or is done with it.
LEMMA SaveFinds ==
    ASSUME NEW r \in Docs!Save, r.slug \in Slugs, r.body \in Bodies,
           NEW s \in {"found", "done"}, NEW a \in Articles, NEW n \in 0..MaxSaves
    PROVE  /\ SaveFits([r EXCEPT !.step = s, !.found = a, !.version = n])
           /\ a = r.found => SaveFits([r EXCEPT !.step = s, !.version = n])
  <1>1. [r EXCEPT !.step = s, !.found = a, !.version = n] \in Docs!Save
    BY DEF Docs!Save, Docs!Version
  <1>2. [r EXCEPT !.step = s, !.version = n] \in Docs!Save
    BY DEF Docs!Save, Docs!Version
  <1> QED BY <1>1, <1>2 DEF SaveFits, Docs!Save

\* A request is posted with a slug and a text.
LEMMA SavePosts ==
    ASSUME NEW r \in Docs!Save, NEW o \in Slugs \cup {NoSlug}, NEW s \in Slugs, NEW b \in Bodies
    PROVE  SaveFits([r EXCEPT !.step = "posted", !.original = o, !.slug = s, !.body = b])
  BY DEF SaveFits, Docs!Save, Sending

\* Every step of a page or of saveDocsArticle keeps the types.
LEMMA DocsTypeStep == DocsInv /\ Docs!Next => DocsTypes'
  <1> SUFFICES ASSUME DocsInv, Docs!Next PROVE DocsTypes' OBVIOUS
  <1> USE DocsAssumption DEF DocsInv, DocsTypes
  <1>a. SaveFits(Docs!Idle) /\ Docs!Closed \in Docs!Page /\ Docs!Absent \in Docs!Row
    BY DEF Docs!Idle, Docs!Save, Docs!Closed, Docs!Page, Docs!Absent, Docs!Row, Docs!Version, SaveFits, Sending
  <1>b. \A b \in Articles : Docs!Exists(b) => article[b].slug \in Slugs /\ article[b].version \in Docs!Version
    BY DEF Docs!TypeOK, Docs!Exists, Docs!Row, Docs!Absent, Docs!Version
  <1>c. save \in [Editors -> Docs!Save] /\ \A e \in Editors : SaveFits(save[e])
    BY DEF Docs!TypeOK, SaveTypes, SaveFits
  <1>d. ASSUME UNCHANGED save PROVE SaveTypes'
    BY <1>d DEF SaveTypes
  <1>1. ASSUME NEW e \in Editors, NEW a \in Articles, Docs!Open(e, a) PROVE DocsTypes'
    BY <1>1, <1>b, <1>d DEF Docs!Open, Docs!TypeOK, Docs!Page
  <1>2. ASSUME NEW e \in Editors, Docs!OpenNew(e) PROVE DocsTypes'
    BY <1>2, <1>d DEF Docs!OpenNew, Docs!TypeOK, Docs!Page
  <1>3. ASSUME NEW e \in Editors, Docs!Close(e) PROVE DocsTypes'
    BY <1>3, <1>a, <1>d DEF Docs!Close, Docs!TypeOK
  <1>4. ASSUME NEW e \in Editors, NEW s \in Slugs, NEW b \in Bodies, Docs!Post(e, s, b) PROVE DocsTypes'
    <2> DEFINE r == [Docs!Idle EXCEPT !.step = "posted", !.original = page[e].original, !.slug = s, !.body = b]
    <2>1. page[e] \in Docs!Page /\ Docs!Idle \in Docs!Save
      BY <1>a DEF Docs!TypeOK, SaveFits
    <2>2. page[e].original \in Slugs \cup {NoSlug}
      BY <2>1 DEF Docs!Page
    <2> HIDE DEF r
    <2>3. SaveFits(r)
      BY <2>1, <2>2, SavePosts DEF r
    <2>4. save' = [save EXCEPT ![e] = r]
      BY <1>4 DEF Docs!Post, r
    <2>5. save' \in [Editors -> Docs!Save] /\ SaveTypes'
      BY <1>c, <2>3, <2>4, SaveOne
    <2> QED BY <1>4, <2>5 DEF Docs!Post, Docs!TypeOK
  <1>5. ASSUME NEW e \in Editors, Docs!Answer(e) PROVE DocsTypes'
    <2>1. save' \in [Editors -> Docs!Save] /\ SaveTypes'
      BY <1>5, <1>a, <1>c, SaveOne DEF Docs!Answer
    <2> QED BY <1>5, <2>1 DEF Docs!Answer, Docs!TypeOK, Docs!Page, Docs!Synced, SaveTypes
  <1>6. ASSUME NEW e \in Editors, Docs!AnswerLost(e) PROVE DocsTypes'
    <2>1. save' \in [Editors -> Docs!Save] /\ SaveTypes'
      BY <1>6, <1>a, <1>c, SaveOne DEF Docs!AnswerLost
    <2> QED BY <1>6, <2>1 DEF Docs!AnswerLost, Docs!TypeOK
  <1>7. ASSUME NEW e \in Editors, Docs!Fail(e) PROVE DocsTypes'
    BY <1>7, <1>a, <1>c, SaveOne DEF Docs!Fail, Docs!TypeOK
  <1>8. ASSUME NEW e \in Editors, Docs!CheckLibrary(e) PROVE DocsTypes'
    <2>1. SaveFits([save[e] EXCEPT !.step = "checked"])
      BY <1>8, <1>c, SaveMoves DEF Docs!CheckLibrary, Sending
    <2> QED BY <1>8, <1>c, <2>1, SaveOne DEF Docs!CheckLibrary, Docs!TypeOK
  <1>9. ASSUME NEW e \in Editors, Docs!SelectNone(e) PROVE DocsTypes'
    <2> DEFINE s == IF NoRowsMatch THEN "missing" ELSE "norows"
    <2>1. SaveFits([save[e] EXCEPT !.step = s])
      BY <1>9, <1>c, SaveMoves DEF Docs!SelectNone, Sending
    <2> QED BY <1>9, <1>c, <2>1, SaveOne DEF Docs!SelectNone, Docs!TypeOK
  <1>10. ASSUME NEW e \in Editors, Docs!Select(e) PROVE DocsTypes'
    <2>1. PICK a \in Articles : /\ Docs!Exists(a)
                                /\ save' = [save EXCEPT ![e].step = "found", ![e].found = a,
                                                        ![e].version = article[a].version]
      BY <1>10 DEF Docs!Select
    <2> DEFINE r == [save[e] EXCEPT !.step = "found", !.found = a, !.version = article[a].version]
    <2>2. SaveFits(r)
      BY <1>10, <1>b, <1>c, <2>1, SaveFinds DEF Docs!Select, SaveFits, Sending, Docs!Version
    <2>3. save' = [save EXCEPT ![e] = r]
      BY <2>1
    <2> QED BY <1>10, <1>c, <2>2, <2>3, SaveOne DEF Docs!Select, Docs!TypeOK
  <1>11. ASSUME NEW e \in Editors, Docs!Update(e) PROVE DocsTypes'
    <2> DEFINE a == save[e].found
               n == Docs!NextVersion(e)
               r == [save[e] EXCEPT !.step = "done", !.version = n]
    <2>1. a \in Articles /\ save[e].slug \in Slugs /\ save[e].body \in Bodies
      BY <1>11 DEF Docs!Update, SaveTypes, Sending
    <2>2. n \in 1..MaxSaves
      BY <1>11, <2>1 DEF Docs!Update, Docs!NextVersion, Docs!TypeOK, Docs!Row, Docs!Absent
    <2>3. article' \in [Articles -> Docs!Row]
      BY <1>11, <2>1, <2>2 DEF Docs!Update, Docs!TypeOK, Docs!Row
    <2>4. versions' \subseteq Docs!Snapshot
      BY <1>11, <2>1, <2>2 DEF Docs!Update, Docs!TypeOK, Docs!Inserted, Docs!Snap, Docs!Snapshot, Docs!Version
    <2>5. SaveFits(r)
      <3>1. n \in 0..MaxSaves
        BY <2>2
      <3> HIDE DEF n
      <3> QED BY <1>c, <2>1, <3>1, SaveFinds
    <2>6. save' \in [Editors -> Docs!Save] /\ SaveTypes'
      <3> HIDE DEF n
      <3>1. save' = [save EXCEPT ![e] = r]
        BY <1>11 DEF Docs!Update, n
      <3> QED BY <1>c, <2>5, <3>1, SaveOne
    <2>7. page' \in [Editors -> Docs!Page] /\ moved' \in [Editors -> BOOLEAN] /\ library' = library
      BY <1>11, <2>1 DEF Docs!Update, Docs!TypeOK, Docs!Page
    <2> QED BY <2>3, <2>4, <2>6, <2>7 DEF Docs!TypeOK
  <1>12. ASSUME NEW e \in Editors, Docs!Create(e) PROVE DocsTypes'
    <2>1. save[e].slug \in Slugs /\ save[e].body \in Bodies
      BY <1>12 DEF Docs!Create, SaveTypes, Sending
    <2>2. PICK a \in Articles :
            /\ article' = [article EXCEPT ![a] = [slug |-> save[e].slug, body |-> save[e].body, version |-> 1]]
            /\ versions' = Docs!Inserted(a, 1, save[e].body)
            /\ save' = [save EXCEPT ![e].step = "done", ![e].found = a, ![e].version = 1]
            /\ page' = [page EXCEPT ![e].article = a]
      BY <1>12 DEF Docs!Create
    <2> DEFINE r == [save[e] EXCEPT !.step = "done", !.found = a, !.version = 1]
    <2>3. article' \in [Articles -> Docs!Row]
      BY <2>1, <2>2 DEF Docs!TypeOK, Docs!Row
    <2>4. versions' \subseteq Docs!Snapshot
      BY <2>1, <2>2 DEF Docs!TypeOK, Docs!Inserted, Docs!Snap, Docs!Snapshot, Docs!Version
    <2>5. SaveFits(r)
      <3>1. save[e] \in Docs!Save /\ 1 \in 0..MaxSaves /\ a \in Articles
        BY <1>c, <2>2
      <3> QED BY <2>1, <3>1, SaveFinds
    <2>6. save' \in [Editors -> Docs!Save] /\ SaveTypes'
      <3>1. save' = [save EXCEPT ![e] = r]
        BY <2>2
      <3> QED BY <1>c, <2>5, <3>1, SaveOne
    <2>7. page' \in [Editors -> Docs!Page] /\ UNCHANGED <<moved, library>>
      BY <1>12, <2>2 DEF Docs!Create, Docs!TypeOK, Docs!Page
    <2> QED BY <2>3, <2>4, <2>6, <2>7 DEF Docs!TypeOK
  <1>13. ASSUME Docs!ArchiveLibrary PROVE DocsTypes'
    BY <1>13, <1>d DEF Docs!ArchiveLibrary, Docs!TypeOK
  <1> QED BY <1>1, <1>2, <1>3, <1>4, <1>5, <1>6, <1>7, <1>8, <1>9, <1>10, <1>11, <1>12, <1>13 DEF Docs!Next

\* A snapshot of version n + 1 of article a, beside the ones it has.
LEMMA HistoryGrows ==
    ASSUME DocsInv, NEW e \in Editors, NEW a \in Articles, NEW n \in Nat, NEW b,
           n = article[a].version + 1, versions' = versions \cup {Docs!Snap(a, n, b)},
           article'[a].version = n, article'[a].body = b,
           \A x \in Articles \ {a} : article'[x] = article[x],
           save'[e].found = a, save'[e].version = n, save'[e].body = b,
           \A f \in Editors \ {e} : save'[f] = save[f]
    PROVE  \A x \in Articles : History(x)'
  <1>1. Docs!Snap(a, n, b).article = a /\ Docs!Snap(a, n, b).version = n /\ Docs!Snap(a, n, b).body = b
    BY DEF Docs!Snap
  <1>2. \A x \in Articles : article[x].version \in Nat
    BY DocsAssumption DEF DocsInv, DocsTypes, Docs!TypeOK, Docs!Row, Docs!Absent
  <1>3. \A x \in Articles : History(x)
    BY DEF DocsInv
  <1>4. ASSUME NEW x \in Articles \ {a} PROVE History(x)'
    BY <1>1, <1>3, <1>4 DEF History
  <1>5. History(a)'
    <2>1. \A s \in versions : s.article = a => s.version \in 1..(n - 1)
      BY <1>2, <1>3 DEF History
    <2>2. \A s \in versions' : s.article = a => s.version \in 1..n
      BY <1>1, <1>2, <2>1
    <2>3. \A m \in 1..n : \E s \in versions' : s.article = a /\ s.version = m
      <3>1. \A m \in 1..(n - 1) : \E s \in versions : s.article = a /\ s.version = m
        BY <1>2, <1>3 DEF History
      <3> QED BY <1>1, <3>1
    <2>4. \A s, t \in versions' : s.article = a /\ t.article = a /\ s.version = t.version => s = t
      <3>1. \A s, t \in versions : s.article = a /\ t.article = a /\ s.version = t.version => s = t
        BY <1>3 DEF History
      <3>2. \A s \in versions : s.article = a => s.version # n
        BY <2>1
      <3> QED BY <1>1, <3>1, <3>2
    <2>5. \A s \in versions' : s.article = a /\ s.version = n => s.body = b
      BY <1>1, <2>1
    <2>6. \A f \in Editors : save'[f].step = "done" /\ save'[f].found = a
            => Docs!Snap(a, save'[f].version, save'[f].body) \in versions'
      BY <1>3 DEF History
    <2> QED BY <2>2, <2>3, <2>4, <2>5, <2>6 DEF History
  <1> QED BY <1>4, <1>5

\* Every step keeps every history: the number of a save comes from the row the
\* UPDATE has locked (saveDocsArticle).
LEMMA HistoryStep == DocsInv /\ [Docs!Next]_docs => \A a \in Articles : History(a)'
  <1> SUFFICES ASSUME DocsInv, [Docs!Next]_docs PROVE \A a \in Articles : History(a)' OBVIOUS
  <1>0. save \in [Editors -> Docs!Save] /\ article \in [Articles -> Docs!Row]
    BY DEF DocsInv, DocsTypes, Docs!TypeOK
  <1>1. CASE UNCHANGED docs
    BY <1>1 DEF docs, DocsInv, History
  <1>2. CASE /\ UNCHANGED <<article, versions>>
             /\ \A e \in Editors : save'[e].step = "done" => save'[e] = save[e]
    BY <1>2, DocsKept
  <1>3. ASSUME NEW e \in Editors, Docs!Update(e) PROVE \A a \in Articles : History(a)'
    <2> DEFINE a == save[e].found
               n == Docs!NextVersion(e)
               b == save[e].body
    <2>1. a \in Articles
      BY <1>3 DEF Docs!Update, DocsInv, DocsTypes, SaveTypes
    <2>2. n \in Nat /\ article[a].version \in Nat /\ n = article[a].version + 1
      BY <1>0, <2>1, DocsAssumption DEF Docs!NextVersion, Docs!Row, Docs!Absent
    <2>3. versions' = versions \cup {Docs!Snap(a, n, b)}
      <3>1. \A s \in versions : s.article = a => s.version \in 1..article[a].version
        BY <2>1 DEF DocsInv, History
      <3>2. ~ \E s \in versions : s.article = a /\ s.version = n
        BY <2>2, <3>1
      <3> QED BY <1>3, <3>2 DEF Docs!Update, Docs!Inserted
    <2>4. article' = [article EXCEPT ![a] = [slug |-> save[e].slug, body |-> b, version |-> n]]
      BY <1>3 DEF Docs!Update
    <2>5. save'[e].found = a /\ save'[e].version = n /\ save'[e].body = b /\ \A f \in Editors \ {e} : save'[f] = save[f]
      <3> HIDE DEF n
      <3>1. save' = [save EXCEPT ![e].step = "done", ![e].version = n]
        BY <1>3 DEF Docs!Update, n
      <3>2. save[e] \in Docs!Save
        BY <1>0
      <3>3. save'[e] = [save[e] EXCEPT !.step = "done", !.version = n]
        BY <1>0, <3>1
      <3>4. save'[e].found = a /\ save'[e].version = n /\ save'[e].body = b
        BY <3>2, <3>3 DEF Docs!Save
      <3> QED BY <1>0, <3>1, <3>4
    <2> HIDE DEF a, n, b
    <2>6. /\ article'[a].version = n /\ article'[a].body = b
          /\ \A x \in Articles \ {a} : article'[x] = article[x]
      BY <1>0, <2>1, <2>4
    <2> QED BY <2>1, <2>2, <2>3, <2>5, <2>6, HistoryGrows
  <1>4. ASSUME NEW e \in Editors, Docs!Create(e) PROVE \A a \in Articles : History(a)'
    <2>1. PICK a \in Articles :
            /\ ~Docs!Exists(a)
            /\ article' = [article EXCEPT ![a] = [slug |-> save[e].slug, body |-> save[e].body, version |-> 1]]
            /\ versions' = Docs!Inserted(a, 1, save[e].body)
            /\ save' = [save EXCEPT ![e].step = "done", ![e].found = a, ![e].version = 1]
      BY <1>4 DEF Docs!Create
    <2> DEFINE b == save[e].body
    <2>2. article[a].version = 0
      BY <1>0, <2>1, DocsAssumption DEF Docs!Exists, Docs!Row, Docs!Absent
    <2>3. versions' = versions \cup {Docs!Snap(a, 1, b)}
      <3>1. \A s \in versions : s.article = a => s.version \in 1..article[a].version
        BY <2>1 DEF DocsInv, History
      <3> QED BY <2>1, <2>2, <3>1 DEF Docs!Inserted
    <2>4. /\ article'[a].version = 1 /\ article'[a].body = b
          /\ \A x \in Articles \ {a} : article'[x] = article[x]
      BY <1>0, <2>1
    <2>5. save'[e].found = a /\ save'[e].version = 1 /\ save'[e].body = b /\ \A f \in Editors \ {e} : save'[f] = save[f]
      BY <1>0, <2>1 DEF Docs!Save
    <2> QED BY <2>2, <2>3, <2>4, <2>5, HistoryGrows
  <1>5. ASSUME NEW e \in Editors,
               \/ \E a \in Articles : Docs!Open(e, a)
               \/ Docs!OpenNew(e) \/ Docs!Close(e)
               \/ \E s \in Slugs, b \in Bodies : Docs!Post(e, s, b)
               \/ Docs!Answer(e) \/ Docs!AnswerLost(e)
               \/ Docs!CheckLibrary(e) \/ Docs!Select(e) \/ Docs!SelectNone(e) \/ Docs!Fail(e)
        PROVE  /\ UNCHANGED <<article, versions>>
               /\ \A f \in Editors : save'[f].step = "done" => save'[f] = save[f]
    <2>1. UNCHANGED <<article, versions>>
      BY <1>5 DEF Docs!Open, Docs!OpenNew, Docs!Close, Docs!Post, Docs!Answer, Docs!AnswerLost, Docs!CheckLibrary,
                  Docs!Select, Docs!SelectNone, Docs!Fail
    <2>2. \/ UNCHANGED save
          \/ \E r : r.step # "done" /\ save' = [save EXCEPT ![e] = r]
      <3>1. ASSUME NEW s, s # "done", save' = [save EXCEPT ![e].step = s]
            PROVE  \E r : r.step # "done" /\ save' = [save EXCEPT ![e] = r]
        BY <1>0, <3>1 DEF Docs!Save
      <3>2. Docs!Idle.step # "done"
        BY DEF Docs!Idle
      <3>3. CASE \E a \in Articles : Docs!Open(e, a)
        BY <3>3 DEF Docs!Open
      <3>4. CASE Docs!OpenNew(e) \/ Docs!Close(e)
        BY <3>4 DEF Docs!OpenNew, Docs!Close
      <3>5. ASSUME NEW s \in Slugs, NEW b \in Bodies, Docs!Post(e, s, b)
            PROVE  \E r : r.step # "done" /\ save' = [save EXCEPT ![e] = r]
        BY <3>5 DEF Docs!Post, Docs!Idle
      <3>6. CASE Docs!Answer(e) \/ Docs!AnswerLost(e) \/ Docs!Fail(e)
        BY <3>2, <3>6 DEF Docs!Answer, Docs!AnswerLost, Docs!Fail
      <3>7. CASE Docs!CheckLibrary(e)
        BY <3>1, <3>7 DEF Docs!CheckLibrary
      <3>8. CASE Docs!SelectNone(e)
        BY <3>1, <3>8 DEF Docs!SelectNone
      <3>9. CASE Docs!Select(e)
        <4>1. PICK a \in Articles : save' = [save EXCEPT ![e].step = "found", ![e].found = a,
                                                        ![e].version = article[a].version]
          BY <3>9 DEF Docs!Select
        <4>2. [save[e] EXCEPT !.step = "found", !.found = a, !.version = article[a].version].step = "found"
          BY <1>0 DEF Docs!Save
        <4> QED BY <4>1, <4>2
      <3> QED BY <1>5, <3>3, <3>4, <3>5, <3>6, <3>7, <3>8, <3>9
    <2> QED BY <1>0, <2>1, <2>2
  <1>6. ASSUME Docs!ArchiveLibrary
        PROVE  /\ UNCHANGED <<article, versions>>
               /\ \A f \in Editors : save'[f].step = "done" => save'[f] = save[f]
    BY <1>6 DEF Docs!ArchiveLibrary
  <1> QED BY <1>1, <1>2, <1>3, <1>4, <1>5, <1>6 DEF Docs!Next

\* Types and histories hold in every reachable state.
LEMMA DocsInvCorrect == Docs!Spec => []DocsInv
  <1>1. DocsInv /\ [Docs!Next]_docs => DocsInv'
    <2>1. DocsInv /\ UNCHANGED docs => DocsTypes'
      BY DEF docs, DocsInv, DocsTypes, Docs!TypeOK, SaveTypes
    <2> QED BY <2>1, DocsTypeStep, HistoryStep DEF DocsInv
  <1> QED BY <1>1, DocsInit, PTL DEF Docs!Spec, Docs!vars, docs

\* Every save of an article leaves its snapshot: the snapshots of an article are
\* numbered 1 to its version_num and the newest holds its text, however the saves
\* of any number of pages interleave (saveDocsArticle).
THEOREM HistoryCorrect == Docs!Spec => []HistoryMatches
  <1>1. DocsInv => HistoryMatches
    BY HistoryByArticle DEF DocsInv
  <1> QED BY <1>1, DocsInvCorrect, PTL

\* The page shows an article, and nothing has renamed it behind the page.
Following(e) == (page[e].mode = "edit" \/ save[e].step = "done") /\ ~moved[e]
\* idx_docs_article_slug_per_library: no two articles with one slug.
SlugsDiffer ==
    \A a, b \in Articles : Docs!Exists(a) /\ Docs!Exists(b) /\ article[a].slug = article[b].slug => a = b
\* What the page and its request still know of the article: original_slug, or the
\* slug just saved, is its slug, and the SELECT can only find that article.
Follows(e) ==
    /\ page[e].mode = "closed" => save[e].step = "idle"
    /\ save[e].step \in Sending => save[e].original = page[e].original
    /\ Following(e) =>
         /\ page[e].article \in Articles /\ Docs!Exists(page[e].article)
         /\ article[page[e].article].slug = IF save[e].step = "done" THEN save[e].slug ELSE page[e].original
         /\ save[e].step = "found" => save[e].found = page[e].article
         /\ save[e].step \notin {"missing", "norows"}
StrayInv == SlugsDiffer /\ \A e \in Editors : Follows(e)

\* No page is open at the start.
LEMMA StrayInit == Docs!Init => StrayInv
  <1> SUFFICES ASSUME Docs!Init PROVE StrayInv OBVIOUS
  <1>1. SlugsDiffer
    BY DocsAssumption DEF Docs!Init, SlugsDiffer, Docs!Exists, Docs!Absent
  <1>2. \A e \in Editors : Follows(e)
    BY DEF Docs!Init, Follows, Following, Docs!Closed, Docs!Idle, Sending
  <1> QED BY <1>1, <1>2 DEF StrayInv

\* A page that neither moves nor is renamed keeps what it follows.
LEMMA FollowsKept ==
    ASSUME NEW e \in Editors, Follows(e), page'[e] = page[e], save'[e] = save[e], moved'[e] = moved[e],
           UNCHANGED article
    PROVE  Follows(e)'
  BY DEF Follows, Following, Docs!Exists

\* The slugs stay apart when no row is written.
LEMMA SlugsKept == ASSUME SlugsDiffer, UNCHANGED article PROVE SlugsDiffer'
  BY DEF SlugsDiffer, Docs!Exists

\* A row written under a slug nobody else has.
LEMMA SlugsWritten ==
    ASSUME DocsTypes, SlugsDiffer, NEW a \in Articles, NEW r, Docs!Free(r.slug, a), article' = [article EXCEPT ![a] = r]
    PROVE  SlugsDiffer'
  BY DEF SlugsDiffer, Docs!Exists, Docs!Free, DocsTypes, Docs!TypeOK

\* Every step keeps StrayInv: a rename by another page marks the page as moved.
LEMMA StrayStep == DocsInv /\ StrayInv /\ [Docs!Next]_docs => StrayInv'
  <1> SUFFICES ASSUME DocsInv, StrayInv, [Docs!Next]_docs PROVE StrayInv' OBVIOUS
  <1> USE DocsAssumption
  <1>0. /\ save \in [Editors -> Docs!Save] /\ article \in [Articles -> Docs!Row]
        /\ page \in [Editors -> Docs!Page] /\ moved \in [Editors -> BOOLEAN]
        /\ DocsTypes /\ SaveTypes
    BY DEF DocsInv, DocsTypes, Docs!TypeOK
  <1>a. \A a \in Articles : Docs!Exists(a) => article[a].slug \in Slugs
    BY <1>0 DEF Docs!Exists, Docs!Row, Docs!Absent
  <1>b. SlugsDiffer /\ \A e \in Editors : Follows(e)
    BY DEF StrayInv
  <1>c. ASSUME NEW e \in Editors, UNCHANGED article,
               \A f \in Editors \ {e} : page'[f] = page[f] /\ save'[f] = save[f] /\ moved'[f] = moved[f],
               Follows(e)'
        PROVE  StrayInv'
    BY <1>b, <1>c, FollowsKept, SlugsKept DEF StrayInv
  <1>1. CASE UNCHANGED docs
    BY <1>1, <1>b, FollowsKept, SlugsKept DEF docs, StrayInv
  <1>2. ASSUME NEW e \in Editors, NEW a \in Articles, Docs!Open(e, a) PROVE StrayInv'
    <2>1. Follows(e)'
      BY <1>0, <1>2, <1>b DEF Docs!Open, Follows, Following, Docs!Exists, Sending
    <2> QED BY <1>0, <1>2, <1>c, <2>1 DEF Docs!Open
  <1>3. ASSUME NEW e \in Editors, Docs!OpenNew(e) PROVE StrayInv'
    <2>1. Follows(e)'
      BY <1>0, <1>3, <1>b DEF Docs!OpenNew, Follows, Following, Docs!Exists, Sending
    <2> QED BY <1>0, <1>3, <1>c, <2>1 DEF Docs!OpenNew
  <1>4. ASSUME NEW e \in Editors, Docs!Close(e) PROVE StrayInv'
    <2>1. Follows(e)'
      BY <1>0, <1>4 DEF Docs!Close, Docs!Closed, Follows, Following, Docs!Exists, Sending
    <2> QED BY <1>4, <1>c, <2>1 DEF Docs!Close
  <1>5. ASSUME NEW e \in Editors, NEW s \in Slugs, NEW b \in Bodies, Docs!Post(e, s, b) PROVE StrayInv'
    <2>1. save'[e].step = "posted" /\ save'[e].original = page[e].original
      BY <1>0, <1>5 DEF Docs!Post, Docs!Idle
    <2>2. Follows(e)'
      BY <1>0, <1>5, <1>b, <2>1 DEF Docs!Post, Follows, Following, Docs!Exists
    <2> QED BY <1>5, <1>c, <2>2 DEF Docs!Post
  <1>6. ASSUME NEW e \in Editors, Docs!Answer(e) PROVE StrayInv'
    <2>1. /\ page'[e].mode = "edit" /\ page'[e].original = save[e].slug /\ page'[e].article = page[e].article
          /\ save'[e].step = "idle"
      BY <1>0, <1>6 DEF Docs!Answer, Docs!Synced, Docs!Idle, Docs!Page
    <2>2. Follows(e)'
      BY <1>0, <1>6, <1>b, <2>1 DEF Docs!Answer, Follows, Following, Docs!Exists, Sending
    <2> QED BY <1>6, <1>c, <2>2 DEF Docs!Answer
  <1>7. ASSUME NEW e \in Editors, Docs!AnswerLost(e) PROVE StrayInv'
    <2>1. Follows(e)'
      BY <1>0, <1>7 DEF Docs!AnswerLost, Docs!Idle, Follows, Following, Docs!Exists, Sending
    <2> QED BY <1>0, <1>7, <1>c, <2>1 DEF Docs!AnswerLost
  <1>8. ASSUME NEW e \in Editors, Docs!Fail(e) PROVE StrayInv'
    <2>1. Follows(e)'
      BY <1>0, <1>8, <1>b DEF Docs!Fail, Docs!Idle, Follows, Following, Docs!Exists, Sending
    <2> QED BY <1>8, <1>c, <2>1 DEF Docs!Fail
  <1>9. ASSUME NEW e \in Editors, Docs!CheckLibrary(e) PROVE StrayInv'
    <2>1. save'[e].step = "checked" /\ save'[e].original = save[e].original
      BY <1>0, <1>9 DEF Docs!CheckLibrary, Docs!Save
    <2>2. Follows(e)'
      BY <1>0, <1>9, <1>b, <2>1 DEF Docs!CheckLibrary, Follows, Following, Docs!Exists, Sending
    <2> QED BY <1>9, <1>c, <2>2 DEF Docs!CheckLibrary
  <1>d. ASSUME NEW e \in Editors, save[e].step = "checked", Following(e)
        PROVE  /\ page[e].article \in Articles /\ Docs!Exists(page[e].article)
               /\ article[page[e].article].slug = Docs!Key(save[e])
    <2>1. /\ page[e].article \in Articles /\ Docs!Exists(page[e].article)
          /\ article[page[e].article].slug = page[e].original /\ save[e].original = page[e].original
      BY <1>b, <1>d DEF Follows, Sending
    <2> QED BY <1>a, <2>1 DEF Docs!Key
  <1>10. ASSUME NEW e \in Editors, Docs!SelectNone(e) PROVE StrayInv'
    <2>1. save'[e].step \in {"missing", "norows"} /\ save'[e].original = save[e].original /\ ~Following(e)
      BY <1>0, <1>10, <1>d DEF Docs!SelectNone, Docs!Save
    <2>2. Follows(e)'
      BY <1>0, <1>10, <1>b, <2>1 DEF Docs!SelectNone, Follows, Following, Docs!Exists, Sending
    <2> QED BY <1>10, <1>c, <2>2 DEF Docs!SelectNone
  <1>11. ASSUME NEW e \in Editors, Docs!Select(e) PROVE StrayInv'
    <2>1. PICK a \in Articles : /\ Docs!Exists(a) /\ article[a].slug = Docs!Key(save[e])
                                /\ save' = [save EXCEPT ![e].step = "found", ![e].found = a,
                                                        ![e].version = article[a].version]
      BY <1>11 DEF Docs!Select
    <2>2. save'[e].step = "found" /\ save'[e].original = save[e].original /\ save'[e].found = a
      BY <1>0, <2>1 DEF Docs!Save
    <2>3. Following(e) => page[e].article = a
      BY <1>11, <1>b, <1>d, <2>1 DEF SlugsDiffer, Docs!Select
    <2>4. Follows(e)'
      BY <1>0, <1>11, <1>b, <2>2, <2>3 DEF Docs!Select, Follows, Following, Docs!Exists, Sending
    <2> QED BY <1>0, <1>11, <1>c, <2>1, <2>4 DEF Docs!Select
  <1>12. ASSUME NEW e \in Editors, Docs!Update(e) PROVE StrayInv'
    <2> DEFINE a == save[e].found
               n == Docs!NextVersion(e)
               r == [slug |-> save[e].slug, body |-> save[e].body, version |-> n]
    <2>1. a \in Articles /\ save[e].slug \in Slugs
      BY <1>0, <1>12 DEF Docs!Update, SaveTypes, Sending
    <2>2. n \in Nat /\ n > 0 /\ article' = [article EXCEPT ![a] = r] /\ Docs!Free(r.slug, a)
      BY <1>0, <1>12, <2>1 DEF Docs!Update, Docs!NextVersion, Docs!Row, Docs!Absent
    <2>3. SlugsDiffer'
      BY <1>0, <1>b, <2>1, <2>2, SlugsWritten
    <2>4. /\ save'[e].step = "done" /\ save'[e].slug = save[e].slug /\ page'[e].article = a
          /\ page'[e].mode = page[e].mode
      <3> HIDE DEF n
      <3>1. save' = [save EXCEPT ![e].step = "done", ![e].version = n] /\ page' = [page EXCEPT ![e].article = a]
        BY <1>12 DEF Docs!Update, n
      <3> QED BY <1>0, <3>1 DEF Docs!Save, Docs!Page
    <2>5. article'[a].slug = save[e].slug /\ article'[a].version > 0
      BY <1>0, <2>1, <2>2
    <2>6. Follows(e)'
      BY <1>12, <1>b, <2>1, <2>4, <2>5 DEF Follows, Following, Docs!Exists, Sending, Docs!Update
    <2>7. ASSUME NEW f \in Editors \ {e} PROVE Follows(f)'
      <3>1. save'[f] = save[f] /\ page'[f] = page[f]
        BY <1>0, <1>12 DEF Docs!Update
      <3>2. moved'[f] = (moved[f] \/ (page[f].article = a /\ article[a].slug # save[e].slug))
        BY <1>12, <2>7 DEF Docs!Update, Docs!Overtaken
      <3>3. Following(f)' => Following(f) /\ (page[f].article = a => article[a].slug = save[e].slug)
        BY <3>1, <3>2 DEF Following
      <3>4. \A b \in Articles \ {a} : article'[b] = article[b]
        BY <2>2
      <3> QED BY <1>b, <2>5, <3>1, <3>3, <3>4 DEF Follows, Docs!Exists
    <2> QED BY <2>3, <2>6, <2>7 DEF StrayInv
  <1>13. ASSUME NEW e \in Editors, Docs!Create(e) PROVE StrayInv'
    <2>1. PICK a \in Articles :
            /\ ~Docs!Exists(a) /\ Docs!Free(save[e].slug, a)
            /\ article' = [article EXCEPT ![a] = [slug |-> save[e].slug, body |-> save[e].body, version |-> 1]]
            /\ save' = [save EXCEPT ![e].step = "done", ![e].found = a, ![e].version = 1]
            /\ page' = [page EXCEPT ![e].article = a]
            /\ moved' = moved /\ save[e].step = "missing"
      BY <1>13 DEF Docs!Create
    <2>3. SlugsDiffer'
      <3> DEFINE r == [slug |-> save[e].slug, body |-> save[e].body, version |-> 1]
      <3>1. Docs!Free(r.slug, a) /\ article' = [article EXCEPT ![a] = r]
        BY <2>1
      <3> HIDE DEF r
      <3> QED BY <1>0, <1>b, <3>1, SlugsWritten
    <2>4. /\ save'[e].step = "done" /\ save'[e].slug = save[e].slug /\ page'[e].article = a
          /\ page'[e].mode = page[e].mode
      BY <1>0, <2>1 DEF Docs!Save, Docs!Page
    <2>5. article'[a].slug = save[e].slug /\ article'[a].version = 1
      BY <1>0, <2>1
    <2>6. Follows(e)'
      BY <1>b, <2>1, <2>4, <2>5 DEF Follows, Following, Docs!Exists, Sending
    <2>7. ASSUME NEW f \in Editors \ {e} PROVE Follows(f)'
      <3>1. save'[f] = save[f] /\ page'[f] = page[f] /\ moved'[f] = moved[f]
        BY <1>0, <2>1
      <3>2. Following(f)' => Following(f) /\ page[f].article # a
        BY <1>b, <2>1, <3>1 DEF Following, Follows
      <3>4. \A b \in Articles \ {a} : article'[b] = article[b]
        BY <2>1
      <3> QED BY <1>b, <3>1, <3>2, <3>4 DEF Follows, Docs!Exists
    <2> QED BY <2>3, <2>6, <2>7 DEF StrayInv
  <1>14. CASE Docs!ArchiveLibrary
    BY <1>14, <1>b, FollowsKept, SlugsKept DEF Docs!ArchiveLibrary, StrayInv
  <1> QED BY <1>1, <1>2, <1>3, <1>4, <1>5, <1>6, <1>7, <1>8, <1>9, <1>10, <1>11, <1>12, <1>13, <1>14 DEF Docs!Next

\* A page saves another article than the one it shows only after that article's
\* slug has moved behind it, by another page or by a save of its own whose answer
\* was lost (original_slug, the SELECT by slug of saveDocsArticle).
THEOREM StraysNeedAMove == Docs!Spec => StraysOnlyAfterMove
  <1>1. DocsInv /\ StrayInv /\ [Docs!Next]_(Docs!vars)
        => [\A p \in Editors : Docs!Stray(p) => moved[p]]_(Docs!vars)
    <2> SUFFICES ASSUME DocsInv, StrayInv, Docs!Next, NEW e \in Editors, Docs!Stray(e), ~moved[e] PROVE FALSE
      OBVIOUS
    <2>0. /\ page \in [Editors -> Docs!Page] /\ Follows(e) /\ Following(e)
          /\ page[e].mode = "edit" /\ page'[e].mode = "edit" /\ page'[e].article # page[e].article
      BY DEF DocsInv, DocsTypes, Docs!TypeOK, StrayInv, Docs!Stray, Following
    <2>1. ASSUME NEW f \in Editors, Docs!Update(f) PROVE FALSE
      BY <2>0, <2>1 DEF Docs!Update, Follows
    <2>2. ASSUME NEW f \in Editors, Docs!Create(f) PROVE FALSE
      BY <2>0, <2>2 DEF Docs!Create, Follows
    <2>3. ASSUME NEW f \in Editors, Docs!Answer(f) PROVE FALSE
      BY <2>0, <2>3 DEF Docs!Answer, Docs!Synced, Docs!Page
    <2>4. ASSUME NEW f \in Editors, Docs!Close(f) \/ Docs!OpenNew(f) \/ \E a \in Articles : Docs!Open(f, a) PROVE FALSE
      BY <2>0, <2>4 DEF Docs!Close, Docs!Closed, Docs!OpenNew, Docs!Open
    <2>5. CASE UNCHANGED page
      BY <2>0, <2>5
    <2> QED BY <2>1, <2>2, <2>3, <2>4, <2>5 DEF Docs!Next, Docs!Post, Docs!AnswerLost, Docs!CheckLibrary, Docs!Select,
         Docs!SelectNone, Docs!Fail, Docs!ArchiveLibrary
  <1>2. Docs!Spec => []StrayInv
    BY StrayInit, StrayStep, DocsInvCorrect, PTL DEF Docs!Spec, Docs!vars, docs
  <1> QED BY <1>1, <1>2, DocsInvCorrect, PTL DEF Docs!Spec, StraysOnlyAfterMove, Docs!StraysOnlyAfterMove

=============================================================================
