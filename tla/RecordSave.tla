----------------------------- MODULE RecordSave -----------------------------
(***************************************************************************)
(* One record and everything that writes it: the record page of the        *)
(* browser (web/templates/form-view.html) through HandleSave with its      *)
(* expected version, API saves without one, bulk updates                   *)
(* (cmd/server/handleBulkUpdate.go) and scripts (ScriptOps.go); the audit  *)
(* trail (DataChangeAudit.go) and the realtime event that follow a commit. *)
(*                                                                         *)
(* A write is one UPDATE; the record it was computed from is read earlier. *)
(* The trigger _touch_record_version counts every write that changes the   *)
(* row, and every write does, since it sets _updated_at.                   *)
(***************************************************************************)
EXTENDS Naturals, Sequences, FiniteSets

CONSTANTS
    Fields,       \* nullable typed fields of the record on the form
    Values,       \* what a field can hold besides NULL
    Null,         \* NULL; the form shows and submits it as a blank
    Pages,        \* browser tabs with the record's page
    Writers,      \* other writers, each with one request
    Kind,         \* "api", "bulk" or "script" for each of them
    MaxVersion    \* bound: the record is written that many times

ASSUME SaveAssumption ==
    /\ Null \notin Values
    /\ Kind \in [Writers -> {"api", "bulk", "script"}]
    /\ MaxVersion \in Nat

VARIABLES
    record,       \* the row's fields
    version,      \* its _update_count
    pc,           \* each page: "closed", "open", "posted", "committed", "answered"
    form,         \* the values in the page's controls
    baseline,     \* the values the page compares with to know it is dirty
    expected,     \* the hidden field expected_version
    old,          \* the snapshot HandleSave read for the page's request
    wpc,          \* each other writer: "idle", "read", "committed", "snapshot", "done"
    wold,         \* the snapshot it read
    patch,        \* the fields it submits, as a function on some of Fields
    wversion,     \* the version it wrote
    wnew,         \* the snapshot it audits as new
    inbox,        \* pages a record.changed event is under way to
    audit,        \* the rows of _audit_data_change
    shown,        \* history: the version whose values the page shows
    refreshed,    \* history: pages that took a version without its values
    history,      \* history: the record at every version, from 0
    author,       \* history: what kind of request wrote each version, from 1
    lost          \* history: a crash or a failed insert may have lost audit rows

pageVars == <<pc, form, baseline, expected, old, shown, refreshed>>
writerVars == <<wpc, wold, patch, wversion, wnew>>
rowVars == <<record, version, history, author>>
vars == <<rowVars, pageVars, writerVars, inbox, audit, lost>>

Blankable == Values \cup {Null}
Records == [Fields -> Blankable]
Patches == UNION {[S -> Blankable] : S \in SUBSET Fields}
Empty == [f \in Fields |-> Null]
Dirty(p) == form[p] # baseline[p]

Init ==
    /\ record = Empty /\ version = 0
    /\ pc = [p \in Pages |-> "closed"]
    /\ form = [p \in Pages |-> Empty] /\ baseline = form /\ old = form
    /\ expected = [p \in Pages |-> 0] /\ shown = expected
    /\ wpc = [w \in Writers |-> "idle"]
    /\ wold = [w \in Writers |-> Empty] /\ wnew = wold
    /\ patch = wold
    /\ wversion = [w \in Writers |-> 0]
    /\ inbox = {} /\ audit = {} /\ refreshed = {}
    /\ history = <<Empty>> /\ author = <<>>
    /\ lost = FALSE

-----------------------------------------------------------------------------
(* The write.                                                              *)

\* applyRuntimeTriggerRecordToFormData keeps the fields that differ from the
\* snapshot read, and moves those that became NULL out of the form data: the
\* UPDATE of HandleSave and of updateScriptRecordWithQuerier lists form data
\* only, so it leaves them alone.
ChangedFieldsSwapped(from, values) ==                               \* mutant: the wrong side's NULL
    {f \in DOMAIN values : values[f] # from[f] /\ from[f] # Null}
ChangedFields(from, values) ==
    {f \in DOMAIN values : values[f] # from[f] /\ values[f] # Null}

\* The UPDATE sets these fields and nothing else.
Updated(fields, values) == [f \in Fields |-> IF f \in fields THEN values[f] ELSE record[f]]

Commit(values, kind) ==
    /\ version < MaxVersion
    /\ record' = values
    /\ version' = version + 1
    /\ history' = Append(history, values)
    /\ author' = Append(author, kind)

\* PublishRecordChange reaches the pages that listen, or drops; a page ignores
\* the events of its own saves.
Publish(listeners) == \E reached \in SUBSET listeners : inbox' = inbox \cup reached
Open == {p \in Pages : pc[p] # "closed"}

\* CaptureDataChange after the commit, an error of which is only logged.
SideEffects(entry, listeners) ==
    /\ \/ audit' = audit \cup {entry} /\ UNCHANGED lost
       \/ lost' = TRUE /\ UNCHANGED audit
    /\ Publish(listeners)

-----------------------------------------------------------------------------
(* The page.                                                               *)

\* GET of the form, or a reload of it.
PageLoad(p) ==
    /\ pc[p] \in {"closed", "open"}
    /\ pc' = [pc EXCEPT ![p] = "open"]
    /\ form' = [form EXCEPT ![p] = record] /\ baseline' = [baseline EXCEPT ![p] = record]
    /\ expected' = [expected EXCEPT ![p] = version] /\ shown' = [shown EXCEPT ![p] = version]
    /\ refreshed' = refreshed \ {p} /\ inbox' = inbox \ {p}
    /\ UNCHANGED <<rowVars, old, writerVars, audit, lost>>

\* The user fills or clears one field.
PageEdit(p) ==
    /\ pc[p] = "open"
    /\ \E f \in Fields, v \in Blankable : form' = [form EXCEPT ![p][f] = v]
    /\ UNCHANGED <<rowVars, pc, baseline, expected, old, shown, refreshed, writerVars, inbox, audit, lost>>

\* HandleSave up to its transaction: the snapshot, and "No changes to save".
PagePost(p) ==
    /\ pc[p] = "open"
    /\ IF form[p] = record
         THEN baseline' = [baseline EXCEPT ![p] = form[p]] /\ UNCHANGED <<pc, old>>
         ELSE /\ pc' = [pc EXCEPT ![p] = "posted"]
              /\ old' = [old EXCEPT ![p] = record]
              /\ UNCHANGED baseline
    /\ UNCHANGED <<rowVars, form, expected, shown, refreshed, writerVars, inbox, audit, lost>>

\* UPDATE ... WHERE _id = $n AND _update_count = expected, and the commit.
PageCommitIf(p, current) ==
    /\ pc[p] = "posted" /\ current
    /\ Commit(Updated(ChangedFields(old[p], form[p]), form[p]), "page")
    /\ pc' = [pc EXCEPT ![p] = "committed"]
    /\ shown' = [shown EXCEPT ![p] = version + 1]
    /\ refreshed' = refreshed \ {p}
    /\ UNCHANGED <<form, baseline, expected, old, writerVars, inbox, audit, lost>>

PageCommitAnyway(p) == PageCommitIf(p, TRUE)                        \* mutant: no version in WHERE
PageCommitNotOlder(p) == PageCommitIf(p, expected[p] <= version)    \* mutant: wrong comparison
PageCommit(p) == PageCommitIf(p, expected[p] = version)

\* No row: 409, "Record changed by another user; refresh and try again".  Any
\* other error before the commit rolls back the same way.
PageRefused(p) ==
    /\ pc[p] = "posted"
    /\ pc' = [pc EXCEPT ![p] = "open"]
    /\ UNCHANGED <<rowVars, form, baseline, expected, old, shown, refreshed, writerVars, inbox, audit, lost>>

\* After the commit: audit row, realtime event, 303.
PageEffects(p) ==
    /\ pc[p] = "committed"
    /\ SideEffects([kind |-> "page", version |-> shown[p], old |-> old[p], new |-> history[shown[p] + 1]],
                   Open \ {p})
    /\ pc' = [pc EXCEPT ![p] = "answered"]
    /\ UNCHANGED <<rowVars, form, baseline, expected, old, shown, refreshed, writerVars>>

\* The browser follows the 303; the header X-Velm-Record-Version of the page it
\* gets goes into expected_version, and hx-swap "none" keeps the controls.
PageAnswered(p) ==
    /\ pc[p] = "answered"
    /\ pc' = [pc EXCEPT ![p] = "open"]
    /\ baseline' = [baseline EXCEPT ![p] = form[p]]
    /\ expected' = [expected EXCEPT ![p] = version]
    /\ refreshed' = IF version = shown[p] THEN refreshed ELSE refreshed \cup {p}
    /\ UNCHANGED <<rowVars, form, old, shown, writerVars, inbox, audit, lost>>

\* The handler of record.changed: recordVersionHasChanged fetches the version
\* and stores it in expected_version; a clean page reloads, a dirty one shows a
\* banner and keeps its controls.
PageEvent(p) ==
    /\ p \in inbox /\ pc[p] = "open"
    /\ inbox' = inbox \ {p}
    /\ IF expected[p] # version /\ ~Dirty(p)
         THEN /\ form' = [form EXCEPT ![p] = record] /\ baseline' = [baseline EXCEPT ![p] = record]
              /\ shown' = [shown EXCEPT ![p] = version]
              /\ refreshed' = refreshed \ {p}
         ELSE /\ refreshed' = IF expected[p] = version THEN refreshed ELSE refreshed \cup {p}
              /\ UNCHANGED <<form, baseline, shown>>
    /\ expected' = [expected EXCEPT ![p] = version]
    /\ UNCHANGED <<rowVars, pc, old, writerVars, audit, lost>>

-----------------------------------------------------------------------------
(* The other writers.                                                      *)

\* The snapshot, read before the UPDATE and, but for a script, outside its
\* transaction.
WriterRead(w) ==
    /\ wpc[w] = "idle"
    /\ \E values \in Patches \ {<<>>} : patch' = [patch EXCEPT ![w] = values]
    /\ wold' = [wold EXCEPT ![w] = record]
    /\ wpc' = [wpc EXCEPT ![w] = "read"]
    /\ UNCHANGED <<rowVars, pageVars, wversion, wnew, inbox, audit, lost>>

\* Bulk updates set every field submitted; the others what they changed.
WriterFields(w) ==
    IF Kind[w] = "bulk" THEN DOMAIN patch[w] ELSE ChangedFields(wold[w], patch[w])

\* "No changes to save": compared with the snapshot, blanks included, by
\* HandleSave.  Bulk updates do not ask; a script asks with _updated_at already
\* among its fields, which no snapshot compares equal to, so it always updates.
NothingToSave(w) == Kind[w] = "api" /\ \A f \in DOMAIN patch[w] : patch[w][f] = wold[w][f]

\* The request ends without a write: nothing to save, refused or failed.
WriterStops(w) ==
    /\ wpc[w] = "read"
    /\ wpc' = [wpc EXCEPT ![w] = "done"]
    /\ UNCHANGED <<rowVars, pageVars, wold, patch, wversion, wnew, inbox, audit, lost>>

WriterCommitThen(w, next) ==
    /\ wpc[w] = "read" /\ ~NothingToSave(w)
    /\ Commit(Updated(WriterFields(w), patch[w]), Kind[w])
    /\ wversion' = [wversion EXCEPT ![w] = version + 1]
    /\ wnew' = [wnew EXCEPT ![w] = record']
    /\ wpc' = [wpc EXCEPT ![w] = next]
    /\ UNCHANGED <<pageVars, wold, patch, inbox, audit, lost>>

\* A script neither audits nor publishes; handleBulkUpdate reads once more.
AfterCommit == [api |-> "committed", bulk |-> "snapshot", script |-> "done"]
WriterCommit(w) == WriterCommitThen(w, AfterCommit[Kind[w]])

\* handleBulkUpdate reads the new snapshot after its UPDATE has committed.
BulkSnapshot(w) ==
    /\ wpc[w] = "snapshot"
    /\ wnew' = [wnew EXCEPT ![w] = record]
    /\ wpc' = [wpc EXCEPT ![w] = "committed"]
    /\ UNCHANGED <<rowVars, pageVars, wold, patch, wversion, inbox, audit, lost>>

WriterEffects(w) ==
    /\ wpc[w] = "committed"
    /\ SideEffects([kind |-> Kind[w], version |-> wversion[w], old |-> wold[w], new |-> wnew[w]],
                   Open)
    /\ wpc' = [wpc EXCEPT ![w] = "done"]
    /\ UNCHANGED <<rowVars, pageVars, wold, patch, wversion, wnew>>

-----------------------------------------------------------------------------
\* The server dies: requests in flight and events are gone; pages stay open.
Crash ==
    /\ ~lost
    /\ lost' = TRUE
    /\ pc' = [p \in Pages |-> IF pc[p] = "closed" THEN "closed" ELSE "open"]
    /\ wpc' = [w \in Writers |-> IF wpc[w] = "idle" THEN "idle" ELSE "done"]
    /\ inbox' = {}
    /\ UNCHANGED <<rowVars, form, baseline, expected, old, shown, refreshed,
                   wold, patch, wversion, wnew, audit>>

Page(p) == \/ PageLoad(p) \/ PageEdit(p) \/ PagePost(p) \/ PageCommit(p) \/ PageRefused(p)
           \/ PageEffects(p) \/ PageAnswered(p) \/ PageEvent(p)
Writer(w) == WriterRead(w) \/ WriterStops(w) \/ WriterCommit(w) \/ BulkSnapshot(w) \/ WriterEffects(w)
Next == (\E p \in Pages : Page(p)) \/ (\E w \in Writers : Writer(w)) \/ Crash

Spec == Init /\ [][Next]_vars
-----------------------------------------------------------------------------
(* Properties.                                                             *)

Entries == [kind : {"page", "api", "bulk"}, version : Nat, old : Records, new : Records]

\* Type invariant of the row, the pages, the other requests and the audit trail.
RowTypes ==
    /\ record \in Records /\ version \in Nat
    /\ history \in Seq(Records) /\ Len(history) = version + 1
    /\ author \in Seq({"page", "api", "bulk", "script"}) /\ Len(author) = version
PageTypes ==
    /\ pc \in [Pages -> {"closed", "open", "posted", "committed", "answered"}]
    /\ form \in [Pages -> Records] /\ baseline \in [Pages -> Records] /\ old \in [Pages -> Records]
    /\ expected \in [Pages -> Nat]
    /\ shown \in [Pages -> Nat] /\ (\A p \in Pages : shown[p] <= version)
    /\ refreshed \subseteq Pages /\ inbox \subseteq Pages
WriterTypes ==
    /\ wpc \in [Writers -> {"idle", "read", "committed", "snapshot", "done"}]
    /\ wold \in [Writers -> Records] /\ wnew \in [Writers -> Records]
    /\ patch \in [Writers -> Patches]
    /\ wversion \in [Writers -> Nat]
    /\ \A w \in Writers : Kind[w] = "script" => wpc[w] \in {"idle", "read", "done"}
TypeOK == RowTypes /\ PageTypes /\ WriterTypes /\ audit \subseteq Entries /\ lost \in BOOLEAN

\* The audit row of a page's save tells exactly the step its write made in the
\* record's history, though the old values were read before the transaction:
\* the expected version vouches for them (HandleSave, CaptureDataChange).
AuditExact ==
    \A e \in audit :
        e.kind = "page" =>
            /\ e.version \in 1..version /\ author[e.version] = "page"
            /\ e.old = history[e.version] /\ e.new = history[e.version + 1]

\* Every committed save, API save and bulk update is audited or about to be,
\* unless the server died or an insert failed.
Pending(v) ==
    \/ \E p \in Pages : pc[p] = "committed" /\ shown[p] = v
    \/ \E w \in Writers : wpc[w] \in {"committed", "snapshot"} /\ wversion[w] = v
AuditComplete ==
    ~lost => \A v \in 1..version : author[v] # "script" =>
                 Pending(v) \/ \E e \in audit : e.version = v

\* A page's save stores every value on its form that is not blank, also in the
\* fields the UPDATE leaves out for being unchanged since the snapshot.
Saves(p) == pc[p] = "posted" /\ pc'[p] = "committed"
SavedValuesStored ==
    [][\A p \in Pages : Saves(p) =>
          \A f \in Fields : form[p][f] # Null => record'[f] = form[p][f]]_vars

\* HandleSave's 409, "Record changed by another user; refresh and try again":
\* a save goes through over a version whose values its page has not shown only
\* where the page itself put a newer version into its form.
OverwritesOnlyRefreshed ==
    [][\A p \in Pages : Saves(p) => shown[p] = version \/ p \in refreshed]_vars
=============================================================================
