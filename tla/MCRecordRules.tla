---------------------------- MODULE MCRecordRules ----------------------------
(***************************************************************************)
(* Instances of RecordRules and ObservabilityIngest for TLC: what the      *)
(* rules of a table let a user and a script do, and what the system's own  *)
(* ingest_event script makes of the calls it gets.  `part` says which of   *)
(* the two moves in a behaviour, so that one run explores both without     *)
(* their product: the calls come while a script of the system runs.        *)
(***************************************************************************)
EXTENDS RecordRules, TLC

CONSTANTS a, b

Rule(order, op, field, role, test, allow) ==
    [order |-> order, name |-> order, op |-> op, field |-> field, role |-> role, test |-> test, allow |-> allow]

\* Owners update and delete; all members read, but not closed records' notes.
MCSecurities == {
    [gate |-> {"member"},
     rules |-> {Rule(1, "U", Record, "member", <<"owner", a>>, TRUE), Rule(2, "D", Record, "member", <<"owner", a>>, TRUE)}],
    [gate |-> {},
     rules |-> {Rule(2, "R", Record, "member", Always, TRUE), Rule(1, "R", Record, "member", <<"state", b>>, FALSE),
                Rule(3, "U", "owner", "lead", Always, TRUE), Rule(4, "U", Record, "member", <<"state", a>>, TRUE)}],
    [gate |-> {}, rules |-> {}]}
MCRoles == {{"member"}, {"app_member", "app_lead"}, {"admin"}}
MCAppRole == [role \in {"member", "lead"} |-> IF role = "member" THEN "app_member" ELSE "app_lead"]

\* The second row is the older one; NULL comes last.
MCCreatedAt == (1 :> 7) @@ (2 :> 5)
MCPlace == (a :> 1) @@ (Null :> 2)

\* Records start open or closed, with an owner or none.
MCInitial == {[owner |-> a, state |-> b], [owner |-> b, state |-> a], [owner |-> a, state |-> a]}

Filter(field, equal, values) == [field |-> field, equal |-> equal, values |-> values]
Query(ids, all, any, limit, deleted) == [ids |-> ids, all |-> all, any |-> any, limit |-> limit, deleted |-> deleted]
MCQueries == {
    Query({}, {}, {}, 0, FALSE),
    Query(Ids, {}, {}, 5, TRUE),
    Query({}, {Filter("state", TRUE, {a})}, {}, 1, FALSE),
    Query({}, {}, {Filter("state", FALSE, {a}), Filter("owner", TRUE, {Null})}, 0, FALSE)}

-----------------------------------------------------------------------------
(* Five payloads for two observables of one entity and one definition, and  *)
(* the actions of migration 067 beside one that counts events and one that  *)
(* cancels.                                                                 *)

CONSTANTS
    d1, d2, d3, t1, t2, T1, e1, f1,
    Deliveries, Payloads, Targets, Canonical, EntityOf, DefinitionOf, Provisioned, Absent, MaxDeletes
VARIABLES part, stage, tx, answer, exists, removed, observable, log, links, touched, during
ingest == <<stage, tx, answer, exists, removed, observable, log, links, touched, during>>

Action(trigger, severity, flaps, window, type, task) ==
    [trigger |-> trigger, severity |-> severity, flaps |-> flaps, window |-> window, type |-> type, task |-> task]
MCProvisioned ==
    {Action("critical", 4, 2, TRUE, "create_task", "incident"),
     Action("critical", 4, 0, FALSE, "create_task", "problem"),
     Action("warning", Absent, 2, FALSE, "create_task", "check"),
     Action("ok", Absent, 0, FALSE, "resolve_task", "incident"),
     Action("ok", Absent, 0, FALSE, "cancel_task", "problem")}

Call(node, severity, state) ==
    [node |-> node, severity |-> severity, state |-> state, recent |-> TRUE, byId |-> FALSE, hook |-> Absent]
Hook(node, event, what) == [Call(node, Absent, Absent) EXCEPT !.hook = <<event, what>>]
MCPayloads ==
    {Call(T1, 9, Absent), Call(t1, Absent, "ok"), Call(t1, 2, "critical"),
     [Call(t1, 4, Absent) EXCEPT !.recent = FALSE, !.byId = TRUE],
     Hook(t2, "workflow_run", "failure")}
MCCanonical == (t1 :> t1) @@ (T1 :> t1) @@ (t2 :> t2)
MCEntityOf == [t \in Targets |-> e1]
MCDefinitionOf == [t \in Targets |-> f1]

\* A payload names an observable; entities, definitions and observables are
\* rows of three tables; and no action closes the tasks that another one with
\* its trigger opens (migration 067 provisions create on critical, resolve on ok).
ASSUME IngestAssumption ==
    /\ \A p \in Payloads : Canonical[Canonical[p.node]] \in Targets
    /\ \A t \in Targets : EntityOf[t] \notin Targets /\ DefinitionOf[t] \notin Targets
    /\ Absent \notin Deliveries
    /\ \A x, y \in Provisioned :
         x.trigger = y.trigger /\ x.type = "create_task" /\ y.type \in {"resolve_task", "cancel_task"} =>
             y.task \notin {Absent, x.task}
    /\ \A x \in Provisioned : x.window \in BOOLEAN

Ingest == INSTANCE ObservabilityIngest WITH pc <- stage, deleted <- removed, row <- observable
Symmetry == Permutations(Deliveries)

Unguarded == [gate |-> {}, rules |-> {}]
MCInit ==
    /\ Init /\ Ingest!Init
    /\ \/ part = "rules"
       \/ part = "ingest" /\ \A i \in Ids : rows[i].record = [owner |-> a, state |-> a]
                         /\ security = Unguarded /\ roles = {"member"}
MCNext ==
    \/ part = "rules" /\ Next /\ UNCHANGED <<part, ingest>>
    \/ part = "ingest" /\ ScriptStart /\ job'.actor = System /\ UNCHANGED <<part, ingest>>
    \/ part = "ingest" /\ ~Idle /\ Ingest!Next /\ UNCHANGED <<part, vars>>
MCSpec == MCInit /\ [][MCNext]_<<part, vars, ingest>>

\* An observable's state is its last event's unless two calls overlapped
\* (see ObservabilityIngest).
RolledUpUnlessOverlapped == Ingest!RolledUpUnlessOverlapped
\* The committed row decides which tasks are open (evaluateActions).
RowDecides == Ingest!RowDecides
\* Deliveries never wait for each other in a circle (run of the ingest script).
SomeoneProceeds == Ingest!SomeoneProceeds
=============================================================================
