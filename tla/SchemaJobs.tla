----------------------------- MODULE SchemaJobs -----------------------------
(***************************************************************************)
(* The schema builder and one table of it (db/AppBuilder.go,               *)
(* db/BuilderSchemaJobs.go): administrators add, change and drop columns   *)
(* in the published definition and in the table at once, and run jobs that *)
(* plan what the table lacks and then execute the plan.  Both read the     *)
(* definition before they hold any lock.  PostgreSQL's table locks are     *)
(* shared (reads and writes of rows) or exclusive (ALTER TABLE), kept to   *)
(* the end of the transaction, and a circle of waiters is broken by        *)
(* failing a statement; a failed statement ends its transaction.           *)
(***************************************************************************)
EXTENDS Integers, Sequences, FiniteSets, SequencesExt

CONSTANTS
    Procs,          \* requests of administrators
    Columns,        \* sequence of the names a column can have
    Rows,           \* records the table can hold
    InitialStates,  \* tables and definitions at the start, a bound
    Null,
    MaxOps, MaxCrashes  \* bounds

VARIABLES
    published,  \* the definition: column -> [type, nullable]
    physical,   \* the table: column -> [type, nullable], or Null
    rows,       \* record -> the columns it has a value in
    jobs,       \* sequence of [dry, status, steps, marks]
    proc,       \* request -> [pc, op, def, exists, job, at, mine, steps, marks]
    lock,       \* request -> "none", "share", "excl": its lock on the table
    quiet,      \* history: requests since whose start no other changed definition or table
    ops, crashes

world == <<published, physical, rows>>
vars == <<world, jobs, proc, lock, quiet, ops, crashes>>

Names == ToSet(Columns)
Column(type, nullable) == [type |-> type, nullable |-> nullable]
Types == {"text", "int"}
EmptyTable == [c \in {} |-> Column("text", TRUE)]

-----------------------------------------------------------------------------
(* The plan (buildSchemaPlanSteps).                                        *)

Step(action, column, now) == [action |-> action, column |-> column, as |-> now]
If(condition, steps) == IF condition THEN steps ELSE <<>>

NewTable(exists) ==
    If(~exists, <<Step("create_table", Null, Null), Step("ensure_record_version_trigger", Null, Null)>>)
NullabilitySwapped(c, to, from) ==                                          \* mutant
    IF to.nullable = from.nullable THEN <<>>
    ELSE IF ~to.nullable THEN <<Step("drop_not_null", c, to)>>
         ELSE <<Step("precheck_no_nulls", c, to), Step("set_not_null", c, to)>>
Nullability(c, to, from) ==
    IF to.nullable = from.nullable THEN <<>>
    ELSE IF to.nullable THEN <<Step("drop_not_null", c, to)>>
         ELSE <<Step("precheck_no_nulls", c, to), Step("set_not_null", c, to)>>
ColumnSteps(c, def, table) ==
    IF c \notin DOMAIN def THEN <<>>
    ELSE IF c \notin DOMAIN table THEN <<Step("add_column", c, def[c])>>
    ELSE If(def[c].type # table[c].type, <<Step("warn_type_drift", c, Null)>>)
         \o Nullability(c, def[c], table[c])
ExtraSteps(c, def, table) == If(c \in DOMAIN table \ DOMAIN def, <<Step("warn_extra_column", c, Null)>>)
Warns(step) == step.action \in {"warn_extra_column", "warn_type_drift"}
TableOf(now) == IF now = Null THEN EmptyTable ELSE now
Plan(exists, def, table) ==
    NewTable(exists)
    \o FlattenSeq([k \in DOMAIN Columns |-> ColumnSteps(Columns[k], def, table)])
    \o FlattenSeq([k \in DOMAIN Columns |-> ExtraSteps(Columns[k], def, table)])
Planned(steps) == [k \in DOMAIN steps |-> "planned"]

-----------------------------------------------------------------------------
(* What a statement does to the table a transaction sees.                  *)

HasNulls(c) == \E r \in DOMAIN rows : c \notin rows[r]
Fails(step, table) ==
    /\ step.action # "create_table"
    /\ \/ table = Null
       \/ step.action = "count_rows" /\ DOMAIN rows # {}
       \/ step.action = "add_column" /\ step.column \notin DOMAIN table /\ ~step.as.nullable /\ DOMAIN rows # {}
       \/ step.action \in {"drop_not_null", "precheck_no_nulls", "set_not_null"} /\ step.column \notin DOMAIN table
       \/ step.action \in {"precheck_no_nulls", "set_not_null"} /\ HasNulls(step.column)
After(step, table) ==
    CASE step.action = "create_table" -> TableOf(table)
      [] step.action = "add_column" /\ step.column \notin DOMAIN table ->
            [c \in DOMAIN table \cup {step.column} |-> IF c = step.column THEN step.as ELSE table[c]]
      [] step.action \in {"drop_not_null", "set_not_null"} -> [table EXCEPT ![step.column].nullable = (step.action = "drop_not_null")]
      [] step.action = "drop_column" -> [c \in DOMAIN table \ {step.column} |-> table[c]]
      [] OTHER -> table
Mode(step) == IF step.action \in {"precheck_no_nulls", "count_rows"} THEN "share" ELSE "excl"

CanTake(p, mode) ==
    \A q \in Procs \ {p} : lock[q] = "none" \/ (lock[q] = "share" /\ mode = "share")
Stronger(held, mode) == IF "excl" \in {held, mode} THEN "excl" ELSE mode

-----------------------------------------------------------------------------
(* Requests.                                                               *)

Idle == [pc |-> "idle", op |-> Null, def |-> Null, exists |-> TRUE, job |-> 0, at |-> 0, mine |-> Null, steps |-> <<>>, marks |-> <<>>]
Init ==
    /\ \E s \in InitialStates : published = s.published /\ physical = s.physical /\ rows = s.rows
    /\ jobs = <<>> /\ proc = [p \in Procs |-> Idle] /\ lock = [p \in Procs |-> "none"]
    /\ quiet = {} /\ ops = 0 /\ crashes = 0

At(p, pc) == proc[p].pc = pc
Go(p, pc) == proc' = [proc EXCEPT ![p].pc = pc]
Busy(p) == ~At(p, "idle")
\* What another request commits ends the quiet of those that run.
Seen(p) == quiet' = IF UNCHANGED <<published, physical>> THEN quiet \ {p} ELSE {}
Bounds == <<ops, crashes>>
Begin(p, op, pc) ==
    /\ At(p, "idle") /\ ops < MaxOps /\ ops' = ops + 1
    /\ proc' = [proc EXCEPT ![p] = [Idle EXCEPT !.pc = pc, !.op = op]]
    /\ quiet' = quiet \cup {p}
    /\ UNCHANGED <<world, jobs, lock, crashes>>

\* PlanAndApplyBuilderSchema: three reads and the job's row with its steps.
StartJob(p) == \E dry \in BOOLEAN : Begin(p, [kind |-> "job", dry |-> dry], "table")
ReadTable(p) ==
    /\ At(p, "table")
    /\ proc' = [proc EXCEPT ![p].pc = "columns", ![p].exists = (physical # Null)]
    /\ UNCHANGED <<world, jobs, lock, quiet, Bounds>>
ReadColumns(p) ==
    /\ At(p, "columns")
    /\ proc' = [proc EXCEPT ![p].pc = "plan", ![p].def = published]
    /\ UNCHANGED <<world, jobs, lock, quiet, Bounds>>
CreateJob(p) ==
    /\ At(p, "plan")
    /\ LET steps == Plan(proc[p].exists, proc[p].def, TableOf(physical))
           dry == proc[p].op.dry
       IN /\ jobs' = Append(jobs, [dry |-> dry, status |-> "planned", steps |-> steps, marks |-> Planned(steps)])
          /\ proc' = [proc EXCEPT ![p] =
                IF dry THEN Idle
                ELSE [@ EXCEPT !.pc = IF steps = <<>> THEN "empty" ELSE "run",
                               !.job = Len(jobs) + 1, !.at = 1, !.steps = steps, !.marks = Planned(steps)]]
    /\ quiet' = IF proc[p].op.dry THEN quiet \ {p} ELSE quiet
    /\ UNCHANGED <<world, lock, Bounds>>
MarkEmpty(p) ==
    /\ At(p, "empty")
    /\ jobs' = [jobs EXCEPT ![proc[p].job].status = "applied"]
    /\ proc' = [proc EXCEPT ![p] = Idle]
    /\ UNCHANGED <<world, lock, quiet, Bounds>>

\* A statement of a transaction: it waits for its lock, and does or fails.
Current(p) == proc[p].steps[proc[p].at]
View(p) == IF proc[p].mine = Null THEN physical ELSE proc[p].mine
Ready(p) == /\ At(p, "run") /\ proc[p].at <= Len(proc[p].steps)
Wants(p) == IF Ready(p) /\ ~Warns(Current(p)) THEN Mode(Current(p)) ELSE "none"
Failed(p) ==
    /\ proc' = [proc EXCEPT ![p] = IF proc[p].job = 0 THEN Idle ELSE [@ EXCEPT !.pc = "markjob", !.mine = Null]]
    /\ lock' = [lock EXCEPT ![p] = "none"]
    /\ UNCHANGED <<world, jobs, quiet, Bounds>>
Mark(p, status) == [proc[p] EXCEPT !.at = @ + 1, !.marks[proc[p].at] = status]
Warned(p) ==
    /\ Ready(p) /\ Warns(Current(p))
    /\ proc' = [proc EXCEPT ![p] = Mark(p, "skipped")]
    /\ UNCHANGED <<world, jobs, lock, quiet, Bounds>>
Statement(p) ==
    /\ Ready(p) /\ ~Warns(Current(p)) /\ CanTake(p, Wants(p))
    /\ IF Fails(Current(p), View(p)) THEN Failed(p)
       ELSE /\ lock' = [lock EXCEPT ![p] = Stronger(@, Wants(p))]
            /\ proc' = [proc EXCEPT ![p] = [Mark(p, "applied") EXCEPT !.mine =
                            IF Wants(p) = "excl" THEN After(Current(p), View(p)) ELSE @]]
            /\ UNCHANGED <<world, jobs, quiet, Bounds>>
\* Two that share the table and both want it alone.
Circle(p) ==
    /\ Wants(p) = "excl" /\ lock[p] = "share"
    /\ \E q \in Procs \ {p} : Wants(q) = "excl" /\ lock[q] = "share"
Deadlocked(p) == Circle(p) /\ Failed(p)

\* The end of executeBuilderSchemaJob; a failure is noted by other connections.
Ended(p) == At(p, "run") /\ proc[p].at > Len(proc[p].steps)
CommitJob(p) ==
    /\ Ended(p) /\ proc[p].job # 0
    /\ jobs' = [jobs EXCEPT ![proc[p].job] = [@ EXCEPT !.status = "applied", !.marks = proc[p].marks]]
    /\ physical' = View(p)
    /\ lock' = [lock EXCEPT ![p] = "none"] /\ proc' = [proc EXCEPT ![p] = Idle]
    /\ UNCHANGED <<published, rows, Bounds>> /\ Seen(p)
MarkJobFailed(p) ==
    /\ At(p, "markjob") /\ Go(p, "marksteps")
    /\ jobs' = [jobs EXCEPT ![proc[p].job].status = "failed"]
    /\ UNCHANGED <<world, lock, quiet, Bounds>>
KeepMarks(p, marks) ==                                                      \* mutant
    [k \in DOMAIN marks |-> IF k = proc[p].at THEN "failed" ELSE proc[p].marks[k]]
FailedMarks(p, marks) ==
    [k \in DOMAIN marks |-> IF k = proc[p].at THEN "failed" ELSE marks[k]]
MarkStepsFailed(p) ==
    /\ At(p, "marksteps")
    /\ jobs' = [jobs EXCEPT ![proc[p].job].marks = FailedMarks(p, @)]
    /\ proc' = [proc EXCEPT ![p] = Idle] /\ quiet' = quiet \ {p}
    /\ UNCHANGED <<world, lock, Bounds>>

\* CreateAppColumn, UpdateAppColumn, DeleteAppColumn: the definition is read,
\* the table changed, and the definition that was read is saved with the change.
StartColumn(p) ==
    \E c \in Names, nullable \in BOOLEAN, kind \in {"create", "update", "delete"} :
        Begin(p, [kind |-> kind, column |-> c, nullable |-> nullable], "definition")
CountRows == [action |-> "count_rows", column |-> Null, as |-> Null]
Refused(p) ==
    LET op == proc[p].op  known == op.column \in DOMAIN published IN
    IF op.kind = "create" THEN known ELSE ~known
ColumnPlan(op, def) ==
    CASE op.kind = "create" ->
            If(~op.nullable, <<CountRows>>) \o <<Step("add_column", op.column, Column("text", op.nullable))>>
      [] op.kind = "update" -> Nullability(op.column, Column("text", op.nullable), def[op.column])
      [] op.kind = "delete" -> <<CountRows, Step("drop_column", op.column, Null)>>
\* Views, preferences, conditions and keys that mention a column keep it.
Mentions(op) == IF op.kind = "delete" THEN BOOLEAN ELSE {FALSE}
ReadDefinition(p) ==
    /\ At(p, "definition")
    /\ \E mentioned \in Mentions(proc[p].op) :
        proc' = [proc EXCEPT ![p] = IF mentioned \/ Refused(p) THEN Idle
                   ELSE LET steps == ColumnPlan(proc[p].op, published) IN
                        [@ EXCEPT !.pc = "run", !.at = 1, !.def = published, !.steps = steps, !.marks = Planned(steps)]]
    /\ UNCHANGED <<world, jobs, lock, quiet, Bounds>>
DefinedAsWas(op, def) ==                                                    \* mutant
    IF op.kind = "delete" THEN [c \in DOMAIN def \ {op.column} |-> def[c]]
    ELSE IF op.kind = "update" THEN def
    ELSE [c \in DOMAIN def \cup {op.column} |-> IF c # op.column THEN def[c] ELSE Column("text", op.nullable)]
Defined(op, def) ==
    IF op.kind = "delete" THEN [c \in DOMAIN def \ {op.column} |-> def[c]]
    ELSE [c \in DOMAIN def \cup {op.column} |->
            IF c # op.column THEN def[c]
            ELSE IF op.kind = "create" THEN Column("text", op.nullable) ELSE [def[c] EXCEPT !.nullable = op.nullable]]
CommitColumn(p) ==
    /\ Ended(p) /\ proc[p].job = 0
    /\ published' = Defined(proc[p].op, proc[p].def)
    /\ physical' = View(p)
    /\ lock' = [lock EXCEPT ![p] = "none"] /\ proc' = [proc EXCEPT ![p] = Idle]
    /\ rows' = [r \in DOMAIN rows |-> rows[r] \cap DOMAIN TableOf(View(p))]
    /\ UNCHANGED <<jobs, Bounds>> /\ Seen(p)

-----------------------------------------------------------------------------
(* Everybody else.                                                         *)

\* A record is saved with the columns the definition has, if the table takes it.
InsertRecord ==
    /\ \A p \in Procs : lock[p] # "excl"
    /\ physical # Null
    /\ \E r \in Rows \ DOMAIN rows, filled \in SUBSET (DOMAIN published \cap DOMAIN physical) :
         /\ {c \in DOMAIN physical : ~physical[c].nullable} \subseteq filled
         /\ rows' = [x \in DOMAIN rows \cup {r} |-> IF x = r THEN filled ELSE rows[x]]
    /\ UNCHANGED <<published, physical, jobs, proc, lock, quiet, Bounds>>
\* The server dies, and every transaction with it.
Crash ==
    /\ crashes < MaxCrashes /\ crashes' = crashes + 1
    /\ \E p \in Procs : Busy(p)
    /\ proc' = [p \in Procs |-> Idle] /\ lock' = [p \in Procs |-> "none"]
    /\ quiet' = {}
    /\ UNCHANGED <<world, jobs, ops>>

Continue(p) ==
    \/ ReadTable(p) \/ ReadColumns(p) \/ CreateJob(p) \/ MarkEmpty(p)
    \/ Warned(p) \/ Statement(p) \/ Deadlocked(p)
    \/ CommitJob(p) \/ MarkJobFailed(p) \/ MarkStepsFailed(p)
    \/ ReadDefinition(p) \/ CommitColumn(p)
Next == (\E p \in Procs : StartJob(p) \/ StartColumn(p) \/ Continue(p)) \/ InsertRecord \/ Crash
Spec == Init /\ [][Next]_vars

-----------------------------------------------------------------------------
(* Properties.                                                             *)

\* The page of a job tells what happened: a job said to be applied has every
\* step applied, or skipped when it only warns, and the table of any other job
\* was not touched, so none of its steps is said to be applied, whatever
\* failed, deadlocked or died on the way (BuilderSchemaJobs.go:168-222).
JobsTellTheTruth ==
    \A j \in ToSet(jobs) : \A k \in DOMAIN j.steps :
        IF j.status = "applied" THEN j.marks[k] = IF Warns(j.steps[k]) THEN "skipped" ELSE "applied"
        ELSE j.marks[k] # "applied"

\* Once a job is applied there is nothing left to do: unless somebody changed
\* the definition or the table meanwhile, the plan of the next job holds
\* warnings at most, although the job ran on a plan it made without a lock.
SettlesAfterApply ==
    [][\A p \in quiet : CommitJob(p) =>
        \A step \in ToSet(Plan(physical' # Null, published', TableOf(physical'))) : Warns(step)]_vars

\* Adding, changing or dropping a column keeps table and definition in step
\* when they were and nobody else changes either at the same time, also while
\* records are saved.
InStep(table, def) == Plan(table # Null, def, TableOf(table)) = <<>>
ColumnsStayInStep ==
    [][\A p \in quiet : CommitColumn(p) /\ InStep(physical, published) => InStep(physical', published')]_vars

\* "cannot drop column from non-empty table" (DeleteAppColumn): whoever drops a
\* column loses no value by it.
NoValueDropped == [][\A p \in Procs : CommitColumn(p) => rows' = rows]_vars
=============================================================================
