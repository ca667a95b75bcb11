--------------------------- MODULE MCAppLifecycle ---------------------------
(***************************************************************************)
(* Instances of AppLifecycle, SchemaJobs and AutoNumber for TLC: what      *)
(* happens to one app's definition, to the columns of one table of it, and *)
(* to the numbers in its tables.  `part` says which of the three levels    *)
(* moves in a behaviour, so that one run explores them without their       *)
(* product.                                                                *)
(***************************************************************************)
EXTENDS AppLifecycle, Sequences, TLC

CONSTANTS t1, t2, x, s1, s2, r1, r2, r3

\* Builds of the binary: one with a table, a later one without it.
MCBundles == {{t1}, {x}}

\* Two administrators and one record of a table with two columns, which is in
\* step with its definition, lacks a column, has drifted in every way, or is
\* missing.
CONSTANTS Procs, Columns, Rows, InitialStates, Null, MaxOps, MaxCrashes
Symmetry == Permutations({s1, s2}) \cup Permutations(Procs)
VARIABLES part, columns, table, rows, jobs, proc, lock, quiet, ops, crashes
schema == <<columns, table, rows, jobs, proc, lock, quiet, ops, crashes>>
Column(type, nullable) == [type |-> type, nullable |-> nullable]
Start(def, now) == [published |-> def, physical |-> now, rows |-> [r \in {} |-> {}]]
MCColumns == <<"a", "b">>
MCStates == {
    Start([a |-> Column("text", TRUE)], [a |-> Column("text", TRUE)]),
    Start([a |-> Column("text", TRUE), b |-> Column("text", FALSE)], [a |-> Column("text", FALSE)]),
    Start([a |-> Column("text", FALSE)], [a |-> Column("int", TRUE), b |-> Column("text", TRUE)]),
    Start([a |-> Column("text", FALSE)], Null)}
Schema == INSTANCE SchemaJobs WITH published <- columns, physical <- table
\* A definition, or a table, is a function from names to columns.
ColumnSets == UNION {[S -> [type : Schema!Types, nullable : BOOLEAN]] : S \in SUBSET Schema!Names}
ASSUME SchemaAssumption ==
    /\ Columns \in Seq(Schema!Names)
    /\ Null \notin ColumnSets /\ Null \notin Schema!Names
    /\ \A s \in InitialStates : s.published \in ColumnSets /\ s.physical \in ColumnSets \cup {Null}

\* Two tables of numbers, one with a unique index: both numbered, with one
\* record each; or none yet, with two records that have no number and a counter
\* that an earlier column has left behind.
CONSTANTS Numbered, Records, HomeTable, ScopeOf, Unique, Pruned, Numbering, Prefixes, Same, Base, Width, Typed, MaxNumber, MaxSteps
VARIABLES counters, trigger, numbered, tx, wide, forgotten, lost, started
numbers == <<counters, trigger, numbered, tx, wide, forgotten, lost, started>>
MCHome == r1 :> t1 @@ r2 :> t1 @@ r3 :> t2
MCScope == t1 :> "crm" @@ t2 :> "crm"
Counter(n) == <<"crm", "CASE">> :> n
Given(prefix, n) == [number |-> <<prefix, n>>, by |-> "counter"]
Blank == [number |-> Null, by |-> "counter"]
MCNumbering == {
    [trigger |-> t1 :> "CASE" @@ t2 :> "TASK", rows |-> r1 :> Given("CASE", 3) @@ r3 :> Given("TASK", 1),
     counters |-> Counter(4) @@ <<"crm", "TASK">> :> 2],
    [trigger |-> t1 :> Null @@ t2 :> "CASE", rows |-> r1 :> Blank @@ r2 :> Blank, counters |-> Counter(2)]}
Numbers == INSTANCE AutoNumber WITH
    rows <- numbered, Tables <- Numbered, Rows <- Records, TableOf <- HomeTable, InitialStates <- Numbering

\* What the code leaves: numbers under the trigger's prefix and below its
\* counter, each once in its table.
ASSUME NumberingAssumption ==
    /\ IsFiniteSet(Records) /\ IsFiniteSet(Numbered) /\ HomeTable \in [Records -> Numbered]
    /\ Null \notin Prefixes /\ Null \notin Prefixes \X Nat /\ Typed \subseteq Nat
    /\ Base \in Nat \ {0} /\ Numbers!Limit \in Nat
    /\ \A s \in Numbering :
          /\ s.trigger \in [Numbered -> Prefixes \cup {Null}]
          /\ \A k \in DOMAIN s.counters : s.counters[k] \in Nat
          /\ DOMAIN s.rows \subseteq Records
          /\ \A r \in DOMAIN s.rows :
                LET prefix == s.trigger[HomeTable[r]]  number == s.rows[r].number IN
                IF prefix = Null THEN number = Null
                ELSE /\ number \in {prefix} \X Nat
                     /\ number[2] < Numbers!NextNumber(s.counters, Numbers!Key(HomeTable[r], prefix))
          /\ \A r, q \in DOMAIN s.rows :
                r # q /\ HomeTable[r] = HomeTable[q] /\ s.rows[r].number = s.rows[q].number => s.rows[r].number = Null

MCInit ==
    /\ Init /\ Schema!Init /\ Numbers!Init
    /\ part \in {"app", "schema", "numbers"}
    /\ part # "schema" => table = Null
    /\ part # "numbers" => trigger[t1] = Null
MCNext ==
    \/ part = "app" /\ Next /\ UNCHANGED <<part, schema, numbers>>
    \/ part = "schema" /\ Schema!Next /\ UNCHANGED <<part, vars, numbers>>
    \/ part = "numbers" /\ Numbers!Next /\ UNCHANGED <<part, vars, schema>>
MCSpec == MCInit /\ [][MCNext]_<<part, vars, schema, numbers>>

\* A job says of each of its steps what became of it (executeBuilderSchemaJob;
\* see SchemaJobs).
JobsTellTheTruth == Schema!JobsTellTheTruth
\* An applied job leaves nothing to do (PlanAndApplyBuilderSchema; see SchemaJobs).
SettlesAfterApply == Schema!SettlesAfterApply
\* Column requests keep table and definition in step (CreateAppColumn and the
\* others; see SchemaJobs).
ColumnsStayInStep == Schema!ColumnsStayInStep
\* Dropping a column loses no value (DeleteAppColumn; see SchemaJobs).
NoValueDropped == Schema!NoValueDropped
\* A number in use is neither given again nor next (base_autnumber_before_write,
\* applyTableAutoNumberStateTx; see AutoNumber).
NumbersHold == Numbers!NumbersHold
\* Saves of one record and changes of one column never deadlock (the trigger and
\* the schema change take table and counter in one order; see AutoNumber).
OnlyLongOnesDeadlock == Numbers!OnlyLongOnesDeadlock
=============================================================================
