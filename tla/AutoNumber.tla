----------------------------- MODULE AutoNumber -----------------------------
(***************************************************************************)
(* Numbers such as TASK-000042 (AutoNumber.go, migrations 051 and 058): a  *)
(* trigger on each table gives a record without one the next number of a   *)
(* counter, and lifts the counter over a number that somebody typed.       *)
(* Schema changes renumber a table.  All of it happens in transactions     *)
(* that hold the table, the record and the counter until they end.         *)
(*                                                                         *)
(* A number is a prefix and a Nat.  LPAD(n, Width, "0") cuts a longer      *)
(* number off on its right; leading zeros are left out otherwise.  A table *)
(* has at most one column of numbers.  A lock is granted as soon as nobody *)
(* holds it; the database cancels a transaction of a circle (Fail).        *)
(***************************************************************************)
EXTENDS Integers, Sequences, FiniteSets, FiniteSetsExt, Functions

CONSTANTS
    Procs,          \* transactions, one after the other in each
    Tables, Rows,
    TableOf,        \* the table of each record
    ScopeOf,        \* the app of each table
    Unique,         \* tables with a unique index on the number (047_base_app.sql)
    Prefixes, Null, Same,
    Base, Width,    \* 10 and 6
    Typed,          \* the numbers somebody may type
    Pruned,         \* for each bundled app that may go, the scopes that start with its own
    InitialStates,  \* triggers, records and counters to start with
    MaxNumber, MaxSteps

\* MaxNumber < Limit * Base: one digit too many at most.
Limit == Base ^ Width

VARIABLES
    counters,       \* base_counters: the next number of a scope and a prefix
    trigger,        \* the prefix each table's trigger was made with, Null without one
    rows,           \* the records with number and who gave it
    tx,             \* the transactions under way
    wide,           \* tables where a number was cut off
    forgotten,      \* tables whose counter was deleted since their last schema change
    lost,           \* tables whose counter was ever deleted
    started         \* writes and schema changes begun
vars == <<counters, trigger, rows, tx, wide, forgotten, lost, started>>

Key(t, prefix) == <<ScopeOf[t], prefix>>
Put(f, a, v) == [z \in DOMAIN f \cup {a} |-> IF z = a THEN v ELSE f[z]]
Over(f, g) == [z \in DOMAIN f \cup DOMAIN g |-> IF z \in DOMAIN f THEN f[z] ELSE g[z]]
Empty == [k \in {} |-> Null]
Idle == [kind |-> "idle", todo |-> <<>>, stage |-> 1, shared |-> {}, alone |-> {},
         new |-> Empty, count |-> Empty, config |-> Empty, cut |-> {}]

Init ==
    /\ \E s \in InitialStates :
          /\ trigger = s.trigger
          /\ rows = s.rows /\ counters = s.counters
    /\ tx = [p \in Procs |-> Idle]
    /\ wide = {} /\ forgotten = {} /\ lost = {} /\ started = 0

-----------------------------------------------------------------------------
(* What a transaction sees: the committed state under its own changes.      *)

Seen(p) == Over(tx[p].new, rows)
RowsOf(t, seen) == {r \in DOMAIN seen : TableOf[r] = t}
Prefix(p, t) == IF t \in DOMAIN tx[p].config THEN tx[p].config[t] ELSE trigger[t]
Counted(p) == Over(tx[p].count, counters)

\* LPAD(n, Width): a number that is too long loses its last digit.
Shown(n) == IF n < Limit THEN n ELSE n \div Base

\* base_sync_autnumber_counter: the counter is lifted, never lowered.
Overwritten(count, key, n) == Put(count, key, n + 1)                       \* mutant
Synced(count, key, n) ==
    Put(count, key, IF key \in DOMAIN count THEN Max({count[key], n + 1}) ELSE n + 1)

\* base_next_autnumber
NextNumber(count, key) == IF key \in DOMAIN count THEN count[key] ELSE 1

-----------------------------------------------------------------------------
(* Locks.  A write takes its table and its record, and its trigger the      *)
(* counter; a schema change takes the table alone before it sets the        *)
(* trigger and the counter (ensureDefinitionTableSchemaTx).                 *)

CounterFirst(what) == IF what = "schema" THEN <<"counter", "table">> ELSE <<"table", "counter">>    \* mutant
Stages(what) == <<"table", "counter">>

Op(p) == Head(tx[p].todo)
On(p) == IF Op(p).what = "schema" THEN Op(p).on ELSE TableOf[Op(p).on]
KeyOf(p) == Key(On(p), IF Op(p).what = "schema" THEN Op(p).to ELSE Prefix(p, On(p)))
StageOf(p) == Stages(Op(p).what)[tx[p].stage]

\* A schema change of an empty table has nothing to number.
Numbers(p) == Op(p).what = "schema" => RowsOf(On(p), Seen(p)) # {}

\* Whether q holds what the next step of p needs.
Blocks(q, p) ==
    /\ q # p /\ tx[p].todo # <<>>
    /\ \/ StageOf(p) = "counter" /\ KeyOf(p) \in DOMAIN tx[q].count /\ Numbers(p)
       \/ StageOf(p) = "table" /\ On(p) \in tx[q].alone
       \/ StageOf(p) = "table" /\ IF Op(p).what = "schema" THEN On(p) \in tx[q].shared
                                ELSE Op(p).on \in DOMAIN tx[q].new
Free(p) == tx[p].todo # <<>> /\ \A q \in Procs : ~Blocks(q, p)

At(p, stage) == Free(p) /\ StageOf(p) = stage
Advanced(p) ==
    IF tx[p].stage = 1 THEN [tx[p] EXCEPT !.stage = 2]
    ELSE [tx[p] EXCEPT !.stage = 1, !.todo = Tail(@)]
Committed == <<counters, trigger, rows, wide, forgotten, lost>>

TakeTable(p) ==
    /\ At(p, "table")
    /\ tx' = [tx EXCEPT ![p] =
            IF Op(p).what = "schema" THEN [Advanced(p) EXCEPT !.alone = @ \cup {On(p)}]
            ELSE [Advanced(p) EXCEPT !.shared = @ \cup {On(p)}]]
    /\ UNCHANGED <<Committed, started>>

-----------------------------------------------------------------------------
(* base_autnumber_before_write: before an insert and before every update,   *)
(* also one that leaves the number alone.                                   *)

\* An insert without a number, or an update that clears it, leaves it blank.
Posted(p, r) ==
    IF Op(p).to # Same THEN Op(p).to
    ELSE IF r \in DOMAIN Seen(p) THEN Seen(p)[r].number ELSE Null
Author(p, r, number) ==
    IF Posted(p, r) = Null THEN "counter"
    ELSE IF r \in DOMAIN Seen(p) /\ Seen(p)[r].number = number THEN Seen(p)[r].by ELSE "user"

InUse(seen, t, number) == number # Null /\ \E r \in RowsOf(t, seen) : seen[r].number = number

\* The table gets `number`; the unique index refuses one that is there.
Wrote(p, r, number, count, cut) ==
    /\ ~(TableOf[r] \in Unique /\ InUse([q \in DOMAIN Seen(p) \ {r} |-> Seen(p)[q]], TableOf[r], number))
    /\ tx' = [tx EXCEPT ![p] =
            [Advanced(p) EXCEPT !.new = Put(@, r, [number |-> number, by |-> Author(p, r, number)]),
                                !.count = count, !.cut = @ \cup cut]]
    /\ UNCHANGED <<Committed, started>>

Write(p) ==
    /\ At(p, "counter") /\ Op(p).what = "write"
    /\ LET r == Op(p).on  t == TableOf[r]  key == KeyOf(p)  prefix == Prefix(p, t)
           n == NextNumber(Counted(p), key) IN
       \/ prefix = Null /\ Wrote(p, r, Null, tx[p].count, {})
       \/ /\ prefix # Null /\ Posted(p, r) = Null /\ n <= MaxNumber
          /\ Wrote(p, r, <<prefix, Shown(n)>>, Put(tx[p].count, key, n + 1), IF n < Limit THEN {} ELSE {t})
       \/ /\ prefix # Null /\ Posted(p, r) # Null /\ Posted(p, r)[1] = prefix
          /\ Wrote(p, r, Posted(p, r), Put(tx[p].count, key, Synced(Counted(p), key, Posted(p, r)[2])[key]), {})

-----------------------------------------------------------------------------
(* applyTableAutoNumberStateTx: a new trigger, numbers of another prefix    *)
(* rewritten under the new one, the counter lifted over all of them, and    *)
(* the records without a number given one, in any order.                    *)

Renumbered(number, prefix) == IF number[1] = prefix THEN number ELSE <<prefix, Shown(number[2])>>

Became(p, new, count, cut) ==
    tx' = [tx EXCEPT ![p] = [Advanced(p) EXCEPT !.new = Over(new, @), !.count = count, !.cut = @ \cup cut,
                                                !.config = Put(@, On(p), Op(p).to)]]

Schema(p) ==
    /\ At(p, "counter") /\ Op(p).what = "schema"
    /\ LET t == On(p)  prefix == Op(p).to  key == KeyOf(p)
           mine == RowsOf(t, Seen(p))
           old == {r \in mine : Seen(p)[r].number # Null}
           blank == mine \ old
           kept == [r \in old |-> Renumbered(Seen(p)[r].number, prefix)]
           seen == IF old = {} THEN 0 ELSE Max({kept[r][2] : r \in old})
           first == NextNumber(IF old = {} THEN Counted(p) ELSE Synced(Counted(p), key, seen), key)
           next == first + Cardinality(blank) IN
       \/ prefix = Null /\ Became(p, [r \in mine |-> [number |-> Null, by |-> "counter"]], tx[p].count, {})
       \/ prefix # Null /\ \E order \in Bijection(blank, first .. next - 1) :
            LET given == Over([r \in blank |-> <<prefix, Shown(order[r])>>], kept) IN
            /\ next <= MaxNumber + 1
            /\ t \in Unique => IsInjective(given)
            /\ Became(p, [r \in mine |-> [number |-> given[r],
                                         by |-> IF r \in blank THEN "counter" ELSE Seen(p)[r].by]],
                      IF mine = {} THEN tx[p].count ELSE Put(tx[p].count, key, next),
                      {q \in {t} : (blank # {} /\ next > Limit) \/ \E r \in old : kept[r][2] # Seen(p)[r].number[2]})
    /\ UNCHANGED <<Committed, started>>

-----------------------------------------------------------------------------
(* Transactions.                                                            *)

WriteOf(r, value) == [what |-> "write", on |-> r, to |-> value]
Change(t, prefix) == [what |-> "schema", on |-> t, to |-> prefix]

\* A number is typed under the prefix of the definition the request has read
\* (ValidateFormWrite), any by the time of the trigger; a new record has an id
\* of its own.
Writes == {WriteOf(r, value) : r \in Rows, value \in {Same, Null} \cup (Prefixes \X Typed)}
Valid(w) ==
    w.on \notin DOMAIN rows =>
        /\ w.to # Same
        /\ \A q \in Procs : w.on \notin DOMAIN tx[q].new /\ \A i \in DOMAIN tx[q].todo : tx[q].todo[i].on # w.on

Ready(p, steps) == tx[p].kind = "idle" /\ started + steps <= MaxSteps
Begin(p, kind, todo) ==
    /\ Ready(p, Len(todo))
    /\ tx' = [tx EXCEPT ![p].kind = kind, ![p].todo = todo]
    /\ started' = started + Len(todo)
    /\ UNCHANGED Committed

Save(p) == Ready(p, 1) /\ \E w \in Writes : Valid(w) /\ Begin(p, "save", <<w>>)
Script(p) ==
    /\ Ready(p, 2)
    /\ \E v, w \in {u \in Writes : Valid(u)} : v.on # w.on /\ Begin(p, "script", <<v, w>>)
ChangeColumn(p) == \E t \in Tables, prefix \in Prefixes \cup {Null} : Begin(p, "column", <<Change(t, prefix)>>)

\* ensureDefinitionSchemaTx: all tables of an app, in the order of its definition.
Publish(p) ==
    \E s \in Range(ScopeOf) : LET mine == {t \in Tables : ScopeOf[t] = s} IN
        \E order \in Bijection(1 .. Cardinality(mine), mine), to \in [mine -> Prefixes] :
            Begin(p, "publish", [i \in DOMAIN order |-> Change(order[i], to[order[i]])])

Commit(p) ==
    /\ tx[p].kind # "idle" /\ tx[p].todo = <<>>
    /\ rows' = Seen(p) /\ counters' = Counted(p)
    /\ trigger' = Over(tx[p].config, trigger)
    /\ wide' = wide \cup tx[p].cut
    /\ forgotten' = forgotten \ DOMAIN tx[p].config
    /\ tx' = [tx EXCEPT ![p] = Idle]
    /\ UNCHANGED <<lost, started>>

\* A refused number, an error, a circle, the end of the process.
Fail(p) ==
    /\ tx[p].kind # "idle"
    /\ tx' = [tx EXCEPT ![p] = Idle]
    /\ UNCHANGED <<Committed, started>>

\* Pruning another app takes every counter whose key is LIKE 'scope_%': `_`
\* stands for any character (deleteAutoNumberCountersForAppTx).
Forget(scopes) ==
    LET gone == {k \in DOMAIN counters : k[1] \in scopes}
        affected == {t \in Tables : Key(t, trigger[t]) \in gone} IN
    /\ gone # {} /\ \A p \in Procs : DOMAIN tx[p].count \cap gone = {}
    /\ counters' = [k \in DOMAIN counters \ gone |-> counters[k]]
    /\ forgotten' = forgotten \cup affected /\ lost' = lost \cup affected
    /\ UNCHANGED <<trigger, rows, tx, wide, started>>

Next ==
    \/ \E p \in Procs : Save(p) \/ Script(p) \/ ChangeColumn(p) \/ Publish(p)
                        \/ TakeTable(p) \/ Write(p) \/ Schema(p) \/ Commit(p) \/ Fail(p)
    \/ \E scopes \in Pruned : Forget(scopes)

Spec == Init /\ [][Next]_vars

-----------------------------------------------------------------------------
(* Properties.                                                             *)

\* A number in use is not given again.  Two records of a table share one only
\* if somebody typed it, a number was cut off or a counter was deleted; the
\* number that comes next is not in use, so that the unique index of base_task
\* never stops all inserts; and each record has a number that its table's
\* trigger accepts, so that it can be written again.
NeverTwice ==
    \A r, q \in DOMAIN rows : r # q /\ TableOf[r] = TableOf[q] /\ rows[r].number = rows[q].number =>
        rows[r].number = Null \/ "user" \in {rows[r].by, rows[q].by} \/ TableOf[r] \in wide \cup lost
NextUnused ==
    \A t \in Tables \ forgotten : LET n == NextNumber(counters, Key(t, trigger[t])) IN
        n < Limit => ~InUse(rows, t, <<trigger[t], n>>)
Rewritable ==
    \A r \in DOMAIN rows : LET prefix == trigger[TableOf[r]]  number == rows[r].number IN
        IF prefix = Null THEN number = Null ELSE number # Null /\ number[1] = prefix
NumbersHold == NeverTwice /\ NextUnused /\ Rewritable

\* Saves of one record and changes of one table never wait for each other in a
\* circle: one that the database cancels was caught between a script that
\* writes several records or a publish of several tables.
Short == {p \in Procs : tx[p].kind \in {"save", "column"}}
OnlyLongOnesDeadlock == ~\E circle \in (SUBSET Short) \ {{}} : \A p \in circle : \E q \in circle : Blocks(q, p)
=============================================================================
