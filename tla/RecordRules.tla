----------------------------- MODULE RecordRules -----------------------------
(***************************************************************************)
(* The security rules of one table (db/SecurityRules.go) and everything    *)
(* that asks them: the record page and its preview (HandleSave.go,         *)
(* cmd/server/handleForm.go), bulk updates, deletes and restores, the      *)
(* table page (cmd/server/handleTableView.go), and the models a script     *)
(* works with (db/ScriptOps.go, ScriptModels.go, ScriptActor.go).          *)
(*                                                                         *)
(* A handler reads a row, asks the rules and writes with a statement of    *)
(* its own; a script does so many times in one transaction, with the roles *)
(* and rules it found when it first touched the table.  Others change rows *)
(* (but not one the script has written), roles and rules between any two   *)
(* statements.                                                             *)
(***************************************************************************)
EXTENDS Integers, Sequences, FiniteSets, SequencesExt

CONSTANTS
    Ids,           \* record ids, ordered as ORDER BY _id orders them
    CreatedAt,     \* _created_at, which rows of one transaction share
    Place,         \* of a value in ascending order, NULL last
    Fields,
    Values,
    InitialRecords, \* records at the start, a bound
    Null,          \* NULL; the rules and the form see a blank
    Securities,    \* [gate, rules] of published definitions
    RoleSets,      \* the effective roles the user may have
    AppRole,       \* the app's own name of a role
    Queries,       \* what scripts ask for, see Matches
    DefaultLimit,  \* rows of a list that names no limit (100)
    Cap,           \* rows fetched at most (1000, 5000)
    PageSizes,
    System,        \* the actor of scripts without a user
    NotLoaded,
    MaxOps,        \* operations of a script, a bound
    MaxChanges     \* changes by others, a bound

ASSUME RulesAssumption ==
    /\ Ids \subseteq Int /\ IsFiniteSet(Ids)
    /\ InitialRecords \subseteq [Fields -> Values \cup {Null}]
    /\ System # NotLoaded /\ RoleSets \cap {System, NotLoaded} = {}
    /\ CreatedAt \in [Ids -> Int] /\ Place \in [Values \cup {Null} -> Int]
    /\ DefaultLimit \in Nat /\ Cap \in Nat /\ PageSizes \subseteq Nat \ {0}
    /\ \A query \in Queries : query.limit \in Nat

VARIABLES
    rows,          \* the table: fields and _deleted_at of its records
    roles,         \* the user's roles
    security,      \* the table's published security
    pc,            \* the request: "idle", "posted", "asked", "running", ...
    job,           \* what it is about
    own,           \* rows the script's transaction has written
    stale,         \* history: rows others changed since the request read them
    ops, changes

vars == <<rows, roles, security, pc, job, own, stale, ops, changes>>

Blankable == Values \cup {Null}
Records == [Fields -> Blankable]
Patches == UNION {[S -> Blankable] : S \in (SUBSET Fields) \ {{}}}
Record == "the record"                              \* a rule about no field
Always == <<>>                                      \* a rule without a condition

-----------------------------------------------------------------------------
(* The evaluator.                                                          *)

\* Rules in the order of evaluation: by their order, then by their name.
Before(r, s) == r.order < s.order \/ (r.order = s.order /\ r.name < s.name)
Ordered(rules) == SetToSortSeq(rules, Before)
OrderedRules == [s \in Securities |-> Ordered(s.rules)]

\* loadSecurityEvaluatorForConfig; the system and a table without security
\* have none, which allows everything.
Evaluator(actor, guard) ==
    IF actor = System THEN [gate |-> {}, rules |-> <<>>, roles |-> {}]
    ELSE [gate |-> guard.gate, rules |-> OrderedRules[guard], roles |-> actor]

\* A role is held by its own name or by the app's name of it.
Candidates(role) == {role, AppRole[role]}
HasRole(e, role) == Candidates(role) \cap e.roles # {}
Gate(e) == e.gate = {} \/ \E role \in e.gate : HasRole(e, role)
AdminReads(e, op) == op = "R" /\ "admin" \in e.roles
Passes(rule, record) == rule.test = Always \/ record[rule.test[1]] = rule.test[2]

\* The first rule that applies decides; where there are rules and none
\* applies, the answer is no.
ScopeDecision(e, op, field, record) ==
    LET asked == {i \in DOMAIN e.rules : e.rules[i].op = op /\ e.rules[i].field = field}
        applying == {i \in asked : HasRole(e, e.rules[i].role) /\ Passes(e.rules[i], record)}
    IN asked = {} \/ \E i \in applying : e.rules[i].allow /\ \A j \in applying : i <= j

AllowsRecord(e, op, record) ==
    AdminReads(e, op) \/ (Gate(e) /\ ScopeDecision(e, op, Record, record))
AllowsField(e, op, field, record) ==
    AdminReads(e, op) \/ (AllowsRecord(e, op, record) /\ ScopeDecision(e, op, field, record))
AllowsFields(e, op, fields, record) ==
    AllowsRecord(e, op, record) /\ \A f \in fields : AllowsField(e, op, f, record)

\* HasReadAccessControls and scriptAccess.restricts: rules about a field count.
Restricts(e, op) == e.gate # {} \/ \E i \in DOMAIN e.rules : e.rules[i].op = op

\* FilterReadableRecord blanks the fields that may not be read.
FilterReadable(e, record) ==
    [f \in Fields |-> IF AllowsField(e, "R", f, record) THEN record[f] ELSE Null]

-----------------------------------------------------------------------------
(* What a save proposes.                                                   *)

Merged(old, patch) == [f \in Fields |-> IF f \in DOMAIN patch THEN patch[f] ELSE old[f]]
ChangedFields(old, patch) == {f \in DOMAIN patch : patch[f] # old[f]}

\* After the before-write triggers only changed fields are left, and those
\* that became NULL no longer count.
Submitted(old, patch) ==
    LET kept == {f \in ChangedFields(old, patch) : patch[f] # Null} IN [f \in kept |-> patch[f]]

ProposalOld(e, op, old, patch) == AllowsFields(e, op, ChangedFields(old, patch), old)   \* mutant
ProposalAllowed(e, op, old, patch) ==
    AllowsFields(e, op, ChangedFields(old, patch), Merged(old, patch))

Unblocked(e, op, fields, record) == {}                                          \* mutant
BlockedFields(e, op, fields, record) == {f \in fields : ~AllowsField(e, op, f, record)}

\* BuildTableSecuritySavePreview, for the table and for the form.
Preview(e, isCreate, old, patch) ==
    LET op == IF isCreate THEN "C" ELSE "U"
        changed == ChangedFields(old, patch)
        record == isCreate \/ changed # {} => AllowsRecord(e, op, Merged(old, patch))
        blocked == IF record THEN BlockedFields(e, op, changed, Merged(old, patch)) ELSE {}
    IN [record |-> record, blocked |-> blocked, save |-> record /\ blocked = {}]
MergedPreview(p, q) ==
    [record |-> p.record /\ q.record, blocked |-> p.blocked \cup q.blocked, save |-> p.save /\ q.save]

-----------------------------------------------------------------------------
(* Lists.                                                                  *)

\* A condition with a value never holds of NULL.
FilterHolds(filter, record) ==
    IF filter.equal THEN record[filter.field] \in filter.values
    ELSE record[filter.field] \notin filter.values \cup {Null}
Matches(query, id, row) ==
    /\ ~row.deleted \/ query.deleted
    /\ query.ids = {} \/ id \in query.ids
    /\ \A filter \in query.all : FilterHolds(filter, row.record)
    /\ query.any = {} \/ \E filter \in query.any : FilterHolds(filter, row.record)
HasSelectors(query) == query.ids # {} \/ query.all # {} \/ query.any # {}

\* A set of ids as a sequence, in their order.
Sorted(ids) == CHOOSE s \in [1..Cardinality(ids) -> ids] : \A i, j \in DOMAIN s : i < j => s[i] < s[j]
AtMost(n, s) == SubSeq(s, 1, IF Len(s) < n THEN Len(s) ELSE n)
Matching(query, table) == {id \in DOMAIN table : Matches(query, id, table[id])}
Limit(query) == IF query.limit = 0 THEN DefaultLimit ELSE IF query.limit > Cap THEN Cap ELSE query.limit

\* listScriptRecordsWithQuerier: a restricted actor's fetch is widened to the
\* cap, filtered, and cut to the limit.
FetchedToLimit(e, op, query) == Limit(query)                                \* mutant
Fetched(e, op, query) == IF Restricts(e, op) THEN Cap ELSE Limit(query)
ListRecords(e, op, query, table) ==
    LET fetched == AtMost(Fetched(e, op, query), Sorted(Matching(query, table)))
        allowed == Sorted({id \in ToSet(fetched) : AllowsRecord(e, op, table[id].record)})
    IN AtMost(Limit(query), IF Restricts(e, op) THEN allowed ELSE fetched)

-----------------------------------------------------------------------------
(* The table page.                                                         *)

\* ORDER BY one column says nothing about rows that agree in it; every page
\* is a query of its own.
SortColumns == Fields \cup {"_created_at"}
SortValue(column, id, table) ==
    IF column = "_created_at" THEN CreatedAt[id] ELSE Place[table[id].record[column]]
Precedes(sort, i, j, table) ==
    LET x == SortValue(sort.column, i, table)
        y == SortValue(sort.column, j, table)
    IN IF sort.desc THEN x > y ELSE x < y
Orders(sort, ids, table) ==
    {s \in Bijection(1..Cardinality(ids), ids) :
        \A i, j \in DOMAIN s : i < j => ~Precedes(sort, s[j], s[i], table)}

AheadBelow(count, start) == count < start                                   \* mutant
AheadOfPage(count, start) == count <= start

\* One turn of the loop: unreadable rows do not count, the last size rows are
\* kept, and the row after a full page ends it.
RowRead(e, start, size, id, table, seen) ==
    LET count == seen.count + 1
        last == Append(IF Len(seen.last) = size THEN Tail(seen.last) ELSE seen.last, id)
    IN IF seen.more \/ ~AllowsRecord(e, "R", table[id].record) THEN seen
       ELSE IF AheadOfPage(count, start) THEN [seen EXCEPT !.count = count, !.last = last]
       ELSE IF Len(seen.rows) < size
         THEN [seen EXCEPT !.count = count, !.last = last, !.rows = Append(@, id)]
       ELSE [seen EXCEPT !.count = count, !.last = last, !.more = TRUE]
NothingSeen == [count |-> 0, last |-> <<>>, rows |-> <<>>, more |-> FALSE]

\* loadSecureListPage over the rows its query returned: cut off once one more
\* row is known; past the end it shows the last rows.
SecureListPage(e, page, size, order, table) ==
    LET seen[i \in 0..Len(order)] ==
            IF i = 0 THEN NothingSeen ELSE RowRead(e, (page - 1) * size, size, order[i], table, seen[i - 1])
        end == seen[Len(order)]
        pages == IF end.count = 0 THEN 1 ELSE (end.count + size - 1) \div size
    IN IF end.more
         THEN [page |-> page, shown |-> end.rows, pages |-> page + 1, exact |-> FALSE, next |-> TRUE]
       ELSE IF page > pages
         THEN [page |-> pages, shown |-> end.last, pages |-> pages, exact |-> TRUE, next |-> FALSE]
       ELSE [page |-> page, shown |-> end.rows, pages |-> pages, exact |-> TRUE, next |-> page < pages]

-----------------------------------------------------------------------------
(* Requests.                                                               *)

None == [kind |-> "none", id |-> Null, patch |-> <<>>, versioned |-> FALSE, actor |-> NotLoaded,
         guard |-> NotLoaded, old |-> <<>>, query |-> <<>>, todo |-> {}]

Init ==
    /\ rows \in [Ids -> [record : InitialRecords, deleted : {FALSE}]]
    /\ roles \in RoleSets /\ security \in Securities
    /\ pc = "idle" /\ job = None
    /\ own = <<>> /\ stale = {}
    /\ ops = 0 /\ changes = 0

Idle == pc = "idle"
Finish == pc' = "idle" /\ job' = None /\ stale' = {}
Begin(to, request) == pc' = to /\ job' = request /\ stale' = {}
Store(id, record) == rows' = [rows EXCEPT ![id].record = record]

\* HandleSave up to its transaction: the snapshot.  An API call names no version.
SavePost ==
    /\ Idle
    /\ \E id \in Ids, patch \in Patches, versioned \in BOOLEAN :
         /\ ChangedFields(rows[id].record, patch) # {}
         /\ Begin("posted", [None EXCEPT !.kind = "save", !.id = id, !.patch = patch,
                                         !.versioned = versioned, !.old = rows[id].record])
    /\ UNCHANGED <<rows, roles, security, own, ops, changes>>

\* The rules are asked with what is left to submit.
SaveAsk ==
    /\ pc = "posted"
    /\ LET patch == Submitted(job.old, job.patch)
       IN /\ ProposalAllowed(Evaluator(roles, security), "U", job.old, patch)
          /\ job' = [job EXCEPT !.patch = patch, !.actor = roles, !.guard = security]
    /\ pc' = "asked"
    /\ UNCHANGED <<rows, roles, security, own, stale, ops, changes>>

\* Then the UPDATE sets that; an expected version makes it miss a row changed
\* since the snapshot.
SaveCommit ==
    /\ pc = "asked" /\ (job.versioned => job.id \notin stale)
    /\ Store(job.id, Merged(rows[job.id].record, job.patch))
    /\ Finish /\ UNCHANGED <<roles, security, own, ops, changes>>

\* Permission refused, the version outdated, or an error.
SaveRefused ==
    /\ pc \in {"posted", "asked"}
    /\ Finish /\ UNCHANGED <<rows, roles, security, own, ops, changes>>

\* handleBulkUpdate: the rules once, then snapshot, question and UPDATE per id.
BulkStart ==
    /\ Idle
    /\ \E ids \in (SUBSET Ids) \ {{}}, patch \in Patches :
         Begin("bulk", [None EXCEPT !.kind = "bulk", !.patch = patch, !.todo = ids,
                                       !.actor = roles, !.guard = security])
    /\ UNCHANGED <<rows, roles, security, own, ops, changes>>
BulkCheck ==
    /\ pc = "bulk"
    /\ \E id \in job.todo :
         LET rest == [job EXCEPT !.todo = @ \ {id}] IN
         IF ProposalAllowed(Evaluator(job.actor, job.guard), "U", rows[id].record, job.patch)
           THEN pc' = "bulkwrite" /\ job' = [rest EXCEPT !.id = id] /\ stale' = {}
           ELSE job' = rest /\ UNCHANGED <<pc, stale>>
    /\ UNCHANGED <<rows, roles, security, own, ops, changes>>
BulkWrite ==
    /\ pc = "bulkwrite"
    /\ Store(job.id, Merged(rows[job.id].record, job.patch))
    /\ pc' = "bulk"
    /\ UNCHANGED <<roles, security, job, own, stale, ops, changes>>
BulkEnd ==
    /\ pc = "bulk" /\ job.todo = {}
    /\ Finish /\ UNCHANGED <<rows, roles, security, own, ops, changes>>

\* handleSoftDeleteRecord asks for D, handleRestoreRecord for U.
MarkOp(deleted) == IF deleted THEN "D" ELSE "U"
MarkCheck ==
    /\ Idle
    /\ \E id \in Ids, deleted \in BOOLEAN :
         /\ AllowsRecord(Evaluator(roles, security), MarkOp(deleted), rows[id].record)
         /\ Begin("mark", [None EXCEPT !.kind = IF deleted THEN "delete" ELSE "restore", !.id = id,
                                       !.actor = roles, !.guard = security])
    /\ UNCHANGED <<rows, roles, security, own, ops, changes>>
MarkWrite ==
    /\ pc = "mark"
    /\ rows' = [rows EXCEPT ![job.id].deleted = (job.kind = "delete")]
    /\ Finish /\ UNCHANGED <<roles, security, own, ops, changes>>

-----------------------------------------------------------------------------
(* Scripts.                                                                *)

\* What a statement of the script sees: its own rows over the committed ones.
Seen == [id \in Ids |-> IF id \in DOMAIN own THEN own[id] ELSE rows[id]]
Put(written) == own' = [id \in DOMAIN written \cup DOMAIN own |->
                            IF id \in DOMAIN written THEN written[id] ELSE own[id]]
Own(id, row) == Put([i \in {id} |-> row])

\* scriptAccess.evaluator: the rules are loaded at the first touch and kept.
Actor == IF job.actor = NotLoaded THEN roles ELSE job.actor
Guard == IF job.actor = NotLoaded THEN security ELSE job.guard
Access == Evaluator(Actor, Guard)
Touched(request) == [request EXCEPT !.actor = Actor, !.guard = Guard]

ScriptStart ==
    /\ Idle
    /\ \E actor \in {System, NotLoaded} : Begin("running", [None EXCEPT !.kind = "script", !.actor = actor])
    /\ UNCHANGED <<rows, roles, security, own, ops, changes>>
Operation == pc = "running" /\ ops < MaxOps /\ ops' = ops + 1
ScriptVars == <<rows, roles, security, changes>>

\* updateScriptRecordWithQuerier: the row without what is deleted, then the
\* rules for U; the record is what they are asked about.
MayUpdate(row) == ~row.deleted /\ AllowsRecord(Access, "U", row.record)
Load(request, id) ==
    IF MayUpdate(Seen[id])
      THEN /\ pc' = "loaded" /\ stale' = {}
           /\ job' = [Touched(request) EXCEPT !.id = id, !.old = Seen[id].record]
      ELSE \* an error; the script may catch it and go on
           /\ pc' = "running" /\ job' = [Touched(request) EXCEPT !.todo = {}] /\ UNCHANGED stale

ScriptUpdate ==
    /\ Operation
    /\ \E id \in Ids, patch \in Patches : Load([job EXCEPT !.patch = patch], id)
    /\ UNCHANGED <<ScriptVars, own>>

\* updateWhere and bulkPatch list the ids under the update rules first.
ScriptUpdateWhere ==
    /\ Operation
    /\ \E query \in Queries, patch \in Patches :
         /\ HasSelectors(query)
         /\ LET ids == ListRecords(Access, "U", query, Seen) IN
            /\ job' = [Touched(job) EXCEPT !.patch = patch, !.todo = ToSet(ids)]
            /\ pc' = IF ids = <<>> THEN "running" ELSE "each"
    /\ UNCHANGED <<ScriptVars, own, stale>>
ScriptEach ==
    /\ pc = "each"
    /\ LET id == Sorted(job.todo)[1] IN Load([job EXCEPT !.todo = @ \ {id}], id)
    /\ UNCHANGED <<ScriptVars, own, ops>>

\* UPDATE ... WHERE _id = $n with the changed fields only, and the record read
\* again for the answer: deleted meanwhile, that is an error though it is done.
UpdateSet == Merged(Seen[job.id].record, Submitted(job.old, job.patch))
ScriptWrite ==
    /\ pc = "loaded"
    /\ Own(job.id, [Seen[job.id] EXCEPT !.record = UpdateSet])
    /\ IF Seen[job.id].deleted \/ job.todo = {}
         THEN pc' = "running" /\ job' = [job EXCEPT !.todo = {}]
         ELSE pc' = "each" /\ UNCHANGED job
    /\ UNCHANGED <<ScriptVars, stale, ops>>

\* deleteWhere: the permitted ids first, unless nothing restricts the actor.
ScriptTargets ==
    /\ Operation
    /\ \E query \in Queries :
         /\ HasSelectors(query)
         /\ LET ids == IF Restricts(Access, "D") THEN ToSet(ListRecords(Access, "D", query, Seen)) ELSE Ids IN
            IF ids = {} THEN pc' = "running" /\ job' = Touched(job) /\ UNCHANGED stale
            ELSE pc' = "targets" /\ job' = [Touched(job) EXCEPT !.query = query, !.todo = ids] /\ stale' = {}
    /\ UNCHANGED <<ScriptVars, own>>

\* Then one statement that asks the query again, in order, up to its limit.
AmongPermitted(ids) == ids \cap job.todo
ScriptDelete ==
    /\ pc = "targets"
    /\ LET found == Sorted(AmongPermitted(Matching(job.query, Seen)))
           gone == ToSet(IF job.query.limit = 0 THEN found ELSE AtMost(Limit(job.query), found))
       IN Put([id \in gone |-> [Seen[id] EXCEPT !.deleted = TRUE]])
    /\ pc' = "running" /\ job' = [job EXCEPT !.todo = {}, !.query = <<>>]
    /\ UNCHANGED <<ScriptVars, stale, ops>>

\* The transaction commits, or fails, times out or was a dry run.
ScriptEnd ==
    /\ pc = "running"
    /\ \/ rows' = Seen
       \/ UNCHANGED rows
    /\ own' = <<>> /\ ops' = 0 /\ Finish
    /\ UNCHANGED <<roles, security, changes>>

-----------------------------------------------------------------------------
(* Everybody else.                                                         *)

OthersWrite ==
    /\ changes < MaxChanges /\ changes' = changes + 1
    /\ \E id \in Ids \ DOMAIN own, record \in Records, deleted \in BOOLEAN :
         /\ rows' = [rows EXCEPT ![id] = [record |-> record, deleted |-> deleted]]
         /\ stale' = IF Idle THEN stale ELSE stale \cup {id}
    /\ UNCHANGED <<roles, security, pc, job, own, ops>>
OthersGrant ==
    /\ changes < MaxChanges /\ changes' = changes + 1
    /\ \/ roles' \in RoleSets /\ UNCHANGED security
       \/ security' \in Securities /\ UNCHANGED roles
    /\ UNCHANGED <<rows, pc, job, own, stale, ops>>

Next ==
    \/ SavePost \/ SaveAsk \/ SaveCommit \/ SaveRefused
    \/ BulkStart \/ BulkCheck \/ BulkWrite \/ BulkEnd
    \/ MarkCheck \/ MarkWrite
    \/ ScriptStart \/ ScriptUpdate \/ ScriptUpdateWhere \/ ScriptEach \/ ScriptWrite
    \/ ScriptTargets \/ ScriptDelete \/ ScriptEnd
    \/ OthersWrite \/ OthersGrant

Spec == Init /\ [][Next]_vars

-----------------------------------------------------------------------------
(* Properties.  What concerns a single question and not a request under    *)
(* way is asked of every table and set of roles found between requests.    *)

\* A page's save, a bulk update, a delete and a restore.
HandlerWritePermitted ==
    LET asked == Evaluator(job.actor, job.guard) IN
    /\ pc = "asked" /\ pc' = "idle" /\ rows'[job.id] # rows[job.id] =>
         \/ ~job.versioned /\ job.id \in stale
         \/ AllowsFields(asked, "U", ChangedFields(rows[job.id].record, rows'[job.id].record), rows'[job.id].record)
    /\ pc = "bulkwrite" /\ pc' = "bulk" =>
         \/ job.id \in stale
         \/ AllowsFields(asked, "U", ChangedFields(rows[job.id].record, job.patch), rows'[job.id].record)
    /\ pc = "mark" /\ pc' = "idle" =>
         job.id \in stale \/ AllowsRecord(asked, MarkOp(job.kind = "delete"), rows[job.id].record)

\* A script's update, of a row as it was, and its deleteWhere, whose statement
\* asks only the query again.
ScriptUpdatePermitted ==
    pc = "loaded" /\ pc' # "loaded" =>
        LET before == Seen[job.id].record
            after == own'[job.id].record
        IN /\ job.id \in stale \/ AllowsRecord(Access, "U", before)
           /\ \A f \in Fields : after[f] # before[f] => f \in DOMAIN job.patch
ScriptDeletePermitted ==
    pc = "targets" /\ pc' = "running" =>
        \A id \in DOMAIN own' :
            own'[id].deleted /\ ~Seen[id].deleted => id \in stale \/ AllowsRecord(Access, "D", Seen[id].record)

\* Whatever writes a record, the rules and roles its request found when it
\* asked let its user write it: a save that names a version leaves a record
\* they let him save, in every field it changed, and every other write is one
\* they permit unless somebody changed the row after they had been asked; a
\* script changes only the fields it submitted.
WritesPermitted == [][HandlerWritePermitted /\ ScriptUpdatePermitted /\ ScriptDeletePermitted]_vars

\* A script's list holds the first rows that match and that its user may read,
\* thinned out only by the cap (listScriptRecordsWithQuerier).
ListsComplete ==
    Idle => \A query \in Queries :
        LET e == Evaluator(roles, security)
            readable == {id \in Matching(query, rows) : AllowsRecord(e, "R", rows[id].record)}
            listed == ListRecords(e, "R", query, rows)
        IN /\ ToSet(listed) \subseteq readable
           /\ Cardinality(Matching(query, rows)) <= Cap => listed = AtMost(Limit(query), Sorted(readable))

Rank(order, readable, i) == Cardinality({j \in 1..i : order[j] \in readable})

\* The k-th row shown is the readable row of rank before + k.
ShowsAfter(before, shown, order, readable) ==
    /\ DOMAIN shown \subseteq 1..Cardinality(readable) - before
    /\ \A i \in DOMAIN order :
         order[i] \in readable /\ Rank(order, readable, i) - before \in DOMAIN shown =>
             shown[Rank(order, readable, i) - before] = order[i]

\* One page of a query: its share of the readable rows, and rightly whether
\* more follow; past the end the last rows.
PageOf(page, size, P, order, readable) ==
    LET total == Cardinality(readable)
        left(before) == IF total <= before THEN 0 ELSE IF total - before < size THEN total - before ELSE size
    IN /\ P.next <=> total > page * size
       /\ P.page = page =>
            /\ ShowsAfter((page - 1) * size, P.shown, order, readable)
            /\ Len(P.shown) = left((page - 1) * size)
       /\ P.page # page =>
            /\ P.page < page /\ P.page * size >= total
            /\ ShowsAfter(total - left(0), P.shown, order, readable) /\ Len(P.shown) = left(0)

\* All pages of one sorting: each its share; and if no two readable rows agree
\* in the column, each of them on one page, in whatever order each query
\* returned the rows.
Untied(column, readable, table) ==
    \A i, j \in readable : SortValue(column, i, table) = SortValue(column, j, table) => i = j
OnPage(id, q, P) == P.page = q /\ id \in ToSet(P.shown)
Covers(e, sort, size, ids, readable, table) ==
    LET pages == 1..Cardinality(Ids) + 1
        orders == Orders(sort, ids, table)
        P == [page \in pages |-> [order \in orders |-> SecureListPage(e, page, size, order, table)]]
    IN /\ \A page \in pages, order \in orders : PageOf(page, size, P[page][order], order, readable)
       /\ Untied(sort.column, readable, table) =>
            \A id \in readable : \E page \in pages :
                \A q \in pages, order \in orders : OnPage(id, q, P[q][order]) <=> q = page

\* The pages of a table hold the readable rows and nothing else, in the order
\* of their query, and say rightly whether more follow; and if no two readable
\* rows agree in the column sorted by, every one of them is on exactly one
\* page (loadSecureListPage).
PagesCoverRows ==
    Idle =>
        LET e == Evaluator(roles, security)
            ids == {id \in Ids : ~rows[id].deleted}
            readable == {id \in ids : AllowsRecord(e, "R", rows[id].record)}
        IN \A column \in SortColumns, desc \in BOOLEAN, size \in PageSizes :
             Covers(e, [column |-> column, desc |-> desc], size, ids, readable, rows)

\* What the preview calls allowed under the table's and the form's rules, the
\* save does not refuse, as long as nothing has changed and no field is blanked
\* (handleFormSecurityPreview).
PreviewSound ==
    Idle => \A id \in Ids, patch \in Patches, form \in Securities :
        LET e == Evaluator(roles, security)
            old == rows[id].record
            ofForm == [gate |-> form.gate, rules |-> OrderedRules[form], roles |-> roles]
        IN /\ \A f \in DOMAIN patch : patch[f] # Null
           /\ ChangedFields(old, patch) # {}
           /\ MergedPreview(Preview(e, FALSE, old, patch), Preview(ofForm, FALSE, old, patch)).save
           => ProposalAllowed(e, "U", old, Submitted(old, patch))

=============================================================================
