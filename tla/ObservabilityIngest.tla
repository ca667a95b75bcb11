------------------------- MODULE ObservabilityIngest -------------------------
(***************************************************************************)
(* The ingest_event service (the script in db/BaseObservabilitySync.go):   *)
(* an event finds or creates its entity, definition and observable, is     *)
(* recorded, updates the observable, and the observable's actions open and *)
(* close tasks.  Deliveries come from the webhook                          *)
(* (cmd/server/handleObservabilityWebhook.go) and from the queue.          *)
(*                                                                         *)
(* A delivery is one transaction (ExecuteAppServiceMethod) whose           *)
(* statements read what others committed before each of them.  What it     *)
(* writes is its own until it commits: an insert of a key another delivery *)
(* has inserted waits for it, and so does an update of the same row; a     *)
(* statement that fails ends the transaction.  Records are objects that    *)
(* remember what they were read as, and save only what differs             *)
(* (db/ScriptModels.go, db/ScriptOps.go).                                  *)
(***************************************************************************)
EXTENDS Integers, Sequences, FiniteSets

CONSTANTS
    Deliveries,     \* calls of the service
    Payloads,       \* what a call may bring, see Event
    Targets,        \* observables: definition, entity, node and resource
    Canonical,      \* the target a spelling of node and resource stands for
    EntityOf,       \* its base_entity row
    DefinitionOf,   \* its base_obs_definition row
    Provisioned,    \* enabled rows of base_obs_default_action
    Absent,         \* a value not given
    MaxDeletes      \* records users delete, a bound

VARIABLES
    pc,         \* each call: "new", "find", ..., "done"
    tx,         \* what its transaction holds
    answer,     \* why it failed, or "ok"
    exists,     \* committed entities, definitions and observables
    deleted,    \* those with _deleted_at
    row,        \* base_obs_observable
    log,        \* base_obs_event: the calls whose event is committed
    links,      \* base_obs_task: observable, action, opened by, open
    touched,    \* history: records users have deleted or restored
    during      \* history: the calls that committed while this one ran

vars == <<pc, tx, answer, exists, deleted, row, log, links, touched, during>>

-----------------------------------------------------------------------------
(* Normalisation of the event.                                             *)

NormalizeState(s) == IF s \in {"ok", "warning", "critical"} THEN s ELSE "unknown"
StateForSeverity(n) == IF n >= 4 THEN "critical" ELSE IF n >= 2 THEN "warning" ELSE "ok"
Clamped(n) == IF n < 0 THEN 0 ELSE IF n > 5 THEN 5 ELSE n
NormalizeSeverity(severity, state) ==
    Clamped(IF severity # Absent THEN severity
            ELSE CASE NormalizeState(state) = "critical" -> 4
                   [] NormalizeState(state) = "warning" -> 2
                   [] OTHER -> 0)

\* A GitHub delivery becomes an event: how its run ended, or what was done.
GithubDeliveryStateSeverity(conclusion) ==
    CASE conclusion \in {"success", "neutral", "skipped"} -> 0
      [] conclusion \in {"cancelled", "stale"} -> 2
      [] conclusion \in {"failure", "timed_out", "action_required", "startup_failure"} -> 4
      [] OTHER -> 1                                  \* queued, in progress, unknown
GithubWebhookSeverity(event, what) ==
    CASE event = "ping" -> 0
      [] event \in {"workflow_run", "workflow_job", "check_run", "check_suite"} -> GithubDeliveryStateSeverity(what)
      [] event = "push" -> IF what \in {"deleted", "forced"} THEN 2 ELSE 1
      [] OTHER -> IF what \in {"deleted", "archived", "disabled", "removed"} THEN 2 ELSE 1
Github(payload) ==
    IF payload.hook = Absent THEN payload
    ELSE [payload EXCEPT !.severity = GithubWebhookSeverity(payload.hook[1], payload.hook[2])]

\* An explicit state wins over the one the severity stands for; node and
\* resource are lower-cased.
LowerCase(node) == Canonical[node]
Normalized(payload) ==
    LET severity == NormalizeSeverity(payload.severity, payload.state)
    IN [node |-> LowerCase(payload.node), severity |-> severity, recent |-> payload.recent, byId |-> payload.byId,
        state |-> IF payload.state # Absent THEN NormalizeState(payload.state)
                  ELSE StateForSeverity(severity)]
Event(payload) == Normalized(Github(payload))

-----------------------------------------------------------------------------
(* Transactions.                                                           *)

Fresh == [state |-> "unknown", severity |-> 0, flaps |-> 0, last |-> Absent]
Columns == DOMAIN Fresh
Empty == [event |-> Absent, stage |-> 1, new |-> {}, read |-> Fresh, saved |-> Fresh,
          todo |-> {}, opens |-> {}, closes |-> {}]

\* Rows are stored with node and resource in lower case.
Target(event) == Canonical[event.node]
Of(d) == Target(tx[d].event)
\* The records a delivery looks for, in the order of run.
KeysByState(event) ==                                \* mutant: recoveries start with the definition
    LET t == Target(event) IN IF event.state = "ok" THEN <<DefinitionOf[t], EntityOf[t], t>> ELSE <<EntityOf[t], DefinitionOf[t], t>>
Keys(event) == LET t == Target(event) IN <<EntityOf[t], DefinitionOf[t], t>>
Key(d) == Keys(tx[d].event)[tx[d].stage]

Updating == {"evaluate", "write", "commit"}          \* the observable's row is locked
Holds(d, t) == pc[d] \in Updating /\ Of(d) = t
Others(d) == Deliveries \ {d}
\* Before-write triggers refuse an observable or a definition that is deleted.
Active(t) == {t, DefinitionOf[t]} \cap deleted = {}

Init ==
    /\ pc = [d \in Deliveries |-> "new"]
    /\ tx = [d \in Deliveries |-> Empty]
    /\ answer = [d \in Deliveries |-> Absent]
    /\ exists = {} /\ deleted = {} /\ touched = {} /\ log = {} /\ links = {}
    /\ during = [d \in Deliveries |-> {}]
    /\ row = [t \in Targets |-> Fresh]

Step(d, next, with) ==
    /\ pc' = [pc EXCEPT ![d] = next]
    /\ tx' = [tx EXCEPT ![d] = with]
End(d, why) ==
    /\ Step(d, "done", [Empty EXCEPT !.event = tx[d].event])
    /\ answer' = [answer EXCEPT ![d] = why]
Database == <<exists, deleted, row, log, links, touched>>

\* A statement fails: the rest of the script, the second look of its catch
\* blocks included, fails in the same transaction and nothing is committed.
Fail(d, why) == End(d, why) /\ UNCHANGED <<Database, during>>

\* The two seconds of a script, the deadline of a batch or the process end.
Interrupt(d) == pc[d] \notin {"new", "done"} /\ Fail(d, "interrupted")

Receive(d) ==
    /\ pc[d] = "new"
    /\ \E p \in Payloads : Step(d, "find", [Empty EXCEPT !.event = Event(p)])
    /\ UNCHANGED <<Database, answer, during>>

\* The record of this stage is there as r: go on with the next one.
Proceed(d, r) ==
    IF tx[d].stage = 3 THEN Step(d, "record", r) ELSE Step(d, "find", [r EXCEPT !.stage = @ + 1])

\* resolveEntity, resolveDefinition, findObservable: the first look.
Find(d) ==
    /\ pc[d] = "find"
    /\ IF Key(d) \in exists \ deleted /\ (tx[d].stage = 3 => tx[d].event.node = Of(d))
       THEN Proceed(d, IF tx[d].stage < 3 THEN tx[d]
                       ELSE [tx[d] EXCEPT !.read = row[Of(d)], !.saved = row[Of(d)]])
       ELSE Step(d, "make", tx[d])
    /\ UNCHANGED <<Database, answer, during>>

\* An entity_id that names nothing is an error.
EntityMissing(d) ==
    /\ pc[d] = "make" /\ tx[d].stage = 1 /\ tx[d].event.byId
    /\ Fail(d, "gone")

\* The insert, with the actions copied for a new observable.  The unique
\* indexes of definitions and observables also count deleted rows.
Make(d) ==
    /\ pc[d] = "make" /\ ~(tx[d].stage = 1 /\ tx[d].event.byId)
    /\ \A e \in Others(d) : Key(d) \notin tx[e].new
    /\ IF Key(d) \in exists THEN Fail(d, "conflict")
       ELSE /\ Proceed(d, [tx[d] EXCEPT !.new = @ \cup {Key(d)}])
            /\ UNCHANGED <<Database, answer, during>>

\* The event's own row.
Record(d) ==
    /\ pc[d] = "record"
    /\ IF ~Active(Of(d)) THEN Fail(d, "gone")
       ELSE Step(d, "update", tx[d]) /\ UNCHANGED <<Database, answer, during>>

ComputeFlapCount(old, state) ==
    IF old.state = state THEN old.flaps + 1 ELSE IF state = "ok" THEN 0 ELSE 1
Updated(d) ==
    [state |-> tx[d].event.state, severity |-> tx[d].event.severity, last |-> d,
     flaps |-> ComputeFlapCount(tx[d].read, tx[d].event.state)]

\* save: only the fields that differ from what was read are written, onto the
\* row of the moment, which is read back.
CurrentRow(d) == IF Of(d) \in tx[d].new THEN Fresh ELSE row[Of(d)]
SavedWorst(d) ==                                     \* mutant: only a worse severity is written
    LET changed == {c \in Columns : Updated(d)[c] # tx[d].read[c]}
    IN [c \in Columns |-> IF c = "severity" /\ CurrentRow(d)[c] > Updated(d)[c] THEN CurrentRow(d)[c]
                          ELSE IF c \in changed THEN Updated(d)[c] ELSE CurrentRow(d)[c]]
Saved(d) ==
    [c \in Columns |-> IF Updated(d)[c] # tx[d].read[c] THEN Updated(d)[c] ELSE CurrentRow(d)[c]]

\* updateObservable.
Update(d) ==
    /\ pc[d] = "update"
    /\ \A e \in Others(d) : ~Holds(e, Of(d))
    /\ IF ~Active(Of(d)) THEN Fail(d, "gone")
       ELSE /\ Step(d, "evaluate", [tx[d] EXCEPT !.saved = Saved(d), !.todo = Provisioned, !.opens = {}, !.closes = {}])
            /\ UNCHANGED <<Database, answer, during>>

-----------------------------------------------------------------------------
(* Actions of the observable.                                              *)

\* flapGuardSatisfied reads the newest events of the window, at most four times
\* as many as it asks for or 50, and counts those whose severity, not whose
\* state, stands for the trigger.  The callers date the events: any may be new.
Recent(d) == {e \in log \cup {d} : Of(e) = Of(d) /\ tx[e].event.recent}
RecentLimit(a) == IF 4 * a.flaps > 50 THEN 4 * a.flaps ELSE 50
RecentEvents(a, d) ==
    IF Cardinality(Recent(d)) <= RecentLimit(a) THEN {Recent(d)}
    ELSE {read \in SUBSET Recent(d) : Cardinality(read) = RecentLimit(a)}
Matches(a, read) == Cardinality({e \in read : StateForSeverity(tx[e].event.severity) = a.trigger})
FlapGuardSatisfied(a, r, matches) ==
    a.flaps <= 1 \/ IF a.window THEN matches >= a.flaps ELSE r.flaps >= a.flaps
Wanted(a, r) ==
    /\ a.trigger = r.state
    /\ a.severity # Absent => r.severity >= a.severity
Triggered(a, r, matches) == Wanted(a, r) /\ FlapGuardSatisfied(a, r, matches)

OpenLinks(t) == {l \in links : l.target = t /\ l.open}
\* A resolve or cancel action closes the tasks of its type, or of all types.
Closes(a, l) ==
    /\ a.type \in {"resolve_task", "cancel_task"}
    /\ a.task # Absent => l.action.task = a.task

ObservedUnread(d) == Updated(d)                      \* mutant: the object, not the row read back
Observed(d) == tx[d].saved

\* evaluateActions takes one action after the other, in no stated order; each
\* makes its own queries, which see what the ones before it wrote.
EvaluateAction(d, a, read) ==
    LET due == FlapGuardSatisfied(a, Observed(d), Matches(a, read))
        now == OpenLinks(Of(d)) \ tx[d].closes
        opens == {x \in {a} : due /\ x.type = "create_task" /\ \A l \in now : l.action # x}
        closes == {l \in now : due /\ Closes(a, l)}
    IN [tx[d] EXCEPT !.todo = @ \ {a}, !.opens = @ \cup opens, !.closes = @ \cup closes]
Evaluate(d) ==
    /\ pc[d] = "evaluate"
    /\ LET wanted == {a \in tx[d].todo : Wanted(a, Observed(d))}
       IN \/ wanted = {} /\ Step(d, "commit", [tx[d] EXCEPT !.todo = {}])
          \/ \E a \in wanted : \E read \in RecentEvents(a, d) : Step(d, "write", EvaluateAction(d, a, read))
    /\ UNCHANGED <<Database, answer, during>>

\* createTaskForAction inserts task and link, closeOpenTasksForAction closes
\* both; base_obs_task_open_unique allows one open link of an action.
Write(d) ==
    /\ pc[d] = "write"
    /\ \A e \in Others(d) : pc[e] \in {"evaluate", "commit"} /\ Of(e) = Of(d) => tx[e].opens \cap tx[d].opens = {}
    /\ IF \E l \in OpenLinks(Of(d)) : l.action \in tx[d].opens THEN Fail(d, "link")
       ELSE Step(d, "evaluate", tx[d]) /\ UNCHANGED <<Database, answer, during>>

Commit(d) ==
    /\ pc[d] = "commit"
    /\ End(d, "ok")
    /\ exists' = exists \cup tx[d].new
    /\ row' = [row EXCEPT ![Of(d)] = tx[d].saved]
    /\ log' = log \cup {d}
    /\ links' = (links \ tx[d].closes)
                 \cup {[l EXCEPT !.open = FALSE] : l \in tx[d].closes}
                 \cup {[target |-> Of(d), action |-> a, by |-> d, open |-> TRUE] : a \in tx[d].opens}
    /\ during' = [e \in Deliveries |-> IF pc[e] \in {"new", "done"} \/ e = d THEN during[e] ELSE during[e] \cup {d}]
    /\ UNCHANGED <<deleted, touched>>

\* Users delete and restore observables and definitions like any record.
Mark(k, marked) ==
    /\ deleted' = marked /\ touched' = touched \cup {k}
    /\ UNCHANGED <<pc, tx, answer, exists, row, log, links, during>>
Delete(k) ==
    /\ k \in exists \ (deleted \cup {EntityOf[t] : t \in Targets})
    /\ Cardinality(touched) < MaxDeletes
    /\ Mark(k, deleted \cup {k})
Restore(k) == k \in deleted /\ Mark(k, deleted \ {k})

-----------------------------------------------------------------------------
Statement(d) == Find(d) \/ EntityMissing(d) \/ Make(d) \/ Record(d) \/ Update(d) \/ Evaluate(d) \/ Write(d) \/ Commit(d)
Finished == \A d \in Deliveries : pc[d] = "done"
Next == \/ \E d \in Deliveries : Receive(d) \/ Statement(d) \/ Interrupt(d)
        \/ \E k \in exists : Delete(k) \/ Restore(k)

Spec == Init /\ [][Next]_vars
-----------------------------------------------------------------------------
(* Properties.                                                             *)

\* The observable shows state and severity of its last event, as its label
\* "Current rolled-up state" has it, unless another delivery for it committed
\* between the look-up and the save of that event's (updateObservable, save).
Overlapped(d) == \E e \in during[d] : Of(e) = Of(d)
ShowsLastEvent(t, d) == row[t].state = tx[d].event.state /\ row[t].severity = tx[d].event.severity
RolledUpUnlessOverlapped ==
    \A t \in Targets : \A d \in log : row[t].last = d /\ ~Overlapped(d) => ShowsLastEvent(t, d)

\* The row decides, whatever the deliveries' order: a committed row that
\* triggers a task has an open one for it, and one that resolves a task type
\* leaves none of that type open (evaluateActions after the saved row).
RowDecides ==
    \A t \in Targets \cap exists : \A a \in Provisioned :
        ~a.window /\ Triggered(a, row[t], 0) =>
            IF a.type = "create_task" THEN \E l \in OpenLinks(t) : l.action = a
            ELSE \A l \in OpenLinks(t) : ~Closes(a, l)

\* Deliveries wait for each other's inserts and updates, never in a circle:
\* while some are under way, one of them can go on (entity, definition,
\* observable in run; the database would have to cancel one).
SomeoneProceeds ==
    (\E d \in Deliveries : pc[d] \notin {"new", "done"}) => \E d \in Deliveries : ENABLED Statement(d)
=============================================================================
