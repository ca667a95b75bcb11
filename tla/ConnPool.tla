------------------------------ MODULE ConnPool ------------------------------
(***************************************************************************)
(* The one pgx connection pool of the process and the requests that share *)
(* it. A request is a sequence of database operations. Most take a         *)
(* connection, use it and return it. Three handlers keep one while they    *)
(* ask the pool for another:                                               *)
(*   save   HandleSave opens its transaction and, inside it, reads the     *)
(*          active apps and the security rules through the pool;           *)
(*   docs   saveDocsArticle resolves wikilinks through the pool inside     *)
(*          its transaction;                                               *)
(*   board  the task board loads security rules through the pool while the *)
(*          rows of its query are still open.                              *)
(* An operation runs under the context of the request, which ends when the *)
(* client leaves, or under context.Background(), which never ends. The     *)
(* pool is created without any timeout. pgxpool itself is not in the       *)
(* repository: it hands a free connection to the longest waiter.           *)
(***************************************************************************)
EXTENDS Integers, Sequences, FiniteSets

CONSTANTS Handlers,  \* requests being served, each by a handler
          Kind,      \* the handler each of them runs
          MaxConns   \* connections of the pool

Kinds == {"save", "docs", "board", "read"}

ASSUME PoolAssumption ==
  /\ IsFiniteSet(Handlers)
  /\ Kind \in [Handlers -> Kinds]
  /\ MaxConns \in Nat \ {0}

VARIABLES pc,       \* operation a request is at; 0: not being served
          outer,    \* requests holding a transaction or open rows
          inner,    \* requests holding a connection for one query
          waiting,  \* requests in the pool's queue, longest first
          gone      \* requests whose client has left

poolVars == <<pc, outer, inner, waiting, gone>>

-----------------------------------------------------------------------------
(* Operations                                                              *)

Take(act, ctx) == [act |-> act, ctx |-> ctx]

(* What each handler asks of the pool from its transaction or open rows    *)
(* on; the queries before that are those of a read. "hold" takes a         *)
(* connection and keeps it until "release"; "query" returns it with the    *)
(* answer.                                                                 *)
SavePlan == << Take("hold", "background"), Take("query", "background"),
               Take("query", "request"), Take("release", "background"),
               Take("query", "background") >>
DocsPlan == << Take("hold", "request"), Take("query", "request"),
               Take("release", "request") >>
BoardPlan == << Take("hold", "request"), Take("query", "request"),
                Take("release", "request") >>
(* Mutant: a read asks again with its rows open. *)
ReadNested == BoardPlan
ReadPlan == << Take("query", "request") >>

Plan == [k \in Kinds |-> CASE k = "save" -> SavePlan
                           [] k = "docs" -> DocsPlan
                           [] k = "board" -> BoardPlan
                           [] k = "read" -> ReadPlan]

PlanOf(r) == Plan[Kind[r]]
Op(r) == PlanOf(r)[pc[r]]
Served(r) == pc[r] > 0
Queued(r) == \E i \in 1..Len(waiting) : waiting[i] = r
Running(r) == Served(r) /\ r \notin inner /\ ~Queued(r)
Free == Cardinality(outer) + Cardinality(inner) < MaxConns

Next1(r) == IF pc[r] = Len(PlanOf(r)) THEN 0 ELSE pc[r] + 1
Advance(r) == pc' = [pc EXCEPT ![r] = Next1(r)]

(* The queue without r. *)
Without(r) ==
  IF \E i \in 1..Len(waiting) : waiting[i] = r
  THEN LET i == CHOOSE j \in 1..Len(waiting) : waiting[j] = r
       IN  [j \in 1..(Len(waiting) - 1) |->
              IF j < i THEN waiting[j] ELSE waiting[j + 1]]
  ELSE waiting

(* Mutant: an error path without the deferred Rollback. *)
ReturnOpen(r) ==
  /\ pc' = [pc EXCEPT ![r] = 0]
  /\ outer' = outer
  /\ inner' = inner \ {r}
  /\ waiting' = Without(r)

(* The handler returns: its deferred Rollback and rows.Close release.      *)
Return(r) ==
  /\ pc' = [pc EXCEPT ![r] = 0]
  /\ outer' = outer \ {r}
  /\ inner' = inner \ {r}
  /\ waiting' = Without(r)

-----------------------------------------------------------------------------
PoolInit ==
  /\ pc = [r \in Handlers |-> 0]
  /\ outer = {}
  /\ inner = {}
  /\ waiting = <<>>
  /\ gone = {}

Arrive(r) ==
  /\ ~Served(r)
  /\ pc' = [pc EXCEPT ![r] = 1]
  /\ gone' = gone \ {r}
  /\ UNCHANGED <<outer, inner, waiting>>

(* Pool.Query, Pool.QueryRow, Pool.Exec and Pool.Begin acquire first.      *)
Ask(r) ==
  /\ Running(r)
  /\ Op(r).act \in {"query", "hold"}
  /\ waiting' = Append(waiting, r)
  /\ UNCHANGED <<pc, outer, inner, gone>>

(* The request has the answer already: its metadata cache holds the apps,  *)
(* the article has no wikilink, the row's table was seen before.           *)
Skip(r) ==
  /\ Running(r)
  /\ Op(r) = Take("query", "request")
  /\ Advance(r)
  /\ UNCHANGED <<outer, inner, waiting, gone>>

(* The pool gives a connection to a query; Done is its answer.             *)
GrantQuery(r) ==
  /\ Free
  /\ waiting # <<>>
  /\ Head(waiting) = r
  /\ Op(r).act = "query"
  /\ waiting' = Tail(waiting)
  /\ inner' = inner \cup {r}
  /\ UNCHANGED <<pc, outer, gone>>

GrantHold(r) ==
  /\ Free
  /\ waiting # <<>>
  /\ Head(waiting) = r
  /\ Op(r).act = "hold"
  /\ waiting' = Tail(waiting)
  /\ outer' = outer \cup {r}
  /\ Advance(r)
  /\ UNCHANGED <<inner, gone>>

Done(r) ==
  /\ r \in inner
  /\ inner' = inner \ {r}
  /\ Advance(r)
  /\ UNCHANGED <<outer, waiting, gone>>

Release(r) ==
  /\ Running(r)
  /\ Op(r).act = "release"
  /\ outer' = outer \ {r}
  /\ Advance(r)
  /\ UNCHANGED <<inner, waiting, gone>>

(* A query fails, or the handler refuses what it read, and returns early.  *)
Fail(r) ==
  /\ Served(r)
  /\ ~Queued(r)
  /\ Return(r)
  /\ UNCHANGED gone

Leave(r) ==
  /\ Served(r)
  /\ gone' = gone \cup {r}
  /\ UNCHANGED <<pc, outer, inner, waiting>>

(* The context of the request is over: its operation ends with an error,   *)
(* in the pool's queue too.                                                *)
Cancel(r) ==
  /\ Served(r)
  /\ r \in gone
  /\ Op(r).ctx = "request"
  /\ Return(r)
  /\ UNCHANGED gone

Grant(r) == GrantQuery(r) \/ GrantHold(r)
Serve(r) == Ask(r) \/ Grant(r) \/ Done(r) \/ Release(r) \/ Cancel(r)
PoolNext == \E r \in Handlers : Arrive(r) \/ Skip(r) \/ Serve(r) \/ Fail(r) \/ Leave(r)

(* Handlers run, the pool serves its queue and the database answers;       *)
(* clients need not come, leave, or fail.                                  *)
Fairness ==
  \A r \in Handlers :
    /\ WF_poolVars(Ask(r))
    /\ WF_poolVars(Grant(r))
    /\ WF_poolVars(Done(r))
    /\ WF_poolVars(Release(r))
    /\ WF_poolVars(Cancel(r))

PoolSpec == PoolInit /\ [][PoolNext]_poolVars
PoolFairSpec == PoolSpec /\ Fairness

-----------------------------------------------------------------------------
(* Properties                                                              *)

(* Types, and the pool never hands out more than it has.                   *)
PoolTypeOK ==
  /\ pc \in [Handlers -> 0..5]
  /\ outer \subseteq Handlers
  /\ inner \subseteq Handlers
  /\ waiting \in Seq(Handlers)
  /\ gone \subseteq Handlers
  /\ Cardinality(outer) + Cardinality(inner) <= MaxConns

(* No connection is free and every request that has one waits for another. *)
Blocked == ~Free /\ \A r \in outer \cup inner : Queued(r)

(* Blocked, and every wait is under context.Background().                  *)
Exhausted ==
  /\ ~Free
  /\ \A r \in outer \cup inner : Queued(r) /\ Op(r).ctx = "background"

(* Requests in a handler that holds a connection while it asks for another. *)
Holders == {r \in Handlers : Served(r) /\ Kind[r] # "read"}

(* Requests block each other only if at least as many of them as the pool  *)
(* has connections are in a handler that nests: HandleSave,                *)
(* saveDocsArticle, the task board. Any number of reads never do.          *)
BlockedByHolders == Blocked => Cardinality(Holders) >= MaxConns

(* Once MaxConns saves hold a transaction and wait under                   *)
(* context.Background() for the active apps, nothing the program or its    *)
(* clients do ends it: the pool is lost until the process is restarted.    *)
ExhaustedForever == [][Exhausted => Exhausted']_poolVars

(* Whatever fails and whoever leaves, a request that is served ends or the *)
(* pool blocks: no error path keeps a connection, and waiters are not      *)
(* overtaken for ever.                                                     *)
EndsUnlessBlocked ==
  \A r \in Handlers : Served(r) ~> (~Served(r) \/ Blocked)

=============================================================================
