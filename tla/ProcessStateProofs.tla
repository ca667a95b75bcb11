--------------------------- MODULE ProcessStateProofs ---------------------------
(***************************************************************************)
(* Theorems about what one server process keeps in memory and its requests *)
(* share, for any number of requests, users and writers and any bounds:    *)
(*   ObservabilityQueue  the channel of events and its worker,             *)
(*   ConnPool            the connections of the pool and who waits for one,*)
(*   AuthzCache          the cached answers of UserHasPermission.          *)
(* The three are independent, each with its own specification.             *)
(***************************************************************************)
EXTENDS ObservabilityQueue, ConnPool, AuthzCache, SequenceTheorems, FiniteSetTheorems, TLAPS

(***************************************************************************)
(* The observability queue: it implements a FIFO queue that drops at its   *)
(* bound.                                                                  *)
(***************************************************************************)
-----------------------------------------------------------------------------
(* Facts about sequences.                                                   *)

\* Appending to the last of three concatenated sequences appends to the whole.
LEMMA AppendToLast ==
    ASSUME NEW s \in Seq(Requests), NEW t \in Seq(Requests), NEW u \in Seq(Requests),
           NEW e \in Requests
    PROVE  Append(s \o t \o u, e) = s \o t \o Append(u, e)
<1>1. s \o t \in Seq(Requests)
  BY ConcatProperties
<1>2. (s \o t \o u) \in Seq(Requests) /\ <<e>> \in Seq(Requests)
  BY <1>1, ConcatProperties
<1>3. \A a \in Seq(Requests) : (a \o u) \o <<e>> = a \o (u \o <<e>>)
  BY <1>2, ConcatAssociative
<1>4. \A a \in Seq(Requests) : Append(a, e) = a \o <<e>>
  BY AppendIsConcat
<1> QED
  BY <1>1, <1>2, <1>3, <1>4

\* Moving the head of one sequence to the end of the one before it changes nothing.
LEMMA MoveHead ==
    ASSUME NEW s \in Seq(Requests), NEW t \in Seq(Requests), NEW u \in Seq(Requests), u # <<>>
    PROVE  s \o Append(t, Head(u)) \o Tail(u) = s \o t \o u
<1>1. Head(u) \in Requests /\ Tail(u) \in Seq(Requests) /\ <<Head(u)>> \in Seq(Requests)
  BY HeadTailProperties
<1>2. u = <<Head(u)>> \o Tail(u)
  BY <1>1
<1>3. s \o Append(t, Head(u)) = (s \o t) \o <<Head(u)>>
  BY <1>1, AppendIsConcat, ConcatAssociative
<1>4. (s \o t) \in Seq(Requests)
  BY ConcatProperties
<1>5. ((s \o t) \o <<Head(u)>>) \o Tail(u) = (s \o t) \o (<<Head(u)>> \o Tail(u))
  BY <1>1, <1>4, ConcatAssociative
<1> QED
  BY <1>2, <1>3, <1>5

\* The lengths and types of a sequence that gives its head away.
LEMMA TakeHead ==
    ASSUME NEW S, NEW s \in Seq(S), s # <<>>
    PROVE  /\ Head(s) \in S /\ Tail(s) \in Seq(S) /\ Len(Tail(s)) < Len(s)
           /\ Len(s) \in Nat /\ Len(Tail(s)) \in Nat
BY HeadTailProperties, LenProperties

-----------------------------------------------------------------------------
\* Every step keeps the fields of the queue in their types, the channel within
\* its capacity and the batch within maxBatch.
THEOREM TypeCorrect == Spec => []TypeOK
<1> USE DEF requestVars, batchVars, emitVars, counterVars, stopVars
<1>1. Init => TypeOK
  <2> SUFFICES ASSUME Init PROVE TypeOK
    OBVIOUS
  <2>1. BufferTypes
    BY QueueAssumption DEF Init, BufferTypes
  <2>2. ControlTypes
    BY DEF Init, ControlTypes, RequestStates, WorkerStates
  <2>3. CounterTypes
    BY DEF Init, CounterTypes
  <2> QED
    BY <2>1, <2>2, <2>3 DEF TypeOK
<1>2. TypeOK /\ [Next]_vars => BufferTypes'
  <2> SUFFICES ASSUME BufferTypes, [Next]_vars PROVE BufferTypes'
    BY DEF TypeOK
  <2> USE DEF BufferTypes
  <2>1. ASSUME NEW r \in Requests, Send(r) PROVE BufferTypes'
    <3>1. CASE Len(jobs) < QueueSize
      <4>1. Append(jobs, r) \in Seq(Requests) /\ Len(Append(jobs, r)) <= QueueSize
        BY <3>1, QueueAssumption, AppendProperties, LenProperties
      <4>2. Append(accepted, r) \in Seq(Requests)
        BY AppendProperties
      <4> QED
        BY <2>1, <3>1, <4>1, <4>2 DEF Send, SendIf
    <3>2. CASE ~(Len(jobs) < QueueSize)
      BY <2>1, <3>2 DEF Send, SendIf
    <3> QED
      BY <3>1, <3>2
  <2>2. CASE Receive
    <3>1. <<Head(jobs)>> \in Seq(Requests) /\ Len(<<Head(jobs)>>) <= MaxBatch
      BY <2>2, TakeHead, QueueAssumption DEF Receive
    <3>2. Tail(jobs) \in Seq(Requests) /\ Len(Tail(jobs)) <= QueueSize
      BY <2>2, TakeHead, QueueAssumption DEF Receive
    <3> QED
      BY <2>2, <3>1, <3>2 DEF Receive
  <2>3. CASE Coalesce
    <3>1. CASE Len(batch) < MaxBatch /\ jobs # <<>>
      <4>1. Tail(jobs) \in Seq(Requests) /\ Len(Tail(jobs)) <= QueueSize
        BY <3>1, TakeHead, QueueAssumption
      <4>2. Append(batch, Head(jobs)) \in Seq(Requests) /\ Len(Append(batch, Head(jobs))) <= MaxBatch
        BY <3>1, TakeHead, AppendProperties, LenProperties, QueueAssumption
      <4> QED
        BY <2>3, <3>1, <4>1, <4>2 DEF Coalesce, CoalesceInto
    <3>2. CASE ~(Len(batch) < MaxBatch /\ jobs # <<>>)
      BY <2>3, <3>2 DEF Coalesce, CoalesceInto
    <3> QED
      BY <3>1, <3>2
  <2>4. CASE Account
    BY <2>4, QueueAssumption DEF Account, AccountAs
  <2>5. CASE UNCHANGED <<jobs, batch, accepted, delivered>>
    BY <2>5
  <2> QED
    BY <2>1, <2>2, <2>3, <2>4, <2>5
       DEF Next, Request, Worker, vars, Ignore, Start, ReadLock, StopCall, StopClose,
           WorkerEnd, WorkerEndIf, Resolve, EmitEvent
<1>3. TypeOK /\ [Next]_vars => ControlTypes'
  <2> SUFFICES ASSUME ControlTypes, [Next]_vars PROVE ControlTypes'
    BY DEF TypeOK
  <2> USE DEF ControlTypes, RequestStates, WorkerStates
  <2>1. ASSUME NEW r \in Requests, Request(r) PROVE ControlTypes'
    BY <2>1 DEF Request, Ignore, Start, ReadLock, Send, SendIf
  <2>2. CASE StopCall \/ StopClose
    BY <2>2 DEF StopCall, StopClose
  <2>3. CASE Receive \/ WorkerEnd \/ Coalesce \/ Resolve \/ Account
    BY <2>3 DEF Receive, WorkerEnd, WorkerEndIf, Coalesce, CoalesceInto, Resolve, Account, AccountAs
  <2>4. CASE EmitEvent
    BY <2>4 DEF EmitEvent, CallSucceeds, CallFails
  <2>5. CASE UNCHANGED vars
    BY <2>5 DEF vars
  <2> QED
    BY <2>1, <2>2, <2>3, <2>4, <2>5 DEF Next, Worker
<1>4. TypeOK /\ [Next]_vars => CounterTypes'
  <2> SUFFICES ASSUME BufferTypes, CounterTypes, [Next]_vars PROVE CounterTypes'
    BY DEF TypeOK
  <2> USE DEF CounterTypes
  <2>1. ASSUME NEW r \in Requests, Request(r) PROVE CounterTypes'
    BY <2>1 DEF Request, Ignore, Start, ReadLock, Send, SendIf
  <2>2. CASE Receive \/ Coalesce
    <3>1. jobs # <<>> => Load[Head(jobs)] \in Nat
      BY TakeHead, QueueAssumption DEF BufferTypes
    <3>2. CASE Receive
      BY <3>1, <3>2 DEF Receive
    <3>3. CASE Coalesce
      BY <3>1, <3>3 DEF Coalesce, CoalesceInto
    <3> QED
      BY <2>2, <3>2, <3>3
  <2>3. CASE StopCall \/ StopClose \/ WorkerEnd \/ Resolve \/ Account
    BY <2>3 DEF StopCall, StopClose, WorkerEnd, WorkerEndIf, Resolve, Account, AccountAs
  <2>4. CASE EmitEvent
    BY <2>4, QueueAssumption DEF EmitEvent, Expired
  <2>5. CASE UNCHANGED vars
    BY <2>5 DEF vars
  <2> QED
    BY <2>1, <2>2, <2>3, <2>4, <2>5 DEF Next, Worker
<1> QED
  BY <1>1, <1>2, <1>3, <1>4, PTL DEF Spec, TypeOK

\* QueueInv holds initially and every step of a typed state keeps it.
LEMMA QueueInvInit == Init => QueueInv
<1> SUFFICES ASSUME Init PROVE QueueInv
  OBVIOUS
<1>1. Conservation
  BY DEF Init, Conservation
<1> QED
  BY <1>1 DEF Init, QueueInv, NoSendOnClosed, IdleWorkerHoldsNothing

\* Sending, receiving, coalescing and accounting move jobs along one sequence.
LEMMA ConservationStep ==
    ASSUME BufferTypes, Conservation, IdleWorkerHoldsNothing, [Next]_vars
    PROVE  Conservation'
<1> USE DEF requestVars, batchVars, emitVars, counterVars, stopVars
<1>t. /\ jobs \in Seq(Requests) /\ batch \in Seq(Requests) /\ delivered \in Seq(Requests)
  BY DEF BufferTypes
<1>1. ASSUME NEW r \in Requests, Send(r) PROVE Conservation'
  <2>1. Append(delivered \o batch \o jobs, r) = delivered \o batch \o Append(jobs, r)
    BY <1>t, AppendToLast
  <2>2. UNCHANGED <<batch, delivered>>
    BY <1>1 DEF Send, SendIf
  <2>3. \/ jobs' = Append(jobs, r) /\ accepted' = Append(accepted, r)
        \/ UNCHANGED <<jobs, accepted>>
    BY <1>1 DEF Send, SendIf
  <2> QED
    BY <2>1, <2>2, <2>3 DEF Conservation
<1>2. CASE Receive
  <2>1. <<Head(jobs)>> = Append(<<>>, Head(jobs)) /\ <<>> \in Seq(Requests)
    OBVIOUS
  <2>2. delivered \o <<Head(jobs)>> \o Tail(jobs) = delivered \o <<>> \o jobs
    BY <1>t, <1>2, <2>1, MoveHead DEF Receive
  <2>3. batch = <<>>
    BY <1>2 DEF Receive, IdleWorkerHoldsNothing
  <2> QED
    BY <1>2, <2>2, <2>3 DEF Receive, Conservation
<1>3. CASE Coalesce
  <2>1. jobs # <<>> => delivered \o Append(batch, Head(jobs)) \o Tail(jobs) = delivered \o batch \o jobs
    BY <1>t, MoveHead
  <2>2. UNCHANGED <<accepted, delivered>>
    BY <1>3 DEF Coalesce, CoalesceInto
  <2>3. \/ jobs # <<>> /\ batch' = Append(batch, Head(jobs)) /\ jobs' = Tail(jobs)
        \/ UNCHANGED <<jobs, batch>>
    BY <1>3 DEF Coalesce, CoalesceInto
  <2> QED
    BY <2>1, <2>2, <2>3 DEF Conservation
<1>4. CASE Account
  <2>1. delivered \o batch \in Seq(Requests)
    BY <1>t, ConcatProperties
  <2>2. (delivered \o batch) \o <<>> = delivered \o batch
    BY <2>1, ConcatEmptySeq
  <2> QED
    BY <1>4, <2>2 DEF Account, AccountAs, Conservation
<1>5. CASE UNCHANGED <<jobs, batch, accepted, delivered>>
  BY <1>5 DEF Conservation
<1> QED
  BY <1>1, <1>2, <1>3, <1>4, <1>5
     DEF Next, Request, Worker, vars, Ignore, Start, ReadLock, StopCall, StopClose,
         WorkerEnd, WorkerEndIf, Resolve, EmitEvent

LEMMA QueueInvStep == TypeOK /\ QueueInv /\ [Next]_vars => QueueInv'
<1> SUFFICES ASSUME TypeOK, QueueInv, [Next]_vars PROVE QueueInv'
  OBVIOUS
<1>c. Conservation'
  BY ConservationStep DEF TypeOK, QueueInv
<1> USE <1>c DEF QueueInv, NoSendOnClosed, IdleWorkerHoldsNothing,
                 requestVars, batchVars, emitVars, counterVars, stopVars
<1>b. rpc \in [Requests -> RequestStates]
  BY DEF TypeOK, ControlTypes
<1>1. ASSUME NEW r \in Requests, Ignore(r) \/ Start(r) \/ ReadLock(r) PROVE QueueInv'
  BY <1>1, <1>b DEF Ignore, Start, ReadLock
<1>2. ASSUME NEW r \in Requests, Send(r) PROVE QueueInv'
  <2>1. wpc # "done" /\ ~stopping
    BY <1>2 DEF Send, SendIf
  <2> QED
    BY <1>2, <2>1 DEF Send, SendIf
<1>3. CASE StopCall
  BY <1>3 DEF StopCall
<1>4. CASE StopClose
  BY <1>4 DEF StopClose
<1>5. CASE Receive
  <2>1. <<Head(jobs)>> # <<>>
    OBVIOUS
  <2> QED
    BY <1>5, <2>1 DEF Receive
<1>9. CASE Coalesce
  <2>1. jobs # <<>> => Append(batch, Head(jobs)) # <<>>
    BY AppendProperties, TakeHead DEF TypeOK, BufferTypes
  <2> QED
    BY <1>9, <2>1 DEF Coalesce, CoalesceInto
<1>6. CASE WorkerEnd \/ Resolve \/ Account
  BY <1>6 DEF WorkerEnd, WorkerEndIf, Resolve, Account, AccountAs
<1>7. CASE EmitEvent
  BY <1>7 DEF EmitEvent, CallSucceeds, CallFails
<1>8. CASE UNCHANGED vars
  BY <1>8 DEF vars
<1> QED
  BY <1>1, <1>2, <1>3, <1>4, <1>5, <1>6, <1>7, <1>8, <1>9 DEF Next, Request, Worker

THEOREM QueueInvariant == Spec => []QueueInv
BY QueueInvInit, QueueInvStep, TypeCorrect, PTL DEF Spec

\* What a request accepted is delivered, in the batch or in the channel, once and
\* in the order of acceptance.
THEOREM FifoConservation == Spec => []Conservation
<1>1. QueueInv => Conservation
  BY DEF QueueInv
<1> QED
  BY <1>1, QueueInvariant, PTL

\* No send can meet the closed channel.
THEOREM NeverSendsOnClosed == Spec => []NoSendOnClosed
<1>1. QueueInv => NoSendOnClosed
  BY DEF QueueInv
<1> QED
  BY <1>1, QueueInvariant, PTL

\* A worker that ended has delivered every accepted job.
THEOREM EndsDrained == Spec => []DrainedAtEnd
<1>1. TypeOK /\ QueueInv => DrainedAtEnd
  BY ConcatEmptySeq DEF TypeOK, BufferTypes, QueueInv, IdleWorkerHoldsNothing, Conservation,
     DrainedAtEnd
<1> QED
  BY <1>1, QueueInvariant, TypeCorrect, PTL

-----------------------------------------------------------------------------
\* The queue implements BestEffortFifo: accepting, dropping, refusing, closing and
\* accounting a batch are its steps, everything else the worker does is invisible.
LEMMA FifoStep ==
    ASSUME TypeOK, QueueInv, [Next]_vars
    PROVE  [Fifo!Next]_(Fifo!fifoVars)
<1> USE DEF requestVars, batchVars, emitVars, counterVars, stopVars, Fifo!fifoVars
<1> DEFINE answer == [r \in Requests |-> IF rpc[r] \in {"idle", "lock", "send"} THEN "none" ELSE rpc[r]]
           pending == batch \o jobs
<1>t. /\ rpc \in [Requests -> RequestStates]
      /\ jobs \in Seq(Requests) /\ batch \in Seq(Requests) /\ delivered \in Seq(Requests)
  BY DEF TypeOK, BufferTypes, ControlTypes
<1>l. Len(pending) = Len(batch) + Len(jobs) /\ Len(batch) <= MaxBatch /\ Len(batch) \in Nat /\ Len(jobs) \in Nat
  BY <1>t, ConcatProperties, LenProperties DEF TypeOK, BufferTypes
<1>1. ASSUME NEW r \in Requests, Ignore(r) PROVE Fifo!Ignore(r)
  BY <1>1, <1>t DEF Ignore, Fifo!Ignore, Fifo!Answer, RequestStates
<1>2. ASSUME NEW r \in Requests, Start(r) PROVE UNCHANGED Fifo!fifoVars
  BY <1>2, <1>t DEF Start, RequestStates
<1>3. ASSUME NEW r \in Requests, ReadLock(r) PROVE Fifo!Refuse(r) \/ UNCHANGED Fifo!fifoVars
  BY <1>3, <1>t DEF ReadLock, Fifo!Refuse, Fifo!Answer, RequestStates
<1>4. ASSUME NEW r \in Requests, Send(r) PROVE Fifo!Accept(r) \/ Fifo!Drop(r)
  <2>1. ~stopping
    BY <1>4 DEF Send, SendIf, QueueInv, NoSendOnClosed
  <2>2. CASE Len(jobs) < QueueSize
    <3>1. batch \o Append(jobs, r) = Append(batch \o jobs, r)
      <4>1. <<r>> \in Seq(Requests) /\ batch \o jobs \in Seq(Requests)
        BY <1>t, ConcatProperties
      <4> QED
        BY <1>t, <4>1, AppendIsConcat, ConcatAssociative
    <3>2. Len(pending) < QueueSize + MaxBatch
      BY <1>l, <2>2, QueueAssumption
    <3>3. Fifo!Answer(r, "accepted")
      BY <1>4, <1>t, <2>2 DEF Send, SendIf, Fifo!Answer, RequestStates
    <3> QED
      BY <1>4, <2>1, <2>2, <3>1, <3>2, <3>3 DEF Send, SendIf, Fifo!Accept
  <2>3. CASE ~(Len(jobs) < QueueSize)
    <3>1. Len(pending) >= QueueSize
      BY <1>l, <2>3, QueueAssumption
    <3>2. Fifo!Answer(r, "dropped")
      BY <1>4, <1>t, <2>3 DEF Send, SendIf, Fifo!Answer, RequestStates
    <3> QED
      BY <1>4, <2>1, <2>3, <3>1, <3>2 DEF Send, SendIf, Fifo!Drop
  <2> QED
    BY <2>2, <2>3
<1>5. CASE StopCall
  BY <1>5 DEF StopCall
<1>6. ASSUME StopClose PROVE Fifo!Close
  BY <1>6 DEF StopClose, Fifo!Close, QueueInv
<1>7. CASE Receive
  <2>1. batch = <<>> /\ <<Head(jobs)>> \o Tail(jobs) = batch \o jobs
    BY <1>7, <1>t, ConcatEmptySeq DEF Receive, QueueInv, IdleWorkerHoldsNothing
  <2> QED
    BY <1>7, <2>1 DEF Receive
<1>8. CASE Coalesce
  <2>1. jobs # <<>> => Append(batch, Head(jobs)) \o Tail(jobs) = batch \o jobs
    BY <1>t
  <2> QED
    BY <1>8, <2>1 DEF Coalesce, CoalesceInto
<1>9. ASSUME Account PROVE Fifo!Handle
  <2>1. /\ SubSeq(batch \o jobs, 1, Len(batch)) = batch
        /\ SubSeq(batch \o jobs, Len(batch) + 1, Len(batch \o jobs)) = jobs
    BY <1>t, <1>l, SubSeqOfConcat1, SubSeqOfConcat2, SubSeqFull
  <2>2. Len(batch) \in 1..Len(pending)
    <3>1. batch # <<>>
      BY <1>9 DEF Account, AccountAs, QueueInv, IdleWorkerHoldsNothing
    <3> QED
      BY <3>1, <1>t, <1>l, EmptySeq
  <2>3. <<>> \o jobs = jobs
    BY <1>t, ConcatEmptySeq
  <2> QED
    BY <1>9, <2>1, <2>2, <2>3 DEF Account, AccountAs, Fifo!Handle
<1>10. CASE WorkerEnd \/ Resolve \/ EmitEvent \/ UNCHANGED vars
  BY <1>10 DEF WorkerEnd, WorkerEndIf, Resolve, EmitEvent, vars
<1> QED
  BY <1>1, <1>2, <1>3, <1>4, <1>5, <1>6, <1>7, <1>8, <1>9, <1>10
     DEF Next, Request, Worker, Fifo!Next

THEOREM FifoRefinement == Spec => ImplementsFifo
<1>1. Init => Fifo!Init
  <2> SUFFICES ASSUME Init PROVE Fifo!Init
    OBVIOUS
  <2>1. <<>> \o <<>> = <<>>
    OBVIOUS
  <2> QED
    BY <2>1 DEF Init, Fifo!Init
<1> QED
  BY <1>1, FifoStep, TypeCorrect, QueueInvariant, PTL DEF Spec, ImplementsFifo, Fifo!FifoSpec

(***************************************************************************)
(* The connection pool: what it hands out, when requests block each other, *)
(* and that a pool lost to saves stays lost.                               *)
(***************************************************************************)
-----------------------------------------------------------------------------
(* Facts about plans and the queue                                         *)

(* The operation lists of HandleSave, saveDocsArticle, the task board and  *)
(* a plain read: their length, and that a read never holds a connection.   *)
LEMMA PlanFacts ==
  ASSUME NEW r \in Handlers
  PROVE  /\ Len(PlanOf(r)) \in Nat
         /\ 1 <= Len(PlanOf(r)) /\ Len(PlanOf(r)) <= 5
         /\ \A i \in 1..Len(PlanOf(r)) :
              /\ PlanOf(r)[i].act \in {"query", "hold", "release"}
              /\ PlanOf(r)[i].ctx \in {"request", "background"}
              /\ Kind[r] = "read" => PlanOf(r)[i].act # "hold"
<1>1. Kind[r] \in Kinds
  BY PoolAssumption
<1>2. CASE Kind[r] = "save"
  <2>1. PlanOf(r) = SavePlan
    BY <1>1, <1>2 DEF PlanOf, Plan, Kinds
  <2>2. /\ Len(SavePlan) = 5
        /\ \A i \in 1..5 : /\ SavePlan[i].act \in {"query", "hold", "release"}
                           /\ SavePlan[i].ctx \in {"request", "background"}
    BY DEF SavePlan, Take
  <2> QED BY <1>2, <2>1, <2>2
<1>3. CASE Kind[r] \in {"docs", "board"}
  <2>1. DocsPlan = BoardPlan
    BY DEF DocsPlan, BoardPlan
  <2>2. PlanOf(r) = DocsPlan
    BY <1>1, <1>3, <2>1 DEF PlanOf, Plan, Kinds
  <2>3. /\ Len(DocsPlan) = 3
        /\ \A i \in 1..3 : /\ DocsPlan[i].act \in {"query", "hold", "release"}
                           /\ DocsPlan[i].ctx \in {"request", "background"}
    BY DEF DocsPlan, Take
  <2> QED BY <1>3, <2>2, <2>3
<1>4. CASE Kind[r] = "read"
  <2>1. PlanOf(r) = ReadPlan
    BY <1>1, <1>4 DEF PlanOf, Plan, Kinds
  <2>2. /\ Len(ReadPlan) = 1
        /\ ReadPlan[1].act = "query"
        /\ ReadPlan[1].ctx = "request"
    BY DEF ReadPlan, Take
  <2> QED BY <2>1, <2>2
<1> QED BY <1>1, <1>2, <1>3, <1>4 DEF Kinds

-----------------------------------------------------------------------------
(* The inductive invariant                                                 *)

Nesting == {r \in Handlers : Kind[r] # "read"}

Types ==
  /\ pc \in [Handlers -> 0..5]
  /\ outer \subseteq Handlers
  /\ inner \subseteq Handlers
  /\ waiting \in Seq(Handlers)
  /\ gone \subseteq Handlers

Placed ==
  /\ \A r \in Handlers : pc[r] <= Len(PlanOf(r))
  /\ \A i, j \in 1..Len(waiting) : waiting[i] = waiting[j] => i = j
  /\ \A i \in 1..Len(waiting) : pc[waiting[i]] > 0
  /\ \A r \in inner : pc[r] > 0 /\ ~Queued(r)
  /\ outer \subseteq Nesting

WithinPool == Cardinality(outer) + Cardinality(inner) <= MaxConns

PoolInv == Types /\ Placed /\ WithinPool

(* A cancelled waiter leaves the queue and the others keep their places    *)
(* and their order: the queue pgxpool keeps.                               *)
LEMMA WithoutFacts ==
  ASSUME Types, Placed, NEW r \in Handlers
  PROVE  /\ Without(r) \in Seq(Handlers)
         /\ \A i, j \in 1..Len(Without(r)) :
              Without(r)[i] = Without(r)[j] => i = j
         /\ \A i \in 1..Len(Without(r)) :
              /\ Without(r)[i] # r
              /\ Queued(Without(r)[i])
         /\ \A q \in Handlers : Queued(q) /\ q # r =>
              \E i \in 1..Len(Without(r)) : Without(r)[i] = q
         /\ ~Queued(r) => Without(r) = waiting
<1> DEFINE W == Without(r)
<1>1. CASE ~Queued(r)
  BY <1>1 DEF Without, Queued, Types, Placed
<1>2. CASE Queued(r)
  <2> DEFINE k == CHOOSE j \in 1..Len(waiting) : waiting[j] = r
             n == Len(waiting)
  <2>1. k \in 1..n /\ waiting[k] = r
    BY <1>2 DEF Queued
  <2>2. W = [j \in 1..(n - 1) |-> IF j < k THEN waiting[j] ELSE waiting[j + 1]]
    BY <1>2 DEF Without, Queued
  <2> HIDE DEF k, W
  <2>3. n \in Nat /\ \A j \in 1..n : waiting[j] \in Handlers
    BY DEF Types
  <2> HIDE DEF n
  <2>4. W \in Seq(Handlers) /\ Len(W) = n - 1
    <3>1. n - 1 \in Nat /\ W \in [1..(n - 1) -> Handlers]
      BY <2>1, <2>2, <2>3
    <3> QED BY <3>1
  <2>5. \A i, j \in 1..n : waiting[i] = waiting[j] => i = j
    BY DEF Placed, n
  <2>6. \A i \in 1..(n - 1) : W[i] = IF i < k THEN waiting[i] ELSE waiting[i + 1]
    BY <2>2
  <2>7. \A i, j \in 1..(n - 1) : W[i] = W[j] => i = j
    BY <2>1, <2>3, <2>5, <2>6
  <2>8. \A i \in 1..(n - 1) : W[i] # r /\ \E j \in 1..n : waiting[j] = W[i]
    BY <2>1, <2>3, <2>5, <2>6
  <2>9. \A q \in Handlers : (\E j \in 1..n : waiting[j] = q) /\ q # r =>
           \E i \in 1..(n - 1) : W[i] = q
    <3> SUFFICES ASSUME NEW q \in Handlers, q # r, NEW j \in 1..n, waiting[j] = q
                 PROVE  \E i \in 1..(n - 1) : W[i] = q
      OBVIOUS
    <3>1. CASE j < k
      BY <3>1, <2>1, <2>3, <2>6
    <3>2. CASE j > k
      <4>1. j - 1 \in 1..(n - 1) /\ ~(j - 1 < k) /\ (j - 1) + 1 = j
        BY <3>2, <2>1, <2>3
      <4> QED BY <4>1, <2>6
    <3> QED BY <3>1, <3>2, <2>1, <2>3
  <2> QED BY <1>2, <2>4, <2>7, <2>8, <2>9 DEF Queued, n, W
<1> QED BY <1>1, <1>2

-----------------------------------------------------------------------------
(* Steps                                                                   *)

(* The pool is finite, and what a step does to two finite sets.            *)
LEMMA Counts ==
  ASSUME Types
  PROVE  /\ IsFiniteSet(outer) /\ Cardinality(outer) \in Nat
         /\ IsFiniteSet(inner) /\ Cardinality(inner) \in Nat
         /\ \A r \in Handlers :
              /\ Cardinality(outer \cup {r}) <= Cardinality(outer) + 1
              /\ Cardinality(inner \cup {r}) <= Cardinality(inner) + 1
              /\ Cardinality(outer \cup {r}) \in Nat
              /\ Cardinality(inner \cup {r}) \in Nat
              /\ Cardinality(outer \ {r}) <= Cardinality(outer)
              /\ Cardinality(inner \ {r}) <= Cardinality(inner)
              /\ Cardinality(outer \ {r}) \in Nat
              /\ Cardinality(inner \ {r}) \in Nat
<1>1. IsFiniteSet(outer) /\ IsFiniteSet(inner)
  BY PoolAssumption, FS_Subset DEF Types
<1>2. Cardinality(outer) \in Nat /\ Cardinality(inner) \in Nat
  BY <1>1, FS_CardinalityType
<1>3. ASSUME NEW S, IsFiniteSet(S), NEW r
      PROVE  /\ Cardinality(S \cup {r}) <= Cardinality(S) + 1
             /\ Cardinality(S \cup {r}) \in Nat
             /\ Cardinality(S \ {r}) <= Cardinality(S)
             /\ Cardinality(S \ {r}) \in Nat
  <2>1. Cardinality(S) \in Nat
    BY <1>3, FS_CardinalityType
  <2>2. IsFiniteSet(S \cup {r}) /\ IsFiniteSet(S \ {r})
    BY <1>3, FS_AddElement, FS_RemoveElement
  <2>3. Cardinality(S \cup {r}) \in Nat /\ Cardinality(S \ {r}) \in Nat
    BY <2>2, FS_CardinalityType
  <2>4. Cardinality(S \cup {r}) = Cardinality(S) \/ Cardinality(S \cup {r}) = Cardinality(S) + 1
    BY <1>3, <2>1, FS_AddElement
  <2>5. Cardinality(S \ {r}) = Cardinality(S) \/ Cardinality(S \ {r}) = Cardinality(S) - 1
    BY <1>3, <2>1, FS_RemoveElement
  <2> QED BY <2>1, <2>3, <2>4, <2>5
<1> QED BY <1>1, <1>2, <1>3

(* Every action with what it needs of its request.                         *)
LEMMA StepKinds ==
  ASSUME PoolNext
  PROVE  \E r \in Handlers :
           \/ Arrive(r) \/ Ask(r) \/ Skip(r) \/ GrantQuery(r) \/ GrantHold(r)
           \/ Done(r) \/ Release(r) \/ Fail(r) \/ Leave(r) \/ Cancel(r)
BY DEF PoolNext, Serve, Grant

(* A handler that moves to its next operation stays within its plan.       *)
LEMMA AdvanceFacts ==
  ASSUME Types, Placed, NEW r \in Handlers, pc[r] > 0, Advance(r)
  PROVE  /\ pc' \in [Handlers -> 0..5]
         /\ \A q \in Handlers : pc'[q] <= Len(PlanOf(q))
         /\ \A q \in Handlers : q # r => pc'[q] = pc[q]
<1>1. pc' = [pc EXCEPT ![r] = Next1(r)] /\ pc \in [Handlers -> 0..5]
  BY DEF Advance, Types
<1>2. \A q \in Handlers : pc[q] <= Len(PlanOf(q))
  BY DEF Placed
<1>3. Len(PlanOf(r)) \in Nat /\ Len(PlanOf(r)) <= 5
  BY PlanFacts
<1>4. Next1(r) \in 0..5 /\ Next1(r) <= Len(PlanOf(r))
  <2>1. /\ pc[r] \in Nat /\ Len(PlanOf(r)) \in Nat
        /\ Len(PlanOf(r)) <= 5 /\ pc[r] <= Len(PlanOf(r))
    <3>1. pc[r] \in 0..5
      BY <1>1
    <3>2. pc[r] <= Len(PlanOf(r))
      BY <1>2
    <3>3. Len(PlanOf(r)) \in Nat /\ Len(PlanOf(r)) <= 5
      BY <1>3
    <3> QED BY <3>1, <3>2, <3>3
  <2>2. CASE pc[r] = Len(PlanOf(r))
    BY <2>1, <2>2 DEF Next1
  <2>3. CASE pc[r] # Len(PlanOf(r))
    <3>1. Next1(r) = pc[r] + 1
      BY <2>3 DEF Next1
    <3> QED BY <2>1, <2>3, <3>1
  <2> QED BY <2>2, <2>3
<1> QED BY <1>1, <1>2, <1>4

(* A handler that returns gives up its place and its connections.          *)
LEMMA ReturnFacts ==
  ASSUME PoolInv, NEW r \in Handlers, Return(r), gone' \subseteq Handlers
  PROVE  PoolInv'
<1> USE DEF PoolInv
<1>1. /\ pc' = [pc EXCEPT ![r] = 0]
      /\ outer' = outer \ {r} /\ inner' = inner \ {r}
      /\ waiting' = Without(r)
  BY DEF Return
<1>2. /\ pc' \in [Handlers -> 0..5]
      /\ pc'[r] = 0 /\ \A q \in Handlers : q # r => pc'[q] = pc[q]
  BY <1>1 DEF Types
<1>3. Types'
  BY <1>1, <1>2, WithoutFacts DEF Types
<1>4. Placed'
  <2>1. \A q \in Handlers : pc'[q] <= Len(PlanOf(q))
    BY <1>2, PlanFacts DEF Placed
  <2>2. \A i, j \in 1..Len(waiting') : waiting'[i] = waiting'[j] => i = j
    BY <1>1, WithoutFacts
  <2>3. \A i \in 1..Len(waiting') : pc'[waiting'[i]] > 0
    <3> SUFFICES ASSUME NEW i \in 1..Len(waiting')
                 PROVE  pc'[waiting'[i]] > 0
      OBVIOUS
    <3>1. waiting'[i] # r /\ Queued(waiting'[i])
      BY <1>1, WithoutFacts
    <3>2. waiting'[i] \in Handlers /\ pc[waiting'[i]] > 0
      BY <3>1, <1>3 DEF Queued, Placed, Types
    <3> QED BY <3>1, <3>2, <1>2
  <2>4. \A q \in inner' : pc'[q] > 0 /\ ~Queued(q)'
    <3> SUFFICES ASSUME NEW q \in inner'
                 PROVE  pc'[q] > 0 /\ ~Queued(q)'
      OBVIOUS
    <3>1. q \in inner /\ q # r /\ q \in Handlers
      BY <1>1 DEF Types
    <3>2. pc[q] > 0 /\ ~Queued(q)
      BY <3>1 DEF Placed
    <3>3. ASSUME NEW i \in 1..Len(waiting'), waiting'[i] = q
          PROVE  FALSE
      BY <1>1, <3>2, <3>3, WithoutFacts
    <3> QED BY <1>2, <3>1, <3>2, <3>3 DEF Queued
  <2>5. outer' \subseteq Nesting
    BY <1>1 DEF Placed
  <2> QED BY <2>1, <2>2, <2>3, <2>4, <2>5 DEF Placed, PlanOf, Nesting
<1>5. WithinPool'
  <2>1. Types /\ Cardinality(outer) + Cardinality(inner) <= MaxConns
    BY DEF WithinPool
  <2>2. /\ Cardinality(outer) \in Nat /\ Cardinality(inner) \in Nat
        /\ Cardinality(outer \ {r}) <= Cardinality(outer)
        /\ Cardinality(inner \ {r}) <= Cardinality(inner)
        /\ Cardinality(outer \ {r}) \in Nat
        /\ Cardinality(inner \ {r}) \in Nat
    BY <2>1, Counts
  <2>3. MaxConns \in Nat
    BY PoolAssumption
  <2>4. Cardinality(outer \ {r}) + Cardinality(inner \ {r}) <= MaxConns
    BY <2>1, <2>2, <2>3
  <2> QED BY <1>1, <2>4 DEF WithinPool
<1> QED BY <1>3, <1>4, <1>5

-----------------------------------------------------------------------------
(* The pool never hands out more connections than it has                   *)

(* PoolInv holds at the start.                                             *)
LEMMA InitInv == PoolInit => PoolInv
<1> SUFFICES ASSUME PoolInit PROVE PoolInv
  OBVIOUS
<1>1. /\ pc = [r \in Handlers |-> 0] /\ outer = {} /\ inner = {}
      /\ waiting = <<>> /\ gone = {}
  BY DEF PoolInit
<1>2. Types
  BY <1>1 DEF Types
<1>3. Placed
  <2>1. \A r \in Handlers : pc[r] <= Len(PlanOf(r))
    BY <1>1, PlanFacts
  <2> QED BY <1>1, <2>1 DEF Placed
<1>4. WithinPool
  BY <1>1, FS_EmptySet, PoolAssumption DEF WithinPool
<1> QED BY <1>2, <1>3, <1>4 DEF PoolInv

(* Every action of a request preserves PoolInv.                            *)
LEMMA StepInv == PoolInv /\ [PoolNext]_poolVars => PoolInv'
<1> SUFFICES ASSUME PoolInv, [PoolNext]_poolVars PROVE PoolInv'
  OBVIOUS
<1>a. Types /\ Placed /\ WithinPool
  BY DEF PoolInv
<1>0. CASE UNCHANGED poolVars
  <2>1. UNCHANGED pc /\ UNCHANGED outer /\ UNCHANGED inner
        /\ UNCHANGED waiting /\ UNCHANGED gone
    BY <1>0 DEF poolVars
  <2> QED BY <1>a, <2>1 DEF PoolInv, Types, Placed, WithinPool, Queued, Nesting, PlanOf
<1>b. CASE PoolNext
  <2>0. PICK r \in Handlers :
           \/ Arrive(r) \/ Ask(r) \/ Skip(r) \/ GrantQuery(r) \/ GrantHold(r)
           \/ Done(r) \/ Release(r) \/ Fail(r) \/ Leave(r) \/ Cancel(r)
    BY <1>b, StepKinds
  <2>t. /\ pc \in [Handlers -> 0..5] /\ outer \subseteq Handlers
        /\ inner \subseteq Handlers /\ waiting \in Seq(Handlers)
        /\ gone \subseteq Handlers
    BY <1>a DEF Types
  <2>p. /\ \A q \in Handlers : pc[q] <= Len(PlanOf(q))
        /\ \A i, j \in 1..Len(waiting) : waiting[i] = waiting[j] => i = j
        /\ \A i \in 1..Len(waiting) : pc[waiting[i]] > 0
        /\ \A q \in inner : pc[q] > 0 /\ ~Queued(q)
        /\ outer \subseteq Nesting
    BY <1>a DEF Placed
  <2>c. /\ Cardinality(outer) \in Nat /\ Cardinality(inner) \in Nat
        /\ Cardinality(outer) + Cardinality(inner) <= MaxConns
        /\ MaxConns \in Nat
    BY <1>a, Counts, PoolAssumption DEF WithinPool
  <2>1. CASE Arrive(r)
    <3>1. /\ ~(pc[r] > 0) /\ pc' = [pc EXCEPT ![r] = 1] /\ gone' = gone \ {r}
          /\ outer' = outer /\ inner' = inner /\ waiting' = waiting
      BY <2>1 DEF Arrive, Served
    <3>2. \A q \in Handlers : pc'[q] <= Len(PlanOf(q))
      <4>1. \A q \in Handlers : 1 <= Len(PlanOf(q)) /\ Len(PlanOf(q)) \in Nat
        BY PlanFacts
      <4>2. \A q \in Handlers : pc'[q] = 1 \/ pc'[q] = pc[q]
        BY <3>1, <2>t
      <4>3. \A q \in Handlers : pc[q] <= Len(PlanOf(q))
        BY <2>p
      <4> QED BY <4>1, <4>2, <4>3
    <3>3. \A i \in 1..Len(waiting') : pc'[waiting'[i]] > 0
      BY <3>1, <2>t, <2>p
    <3>4. \A q \in inner' : pc'[q] > 0 /\ ~(Queued(q)')
      BY <3>1, <2>t, <2>p DEF Queued
    <3> QED
      BY <3>1, <3>2, <3>3, <3>4, <2>t, <2>p, <1>a
         DEF PoolInv, Types, Placed, WithinPool, Nesting, PlanOf
  <2>2. CASE Ask(r)
    <3>1. /\ Running(r) /\ waiting' = Append(waiting, r)
          /\ pc' = pc /\ outer' = outer /\ inner' = inner /\ gone' = gone
      BY <2>2 DEF Ask
    <3>2. pc[r] > 0 /\ r \notin inner /\ \A i \in 1..Len(waiting) : waiting[i] # r
      BY <3>1 DEF Running, Served, Queued
    <3>3. /\ waiting' \in Seq(Handlers) /\ Len(waiting') = Len(waiting) + 1
          /\ \A i \in 1..Len(waiting) : waiting'[i] = waiting[i]
          /\ waiting'[Len(waiting) + 1] = r
      BY <3>1, <2>t
    <3>4. \A i, j \in 1..Len(waiting') : waiting'[i] = waiting'[j] => i = j
      <4>1. \A i, j \in 1..Len(waiting) : waiting[i] = waiting[j] => i = j
        BY <2>p
      <4>2. Len(waiting) \in Nat
        BY <2>t
      <4>3. \A i \in 1..Len(waiting') : i \in 1..Len(waiting) \/ i = Len(waiting) + 1
        BY <4>2, <3>3
      <4> QED BY <4>1, <4>3, <3>2, <3>3
    <3>5. \A i \in 1..Len(waiting') : pc'[waiting'[i]] > 0
      BY <3>1, <3>2, <3>3, <2>t, <2>p
    <3>6. \A q \in inner' : pc'[q] > 0 /\ ~(Queued(q)')
      <4>1. \A q \in inner : q # r /\ \A i \in 1..Len(waiting) : waiting[i] # q
        BY <3>2, <2>p DEF Queued
      <4>2. \A q \in inner : \A i \in 1..Len(waiting') : waiting'[i] # q
        BY <4>1, <3>3, <2>t
      <4> QED BY <3>1, <4>2, <2>p DEF Queued
    <3> QED
      BY <3>1, <3>3, <3>4, <3>5, <3>6, <2>t, <2>p, <1>a
         DEF PoolInv, Types, Placed, WithinPool, Nesting, PlanOf
  <2>3. CASE Skip(r)
    <3>1. /\ Running(r) /\ Advance(r) /\ outer' = outer /\ inner' = inner
          /\ waiting' = waiting /\ gone' = gone
      BY <2>3 DEF Skip
    <3>2. pc[r] > 0 /\ r \notin inner /\ \A i \in 1..Len(waiting) : waiting[i] # r
      BY <3>1 DEF Running, Served, Queued
    <3>3. /\ pc' \in [Handlers -> 0..5]
          /\ \A q \in Handlers : pc'[q] <= Len(PlanOf(q))
          /\ \A q \in Handlers : q # r => pc'[q] = pc[q]
      BY <3>1, <3>2, <1>a, AdvanceFacts
    <3>4. \A i \in 1..Len(waiting') : pc'[waiting'[i]] > 0
      BY <3>1, <3>2, <3>3, <2>t, <2>p
    <3>5. \A q \in inner' : pc'[q] > 0 /\ ~(Queued(q)')
      BY <3>1, <3>2, <3>3, <2>t, <2>p DEF Queued
    <3> QED
      BY <3>1, <3>3, <3>4, <3>5, <2>t, <2>p, <1>a
         DEF PoolInv, Types, Placed, WithinPool, Nesting, PlanOf
  <2>h. ASSUME waiting # <<>>, Head(waiting) = r, waiting' = Tail(waiting)
        PROVE  /\ pc[r] > 0 /\ waiting' \in Seq(Handlers)
               /\ Len(waiting') = Len(waiting) - 1
               /\ \A i \in 1..Len(waiting') : waiting'[i] = waiting[i + 1]
               /\ \A i \in 1..Len(waiting') :
                    waiting'[i] # r /\ waiting'[i] \in Handlers /\ pc[waiting'[i]] > 0
               /\ \A i, j \in 1..Len(waiting') : waiting'[i] = waiting'[j] => i = j
               /\ \A q : (Queued(q)') => Queued(q)
    <3>1. Len(waiting) \in Nat /\ Len(waiting) > 0 /\ waiting[1] = r
      BY <2>h, <2>t
    <3>2. /\ waiting' \in Seq(Handlers) /\ Len(waiting') = Len(waiting) - 1
          /\ \A i \in 1..Len(waiting') : waiting'[i] = waiting[i + 1]
      BY <2>h, <2>t
    <3>3. \A i \in 1..Len(waiting') : i + 1 \in 1..Len(waiting) /\ i + 1 # 1
      BY <3>1, <3>2
    <3>4. pc[r] > 0
      BY <3>1, <2>p
    <3>5. \A i \in 1..Len(waiting') :
             waiting'[i] # r /\ waiting'[i] \in Handlers /\ pc[waiting'[i]] > 0
      <4>1. \A i \in 1..Len(waiting) : waiting[i] \in Handlers /\ pc[waiting[i]] > 0
        BY <2>p, <2>t
      <4>2. \A i \in 1..Len(waiting) : waiting[i] = waiting[1] => i = 1
        BY <3>1, <2>p
      <4> QED BY <4>1, <4>2, <3>1, <3>2, <3>3
    <3>6. \A i, j \in 1..Len(waiting') : waiting'[i] = waiting'[j] => i = j
      <4>1. \A i, j \in 1..Len(waiting) : waiting[i] = waiting[j] => i = j
        BY <2>p
      <4>2. \A i, j \in 1..Len(waiting') : waiting'[i] = waiting'[j] => i + 1 = j + 1
        BY <4>1, <3>2, <3>3
      <4> QED BY <4>2
    <3>7. \A q : (Queued(q)') => Queued(q)
      BY <3>2, <3>3 DEF Queued
    <3> QED BY <3>2, <3>4, <3>5, <3>6, <3>7
  <2>4. CASE GrantQuery(r)
    <3>1. /\ Free /\ waiting # <<>> /\ Head(waiting) = r /\ waiting' = Tail(waiting)
          /\ inner' = inner \cup {r} /\ pc' = pc /\ outer' = outer /\ gone' = gone
      BY <2>4 DEF GrantQuery
    <3>2. \A q \in inner' : pc'[q] > 0 /\ ~(Queued(q)')
      <4>1. ~(Queued(r)')
        BY <2>h, <3>1 DEF Queued
      <4> QED BY <4>1, <2>h, <3>1, <2>p
    <3>3. \A i \in 1..Len(waiting') : pc'[waiting'[i]] > 0
      BY <2>h, <3>1
    <3>4. Types'
      BY <2>h, <3>1, <2>t DEF Types
    <3>5. Placed'
      BY <2>h, <3>1, <3>2, <3>3, <2>p DEF Placed, Nesting, PlanOf
    <3>6. WithinPool'
      <4>1. /\ Cardinality(inner \cup {r}) <= Cardinality(inner) + 1
            /\ Cardinality(inner \cup {r}) \in Nat
        BY <1>a, Counts
      <4>2. Cardinality(outer) + Cardinality(inner) < MaxConns
        BY <3>1 DEF Free
      <4>3. Cardinality(outer) + Cardinality(inner \cup {r}) <= MaxConns
        BY <4>1, <4>2, <2>c
      <4> QED BY <3>1, <4>3 DEF WithinPool
    <3> QED BY <3>4, <3>5, <3>6 DEF PoolInv
  <2>5. CASE GrantHold(r)
    <3>1. /\ Free /\ waiting # <<>> /\ Head(waiting) = r /\ waiting' = Tail(waiting)
          /\ Op(r).act = "hold" /\ outer' = outer \cup {r} /\ Advance(r)
          /\ inner' = inner /\ gone' = gone
      BY <2>5 DEF GrantHold
    <3>2. pc[r] > 0 /\ Queued(r)
      <4>1. Len(waiting) >= 1 /\ waiting[1] = r
        BY <3>1, <2>t
      <4> QED BY <4>1, <2>h, <3>1, <2>t DEF Queued
    <3>3. /\ pc' \in [Handlers -> 0..5]
          /\ \A q \in Handlers : pc'[q] <= Len(PlanOf(q))
          /\ \A q \in Handlers : q # r => pc'[q] = pc[q]
      BY <3>1, <3>2, <1>a, AdvanceFacts
    <3>4. \A i \in 1..Len(waiting') : pc'[waiting'[i]] > 0
      BY <2>h, <3>1, <3>3
    <3>5. \A q \in inner' : pc'[q] > 0 /\ ~(Queued(q)')
      BY <2>h, <3>1, <3>2, <3>3, <2>t, <2>p
    <3>6. r \in Nesting
      <4>1. pc[r] \in 1..Len(PlanOf(r))
        BY <3>2, <2>t, <2>p, PlanFacts
      <4> QED BY <3>1, <4>1, PlanFacts DEF Op, Nesting
    <3>7. Types'
      BY <2>h, <3>1, <3>3, <2>t DEF Types
    <3>8. Placed'
      BY <2>h, <3>1, <3>3, <3>4, <3>5, <3>6, <2>p DEF Placed, Nesting, PlanOf
    <3>9. WithinPool'
      <4>1. /\ Cardinality(outer \cup {r}) <= Cardinality(outer) + 1
            /\ Cardinality(outer \cup {r}) \in Nat
        BY <1>a, Counts
      <4>2. Cardinality(outer) + Cardinality(inner) < MaxConns
        BY <3>1 DEF Free
      <4>3. Cardinality(outer \cup {r}) + Cardinality(inner) <= MaxConns
        BY <4>1, <4>2, <2>c
      <4> QED BY <3>1, <4>3 DEF WithinPool
    <3> QED BY <3>7, <3>8, <3>9 DEF PoolInv
  <2>d. ASSUME Advance(r), ~Queued(r), pc[r] > 0, waiting' = waiting, gone' = gone,
               outer' \in {outer, outer \ {r}}, inner' \in {inner, inner \ {r}},
               r \notin inner'
        PROVE  PoolInv'
    <3>1. /\ pc' \in [Handlers -> 0..5]
          /\ \A q \in Handlers : pc'[q] <= Len(PlanOf(q))
          /\ \A q \in Handlers : q # r => pc'[q] = pc[q]
      BY <2>d, <1>a, AdvanceFacts
    <3>2. \A i \in 1..Len(waiting') : pc'[waiting'[i]] > 0
      BY <2>d, <3>1, <2>t, <2>p DEF Queued
    <3>3. \A q \in inner' : pc'[q] > 0 /\ ~(Queued(q)')
      BY <2>d, <3>1, <2>t, <2>p DEF Queued
    <3>4. Types'
      BY <2>d, <3>1, <2>t DEF Types
    <3>5. Placed'
      BY <2>d, <3>1, <3>2, <3>3, <2>p DEF Placed, Nesting, PlanOf
    <3>6. WithinPool'
      <4>1. /\ Cardinality(outer \ {r}) <= Cardinality(outer)
            /\ Cardinality(inner \ {r}) <= Cardinality(inner)
            /\ Cardinality(outer \ {r}) \in Nat
            /\ Cardinality(inner \ {r}) \in Nat
        BY <1>a, Counts
      <4>2. /\ Cardinality(outer') <= Cardinality(outer) /\ Cardinality(outer') \in Nat
            /\ Cardinality(inner') <= Cardinality(inner) /\ Cardinality(inner') \in Nat
        <5>1. CASE outer' = outer /\ inner' = inner
          BY <5>1, <2>c
        <5>2. CASE outer' = outer /\ inner' = inner \ {r}
          BY <5>2, <4>1, <2>c
        <5>3. CASE outer' = outer \ {r} /\ inner' = inner
          BY <5>3, <4>1, <2>c
        <5>4. CASE outer' = outer \ {r} /\ inner' = inner \ {r}
          BY <5>4, <4>1, <2>c
        <5> QED BY <5>1, <5>2, <5>3, <5>4, <2>d
      <4>3. Cardinality(outer') + Cardinality(inner') <= MaxConns
        <5> DEFINE a == Cardinality(outer)  b == Cardinality(inner)
                   c == Cardinality(outer')  d == Cardinality(inner')
        <5>1. /\ a \in Nat /\ b \in Nat /\ c \in Nat /\ d \in Nat
              /\ MaxConns \in Nat /\ a + b <= MaxConns /\ c <= a /\ d <= b
          BY <4>2, <2>c
        <5> HIDE DEF a, b, c, d
        <5>2. c + d <= MaxConns
          BY <5>1
        <5> QED BY <5>2 DEF c, d
      <4> QED BY <4>3 DEF WithinPool
    <3> QED BY <3>4, <3>5, <3>6 DEF PoolInv
  <2>6. CASE Done(r)
    <3>1. /\ r \in inner /\ inner' = inner \ {r} /\ Advance(r)
          /\ outer' = outer /\ waiting' = waiting /\ gone' = gone
      BY <2>6 DEF Done
    <3>2. ~Queued(r) /\ pc[r] > 0
      BY <3>1, <2>p
    <3> QED BY <3>1, <3>2, <2>d
  <2>7. CASE Release(r)
    <3>1. /\ Running(r) /\ outer' = outer \ {r} /\ Advance(r)
          /\ inner' = inner /\ waiting' = waiting /\ gone' = gone
      BY <2>7 DEF Release
    <3>2. ~Queued(r) /\ pc[r] > 0 /\ r \notin inner
      BY <3>1 DEF Running, Served
    <3> QED BY <3>1, <3>2, <2>d
  <2>8. CASE Fail(r)
    <3>1. Return(r) /\ gone' = gone
      BY <2>8 DEF Fail
    <3> QED BY <3>1, <2>t, ReturnFacts
  <2>9. CASE Leave(r)
    <3>1. /\ gone' = gone \cup {r} /\ pc' = pc /\ outer' = outer
          /\ inner' = inner /\ waiting' = waiting
      BY <2>9 DEF Leave
    <3>2. \A q : (Queued(q)') <=> Queued(q)
      BY <3>1 DEF Queued
    <3> QED
      BY <3>1, <3>2, <2>t, <2>p, <1>a
         DEF PoolInv, Types, Placed, WithinPool, Nesting, PlanOf
  <2>10. CASE Cancel(r)
    <3>1. Return(r) /\ gone' = gone
      BY <2>10 DEF Cancel
    <3> QED BY <3>1, <2>t, ReturnFacts
  <2> QED BY <2>0, <2>1, <2>2, <2>3, <2>4, <2>5, <2>6, <2>7, <2>8, <2>9, <2>10
<1> QED BY <1>0, <1>b

(* PoolInv is an invariant of the pool.                                    *)
LEMMA Invariance == PoolSpec => []PoolInv
<1> QED BY InitInv, StepInv, PTL DEF PoolSpec

(* pgxpool's bound: for any requests, whatever fails, leaves or is         *)
(* cancelled, no more connections are out than ConnectToDB's pool has.     *)
THEOREM PoolTypeCorrect == PoolSpec => []PoolTypeOK
<1>1. PoolInv => PoolTypeOK
  BY DEF PoolInv, Types, WithinPool, PoolTypeOK
<1> QED BY <1>1, Invariance, PTL

-----------------------------------------------------------------------------
(* When requests block each other                                          *)

(* Deadlock freedom below the pool's size, for any mix of handlers: if all *)
(* connections are with requests that wait, each of them runs a handler    *)
(* that nests, so at least MaxConns such requests are being served.        *)
THEOREM BlockedOnlyByHolders == PoolSpec => []BlockedByHolders
<1>1. PoolInv => BlockedByHolders
  <2> SUFFICES ASSUME PoolInv, Blocked PROVE Cardinality(Holders) >= MaxConns
    BY DEF BlockedByHolders
  <2>1. Types /\ outer \subseteq Holders /\ \A r \in inner : ~Queued(r)
    <3>1. \A r \in outer : Queued(r)
      BY DEF Blocked
    <3>2. \A r : Queued(r) => pc[r] > 0
      BY DEF PoolInv, Placed, Queued
    <3>3. Types /\ outer \subseteq Nesting /\ \A r \in inner : ~Queued(r)
      BY DEF PoolInv, Placed
    <3> QED BY <3>1, <3>2, <3>3 DEF Nesting, Holders, Served
  <2>2. inner = {}
    BY <2>1 DEF Blocked
  <2>3. Cardinality(inner) = 0
    BY <2>2, FS_EmptySet
  <2>4. IsFiniteSet(Holders)
    BY PoolAssumption, FS_Subset DEF Holders
  <2>5. Cardinality(outer) <= Cardinality(Holders)
    BY <2>1, <2>4, FS_Subset
  <2>6. /\ Cardinality(outer) \in Nat /\ Cardinality(Holders) \in Nat
        /\ MaxConns \in Nat
    BY <2>1, <2>4, Counts, FS_CardinalityType, PoolAssumption
  <2>7. ~(Cardinality(outer) + Cardinality(inner) < MaxConns)
    BY DEF Blocked, Free
  <2> QED BY <2>3, <2>5, <2>6, <2>7
<1> QED BY <1>1, Invariance, PTL

(* Nothing a request or a client does frees a connection of an exhausted   *)
(* pool: its holders wait in a queue the pool cannot serve and under a     *)
(* context that never ends.                                                *)
LEMMA ExhaustedStep == PoolInv /\ Exhausted /\ [PoolNext]_poolVars => Exhausted'
<1> SUFFICES ASSUME PoolInv, Exhausted, [PoolNext]_poolVars PROVE Exhausted'
  OBVIOUS
<1>a. Types /\ Placed
  BY DEF PoolInv
<1>e. /\ ~Free
      /\ \A q \in outer \cup inner :
           Queued(q) /\ q \in Handlers /\ pc[q] > 0 /\ Op(q).ctx = "background"
  <2>1. \A q \in outer \cup inner : Queued(q) /\ Op(q).ctx = "background"
    BY DEF Exhausted
  <2>2. \A q : Queued(q) => q \in Handlers /\ pc[q] > 0
    BY <1>a DEF Queued, Types, Placed
  <2> QED BY <2>1, <2>2 DEF Exhausted
<1>k. ASSUME outer' = outer, inner' = inner,
             \A q \in outer \cup inner : pc'[q] = pc[q] /\ (Queued(q)')
      PROVE  Exhausted'
  <2>1. \A q \in outer \cup inner : Op(q)' = Op(q)
    BY <1>k DEF Op, PlanOf
  <2>2. Free' = Free
    BY <1>k DEF Free
  <2> QED BY <1>e, <1>k, <2>1, <2>2 DEF Exhausted
<1>r. ASSUME NEW r \in Handlers, r \notin outer \cup inner, Return(r)
      PROVE  Exhausted'
  <2>1. /\ pc' = [pc EXCEPT ![r] = 0] /\ outer' = outer /\ inner' = inner
        /\ waiting' = Without(r)
    BY <1>r DEF Return
  <2>2. \A q \in outer \cup inner : pc'[q] = pc[q]
    BY <1>a, <1>e, <1>r, <2>1 DEF Types
  <2>3. \A q \in outer \cup inner : Queued(q)'
    <3> SUFFICES ASSUME NEW q \in outer \cup inner PROVE Queued(q)'
      OBVIOUS
    <3>1. q \in Handlers /\ q # r /\ Queued(q)
      BY <1>e, <1>r
    <3>2. \E i \in 1..Len(Without(r)) : Without(r)[i] = q
      BY <1>a, <3>1, WithoutFacts
    <3> QED BY <2>1, <3>2 DEF Queued
  <2> QED BY <1>k, <2>1, <2>2, <2>3
<1>m. ASSUME NEW r \in Handlers, r \notin outer \cup inner, pc[r] \in 0..5,
             outer' = outer, inner' = inner,
             \A q \in Handlers : q # r => pc'[q] = pc[q],
             waiting' \in {waiting, Append(waiting, r)}
      PROVE  Exhausted'
  <2>1. \A q \in outer \cup inner : pc'[q] = pc[q]
    BY <1>e, <1>m
  <2>2. \A q \in outer \cup inner : Queued(q)'
    <3> SUFFICES ASSUME NEW q \in outer \cup inner PROVE Queued(q)'
      OBVIOUS
    <3>1. PICK i \in 1..Len(waiting) : waiting[i] = q
      BY <1>e DEF Queued
    <3>2. CASE waiting' = waiting
      BY <3>1, <3>2 DEF Queued
    <3>3. CASE waiting' = Append(waiting, r)
      <4>1. waiting \in Seq(Handlers)
        BY <1>a DEF Types
      <4>2. i \in 1..Len(waiting') /\ waiting'[i] = q
        BY <3>1, <3>3, <4>1
      <4> QED BY <4>2 DEF Queued
    <3> QED BY <1>m, <3>2, <3>3
  <2> QED BY <1>k, <1>m, <2>1, <2>2
<1>0. CASE UNCHANGED poolVars
  BY <1>0, <1>e, <1>k DEF poolVars, Queued
<1>b. CASE PoolNext
  <2>0. PICK r \in Handlers :
           \/ Arrive(r) \/ Ask(r) \/ Skip(r) \/ GrantQuery(r) \/ GrantHold(r)
           \/ Done(r) \/ Release(r) \/ Fail(r) \/ Leave(r) \/ Cancel(r)
    BY <1>b, StepKinds
  <2>t. pc \in [Handlers -> 0..5] /\ pc[r] \in 0..5
    BY <1>a DEF Types
  <2>1. CASE Arrive(r)
    <3>1. r \notin outer \cup inner
      BY <2>1, <1>e DEF Arrive, Served
    <3> QED BY <3>1, <2>1, <2>t, <1>m DEF Arrive
  <2>2. CASE Ask(r)
    <3>1. r \notin outer \cup inner
      BY <2>2, <1>e DEF Ask, Running
    <3> QED BY <3>1, <2>2, <2>t, <1>m DEF Ask
  <2>3. CASE Skip(r)
    <3>1. r \notin outer \cup inner
      BY <2>3, <1>e DEF Skip, Running
    <3> QED BY <3>1, <2>3, <2>t, <1>m DEF Skip, Advance
  <2>4. CASE GrantQuery(r)
    BY <2>4, <1>e DEF GrantQuery
  <2>5. CASE GrantHold(r)
    BY <2>5, <1>e DEF GrantHold
  <2>6. CASE Done(r)
    BY <2>6, <1>a, <1>e DEF Done, Placed
  <2>7. CASE Release(r)
    <3>1. r \notin outer \cup inner
      BY <2>7, <1>e DEF Release, Running
    <3>2. outer' = outer
      BY <3>1, <2>7 DEF Release
    <3> QED BY <3>1, <3>2, <2>7, <2>t, <1>m DEF Release, Advance
  <2>8. CASE Fail(r)
    <3>1. r \notin outer \cup inner
      BY <2>8, <1>e DEF Fail
    <3> QED BY <3>1, <2>8, <1>r DEF Fail
  <2>9. CASE Leave(r)
    BY <2>9, <1>e, <1>k DEF Leave, Queued
  <2>10. CASE Cancel(r)
    <3>1. r \notin outer \cup inner
      BY <2>10, <1>e DEF Cancel
    <3> QED BY <3>1, <2>10, <1>r DEF Cancel
  <2> QED BY <2>0, <2>1, <2>2, <2>3, <2>4, <2>5, <2>6, <2>7, <2>8, <2>9, <2>10
<1> QED BY <1>0, <1>b

(* Once the pool is exhausted by saves it stays so, for any number of      *)
(* connections and requests: only a restart of the process ends it.        *)
THEOREM PoolLost == PoolSpec => ExhaustedForever
<1>1. PoolInv /\ [PoolNext]_poolVars => [Exhausted => Exhausted']_poolVars
  BY ExhaustedStep
<1> QED BY <1>1, Invariance, PTL DEF PoolSpec, ExhaustedForever

(***************************************************************************)
(* The permission cache: answers that are never older than the TTL, and    *)
(* the only three ways in which an entry contradicts the tables.           *)
(***************************************************************************)
TableTypes ==
    /\ direct \subseteq Users /\ member \subseteq Users
    /\ groupHas \in BOOLEAN /\ permitted \in BOOLEAN
CacheTypes == cache \in [Users -> Entries] /\ \A u \in Users : cache[u].expires <= clock + TTL
ReaderTypes == reader \in [Readers -> ReaderStates] /\ \A r \in Readers : reader[r].now <= clock
WriterTypes == writer \in [Writers -> Seq(SUBSET Users)]
HeldTypes ==
    /\ held \in [Users -> [Answers -> Int]]
    /\ \A u \in Users, a \in Answers : held[u][a] <= clock
OvertakenTypes == overtaken \subseteq {r \in Readers : reader[r].pc = "store"}

\* The parts of the type invariant.
LEMMA TypeParts ==
    CacheTypeOK <=> /\ TableTypes /\ CacheTypes /\ clock \in Nat /\ ReaderTypes /\ WriterTypes
               /\ HeldTypes /\ OvertakenTypes /\ outrun \subseteq Users
  BY DEF CacheTypeOK, TableTypes, CacheTypes, ReaderTypes, WriterTypes, HeldTypes, OvertakenTypes

\* A user has the permission or not, before and after a step.
LEMMA AllowedType ==
    ASSUME NEW u PROVE Allowed(u) \in Answers /\ Allowed(u)' \in Answers
  BY DEF Allowed, Answers

\* The answer does not change while the tables do not.
LEMMA AllowedStable ==
    ASSUME NEW u, UNCHANGED tables PROVE Allowed(u)' = Allowed(u)
  BY DEF Allowed, tables

-----------------------------------------------------------------------------
(* The steps of a writer.                                                  *)

Covers(due) == \A u \in Users : Allowed(u)' # Allowed(u) => \E i \in DOMAIN due : u \in due[i]
Changes(w) == \E due \in Seq(SUBSET Users) : Change(w, due) /\ TableTypes' /\ Covers(due)

\* An assignment changes the answer of its user only.
LEMMA UserRoleCovers ==
    ASSUME CacheTypeOK, NEW u \in Users, direct' = direct \cup {u} \/ direct' = direct \ {u},
           UNCHANGED <<member, groupHas, permitted>>
    PROVE  TableTypes' /\ Covers(<<{u}>>)
  BY DEF CacheTypeOK, TableTypes, Covers, Allowed

\* An invalidation of the whole cache covers every change.
LEMMA AllCovers ==
    /\ Covers(<<Users>>)
    /\ \A old, new \in Users : Covers(<<Users, {old}, {new}>>)
  BY DEF Covers

\* A writer invalidates, or changes the tables and owes the invalidations that
\* cover its change.
LEMMA WriterSteps ==
    ASSUME CacheTypeOK, NEW w \in Writers, Writer(w) PROVE Invalidate(w) \/ Changes(w)
  <1>1. CASE \E u \in Users : GrantUserRole(w, u) \/ RevokeUserRole(w, u)
    <2>1. PICK u \in Users : GrantUserRole(w, u) \/ RevokeUserRole(w, u)
      BY <1>1
    <2>2. TableTypes' /\ Covers(<<{u}>>)
      BY <2>1, UserRoleCovers DEF GrantUserRole, RevokeUserRole
    <2>3. Change(w, <<{u}>>)
      BY <2>1 DEF GrantUserRole, RevokeUserRole
    <2>4. <<{u}>> \in Seq(SUBSET Users)
      OBVIOUS
    <2> QED
      BY <2>2, <2>3, <2>4 DEF Changes
  <1>2. CASE ChangeRolePermission(w) \/ SaveGroupRole(w) \/ SaveRolePermission(w)
    <2>1. Change(w, <<Users>>)
      BY <1>2 DEF ChangeRolePermission, PermissionChange, SaveGroupRole, SaveRolePermission
    <2>2. TableTypes'
      BY <1>2 DEF CacheTypeOK, TableTypes, ChangeRolePermission, PermissionChange, SaveGroupRole, SaveRolePermission
    <2>3. <<Users>> \in Seq(SUBSET Users)
      OBVIOUS
    <2> QED
      BY <2>1, <2>2, <2>3, AllCovers DEF Changes
  <1>3. CASE \E old, new \in Users : SaveUserRole(w, old, new) \/ SaveMembership(w, old, new)
    <2>1. PICK old \in Users, new \in Users : SaveUserRole(w, old, new) \/ SaveMembership(w, old, new)
      BY <1>3
    <2>2. Change(w, <<Users, {old}, {new}>>)
      BY <2>1 DEF SaveUserRole, SaveMembership
    <2>3. TableTypes'
      BY <2>1 DEF CacheTypeOK, TableTypes, SaveUserRole, SaveMembership, Moved
    <2>4. <<Users, {old}, {new}>> \in Seq(SUBSET Users)
      OBVIOUS
    <2> QED
      BY <2>2, <2>3, <2>4, AllCovers DEF Changes
  <1> QED
    BY <1>1, <1>2, <1>3 DEF Writer

\* The steps that change the tables.
TableStep == (\E w \in Writers : Changes(w)) \/ (BulkUpdate /\ TableTypes')

\* The rows of an edited table are users still.
LEMMA EditedRows ==
    ASSUME NEW rows, rows \subseteq Users, NEW new \in Edited(rows) PROVE new \subseteq Users
  BY DEF Edited, Moved

\* Every step.
LEMMA Steps ==
    ASSUME CacheTypeOK, CacheNext
    PROVE  \/ \E r \in Readers : Reader(r)
           \/ \E w \in Writers : Invalidate(w)
           \/ TableStep
           \/ Tick
           \/ Restart
  <1>1. CASE BulkUpdate
    <2>1. TableTypes'
      BY <1>1, EditedRows DEF CacheTypeOK, TableTypes, BulkUpdate
    <2> QED
      BY <1>1, <2>1 DEF TableStep
  <1>2. CASE \E w \in Writers : Writer(w)
    BY <1>2, WriterSteps DEF TableStep
  <1> QED
    BY <1>1, <1>2 DEF CacheNext

\* What a change of the tables leaves alone, and what it notes.
LEMMA TableStepFacts ==
    ASSUME TableStep PROVE Note /\ TableTypes' /\ UNCHANGED <<cache, clock, reader>>
  BY DEF TableStep, Changes, Change, BulkUpdate

-----------------------------------------------------------------------------
(* Type correctness.                                                       *)

\* The tables are empty, the cache too.
LEMMA TypeInit == ASSUME CacheAssumption, CacheInit PROVE CacheTypeOK
  <1>1. reader \in [Readers -> ReaderStates] /\ \A r \in Readers : reader[r].now <= clock
    BY DEF CacheInit, ReaderStates, Answers
  <1>2. held \in [Users -> [Answers -> Int]] /\ \A u \in Users, a \in Answers : held[u][a] <= clock
    BY DEF CacheInit, CacheAssumption, Answers
  <1>3. cache \in [Users -> Entries] /\ \A u \in Users : cache[u].expires <= clock + TTL
    BY DEF CacheInit, CacheAssumption, Entries, None, Answers
  <1>4. writer \in [Writers -> Seq(SUBSET Users)]
    BY DEF CacheInit
  <1> QED
    BY <1>1, <1>2, <1>3, <1>4 DEF CacheInit, CacheTypeOK

\* The steps of a reader.
LEMMA TypeReader ==
    ASSUME CacheAssumption, CacheTypeOK, NEW r \in Readers, Reader(r) PROVE CacheTypeOK'
  <1> DEFINE q == reader[r]
  <1>1. q \in ReaderStates /\ q.now <= clock /\ q.user \in Users /\ q.now \in Nat /\ q.allowed \in Answers
    BY DEF CacheTypeOK, ReaderStates
  <1>2. UNCHANGED <<tables, clock, writer, held>>
    BY DEF Reader, Call, Lookup, Query, QueryFails, Store, StoreUntil
  <1>3. CacheTypes' /\ outrun' \subseteq Users
    <2>1. CASE UNCHANGED <<cache, outrun>>
      BY <1>2, <2>1 DEF CacheTypeOK, CacheTypes
    <2>2. CASE Store(r)
      <3>1. cache' = [cache EXCEPT ![q.user] = [allowed |-> q.allowed, expires |-> q.now + TTL]]
        BY <2>2 DEF Store, StoreUntil
      <3>2. [allowed |-> q.allowed, expires |-> q.now + TTL] \in Entries
        BY <1>1 DEF CacheAssumption, Entries
      <3>3. outrun' \subseteq Users
        BY <1>1, <2>2 DEF Store, StoreUntil, CacheTypeOK
      <3>4. cache' \in [Users -> Entries]
        BY <1>1, <3>1, <3>2 DEF CacheTypeOK
      <3>5. ASSUME NEW u \in Users PROVE cache'[u].expires <= clock' + TTL
        <4>1. CASE u = q.user
          BY <1>1, <1>2, <3>1, <4>1 DEF CacheTypeOK, CacheAssumption
        <4>2. CASE u # q.user
          BY <1>1, <1>2, <3>1, <4>2 DEF CacheTypeOK
        <4> QED
          BY <4>1, <4>2
      <3> QED
        BY <3>3, <3>4, <3>5 DEF CacheTypes
    <2> QED
      BY <2>1, <2>2 DEF Reader, Call, Lookup, Query, QueryFails
  <1>4. PICK new \in ReaderStates : new.now <= clock /\ reader' = [reader EXCEPT ![r] = new]
    <2>1. CASE \E u \in Users : Call(r, u)
      <3> DEFINE ask(u) == [pc |-> "lookup", user |-> u, now |-> clock, allowed |-> "no"]
      <3>1. PICK u \in Users : reader' = [reader EXCEPT ![r] = ask(u)]
        BY <2>1 DEF Call, Step
      <3>2. ask(u) \in ReaderStates /\ ask(u).now <= clock
        BY DEF CacheTypeOK, ReaderStates, Answers
      <3> HIDE DEF ask
      <3> QED
        BY <3>1, <3>2
    <2>2. CASE Lookup(r)
      <3>1. cache[q.user].allowed \in Answers
        BY <1>1 DEF CacheTypeOK, Entries
      <3> DEFINE hit == [q EXCEPT !.pc = "answered", !.allowed = cache[q.user].allowed]
                 miss == [q EXCEPT !.pc = "query"]
      <3>2. hit \in ReaderStates /\ hit.now <= clock /\ miss \in ReaderStates /\ miss.now <= clock
        BY <1>1, <3>1 DEF ReaderStates
      <3>3. reader' = [reader EXCEPT ![r] = hit] \/ reader' = [reader EXCEPT ![r] = miss]
        BY <2>2 DEF Lookup, Step
      <3> QED
        BY <3>2, <3>3
    <2>3. CASE Query(r)
      <3>1. [q EXCEPT !.pc = "store", !.allowed = Allowed(q.user)] \in ReaderStates
        BY <1>1, AllowedType DEF ReaderStates
      <3>2. [q EXCEPT !.pc = "store", !.allowed = Allowed(q.user)].now <= clock
        BY <1>1 DEF ReaderStates
      <3> QED
        BY <2>3, <3>1, <3>2 DEF Query, Step
    <2>4. CASE QueryFails(r)
      BY <1>1, <2>4 DEF QueryFails, Step, ReaderStates
    <2>5. CASE Store(r)
      BY <1>1, <2>5 DEF Store, StoreUntil, Step, ReaderStates
    <2> QED
      BY <2>1, <2>2, <2>3, <2>4, <2>5 DEF Reader
  <1>5. ReaderTypes'
    BY <1>2, <1>4 DEF CacheTypeOK, ReaderTypes
  <1>6. OvertakenTypes'
    <2>1. overtaken' \subseteq overtaken
      BY DEF Reader, Call, Lookup, Query, QueryFails, Store, StoreUntil
    <2>2. q.pc = "store" => r \notin overtaken'
      BY DEF Reader, Call, Lookup, Query, QueryFails, Store, StoreUntil
    <2>3. \A s \in Readers : s # r => reader'[s] = reader[s]
      BY <1>4 DEF CacheTypeOK
    <2> QED
      BY <2>1, <2>2, <2>3 DEF CacheTypeOK, OvertakenTypes
  <1>7. TableTypes' /\ clock' \in Nat /\ WriterTypes' /\ HeldTypes'
    BY <1>2 DEF CacheTypeOK, TableTypes, WriterTypes, HeldTypes, tables
  <1> HIDE DEF q
  <1> QED
    BY <1>3, <1>5, <1>6, <1>7 DEF CacheTypeOK, TableTypes, CacheTypes, ReaderTypes, WriterTypes, HeldTypes, OvertakenTypes

\* The steps of a writer, of the clock and of the server.
LEMMA TypeOthers ==
    ASSUME CacheAssumption, CacheTypeOK,
           (\E w \in Writers : Invalidate(w)) \/ TableStep \/ Tick \/ Restart
    PROVE  CacheTypeOK'
  <1>0. /\ TableTypes /\ CacheTypes /\ clock \in Nat /\ ReaderTypes /\ WriterTypes
        /\ HeldTypes /\ OvertakenTypes /\ outrun \subseteq Users
    BY TypeParts
  <1>1. None \in Entries /\ None.expires = 0
    BY DEF None, Entries, Answers
  <1>2. CASE \E w \in Writers : Invalidate(w)
    <2>1. PICK w \in Writers : Invalidate(w)
      BY <1>2
    <2>2. CacheTypes'
      <3>1. cache' = [u \in Users |-> IF u \in Head(writer[w]) THEN None ELSE cache[u]]
        BY <2>1 DEF Invalidate
      <3>2. clock' = clock
        BY <2>1 DEF Invalidate
      <3> QED
        BY <1>0, <1>1, <3>1, <3>2 DEF CacheTypes, CacheAssumption
    <2>3. WriterTypes'
      BY <1>0, <2>1 DEF Invalidate, WriterTypes
    <2>4. TableTypes' /\ clock' \in Nat /\ ReaderTypes' /\ HeldTypes' /\ OvertakenTypes' /\ outrun' \subseteq Users
      BY <1>0, <2>1 DEF Invalidate, tables, TableTypes, ReaderTypes, HeldTypes, OvertakenTypes
    <2> QED
      BY <2>2, <2>3, <2>4 DEF CacheTypeOK, TableTypes, CacheTypes, ReaderTypes, WriterTypes, HeldTypes, OvertakenTypes
  <1>3. CASE TableStep
    <2>1. Note /\ TableTypes' /\ UNCHANGED <<cache, clock, reader>>
      BY <1>3, TableStepFacts
    <2>2. HeldTypes'
      <3>1. held' = [u \in Users |-> [held[u] EXCEPT ![Allowed(u)'] = clock]]
        BY <2>1 DEF Note
      <3> QED
        BY <1>0, <2>1, <3>1, AllowedType DEF HeldTypes
    <2>3. OvertakenTypes'
      BY <1>0, <2>1 DEF Note, OvertakenTypes
    <2>4. WriterTypes'
      BY <1>0, <1>3 DEF TableStep, Changes, Change, BulkUpdate, WriterTypes
    <2>5. outrun' \subseteq Users
      BY <1>0, <1>3 DEF TableStep, Changes, Change, BulkUpdate
    <2>6. CacheTypes' /\ clock' \in Nat /\ ReaderTypes'
      BY <1>0, <2>1 DEF CacheTypes, ReaderTypes
    <2> QED
      BY <2>1, <2>2, <2>3, <2>4, <2>5, <2>6 DEF CacheTypeOK, TableTypes, CacheTypes, ReaderTypes, WriterTypes, HeldTypes, OvertakenTypes
  <1>4. CASE Tick
    <2>1. clock' = clock + 1 /\ clock' \in Nat
      BY <1>0, <1>4 DEF Tick
    <2>2. HeldTypes'
      <3>1. held' = [u \in Users |-> [held[u] EXCEPT ![Allowed(u)] = clock']]
        BY <1>4 DEF Tick
      <3> QED
        BY <1>0, <2>1, <3>1, AllowedType DEF HeldTypes
    <2>3. CacheTypes' /\ ReaderTypes'
      <3>1. cache' = cache /\ reader' = reader
        BY <1>4 DEF Tick
      <3>2. \A u \in Users : cache[u].expires \in Nat
        BY <1>0 DEF CacheTypes, Entries
      <3>3. \A r \in Readers : reader[r].now \in Nat
        BY <1>0 DEF ReaderTypes, ReaderStates
      <3> QED
        BY <1>0, <2>1, <3>1, <3>2, <3>3 DEF CacheTypes, ReaderTypes, CacheAssumption
    <2>4. TableTypes' /\ WriterTypes' /\ OvertakenTypes' /\ outrun' \subseteq Users
      BY <1>0, <1>4 DEF Tick, tables, TableTypes, WriterTypes, OvertakenTypes
    <2> QED
      BY <2>1, <2>2, <2>3, <2>4 DEF CacheTypeOK, TableTypes, CacheTypes, ReaderTypes, WriterTypes, HeldTypes, OvertakenTypes
  <1>5. CASE Restart
    <2>1. CacheTypes'
      BY <1>0, <1>1, <1>5 DEF Restart, CacheTypes, CacheAssumption
    <2>2. ReaderTypes'
      <3>1. reader' = [r \in Readers |-> [reader[r] EXCEPT !.pc = "idle"]]
        BY <1>5 DEF Restart
      <3>2. clock' = clock
        BY <1>5 DEF Restart
      <3> QED
        BY <1>0, <3>1, <3>2 DEF ReaderTypes, ReaderStates
    <2>3. TableTypes' /\ clock' \in Nat /\ WriterTypes' /\ HeldTypes' /\ OvertakenTypes' /\ outrun' \subseteq Users
      BY <1>0, <1>5 DEF Restart, tables, TableTypes, WriterTypes, HeldTypes, OvertakenTypes
    <2> QED
      BY <2>1, <2>2, <2>3 DEF CacheTypeOK, TableTypes, CacheTypes, ReaderTypes, WriterTypes, HeldTypes, OvertakenTypes
  <1> QED
    BY <1>2, <1>3, <1>4, <1>5

\* Type correctness, for any number of users, readers and writers.
THEOREM CacheTypeCorrect == CacheSpec => []CacheTypeOK
  <1>1. CacheInit => CacheTypeOK
    BY TypeInit, CacheAssumption
  <1>2. CacheTypeOK /\ [CacheNext]_cacheVars => CacheTypeOK'
    <2>1. ASSUME CacheTypeOK, CacheNext PROVE CacheTypeOK'
      BY <2>1, CacheAssumption, Steps, TypeReader, TypeOthers
    <2>2. ASSUME CacheTypeOK, UNCHANGED cacheVars PROVE CacheTypeOK'
      BY <2>2 DEF cacheVars, CacheTypeOK
    <2> QED
      BY <2>1, <2>2
  <1> QED
    BY <1>1, <1>2, PTL DEF CacheSpec

-----------------------------------------------------------------------------
(* Answers are fresh.                                                      *)

HeldNow == \A u \in Users : held[u][Allowed(u)] = clock
EntriesFresh == \A u \in Users : cache[u] # None => held[u][cache[u].allowed] + TTL >= cache[u].expires
StoresFresh ==
    \A r \in Readers : reader[r].pc = "store" => held[reader[r].user][reader[r].allowed] >= reader[r].now
FreshInv == HeldNow /\ EntriesFresh /\ StoresFresh /\ AnswerFresh

\* The right answer is noted, and no note goes back in time.
LEMMA HeldGrows ==
    ASSUME CacheAssumption, CacheTypeOK, HeldNow, CacheNext
    PROVE  HeldNow' /\ \A u \in Users, a \in Answers : held'[u][a] \in Int /\ held'[u][a] >= held[u][a]
  <1>0. HeldTypes /\ clock \in Nat
    BY TypeParts
  <1>1. CASE (\E r \in Readers : Reader(r)) \/ (\E w \in Writers : Invalidate(w)) \/ Restart
    <2>1. UNCHANGED <<tables, clock, held>>
      BY <1>1 DEF Reader, Call, Lookup, Query, QueryFails, Store, StoreUntil, Invalidate, Restart
    <2>2. \A u \in Users : Allowed(u)' = Allowed(u)
      BY <2>1, AllowedStable
    <2> QED
      BY <1>0, <2>1, <2>2 DEF HeldNow, HeldTypes
  <1>2. CASE TableStep
    <2>1. held' = [u \in Users |-> [held[u] EXCEPT ![Allowed(u)'] = clock]] /\ clock' = clock
      BY <1>2, TableStepFacts DEF Note
    <2> QED
      BY <1>0, <2>1, AllowedType DEF HeldTypes, HeldNow
  <1>3. CASE Tick
    <2>1. held' = [u \in Users |-> [held[u] EXCEPT ![Allowed(u)] = clock']] /\ clock' = clock + 1
      BY <1>3 DEF Tick
    <2>2. \A u \in Users : Allowed(u)' = Allowed(u)
      BY <1>3, AllowedStable DEF Tick
    <2> QED
      BY <1>0, <2>1, <2>2, AllowedType DEF HeldTypes, HeldNow
  <1> QED
    BY <1>1, <1>2, <1>3, Steps

\* The step of a reader keeps entries, answers to be stored and answers fresh.
LEMMA FreshReader ==
    ASSUME CacheAssumption, CacheTypeOK, FreshInv, NEW r \in Readers, Reader(r)
    PROVE  EntriesFresh' /\ StoresFresh' /\ AnswerFresh'
  <1> DEFINE q == reader[r]
             u == q.user
  <1>1. /\ u \in Users /\ q.now \in Nat /\ q.now <= clock /\ q.allowed \in Answers
        /\ cache[u].expires \in Nat /\ cache[u].allowed \in Answers
    BY DEF CacheTypeOK, ReaderStates, Entries
  <1>2. \A v \in Users, a \in Answers : held[v][a] \in Int
    BY DEF CacheTypeOK
  <1>3. held' = held
    BY DEF Reader, Call, Lookup, Query, QueryFails, Store, StoreUntil
  <1>4. r \in DOMAIN reader
    BY DEF CacheTypeOK
  <1>5. \A s \in Readers : s # r => reader'[s] = reader[s]
    BY DEF CacheTypeOK, Reader, Call, Lookup, Query, QueryFails, Store, StoreUntil, Step
  <1>6. EntriesFresh'
    <2>1. CASE Store(r)
      <3>1. cache' = [cache EXCEPT ![u] = [allowed |-> q.allowed, expires |-> q.now + TTL]]
        BY <2>1 DEF Store, StoreUntil
      <3>2. held[u][q.allowed] >= q.now
        BY <2>1 DEF Store, StoreUntil, FreshInv, StoresFresh
      <3>3. ASSUME NEW v \in Users, cache'[v] # None PROVE held'[v][cache'[v].allowed] + TTL >= cache'[v].expires
        <4>1. CASE v = u
          <5>1. cache'[v].allowed = q.allowed /\ cache'[v].expires = q.now + TTL
            BY <3>1, <4>1 DEF CacheTypeOK
          <5> QED
            BY <1>1, <1>2, <1>3, <3>2, <4>1, <5>1 DEF CacheAssumption
        <4>2. CASE v # u
          <5>1. cache'[v] = cache[v]
            BY <3>1, <4>2 DEF CacheTypeOK
          <5> QED
            BY <1>3, <3>3, <5>1 DEF FreshInv, EntriesFresh
        <4> QED
          BY <4>1, <4>2
      <3> QED
        BY <3>3 DEF EntriesFresh
    <2>2. CASE cache' = cache
      BY <1>3, <2>2 DEF FreshInv, EntriesFresh
    <2> QED
      BY <2>1, <2>2 DEF Reader, Call, Lookup, Query, QueryFails
  <1>7. /\ reader'[r].pc = "store" => held[reader'[r].user][reader'[r].allowed] >= reader'[r].now
        /\ reader'[r].pc = "answered" => held[reader'[r].user][reader'[r].allowed] + TTL > reader'[r].now
    <2>1. CASE (\E v \in Users : Call(r, v)) \/ QueryFails(r)
      <3>1. reader'[r].pc \notin {"store", "answered"}
        BY <1>4, <2>1 DEF Call, QueryFails, Step, CacheTypeOK, ReaderStates
      <3> QED
        BY <3>1
    <2>2. CASE Lookup(r)
      <3>1. CASE Hit(r)
        <4>1. reader'[r] = [q EXCEPT !.pc = "answered", !.allowed = cache[u].allowed]
          BY <1>4, <2>2, <3>1 DEF Lookup, Step
        <4>2. /\ reader'[r].pc = "answered" /\ reader'[r].user = u /\ reader'[r].now = q.now
              /\ reader'[r].allowed = cache[u].allowed
          BY <4>1 DEF CacheTypeOK, ReaderStates
        <4>3. q.now < cache[u].expires
          BY <3>1 DEF Hit
        <4>4. cache[u] # None
          BY <1>1, <4>3 DEF None
        <4>5. held[u][cache[u].allowed] + TTL >= cache[u].expires
          BY <1>1, <4>4 DEF FreshInv, EntriesFresh
        <4> HIDE DEF q, u
        <4> QED
          BY <1>1, <1>2, <4>2, <4>3, <4>5 DEF CacheAssumption
      <3>2. CASE ~Hit(r)
        <4>1. reader'[r].pc = "query"
          BY <1>4, <2>2, <3>2 DEF Lookup, Step, CacheTypeOK, ReaderStates
        <4> QED
          BY <4>1
      <3> QED
        BY <3>1, <3>2
    <2>3. CASE Query(r)
      <3>1. reader'[r] = [q EXCEPT !.pc = "store", !.allowed = Allowed(u)]
        BY <1>4, <2>3 DEF Query, Step
      <3>2. /\ reader'[r].pc = "store" /\ reader'[r].user = u /\ reader'[r].now = q.now
            /\ reader'[r].allowed = Allowed(u)
        BY <3>1 DEF CacheTypeOK, ReaderStates
      <3>3. held[u][Allowed(u)] = clock
        BY <1>1 DEF FreshInv, HeldNow
      <3> HIDE DEF q, u
      <3> QED
        BY <1>1, <3>2, <3>3
    <2>4. CASE Store(r)
      <3>1. reader'[r] = [q EXCEPT !.pc = "answered"]
        BY <1>4, <2>4 DEF Store, StoreUntil, Step
      <3>2. /\ reader'[r].pc = "answered" /\ reader'[r].user = u /\ reader'[r].now = q.now
            /\ reader'[r].allowed = q.allowed
        BY <3>1 DEF CacheTypeOK, ReaderStates
      <3>3. held[u][q.allowed] >= q.now
        BY <2>4 DEF Store, StoreUntil, FreshInv, StoresFresh
      <3> HIDE DEF q, u
      <3> QED
        BY <1>1, <1>2, <3>2, <3>3 DEF CacheAssumption
    <2> QED
      BY <2>1, <2>2, <2>3, <2>4 DEF Reader
  <1> QED
    BY <1>3, <1>5, <1>6, <1>7 DEF FreshInv, StoresFresh, AnswerFresh

\* In the other steps no entry and no answer is new.
LEMMA FreshOthers ==
    ASSUME CacheAssumption, CacheTypeOK, FreshInv, CacheNext,
           (\E w \in Writers : Invalidate(w)) \/ TableStep \/ Tick \/ Restart
    PROVE  EntriesFresh' /\ StoresFresh' /\ AnswerFresh'
  <1>1. \A u \in Users, a \in Answers : held'[u][a] \in Int /\ held'[u][a] >= held[u][a]
    BY HeldGrows DEF FreshInv
  <1>2. \A u \in Users : cache'[u] = cache[u] \/ cache'[u] = None
    <2>1. CASE TableStep
      BY <2>1, TableStepFacts
    <2>2. CASE ~TableStep
      BY <2>2 DEF Invalidate, Tick, Restart
    <2> QED
      BY <2>1, <2>2
  <1>3. \A r \in Readers : reader'[r] = reader[r] \/ reader'[r].pc = "idle"
    <2>1. CASE TableStep
      BY <2>1, TableStepFacts
    <2>2. CASE ~TableStep
      BY <2>2 DEF Invalidate, Tick, Restart, CacheTypeOK, ReaderStates
    <2> QED
      BY <2>1, <2>2
  <1>4. \A u \in Users : cache[u].allowed \in Answers /\ cache[u].expires \in Nat
    BY DEF CacheTypeOK, Entries
  <1>5. \A r \in Readers : reader[r].user \in Users /\ reader[r].allowed \in Answers /\ reader[r].now \in Nat
    BY DEF CacheTypeOK, ReaderStates
  <1>6. \A u \in Users, a \in Answers : held[u][a] \in Int
    BY DEF CacheTypeOK
  <1>7. EntriesFresh'
    <2> SUFFICES ASSUME NEW u \in Users, cache'[u] # None
                 PROVE  held'[u][cache'[u].allowed] + TTL >= cache'[u].expires
      BY DEF EntriesFresh
    <2>1. cache'[u] = cache[u]
      BY <1>2
    <2>2. held[u][cache[u].allowed] + TTL >= cache[u].expires
      BY <2>1 DEF FreshInv, EntriesFresh
    <2> QED
      BY <1>1, <1>4, <1>6, <2>1, <2>2 DEF CacheAssumption
  <1>8. StoresFresh'
    <2> SUFFICES ASSUME NEW r \in Readers, reader'[r].pc = "store"
                 PROVE  held'[reader'[r].user][reader'[r].allowed] >= reader'[r].now
      BY DEF StoresFresh
    <2>1. reader'[r] = reader[r]
      BY <1>3
    <2>2. held[reader[r].user][reader[r].allowed] >= reader[r].now
      BY <2>1 DEF FreshInv, StoresFresh
    <2> QED
      BY <1>1, <1>5, <1>6, <2>1, <2>2
  <1>9. AnswerFresh'
    <2> SUFFICES ASSUME NEW r \in Readers, reader'[r].pc = "answered"
                 PROVE  held'[reader'[r].user][reader'[r].allowed] + TTL > reader'[r].now
      BY DEF AnswerFresh
    <2>1. reader'[r] = reader[r]
      BY <1>3
    <2>2. held[reader[r].user][reader[r].allowed] + TTL > reader[r].now
      BY <2>1 DEF FreshInv, AnswerFresh
    <2> QED
      BY <1>1, <1>5, <1>6, <2>1, <2>2 DEF CacheAssumption
  <1> QED
    BY <1>7, <1>8, <1>9

\* Every answer was right at some time since the TTL before its request.
THEOREM FreshAnswers == CacheSpec => []AnswerFresh
  <1>1. CacheInit => FreshInv
    <2>1. ASSUME CacheInit PROVE HeldNow /\ EntriesFresh
      BY <2>1 DEF CacheInit, HeldNow, EntriesFresh, Allowed, Answers
    <2>2. ASSUME CacheInit PROVE StoresFresh /\ AnswerFresh
      <3>1. \A r \in Readers : reader[r].pc = "idle"
        BY <2>2 DEF CacheInit
      <3> QED
        BY <3>1 DEF StoresFresh, AnswerFresh
    <2> QED
      BY <2>1, <2>2 DEF FreshInv
  <1>2. CacheTypeOK /\ FreshInv /\ [CacheNext]_cacheVars => FreshInv'
    <2>1. ASSUME CacheTypeOK, FreshInv, CacheNext PROVE FreshInv'
      BY <2>1, CacheAssumption, Steps, HeldGrows, FreshReader, FreshOthers DEF FreshInv
    <2>2. ASSUME FreshInv, UNCHANGED cacheVars PROVE FreshInv'
      <3>1. \A u \in Users : Allowed(u)' = Allowed(u)
        BY <2>2, AllowedStable DEF cacheVars, tables
      <3> QED
        BY <2>2, <3>1 DEF cacheVars, FreshInv, HeldNow, EntriesFresh, StoresFresh, AnswerFresh
    <2> QED
      BY <2>1, <2>2
  <1>3. FreshInv => AnswerFresh
    BY DEF FreshInv
  <1> QED
    BY <1>1, <1>2, <1>3, CacheTypeCorrect, PTL DEF CacheSpec

-----------------------------------------------------------------------------
(* The cache is coherent.                                                  *)

\* An answer about to be stored is right, unless a change overtook its reader.
StoresCoherent ==
    \A r \in Readers :
        reader[r].pc = "store" /\ r \notin overtaken => reader[r].allowed = Allowed(reader[r].user)
CoherentInv == StoresCoherent /\ CacheCoherent

\* The step of a reader.
LEMMA CoherentReader ==
    ASSUME CacheTypeOK, CoherentInv, NEW r \in Readers, Reader(r) PROVE CoherentInv'
  <1> DEFINE q == reader[r]
             u == q.user
  <1>1. UNCHANGED <<tables, writer>>
    BY DEF Reader, Call, Lookup, Query, QueryFails, Store, StoreUntil
  <1>2. \A v : Allowed(v)' = Allowed(v)
    BY <1>1, AllowedStable
  <1>3. \A v : Due(v)' <=> Due(v)
    BY <1>1 DEF Due
  <1>4. r \in DOMAIN reader /\ u \in Users
    BY DEF CacheTypeOK, ReaderStates
  <1>5. \A s \in Readers : s # r => reader'[s] = reader[s] /\ (s \in overtaken' <=> s \in overtaken)
    BY DEF CacheTypeOK, Reader, Call, Lookup, Query, QueryFails, Store, StoreUntil, Step
  <1>6. reader'[r].pc = "store" => reader'[r].allowed = Allowed(reader'[r].user)
    <2>1. CASE Query(r)
      BY <1>4, <2>1 DEF Query, Step, CacheTypeOK, ReaderStates
    <2>2. CASE Lookup(r)
      <3>1. reader'[r].pc = "answered" \/ reader'[r].pc = "query"
        BY <1>4, <2>2 DEF Lookup, Step, CacheTypeOK, ReaderStates
      <3> QED
        BY <3>1
    <2>3. CASE (\E v \in Users : Call(r, v)) \/ QueryFails(r) \/ Store(r)
      BY <1>4, <2>3 DEF Call, QueryFails, Store, StoreUntil, Step, CacheTypeOK, ReaderStates
    <2> QED
      BY <2>1, <2>2, <2>3 DEF Reader
  <1>7. StoresCoherent'
    BY <1>2, <1>5, <1>6 DEF CoherentInv, StoresCoherent
  <1>8. CacheCoherent'
    <2>1. CASE Store(r)
      <3>1. cache' = [cache EXCEPT ![u] = [allowed |-> q.allowed, expires |-> q.now + TTL]]
        BY <2>1 DEF Store, StoreUntil
      <3>2. outrun' = IF r \in overtaken THEN outrun \cup {u} ELSE outrun \ {u}
        BY <2>1 DEF Store, StoreUntil
      <3> SUFFICES ASSUME NEW v \in Users, cache'[v] # None, cache'[v].allowed # Allowed(v)', v \notin outrun'
                   PROVE  Due(v)'
        BY DEF CacheCoherent
      <3>3. CASE v = u
        <4>1. r \notin overtaken
          BY <3>2, <3>3
        <4>2. q.allowed = Allowed(u)
          BY <2>1, <4>1 DEF Store, StoreUntil, CoherentInv, StoresCoherent
        <4>3. cache'[v].allowed = q.allowed
          BY <3>1, <3>3, <1>4 DEF CacheTypeOK
        <4> QED
          BY <1>2, <3>3, <4>2, <4>3
      <3>4. CASE v # u
        <4>1. cache'[v] = cache[v] /\ v \notin outrun
          BY <3>1, <3>2, <3>4 DEF CacheTypeOK
        <4> QED
          BY <1>2, <1>3, <4>1 DEF CoherentInv, CacheCoherent
      <3> QED
        BY <3>3, <3>4
    <2>2. CASE UNCHANGED <<cache, outrun>>
      BY <1>2, <1>3, <2>2 DEF CoherentInv, CacheCoherent
    <2> QED
      BY <2>1, <2>2 DEF Reader, Call, Lookup, Query, QueryFails
  <1> QED
    BY <1>7, <1>8 DEF CoherentInv

\* An invalidation that is done is not due any more, the ones after it are.
LEMMA CoherentInvalidate ==
    ASSUME CacheTypeOK, CoherentInv, NEW w \in Writers, Invalidate(w) PROVE CoherentInv'
  <1>1. UNCHANGED <<tables, reader, overtaken>>
    BY DEF Invalidate
  <1>2. \A v : Allowed(v)' = Allowed(v)
    BY <1>1, AllowedStable
  <1>3. StoresCoherent'
    BY <1>1, <1>2 DEF CoherentInv, StoresCoherent
  <1>4. CacheCoherent'
    <2> SUFFICES ASSUME NEW v \in Users, cache'[v] # None, cache'[v].allowed # Allowed(v)', v \notin outrun'
                 PROVE  Due(v)'
      BY DEF CacheCoherent
    <2>1. v \notin Head(writer[w]) /\ cache'[v] = cache[v] /\ v \notin outrun
      BY DEF Invalidate
    <2>2. PICK x \in Writers : \E i \in DOMAIN writer[x] : v \in writer[x][i]
      BY <1>2, <2>1 DEF CoherentInv, CacheCoherent, Due
    <2>3. CASE x # w
      <3>1. writer'[x] = writer[x]
        BY <2>3 DEF Invalidate, CacheTypeOK
      <3> QED
        BY <2>2, <3>1 DEF Due
    <2>4. CASE x = w
      <3>1. PICK i \in DOMAIN writer[w] : v \in writer[w][i]
        BY <2>2, <2>4
      <3>2. writer[w] \in Seq(SUBSET Users) /\ writer[w] # <<>>
        BY DEF CacheTypeOK, Invalidate
      <3>3. i \in 1..Len(writer[w])
        BY <3>1, <3>2
      <3>4. i # 1
        BY <2>1, <3>1, <3>2
      <3>5. writer'[w] = Tail(writer[w])
        BY DEF Invalidate, CacheTypeOK
      <3>6. i - 1 \in DOMAIN Tail(writer[w]) /\ Tail(writer[w])[i - 1] = writer[w][i]
        BY <3>2, <3>3, <3>4
      <3> QED
        BY <3>1, <3>5, <3>6 DEF Due
    <2> QED
      BY <2>3, <2>4
  <1> QED
    BY <1>3, <1>4 DEF CoherentInv

\* A change is covered by the invalidations its writer owes, or is a bulk edit.
LEMMA CoherentChange ==
    ASSUME CacheTypeOK, CoherentInv, TableStep PROVE CoherentInv'
  <1>1. Note /\ UNCHANGED <<cache, reader>>
    BY TableStepFacts
  <1>2. StoresCoherent'
    BY <1>1 DEF Note, StoresCoherent
  <1>3. CacheCoherent'
    <2> SUFFICES ASSUME NEW v \in Users, cache'[v] # None, cache'[v].allowed # Allowed(v)', v \notin outrun'
                 PROVE  Due(v)'
      BY DEF CacheCoherent
    <2>1. CASE BulkUpdate
      <3>1. Allowed(v)' = Allowed(v) /\ v \notin outrun /\ writer' = writer
        BY <2>1 DEF BulkUpdate
      <3>2. Due(v)
        BY <1>1, <3>1 DEF CoherentInv, CacheCoherent
      <3> QED
        BY <3>1, <3>2 DEF Due
    <2>2. CASE \E w \in Writers : Changes(w)
      <3>1. PICK w \in Writers, due \in Seq(SUBSET Users) : Change(w, due) /\ Covers(due)
        BY <2>2 DEF Changes
      <3>2. writer[w] = <<>> /\ writer' = [writer EXCEPT ![w] = due] /\ outrun' = outrun
        BY <3>1 DEF Change
      <3>3. CASE Allowed(v)' # Allowed(v)
        <4>1. PICK i \in DOMAIN due : v \in due[i]
          BY <3>1, <3>3 DEF Covers
        <4>2. writer'[w] = due
          BY <3>2 DEF CacheTypeOK
        <4> QED
          BY <4>1, <4>2 DEF Due
      <3>4. CASE Allowed(v)' = Allowed(v)
        <4>1. PICK x \in Writers : \E i \in DOMAIN writer[x] : v \in writer[x][i]
          BY <1>1, <3>2, <3>4 DEF CoherentInv, CacheCoherent, Due
        <4>2. x # w
          BY <3>2, <4>1
        <4>3. writer'[x] = writer[x]
          BY <3>2, <4>2 DEF CacheTypeOK
        <4> QED
          BY <4>1, <4>3 DEF Due
      <3> QED
        BY <3>3, <3>4
    <2> QED
      BY <2>1, <2>2 DEF TableStep
  <1> QED
    BY <1>2, <1>3 DEF CoherentInv

\* An entry contradicts the tables only with an invalidation due, after its
\* reader was overtaken, or after a bulk edit.
THEOREM CoherentCache == CacheSpec => []CacheCoherent
  <1>1. CacheInit => CoherentInv
    <2>1. ASSUME CacheInit PROVE \A r \in Readers : reader[r].pc = "idle"
      BY <2>1 DEF CacheInit
    <2> QED
      BY <2>1 DEF CacheInit, CoherentInv, StoresCoherent, CacheCoherent
  <1>2. CacheTypeOK /\ CoherentInv /\ [CacheNext]_cacheVars => CoherentInv'
    <2>1. ASSUME CoherentInv, Tick PROVE CoherentInv'
      <3>1. UNCHANGED <<cache, reader, writer, overtaken, outrun>> /\ \A u : Allowed(u)' = Allowed(u)
        BY <2>1, AllowedStable DEF Tick
      <3> QED
        BY <2>1, <3>1 DEF CoherentInv, StoresCoherent, CacheCoherent, Due
    <2>2. ASSUME CacheTypeOK, Restart PROVE CoherentInv'
      <3>1. \A r \in Readers : reader'[r].pc = "idle"
        BY <2>2 DEF Restart, CacheTypeOK, ReaderStates
      <3>2. \A u \in Users : cache'[u] = None
        BY <2>2 DEF Restart
      <3> QED
        BY <3>1, <3>2 DEF CoherentInv, StoresCoherent, CacheCoherent
    <2>3. ASSUME CoherentInv, UNCHANGED cacheVars PROVE CoherentInv'
      <3>1. \A u : Allowed(u)' = Allowed(u)
        BY <2>3, AllowedStable DEF cacheVars, tables
      <3> QED
        BY <2>3, <3>1 DEF cacheVars, CoherentInv, StoresCoherent, CacheCoherent, Due
    <2> QED
      BY <2>1, <2>2, <2>3, Steps, CoherentReader, CoherentInvalidate, CoherentChange
  <1>3. CoherentInv => CacheCoherent
    BY DEF CoherentInv
  <1> QED
    BY <1>1, <1>2, <1>3, CacheTypeCorrect, PTL DEF CacheSpec
=================================================================================
