------------------------- MODULE ObservabilityQueue -------------------------
(***************************************************************************)
(* The background queue of derived-observability emits                     *)
(* (internal/db/ObservabilityQueue.go) and the emit its worker runs        *)
(* (emitDerivedObservability, internal/db/ObservabilityAnalysis.go).       *)
(*                                                                         *)
(* Requests call enqueueDerivedObservability: start the worker once, take  *)
(* the read lock, test stopping, then send without blocking or drop.       *)
(* One worker receives a job, coalesces up to MaxBatch waiting jobs, and   *)
(* calls the base app's ingest service once per event of the batch, all    *)
(* under one context deadline.  stop closes the channel under the write    *)
(* lock.  Time is counted in abstract ticks and only inside one emit.      *)
(***************************************************************************)
EXTENDS Naturals, Sequences, FiniteSets

CONSTANTS
    Requests,       \* the requests; each calls enqueueDerivedObservability once
    Load,           \* the number of events each request hands over
    QueueSize,      \* capacity of the jobs channel
    MaxBatch,       \* most jobs one worker pass coalesces
    BatchTimeout,   \* ticks of the context one emit runs under
    ScriptTimeout   \* ticks after which a script run is interrupted

ASSUME QueueAssumption ==
    /\ Load \in [Requests -> Nat]
    /\ QueueSize \in Nat \ {0}
    /\ MaxBatch \in Nat \ {0}
    /\ BatchTimeout \in Nat \ {0}
    /\ ScriptTimeout \in Nat \ {0}

VARIABLES
    rpc,        \* where each request is in enqueue, and how it ended
    jobs,       \* the buffered channel
    stopping,   \* the flag stop sets; the channel is closed with it
    stopPc,     \* the call of stop: "none", "waiting" for the lock, "done"
    wpc,        \* the worker's control state; "off" until startOnce has run
    batch,      \* jobs folded into the batch being emitted
    size,       \* len(events) of that batch
    atJob,      \* the job of the batch whose event is called next
    atEvent,    \* and that event's number in the job
    elapsed,    \* ticks the running emit has used
    err,        \* the running emit's firstErr: "none", "resolve" or "event"
    ingested,   \* events whose service call committed, in order
    accepted,   \* history: jobs the channel took, in order
    delivered,  \* history: jobs whose batch has been accounted, in order
    dropped,    \* counter of jobs dropped by a full queue
    processed,  \* counter of events of successful batches
    failed      \* counter of events of failed batches

requestVars == <<rpc, accepted, dropped>>
batchVars == <<batch, size>>
emitVars == <<atJob, atEvent, elapsed, err, ingested>>
counterVars == <<delivered, processed, failed>>
stopVars == <<stopping, stopPc>>
vars == <<requestVars, jobs, stopVars, wpc, batchVars, emitVars, counterVars>>

RequestStates == {"idle", "lock", "send", "ignored", "accepted", "dropped", "refused"}
WorkerStates == {"off", "receive", "coalesce", "resolve", "emit", "account", "done"}

Init ==
    /\ rpc = [r \in Requests |-> "idle"]
    /\ jobs = <<>> /\ batch = <<>> /\ accepted = <<>> /\ delivered = <<>>
    /\ stopping = FALSE /\ stopPc = "none"
    /\ wpc = "off"
    /\ size = 0 /\ atJob = 1 /\ atEvent = 1 /\ elapsed = 0 /\ err = "none" /\ ingested = <<>>
    /\ dropped = 0 /\ processed = 0 /\ failed = 0

-----------------------------------------------------------------------------
(* Requests: enqueueDerivedObservability and enqueue.                      *)

\* enqueueDerivedObservability: nothing to emit returns at once and does not
\* start the worker.
Ignore(r) ==
    /\ rpc[r] = "idle" /\ Load[r] = 0
    /\ rpc' = [rpc EXCEPT ![r] = "ignored"]
    /\ UNCHANGED <<accepted, dropped, jobs, stopVars, wpc, batchVars, emitVars, counterVars>>

\* Mutant: the worker is never launched.
StartNothing(r) ==
    /\ rpc[r] = "idle" /\ Load[r] > 0
    /\ rpc' = [rpc EXCEPT ![r] = "lock"]
    /\ UNCHANGED <<accepted, dropped, jobs, stopVars, wpc, batchVars, emitVars, counterVars>>

\* start(): the worker goroutine is launched by the first request only.
Start(r) ==
    /\ rpc[r] = "idle" /\ Load[r] > 0
    /\ rpc' = [rpc EXCEPT ![r] = "lock"]
    /\ wpc' = IF wpc = "off" THEN "receive" ELSE wpc
    /\ UNCHANGED <<accepted, dropped, jobs, stopVars, batchVars, emitVars, counterVars>>

\* Mutant: stopping is not tested under the lock.
ReadLockUntested(r) ==
    /\ rpc[r] = "lock" /\ stopPc # "waiting"
    /\ rpc' = [rpc EXCEPT ![r] = "send"]
    /\ UNCHANGED <<accepted, dropped, jobs, stopVars, wpc, batchVars, emitVars, counterVars>>

\* RLock, then the test of stopping.  A waiting writer keeps new readers out.
ReadLock(r) ==
    /\ rpc[r] = "lock" /\ stopPc # "waiting"
    /\ rpc' = [rpc EXCEPT ![r] = IF stopping THEN "refused" ELSE "send"]
    /\ UNCHANGED <<accepted, dropped, jobs, stopVars, wpc, batchVars, emitVars, counterVars>>

\* The select of enqueue: send if the buffer has room, else drop; the deferred
\* RUnlock ends the read section.
SendIf(r, room) ==
    /\ rpc[r] = "send"
    /\ IF room
         THEN /\ jobs' = Append(jobs, r)
              /\ accepted' = Append(accepted, r)
              /\ rpc' = [rpc EXCEPT ![r] = "accepted"]
              /\ UNCHANGED dropped
         ELSE /\ dropped' = dropped + 1
              /\ rpc' = [rpc EXCEPT ![r] = "dropped"]
              /\ UNCHANGED <<jobs, accepted>>
    /\ UNCHANGED <<stopVars, wpc, batchVars, emitVars, counterVars>>

Send(r) == SendIf(r, Len(jobs) < QueueSize)

-----------------------------------------------------------------------------
(* stop(): stopOnce, then the write lock around stopping and close(jobs).  *)

StopCall ==
    /\ stopPc = "none"
    /\ stopPc' = "waiting"
    /\ UNCHANGED <<requestVars, jobs, stopping, wpc, batchVars, emitVars, counterVars>>

StopClose ==
    /\ stopPc = "waiting"
    /\ \A r \in Requests : rpc[r] # "send"
    /\ stopPc' = "done" /\ stopping' = TRUE
    /\ UNCHANGED <<requestVars, jobs, wpc, batchVars, emitVars, counterVars>>

-----------------------------------------------------------------------------
(* The worker: run, coalesce, emitBatch and emitDerivedObservability.      *)

\* "for job := range q.jobs": the first job of a batch.
Receive ==
    /\ wpc = "receive" /\ jobs # <<>>
    /\ batch' = <<Head(jobs)>> /\ size' = Load[Head(jobs)]
    /\ jobs' = Tail(jobs)
    /\ wpc' = "coalesce"
    /\ UNCHANGED <<requestVars, stopVars, emitVars, counterVars>>

\* The range ends when the channel is closed and drained.
WorkerEndIf(over) ==
    /\ wpc = "receive" /\ over
    /\ wpc' = "done"
    /\ UNCHANGED <<requestVars, jobs, stopVars, batchVars, emitVars, counterVars>>

WorkerEnd == WorkerEndIf(jobs = <<>> /\ stopping)

\* One turn of coalesce's loop: take a waiting job, or go on to the emit under
\* a fresh context.
CoalesceInto(folded) ==
    /\ wpc = "coalesce"
    /\ IF Len(batch) < MaxBatch /\ jobs # <<>>
         THEN /\ batch' = folded
              /\ size' = size + Load[Head(jobs)]
              /\ jobs' = Tail(jobs)
              /\ UNCHANGED <<wpc, atJob, atEvent, elapsed, err>>
         ELSE /\ wpc' = "resolve"
              /\ atJob' = 1 /\ atEvent' = 1 /\ elapsed' = 0 /\ err' = "none"
              /\ UNCHANGED <<jobs, batchVars>>
    /\ UNCHANGED <<requestVars, stopVars, ingested, counterVars>>

Coalesce == CoalesceInto(Append(batch, Head(jobs)))

\* ResolveRuntimeApp("base"): found, not registered (the emit returns nil), or
\* the lookup fails (the emit returns the error).
Resolve ==
    /\ wpc = "resolve"
    /\ \/ wpc' = "emit" /\ UNCHANGED err
       \/ wpc' = "account" /\ UNCHANGED err
       \/ wpc' = "account" /\ err' = "resolve"
    /\ UNCHANGED <<requestVars, jobs, stopVars, batchVars, atJob, atEvent, elapsed,
                   ingested, counterVars>>

Event == [job |-> batch[atJob], n |-> atEvent]
LastOfJob == atEvent = Load[batch[atJob]]
LastOfBatch == LastOfJob /\ atJob = Len(batch)
Expired(ticks) == elapsed + ticks >= BatchTimeout

\* The service call commits before the deadline of the batch.
CallSucceeds(ticks) ==
    /\ ticks < ScriptTimeout /\ ~Expired(ticks)
    /\ ingested' = Append(ingested, Event)
    /\ wpc' = IF LastOfBatch THEN "account" ELSE "emit"
    /\ UNCHANGED err

\* It returns an error: the script threw, was interrupted at ScriptTimeout, or
\* the context is over; the loop breaks only in the last case.
CallFails(ticks) ==
    /\ err' = "event"
    /\ wpc' = IF LastOfBatch \/ Expired(ticks) THEN "account" ELSE "emit"
    /\ UNCHANGED ingested

\* One turn of the event loop of emitDerivedObservability.
EmitEvent ==
    /\ wpc = "emit"
    /\ \E ticks \in 0..ScriptTimeout :
          /\ CallSucceeds(ticks) \/ CallFails(ticks)
          /\ elapsed' = IF Expired(ticks) THEN BatchTimeout ELSE elapsed + ticks
    /\ atJob' = IF LastOfJob THEN atJob + 1 ELSE atJob
    /\ atEvent' = IF LastOfJob THEN 1 ELSE atEvent + 1
    /\ UNCHANGED <<requestVars, jobs, stopVars, batchVars, counterVars>>

\* emitBatch counts the whole batch one way or the other.
AccountAs(n) ==
    /\ wpc = "account"
    /\ IF err = "none"
         THEN processed' = processed + n /\ UNCHANGED failed
         ELSE failed' = failed + n /\ UNCHANGED processed
    /\ delivered' = delivered \o batch
    /\ batch' = <<>> /\ size' = 0
    /\ wpc' = "receive"
    /\ UNCHANGED <<requestVars, jobs, stopVars, emitVars>>

Account == AccountAs(size)

-----------------------------------------------------------------------------
Request(r) == Ignore(r) \/ Start(r) \/ ReadLock(r) \/ Send(r)
Worker == Receive \/ WorkerEnd \/ Coalesce \/ Resolve \/ EmitEvent \/ Account
Next == (\E r \in Requests : Request(r)) \/ StopCall \/ StopClose \/ Worker

Spec == Init /\ [][Next]_vars

\* The Go scheduler runs every goroutine that is not blocked, and a service
\* call ends by ScriptTimeout.  Nothing obliges a request to come or anyone to
\* call stop; a call of stop that began gets the lock once no reader holds it.
RequestFairness ==
    (\A r \in Requests : WF_vars(ReadLock(r) \/ Send(r))) /\ WF_vars(StopClose)
FairSpec == Spec /\ RequestFairness

\* What the worker finishes is promised only if its calls come back; FairSpec
\* leaves it free to hang for ever.
WorkerRuns == []<>(~ENABLED <<Worker>>_vars) \/ []<><<Worker>>_vars
-----------------------------------------------------------------------------
(* Properties.                                                             *)

\* Type invariant of the queue's fields, the goroutines' control states and the
\* counters (derivedObservabilityQueue); the channel and the batch keep their bounds.
BufferTypes ==
    /\ jobs \in Seq(Requests) /\ Len(jobs) <= QueueSize
    /\ batch \in Seq(Requests) /\ Len(batch) <= MaxBatch
    /\ accepted \in Seq(Requests) /\ delivered \in Seq(Requests)
ControlTypes ==
    /\ rpc \in [Requests -> RequestStates]
    /\ stopping \in BOOLEAN /\ stopPc \in {"none", "waiting", "done"}
    /\ wpc \in WorkerStates
    /\ err \in {"none", "resolve", "event"}
CounterTypes ==
    /\ size \in Nat /\ elapsed \in Nat /\ atJob \in Nat /\ atEvent \in Nat
    /\ dropped \in Nat /\ processed \in Nat /\ failed \in Nat
TypeOK == BufferTypes /\ ControlTypes /\ CounterTypes

\* No job the channel took is lost, duplicated or overtaken between the sends of
\* concurrent requests, coalescing, emitting and closing.
Conservation == accepted = delivered \o batch \o jobs

\* close(q.jobs) never races a send: with the channel closed, no request stands
\* between its test of stopping and its send (a send would panic).
NoSendOnClosed == stopping => \A r \in Requests : rpc[r] # "send"

\* The worker that ends after stop has handled everything that was accepted.
DrainedAtEnd == wpc = "done" => delivered = accepted

\* The inductive invariant behind these three (ObservabilityQueueProofs).
IdleWorkerHoldsNothing == wpc \in {"off", "receive", "done"} <=> batch = <<>>
QueueInv ==
    /\ Conservation
    /\ NoSendOnClosed
    /\ stopping => stopPc = "done"
    /\ IdleWorkerHoldsNothing
    /\ wpc = "done" => stopping /\ jobs = <<>>

\* Events reach the ingest service in the order their jobs were accepted, each
\* at most once, whatever fails or expires in between (emitDerivedObservability).
Rank(e) == CHOOSE k \in 1..Len(accepted) : accepted[k] = e.job
Before(e, f) == Rank(e) < Rank(f) \/ (e.job = f.job /\ e.n < f.n)
IngestedInOrder ==
    \A i, j \in 1..Len(ingested) : i < j => Before(ingested[i], ingested[j])

\* Every accepted job is emitted and accounted (run, coalesce, emitBatch).
EventuallyDelivered ==
    WorkerRuns => \A r \in Requests :
        rpc[r] = "accepted" ~> \E k \in 1..Len(delivered) : delivered[k] = r

\* After stop a worker that was started drains the channel and ends.
WorkerEnds == WorkerRuns => (stopping /\ wpc # "off") ~> wpc = "done"

\* enqueue never waits for the emit: a request that began to enqueue is answered
\* even if the worker never takes another step.
EnqueueReturns ==
    \A r \in Requests : rpc[r] \in {"lock", "send"} ~> rpc[r] \in {"accepted", "dropped", "refused"}

\* The queue implements BestEffortFifo: what is pending there is the batch being
\* emitted followed by the channel's buffer.
Fifo == INSTANCE BestEffortFifo WITH
    Offers <- Requests,
    Empty <- {r \in Requests : Load[r] = 0},
    Room <- QueueSize,
    Capacity <- QueueSize + MaxBatch,
    answer <- [r \in Requests |-> IF rpc[r] \in {"idle", "lock", "send"} THEN "none" ELSE rpc[r]],
    pending <- batch \o jobs,
    handled <- delivered,
    closed <- stopping

ImplementsFifo == Fifo!FifoSpec
=============================================================================
