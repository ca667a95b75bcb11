--------------------------- MODULE MCProcessState ---------------------------
(* Instances for TLC of what the requests of one process share, in two      *)
(* parts: in ObservabilityQueue four requests, one of them with nothing to  *)
(* emit; in ConnPool as many saves as the pool has connections, a task      *)
(* board and a read.                                                        *)
EXTENDS ObservabilityQueue, ConnPool, TLC

CONSTANTS q1, q2, q3, q4, s1, s2, b1, g1

MCLoad == [r \in Requests |-> CASE r = q4 -> 0 [] r = q2 -> 1 [] OTHER -> 2]
MCKind == (s1 :> "save") @@ (s2 :> "save") @@ (b1 :> "board") @@ (g1 :> "read")

VARIABLE part

MCInit == part \in {"queue", "pool"} /\ Init /\ PoolInit
MCNext ==
    \/ part = "queue" /\ Next /\ UNCHANGED <<part, poolVars>>
    \/ part = "pool" /\ PoolNext /\ UNCHANGED <<part, vars>>

\* The fairness of FairSpec and of PoolFairSpec, each in its part.
QueueFairness ==
    /\ \A r \in Requests : WF_vars(part = "queue" /\ (ReadLock(r) \/ Send(r)))
    /\ WF_vars(part = "queue" /\ StopClose)
PoolFairness ==
    \A r \in Handlers :
        /\ WF_poolVars(part = "pool" /\ Ask(r))
        /\ WF_poolVars(part = "pool" /\ Grant(r))
        /\ WF_poolVars(part = "pool" /\ Done(r))
        /\ WF_poolVars(part = "pool" /\ Release(r))
        /\ WF_poolVars(part = "pool" /\ Cancel(r))
MCSpec == MCInit /\ [][MCNext]_<<part, vars, poolVars>> /\ QueueFairness /\ PoolFairness
=============================================================================
