--------------------------- MODULE BestEffortFifo ---------------------------
(***************************************************************************)
(* What the derived-observability queue promises its callers, without its  *)
(* goroutines, locks and deadlines: every offer gets one answer, a full    *)
(* queue drops, a closed one refuses, and what was accepted is handled     *)
(* once, in the order of acceptance, by prefixes of what is pending.       *)
(***************************************************************************)
EXTENDS Naturals, Sequences

CONSTANTS
    Offers,     \* what may be offered, each once
    Empty,      \* the offers that hold nothing and are ignored
    Room,       \* an offer may be dropped only when this many are pending
    Capacity    \* most offers pending at once

VARIABLES answer, pending, handled, closed
fifoVars == <<answer, pending, handled, closed>>

Answers == {"none", "ignored", "accepted", "dropped", "refused"}

Init ==
    /\ answer = [o \in Offers |-> "none"]
    /\ pending = <<>> /\ handled = <<>>
    /\ closed = FALSE

Answer(o, a) == answer[o] = "none" /\ answer' = [answer EXCEPT ![o] = a]

Ignore(o) == Answer(o, "ignored") /\ o \in Empty /\ UNCHANGED <<pending, handled, closed>>

Accept(o) ==
    /\ ~closed /\ Len(pending) < Capacity
    /\ Answer(o, "accepted")
    /\ pending' = Append(pending, o)
    /\ UNCHANGED <<handled, closed>>

Drop(o) ==
    /\ ~closed /\ Len(pending) >= Room
    /\ Answer(o, "dropped")
    /\ UNCHANGED <<pending, handled, closed>>

Refuse(o) == closed /\ Answer(o, "refused") /\ UNCHANGED <<pending, handled, closed>>

Close == ~closed /\ closed' = TRUE /\ UNCHANGED <<answer, pending, handled>>

\* A prefix of what is pending is handled.
Handle ==
    /\ \E n \in 1..Len(pending) :
          /\ handled' = handled \o SubSeq(pending, 1, n)
          /\ pending' = SubSeq(pending, n + 1, Len(pending))
    /\ UNCHANGED <<answer, closed>>

Next ==
    \/ \E o \in Offers : Ignore(o) \/ Accept(o) \/ Drop(o) \/ Refuse(o)
    \/ Close \/ Handle

FifoSpec == Init /\ [][Next]_fifoVars
=============================================================================
