--------------------------- MODULE MCSessionVersion ---------------------------
(***************************************************************************)
(* What a signed-in user's requests and streams hold, for TLC: sessions,   *)
(* and the streams of one record.  The two share no state; `part` says     *)
(* which of them moves in a behaviour, so that one run explores both       *)
(* without their product.                                                  *)
(***************************************************************************)
EXTENDS SessionVersion

CONSTANTS u1, u2, admin, operator, g1, g2, b1, w1

\* 040_group_authz.sql and the bootstrap: u1 is the administrator.  A group has
\* been made since, and u2 is an operator through it.
FirstAdmin == {<<u1, admin>>}
FirstMember == {<<u2, g1>>}
FirstGroupRole == {<<g1, operator>>}
SeededInheritance == {<<admin, operator>>}
Priorities == [r \in Roles |-> IF r = admin THEN 1 ELSE 2]

VARIABLES
    part,                                                           \* "session" or "hub"
    here, status, stale, sender, stream, queue, view, behind, missed    \* the hub's
hub == <<here, status, stale, sender, stream, queue, view, behind, missed>>

\* A tab, a save, the janitor and a page, with a buffer of one event.
CONSTANTS c1, Clients, Savers, Viewers, UserOf, Janitor, Capacity
ASSUME HubAssumption == UserOf \in [Clients -> Users]
OneUser == [c \in Clients |-> u1]
Hub == INSTANCE PresenceHub

MCInit == Init /\ Hub!Init /\ part \in {"session", "hub"}
MCNext ==
    \/ part = "session" /\ Next /\ UNCHANGED <<part, hub>>
    \/ part = "hub" /\ Hub!Next /\ UNCHANGED <<part, vars>>
\* SessionVersion's fairness; the hub's properties need none.
MCSpec == MCInit /\ [][MCNext]_<<part, vars, hub>> /\ \A w \in Writers : WF_vars(Bump(w))

\* When nothing is under way to a page it shows who is there, unless its newest
\* snapshot was dropped, overtaken or never sent (broadcast; see PresenceHub).
PresenceAccurate == Hub!PresenceAccurate
=============================================================================
