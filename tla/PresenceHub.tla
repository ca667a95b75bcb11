----------------------------- MODULE PresenceHub -----------------------------
(***************************************************************************)
(* The realtime hub (internal/realtime/hub.go) for one record: who has it  *)
(* open (presence), the streams that tell every page of the record about   *)
(* it (cmd/server/handleRealtime.go) and the tabs that send heartbeats     *)
(* (web/templates/form-view.html).                                         *)
(*                                                                         *)
(* A snapshot of the presence entries is taken under the hub's lock and    *)
(* broadcast after it is released, subscriber by subscriber, into buffers  *)
(* that drop when they are full.                                           *)
(***************************************************************************)
EXTENDS Naturals, Sequences

CONSTANTS
    Clients,    \* browser tabs, each with one heartbeat at a time
    Users,      \* the people at the tabs
    UserOf,     \* whose tab it is
    Savers,     \* requests that save the record
    Viewers,    \* pages with an event stream
    Janitor,    \* the goroutine of runJanitor
    Capacity    \* the buffer of a subscription, 12 in the code

VARIABLES
    here,       \* tabs that are visible, or whose last heartbeat is on its way
    status,     \* presenceByKey of the record: "none", "viewing", "editing"
    stale,      \* entries last seen longer than presenceTTL ago
    sender,     \* each goroutine with an event: step, event, subscribers to go
    stream,     \* each page's stream: "closed", "subscribed", "live"
    queue,      \* the buffer of its subscription
    view,       \* the presence list the page shows
    behind,     \* history: senders whose snapshot the entries have outrun
    missed      \* history: pages that lost, or got too late, the newest snapshot

vars == <<here, status, stale, sender, stream, queue, view, behind, missed>>

Senders == Clients \cup Savers \cup {Janitor}
Snapshots == SUBSET (Users \X {"viewing", "editing"})
Events == [type : {"record.changed", "presence.updated"}, presence : Snapshots]
Changed == [type |-> "record.changed", presence |-> {}]
Update(lines) == [type |-> "presence.updated", presence |-> lines]
Idle == [pc |-> "idle", event |-> Changed, to |-> {}]
Busy == {x \in Senders : sender[x].pc # "idle"}
Subscribed == {v \in Viewers : stream[v] # "closed"}

\* snapshotFromEntries: one line per user, "editing" when one of the tabs is.
Lines(entries, old) ==
    LET fresh == {c \in Clients : entries[c] # "none" /\ c \notin old}
        EditedBy(u) == \E c \in fresh : UserOf[c] = u /\ entries[c] = "editing"
    IN {<<UserOf[c], IF EditedBy(UserOf[c]) THEN "editing" ELSE "viewing">> : c \in fresh}

Init ==
    /\ here = {} /\ stale = {} /\ behind = {} /\ missed = {}
    /\ status = [c \in Clients |-> "none"]
    /\ sender = [x \in Senders |-> Idle]
    /\ stream = [v \in Viewers |-> "closed"]
    /\ queue = [v \in Viewers |-> <<>>]
    /\ view = [v \in Viewers |-> {}]

-----------------------------------------------------------------------------
(* The entries.                                                            *)

\* Goroutine x is about to broadcast the event; snapshots under way are older.
Broadcasting(x, event) ==
    /\ sender' = [sender EXCEPT ![x] = [pc |-> "copy", event |-> event, to |-> {}]]
    /\ behind' = IF event = Changed THEN behind ELSE Busy

\* A tab is opened, shown, hidden or closed; a hidden one sends no heartbeat.
Come(c) ==
    /\ c \notin here /\ here' = here \cup {c}
    /\ UNCHANGED <<status, stale, sender, stream, queue, view, behind, missed>>
Go(c) ==
    /\ c \in here /\ here' = here \ {c}
    /\ UNCHANGED <<status, stale, sender, stream, queue, view, behind, missed>>

\* UpsertPresence: the entry is written; a broadcast follows if it is new or
\* changed, but not if it only was stale.
HeartbeatIf(c, s, changed) ==
    /\ c \in here /\ sender[c].pc = "idle"
    /\ status' = [status EXCEPT ![c] = s]
    /\ stale' = stale \ {c}
    /\ IF changed THEN Broadcasting(c, Update(Lines(status', stale'))) /\ UNCHANGED missed
       ELSE /\ missed' = IF c \in stale THEN Subscribed ELSE missed
            /\ behind' = IF c \in stale THEN Busy ELSE behind
            /\ UNCHANGED sender
    /\ UNCHANGED <<here, stream, queue, view>>

Heartbeat(c, s) == HeartbeatIf(c, s, status[c] # s)

\* presenceTTL passes without a heartbeat.
Age(c) ==
    /\ status[c] # "none" /\ c \notin stale
    /\ stale' = stale \cup {c}
    /\ UNCHANGED <<here, status, sender, stream, queue, view, behind, missed>>

CleanUp(lines) ==
    /\ stale # {} /\ sender[Janitor].pc = "idle"
    /\ status' = [c \in Clients |-> IF c \in stale THEN "none" ELSE status[c]]
    /\ stale' = {}
    /\ Broadcasting(Janitor, Update(lines))
    /\ UNCHANGED <<here, stream, queue, view, missed>>

CleanupBefore == CleanUp(Lines(status, {}))          \* mutant: snapshot before the deletes
\* cleanupStalePresence, on every tick of runJanitor.
CleanupStalePresence == CleanUp(Lines(status, stale))

\* PublishRecordChange.
PublishRecordChange(x) ==
    /\ sender[x].pc = "idle"
    /\ Broadcasting(x, Changed)
    /\ UNCHANGED <<here, status, stale, stream, queue, view, missed>>

-----------------------------------------------------------------------------
(* The broadcast.                                                          *)

Advance(x, left) == [sender EXCEPT ![x] = IF left = {} THEN Idle ELSE [@ EXCEPT !.pc = "send", !.to = left]]

\* The subscriptions are copied under the read lock.
Copy(x) ==
    /\ sender[x].pc = "copy"
    /\ sender' = Advance(x, Subscribed)
    /\ behind' = IF Subscribed = {} THEN behind \ {x} ELSE behind
    /\ UNCHANGED <<here, status, stale, stream, queue, view, missed>>

SendIf(x, v, fits) ==
    /\ sender[x].pc = "send" /\ v \in sender[x].to
    /\ queue' = IF fits THEN [queue EXCEPT ![v] = Append(@, sender[x].event)] ELSE queue
    /\ missed' = IF sender[x].event = Changed THEN missed
                 ELSE IF (x \in behind) = fits THEN missed \cup {v}
                 ELSE IF fits THEN missed \ {v} ELSE missed
    /\ sender' = Advance(x, sender[x].to \ {v})
    /\ behind' = IF sender[x].to = {v} THEN behind \ {x} ELSE behind
    /\ UNCHANGED <<here, status, stale, stream, view>>

Fits(v) == Len(queue[v]) < Capacity
\* The send of one subscription, dropped when its buffer is full.
Send(x, v) == SendIf(x, v, Fits(v))

-----------------------------------------------------------------------------
(* The streams.                                                            *)

\* handleRealtimeStream subscribes first,
Subscribe(v) ==
    /\ stream[v] = "closed"
    /\ stream' = [stream EXCEPT ![v] = "subscribed"]
    /\ queue' = [queue EXCEPT ![v] = <<>>]
    /\ missed' = missed \ {v}
    /\ UNCHANGED <<here, status, stale, sender, view, behind>>

\* then writes PresenceSnapshot,
First(v) ==
    /\ stream[v] = "subscribed"
    /\ stream' = [stream EXCEPT ![v] = "live"]
    /\ view' = [view EXCEPT ![v] = Lines(status, stale)]
    /\ UNCHANGED <<here, status, stale, sender, queue, behind, missed>>

\* then what comes through the channel.
Deliver(v) ==
    /\ stream[v] = "live" /\ queue[v] # <<>>
    /\ queue' = [queue EXCEPT ![v] = Tail(@)]
    /\ view' = IF Head(queue[v]) = Changed THEN view
              ELSE [view EXCEPT ![v] = Head(queue[v]).presence]
    /\ UNCHANGED <<here, status, stale, sender, stream, behind, missed>>

\* The page or the connection goes; sends to the old channel reach nobody.
Disconnect(v) ==
    /\ stream[v] # "closed"
    /\ stream' = [stream EXCEPT ![v] = "closed"]
    /\ queue' = [queue EXCEPT ![v] = <<>>]
    /\ sender' = [x \in Senders |->
                    IF sender[x].pc = "send" /\ sender[x].to = {v} THEN Idle
                    ELSE [sender[x] EXCEPT !.to = @ \ {v}]]
    /\ behind' = {x \in behind : sender'[x].pc # "idle"}
    /\ UNCHANGED <<here, status, stale, view, missed>>

-----------------------------------------------------------------------------
Tab(c) == Come(c) \/ Go(c) \/ Age(c) \/ \E s \in {"viewing", "editing"} : Heartbeat(c, s)
Goroutine(x) == Copy(x) \/ \E v \in Viewers : Send(x, v)
Page(v) == Subscribe(v) \/ First(v) \/ Deliver(v) \/ Disconnect(v)
Next == \/ \E c \in Clients : Tab(c)
        \/ CleanupStalePresence
        \/ \E x \in Savers : PublishRecordChange(x)
        \/ \E x \in Senders : Goroutine(x)
        \/ \E v \in Viewers : Page(v)

Spec == Init /\ [][Next]_vars

-----------------------------------------------------------------------------
(* Properties.                                                             *)

\* Type invariant: entries, goroutines, streams and buffers of the hub.
TypeOK ==
    /\ here \subseteq Clients /\ stale \subseteq Clients
    /\ status \in [Clients -> {"none", "viewing", "editing"}]
    /\ \A c \in stale : status[c] # "none"
    /\ sender \in [Senders -> [pc : {"idle", "copy", "send"}, event : Events, to : SUBSET Viewers]]
    /\ \A x \in Senders : /\ sender[x].pc = "send" => sender[x].to # {}
                          /\ sender[x].to \subseteq Subscribed
    /\ stream \in [Viewers -> {"closed", "subscribed", "live"}]
    /\ queue \in [Viewers -> Seq(Events)]
    /\ \A v \in Viewers : Len(queue[v]) <= Capacity
    /\ view \in [Viewers -> Snapshots]
    /\ behind \subseteq Busy /\ missed \subseteq Viewers

\* When nothing is under way to a page, it shows who is there, unless the
\* newest snapshot was dropped at its full buffer, was overtaken by an older
\* one, or was never sent because a stale entry came back unchanged
\* (UpsertPresence, broadcast, handleRealtimeStream).
Settled(v) == stream[v] = "live" /\ queue[v] = <<>> /\ stale = {} /\ Busy = {}
PresenceAccurate ==
    \A v \in Viewers : Settled(v) /\ v \notin missed => view[v] = Lines(status, stale)

=============================================================================
