----------------------------- MODULE AuthzCache -----------------------------
(***************************************************************************)
(* The cache of permission answers (internal/db/AuthzQueries.go) and the   *)
(* writers that have to invalidate it (AuthzAdmin.go, HandleSave.go and    *)
(* cmd/server/handleBulkUpdate.go).                                        *)
(*                                                                         *)
(* One permission and one role that may carry it: a user has the           *)
(* permission through an assignment or a group.  A reader looks into the   *)
(* cache, asks the database and stores the answer in separate steps; a     *)
(* writer changes a table first and invalidates afterwards.                *)
(***************************************************************************)
EXTENDS Integers, Sequences

CONSTANTS
    Users,
    Readers,    \* requests that ask for the permission
    Writers,    \* requests that change who has it
    TTL,        \* authzCacheTTL
    MaxClock    \* bound: the time

ASSUME CacheAssumption == TTL \in Nat \ {0} /\ MaxClock \in Nat

VARIABLES
    direct,     \* _user_role: users with the role
    member,     \* _group_membership: users in the group
    groupHas,   \* _group_role: the group has the role
    permitted,  \* _role_permission: the role has the permission
    cache,      \* authzCacheData, by user
    clock,
    reader,     \* each request that asks
    writer,     \* each writer: the sets of users still to be invalidated
    held,       \* history: when an answer was last the right one
    overtaken,  \* history: readers whose query is older than a change
    outrun      \* history: entries that such a reader stored, or bulk edits left

tables == <<direct, member, groupHas, permitted>>
cacheVars == <<direct, member, groupHas, permitted, cache, clock, reader, writer, held, overtaken, outrun>>

Answers == {"yes", "no"}
None == [allowed |-> "no", expires |-> 0]      \* no entry
Entries == [allowed : Answers, expires : Nat]
ReaderStates == [pc : {"idle", "lookup", "query", "store", "answered"}, user : Users, now : Nat, allowed : Answers]

\* The answer of the query in UserHasPermission.
Allowed(u) == IF permitted /\ (u \in direct \/ (u \in member /\ groupHas)) THEN "yes" ELSE "no"

CacheInit ==
    /\ direct = {} /\ member = {} /\ groupHas = FALSE /\ permitted = FALSE
    /\ cache = [u \in Users |-> None]
    /\ clock = 0
    /\ reader \in [Readers -> [pc : {"idle"}, user : Users, now : {0}, allowed : {"no"}]]
    /\ writer = [w \in Writers |-> <<>>]
    /\ held = [u \in Users |-> [a \in Answers |-> IF a = "no" THEN 0 ELSE -TTL]]
    /\ overtaken = {} /\ outrun = {}

-----------------------------------------------------------------------------
(* Readers: UserHasPermission.                                             *)

Step(r, new) == reader' = [reader EXCEPT ![r] = new]

Call(r, u) ==
    /\ reader[r].pc \in {"idle", "answered"}
    /\ Step(r, [pc |-> "lookup", user |-> u, now |-> clock, allowed |-> "no"])
    /\ UNCHANGED <<tables, cache, clock, writer, held, overtaken, outrun>>

Hit(r) == reader[r].now < cache[reader[r].user].expires
Lookup(r) ==
    /\ reader[r].pc = "lookup"
    /\ IF Hit(r)
       THEN Step(r, [reader[r] EXCEPT !.pc = "answered", !.allowed = cache[reader[r].user].allowed])
       ELSE Step(r, [reader[r] EXCEPT !.pc = "query"])
    /\ UNCHANGED <<tables, cache, clock, writer, held, overtaken, outrun>>

Query(r) ==
    /\ reader[r].pc = "query"
    /\ Step(r, [reader[r] EXCEPT !.pc = "store", !.allowed = Allowed(reader[r].user)])
    /\ UNCHANGED <<tables, cache, clock, writer, held, overtaken, outrun>>

\* An error of the query is returned, and nothing is stored.
QueryFails(r) ==
    /\ reader[r].pc = "query"
    /\ Step(r, [reader[r] EXCEPT !.pc = "idle"])
    /\ UNCHANGED <<tables, cache, clock, writer, held, overtaken, outrun>>

StoreUntil(r, expires) ==
    LET q == reader[r] IN
    /\ q.pc = "store"
    /\ cache' = [cache EXCEPT ![q.user] = [allowed |-> q.allowed, expires |-> expires]]
    /\ Step(r, [q EXCEPT !.pc = "answered"])
    /\ overtaken' = overtaken \ {r}
    /\ outrun' = IF r \in overtaken THEN outrun \cup {q.user} ELSE outrun \ {q.user}
    /\ UNCHANGED <<tables, clock, writer, held>>
StoreLate(r) == StoreUntil(r, clock + TTL)              \* mutant: the clock is read again
Store(r) == StoreUntil(r, reader[r].now + TTL)

-----------------------------------------------------------------------------
(* Writers.                                                                *)

\* The history after the tables have changed.
Note ==
    /\ held' = [u \in Users |-> [held[u] EXCEPT ![Allowed(u)'] = clock]]
    /\ overtaken' = overtaken \cup {r \in Readers : reader[r].pc = "store"}

\* A change is committed, and the writer goes on to its invalidations.
Change(w, due) ==
    /\ writer[w] = <<>>
    /\ writer' = [writer EXCEPT ![w] = due]
    /\ Note
    /\ UNCHANGED <<cache, clock, reader, outrun>>

\* GrantUserRole, RevokeUserRole.
GrantUserRole(w, u) ==
    /\ direct' = direct \cup {u} /\ UNCHANGED <<member, groupHas, permitted>>
    /\ Change(w, <<{u}>>)
RevokeUserRole(w, u) ==
    /\ direct' = direct \ {u} /\ UNCHANGED <<member, groupHas, permitted>>
    /\ Change(w, <<{u}>>)

\* GrantRolePermission, RevokeRolePermission.
PermissionChange(w, users) ==
    /\ permitted' \in BOOLEAN /\ UNCHANGED <<direct, member, groupHas>>
    /\ Change(w, <<users>>)
ChangeRolePermission(w) == PermissionChange(w, Users)

\* HandleSave of a record: applyAuthzSaveSideEffects empties the cache and, for
\* a row with a user, invalidates its old and its new user again.
Moved(rows, old, new) == (rows \ {old}) \cup {new}
SaveUserRole(w, old, new) ==
    /\ direct' \in {Moved(direct, old, new), direct \ {old}}
    /\ UNCHANGED <<member, groupHas, permitted>>
    /\ Change(w, <<Users, {old}, {new}>>)
SaveMembership(w, old, new) ==
    /\ member' \in {Moved(member, old, new), member \ {old}}
    /\ UNCHANGED <<direct, groupHas, permitted>>
    /\ Change(w, <<Users, {old}, {new}>>)
SaveGroupRole(w) ==
    /\ groupHas' \in BOOLEAN /\ UNCHANGED <<direct, member, permitted>>
    /\ Change(w, <<Users>>)
SaveRolePermission(w) ==
    /\ permitted' \in BOOLEAN /\ UNCHANGED <<direct, member, groupHas>>
    /\ Change(w, <<Users>>)

\* InvalidateAuthzCache, InvalidateAuthzCacheForUser.
Invalidate(w) ==
    /\ writer[w] # <<>>
    /\ cache' = [u \in Users |-> IF u \in Head(writer[w]) THEN None ELSE cache[u]]
    /\ outrun' = outrun \ Head(writer[w])
    /\ writer' = [writer EXCEPT ![w] = Tail(@)]
    /\ UNCHANGED <<tables, clock, reader, held, overtaken>>

Edited(rows) == {Moved(rows, old, new) : old, new \in Users} \cup {rows \ {old} : old \in Users}

\* The rows of a bulk update change one by one, and nothing is invalidated.
BulkUpdate ==
    /\ \/ direct' \in Edited(direct) /\ UNCHANGED <<member, groupHas, permitted>>
       \/ member' \in Edited(member) /\ UNCHANGED <<direct, groupHas, permitted>>
       \/ groupHas' = ~groupHas /\ UNCHANGED <<direct, member, permitted>>
       \/ permitted' = ~permitted /\ UNCHANGED <<direct, member, groupHas>>
    /\ Note
    /\ outrun' = outrun \cup {u \in Users : Allowed(u)' # Allowed(u)}
    /\ UNCHANGED <<cache, clock, reader, writer>>

-----------------------------------------------------------------------------
Tick ==
    /\ clock < MaxClock
    /\ clock' = clock + 1
    /\ held' = [u \in Users |-> [held[u] EXCEPT ![Allowed(u)] = clock']]
    /\ UNCHANGED <<tables, cache, reader, writer, overtaken, outrun>>

\* The server stops: requests and cache go, the tables stay.
Restart ==
    /\ cache' = [u \in Users |-> None]
    /\ reader' = [r \in Readers |-> [reader[r] EXCEPT !.pc = "idle"]]
    /\ writer' = [w \in Writers |-> <<>>]
    /\ overtaken' = {} /\ outrun' = {}
    /\ UNCHANGED <<tables, clock, held>>

Reader(r) == (\E u \in Users : Call(r, u)) \/ Lookup(r) \/ Query(r) \/ QueryFails(r) \/ Store(r)
Writer(w) == \/ \E u \in Users : GrantUserRole(w, u) \/ RevokeUserRole(w, u)
             \/ ChangeRolePermission(w)
             \/ \E old, new \in Users : SaveUserRole(w, old, new) \/ SaveMembership(w, old, new)
             \/ SaveGroupRole(w) \/ SaveRolePermission(w)
             \/ Invalidate(w)
CacheNext == (\E r \in Readers : Reader(r)) \/ (\E w \in Writers : Writer(w)) \/ BulkUpdate \/ Tick \/ Restart

CacheSpec == CacheInit /\ [][CacheNext]_cacheVars

-----------------------------------------------------------------------------
(* Properties.                                                             *)

\* Type invariant: tables, cache, requests and history; no entry outlives the
\* TTL that starts now.
CacheTypeOK ==
    /\ direct \subseteq Users /\ member \subseteq Users
    /\ groupHas \in BOOLEAN /\ permitted \in BOOLEAN
    /\ cache \in [Users -> Entries]
    /\ clock \in Nat
    /\ \A u \in Users : cache[u].expires <= clock + TTL
    /\ reader \in [Readers -> ReaderStates]
    /\ \A r \in Readers : reader[r].now <= clock
    /\ writer \in [Writers -> Seq(SUBSET Users)]
    /\ held \in [Users -> [Answers -> Int]]
    /\ \A u \in Users, a \in Answers : held[u][a] <= clock
    /\ overtaken \subseteq {r \in Readers : reader[r].pc = "store"}
    /\ outrun \subseteq Users

\* Whatever overtakes what, an answer of UserHasPermission was the right one at
\* some time since the TTL before the request (the expiry counts from the start
\* of the request that asked the database).
AnswerFresh ==
    \A r \in Readers :
        reader[r].pc = "answered" => held[reader[r].user][reader[r].allowed] + TTL > reader[r].now

\* An entry contradicts the tables only while the writer has not invalidated it
\* yet, if its reader asked before the change and stored after it, or after a
\* bulk update.
Due(u) == \E w \in Writers : \E i \in DOMAIN writer[w] : u \in writer[w][i]
CacheCoherent ==
    \A u \in Users : cache[u] # None /\ cache[u].allowed # Allowed(u) => u \in outrun \/ Due(u)
=============================================================================
