--------------------------- MODULE SessionVersion ---------------------------
(***************************************************************************)
(* The role in a browser session (cmd/server/loginPostHandler.go,          *)
(* loadUserFromDb.go) and the session versions that end it when the role   *)
(* changes (internal/db/SessionSecurity.go, sessionVersionMiddleware.go,   *)
(* handleAccessControl.go, HandleSave.go).                                 *)
(*                                                                         *)
(* A login reads the role first and the version later.  A change of the    *)
(* tables commits first and bumps versions later, in statements of their   *)
(* own.  Left out: assignments for one app, the names and priorities of    *)
(* roles, agents, whose sessions have no version, and what AdminGuard      *)
(* models: the revocations that are refused.                               *)
(***************************************************************************)
EXTENDS Naturals, Sequences

CONSTANTS
    Users, Roles, Groups,
    Rank,        \* a role's priority, and among equals its name
    Viewer,      \* the role of a user without one
    Browsers,
    Writers,     \* requests that change who has which role
    Assigned, Members, GroupRoles, Inherits,  \* the tables it starts with
    MaxCommits   \* bound: changes of the tables

\* chk_role_inheritance_not_self.
Pairs == {e \in Roles \X Roles : e[1] # e[2]}

ASSUME SessionAssumption ==
    /\ Rank \in [Roles -> Nat]
    /\ Viewer \notin Roles
    /\ Assigned \subseteq Users \X Roles /\ Members \subseteq Users \X Groups
    /\ GroupRoles \subseteq Groups \X Roles /\ Inherits \subseteq Pairs
    /\ MaxCommits \in Nat

VARIABLES
    direct,     \* _user_role
    member,     \* _group_membership
    groupRole,  \* _group_role
    inherits,   \* _role_inheritance: <<role, role it inherits>>
    version,    \* _user_security_state; 0 without a row
    login,      \* each browser's login under way
    cookie,     \* its session; raced: the role changed while the login ran
    writer,     \* each writer: the bumps still to come
    commits,    \* bound: the changes of the tables so far
    gap         \* history: users whose roles changed without a bump to come

tables == <<direct, member, groupRole, inherits>>
vars == <<tables, commits, version, login, cookie, writer, gap>>

Names == Roles \cup {Viewer}
NoLogin == [step |-> "idle"]
Logins == {NoLogin} \cup [step : {"version"}, user : Users, role : Names, raced : BOOLEAN]
NoCookie == [version |-> 0]
Cookies == {NoCookie} \cup [user : Users, role : Names, version : Nat \ {0}, raced : BOOLEAN]
UserBump(u) == [of |-> "user", id |-> u]
RoleBump(r) == [of |-> "role", id |-> r]
Bumps == {UserBump(u) : u \in Users} \cup {RoleBump(r) : r \in Roles}

-----------------------------------------------------------------------------
(* Roles.                                                                  *)

\* seed_roles and effective_roles: the recursion is the least closed set.
Seeds(u) == {r \in Roles : \/ <<u, r>> \in direct
                           \/ \E g \in Groups : <<u, g>> \in member /\ <<g, r>> \in groupRole}
Closed(T, h) == \A e \in h : e[1] \in T => e[2] \in T
ClosedOver(R, h) == {T \in SUBSET Roles : R \subseteq T /\ Closed(T, h)}
Effective(R, h) == {r \in Roles : \A T \in ClosedOver(R, h) : r \in T}
RolesOf(u) == Effective(Seeds(u), inherits)

\* effectivePrimaryUserRoleNameQuery.
First(R) == {r \in R : \A q \in R : Rank[r] <= Rank[q]}
Best(R) == IF First(R) = {} THEN Viewer ELSE CHOOSE r \in First(R) : TRUE
Primary(u) == Best(RolesOf(u))

\* impactedUserIDsForRoleCTE goes the other way: the roles that inherit r.
ClosedUp(T, h) == \A e \in h : e[2] \in T => e[1] \in T
Impacting(r, h) == {x \in Roles : \A T \in SUBSET Roles : r \in T /\ ClosedUp(T, h) => x \in T}
Impacted(r) == {u \in Users : Seeds(u) \cap Impacting(r, inherits) # {}}

Who(bump) == IF bump.of = "user" THEN {bump.id} ELSE Impacted(bump.id)
Covered(u) == \E w \in Writers : \E i \in DOMAIN writer[w] : u \in Who(writer[w][i])

-----------------------------------------------------------------------------
Init ==
    /\ direct = Assigned /\ member = Members /\ groupRole = GroupRoles /\ inherits = Inherits
    /\ version = [u \in Users |-> 0] /\ commits = 0
    /\ login = [b \in Browsers |-> NoLogin]
    /\ cookie = [b \in Browsers |-> NoCookie]
    /\ writer = [w \in Writers |-> <<>>]
    /\ gap = {}

-----------------------------------------------------------------------------
(* Browsers.                                                               *)

\* loadUserFromDB, before the password is compared.
LoginRole(b, u) ==
    /\ login[b] = NoLogin
    /\ login' = [login EXCEPT ![b] = [step |-> "version", user |-> u, role |-> Primary(u), raced |-> FALSE]]
    /\ UNCHANGED <<tables, commits, version, cookie, writer, gap>>

\* A wrong password, which ends the session before it as well.
LoginFails(b) ==
    /\ login[b] # NoLogin
    /\ login' = [login EXCEPT ![b] = NoLogin]
    /\ cookie' = [cookie EXCEPT ![b] = NoCookie]
    /\ UNCHANGED <<tables, commits, version, writer, gap>>

\* The version cannot be read: an error page.
LoginAborts(b) ==
    /\ login[b] # NoLogin
    /\ login' = [login EXCEPT ![b] = NoLogin]
    /\ UNCHANGED <<tables, commits, version, cookie, writer, gap>>

\* GetOrInitUserSessionVersion, and the new cookie.
LoginVersion(b) ==
    LET l == login[b]
        v == IF version[l.user] = 0 THEN 1 ELSE version[l.user]
    IN /\ l # NoLogin
       /\ version' = [version EXCEPT ![l.user] = v]
       /\ cookie' = [cookie EXCEPT ![b] = [user |-> l.user, role |-> l.role, version |-> v, raced |-> l.raced]]
       /\ login' = [login EXCEPT ![b] = NoLogin]
       /\ UNCHANGED <<tables, commits, writer, gap>>

\* requireFreshSession lets a request through, or ends the session.
Valid(b) == cookie[b] # NoCookie /\ cookie[b].version = version[cookie[b].user]
ForceLogin(b) ==
    /\ cookie[b] # NoCookie /\ ~Valid(b)
    /\ cookie' = [cookie EXCEPT ![b] = NoCookie]
    /\ UNCHANGED <<tables, commits, version, login, writer, gap>>

\* A logout, or the cookie's age.
Forget(b) ==
    /\ cookie[b] # NoCookie
    /\ cookie' = [cookie EXCEPT ![b] = NoCookie]
    /\ UNCHANGED <<tables, commits, version, login, writer, gap>>

-----------------------------------------------------------------------------
(* Writers.                                                                *)

\* A login under way has read a role that the commit changes.
Raced ==
    LET changed == {u \in Users : Primary(u)' # Primary(u)}
    IN login' = [b \in Browsers |-> IF login[b] # NoLogin /\ login[b].user \in changed
                                     THEN [login[b] EXCEPT !.raced = TRUE] ELSE login[b]]

CanCommit == commits < MaxCommits

Commit(w, due) ==
    /\ commits' = commits + 1
    /\ writer' = [writer EXCEPT ![w] = due]
    /\ Raced
    /\ UNCHANGED <<version, cookie>>

\* handleGrantUserRole, handleRevokeUserRole.
GrantUserRole(w, u, r) ==
    /\ direct' = direct \cup {<<u, r>>} /\ UNCHANGED <<member, groupRole, inherits>>
    /\ Commit(w, <<UserBump(u)>>) /\ UNCHANGED gap
RevokeUserRole(w, u, r) ==
    /\ direct' = direct \ {<<u, r>>} /\ UNCHANGED <<member, groupRole, inherits>>
    /\ Commit(w, <<UserBump(u)>>) /\ UNCHANGED gap

\* handleGrantRolePermission, handleRevokeRolePermission: no role changes.
ChangePermission(w, r) ==
    /\ UNCHANGED tables
    /\ Commit(w, <<RoleBump(r)>>) /\ UNCHANGED gap

\* HandleSave of a record, a row that is inserted or becomes another one, with
\* applyAuthzSaveSideEffects.
Moved(rows, old, new) == old \in rows /\ new \notin rows \ {old}
InsertUserRole(w, u, r) ==
    /\ <<u, r>> \notin direct
    /\ direct' = direct \cup {<<u, r>>} /\ UNCHANGED <<member, groupRole, inherits>>
    /\ Commit(w, <<UserBump(u)>>) /\ UNCHANGED gap
MoveUserRoleThen(w, old, new, due) ==
    /\ Moved(direct, old, new)
    /\ direct' = (direct \ {old}) \cup {new} /\ UNCHANGED <<member, groupRole, inherits>>
    /\ Commit(w, due) /\ UNCHANGED gap
MoveUserRoleNew(w, old, new) == MoveUserRoleThen(w, old, new, <<UserBump(new[1])>>)  \* mutant: the old user is forgotten
MoveUserRole(w, old, new) == MoveUserRoleThen(w, old, new, <<UserBump(old[1]), UserBump(new[1])>>)

InsertMember(w, u, g) ==
    /\ <<u, g>> \notin member
    /\ member' = member \cup {<<u, g>>} /\ UNCHANGED <<direct, groupRole, inherits>>
    /\ Commit(w, <<UserBump(u)>>) /\ UNCHANGED gap
MoveMember(w, old, new) ==
    /\ Moved(member, old, new)
    /\ member' = (member \ {old}) \cup {new} /\ UNCHANGED <<direct, groupRole, inherits>>
    /\ Commit(w, <<UserBump(old[1]), UserBump(new[1])>>) /\ UNCHANGED gap

\* The users of a role are looked up when its bump runs, in the new tables: the
\* members of a group that lost the row to another group are not among them.
InsertGroupRole(w, g, r) ==
    /\ <<g, r>> \notin groupRole
    /\ groupRole' = groupRole \cup {<<g, r>>} /\ UNCHANGED <<direct, member, inherits>>
    /\ Commit(w, <<RoleBump(r)>>) /\ UNCHANGED gap
MembersOf(g) == {u \in Users : <<u, g>> \in member}
MoveGroupRole(w, old, new) ==
    /\ Moved(groupRole, old, new)
    /\ groupRole' = (groupRole \ {old}) \cup {new} /\ UNCHANGED <<direct, member, inherits>>
    /\ Commit(w, <<RoleBump(old[2]), RoleBump(new[2])>>)
    /\ gap' = IF old[1] = new[1] THEN gap ELSE gap \cup MembersOf(old[1])

InsertInheritance(w, e) ==
    /\ e \notin inherits
    /\ inherits' = inherits \cup {e} /\ UNCHANGED <<direct, member, groupRole>>
    /\ Commit(w, <<RoleBump(e[1])>>) /\ UNCHANGED gap
MoveInheritance(w, old, new) ==
    /\ Moved(inherits, old, new)
    /\ inherits' = (inherits \ {old}) \cup {new} /\ UNCHANGED <<direct, member, groupRole>>
    /\ Commit(w, <<RoleBump(old[1]), RoleBump(new[1])>>) /\ UNCHANGED gap

\* A bulk update of such a table bumps nothing.
BulkUpdate ==
    /\ CanCommit
    /\ \/ \E old, new \in Users \X Roles :
            /\ Moved(direct, old, new) /\ direct' = (direct \ {old}) \cup {new}
            /\ UNCHANGED <<member, groupRole, inherits>>
       \/ \E old, new \in Users \X Groups :
            /\ Moved(member, old, new) /\ member' = (member \ {old}) \cup {new}
            /\ UNCHANGED <<direct, groupRole, inherits>>
       \/ \E old, new \in Groups \X Roles :
            /\ Moved(groupRole, old, new) /\ groupRole' = (groupRole \ {old}) \cup {new}
            /\ UNCHANGED <<direct, member, inherits>>
       \/ \E old, new \in Pairs :
            /\ Moved(inherits, old, new) /\ inherits' = (inherits \ {old}) \cup {new}
            /\ UNCHANGED <<direct, member, groupRole>>
    /\ gap' = gap \cup {u \in Users : RolesOf(u)' # RolesOf(u)}
    /\ Raced /\ commits' = commits + 1
    /\ UNCHANGED <<version, cookie, writer>>

\* BumpUserSessionVersion, BumpSessionVersionForRole: the next one.
BumpTo(w, next) ==
    /\ writer[w] # <<>>
    /\ version' = [u \in Users |-> IF u \in Who(Head(writer[w])) THEN next[u] ELSE version[u]]
    /\ writer' = [writer EXCEPT ![w] = Tail(@)]
    /\ gap' = gap \ Who(Head(writer[w]))
    /\ UNCHANGED <<tables, commits, login, cookie>>
Increased == [u \in Users |-> IF version[u] = 0 THEN 2 ELSE version[u] + 1]
BumpOnce(w) == Len(writer[w]) = 1 /\ BumpTo(w, Increased)  \* mutant: gives up when there are two
Bump(w) == BumpTo(w, Increased)

\* The statement fails: an error page, or a line in the log and the next one.
BumpFails(w) ==
    /\ writer[w] # <<>>
    /\ writer' = [writer EXCEPT ![w] = Tail(@)]
    /\ gap' = gap \cup Who(Head(writer[w]))
    /\ UNCHANGED <<tables, commits, version, login, cookie>>

\* The server stops: cookies stay, since the session keys are configured.
Restart ==
    /\ login' = [b \in Browsers |-> NoLogin]
    /\ writer' = [w \in Writers |-> <<>>]
    /\ gap' = gap \cup {u \in Users : Covered(u)}
    /\ UNCHANGED <<tables, commits, version, cookie>>

-----------------------------------------------------------------------------
Browser(b) == \/ \E u \in Users : LoginRole(b, u)
              \/ LoginFails(b) \/ LoginAborts(b) \/ LoginVersion(b) \/ ForceLogin(b) \/ Forget(b)
Access(w) == \/ \E u \in Users, r \in Roles : GrantUserRole(w, u, r) \/ RevokeUserRole(w, u, r)
             \/ \E r \in Roles : ChangePermission(w, r)
Save(w) == \/ \E u \in Users, r \in Roles : InsertUserRole(w, u, r)
           \/ \E old, new \in Users \X Roles : MoveUserRole(w, old, new)
           \/ \E u \in Users, g \in Groups : InsertMember(w, u, g)
           \/ \E old, new \in Users \X Groups : MoveMember(w, old, new)
           \/ \E g \in Groups, r \in Roles : InsertGroupRole(w, g, r)
           \/ \E old, new \in Groups \X Roles : MoveGroupRole(w, old, new)
           \/ \E e \in Pairs : InsertInheritance(w, e)
           \/ \E old, new \in Pairs : MoveInheritance(w, old, new)
Next == \/ \E b \in Browsers : Browser(b)
        \/ \E w \in Writers : /\ CanCommit /\ writer[w] = <<>>
                              /\ Access(w) \/ Save(w)
        \/ \E w \in Writers : Bump(w) \/ BumpFails(w)
        \/ BulkUpdate \/ Restart

Spec == Init /\ [][Next]_vars

\* A request that has committed goes on to its bumps.
FairSpec == Spec /\ \A w \in Writers : WF_vars(Bump(w))

-----------------------------------------------------------------------------
(* Properties.                                                             *)

\* Type invariant: the tables, the versions and the sessions.
TypeOK ==
    /\ direct \subseteq Users \X Roles /\ member \subseteq Users \X Groups
    /\ groupRole \subseteq Groups \X Roles /\ inherits \subseteq Pairs
    /\ version \in [Users -> Nat]
    /\ login \in [Browsers -> Logins] /\ cookie \in [Browsers -> Cookies]
    /\ \A b \in Browsers : cookie[b] # NoCookie => cookie[b].version <= version[cookie[b].user]
    /\ writer \in [Writers -> Seq(Bumps)]
    /\ gap \subseteq Users /\ commits \in 0 .. MaxCommits

\* A session that is let through carries a role its user does not have only
\* while the bump of the change is still to come, if the change committed
\* between the two reads of the login, or if no bump of the change reached the
\* user: a bulk update, a group's role that moved to another group, a failed
\* bump or a crash (requireFreshSession, applyAuthzSaveSideEffects,
\* loginPostHandler).
Excused(b) == Covered(cookie[b].user) \/ cookie[b].raced \/ cookie[b].user \in gap
RoleExplained == \A b \in Browsers : Valid(b) => cookie[b].role = Primary(cookie[b].user) \/ Excused(b)

\* A session that a bump has ended never becomes valid again: versions are not
\* used twice (BumpUserSessionVersion, GetOrInitUserSessionVersion).
NeverRevived ==
    [][\A b \in Browsers :
          cookie[b] # NoCookie /\ cookie'[b] = cookie[b] /\ ~Valid(b) => ~Valid(b)']_vars

\* A session whose role is outdated does not stay valid, with the exceptions of
\* RoleExplained that no bump is to come for.
Outdated(b) == Valid(b) /\ cookie[b].role # Primary(cookie[b].user)
OutdatedEnds ==
    \A b \in Browsers :
        Outdated(b) ~> (~Outdated(b) \/ cookie[b].raced \/ cookie[b].user \in gap)
=============================================================================
