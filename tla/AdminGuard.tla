----------------------------- MODULE AdminGuard -----------------------------
(***************************************************************************)
(* Who is a global administrator (internal/db/AuthzAdmin.go and            *)
(* AuthzEffective.go), the requests that grant and revoke, with the guard  *)
(* that keeps the last administrator, and the record form, which edits the *)
(* same tables without it (internal/db/HandleSave.go).                     *)
(*                                                                         *)
(* A revocation is a chain of queries, each in a transaction of its own.   *)
(***************************************************************************)
EXTENDS FiniteSets, Naturals

CONSTANTS
    Users, Roles, Groups,
    Scopes,         \* app_id of an assignment,
    Global,         \* "" in the code
    Requests,       \* concurrent requests to revoke
    Root, Admin,    \* the assignment and the role the migrations seed
    Inherits,       \* the role inheritance they seed
    FormEdits,      \* whether administrators edit the tables as records
    MaxRows,        \* bound: rows of _user_role
    MaxEdits        \* bound: rows of any other table

VARIABLES
    direct,     \* _user_role
    member,     \* _group_membership
    groupRole,  \* _group_role
    inherits,   \* _role_inheritance: <<role, role it inherits>>
    granted,    \* _role_permission: the roles with platform/admin/global
    request,    \* each request to revoke: its next query and its row
    outrun      \* history: requests overtaken by a change since they started

tables == <<direct, member, groupRole, inherits, granted>>
vars == <<direct, member, groupRole, inherits, granted, request, outrun>>

Assignments == Users \X Roles \X Scopes
GroupAssignments == Groups \X Roles \X Scopes
Idle == [pc |-> "idle"]
UserRole(pc, u, r, s) == [pc |-> pc, kind |-> "user_role", user |-> u, role |-> r, scope |-> s]
Permission(pc, r) == [pc |-> pc, kind |-> "permission", role |-> r]
Steps == {"admin", "exists", "count", "delete"}
Queries == {Idle} \cup {UserRole(pc, u, r, Global) : pc \in Steps, u \in Users, r \in Roles}
                  \cup {UserRole("delete", u, r, s) : u \in Users, r \in Roles, s \in Scopes}
                  \cup {Permission(pc, r) : pc \in Steps \ {"admin"}, r \in Roles}

-----------------------------------------------------------------------------
(* Administrators.                                                         *)

\* The recursive queries: the roles in R and all that they inherit.
Closed(T) == \A e \in inherits : e[1] \in T => e[2] \in T
Effective(R) == {r \in Roles : \A T \in SUBSET Roles : R \subseteq T /\ Closed(T) => r \in T}

\* seed_roles: a user's roles in the given scopes, with assignments d.
Seeds(u, d, scopes) ==
    {r \in Roles : \/ \E s \in scopes : <<u, r, s>> \in d
                   \/ \E g \in Groups : <<u, g>> \in member /\ \E s \in scopes : <<g, r, s>> \in groupRole}
AdminsWith(d, p, scopes) == {u \in Users : Effective(Seeds(u, d, scopes)) \cap p # {}}
Admins == AdminsWith(direct, granted, {Global})

\* The administrators that are counted before the row is deleted.
DirectWithout(q) == IF q.kind = "user_role" THEN direct \ {<<q.user, q.role, q.scope>>} ELSE direct
GrantedWithout(q) == IF q.kind = "permission" THEN granted \ {q.role} ELSE granted
Remaining(q) == AdminsWith(DirectWithout(q), GrantedWithout(q), {Global})

-----------------------------------------------------------------------------
Init ==
    /\ direct = {<<Root, Admin, Global>>} /\ granted = {Admin}
    /\ inherits = Inherits
    /\ member = {} /\ groupRole = {}
    /\ request = [w \in Requests |-> Idle]
    /\ outrun = {}

Busy == {w \in Requests : request[w] # Idle}
Changed(by) == outrun' = outrun \cup (Busy \ by)

-----------------------------------------------------------------------------
(* Requests of the access control page.                                    *)

GrantUserRole(u, r, s) ==
    /\ direct' = direct \cup {<<u, r, s>>}
    /\ Cardinality(direct') <= MaxRows
    /\ Changed({})
    /\ UNCHANGED <<member, groupRole, inherits, granted, request>>
GrantRolePermission(r) ==
    /\ granted' = granted \cup {r}
    /\ Changed({})
    /\ UNCHANGED <<direct, member, groupRole, inherits, request>>

Start(w, q) ==
    /\ request[w] = Idle
    /\ request' = [request EXCEPT ![w] = q]
    /\ outrun' = outrun \ {w}
    /\ UNCHANGED tables
\* An assignment for one app is deleted without a check.
RevokeUserRole(w, u, r, s) == Start(w, UserRole(IF s = Global THEN "admin" ELSE "delete", u, r, s))
RevokeRolePermission(w, r) == Start(w, Permission("exists", r))

Goto(w, pc) ==
    /\ request' = [request EXCEPT ![w].pc = pc]
    /\ UNCHANGED <<direct, member, groupRole, inherits, granted, outrun>>

\* roleHasGlobalAdminPermission.
CheckAdminOn(w, roles) ==
    /\ request[w].pc = "admin"
    /\ Goto(w, IF roles \cap granted # {} THEN "exists" ELSE "delete")
CheckAdminOwn(w) == CheckAdminOn(w, {request[w].role})          \* mutant: inheritance not followed
CheckAdmin(w) == CheckAdminOn(w, Effective({request[w].role}))

\* userRoleAssignmentExists, rolePermissionAssignmentExists.
CheckExists(w) ==
    LET q == request[w]
        exists == IF q.kind = "user_role" THEN <<q.user, q.role, q.scope>> \in direct ELSE q.role \in granted
    IN /\ q.pc = "exists"
       /\ Goto(w, IF exists THEN "count" ELSE "delete")

\* countGlobalAdminsAfter...: ErrLastGlobalAdminRemoval, or on to the delete.
CheckCount(w) ==
    /\ request[w].pc = "count"
    /\ IF Remaining(request[w]) = {}
       THEN request' = [request EXCEPT ![w] = Idle] /\ UNCHANGED <<direct, member, groupRole, inherits, granted, outrun>>
       ELSE Goto(w, "delete")

Delete(w) ==
    LET q == request[w] IN
    /\ q.pc = "delete"
    /\ direct' = DirectWithout(q)
    /\ granted' = GrantedWithout(q)
    /\ request' = [request EXCEPT ![w] = Idle]
    /\ Changed({w})
    /\ UNCHANGED <<member, groupRole, inherits>>

-----------------------------------------------------------------------------
(* The record form: a row of a table is inserted, or becomes another one.  *)

Saved(rows, all) == {(rows \ {old}) \cup {new} : old \in rows, new \in all} \cup {rows \cup {new} : new \in all}
Fits(rows, most) == FormEdits /\ Cardinality(rows) <= most

SaveUserRole ==
    /\ direct' \in Saved(direct, Assignments) /\ Fits(direct', MaxRows)
    /\ Changed({}) /\ UNCHANGED <<member, groupRole, inherits, granted, request>>
SaveMembership ==
    /\ member' \in Saved(member, Users \X Groups) /\ Fits(member', MaxEdits)
    /\ Changed({}) /\ UNCHANGED <<direct, groupRole, inherits, granted, request>>
SaveGroupRole ==
    /\ groupRole' \in Saved(groupRole, GroupAssignments) /\ Fits(groupRole', MaxEdits)
    /\ Changed({}) /\ UNCHANGED <<direct, member, inherits, granted, request>>
SaveInheritance ==
    /\ inherits' \in Saved(inherits, {e \in Roles \X Roles : e[1] # e[2]}) /\ Fits(inherits', MaxEdits)
    /\ Changed({}) /\ UNCHANGED <<direct, member, groupRole, granted, request>>
SaveRolePermission ==
    /\ granted' \in Saved(granted, Roles) /\ Fits(granted', MaxEdits)
    /\ Changed({}) /\ UNCHANGED <<direct, member, groupRole, inherits, request>>

-----------------------------------------------------------------------------
Revocation(w) ==
    \/ \E u \in Users, r \in Roles, s \in Scopes : RevokeUserRole(w, u, r, s)
    \/ \E r \in Roles : RevokeRolePermission(w, r)
    \/ CheckAdmin(w) \/ CheckExists(w) \/ CheckCount(w) \/ Delete(w)
FormSave == SaveUserRole \/ SaveMembership \/ SaveGroupRole \/ SaveInheritance \/ SaveRolePermission
Next == \/ \E u \in Users, r \in Roles, s \in Scopes : GrantUserRole(u, r, s)
        \/ \E r \in Roles : GrantRolePermission(r)
        \/ \E w \in Requests : Revocation(w)
        \/ FormSave

Spec == Init /\ [][Next]_vars

-----------------------------------------------------------------------------
(* Properties.                                                             *)

\* Type invariant: the rows of the five tables and the requests under way.
TypeOK ==
    /\ direct \subseteq Assignments
    /\ member \subseteq Users \X Groups
    /\ groupRole \subseteq GroupAssignments
    /\ inherits \subseteq Roles \X Roles
    /\ granted \subseteq Roles
    /\ request \in [Requests -> Queries]
    /\ outrun \subseteq Requests

\* The guard works for one revocation at a time: only a request overtaken by
\* another change, or an edit of the tables as records, takes the last global
\* administrator away (RevokeUserRole, RevokeRolePermission).
Overtaken == \E w \in outrun : request[w].pc = "delete" /\ request'[w] = Idle
AsRecord == UNCHANGED request
GuardHolds == [][AsRecord \/ Overtaken \/ (Admins # {} => Admins' # {})]_vars
=============================================================================
