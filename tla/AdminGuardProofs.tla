-------------------------- MODULE AdminGuardProofs --------------------------
(***************************************************************************)
(* Proofs about AdminGuard, for any users, roles, groups and requests.     *)
(*                                                                         *)
(* A revocation that nothing has overtaken and that is about to delete is  *)
(* harmless: the administrators without its row are not none.  It came to  *)
(* its delete because the count said so, because the row is not there,     *)
(* because the row is for one app, or because the role does not lead to    *)
(* the permission; the last case needs that the closure of a union adds    *)
(* nothing to the two closures.                                            *)
(***************************************************************************)
EXTENDS MCAuthz, TLAPS

Harmless(q) == Guard!Admins # {} => Guard!Remaining(q) # {}
Deletions == {Guard!UserRole("delete", u, r, s) : u \in Accounts, r \in Roles, s \in Scopes}
             \cup {Guard!Permission("delete", r) : r \in Roles}
GuardInv == \A w \in Requests \ behind, q \in Deletions : request[w] = q => Harmless(q)

-----------------------------------------------------------------------------
(* The closure under inheritance.                                          *)

\* More roles lead to no fewer.
LEMMA EffectiveMonotone ==
    ASSUME NEW A, NEW B, A \subseteq B PROVE Guard!Effective(A) \subseteq Guard!Effective(B)
  BY DEF Guard!Effective

\* The closure of a union is in the union of the closures.
LEMMA EffectiveUnion ==
    ASSUME NEW A, NEW B PROVE Guard!Effective(A \cup B) \subseteq Guard!Effective(A) \cup Guard!Effective(B)
  <1> SUFFICES ASSUME NEW r \in Guard!Effective(A \cup B), r \notin Guard!Effective(A), r \notin Guard!Effective(B)
               PROVE FALSE
    OBVIOUS
  <1>1. r \in Roles
    BY DEF Guard!Effective
  <1>2. PICK S \in SUBSET Roles : A \subseteq S /\ Guard!Closed(S) /\ r \notin S
    BY <1>1 DEF Guard!Effective
  <1>3. PICK T \in SUBSET Roles : B \subseteq T /\ Guard!Closed(T) /\ r \notin T
    BY <1>1 DEF Guard!Effective
  <1>4. Guard!Closed(S \cup T) /\ A \cup B \subseteq S \cup T
    BY <1>2, <1>3 DEF Guard!Closed
  <1>5. (S \cup T) \in SUBSET Roles
    OBVIOUS
  <1>6. r \in S \cup T
    BY <1>4, <1>5 DEF Guard!Effective
  <1> QED
    BY <1>2, <1>3, <1>6

\* Without an assignment, a user keeps all that it does not lead to.
LEMMA SeedsWithout ==
    ASSUME NEW u, NEW d, NEW v, NEW r, NEW s
    PROVE Guard!Seeds(u, d, {Global}) \subseteq Guard!Seeds(u, d \ {<<v, r, s>>}, {Global}) \cup {r}
  BY DEF Guard!Seeds

\* An assignment for one app is no seed.
LEMMA SeedsOtherScope ==
    ASSUME NEW u, NEW d, NEW v, NEW r, NEW s, s # Global
    PROVE Guard!Seeds(u, d, {Global}) \subseteq Guard!Seeds(u, d \ {<<v, r, s>>}, {Global})
  BY DEF Guard!Seeds

\* Taking away a role that does not lead to the permission takes no
\* administrator away.
LEMMA OtherRoleHarmless ==
    ASSUME NEW d, NEW p, NEW v, NEW r, NEW s, Guard!Effective({r}) \cap p = {}
    PROVE Guard!AdminsWith(d, p, {Global}) \subseteq Guard!AdminsWith(d \ {<<v, r, s>>}, p, {Global})
  <1> SUFFICES ASSUME NEW u \in Guard!AdminsWith(d, p, {Global})
               PROVE u \in Guard!AdminsWith(d \ {<<v, r, s>>}, p, {Global})
    OBVIOUS
  <1> DEFINE A == Guard!Seeds(u, d, {Global})
             B == Guard!Seeds(u, d \ {<<v, r, s>>}, {Global})
  <1>1. u \in Accounts /\ Guard!Effective(A) \cap p # {}
    BY DEF Guard!AdminsWith
  <1>2. A \subseteq B \cup {r}
    BY SeedsWithout
  <1> HIDE DEF A, B
  <1>3. Guard!Effective(A) \subseteq Guard!Effective(B \cup {r})
    BY <1>2, EffectiveMonotone
  <1>4. Guard!Effective(B \cup {r}) \subseteq Guard!Effective(B) \cup Guard!Effective({r})
    BY EffectiveUnion
  <1>5. Guard!Effective(B) \cap p # {}
    BY <1>1, <1>3, <1>4
  <1> QED
    BY <1>1, <1>5 DEF Guard!AdminsWith, B

-----------------------------------------------------------------------------
(* Requests.                                                               *)

\* Taking away an assignment that is for one app changes nothing.
LEMMA OtherScopeHarmless ==
    ASSUME NEW d, NEW p, NEW v, NEW r, NEW s, s # Global
    PROVE Guard!AdminsWith(d, p, {Global}) \subseteq Guard!AdminsWith(d \ {<<v, r, s>>}, p, {Global})
  <1> SUFFICES ASSUME NEW u \in Guard!AdminsWith(d, p, {Global})
               PROVE u \in Guard!AdminsWith(d \ {<<v, r, s>>}, p, {Global})
    OBVIOUS
  <1>1. Guard!Effective(Guard!Seeds(u, d, {Global})) \subseteq Guard!Effective(Guard!Seeds(u, d \ {<<v, r, s>>}, {Global}))
    BY SeedsOtherScope, EffectiveMonotone
  <1> QED
    BY <1>1 DEF Guard!AdminsWith

\* A revocation of an assignment is harmless if the role does not lead to the
\* permission, the row is not there or it is for one app,
LEMMA UserRoleHarmless ==
    ASSUME NEW pc, NEW u, NEW r, NEW s,
           \/ Guard!Effective({r}) \cap granted = {}
           \/ <<u, r, s>> \notin assigned
           \/ s # Global
    PROVE Harmless(Guard!UserRole(pc, u, r, s))
  <1> DEFINE q == Guard!UserRole(pc, u, r, s)
  <1>1. /\ q.kind = "user_role" /\ q.user = u /\ q.role = r /\ q.scope = s
    BY DEF Guard!UserRole
  <1> HIDE DEF q
  <1>2. Guard!DirectWithout(q) = assigned \ {<<u, r, s>>} /\ Guard!GrantedWithout(q) = granted
    BY <1>1 DEF Guard!DirectWithout, Guard!GrantedWithout
  <1>3. Guard!Remaining(q) = Guard!AdminsWith(assigned \ {<<u, r, s>>}, granted, {Global})
    BY <1>2 DEF Guard!Remaining
  <1>4. Guard!AdminsWith(assigned, granted, {Global}) \subseteq Guard!AdminsWith(assigned \ {<<u, r, s>>}, granted, {Global})
    <2>1. CASE Guard!Effective({r}) \cap granted = {}
      BY <2>1, OtherRoleHarmless
    <2>2. CASE <<u, r, s>> \notin assigned
      <3>1. assigned \ {<<u, r, s>>} = assigned
        BY <2>2
      <3> QED
        BY <3>1
    <2>3. CASE s # Global
      BY <2>3, OtherScopeHarmless
    <2> QED
      BY <2>1, <2>2, <2>3
  <1>5. Harmless(q)
    BY <1>3, <1>4 DEF Harmless, Guard!Admins
  <1> QED
    BY <1>5 DEF q

\* and of a permission if the row is not there.
LEMMA PermissionHarmless ==
    ASSUME NEW pc, NEW r, r \notin granted
    PROVE Harmless(Guard!Permission(pc, r))
  <1> DEFINE q == Guard!Permission(pc, r)
  <1>1. q.kind = "permission" /\ q.role = r
    BY DEF Guard!Permission
  <1> HIDE DEF q
  <1>2. Guard!DirectWithout(q) = assigned /\ Guard!GrantedWithout(q) = granted
    BY <1>1 DEF Guard!DirectWithout, Guard!GrantedWithout
  <1>3. Guard!Remaining(q) = Guard!Admins
    BY <1>2 DEF Guard!Remaining, Guard!Admins
  <1>4. Harmless(q)
    BY <1>3 DEF Harmless
  <1> QED
    BY <1>4 DEF q

-----------------------------------------------------------------------------
(* Steps.                                                                  *)

FormOrGrant == \/ \E u \in Accounts, r \in Roles, s \in Scopes : Guard!GrantUserRole(u, r, s)
               \/ \E r \in Roles : Guard!GrantRolePermission(r)
               \/ Guard!FormSave

\* What each step does to the tables, the requests and the history.
LEMMA StepKinds ==
    ASSUME Guard!Next
    PROVE \/ request' = request /\ Guard!Changed({})
          \/ \E w \in Requests : Guard!Delete(w)
          \/ \E w \in Requests : /\ UNCHANGED Guard!tables
                                  /\ \/ \E u \in Accounts, r \in Roles, s \in Scopes : Guard!RevokeUserRole(w, u, r, s)
                                     \/ \E r \in Roles : Guard!RevokeRolePermission(w, r)
                                     \/ Guard!CheckAdmin(w) \/ Guard!CheckExists(w) \/ Guard!CheckCount(w)
  <1>1. CASE \E u \in Accounts, r \in Roles, s \in Scopes : Guard!GrantUserRole(u, r, s)
    BY <1>1 DEF Guard!GrantUserRole
  <1>2. CASE \E r \in Roles : Guard!GrantRolePermission(r)
    BY <1>2 DEF Guard!GrantRolePermission
  <1>3. CASE Guard!FormSave
    BY <1>3 DEF Guard!FormSave, Guard!SaveUserRole, Guard!SaveMembership, Guard!SaveGroupRole, Guard!SaveInheritance, Guard!SaveRolePermission
  <1>4. ASSUME NEW w \in Requests, Guard!Revocation(w), ~Guard!Delete(w) PROVE UNCHANGED Guard!tables
    BY <1>4 DEF Guard!Revocation, Guard!RevokeUserRole, Guard!RevokeRolePermission, Guard!Start, Guard!CheckAdmin, Guard!CheckAdminOn,
                Guard!CheckExists, Guard!CheckCount, Guard!Goto, Guard!tables
  <1> QED
    BY <1>1, <1>2, <1>3, <1>4 DEF Guard!Next, Guard!Revocation

\* Three forms of a request.
LEMMA QueryForms ==
    /\ \A pc \in Guard!Steps, u \in Accounts, r \in Roles : Guard!UserRole(pc, u, r, Global) \in Guard!Queries
    /\ \A u \in Accounts, r \in Roles, s \in Scopes : Guard!UserRole("delete", u, r, s) \in Guard!Queries
    /\ \A pc \in Guard!Steps \ {"admin"}, r \in Roles : Guard!Permission(pc, r) \in Guard!Queries
    /\ \A q \in Guard!Queries :
          \/ q = Guard!Idle
          \/ \E pc \in Guard!Steps, u \in Accounts, r \in Roles : q = Guard!UserRole(pc, u, r, Global)
          \/ \E u \in Accounts, r \in Roles, s \in Scopes : q = Guard!UserRole("delete", u, r, s)
          \/ \E pc \in Guard!Steps \ {"admin"}, r \in Roles : q = Guard!Permission(pc, r)
  <1>1. \A pc \in Guard!Steps, u \in Accounts, r \in Roles : Guard!UserRole(pc, u, r, Global) \in Guard!Queries
    BY DEF Guard!Queries
  <1>2. \A u \in Accounts, r \in Roles, s \in Scopes : Guard!UserRole("delete", u, r, s) \in Guard!Queries
    BY DEF Guard!Queries
  <1>3. \A pc \in Guard!Steps \ {"admin"}, r \in Roles : Guard!Permission(pc, r) \in Guard!Queries
    BY DEF Guard!Queries
  <1>4. ASSUME NEW q \in Guard!Queries
        PROVE \/ q = Guard!Idle
              \/ \E pc \in Guard!Steps, u \in Accounts, r \in Roles : q = Guard!UserRole(pc, u, r, Global)
              \/ \E u \in Accounts, r \in Roles, s \in Scopes : q = Guard!UserRole("delete", u, r, s)
              \/ \E pc \in Guard!Steps \ {"admin"}, r \in Roles : q = Guard!Permission(pc, r)
    BY DEF Guard!Queries
  <1> QED
    BY <1>1, <1>2, <1>3, <1>4

\* A request with another next query.
LEMMA UserRoleStep ==
    ASSUME NEW p, NEW pc, NEW u, NEW r, NEW s
    PROVE [Guard!UserRole(p, u, r, s) EXCEPT !.pc = pc] = Guard!UserRole(pc, u, r, s)
  <1> DEFINE q == Guard!UserRole(p, u, r, s)
             g == [q EXCEPT !.pc = pc]
             h == Guard!UserRole(pc, u, r, s)
             fields == {"pc", "kind", "user", "role", "scope"}
  <1>1. DOMAIN q = fields /\ DOMAIN g = fields /\ DOMAIN h = fields
    BY DEF Guard!UserRole
  <1>2. g = [i \in DOMAIN g |-> g[i]] /\ h = [i \in DOMAIN h |-> h[i]]
    BY DEF Guard!UserRole
  <1>3. /\ g.pc = h.pc /\ g.kind = h.kind /\ g.user = h.user
        /\ g.role = h.role /\ g.scope = h.scope
    BY <1>1 DEF Guard!UserRole
  <1>4. g = h
    <2> HIDE DEF g, h
    <2> QED
      BY <1>1, <1>2, <1>3
  <1> QED
    BY <1>4

\* The same for a revocation of a permission.
LEMMA PermissionStep ==
    ASSUME NEW p, NEW pc, NEW r
    PROVE [Guard!Permission(p, r) EXCEPT !.pc = pc] = Guard!Permission(pc, r)
  BY DEF Guard!Permission

\* The fields of a request about an assignment.
LEMMA UserRoleFields ==
    ASSUME NEW pc, NEW u, NEW r, NEW s
    PROVE /\ Guard!UserRole(pc, u, r, s).pc = pc /\ Guard!UserRole(pc, u, r, s).kind = "user_role"
          /\ Guard!UserRole(pc, u, r, s).user = u /\ Guard!UserRole(pc, u, r, s).role = r
          /\ Guard!UserRole(pc, u, r, s).scope = s
  BY DEF Guard!UserRole

\* A request that is not about to delete, with its next query.
LEMMA NextQuery ==
    ASSUME NEW q \in Guard!Queries \ {Guard!Idle}, q.pc # "delete", NEW pc \in {"exists", "count", "delete"}
    PROVE [q EXCEPT !.pc = pc] \in Guard!Queries
  <1>0. pc \in Guard!Steps /\ pc \in Guard!Steps \ {"admin"}
    BY DEF Guard!Steps
  <1>1. ASSUME NEW p \in Guard!Steps, NEW u \in Accounts, NEW r \in Roles, q = Guard!UserRole(p, u, r, Global)
        PROVE [q EXCEPT !.pc = pc] \in Guard!Queries
    BY <1>0, <1>1, UserRoleStep, QueryForms
  <1>2. ASSUME NEW u \in Accounts, NEW r \in Roles, NEW s \in Scopes, q = Guard!UserRole("delete", u, r, s)
        PROVE FALSE
    BY <1>2 DEF Guard!UserRole
  <1>3. ASSUME NEW p \in Guard!Steps, NEW r \in Roles, q = Guard!Permission(p, r)
        PROVE [q EXCEPT !.pc = pc] \in Guard!Queries
    BY <1>0, <1>3, PermissionStep, QueryForms
  <1> QED
    BY <1>1, <1>2, <1>3, QueryForms

-----------------------------------------------------------------------------
(* Type correctness.                                                       *)

\* The tables that the migrations seed.
LEMMA TypeInit == ASSUME GuardAssumption, Guard!Init PROVE Guard!TypeOK
  <1>1. assigned \subseteq Guard!Assignments
    BY DEF Guard!Init, Guard!Assignments, GuardAssumption
  <1>2. request \in [Requests -> Guard!Queries]
    BY DEF Guard!Init, Guard!Queries
  <1> QED
    BY <1>1, <1>2 DEF Guard!Init, Guard!TypeOK, GuardAssumption

\* The rows of the tables after a step.
LEMMA TableTypes ==
    ASSUME GuardAssumption, Guard!TypeOK, Guard!Next
    PROVE /\ assigned' \subseteq Guard!Assignments /\ joined' \subseteq Accounts \X Groups
          /\ groupRole' \subseteq Guard!GroupAssignments /\ inherits' \subseteq Roles \X Roles
          /\ granted' \subseteq Roles /\ behind' \subseteq Requests
  <1> USE DEF Guard!TypeOK
  <1>1. ASSUME NEW by, Guard!Changed(by) PROVE behind' \subseteq Requests
    BY <1>1 DEF Guard!Changed, Guard!Busy
  <1>2. ASSUME NEW all, NEW rows, rows \subseteq all, NEW new \in Guard!Saved(rows, all) PROVE new \subseteq all
    BY <1>2 DEF Guard!Saved
  <1>3. CASE \E u \in Accounts, r \in Roles, s \in Scopes : Guard!GrantUserRole(u, r, s)
    BY <1>1, <1>3 DEF Guard!GrantUserRole, Guard!Assignments
  <1>4. CASE \E r \in Roles : Guard!GrantRolePermission(r)
    BY <1>1, <1>4 DEF Guard!GrantRolePermission
  <1>5. CASE Guard!SaveUserRole
    BY <1>1, <1>2, <1>5 DEF Guard!SaveUserRole
  <1>6. CASE Guard!SaveMembership
    BY <1>1, <1>2, <1>6 DEF Guard!SaveMembership
  <1>7. CASE Guard!SaveGroupRole
    BY <1>1, <1>2, <1>7 DEF Guard!SaveGroupRole
  <1>8. CASE Guard!SaveInheritance
    <2> DEFINE proper == {e \in Roles \X Roles : e[1] # e[2]}
    <2>1. Guard!Saved(inherits, proper) \subseteq SUBSET (Roles \X Roles)
      BY DEF Guard!Saved
    <2> QED
      BY <1>1, <1>8, <2>1 DEF Guard!SaveInheritance
  <1>9. CASE Guard!SaveRolePermission
    BY <1>1, <1>2, <1>9 DEF Guard!SaveRolePermission
  <1>10. CASE \E w \in Requests : Guard!Delete(w)
    BY <1>1, <1>10 DEF Guard!Delete, Guard!DirectWithout, Guard!GrantedWithout
  <1>11. ASSUME NEW w \in Requests, Guard!Revocation(w), ~Guard!Delete(w)
         PROVE UNCHANGED Guard!tables /\ behind' \subseteq behind
    BY <1>11 DEF Guard!Revocation, Guard!RevokeUserRole, Guard!RevokeRolePermission, Guard!Start, Guard!CheckAdmin, Guard!CheckAdminOn,
                 Guard!CheckExists, Guard!CheckCount, Guard!Goto, Guard!tables
  <1> QED
    BY <1>3, <1>4, <1>5, <1>6, <1>7, <1>8, <1>9, <1>10, <1>11 DEF Guard!Next, Guard!Revocation, Guard!FormSave, Guard!tables

\* The requests stay requests.
LEMMA RequestTypes == ASSUME GuardAssumption, Guard!TypeOK, Guard!Next PROVE request' \in [Requests -> Guard!Queries]
  <1> USE DEF Guard!TypeOK
  <1>1. ASSUME NEW w \in Requests, NEW pc \in {"exists", "count", "delete"},
               request[w] # Guard!Idle, request[w].pc # "delete", Guard!Goto(w, pc)
        PROVE request' \in [Requests -> Guard!Queries]
    <2>1. [request[w] EXCEPT !.pc = pc] \in Guard!Queries
      BY <1>1, NextQuery
    <2> QED
      BY <1>1, <2>1 DEF Guard!Goto
  <1>2. Guard!Idle \in Guard!Queries /\ Guard!Idle.pc = "idle"
    BY DEF Guard!Idle, Guard!Queries
  <1>3. ASSUME NEW w \in Requests, NEW u \in Accounts, NEW r \in Roles, NEW s \in Scopes, Guard!RevokeUserRole(w, u, r, s)
        PROVE request' \in [Requests -> Guard!Queries]
    <2>1. Guard!UserRole(IF s = Global THEN "admin" ELSE "delete", u, r, s) \in Guard!Queries
      BY QueryForms DEF Guard!Steps
    <2> QED
      BY <1>3, <2>1 DEF Guard!RevokeUserRole, Guard!Start
  <1>4. ASSUME NEW w \in Requests, NEW r \in Roles, Guard!RevokeRolePermission(w, r)
        PROVE request' \in [Requests -> Guard!Queries]
    <2>1. Guard!Permission("exists", r) \in Guard!Queries
      BY QueryForms DEF Guard!Steps
    <2> QED
      BY <1>4, <2>1 DEF Guard!RevokeRolePermission, Guard!Start
  <1>5. ASSUME NEW w \in Requests, Guard!CheckAdmin(w) PROVE request' \in [Requests -> Guard!Queries]
    BY <1>1, <1>2, <1>5 DEF Guard!CheckAdmin, Guard!CheckAdminOn
  <1>6. ASSUME NEW w \in Requests, Guard!CheckExists(w) PROVE request' \in [Requests -> Guard!Queries]
    BY <1>1, <1>2, <1>6 DEF Guard!CheckExists
  <1>7. ASSUME NEW w \in Requests, Guard!CheckCount(w) PROVE request' \in [Requests -> Guard!Queries]
    BY <1>1, <1>2, <1>7 DEF Guard!CheckCount
  <1>8. ASSUME NEW w \in Requests, Guard!Delete(w) PROVE request' \in [Requests -> Guard!Queries]
    BY <1>2, <1>8 DEF Guard!Delete
  <1> QED
    BY <1>3, <1>4, <1>5, <1>6, <1>7, <1>8, StepKinds

\* Type correctness, for any number of users, roles, groups and requests.
THEOREM TypeCorrect == Guard!Spec => []Guard!TypeOK
  <1>1. Guard!Init => Guard!TypeOK
    BY GuardAssumption, TypeInit DEF GuardAssumption
  <1>2. Guard!TypeOK /\ [Guard!Next]_Guard!vars => Guard!TypeOK'
    <2>1. ASSUME Guard!TypeOK, Guard!Next PROVE Guard!TypeOK'
      <3>1. request' \in [Requests -> Guard!Queries]
        BY <2>1, GuardAssumption, RequestTypes
      <3> QED
        BY <2>1, <3>1, GuardAssumption, TableTypes DEF Guard!TypeOK
    <2>2. ASSUME Guard!TypeOK, UNCHANGED Guard!vars PROVE Guard!TypeOK'
      BY <2>2 DEF Guard!TypeOK, Guard!vars
    <2> QED
      BY <2>1, <2>2
  <1> QED
    BY <1>1, <1>2, PTL DEF Guard!Spec

-----------------------------------------------------------------------------
(* The guard.                                                              *)

\* A deletion is a request under way.
LEMMA DeletionFacts ==
    ASSUME NEW q \in Deletions PROVE q # Guard!Idle /\ q.pc = "delete"
  <1>1. q.pc = "delete"
    <2>1. CASE q \in {Guard!UserRole("delete", u, r, s) : u \in Accounts, r \in Roles, s \in Scopes}
      <3>1. PICK u \in Accounts, r \in Roles, s \in Scopes : q = Guard!UserRole("delete", u, r, s)
        BY <2>1
      <3> QED
        BY <3>1 DEF Guard!UserRole
    <2>2. CASE q \in {Guard!Permission("delete", r) : r \in Roles}
      BY <2>2 DEF Guard!Permission
    <2> QED
      BY <2>1, <2>2 DEF Deletions
  <1>2. Guard!Idle.pc = "idle"
    BY DEF Guard!Idle
  <1> QED
    BY <1>1, <1>2

\* The administrators as a function of the tables.
AdminsOf(d, p, m, g, i) ==
    {u \in Accounts :
        {r \in Roles : \A T \in SUBSET Roles :
            /\ {x \in Roles : \/ \E s \in {Global} : <<u, x, s>> \in d
                              \/ \E h \in Groups : <<u, h>> \in m /\ \E s \in {Global} : <<h, x, s>> \in g}
               \subseteq T
            /\ \A e \in i : e[1] \in T => e[2] \in T
            => r \in T} \cap p # {}}

\* What is harmless stays so while the tables do not change.
LEMMA HarmlessStable == ASSUME NEW q, UNCHANGED Guard!tables, Harmless(q) PROVE Harmless(q)'
  <1>1. Guard!Admins = AdminsOf(assigned, granted, joined, groupRole, inherits)
    BY DEF Guard!Admins, Guard!AdminsWith, Guard!Effective, Guard!Closed, Guard!Seeds, AdminsOf
  <1>2. Guard!Admins' = AdminsOf(assigned', granted', joined', groupRole', inherits')
    BY DEF Guard!Admins, Guard!AdminsWith, Guard!Effective, Guard!Closed, Guard!Seeds, AdminsOf
  <1>3. Guard!Remaining(q) = AdminsOf(Guard!DirectWithout(q), Guard!GrantedWithout(q), joined, groupRole, inherits)
    BY DEF Guard!Remaining, Guard!AdminsWith, Guard!Effective, Guard!Closed, Guard!Seeds, AdminsOf
  <1>4. Guard!Remaining(q)' = AdminsOf(Guard!DirectWithout(q)', Guard!GrantedWithout(q)', joined', groupRole', inherits')
    BY DEF Guard!Remaining, Guard!AdminsWith, Guard!Effective, Guard!Closed, Guard!Seeds, AdminsOf
  <1>5. Guard!DirectWithout(q)' = Guard!DirectWithout(q) /\ Guard!GrantedWithout(q)' = Guard!GrantedWithout(q)
    BY DEF Guard!tables, Guard!DirectWithout, Guard!GrantedWithout
  <1>6. Guard!Admins' = Guard!Admins /\ Guard!Remaining(q)' = Guard!Remaining(q)
    BY <1>1, <1>2, <1>3, <1>4, <1>5 DEF Guard!tables
  <1> QED
    BY <1>6 DEF Harmless

\* A request that goes on to its delete is harmless.
LEMMA HarmlessCheck ==
    ASSUME Guard!TypeOK, NEW w \in Requests, NEW q, request'[w] = q, q.pc = "delete",
           Guard!CheckAdmin(w) \/ Guard!CheckExists(w) \/ Guard!CheckCount(w)
    PROVE Harmless(q)
  <1>0. request[w] \in Guard!Queries /\ Guard!Idle.pc = "idle"
    BY DEF Guard!TypeOK, Guard!Idle
  <1>1. request[w].pc \in {"admin", "exists", "count"} /\ request[w] # Guard!Idle
    BY <1>0 DEF Guard!CheckAdmin, Guard!CheckAdminOn, Guard!CheckExists, Guard!CheckCount
  <1>2. ASSUME NEW pc, Guard!Goto(w, pc) PROVE q = [request[w] EXCEPT !.pc = pc]
    BY <1>2 DEF Guard!Goto, Guard!TypeOK
  <1>3. ASSUME Guard!CheckCount(w) PROVE Guard!Remaining(request[w]) # {} /\ Guard!Goto(w, "delete")
    <2>1. ASSUME Guard!Remaining(request[w]) = {} PROVE FALSE
      <3>1. q = Guard!Idle
        BY <1>3, <2>1 DEF Guard!CheckCount, Guard!TypeOK
      <3> QED
        BY <1>0, <3>1
    <2> QED
      BY <1>3, <2>1 DEF Guard!CheckCount
  <1>4. CASE \E pc \in Guard!Steps, u \in Accounts, r \in Roles : request[w] = Guard!UserRole(pc, u, r, Global)
    <2>1. PICK p \in Guard!Steps, u \in Accounts, r \in Roles : request[w] = Guard!UserRole(p, u, r, Global)
      BY <1>4
    <2>2. /\ request[w].pc = p /\ request[w].kind = "user_role"
          /\ request[w].user = u /\ request[w].role = r /\ request[w].scope = Global
      BY <2>1, UserRoleFields
    <2>3. ASSUME NEW pc, Guard!Goto(w, pc) PROVE pc = "delete" /\ q = Guard!UserRole("delete", u, r, Global)
      <3>1. q = Guard!UserRole(pc, u, r, Global)
        BY <1>2, <2>1, <2>3, UserRoleStep
      <3>2. pc = "delete"
        BY <3>1, UserRoleFields
      <3> QED
        BY <3>1, <3>2
    <2>4. CASE Guard!CheckAdmin(w)
      <3>1. Guard!Effective({r}) \cap granted = {} /\ q = Guard!UserRole("delete", u, r, Global)
        BY <2>2, <2>3, <2>4 DEF Guard!CheckAdmin, Guard!CheckAdminOn
      <3> QED
        BY <3>1, UserRoleHarmless
    <2>5. CASE Guard!CheckExists(w)
      <3>1. <<u, r, Global>> \notin assigned /\ q = Guard!UserRole("delete", u, r, Global)
        BY <2>2, <2>3, <2>5 DEF Guard!CheckExists
      <3> QED
        BY <3>1, UserRoleHarmless
    <2>6. CASE Guard!CheckCount(w)
      <3>1. q = Guard!UserRole("delete", u, r, Global) /\ Guard!Remaining(request[w]) # {}
        BY <1>3, <2>3, <2>6
      <3>2. q.kind = "user_role" /\ q.user = u /\ q.role = r /\ q.scope = Global
        BY <3>1, UserRoleFields
      <3>3. Guard!DirectWithout(q) = Guard!DirectWithout(request[w]) /\ Guard!GrantedWithout(q) = Guard!GrantedWithout(request[w])
        BY <2>2, <3>2 DEF Guard!DirectWithout, Guard!GrantedWithout
      <3> QED
        BY <3>1, <3>3 DEF Guard!Remaining, Harmless
    <2> QED
      BY <2>4, <2>5, <2>6
  <1>5. CASE \E pc \in Guard!Steps \ {"admin"}, r \in Roles : request[w] = Guard!Permission(pc, r)
    <2>1. PICK p \in Guard!Steps \ {"admin"}, r \in Roles : request[w] = Guard!Permission(p, r)
      BY <1>5
    <2>2. request[w].pc = p /\ request[w].kind = "permission" /\ request[w].role = r
      BY <2>1 DEF Guard!Permission
    <2>3. ASSUME NEW pc, Guard!Goto(w, pc) PROVE pc = "delete" /\ q = Guard!Permission("delete", r)
      <3>1. q = Guard!Permission(pc, r)
        BY <1>2, <2>1, <2>3, PermissionStep
      <3>2. pc = "delete"
        BY <3>1 DEF Guard!Permission
      <3> QED
        BY <3>1, <3>2
    <2>4. CASE Guard!CheckAdmin(w)
      BY <2>2, <2>4 DEF Guard!CheckAdmin, Guard!CheckAdminOn
    <2>5. CASE Guard!CheckExists(w)
      <3>1. r \notin granted /\ q = Guard!Permission("delete", r)
        BY <2>2, <2>3, <2>5 DEF Guard!CheckExists
      <3> QED
        BY <3>1, PermissionHarmless
    <2>6. CASE Guard!CheckCount(w)
      <3>1. q = Guard!Permission("delete", r) /\ Guard!Remaining(request[w]) # {}
        BY <1>3, <2>3, <2>6
      <3>2. q.kind = "permission" /\ q.role = r
        BY <3>1 DEF Guard!Permission
      <3>3. Guard!DirectWithout(q) = Guard!DirectWithout(request[w]) /\ Guard!GrantedWithout(q) = Guard!GrantedWithout(request[w])
        BY <2>2, <3>2 DEF Guard!DirectWithout, Guard!GrantedWithout
      <3> QED
        BY <3>1, <3>3 DEF Guard!Remaining, Harmless
    <2> QED
      BY <2>4, <2>5, <2>6
  <1>6. ASSUME NEW u \in Accounts, NEW r \in Roles, NEW s \in Scopes, request[w] = Guard!UserRole("delete", u, r, s)
        PROVE FALSE
    BY <1>1, <1>6, UserRoleFields
  <1> QED
    BY <1>0, <1>1, <1>4, <1>5, <1>6, QueryForms

\* Starting a revocation of an assignment for one app is harmless.
LEMMA HarmlessStart ==
    ASSUME Guard!TypeOK, NEW w \in Requests, NEW q, request'[w] = q, q.pc = "delete",
           \/ \E u \in Accounts, r \in Roles, s \in Scopes : Guard!RevokeUserRole(w, u, r, s)
           \/ \E r \in Roles : Guard!RevokeRolePermission(w, r)
    PROVE Harmless(q)
  <1>1. CASE \E u \in Accounts, r \in Roles, s \in Scopes : Guard!RevokeUserRole(w, u, r, s)
    <2>1. PICK u \in Accounts, r \in Roles, s \in Scopes : Guard!RevokeUserRole(w, u, r, s)
      BY <1>1
    <2>2. q = Guard!UserRole(IF s = Global THEN "admin" ELSE "delete", u, r, s)
      BY <2>1 DEF Guard!RevokeUserRole, Guard!Start, Guard!TypeOK
    <2>3. s # Global /\ q = Guard!UserRole("delete", u, r, s)
      BY <2>2, UserRoleFields
    <2> QED
      BY <2>3, UserRoleHarmless
  <1>2. ASSUME NEW r \in Roles, Guard!RevokeRolePermission(w, r) PROVE FALSE
    <2>1. q = Guard!Permission("exists", r)
      BY <1>2 DEF Guard!RevokeRolePermission, Guard!Start, Guard!TypeOK
    <2> QED
      BY <2>1 DEF Guard!Permission
  <1> QED
    BY <1>1, <1>2

\* Each step leaves the requests that are not overtaken harmless: a change of
\* the tables overtakes every other one, and the others leave the tables alone.
LEMMA GuardStep == ASSUME Guard!TypeOK, GuardInv, Guard!Next PROVE GuardInv'
  <1> SUFFICES ASSUME NEW w \in Requests, w \notin behind', NEW q \in Deletions, request'[w] = q
               PROVE Harmless(q)'
    <2>1. Deletions' = Deletions
      BY DEF Deletions, Guard!UserRole, Guard!Permission
    <2> QED
      BY <2>1 DEF GuardInv
  <1>0. q # Guard!Idle /\ q.pc = "delete"
    BY DeletionFacts
  <1>1. CASE request' = request /\ Guard!Changed({})
    <2>1. w \in Guard!Busy
      BY <1>0, <1>1 DEF Guard!Busy
    <2> QED
      BY <1>1, <2>1 DEF Guard!Changed
  <1>2. ASSUME NEW x \in Requests, Guard!Delete(x) PROVE Harmless(q)'
    <2>1. w # x /\ request[w] = q
      BY <1>0, <1>2 DEF Guard!Delete, Guard!TypeOK
    <2>2. w \in behind'
      BY <1>0, <1>2, <2>1 DEF Guard!Delete, Guard!Changed, Guard!Busy
    <2> QED
      BY <2>2
  <1>3. ASSUME NEW x \in Requests, UNCHANGED Guard!tables,
               \/ \E u \in Accounts, r \in Roles, s \in Scopes : Guard!RevokeUserRole(x, u, r, s)
               \/ \E r \in Roles : Guard!RevokeRolePermission(x, r)
               \/ Guard!CheckAdmin(x) \/ Guard!CheckExists(x) \/ Guard!CheckCount(x)
        PROVE Harmless(q)'
    <2>1. CASE w = x
      BY <1>0, <1>3, <2>1, HarmlessStart, HarmlessCheck, HarmlessStable
    <2>2. CASE w # x
      <3>1. request[w] = q /\ w \notin behind
        BY <1>3, <2>2 DEF Guard!RevokeUserRole, Guard!RevokeRolePermission, Guard!Start, Guard!CheckAdmin, Guard!CheckAdminOn,
                          Guard!CheckExists, Guard!CheckCount, Guard!Goto, Guard!TypeOK
      <3>2. Harmless(q)
        BY <3>1 DEF GuardInv
      <3> QED
        BY <1>3, <3>2, HarmlessStable
    <2> QED
      BY <2>1, <2>2
  <1> QED
    BY <1>1, <1>2, <1>3, StepKinds

\* A delete that is not overtaken leaves an administrator.
LEMMA DeleteKeepsAdmin ==
    ASSUME Guard!TypeOK, GuardInv, NEW w \in Requests, Guard!Delete(w), w \notin behind, Guard!Admins # {}
    PROVE Guard!Admins' # {}
  <1> DEFINE q == request[w]
  <1>1. q \in Deletions
    <2>1. q \in Guard!Queries /\ q.pc = "delete" /\ Guard!Idle.pc = "idle"
      BY DEF Guard!TypeOK, Guard!Delete, Guard!Idle
    <2>2. ASSUME NEW pc \in Guard!Steps, NEW u \in Accounts, NEW r \in Roles, q = Guard!UserRole(pc, u, r, Global)
          PROVE q = Guard!UserRole("delete", u, r, Global)
      BY <2>1, <2>2, UserRoleFields
    <2>3. ASSUME NEW pc \in Guard!Steps, NEW r \in Roles, q = Guard!Permission(pc, r)
          PROVE q = Guard!Permission("delete", r)
      BY <2>1, <2>3 DEF Guard!Permission
    <2> HIDE DEF q
    <2> QED
      BY <2>1, <2>2, <2>3, QueryForms, GuardAssumption DEF Deletions, GuardAssumption
  <1>2. Guard!Remaining(q) # {}
    BY <1>1 DEF GuardInv, Harmless
  <1>3. Guard!Admins' = AdminsOf(assigned', granted', joined', groupRole', inherits')
    BY DEF Guard!Admins, Guard!AdminsWith, Guard!Effective, Guard!Closed, Guard!Seeds, AdminsOf
  <1>4. Guard!Remaining(q) = AdminsOf(Guard!DirectWithout(q), Guard!GrantedWithout(q), joined, groupRole, inherits)
    BY DEF Guard!Remaining, Guard!AdminsWith, Guard!Effective, Guard!Closed, Guard!Seeds, AdminsOf
  <1>5. Guard!Admins' = Guard!Remaining(q)
    BY <1>3, <1>4 DEF Guard!Delete
  <1> QED
    BY <1>2, <1>5

\* The guard holds in every step.
LEMMA GuardHoldsStep ==
    ASSUME Guard!TypeOK, GuardInv, [Guard!Next]_Guard!vars, Guard!Admins # {}, Guard!Admins' = {}
    PROVE Guard!Overtaken \/ Guard!AsRecord
  <1>0. ASSUME UNCHANGED Guard!tables PROVE FALSE
    <2>1. Guard!Admins = AdminsOf(assigned, granted, joined, groupRole, inherits)
      BY DEF Guard!Admins, Guard!AdminsWith, Guard!Effective, Guard!Closed, Guard!Seeds, AdminsOf
    <2>2. Guard!Admins' = AdminsOf(assigned', granted', joined', groupRole', inherits')
      BY DEF Guard!Admins, Guard!AdminsWith, Guard!Effective, Guard!Closed, Guard!Seeds, AdminsOf
    <2> QED
      BY <1>0, <2>1, <2>2 DEF Guard!tables
  <1>1. CASE UNCHANGED Guard!vars
    BY <1>0, <1>1 DEF Guard!vars, Guard!tables
  <1>2. CASE request' = request /\ Guard!Changed({})
    BY <1>2 DEF Guard!AsRecord
  <1>3. ASSUME NEW w \in Requests, Guard!Delete(w) PROVE Guard!Overtaken
    <2>1. w \in behind
      BY <1>3, DeleteKeepsAdmin
    <2>2. request[w].pc = "delete" /\ request'[w] = Guard!Idle
      BY <1>3 DEF Guard!Delete, Guard!TypeOK
    <2> QED
      BY <2>1, <2>2 DEF Guard!Overtaken
  <1> QED
    BY <1>0, <1>1, <1>2, <1>3, StepKinds

\* Only a revocation that another change has overtaken, or an edit of the
\* tables as records, takes the last global administrator away.
THEOREM GuardCorrect == Guard!Spec => GuardHolds
  <1>1. Guard!Init => GuardInv
    <2>1. ASSUME Guard!Init, NEW w \in Requests, NEW q \in Deletions PROVE request[w] # q
      BY <2>1, DeletionFacts DEF Guard!Init
    <2> QED
      BY <2>1 DEF GuardInv
  <1>2. Guard!TypeOK /\ GuardInv /\ [Guard!Next]_Guard!vars => GuardInv'
    <2>1. ASSUME GuardInv, UNCHANGED Guard!vars PROVE GuardInv'
      <3>1. ASSUME NEW w \in Requests, w \notin behind', NEW q \in Deletions, request'[w] = q PROVE Harmless(q)'
        <4>1. UNCHANGED Guard!tables
          BY <2>1 DEF Guard!vars, Guard!tables
        <4>2. Harmless(q)
          BY <2>1, <3>1 DEF GuardInv, Guard!vars
        <4> QED
          BY <4>1, <4>2, HarmlessStable
      <3>2. Deletions' = Deletions
        BY DEF Deletions, Guard!UserRole, Guard!Permission
      <3> QED
        BY <3>1, <3>2 DEF GuardInv
    <2> QED
      BY <2>1, GuardStep
  <1>3. Guard!TypeOK /\ GuardInv /\ [Guard!Next]_Guard!vars => Guard!AsRecord \/ Guard!Overtaken \/ (Guard!Admins # {} => Guard!Admins' # {})
    BY GuardHoldsStep
  <1>4. Guard!Spec => []Guard!TypeOK
    BY TypeCorrect
  <1> QED
    BY <1>1, <1>2, <1>3, <1>4, PTL DEF Guard!Spec, GuardHolds, Guard!GuardHolds
=============================================================================
