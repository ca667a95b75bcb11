------------------------ MODULE SessionVersionProofs ------------------------
(***************************************************************************)
(* Proofs about SessionVersion, for any users, roles, groups, browsers and *)
(* writers.                                                                *)
(*                                                                         *)
(* The users a role's bump reaches are those who have the role: following  *)
(* the inheritance up from the role or down from the user is the same.     *)
(* So a bump that is due keeps reaching a user whose roles stay, and a     *)
(* commit that changes a user's roles is due to reach that user or leaves  *)
(* a gap.                                                                  *)
(***************************************************************************)
EXTENDS MCSessionVersion, TLAPS

\* What a login under way has read is right, or it has been overtaken.
LoginInv == \A b \in Browsers : login[b] # NoLogin =>
                login[b].role = Primary(login[b].user) \/ login[b].raced
SessionInv == LoginInv /\ RoleExplained

-----------------------------------------------------------------------------
(* The closure under inheritance.                                          *)

\* The closure is closed, contains its seeds, and is the least such set.
LEMMA EffectiveClosed ==
    ASSUME NEW S \in SUBSET Roles, NEW h \in SUBSET Pairs
    PROVE /\ Effective(S, h) \in ClosedOver(S, h)
          /\ \A T \in ClosedOver(S, h) : Effective(S, h) \subseteq T
  <1>1. Effective(S, h) \in SUBSET Roles /\ S \subseteq Effective(S, h)
    BY DEF Effective, ClosedOver
  <1>2. ASSUME NEW e \in h, e[1] \in Effective(S, h) PROVE e[2] \in Effective(S, h)
    <2>1. e[2] \in Roles
      BY DEF Pairs
    <2>2. \A T \in ClosedOver(S, h) : e[2] \in T
      BY <1>2 DEF Effective, ClosedOver, Closed
    <2> QED
      BY <2>1, <2>2 DEF Effective
  <1>3. Effective(S, h) \in ClosedOver(S, h)
    BY <1>1, <1>2 DEF ClosedOver, Closed
  <1> QED
    BY <1>3 DEF Effective

\* The roles that lead to a role contain it and are closed upwards.
LEMMA ImpactingClosed ==
    ASSUME NEW r \in Roles, NEW h \in SUBSET Pairs
    PROVE /\ Impacting(r, h) \in SUBSET Roles /\ r \in Impacting(r, h)
          /\ ClosedUp(Impacting(r, h), h)
          /\ \A T \in SUBSET Roles : r \in T /\ ClosedUp(T, h) => Impacting(r, h) \subseteq T
  <1>1. ASSUME NEW e \in h, e[2] \in Impacting(r, h) PROVE e[1] \in Impacting(r, h)
    <2>1. e[1] \in Roles
      BY DEF Pairs
    <2>2. \A T \in SUBSET Roles : r \in T /\ ClosedUp(T, h) => e[1] \in T
      BY <1>1 DEF Impacting, ClosedUp
    <2> QED
      BY <2>1, <2>2 DEF Impacting
  <1> QED
    BY <1>1 DEF Impacting, ClosedUp

\* Down from the seeds or up from the role: the same.
LEMMA UpAndDown ==
    ASSUME NEW S \in SUBSET Roles, NEW h \in SUBSET Pairs, NEW r \in Roles
    PROVE r \in Effective(S, h) <=> S \cap Impacting(r, h) # {}
  <1>1. ASSUME r \in Effective(S, h), S \cap Impacting(r, h) = {} PROVE FALSE
    <2> DEFINE T == Roles \ Impacting(r, h)
    <2>1. T \in SUBSET Roles /\ S \subseteq T /\ r \notin T
      BY <1>1, ImpactingClosed
    <2>2. ASSUME NEW e \in h, e[1] \in T PROVE e[2] \in T
      <3>1. e[2] \in Roles
        BY DEF Pairs
      <3>2. e[2] \in Impacting(r, h) => e[1] \in Impacting(r, h)
        BY ImpactingClosed DEF ClosedUp
      <3> QED
        BY <2>2, <3>1, <3>2
    <2>3. T \in ClosedOver(S, h)
      BY <2>1, <2>2 DEF ClosedOver, Closed
    <2> QED
      BY <1>1, <2>1, <2>3, EffectiveClosed
  <1>2. ASSUME NEW x \in S, x \in Impacting(r, h), r \notin Effective(S, h) PROVE FALSE
    <2> DEFINE E == Effective(S, h)
               T == Roles \ E
    <2>1. E \in SUBSET Roles /\ S \subseteq E /\ Closed(E, h)
      BY EffectiveClosed DEF ClosedOver
    <2> HIDE DEF E
    <2>2. ASSUME NEW e \in h, e[2] \in T PROVE e[1] \in T
      BY <2>1, <2>2 DEF Closed, Pairs
    <2>3. T \in SUBSET Roles /\ r \in T /\ ClosedUp(T, h)
      BY <1>2, <2>2 DEF ClosedUp, E
    <2>4. x \in T
      BY <1>2, <2>3, ImpactingClosed
    <2> QED
      BY <2>1, <2>4
  <1> QED
    BY <1>1, <1>2

\* Rows for roles that are not in the closure do not matter to it.
LEMMA OtherInheritance ==
    ASSUME NEW S \in SUBSET Roles, NEW h \in SUBSET Pairs, NEW k \in SUBSET Pairs,
           \A e \in (h \ k) \cup (k \ h) : e[1] \notin Effective(S, k)
    PROVE Effective(S, h) = Effective(S, k)
  <1> DEFINE O == Effective(S, h)
             N == Effective(S, k)
  <1>1. O \in ClosedOver(S, h) /\ N \in ClosedOver(S, k)
    BY EffectiveClosed
  <1>2. \A T \in ClosedOver(S, h) : O \subseteq T
    BY EffectiveClosed
  <1>3. \A T \in ClosedOver(S, k) : N \subseteq T
    BY EffectiveClosed
  <1>4. \A e \in (h \ k) \cup (k \ h) : e[1] \notin N
    OBVIOUS
  <1> HIDE DEF O, N
  <1>5. N \in ClosedOver(S, h)
    BY <1>1, <1>4 DEF ClosedOver, Closed
  <1>6. O \subseteq N
    BY <1>2, <1>5
  <1>7. O \in ClosedOver(S, k)
    BY <1>1, <1>4, <1>6 DEF ClosedOver, Closed
  <1>8. O = N
    BY <1>3, <1>6, <1>7
  <1> QED
    BY <1>8 DEF O, N

-----------------------------------------------------------------------------
(* Whom a bump reaches.                                                    *)

Tables == /\ direct \subseteq Users \X Roles /\ member \subseteq Users \X Groups
          /\ groupRole \subseteq Groups \X Roles /\ inherits \subseteq Pairs

\* The users of a role are those who have it (impactedUserIDsForRoleCTE),
LEMMA ImpactedHave ==
    ASSUME Tables, NEW r \in Roles, NEW u \in Users
    PROVE u \in Impacted(r) <=> r \in RolesOf(u)
  <1>1. Seeds(u) \in SUBSET Roles /\ inherits \in SUBSET Pairs
    BY DEF Seeds, Tables
  <1>2. r \in Effective(Seeds(u), inherits) <=> Seeds(u) \cap Impacting(r, inherits) # {}
    BY <1>1, UpAndDown
  <1> QED
    BY <1>2 DEF Impacted, RolesOf

\* after a step as well.
LEMMA ImpactedHaveNext ==
    ASSUME Tables', NEW r \in Roles, NEW u \in Users
    PROVE u \in Impacted(r)' <=> r \in RolesOf(u)'
  <1>1. Seeds(u)' \in SUBSET Roles /\ inherits' \in SUBSET Pairs
    BY DEF Seeds, Tables
  <1>2. r \in Effective(Seeds(u)', inherits') <=> Seeds(u)' \cap Impacting(r, inherits') # {}
    BY <1>1, UpAndDown
  <1>3. RolesOf(u)' = Effective(Seeds(u)', inherits')
    BY DEF RolesOf, Effective, ClosedOver, Closed
  <1>4. u \in Impacted(r)' <=> Seeds(u)' \cap Impacting(r, inherits') # {}
    BY DEF Impacted, Impacting, ClosedUp
  <1> QED
    BY <1>2, <1>3, <1>4

\* A bump that reaches a user keeps reaching the user while the roles stay.
LEMMA SameReach ==
    ASSUME Tables, Tables', NEW bump \in Bumps, NEW u \in Users, RolesOf(u)' = RolesOf(u)
    PROVE u \in Who(bump)' <=> u \in Who(bump)
  <1>1. CASE \E v \in Users : bump = UserBump(v)
    BY <1>1 DEF UserBump, Who
  <1>2. CASE \E r \in Roles : bump = RoleBump(r)
    <2>1. PICK r \in Roles : bump = RoleBump(r)
      BY <1>2
    <2>2. bump.of # "user" /\ bump.id = r
      BY <2>1 DEF RoleBump
    <2>3. Who(bump) = Impacted(r) /\ Who(bump)' = Impacted(r)'
      BY <2>2 DEF Who
    <2> QED
      BY <2>3, ImpactedHave, ImpactedHaveNext
  <1> QED
    BY <1>1, <1>2 DEF Bumps

-----------------------------------------------------------------------------
(* Commits.                                                                *)

\* What a commit does to the sessions: nothing.  It marks the logins it has
\* overtaken, and keeps the bumps that are due.
Committed == /\ Tables /\ Tables' /\ Raced
             /\ version' = version /\ cookie' = cookie /\ gap \subseteq gap'
             /\ \A w \in Writers : writer[w] \in Seq(Bumps) /\ (writer[w] = <<>> \/ writer'[w] = writer[w])
Explained(u) == RolesOf(u)' = RolesOf(u) \/ Covered(u)' \/ u \in gap'

\* A user that a bump is due to reach stays so, unless the roles change.
LEMMA StaysCovered ==
    ASSUME Committed, NEW u \in Users, Covered(u), RolesOf(u)' = RolesOf(u)
    PROVE Covered(u)'
  <1>1. PICK w \in Writers : \E i \in DOMAIN writer[w] : u \in Who(writer[w][i])
    BY DEF Covered
  <1>2. PICK i \in DOMAIN writer[w] : u \in Who(writer[w][i])
    BY <1>1
  <1>3. writer[w] \in Seq(Bumps) /\ writer'[w] = writer[w]
    BY <1>2 DEF Committed
  <1> DEFINE bump == writer[w][i]
  <1>4. bump \in Bumps
    BY <1>2, <1>3
  <1>5. PICK c : c = bump
    OBVIOUS
  <1>6. u \in Who(c)' <=> u \in Who(c)
    BY <1>4, <1>5, SameReach DEF Committed
  <1>7. writer'[w][i] = c
    BY <1>3, <1>5
  <1>8. u \in Who(c)
    BY <1>2, <1>5
  <1>9. u \in Who(c)'
    BY <1>6, <1>8
  <1>10. u \in Who(writer[w][i])'
    BY <1>7, <1>9 DEF Who, Impacted
  <1>11. i \in DOMAIN writer'[w]
    BY <1>3
  <1> QED
    BY <1>10, <1>11 DEF Covered

\* A commit that explains every change of roles keeps the invariant.
LEMMA CommitKeeps ==
    ASSUME Committed, SessionInv, login \in [Browsers -> Logins], cookie \in [Browsers -> Cookies],
           \A u \in Users : Explained(u)
    PROVE SessionInv'
  <1>1. ASSUME NEW b \in Browsers, login'[b] # NoLogin
        PROVE login'[b].role = Primary(login[b].user)' \/ login'[b].raced
    <2> DEFINE l == login[b]
               changed == {u \in Users : Primary(u)' # Primary(u)}
    <2>1. login'[b] = IF l # NoLogin /\ l.user \in changed THEN [l EXCEPT !.raced = TRUE] ELSE l
      BY DEF Committed, Raced
    <2>2. l \in [step : {"version"}, user : Users, role : Names, raced : BOOLEAN]
      BY <1>1, <2>1 DEF Logins
    <2>3. l # NoLogin
      BY <1>1, <2>1
    <2>4. CASE l.user \in changed
      BY <2>1, <2>2, <2>3, <2>4
    <2>5. CASE l.user \notin changed
      <3>1. PICK u \in Users : u = l.user
        BY <2>2
      <3>2. Primary(u)' = Primary(u)
        BY <2>5, <3>1
      <3>3. l.role = Primary(u) \/ l.raced
        BY <2>3, <3>1 DEF SessionInv, LoginInv
      <3>4. login'[b] = l /\ login'[b].user = u
        BY <2>1, <2>5, <3>1
      <3>5. Primary(login[b].user)' = Primary(u)'
        BY <3>4 DEF Primary, RolesOf, Seeds
      <3> QED
        BY <3>2, <3>3, <3>4, <3>5
    <2> QED
      BY <2>4, <2>5
  <1>2. ASSUME NEW b \in Browsers, Valid(b)'
        PROVE cookie'[b].role = Primary(cookie[b].user)' \/ Excused(b)'
    <2>1. cookie' = cookie /\ version' = version /\ gap \subseteq gap'
      BY DEF Committed
    <2>2. Valid(b)
      BY <1>2, <2>1 DEF Valid
    <2>3. cookie[b] \in [user : Users, role : Names, version : Nat \ {0}, raced : BOOLEAN]
      BY <2>2 DEF Valid, Cookies
    <2>4. PICK u \in Users : u = cookie[b].user
      BY <2>3
    <2>5. cookie[b].role = Primary(u) \/ Covered(u) \/ cookie[b].raced \/ u \in gap
      BY <2>2, <2>4 DEF SessionInv, RoleExplained, Excused
    <2>6. Explained(u)
      OBVIOUS
    <2>7. RolesOf(u)' = RolesOf(u) => Primary(u)' = Primary(u) /\ (Covered(u) => Covered(u)')
      BY StaysCovered DEF Primary, Best, First
    <2>8. cookie[b].role = Primary(u)' \/ Covered(u)' \/ cookie[b].raced \/ u \in gap'
      BY <2>1, <2>5, <2>6, <2>7 DEF Explained
    <2>9. cookie'[b] = cookie[b] /\ cookie'[b].user = u
      BY <2>1, <2>4
    <2>10. Primary(cookie[b].user)' = Primary(u)' /\ Covered(cookie[b].user)' = Covered(u)'
      BY <2>9 DEF Primary, RolesOf, Seeds, Covered
    <2> QED
      BY <2>8, <2>9, <2>10 DEF Excused
  <1>3. LoginInv'
    BY <1>1 DEF LoginInv
  <1>4. RoleExplained'
    BY <1>2 DEF RoleExplained
  <1> QED
    BY <1>3, <1>4 DEF SessionInv

-----------------------------------------------------------------------------
(* Each change of the tables explains what it does to roles.               *)

\* A due bump of a user reaches the user,
LEMMA CoversUser ==
    ASSUME NEW w \in Writers, NEW u \in Users, \E i \in DOMAIN writer'[w] : writer'[w][i] = UserBump(u)
    PROVE Covered(u)'
  <1>1. PICK i \in DOMAIN writer'[w] : writer'[w][i] = UserBump(u)
    OBVIOUS
  <1>2. u \in Who(writer[w][i])'
    BY <1>1 DEF Who, UserBump
  <1> QED
    BY <1>1, <1>2 DEF Covered

\* and one of a role whoever then has the role.
LEMMA CoversRole ==
    ASSUME Tables', NEW w \in Writers, NEW u \in Users, NEW r \in Roles, r \in RolesOf(u)',
           \E i \in DOMAIN writer'[w] : writer'[w][i] = RoleBump(r)
    PROVE Covered(u)'
  <1>1. PICK i \in DOMAIN writer'[w] : writer'[w][i] = RoleBump(r)
    OBVIOUS
  <1>2. u \in Impacted(r)'
    BY ImpactedHaveNext
  <1>3. RoleBump(r).of # "user" /\ RoleBump(r).id = r
    BY DEF RoleBump
  <1>4. Who(writer[w][i])' = Impacted(r)'
    BY <1>1, <1>3 DEF Who, Impacted
  <1> QED
    BY <1>1, <1>2, <1>4 DEF Covered

\* The same seeds under the same inheritance give the same roles,
LEMMA SameSeeds ==
    ASSUME NEW u, Seeds(u)' = Seeds(u), inherits' = inherits
    PROVE RolesOf(u)' = RolesOf(u)
  BY DEF RolesOf, Effective, ClosedOver, Closed

\* and a seed is a role.
LEMMA SeedHeld ==
    ASSUME Tables', NEW u, NEW r \in Seeds(u)'
    PROVE r \in RolesOf(u)'
  <1>1. Seeds(u)' \in SUBSET Roles /\ inherits' \in SUBSET Pairs
    BY DEF Seeds, Tables
  <1>2. r \in Effective(Seeds(u)', inherits')
    BY <1>1, EffectiveClosed DEF ClosedOver
  <1> QED
    BY <1>2 DEF RolesOf, Effective, ClosedOver, Closed

\* What a change owes: the bumps in due, and an explanation for each user.
Owes(w, due) == /\ Commit(w, due) /\ due \in Seq(Bumps)
                /\ Tables' /\ gap \subseteq gap' /\ gap' \subseteq Users
                /\ \A u \in Users : Explained(u)

SameRows(u) == /\ \A r \in Roles : <<u, r>> \in direct' <=> <<u, r>> \in direct
               /\ \A g \in Groups : <<u, g>> \in member' <=> <<u, g>> \in member

\* An assignment or a membership changes the roles of its user only.
LEMMA UserChange ==
    ASSUME TypeOK, NEW w \in Writers, NEW due \in Seq(Bumps), Commit(w, due), Tables',
           UNCHANGED <<groupRole, inherits, gap>>,
           \A u \in Users : (\E i \in DOMAIN due : due[i] = UserBump(u)) \/ SameRows(u)
    PROVE Owes(w, due)
  <1>1. writer'[w] = due
    BY DEF TypeOK, Commit
  <1>2. ASSUME NEW u \in Users PROVE Explained(u)
    <2>1. CASE \E i \in DOMAIN due : due[i] = UserBump(u)
      BY <1>1, <2>1, CoversUser DEF Explained
    <2>2. CASE SameRows(u)
      <3>1. Seeds(u)' = Seeds(u)
        BY <2>2 DEF Seeds, SameRows
      <3> QED
        BY <3>1, SameSeeds DEF Explained
    <2> QED
      BY <2>1, <2>2
  <1> QED
    BY <1>2 DEF Owes, TypeOK

\* With a bump of one user, no other user's rows may change.
LEMMA OneUserChange ==
    ASSUME TypeOK, NEW w \in Writers, NEW u \in Users, Commit(w, <<UserBump(u)>>), Tables',
           UNCHANGED <<groupRole, inherits, gap>>, \A v \in Users : v = u \/ SameRows(v)
    PROVE Owes(w, <<UserBump(u)>>)
  <1> DEFINE due == <<UserBump(u)>>
  <1>1. due \in Seq(Bumps) /\ 1 \in DOMAIN due /\ due[1] = UserBump(u)
    BY DEF Bumps
  <1>2. Commit(w, due)
    OBVIOUS
  <1> HIDE DEF due
  <1>3. Owes(w, due)
    BY <1>1, <1>2, UserChange
  <1> QED
    BY <1>3 DEF due

\* The same for a row that goes from one user to another.
LEMMA TwoUsersChange ==
    ASSUME TypeOK, NEW w \in Writers, NEW u \in Users, NEW v \in Users,
           Commit(w, <<UserBump(u), UserBump(v)>>), Tables',
           UNCHANGED <<groupRole, inherits, gap>>, \A x \in Users : x = u \/ x = v \/ SameRows(x)
    PROVE Owes(w, <<UserBump(u), UserBump(v)>>)
  <1> DEFINE due == <<UserBump(u), UserBump(v)>>
  <1>1. /\ due \in Seq(Bumps) /\ 1 \in DOMAIN due /\ 2 \in DOMAIN due
        /\ due[1] = UserBump(u) /\ due[2] = UserBump(v)
    BY DEF Bumps
  <1>2. Commit(w, due)
    OBVIOUS
  <1> HIDE DEF due
  <1>3. Owes(w, due)
    BY <1>1, <1>2, UserChange
  <1> QED
    BY <1>3 DEF due

\* Requests of the access page explain what they change,
LEMMA AccessOwes ==
    ASSUME TypeOK, NEW w \in Writers, Access(w)
    PROVE \E due : Owes(w, due)
  <1>1. ASSUME NEW u \in Users, NEW r \in Roles, GrantUserRole(w, u, r) PROVE Owes(w, <<UserBump(u)>>)
    <2>1. Tables' /\ Commit(w, <<UserBump(u)>>) /\ UNCHANGED <<groupRole, inherits, gap>>
      BY <1>1 DEF GrantUserRole, TypeOK, Tables
    <2>2. \A v \in Users : v = u \/ SameRows(v)
      BY <1>1 DEF GrantUserRole, SameRows
    <2> QED
      BY <2>1, <2>2, OneUserChange
  <1>2. ASSUME NEW u \in Users, NEW r \in Roles, RevokeUserRole(w, u, r) PROVE Owes(w, <<UserBump(u)>>)
    <2>1. Tables' /\ Commit(w, <<UserBump(u)>>) /\ UNCHANGED <<groupRole, inherits, gap>>
      BY <1>2 DEF RevokeUserRole, TypeOK, Tables
    <2>2. \A v \in Users : v = u \/ SameRows(v)
      BY <1>2 DEF RevokeUserRole, SameRows
    <2> QED
      BY <2>1, <2>2, OneUserChange
  <1>3. ASSUME NEW r \in Roles, ChangePermission(w, r) PROVE Owes(w, <<RoleBump(r)>>)
    <2>1. <<RoleBump(r)>> \in Seq(Bumps)
      BY DEF Bumps
    <2>2. Tables' /\ UNCHANGED <<tables, gap>> /\ Commit(w, <<RoleBump(r)>>)
      BY <1>3 DEF ChangePermission, TypeOK, Tables, tables
    <2>3. ASSUME NEW u \in Users PROVE Explained(u)
      <3>1. Seeds(u)' = Seeds(u) /\ inherits' = inherits
        BY <2>2 DEF Seeds, tables
      <3> QED
        BY <3>1, SameSeeds DEF Explained
    <2> QED
      BY <2>1, <2>2, <2>3 DEF Owes, TypeOK
  <1> QED
    BY <1>1, <1>2, <1>3 DEF Access

\* and so do assignments and memberships that are saved as records.
LEMMA UserSavesOwe ==
    ASSUME TypeOK, NEW w \in Writers,
           \/ \E u \in Users, r \in Roles : InsertUserRole(w, u, r)
           \/ \E old, new \in Users \X Roles : MoveUserRole(w, old, new)
           \/ \E u \in Users, g \in Groups : InsertMember(w, u, g)
           \/ \E old, new \in Users \X Groups : MoveMember(w, old, new)
    PROVE \E due : Owes(w, due)
  <1>1. ASSUME NEW u \in Users, NEW r \in Roles, InsertUserRole(w, u, r) PROVE Owes(w, <<UserBump(u)>>)
    <2>1. Tables' /\ Commit(w, <<UserBump(u)>>) /\ UNCHANGED <<groupRole, inherits, gap>>
      BY <1>1 DEF InsertUserRole, TypeOK, Tables
    <2>2. \A v \in Users : v = u \/ SameRows(v)
      BY <1>1 DEF InsertUserRole, SameRows
    <2> QED
      BY <2>1, <2>2, OneUserChange
  <1>2. ASSUME NEW old \in Users \X Roles, NEW new \in Users \X Roles, MoveUserRole(w, old, new)
        PROVE Owes(w, <<UserBump(old[1]), UserBump(new[1])>>)
    <2>1. /\ Tables' /\ UNCHANGED <<groupRole, inherits, gap>>
          /\ Commit(w, <<UserBump(old[1]), UserBump(new[1])>>)
      BY <1>2 DEF MoveUserRole, MoveUserRoleThen, TypeOK, Tables
    <2>2. \A v \in Users : v = old[1] \/ v = new[1] \/ SameRows(v)
      BY <1>2 DEF MoveUserRole, MoveUserRoleThen, SameRows
    <2>3. old[1] \in Users /\ new[1] \in Users
      OBVIOUS
    <2> QED
      BY <2>1, <2>2, <2>3, TwoUsersChange
  <1>3. ASSUME NEW u \in Users, NEW g \in Groups, InsertMember(w, u, g) PROVE Owes(w, <<UserBump(u)>>)
    <2>1. Tables' /\ Commit(w, <<UserBump(u)>>) /\ UNCHANGED <<groupRole, inherits, gap>>
      BY <1>3 DEF InsertMember, TypeOK, Tables
    <2>2. \A v \in Users : v = u \/ SameRows(v)
      BY <1>3 DEF InsertMember, SameRows
    <2> QED
      BY <2>1, <2>2, OneUserChange
  <1>4. ASSUME NEW old \in Users \X Groups, NEW new \in Users \X Groups, MoveMember(w, old, new)
        PROVE Owes(w, <<UserBump(old[1]), UserBump(new[1])>>)
    <2>1. /\ Tables' /\ UNCHANGED <<groupRole, inherits, gap>>
          /\ Commit(w, <<UserBump(old[1]), UserBump(new[1])>>)
      BY <1>4 DEF MoveMember, TypeOK, Tables
    <2>2. \A v \in Users : v = old[1] \/ v = new[1] \/ SameRows(v)
      BY <1>4 DEF MoveMember, SameRows
    <2>3. old[1] \in Users /\ new[1] \in Users
      OBVIOUS
    <2> QED
      BY <2>1, <2>2, <2>3, TwoUsersChange
  <1> QED
    BY <1>1, <1>2, <1>3, <1>4

-----------------------------------------------------------------------------
(* Rows of groups and of the inheritance.                                  *)

\* Seeds that change change roles: those who have lost the old row's role are
\* the group's members, those who have got the new row's have the new role.
LEMMA GroupRoleChange ==
    ASSUME TypeOK, Tables', UNCHANGED <<direct, member, inherits>>, NEW u \in Users,
           NEW lost \in SUBSET (Groups \X Roles), NEW won \in SUBSET (Groups \X Roles),
           groupRole' = (groupRole \ lost) \cup won,
           \A e \in lost : u \notin MembersOf(e[1]),
           \A e \in won : e[2] \notin RolesOf(u)'
    PROVE RolesOf(u)' = RolesOf(u)
  <1>1. \A r \in Roles : r \in Seeds(u)' => r \in RolesOf(u)'
    BY SeedHeld
  <1>2. ASSUME NEW r \in Roles, NEW g \in Groups, <<u, g>> \in member
        PROVE <<g, r>> \in groupRole' <=> <<g, r>> \in groupRole
    <2>1. CASE <<g, r>> \in won
      <3>1. <<g, r>> \in groupRole' /\ <<u, g>> \in member'
        BY <1>2, <2>1
      <3>2. r \in Seeds(u)'
        BY <3>1 DEF Seeds
      <3> QED
        BY <1>1, <2>1, <3>2
    <2>2. CASE <<g, r>> \in lost
      BY <1>2, <2>2 DEF MembersOf
    <2> QED
      BY <2>1, <2>2
  <1>3. Seeds(u)' = Seeds(u)
    BY <1>2 DEF Seeds
  <1> QED
    BY <1>3, SameSeeds

\* A group's role that is saved as a record owes a bump of the role, and leaves
\* a gap when the row leaves the group.
LEMMA GroupSavesOwe ==
    ASSUME TypeOK, NEW w \in Writers,
           \/ \E g \in Groups, r \in Roles : InsertGroupRole(w, g, r)
           \/ \E old, new \in Groups \X Roles : MoveGroupRole(w, old, new)
    PROVE \E due : Owes(w, due)
  <1>1. ASSUME NEW g \in Groups, NEW r \in Roles, InsertGroupRole(w, g, r) PROVE Owes(w, <<RoleBump(r)>>)
    <2>1. /\ Tables' /\ UNCHANGED <<direct, member, inherits, gap>>
          /\ groupRole' = (groupRole \ {}) \cup {<<g, r>>} /\ Commit(w, <<RoleBump(r)>>)
      BY <1>1 DEF InsertGroupRole, TypeOK, Tables
    <2>2. writer'[w] = <<RoleBump(r)>> /\ <<RoleBump(r)>> \in Seq(Bumps)
      BY <2>1 DEF Commit, TypeOK, Bumps
    <2>3. ASSUME NEW u \in Users PROVE Explained(u)
      <3>1. CASE r \in RolesOf(u)'
        BY <2>1, <2>2, <3>1, CoversRole DEF Explained
      <3>2. CASE r \notin RolesOf(u)'
        <4> DEFINE lost == {}
                   won == {<<g, r>>}
        <4>1. /\ lost \in SUBSET (Groups \X Roles) /\ won \in SUBSET (Groups \X Roles)
              /\ groupRole' = (groupRole \ lost) \cup won
              /\ \A x \in lost : u \notin MembersOf(x[1])
              /\ \A x \in won : x[2] \notin RolesOf(u)'
          BY <2>1, <3>2
        <4> HIDE DEF lost, won
        <4> QED
          BY <2>1, <4>1, GroupRoleChange DEF Explained
      <3> QED
        BY <3>1, <3>2
    <2> QED
      BY <2>1, <2>2, <2>3 DEF Owes, TypeOK
  <1>2. ASSUME NEW old \in Groups \X Roles, NEW new \in Groups \X Roles, MoveGroupRole(w, old, new)
        PROVE Owes(w, <<RoleBump(old[2]), RoleBump(new[2])>>)
    <2> DEFINE due == <<RoleBump(old[2]), RoleBump(new[2])>>
    <2>1. /\ Tables' /\ UNCHANGED <<direct, member, inherits>> /\ Commit(w, due)
          /\ old \in groupRole /\ groupRole' = (groupRole \ {old}) \cup {new}
      BY <1>2 DEF MoveGroupRole, Moved, TypeOK, Tables
    <2>2. gap' = IF old[1] = new[1] THEN gap ELSE gap \cup MembersOf(old[1])
      BY <1>2 DEF MoveGroupRole
    <2>3. old[2] \in Roles /\ new[2] \in Roles
      OBVIOUS
    <2>4. /\ due \in Seq(Bumps) /\ 2 \in DOMAIN due /\ due[2] = RoleBump(new[2])
      BY <2>3 DEF Bumps
    <2> HIDE DEF due
    <2>5. writer'[w] = due
      BY <2>1 DEF Commit, TypeOK
    <2>6. ASSUME NEW u \in Users PROVE Explained(u)
      <3>1. CASE new[2] \in RolesOf(u)'
        BY <2>1, <2>3, <2>4, <2>5, <3>1, CoversRole DEF Explained
      <3>2. CASE new[2] \notin RolesOf(u)' /\ u \notin MembersOf(old[1])
        <4> DEFINE lost == {old}
                   won == {new}
        <4>1. /\ lost \in SUBSET (Groups \X Roles) /\ won \in SUBSET (Groups \X Roles)
              /\ groupRole' = (groupRole \ lost) \cup won
              /\ \A x \in lost : u \notin MembersOf(x[1])
              /\ \A x \in won : x[2] \notin RolesOf(u)'
          BY <2>1, <3>2
        <4> HIDE DEF lost, won
        <4> QED
          BY <2>1, <4>1, GroupRoleChange DEF Explained
      <3>3. CASE new[2] \notin RolesOf(u)' /\ u \in MembersOf(old[1]) /\ old[1] # new[1]
        BY <2>2, <3>3 DEF Explained
      <3>4. CASE new[2] \notin RolesOf(u)' /\ u \in MembersOf(old[1]) /\ old[1] = new[1]
        <4>1. new[2] \in Seeds(u)'
          BY <2>1, <2>3, <3>4 DEF Seeds, MembersOf
        <4> QED
          BY <2>1, <3>4, <4>1, SeedHeld
      <3> QED
        BY <3>1, <3>2, <3>3, <3>4
    <2>7. gap \subseteq gap' /\ gap' \subseteq Users
      BY <2>2 DEF TypeOK, MembersOf
    <2>8. Owes(w, due)
      BY <2>1, <2>4, <2>6, <2>7 DEF Owes
    <2> QED
      BY <2>8 DEF due
  <1> QED
    BY <1>1, <1>2

\* Roles change only if the role of a changed row of the inheritance is among
\* those the user now has.
LEMMA InheritanceChange ==
    ASSUME TypeOK, Tables', UNCHANGED <<direct, member, groupRole>>, NEW u \in Users,
           NEW lost \in SUBSET Pairs, NEW won \in SUBSET Pairs,
           inherits' = (inherits \ lost) \cup won,
           \A e \in lost \cup won : e[1] \notin RolesOf(u)'
    PROVE RolesOf(u)' = RolesOf(u)
  <1> DEFINE S == Seeds(u)
  <1>1. Seeds(u)' = S /\ S \in SUBSET Roles
    BY DEF Seeds
  <1>2. inherits \in SUBSET Pairs /\ inherits' \in SUBSET Pairs
    BY DEF TypeOK, Tables
  <1>3. RolesOf(u)' = Effective(S, inherits') /\ RolesOf(u) = Effective(S, inherits)
    BY <1>1 DEF RolesOf, Effective, ClosedOver, Closed
  <1> HIDE DEF S
  <1>4. \A e \in (inherits \ inherits') \cup (inherits' \ inherits) : e[1] \notin Effective(S, inherits')
    BY <1>3
  <1> QED
    BY <1>1, <1>2, <1>3, <1>4, OtherInheritance

\* So a row of the inheritance owes a bump of the role that inherits, before
\* and after.
LEMMA InheritanceSavesOwe ==
    ASSUME TypeOK, NEW w \in Writers,
           \/ \E e \in Pairs : InsertInheritance(w, e)
           \/ \E old, new \in Pairs : MoveInheritance(w, old, new)
    PROVE \E due : Owes(w, due)
  <1>1. ASSUME NEW e \in Pairs, InsertInheritance(w, e) PROVE Owes(w, <<RoleBump(e[1])>>)
    <2>1. /\ Tables' /\ UNCHANGED <<direct, member, groupRole, gap>>
          /\ inherits' = (inherits \ {}) \cup {e} /\ Commit(w, <<RoleBump(e[1])>>)
      BY <1>1 DEF InsertInheritance, TypeOK, Tables
    <2>2. e[1] \in Roles
      BY DEF Pairs
    <2>3. writer'[w] = <<RoleBump(e[1])>> /\ <<RoleBump(e[1])>> \in Seq(Bumps)
      BY <2>1, <2>2 DEF Commit, TypeOK, Bumps
    <2>4. ASSUME NEW u \in Users PROVE Explained(u)
      <3>1. CASE e[1] \in RolesOf(u)'
        BY <2>1, <2>2, <2>3, <3>1, CoversRole DEF Explained
      <3>2. CASE e[1] \notin RolesOf(u)'
        <4> DEFINE lost == {}
                   won == {e}
        <4>1. /\ lost \in SUBSET Pairs /\ won \in SUBSET Pairs
              /\ inherits' = (inherits \ lost) \cup won
              /\ \A x \in lost \cup won : x[1] \notin RolesOf(u)'
          BY <2>1, <3>2
        <4> HIDE DEF lost, won
        <4> QED
          BY <2>1, <4>1, InheritanceChange DEF Explained
      <3> QED
        BY <3>1, <3>2
    <2> QED
      BY <2>1, <2>3, <2>4 DEF Owes, TypeOK
  <1>2. ASSUME NEW old \in Pairs, NEW new \in Pairs, MoveInheritance(w, old, new)
        PROVE Owes(w, <<RoleBump(old[1]), RoleBump(new[1])>>)
    <2> DEFINE due == <<RoleBump(old[1]), RoleBump(new[1])>>
    <2>1. /\ Tables' /\ UNCHANGED <<direct, member, groupRole, gap>> /\ Commit(w, due)
          /\ inherits' = (inherits \ {old}) \cup {new}
      BY <1>2 DEF MoveInheritance, TypeOK, Tables
    <2>2. old[1] \in Roles /\ new[1] \in Roles
      BY DEF Pairs
    <2>3. /\ due \in Seq(Bumps) /\ 1 \in DOMAIN due /\ 2 \in DOMAIN due
          /\ due[1] = RoleBump(old[1]) /\ due[2] = RoleBump(new[1])
      BY <2>2 DEF Bumps
    <2> HIDE DEF due
    <2>4. writer'[w] = due
      BY <2>1 DEF Commit, TypeOK
    <2>5. ASSUME NEW u \in Users PROVE Explained(u)
      <3>1. CASE old[1] \in RolesOf(u)' \/ new[1] \in RolesOf(u)'
        BY <2>1, <2>2, <2>3, <2>4, <3>1, CoversRole DEF Explained
      <3>2. CASE old[1] \notin RolesOf(u)' /\ new[1] \notin RolesOf(u)'
        <4> DEFINE lost == {old}
                   won == {new}
        <4>1. /\ lost \in SUBSET Pairs /\ won \in SUBSET Pairs
              /\ inherits' = (inherits \ lost) \cup won
              /\ \A x \in lost \cup won : x[1] \notin RolesOf(u)'
          BY <2>1, <3>2
        <4> HIDE DEF lost, won
        <4> QED
          BY <2>1, <4>1, InheritanceChange DEF Explained
      <3> QED
        BY <3>1, <3>2
    <2>6. Owes(w, due)
      BY <2>1, <2>3, <2>5 DEF Owes, TypeOK
    <2> QED
      BY <2>6 DEF due
  <1> QED
    BY <1>1, <1>2

-----------------------------------------------------------------------------
(* Type correctness.                                                       *)

CookiesPast == \A b \in Browsers : cookie[b] # NoCookie => cookie[b].version <= version[cookie[b].user]

\* The type invariant in its parts.
LEMMA TypeParts ==
    TypeOK <=> /\ Tables /\ version \in [Users -> Nat] /\ login \in [Browsers -> Logins]
               /\ cookie \in [Browsers -> Cookies] /\ CookiesPast
               /\ writer \in [Writers -> Seq(Bumps)] /\ gap \subseteq Users /\ commits \in 0 .. MaxCommits
  BY DEF TypeOK, Tables, CookiesPast

\* Whom a bump reaches is a set of users.
LEMMA WhoUsers ==
    ASSUME NEW bump \in Bumps PROVE Who(bump) \subseteq Users
  BY DEF Who, Bumps, UserBump, RoleBump, Impacted

\* Marking the overtaken logins keeps their type.
LEMMA RacedType ==
    ASSUME login \in [Browsers -> Logins], Raced PROVE login' \in [Browsers -> Logins]
  <1>1. ASSUME NEW b \in Browsers PROVE login'[b] \in Logins
    <2> DEFINE l == login[b]
               changed == {u \in Users : Primary(u)' # Primary(u)}
    <2>1. login'[b] = IF l # NoLogin /\ l.user \in changed THEN [l EXCEPT !.raced = TRUE] ELSE l
      BY DEF Raced
    <2>2. l \in Logins
      OBVIOUS
    <2> HIDE DEF l, changed
    <2>3. l # NoLogin => [l EXCEPT !.raced = TRUE] \in Logins
      BY <2>2 DEF Logins
    <2> QED
      BY <2>1, <2>2, <2>3
  <1> QED
    BY <1>1 DEF Raced

\* The best role is a name.
LEMMA PrimaryName == ASSUME NEW u PROVE Primary(u) \in Names
  <1>1. First(RolesOf(u)) \subseteq Roles
    BY DEF First, RolesOf, Effective
  <1> QED
    BY <1>1 DEF Primary, Best, Names

\* The type invariant holds at first,
LEMMA TypeInit == Init => TypeOK
  <1> SUFFICES ASSUME Init PROVE TypeOK
    OBVIOUS
  <1>1. Tables
    BY SessionAssumption DEF Init, Tables
  <1>2. version \in [Users -> Nat] /\ commits \in 0 .. MaxCommits /\ gap \subseteq Users
    BY SessionAssumption DEF Init
  <1>3. login \in [Browsers -> Logins] /\ cookie \in [Browsers -> Cookies] /\ CookiesPast
    BY DEF Init, Logins, Cookies, CookiesPast
  <1>4. writer \in [Writers -> Seq(Bumps)]
    BY DEF Init
  <1> QED
    BY <1>1, <1>2, <1>3, <1>4, TypeParts

\* a browser's step keeps it,
LEMMA TypeBrowser ==
    ASSUME TypeOK, NEW b \in Browsers, Browser(b) PROVE TypeOK'
  <1> USE TypeParts
  <1>1. ASSUME NEW u \in Users, LoginRole(b, u) PROVE TypeOK'
    <2>1. [step |-> "version", user |-> u, role |-> Primary(u), raced |-> FALSE] \in Logins
      BY PrimaryName DEF Logins
    <2>2. login' \in [Browsers -> Logins]
      BY <1>1, <2>1 DEF LoginRole
    <2>3. UNCHANGED <<tables, commits, version, cookie, writer, gap>>
      BY <1>1 DEF LoginRole
    <2> QED
      BY <2>2, <2>3 DEF TypeOK, tables
  <1>2. CASE LoginFails(b) \/ LoginAborts(b)
    <2>1. login' \in [Browsers -> Logins]
      BY <1>2 DEF LoginFails, LoginAborts, Logins
    <2>2. UNCHANGED <<tables, commits, version, writer, gap>>
      BY <1>2 DEF LoginFails, LoginAborts
    <2>3. cookie' \in [Browsers -> Cookies] /\ \A c \in Browsers : cookie'[c] = cookie[c] \/ cookie'[c] = NoCookie
      BY <1>2 DEF LoginFails, LoginAborts, Cookies
    <2>4. \A c \in Browsers : cookie'[c] # NoCookie => cookie'[c].version <= version'[cookie'[c].user]
      BY <2>2, <2>3 DEF CookiesPast
    <2> QED
      BY <2>1, <2>2, <2>3, <2>4 DEF TypeOK, tables
  <1>3. CASE LoginVersion(b)
    <2> DEFINE l == login[b]
               v == IF version[l.user] = 0 THEN 1 ELSE version[l.user]
               new == [user |-> l.user, role |-> l.role, version |-> v, raced |-> l.raced]
    <2>1. l \in [step : {"version"}, user : Users, role : Names, raced : BOOLEAN]
      BY <1>3 DEF LoginVersion, Logins
    <2>2. v \in Nat \ {0} /\ version[l.user] \in Nat /\ version[l.user] <= v
      BY <2>1
    <2>3. /\ version' = [version EXCEPT ![l.user] = v] /\ cookie' = [cookie EXCEPT ![b] = new]
          /\ login' = [login EXCEPT ![b] = NoLogin] /\ UNCHANGED <<tables, commits, writer, gap>>
      BY <1>3 DEF LoginVersion
    <2>4. new \in Cookies /\ new.version = v /\ new.user = l.user
      BY <2>1, <2>2 DEF Cookies
    <2>5. l.user \in Users
      BY <2>1
    <2> HIDE DEF v, new
    <2>6. version' \in [Users -> Nat] /\ version'[l.user] = v /\ \A u \in Users : version[u] <= version'[u]
      BY <2>2, <2>3, <2>5
    <2>7. cookie' \in [Browsers -> Cookies] /\ login' \in [Browsers -> Logins]
      BY <2>3, <2>4 DEF Logins
    <2>8. ASSUME NEW c \in Browsers, cookie'[c] # NoCookie
          PROVE cookie'[c].version <= version'[cookie'[c].user]
      <3>1. CASE c = b
        BY <2>2, <2>3, <2>4, <2>6, <3>1
      <3>2. CASE c # b
        <4>1. cookie'[c] = cookie[c]
          BY <2>3, <3>2
        <4>2. cookie[c] \in [user : Users, role : Names, version : Nat \ {0}, raced : BOOLEAN]
          BY <2>8, <4>1 DEF Cookies
        <4>3. cookie[c].version <= version[cookie[c].user]
          BY <2>8, <4>1 DEF CookiesPast
        <4>4. /\ cookie[c].version \in Nat /\ version[cookie[c].user] \in Nat /\ version'[cookie[c].user] \in Nat
              /\ version[cookie[c].user] <= version'[cookie[c].user]
          BY <2>6, <4>2
        <4> QED
          BY <4>1, <4>3, <4>4
      <3> QED
        BY <3>1, <3>2
    <2>9. Tables' /\ CookiesPast'
      BY <2>3, <2>8 DEF Tables, tables, CookiesPast
    <2> QED
      BY <2>3, <2>6, <2>7, <2>9 DEF TypeOK, Tables, CookiesPast
  <1>4. CASE ForceLogin(b) \/ Forget(b)
    <2>1. cookie' = [cookie EXCEPT ![b] = NoCookie]
      BY <1>4 DEF ForceLogin, Forget
    <2>2. UNCHANGED <<tables, commits, version, login, writer, gap>>
      BY <1>4 DEF ForceLogin, Forget
    <2>3. cookie' \in [Browsers -> Cookies]
      BY <2>1 DEF Cookies
    <2>4. \A c \in Browsers : cookie'[c] # NoCookie => cookie'[c].version <= version'[cookie'[c].user]
      BY <2>1, <2>2 DEF CookiesPast
    <2> QED
      BY <2>2, <2>3, <2>4 DEF TypeOK, tables
  <1> QED
    BY <1>1, <1>2, <1>3, <1>4 DEF Browser

\* and so do a commit that owes bumps,
LEMMA TypeOwes ==
    ASSUME TypeOK, CanCommit, NEW w \in Writers, NEW due, Owes(w, due) PROVE TypeOK'
  <1>1. /\ commits' = commits + 1 /\ writer' = [writer EXCEPT ![w] = due] /\ Raced
        /\ UNCHANGED <<version, cookie>> /\ due \in Seq(Bumps) /\ Tables' /\ gap' \subseteq Users
    BY DEF Owes, Commit
  <1>2. login' \in [Browsers -> Logins]
    BY <1>1, RacedType DEF TypeOK
  <1>3. commits' \in 0 .. MaxCommits
    BY <1>1, SessionAssumption DEF TypeOK, CanCommit
  <1>4. writer' \in [Writers -> Seq(Bumps)]
    BY <1>1 DEF TypeOK
  <1> QED
    BY <1>1, <1>2, <1>3, <1>4 DEF TypeOK, Tables

\* a bulk update,
LEMMA TypeBulk ==
    ASSUME TypeOK, BulkUpdate PROVE TypeOK' /\ Tables'
  <1>1. Tables'
    BY DEF BulkUpdate, TypeOK, Tables
  <1>2. login' \in [Browsers -> Logins]
    BY RacedType DEF TypeOK, BulkUpdate
  <1>3. commits' \in 0 .. MaxCommits
    BY SessionAssumption DEF TypeOK, BulkUpdate, CanCommit
  <1>4. UNCHANGED <<version, cookie, writer>> /\ gap' = gap \cup {u \in Users : RolesOf(u)' # RolesOf(u)}
    BY DEF BulkUpdate
  <1>5. gap' \subseteq Users
    BY <1>4 DEF TypeOK
  <1> QED
    BY <1>1, <1>2, <1>3, <1>4, <1>5 DEF TypeOK, Tables

\* a bump, done or failed, and a restart.
LEMMA TypeBump ==
    ASSUME TypeOK, NEW w \in Writers, Bump(w) \/ BumpFails(w) PROVE TypeOK'
  <1>1. writer[w] \in Seq(Bumps) /\ writer[w] # <<>> /\ writer' = [writer EXCEPT ![w] = Tail(@)]
    BY DEF TypeOK, Bump, BumpTo, BumpFails
  <1>2. Head(writer[w]) \in Bumps /\ Tail(writer[w]) \in Seq(Bumps)
    BY <1>1
  <1>3. writer' \in [Writers -> Seq(Bumps)]
    BY <1>1, <1>2 DEF TypeOK
  <1>4. gap' \subseteq Users
    BY <1>2, WhoUsers DEF TypeOK, Bump, BumpTo, BumpFails
  <1>5. UNCHANGED <<tables, commits, login, cookie>>
    BY DEF Bump, BumpTo, BumpFails
  <1>6. version' \in [Users -> Nat] /\ \A u \in Users : version[u] <= version'[u]
    <2>1. CASE Bump(w)
      <3>1. version \in [Users -> Nat] /\ Increased \in [Users -> Nat] /\ \A u \in Users : version[u] <= Increased[u]
        BY DEF TypeOK, Increased
      <3>2. PICK S : version' = [u \in Users |-> IF u \in S THEN Increased[u] ELSE version[u]]
        BY <2>1 DEF Bump, BumpTo
      <3> QED
        BY <3>1, <3>2
    <2>2. CASE BumpFails(w)
      BY <2>2 DEF TypeOK, BumpFails
    <2> QED
      BY <2>1, <2>2
  <1>7. ASSUME NEW b \in Browsers, cookie[b] # NoCookie PROVE cookie[b].version <= version'[cookie[b].user]
    <2>1. cookie[b] \in [user : Users, role : Names, version : Nat \ {0}, raced : BOOLEAN]
      BY <1>7 DEF TypeOK, Cookies
    <2>2. /\ cookie[b].version \in Nat /\ version[cookie[b].user] \in Nat /\ version'[cookie[b].user] \in Nat
          /\ version[cookie[b].user] <= version'[cookie[b].user]
      BY <1>6, <2>1 DEF TypeOK
    <2>3. cookie[b].version <= version[cookie[b].user]
      BY <1>7 DEF TypeOK
    <2> QED
      BY <2>2, <2>3
  <1> QED
    BY <1>3, <1>4, <1>5, <1>6, <1>7 DEF TypeOK, tables

\* Every step keeps the types.
LEMMA TypeStep == TypeOK /\ [Next]_vars => TypeOK'
  <1> SUFFICES ASSUME TypeOK, [Next]_vars PROVE TypeOK'
    OBVIOUS
  <1>1. ASSUME NEW b \in Browsers, Browser(b) PROVE TypeOK'
    BY <1>1, TypeBrowser
  <1>2. ASSUME NEW w \in Writers, CanCommit, Access(w) \/ Save(w) PROVE TypeOK'
    BY <1>2, AccessOwes, UserSavesOwe, GroupSavesOwe, InheritanceSavesOwe, TypeOwes DEF Save
  <1>3. ASSUME NEW w \in Writers, Bump(w) \/ BumpFails(w) PROVE TypeOK'
    BY <1>3, TypeBump
  <1>4. CASE BulkUpdate
    BY <1>4, TypeBulk
  <1>5. CASE Restart
    BY <1>5 DEF Restart, TypeOK, tables, Logins
  <1>6. CASE UNCHANGED vars
    BY <1>6 DEF vars, tables, TypeOK
  <1> QED
    BY <1>1, <1>2, <1>3, <1>4, <1>5, <1>6 DEF Next

\* Tables, versions, logins, sessions and the bumps that are due keep their
\* types, and no session is ahead of its user's version.
THEOREM TypeCorrect == Spec => []TypeOK
  BY TypeInit, TypeStep, PTL DEF Spec

-----------------------------------------------------------------------------
(* Roles of sessions.                                                      *)

\* Without a change of the tables, roles stay.
LEMMA SameTables ==
    ASSUME UNCHANGED tables, NEW u PROVE Primary(u)' = Primary(u)
  BY DEF tables, Primary, RolesOf, Seeds, Effective, ClosedOver, Closed, Best, First

\* The same for the users a bump reaches.
LEMMA SameTablesBump ==
    ASSUME UNCHANGED tables, NEW bump PROVE Who(bump)' = Who(bump)
  BY DEF tables, Who, Impacted, Seeds, Impacting, ClosedUp

\* The invariant holds at first.
LEMMA SessionInit == Init => SessionInv
  BY DEF Init, SessionInv, LoginInv, RoleExplained, Valid

\* A session that is let through after such a step was let through before, and
\* is explained as long as the user is covered or in a gap.
LEMMA StillExplained ==
    ASSUME TypeOK, SessionInv, UNCHANGED tables, NEW b \in Browsers, Valid(b)',
           cookie'[b] = cookie[b], version'[cookie[b].user] = version[cookie[b].user],
           \A u \in Users : u = cookie[b].user /\ (Covered(u) \/ u \in gap) => Covered(u)' \/ u \in gap'
    PROVE cookie'[b].role = Primary(cookie[b].user)' \/ Excused(b)'
  <1>1. Valid(b)
    BY DEF Valid
  <1>2. cookie[b] \in [user : Users, role : Names, version : Nat \ {0}, raced : BOOLEAN]
    BY <1>1 DEF TypeOK, Valid, Cookies
  <1>3. PICK u \in Users : u = cookie[b].user
    BY <1>2
  <1>4. cookie[b].role = Primary(u) \/ Covered(u) \/ cookie[b].raced \/ u \in gap
    BY <1>1, <1>3 DEF SessionInv, RoleExplained, Excused
  <1>5. Primary(u)' = Primary(u)
    BY SameTables
  <1>6. Primary(cookie[b].user)' = Primary(u)' /\ Covered(cookie[b].user)' = Covered(u)'
    BY <1>3 DEF Primary, RolesOf, Seeds, Covered
  <1> QED
    BY <1>3, <1>4, <1>5, <1>6 DEF Excused

\* A login that is under way after such a step as before is right or raced.
LEMMA SameLogin ==
    ASSUME TypeOK, SessionInv, UNCHANGED tables, NEW b \in Browsers, login'[b] # NoLogin, login'[b] = login[b]
    PROVE login'[b].role = Primary(login[b].user)' \/ login'[b].raced
  <1>1. login[b] \in [step : {"version"}, user : Users, role : Names, raced : BOOLEAN]
    BY DEF TypeOK, Logins
  <1>2. PICK u \in Users : u = login[b].user
    BY <1>1
  <1>3. login[b].role = Primary(u) \/ login[b].raced
    BY <1>2 DEF SessionInv, LoginInv
  <1>4. Primary(u)' = Primary(u)
    BY SameTables
  <1>5. Primary(login[b].user)' = Primary(u)'
    BY <1>2 DEF Primary, RolesOf, Seeds
  <1> QED
    BY <1>3, <1>4, <1>5

\* A login hands what it has read to its session,
LEMMA SessionBrowser ==
    ASSUME TypeOK, SessionInv, NEW b \in Browsers, Browser(b) PROVE SessionInv'
  <1>1. UNCHANGED <<tables, writer, gap>>
    BY DEF Browser, LoginRole, LoginFails, LoginAborts, LoginVersion, ForceLogin, Forget
  <1>2. \A u \in Users : Covered(u) \/ u \in gap => Covered(u)' \/ u \in gap'
    BY <1>1, SameTablesBump DEF Covered
  <1>3. ASSUME NEW c \in Browsers, cookie'[c] = cookie[c], version'[cookie[c].user] = version[cookie[c].user], Valid(c)'
        PROVE cookie'[c].role = Primary(cookie[c].user)' \/ Excused(c)'
    BY <1>1, <1>2, <1>3, StillExplained
  <1>4. ASSUME NEW u \in Users, LoginRole(b, u) PROVE SessionInv'
    <2> DEFINE new == [step |-> "version", user |-> u, role |-> Primary(u), raced |-> FALSE]
    <2>1. login' = [login EXCEPT ![b] = new] /\ UNCHANGED <<version, cookie>>
      BY <1>4 DEF LoginRole
    <2>2. new.role = Primary(u) /\ new.user = u
      OBVIOUS
    <2> HIDE DEF new
    <2>3. ASSUME NEW c \in Browsers, login'[c] # NoLogin
          PROVE login'[c].role = Primary(login[c].user)' \/ login'[c].raced
      <3>1. CASE c = b
        <4>1. login'[c] = new
          BY <2>1, <3>1 DEF TypeOK
        <4>2. login'[c].user = u /\ login'[c].role = Primary(u)
          BY <2>2, <4>1
        <4>3. Primary(login[c].user)' = Primary(u)'
          BY <4>2 DEF Primary, RolesOf, Seeds
        <4> QED
          BY <1>1, <4>2, <4>3, SameTables
      <3>2. CASE c # b
        BY <1>1, <2>1, <2>3, <3>2, SameLogin
      <3> QED
        BY <3>1, <3>2
    <2>4. LoginInv'
      BY <2>3 DEF LoginInv
    <2>5. RoleExplained'
      BY <1>3, <2>1 DEF RoleExplained
    <2> QED
      BY <2>4, <2>5 DEF SessionInv
  <1>5. CASE LoginFails(b) \/ LoginAborts(b)
    <2>1. login' = [login EXCEPT ![b] = NoLogin] /\ version' = version
      BY <1>5 DEF LoginFails, LoginAborts
    <2>2. \A c \in Browsers : login'[c] # NoLogin => login'[c] = login[c]
      BY <2>1 DEF TypeOK
    <2>3. LoginInv'
      BY <1>1, <2>2, SameLogin DEF LoginInv
    <2>4. \A c \in Browsers : Valid(c)' => cookie'[c] = cookie[c]
      BY <1>5 DEF LoginFails, LoginAborts, Valid, TypeOK
    <2>5. RoleExplained'
      BY <1>3, <2>1, <2>4 DEF RoleExplained
    <2> QED
      BY <2>3, <2>5 DEF SessionInv
  <1>6. CASE LoginVersion(b)
    <2> DEFINE l == login[b]
               v == IF version[l.user] = 0 THEN 1 ELSE version[l.user]
               new == [user |-> l.user, role |-> l.role, version |-> v, raced |-> l.raced]
    <2>1. /\ l # NoLogin /\ version' = [version EXCEPT ![l.user] = v] /\ cookie' = [cookie EXCEPT ![b] = new]
          /\ login' = [login EXCEPT ![b] = NoLogin]
      BY <1>6 DEF LoginVersion
    <2>2. l \in [step : {"version"}, user : Users, role : Names, raced : BOOLEAN]
      BY <2>1 DEF TypeOK, Logins
    <2>3. new.user = l.user /\ new.role = l.role /\ new.raced = l.raced
      OBVIOUS
    <2>4. version[l.user] \in Nat /\ (version[l.user] # 0 => v = version[l.user]) /\ version'[l.user] = v
      BY <2>1, <2>2 DEF TypeOK
    <2> HIDE DEF v, new
    <2>5. ASSUME NEW c \in Browsers, Valid(c)'
          PROVE cookie'[c].role = Primary(cookie[c].user)' \/ Excused(c)'
      <3>1. CASE c = b
        <4>1. cookie'[c] = new
          BY <2>1, <3>1 DEF TypeOK
        <4>2. PICK u \in Users : u = l.user
          BY <2>2
        <4>3. l.role = Primary(u) \/ l.raced
          BY <2>1, <4>2 DEF SessionInv, LoginInv
        <4>4. cookie'[c].user = u /\ cookie'[c].role = l.role /\ cookie'[c].raced = l.raced
          BY <2>3, <4>1, <4>2
        <4>5. Primary(cookie[c].user)' = Primary(u)'
          BY <4>4 DEF Primary, RolesOf, Seeds
        <4> QED
          BY <1>1, <4>3, <4>4, <4>5, SameTables DEF Excused
      <3>2. CASE c # b
        <4>1. cookie'[c] = cookie[c]
          BY <2>1, <3>2 DEF TypeOK
        <4>2. cookie[c] \in [user : Users, role : Names, version : Nat \ {0}, raced : BOOLEAN]
          BY <2>5, <4>1 DEF TypeOK, Valid, Cookies
        <4>3. CASE cookie[c].user = l.user
          <5>1. cookie[c].version <= version[l.user] /\ cookie[c].version \in Nat \ {0}
            BY <4>2, <4>3, <2>5, <4>1 DEF TypeOK, Valid
          <5>2. version[l.user] # 0
            BY <2>4, <5>1
          <5> QED
            BY <1>3, <2>4, <2>5, <4>1, <4>3, <5>2
        <4>4. CASE cookie[c].user # l.user
          <5>1. version'[cookie[c].user] = version[cookie[c].user]
            BY <2>1, <4>2, <4>4 DEF TypeOK
          <5> QED
            BY <1>3, <2>5, <4>1, <5>1
        <4> QED
          BY <4>3, <4>4
      <3> QED
        BY <3>1, <3>2
    <2>6. RoleExplained'
      BY <2>5 DEF RoleExplained
    <2>7. \A c \in Browsers : login'[c] # NoLogin => login'[c] = login[c]
      BY <2>1 DEF TypeOK
    <2>8. LoginInv'
      BY <1>1, <2>7, SameLogin DEF LoginInv
    <2> QED
      BY <2>6, <2>8 DEF SessionInv
  <1>7. CASE ForceLogin(b) \/ Forget(b)
    <2>1. cookie' = [cookie EXCEPT ![b] = NoCookie] /\ UNCHANGED <<version, login>>
      BY <1>7 DEF ForceLogin, Forget
    <2>2. \A c \in Browsers : Valid(c)' => cookie'[c] = cookie[c]
      BY <2>1 DEF Valid, TypeOK
    <2>3. RoleExplained'
      BY <1>3, <2>1, <2>2 DEF RoleExplained
    <2>4. LoginInv'
      BY <1>1, <2>1, SameLogin DEF LoginInv
    <2> QED
      BY <2>3, <2>4 DEF SessionInv
  <1> QED
    BY <1>4, <1>5, <1>6, <1>7 DEF Browser

\* a commit explains what it changes,
LEMMA SessionOwes ==
    ASSUME TypeOK, SessionInv, NEW w \in Writers, writer[w] = <<>>, NEW due, Owes(w, due) PROVE SessionInv'
  <1>1. Committed
    <2>1. /\ writer' = [writer EXCEPT ![w] = due] /\ Raced /\ UNCHANGED <<version, cookie>>
          /\ Tables' /\ gap \subseteq gap'
      BY DEF Owes, Commit
    <2>2. \A x \in Writers : writer[x] \in Seq(Bumps) /\ (writer[x] = <<>> \/ writer'[x] = writer[x])
      BY <2>1 DEF TypeOK
    <2>3. Tables
      BY DEF TypeOK, Tables
    <2> QED
      BY <2>1, <2>2, <2>3 DEF Committed
  <1>2. \A u \in Users : Explained(u)
    BY DEF Owes
  <1> QED
    BY <1>1, <1>2, CommitKeeps DEF TypeOK

\* and a bulk update its changes by the gap,
LEMMA SessionBulk ==
    ASSUME TypeOK, SessionInv, BulkUpdate PROVE SessionInv'
  <1>1. Committed
    <2>1. Tables /\ Tables'
      BY TypeBulk DEF TypeOK, Tables
    <2>2. Raced /\ UNCHANGED <<version, cookie, writer>> /\ gap \subseteq gap'
      BY DEF BulkUpdate
    <2> QED
      BY <2>1, <2>2 DEF Committed, TypeOK
  <1>2. \A u \in Users : Explained(u)
    BY DEF BulkUpdate, Explained
  <1> QED
    BY <1>1, <1>2, CommitKeeps DEF TypeOK

\* a bump ends the sessions of those it reaches, and leaves a gap if it fails,
LEMMA SessionBump ==
    ASSUME TypeOK, SessionInv, NEW w \in Writers, Bump(w) \/ BumpFails(w) PROVE SessionInv'
  <1> DEFINE S == Who(Head(writer[w]))
  <1>1. /\ writer[w] \in Seq(Bumps) /\ writer[w] # <<>> /\ writer' = [writer EXCEPT ![w] = Tail(@)]
        /\ UNCHANGED <<tables, login, cookie>>
    BY DEF TypeOK, Bump, BumpTo, BumpFails
  <1>2. ASSUME NEW u \in Users, Covered(u), u \notin S PROVE Covered(u)'
    <2>1. PICK x \in Writers : \E i \in DOMAIN writer[x] : u \in Who(writer[x][i])
      BY <1>2 DEF Covered
    <2>2. PICK i \in DOMAIN writer[x] : u \in Who(writer[x][i])
      BY <2>1
    <2>3. \E j \in DOMAIN writer'[x] : writer'[x][j] = writer[x][i]
      <3>1. CASE x = w
        <4>1. i \in 1 .. Len(writer[w]) /\ i # 1
          BY <1>1, <1>2, <2>2, <3>1
        <4>2. i - 1 \in 1 .. Len(Tail(writer[w])) /\ Tail(writer[w])[i - 1] = writer[w][i]
          BY <1>1, <4>1
        <4>3. writer'[w] = Tail(writer[w])
          BY <1>1 DEF TypeOK
        <4> QED
          BY <1>1, <3>1, <4>2, <4>3
      <3>2. CASE x # w
        <4>1. writer'[x] = writer[x]
          BY <1>1, <3>2 DEF TypeOK
        <4> QED
          BY <4>1
      <3> QED
        BY <3>1, <3>2
    <2>4. PICK j \in DOMAIN writer'[x] : writer'[x][j] = writer[x][i]
      BY <2>3
    <2>5. Who(writer[x][j])' = Who(writer[x][i])
      <3>1. PICK bump : bump = writer[x][i]
        OBVIOUS
      <3>2. Who(bump)' = Who(bump)
        BY <1>1, SameTablesBump
      <3>3. Who(writer[x][j])' = Who(bump)'
        BY <2>4, <3>1 DEF Who, Impacted
      <3> QED
        BY <3>1, <3>2, <3>3
    <2> QED
      BY <2>2, <2>4, <2>5 DEF Covered
  <1>3. ASSUME NEW b \in Browsers, Valid(b)'
        PROVE cookie'[b].role = Primary(cookie[b].user)' \/ Excused(b)'
    <2>1. cookie'[b] = cookie[b] /\ cookie[b] # NoCookie
      BY <1>1, <1>3 DEF Valid
    <2>2. cookie[b] \in [user : Users, role : Names, version : Nat \ {0}, raced : BOOLEAN]
      BY <2>1 DEF TypeOK, Cookies
    <2>3. PICK u \in Users : u = cookie[b].user
      BY <2>2
    <2>4. CASE Bump(w)
      <3>1. version' = [x \in Users |-> IF x \in S THEN Increased[x] ELSE version[x]] /\ gap' = gap \ S
        BY <2>4 DEF Bump, BumpTo
      <3>2. cookie[b].version = version'[u] /\ cookie[b].version <= version[u]
        BY <1>3, <2>1, <2>3 DEF Valid, TypeOK
      <3>3. version[u] \in Nat /\ Increased[u] \in Nat /\ version[u] < Increased[u]
        BY DEF TypeOK, Increased
      <3> HIDE DEF S
      <3>4. u \notin S /\ version'[u] = version[u]
        BY <2>2, <3>1, <3>2, <3>3
      <3>5. Covered(u) \/ u \in gap => Covered(u)' \/ u \in gap'
        BY <1>2, <3>1, <3>4
      <3> QED
        BY <1>1, <1>3, <2>1, <2>3, <3>4, <3>5, StillExplained
    <2>5. CASE BumpFails(w)
      <3>1. gap' = gap \cup S /\ version' = version
        BY <2>5 DEF BumpFails
      <3>2. Covered(u) \/ u \in gap => Covered(u)' \/ u \in gap'
        BY <1>2, <3>1
      <3> QED
        BY <1>1, <1>3, <2>1, <2>3, <3>1, <3>2, StillExplained
    <2> QED
      BY <2>4, <2>5
  <1>4. RoleExplained'
    BY <1>3 DEF RoleExplained
  <1>5. LoginInv'
    BY <1>1, SameLogin DEF LoginInv
  <1> QED
    BY <1>4, <1>5 DEF SessionInv

\* as does a restart for the bumps it loses.
LEMMA SessionRestart ==
    ASSUME TypeOK, SessionInv, Restart PROVE SessionInv'
  <1>1. /\ UNCHANGED <<tables, version, cookie>> /\ login' = [b \in Browsers |-> NoLogin]
        /\ gap' = gap \cup {u \in Users : Covered(u)}
    BY DEF Restart
  <1>2. RoleExplained'
    <2>1. ASSUME NEW b \in Browsers, Valid(b)'
          PROVE cookie'[b].role = Primary(cookie[b].user)' \/ Excused(b)'
      BY <1>1, <2>1, StillExplained
    <2> QED
      BY <2>1 DEF RoleExplained
  <1>3. LoginInv'
    BY <1>1 DEF LoginInv
  <1> QED
    BY <1>2, <1>3 DEF SessionInv

\* Every step keeps the invariant.
LEMMA SessionStep == TypeOK /\ SessionInv /\ [Next]_vars => SessionInv'
  <1> SUFFICES ASSUME TypeOK, SessionInv, [Next]_vars PROVE SessionInv'
    OBVIOUS
  <1>1. ASSUME NEW b \in Browsers, Browser(b) PROVE SessionInv'
    BY <1>1, SessionBrowser
  <1>2. ASSUME NEW w \in Writers, writer[w] = <<>>, Access(w) \/ Save(w) PROVE SessionInv'
    BY <1>2, AccessOwes, UserSavesOwe, GroupSavesOwe, InheritanceSavesOwe, SessionOwes DEF Save
  <1>3. ASSUME NEW w \in Writers, Bump(w) \/ BumpFails(w) PROVE SessionInv'
    BY <1>3, SessionBump
  <1>4. CASE BulkUpdate
    BY <1>4, SessionBulk
  <1>5. CASE Restart
    BY <1>5, SessionRestart
  <1>6. CASE UNCHANGED vars
    <2>1. UNCHANGED <<tables, login, cookie, version, writer, gap>>
      BY <1>6 DEF vars
    <2>2. LoginInv'
      BY <2>1, SameLogin DEF LoginInv
    <2>3. \A u \in Users : Covered(u) => Covered(u)'
      BY <2>1, SameTablesBump DEF Covered
    <2>4. RoleExplained'
      BY <2>1, <2>3, StillExplained DEF RoleExplained
    <2> QED
      BY <2>2, <2>4 DEF SessionInv
  <1> QED
    BY <1>1, <1>2, <1>3, <1>4, <1>5, <1>6 DEF Next

\* A session that is let through has an outdated role only while a bump that
\* will reach its user is due, after a login that was overtaken, or where the
\* code leaves a gap.
THEOREM RoleCorrect == Spec => []RoleExplained
  <1>1. Init => TypeOK /\ SessionInv
    BY TypeInit, SessionInit
  <1>2. TypeOK /\ SessionInv /\ [Next]_vars => (TypeOK /\ SessionInv)'
    BY TypeStep, SessionStep
  <1>3. SessionInv => RoleExplained
    BY DEF SessionInv
  <1> QED
    BY <1>1, <1>2, <1>3, PTL DEF Spec

-----------------------------------------------------------------------------
(* Ended sessions.                                                         *)

\* Versions only grow.
LEMMA VersionsGrow ==
    ASSUME TypeOK, [Next]_vars, NEW u \in Users PROVE version[u] <= version'[u]
  <1>1. version[u] \in Nat
    BY DEF TypeOK
  <1>2. ASSUME NEW b \in Browsers, LoginVersion(b) PROVE version[u] <= version'[u]
    <2> DEFINE l == login[b]
               v == IF version[l.user] = 0 THEN 1 ELSE version[l.user]
    <2>1. version' = [version EXCEPT ![l.user] = v]
      BY <1>2 DEF LoginVersion
    <2>2. version[l.user] = version[u] => version[u] <= v
      BY <1>1
    <2> HIDE DEF v
    <2> QED
      BY <1>1, <2>1, <2>2 DEF TypeOK
  <1>3. ASSUME NEW w \in Writers, Bump(w) PROVE version[u] <= version'[u]
    <2>1. PICK S : version' = [x \in Users |-> IF x \in S THEN Increased[x] ELSE version[x]]
      BY <1>3 DEF Bump, BumpTo
    <2>2. Increased[u] \in Nat /\ version[u] <= Increased[u]
      BY <1>1 DEF Increased
    <2> QED
      BY <1>1, <2>1, <2>2
  <1>4. ASSUME version' = version PROVE version[u] <= version'[u]
    BY <1>1, <1>4
  <1>5. ASSUME NEW b \in Browsers, Browser(b) PROVE version[u] <= version'[u]
    <2>1. LoginVersion(b) \/ version' = version
      BY <1>5 DEF Browser, LoginRole, LoginFails, LoginAborts, ForceLogin, Forget
    <2> QED
      BY <1>2, <1>4, <2>1
  <1>6. ASSUME NEW w \in Writers, Access(w) \/ Save(w) PROVE version' = version
    <2>1. \E due : Owes(w, due)
      BY <1>6, AccessOwes, UserSavesOwe, GroupSavesOwe, InheritanceSavesOwe DEF Save
    <2> QED
      BY <2>1 DEF Owes, Commit
  <1>7. ASSUME \/ \E w \in Writers : BumpFails(w)
               \/ BulkUpdate \/ Restart \/ UNCHANGED vars
        PROVE version' = version
    BY <1>7 DEF BumpFails, BulkUpdate, Restart, vars
  <1> QED
    BY <1>3, <1>4, <1>5, <1>6, <1>7 DEF Next

\* A session that a bump has ended stays ended.
THEOREM EndedForGood == Spec => NeverRevived
  <1> DEFINE Ended == \A b \in Browsers :
                 cookie[b] # NoCookie /\ cookie'[b] = cookie[b] /\ ~Valid(b) => ~Valid(b)'
  <1>1. TypeOK /\ [Next]_vars => [Ended]_vars
    <2> SUFFICES ASSUME TypeOK, [Next]_vars, NEW b \in Browsers,
                        cookie[b] # NoCookie, cookie'[b] = cookie[b], ~Valid(b)
                 PROVE ~Valid(b)'
      OBVIOUS
    <2>1. cookie[b] \in [user : Users, role : Names, version : Nat \ {0}, raced : BOOLEAN]
      BY DEF TypeOK, Cookies
    <2>2. PICK u \in Users : u = cookie[b].user
      BY <2>1
    <2>3. version[u] \in Nat /\ version'[u] \in Nat /\ cookie[b].version \in Nat
      BY <2>1, TypeStep DEF TypeOK
    <2>4. cookie[b].version <= version[u] /\ cookie[b].version # version[u]
      BY <2>2 DEF TypeOK, Valid
    <2>5. version[u] <= version'[u]
      BY VersionsGrow
    <2>6. cookie[b].version # version'[u]
      BY <2>3, <2>4, <2>5
    <2> QED
      BY <2>2, <2>6 DEF Valid
  <1>2. Spec => [][Ended]_vars
    BY <1>1, TypeCorrect, PTL DEF Spec
  <1> QED
    BY <1>2 DEF NeverRevived

-----------------------------------------------------------------------------
(***************************************************************************)
(* The realtime hub (PresenceHub), for any tabs, savers, pages and buffer. *)
(*                                                                         *)
(* PresenceAccurate speaks of pages nothing is on its way to.  HubInv says *)
(* what is true before: as long as no entry is stale, every broadcast that *)
(* no later one has overtaken carries the snapshot of the entries as they  *)
(* are, and a page that has missed nothing either still gets it or has it  *)
(* as its last snapshot.  While an entry is stale nothing is owed: the     *)
(* step that makes the last one fresh again, or deletes it, broadcasts or  *)
(* counts every page as having missed it.                                  *)
(***************************************************************************)

\* A goroutine of the hub.
HubSender == [pc : {"idle", "copy", "send"}, event : Hub!Events, to : SUBSET Viewers]
\* What the proof needs of the types of the hub.
HubTypes ==
    /\ status \in [Clients -> {"none", "viewing", "editing"}]
    /\ sender \in [Hub!Senders -> HubSender]
    /\ stream \in [Viewers -> {"closed", "subscribed", "live"}]
    /\ queue \in [Viewers -> Seq(Hub!Events)]
    /\ view \in [Viewers -> Hub!Snapshots]
    /\ behind \subseteq Hub!Busy

\* Who is there, the snapshot that says so, and the broadcasts no later one has
\* overtaken.
Truth == Hub!Lines(status, stale)
News == Hub!Update(Truth)
Fresh == Hub!Busy \ behind

\* Whether the newest snapshot is still on its way to the page.
OnItsWay(v) ==
    \E x \in Fresh : sender[x].event # Hub!Changed /\ (sender[x].pc = "copy" \/ v \in sender[x].to)

\* The last snapshot in the buffer, or else the page, shows who is there.
Newest(i, v) == queue[v][i] # Hub!Changed /\ \A j \in DOMAIN queue[v] : j > i => queue[v][j] = Hub!Changed
UpToDate(v) ==
    /\ \A i \in DOMAIN queue[v] : Newest(i, v) => queue[v][i] = News
    /\ stream[v] = "live" /\ (\A i \in DOMAIN queue[v] : queue[v][i] = Hub!Changed) => view[v] = Truth
Reaches(v) == OnItsWay(v) \/ UpToDate(v)

NewsFresh == \A x \in Fresh : sender[x].event \in {Hub!Changed, News}
HubInv == stale = {} => NewsFresh /\ \A v \in Hub!Subscribed \ missed : Reaches(v)

\* A snapshot has one line per user and status (snapshotFromEntries).
LEMMA LinesType == \A entries, old : Hub!Lines(entries, old) \in Hub!Snapshots
  BY HubAssumption DEF Hub!Lines, Hub!Snapshots

\* The two events of the hub (PublishRecordChange, broadcast).
LEMMA EventTypes ==
    /\ Hub!Changed \in Hub!Events
    /\ \A lines \in Hub!Snapshots : Hub!Update(lines) \in Hub!Events
    /\ \A lines : Hub!Update(lines) # Hub!Changed /\ Hub!Update(lines).presence = lines
  BY DEF Hub!Changed, Hub!Update, Hub!Events, Hub!Snapshots

\* One sender is replaced.
LEMMA SenderOne ==
    ASSUME HubTypes, NEW x \in Hub!Senders, NEW r \in HubSender, sender' = [sender EXCEPT ![x] = r]
    PROVE  /\ sender' \in [Hub!Senders -> HubSender]
           /\ Hub!Busy' = IF r.pc = "idle" THEN Hub!Busy \ {x} ELSE Hub!Busy \cup {x}
           /\ sender'[x] = r /\ \A y \in Hub!Senders \ {x} : sender'[y] = sender[y]
  BY DEF HubTypes, Hub!Busy

\* A goroutine without an event.
LEMMA IdleSender == Hub!Idle \in HubSender /\ Hub!Idle.pc = "idle"
  BY EventTypes DEF Hub!Idle, HubSender

\* Streams are pages' streams.
LEMMA Subscribers == Hub!Subscribed \subseteq Viewers
  BY DEF Hub!Subscribed

\* A broadcast begins: only its own event is fresh, if it is a snapshot.
LEMMA BroadcastBegins ==
    ASSUME HubTypes, NEW x \in Hub!Senders, sender[x].pc = "idle", NEW event \in Hub!Events, Hub!Broadcasting(x, event)
    PROVE  /\ sender' \in [Hub!Senders -> HubSender] /\ behind' \subseteq Hub!Busy'
           /\ sender'[x].pc = "copy" /\ sender'[x].event = event
           /\ \A y \in Hub!Senders \ {x} : sender'[y] = sender[y]
           /\ x \in Fresh'
           /\ event = Hub!Changed => Fresh' = Fresh \cup {x}
           /\ event # Hub!Changed => Fresh' = {x}
  <1> DEFINE r == [pc |-> "copy", event |-> event, to |-> {}]
  <1>1. r \in HubSender /\ r.pc = "copy" /\ r.event = event
    BY DEF HubSender
  <1>2. sender' = [sender EXCEPT ![x] = r]
    BY DEF Hub!Broadcasting
  <1> HIDE DEF r
  <1>3. /\ sender' \in [Hub!Senders -> HubSender] /\ Hub!Busy' = Hub!Busy \cup {x}
        /\ sender'[x] = r /\ \A y \in Hub!Senders \ {x} : sender'[y] = sender[y]
    BY <1>1, <1>2, SenderOne
  <1>4. x \notin Hub!Busy /\ behind \subseteq Hub!Busy
    BY DEF Hub!Busy, HubTypes
  <1>5. behind' = IF event = Hub!Changed THEN behind ELSE Hub!Busy
    BY DEF Hub!Broadcasting
  <1> QED BY <1>1, <1>3, <1>4, <1>5 DEF Fresh

\* The hub starts empty.
LEMMA HubTypeInit == Hub!Init => HubTypes /\ HubInv
  <1> SUFFICES ASSUME Hub!Init PROVE HubTypes /\ HubInv OBVIOUS
  <1>1. HubTypes
    BY IdleSender DEF Hub!Init, HubTypes, Hub!Snapshots
  <1>2. Hub!Busy = {} /\ Hub!Subscribed = {}
    BY IdleSender DEF Hub!Init, Hub!Busy, Hub!Subscribed
  <1> QED BY <1>1, <1>2 DEF HubInv, NewsFresh, Fresh

\* What the steps of the broadcast do to a sender.
LEMMA AdvanceTypes ==
    ASSUME HubTypes, NEW x \in Hub!Senders, NEW left \in SUBSET Viewers, sender' = Hub!Advance(x, left)
    PROVE  /\ sender' \in [Hub!Senders -> HubSender]
           /\ Hub!Busy' = IF left = {} THEN Hub!Busy \ {x} ELSE Hub!Busy \cup {x}
           /\ left # {} => sender'[x].pc = "send" /\ sender'[x].to = left /\ sender'[x].event = sender[x].event
           /\ \A y \in Hub!Senders \ {x} : sender'[y] = sender[y]
  <1> DEFINE r == IF left = {} THEN Hub!Idle ELSE [sender[x] EXCEPT !.pc = "send", !.to = left]
  <1>1. sender[x] \in HubSender
    BY DEF HubTypes
  <1>2. r \in HubSender
    BY <1>1, IdleSender DEF HubSender
  <1>3. IF left = {} THEN r.pc = "idle" ELSE r.pc = "send" /\ r.to = left /\ r.event = sender[x].event
    BY <1>1, IdleSender DEF HubSender
  <1>4. sender' = [sender EXCEPT ![x] = r]
    BY DEF Hub!Advance
  <1> HIDE DEF r
  <1> QED BY <1>2, <1>3, <1>4, SenderOne

-----------------------------------------------------------------------------

\* Nothing that matters to the page has changed.
LEMMA Unreached ==
    ASSUME NEW v, Reaches(v), queue'[v] = queue[v], stream'[v] = stream[v], view'[v] = view[v], Truth' = Truth,
           \A x \in Fresh : sender[x].event # Hub!Changed /\ (sender[x].pc = "copy" \/ v \in sender[x].to) =>
              /\ x \in Fresh' /\ sender'[x].event # Hub!Changed
              /\ sender'[x].pc = "copy" \/ v \in sender'[x].to
    PROVE  Reaches(v)'
  BY DEF Reaches, OnItsWay, UpToDate, Newest, News, Hub!Update

\* The entries change and are broadcast: the new snapshot is the only fresh one.
LEMMA EntryStep ==
    ASSUME HubTypes, HubInv, NEW x \in Hub!Senders, sender[x].pc = "idle",
           Hub!Broadcasting(x, News'), Truth' \in Hub!Snapshots,
           status' \in [Clients -> {"none", "viewing", "editing"}],
           UNCHANGED <<stream, queue, view>>
    PROVE  HubTypes' /\ HubInv'
  <1>0. News' \in Hub!Events /\ News' # Hub!Changed
    BY EventTypes DEF News
  <1>1. /\ sender' \in [Hub!Senders -> HubSender] /\ behind' \subseteq Hub!Busy'
        /\ sender'[x].pc = "copy" /\ sender'[x].event = News' /\ Fresh' = {x}
    BY <1>0, BroadcastBegins
  <1>2. NewsFresh'
    BY <1>1 DEF NewsFresh
  <1>3. ASSUME NEW v PROVE Reaches(v)'
    BY <1>0, <1>1 DEF Reaches, OnItsWay
  <1>4. HubTypes'
    BY <1>1 DEF HubTypes
  <1> QED BY <1>2, <1>3, <1>4 DEF HubInv

\* UpsertPresence broadcasts, or the entry was stale and every page has missed it.
LEMMA HeartbeatStep == ASSUME HubTypes, HubInv, NEW c \in Clients, NEW s \in {"viewing", "editing"}, Hub!Heartbeat(c, s)
                       PROVE  HubTypes' /\ HubInv'
  <1> DEFINE changed == status[c] # s
  <1>0. c \in Hub!Senders /\ Truth' \in Hub!Snapshots
    BY LinesType DEF Hub!Senders, Truth
  <1>1. /\ sender[c].pc = "idle" /\ status' = [status EXCEPT ![c] = s] /\ stale' = stale \ {c}
        /\ UNCHANGED <<stream, queue, view>>
    BY Zenon DEF Hub!Heartbeat, Hub!HeartbeatIf
  <1>2. status' \in [Clients -> {"none", "viewing", "editing"}]
    BY <1>1 DEF HubTypes
  <1>3. CASE changed
    <2>1. Hub!Broadcasting(c, News')
      BY <1>3 DEF Hub!Heartbeat, Hub!HeartbeatIf, News, Truth
    <2> QED BY <1>0, <1>1, <1>2, <2>1, EntryStep
  <1>4. CASE ~changed /\ c \in stale
    <2>1. missed' = Hub!Subscribed /\ behind' = Hub!Busy /\ sender' = sender
      BY <1>4 DEF Hub!Heartbeat, Hub!HeartbeatIf
    <2>2. Hub!Busy' = Hub!Busy /\ Hub!Subscribed' = Hub!Subscribed
      BY <1>1, <2>1 DEF Hub!Busy, Hub!Subscribed
    <2> QED BY <1>1, <1>2, <2>1, <2>2 DEF HubTypes, HubInv, NewsFresh, Fresh
  <1>5. CASE ~changed /\ c \notin stale
    <2>1. UNCHANGED <<missed, behind, sender>>
      BY <1>5 DEF Hub!Heartbeat, Hub!HeartbeatIf
    <2>2. UNCHANGED <<status, stale>>
      BY <1>1, <1>5 DEF HubTypes
    <2>3. Hub!Busy' = Hub!Busy /\ Hub!Subscribed' = Hub!Subscribed /\ Truth' = Truth /\ Fresh' = Fresh /\ News' = News
      BY <1>1, <2>1, <2>2 DEF Hub!Busy, Hub!Subscribed, Truth, Fresh, News
    <2>4. ASSUME NEW v, Reaches(v) PROVE Reaches(v)'
      BY <1>1, <2>1, <2>3, <2>4, Unreached
    <2> QED BY <1>1, <2>1, <2>2, <2>3, <2>4 DEF HubTypes, HubInv, NewsFresh
  <1> QED BY <1>3, <1>4, <1>5

\* cleanupStalePresence deletes what no snapshot shows any more.
LEMMA CleanUpStep == ASSUME HubTypes, HubInv, Hub!CleanupStalePresence PROVE HubTypes' /\ HubInv'
  <1>1. /\ sender[Janitor].pc = "idle" /\ stale' = {} /\ UNCHANGED <<stream, queue, view>>
        /\ status' = [c \in Clients |-> IF c \in stale THEN "none" ELSE status[c]]
        /\ Hub!Broadcasting(Janitor, Hub!Update(Hub!Lines(status, stale)))
    BY DEF Hub!CleanupStalePresence, Hub!CleanUp
  <1>2. status' \in [Clients -> {"none", "viewing", "editing"}] /\ Janitor \in Hub!Senders
    BY <1>1 DEF HubTypes, Hub!Senders
  <1>3. Truth' = Truth
    <2>1. {c \in Clients : status'[c] # "none" /\ c \notin stale'} = {c \in Clients : status[c] # "none" /\ c \notin stale}
      BY <1>1
    <2>2. \A c \in Clients : c \notin stale => status'[c] = status[c]
      BY <1>1
    <2> QED BY <2>1, <2>2 DEF Truth, Hub!Lines
  <1> QED BY <1>1, <1>2, <1>3, EntryStep, LinesType DEF News, Truth

\* A tab comes, goes or stops its heartbeats.
LEMMA AgeStep == ASSUME HubTypes, HubInv, NEW c \in Clients, Hub!Come(c) \/ Hub!Go(c) \/ Hub!Age(c)
                 PROVE  HubTypes' /\ HubInv'
  <1>1. UNCHANGED <<status, sender, stream, queue, view, behind, missed>>
    BY DEF Hub!Come, Hub!Go, Hub!Age
  <1>2. HubTypes'
    BY <1>1 DEF HubTypes, Hub!Busy
  <1>3. CASE UNCHANGED stale
    <2>1. Hub!Subscribed' = Hub!Subscribed /\ Truth' = Truth /\ Fresh' = Fresh /\ News' = News
      BY <1>1, <1>3 DEF Hub!Busy, Hub!Subscribed, Truth, Fresh, News
    <2>2. ASSUME NEW v, Reaches(v) PROVE Reaches(v)'
      BY <1>1, <2>1, <2>2, Unreached
    <2> QED BY <1>1, <1>2, <1>3, <2>1, <2>2 DEF HubInv, NewsFresh
  <1>4. CASE stale' # {}
    BY <1>2, <1>4 DEF HubInv
  <1> QED BY <1>3, <1>4 DEF Hub!Come, Hub!Go, Hub!Age

\* PublishRecordChange overtakes no snapshot.
LEMMA PublishStep == ASSUME HubTypes, HubInv, NEW x \in Savers, Hub!PublishRecordChange(x) PROVE HubTypes' /\ HubInv'
  <1>0. x \in Hub!Senders
    BY DEF Hub!Senders
  <1>1. /\ sender[x].pc = "idle" /\ Hub!Broadcasting(x, Hub!Changed)
        /\ UNCHANGED <<here, status, stale, stream, queue, view, missed>>
    BY DEF Hub!PublishRecordChange
  <1>2. /\ sender' \in [Hub!Senders -> HubSender] /\ behind' \subseteq Hub!Busy'
        /\ sender'[x].event = Hub!Changed /\ \A y \in Hub!Senders \ {x} : sender'[y] = sender[y]
        /\ Fresh' = Fresh \cup {x}
    BY <1>0, <1>1, BroadcastBegins, EventTypes
  <1>3. HubTypes'
    BY <1>1, <1>2 DEF HubTypes
  <1>4. Hub!Subscribed' = Hub!Subscribed /\ Truth' = Truth /\ News' = News
    BY <1>1 DEF Hub!Subscribed, Truth, News
  <1>5. Fresh \subseteq Hub!Senders /\ x \notin Fresh
    BY <1>1 DEF Fresh, Hub!Busy
  <1>6. ASSUME NEW v, Reaches(v) PROVE Reaches(v)'
    BY <1>1, <1>2, <1>4, <1>5, <1>6, Unreached
  <1>7. NewsFresh => NewsFresh'
    BY <1>2, <1>4, <1>5 DEF NewsFresh
  <1> QED BY <1>1, <1>3, <1>4, <1>6, <1>7 DEF HubInv

\* broadcast copies the subscriptions.
LEMMA CopyStep == ASSUME HubTypes, HubInv, NEW x \in Hub!Senders, Hub!Copy(x) PROVE HubTypes' /\ HubInv'
  <1>1. /\ sender[x].pc = "copy" /\ sender' = Hub!Advance(x, Hub!Subscribed)
        /\ behind' = IF Hub!Subscribed = {} THEN behind \ {x} ELSE behind
        /\ UNCHANGED <<here, status, stale, stream, queue, view, missed>>
    BY DEF Hub!Copy
  <1>2. /\ sender' \in [Hub!Senders -> HubSender]
        /\ Hub!Busy' = IF Hub!Subscribed = {} THEN Hub!Busy \ {x} ELSE Hub!Busy \cup {x}
        /\ Hub!Subscribed # {} => /\ sender'[x].pc = "send" /\ sender'[x].to = Hub!Subscribed
                                  /\ sender'[x].event = sender[x].event
        /\ \A y \in Hub!Senders \ {x} : sender'[y] = sender[y]
    BY <1>1, Subscribers, AdvanceTypes
  <1>3. x \in Hub!Busy /\ Fresh \subseteq Hub!Senders
    BY <1>1 DEF Hub!Busy, Fresh
  <1>4. HubTypes'
    BY <1>1, <1>2, <1>3 DEF HubTypes
  <1>5. Hub!Subscribed' = Hub!Subscribed /\ Truth' = Truth /\ News' = News
    BY <1>1 DEF Hub!Subscribed, Truth, News
  <1>6. Hub!Subscribed # {} => Fresh' = Fresh
    BY <1>1, <1>2, <1>3 DEF Fresh
  <1>7. Fresh' \subseteq Fresh /\ (Hub!Subscribed = {} => x \notin Fresh')
    BY <1>1, <1>2, <1>3 DEF Fresh
  <1>8. NewsFresh => NewsFresh'
    BY <1>2, <1>3, <1>5, <1>6, <1>7 DEF NewsFresh
  <1>9. ASSUME NEW v \in Hub!Subscribed, Reaches(v) PROVE Reaches(v)'
    <2>1. \A y \in Fresh : sender[y].event # Hub!Changed /\ (sender[y].pc = "copy" \/ v \in sender[y].to) =>
             /\ y \in Fresh' /\ sender'[y].event # Hub!Changed
             /\ sender'[y].pc = "copy" \/ v \in sender'[y].to
      BY <1>2, <1>3, <1>6, <1>9
    <2> QED BY <1>1, <1>5, <1>9, <2>1, Unreached
  <1> QED BY <1>1, <1>4, <1>5, <1>8, <1>9 DEF HubInv

\* An event at the end of the buffer.
LEMMA Appended ==
    ASSUME HubTypes, NEW v \in Viewers, NEW event \in Hub!Events, queue'[v] = Append(queue[v], event),
           stream'[v] = stream[v], view'[v] = view[v], Truth' = Truth
    PROVE  /\ event = News => UpToDate(v)'
           /\ event = Hub!Changed /\ UpToDate(v) => UpToDate(v)'
  <1>1. queue[v] \in Seq(Hub!Events) /\ News' = News /\ News # Hub!Changed
    BY EventTypes DEF HubTypes, News
  <1>2. /\ DOMAIN queue'[v] = 1..(Len(queue[v]) + 1) /\ DOMAIN queue[v] = 1..Len(queue[v]) /\ Len(queue[v]) \in Nat
        /\ queue'[v][Len(queue[v]) + 1] = event /\ \A i \in DOMAIN queue[v] : queue'[v][i] = queue[v][i]
    BY <1>1
  <1>3. ASSUME event = News PROVE UpToDate(v)'
    <2>1. ~ \A i \in DOMAIN queue'[v] : queue'[v][i] = Hub!Changed
      BY <1>1, <1>2, <1>3
    <2>2. \A i \in DOMAIN queue'[v] : Newest(i, v)' => i = Len(queue[v]) + 1
      BY <1>1, <1>2, <1>3 DEF Newest
    <2> QED BY <1>1, <1>2, <1>3, <2>1, <2>2 DEF UpToDate
  <1>4. ASSUME event = Hub!Changed, UpToDate(v) PROVE UpToDate(v)'
    <2>1. \A i \in DOMAIN queue'[v] : Newest(i, v)' => i \in DOMAIN queue[v] /\ Newest(i, v)
      BY <1>2, <1>4 DEF Newest
    <2>2. (\A i \in DOMAIN queue'[v] : queue'[v][i] = Hub!Changed) => \A i \in DOMAIN queue[v] : queue[v][i] = Hub!Changed
      BY <1>2
    <2> QED BY <1>1, <1>2, <1>4, <2>1, <2>2 DEF UpToDate
  <1> QED BY <1>3, <1>4

\* broadcast sends to one of them, or drops the event at its full buffer.
LEMMA SendStep == ASSUME HubTypes, HubInv, NEW x \in Hub!Senders, NEW v \in Viewers, Hub!Send(x, v)
                  PROVE  HubTypes' /\ HubInv'
  <1> DEFINE fits == Hub!Fits(v)
             event == sender[x].event
  <1>1. /\ sender[x].pc = "send" /\ v \in sender[x].to
        /\ queue' = (IF fits THEN [queue EXCEPT ![v] = Append(@, event)] ELSE queue)
        /\ missed' = IF event = Hub!Changed THEN missed
                     ELSE IF (x \in behind) = fits THEN missed \cup {v}
                     ELSE IF fits THEN missed \ {v} ELSE missed
        /\ sender' = Hub!Advance(x, sender[x].to \ {v})
        /\ behind' = IF sender[x].to = {v} THEN behind \ {x} ELSE behind
        /\ UNCHANGED <<here, status, stale, stream, view>>
    BY DEF Hub!Send, Hub!SendIf
  <1>2. event \in Hub!Events /\ sender[x].to \subseteq Viewers
    BY DEF HubTypes, HubSender
  <1> DEFINE left == sender[x].to \ {v}
  <1>3. /\ sender' \in [Hub!Senders -> HubSender]
        /\ Hub!Busy' = IF left = {} THEN Hub!Busy \ {x} ELSE Hub!Busy \cup {x}
        /\ left # {} => sender'[x].pc = "send" /\ sender'[x].to = left /\ sender'[x].event = event
        /\ \A y \in Hub!Senders \ {x} : sender'[y] = sender[y]
    <2>1. left \in SUBSET Viewers /\ sender' = Hub!Advance(x, left)
      BY <1>1, <1>2
    <2> HIDE DEF left
    <2> QED BY <2>1, AdvanceTypes
  <1>4. x \in Hub!Busy /\ Fresh \subseteq Hub!Senders /\ (sender[x].to = {v} <=> left = {})
    BY <1>1 DEF Hub!Busy, Fresh
  <1>5. queue' \in [Viewers -> Seq(Hub!Events)] /\ \A w \in Viewers \ {v} : queue'[w] = queue[w]
    <2>1. queue[v] \in Seq(Hub!Events) /\ queue \in [Viewers -> Seq(Hub!Events)]
      BY DEF HubTypes
    <2>2. Append(queue[v], event) \in Seq(Hub!Events)
      BY <1>2, <2>1
    <2> QED BY <1>1, <2>1, <2>2
  <1>6. HubTypes'
    BY <1>1, <1>3, <1>4, <1>5 DEF HubTypes
  <1>7. Hub!Subscribed' = Hub!Subscribed /\ Truth' = Truth /\ News' = News
    BY <1>1 DEF Hub!Subscribed, Truth, News
  <1>8. Fresh' = IF left = {} THEN Fresh \ {x} ELSE Fresh
    BY <1>1, <1>3, <1>4 DEF Fresh
  <1>13. fits \in BOOLEAN
    BY DEF Hub!Fits
  <1> HIDE DEF left, fits, event
  <1>9. NewsFresh => NewsFresh'
    BY <1>3, <1>4, <1>7, <1>8 DEF NewsFresh, event
  <1>10. ASSUME NEW w \in Viewers \ {v}, Reaches(w) PROVE Reaches(w)'
    <2>1. \A y \in Fresh : sender[y].event # Hub!Changed /\ (sender[y].pc = "copy" \/ w \in sender[y].to) =>
             /\ y \in Fresh' /\ sender'[y].event # Hub!Changed
             /\ sender'[y].pc = "copy" \/ w \in sender'[y].to
      BY <1>1, <1>3, <1>4, <1>8, <1>10 DEF left, event
    <2> QED BY <1>1, <1>5, <1>7, <1>10, <2>1, Unreached
  <1>11. ASSUME stale = {}, v \in Hub!Subscribed, v \notin missed' PROVE Reaches(v)'
    <2>1. NewsFresh /\ (v \notin missed => Reaches(v))
      BY <1>11 DEF HubInv
    <2>2. queue \in [Viewers -> Seq(Hub!Events)]
      BY DEF HubTypes
    <2>3. CASE x \in Fresh /\ event # Hub!Changed
      <3>1. event = News /\ x \notin behind
        BY <2>1, <2>3 DEF NewsFresh, Fresh, event
      <3>2. fits
        <4> SUFFICES ASSUME ~fits PROVE FALSE OBVIOUS
        <4>1. (x \in behind) = FALSE
          BY <3>1
        <4>2. fits = FALSE
          BY <1>13
        <4>3. (x \in behind) = fits
          BY <4>1, <4>2, Zenon
        <4>4. missed' = missed \cup {v}
          BY <1>1, <2>3, <4>3, Zenon
        <4> QED BY <1>11, <4>4
      <3>3. queue'[v] = Append(queue[v], event)
        BY <1>1, <2>2, <3>2
      <3> QED BY <1>1, <1>2, <1>7, <3>1, <3>3, Appended DEF Reaches
    <2>4. CASE x \notin Fresh \/ event = Hub!Changed
      <3>1. v \notin missed
        BY <1>1, <1>4, <1>11, <2>4 DEF Fresh, fits
      <3>2. ~fits \/ event = Hub!Changed
        BY <1>1, <1>4, <1>11, <2>4 DEF Fresh, fits
      <3>3. OnItsWay(v) => OnItsWay(v)'
        <4> SUFFICES ASSUME NEW y \in Fresh, sender[y].event # Hub!Changed, sender[y].pc = "copy" \/ v \in sender[y].to
                     PROVE  OnItsWay(v)'
          BY DEF OnItsWay
        <4>1. y # x
          BY <2>4 DEF event
        <4> QED BY <1>3, <1>4, <1>8, <4>1 DEF OnItsWay
      <3>4. UpToDate(v) => UpToDate(v)'
        <4>1. CASE fits
          <5>1. queue'[v] = Append(queue[v], event)
            BY <1>1, <2>2, <4>1
          <5> QED BY <1>1, <1>2, <1>7, <3>2, <4>1, <5>1, Appended
        <4>2. CASE ~fits
          BY <1>1, <1>7, <4>2 DEF UpToDate, Newest
        <4> QED BY <4>1, <4>2
      <3> QED BY <2>1, <3>1, <3>3, <3>4 DEF Reaches
    <2> QED BY <2>3, <2>4
  <1>12. \A w \in Viewers \ {v} : w \in missed' <=> w \in missed
    BY <1>1
  <1> QED BY <1>1, <1>6, <1>7, <1>9, <1>10, <1>11, <1>12, Subscribers DEF HubInv

\* handleRealtimeStream subscribes,
LEMMA SubscribeStep == ASSUME HubTypes, HubInv, NEW v \in Viewers, Hub!Subscribe(v) PROVE HubTypes' /\ HubInv'
  <1>1. /\ stream' = [stream EXCEPT ![v] = "subscribed"] /\ queue' = [queue EXCEPT ![v] = <<>>]
        /\ missed' = missed \ {v} /\ UNCHANGED <<here, status, stale, sender, view, behind>>
    BY DEF Hub!Subscribe
  <1>2. /\ stream'[v] = "subscribed" /\ queue'[v] = <<>>
        /\ \A w \in Viewers \ {v} : stream'[w] = stream[w] /\ queue'[w] = queue[w]
    BY <1>1 DEF HubTypes
  <1>3. HubTypes'
    BY <1>1 DEF HubTypes, Hub!Busy
  <1>4. Hub!Subscribed' = Hub!Subscribed \cup {v} /\ Truth' = Truth /\ News' = News /\ Fresh' = Fresh
    BY <1>1, <1>2 DEF Hub!Subscribed, Truth, News, Fresh, Hub!Busy
  <1>5. Reaches(v)'
    BY <1>2 DEF Reaches, UpToDate
  <1>6. ASSUME NEW w \in Viewers \ {v}, Reaches(w) PROVE Reaches(w)'
    BY <1>1, <1>2, <1>4, <1>6, Unreached
  <1> QED BY <1>1, <1>3, <1>4, <1>5, <1>6, Subscribers DEF HubInv, NewsFresh

\* writes the snapshot of the entries,
LEMMA FirstStep == ASSUME HubTypes, HubInv, NEW v \in Viewers, Hub!First(v) PROVE HubTypes' /\ HubInv'
  <1>1. /\ stream' = [stream EXCEPT ![v] = "live"] /\ view' = [view EXCEPT ![v] = Truth] /\ stream[v] = "subscribed"
        /\ UNCHANGED <<here, status, stale, sender, queue, behind, missed>>
    BY DEF Hub!First, Truth
  <1>2. view'[v] = Truth /\ \A w \in Viewers \ {v} : stream'[w] = stream[w] /\ view'[w] = view[w]
    BY <1>1 DEF HubTypes
  <1>3. HubTypes'
    BY <1>1, LinesType DEF HubTypes, Hub!Busy, Truth
  <1>4. Hub!Subscribed' = Hub!Subscribed /\ Truth' = Truth /\ News' = News /\ Fresh' = Fresh
    BY <1>1 DEF Hub!Subscribed, Truth, News, Fresh, Hub!Busy, HubTypes
  <1>5. Reaches(v) => Reaches(v)'
    BY <1>1, <1>2, <1>4 DEF Reaches, OnItsWay, UpToDate, Newest
  <1>6. ASSUME NEW w \in Viewers \ {v}, Reaches(w) PROVE Reaches(w)'
    BY <1>1, <1>2, <1>4, <1>6, Unreached
  <1> QED BY <1>1, <1>3, <1>4, <1>5, <1>6, Subscribers DEF HubInv, NewsFresh

\* and then what the buffer holds.
LEMMA DeliverStep == ASSUME HubTypes, HubInv, NEW v \in Viewers, Hub!Deliver(v) PROVE HubTypes' /\ HubInv'
  <1> DEFINE head == Head(queue[v])
  <1>1. /\ stream[v] = "live" /\ queue[v] # <<>> /\ queue' = [queue EXCEPT ![v] = Tail(@)]
        /\ view' = (IF head = Hub!Changed THEN view ELSE [view EXCEPT ![v] = head.presence])
        /\ UNCHANGED <<here, status, stale, sender, stream, behind, missed>>
    BY DEF Hub!Deliver
  <1>2. queue[v] \in Seq(Hub!Events) /\ queue \in [Viewers -> Seq(Hub!Events)] /\ view \in [Viewers -> Hub!Snapshots]
    BY DEF HubTypes
  <1>3. /\ head \in Hub!Events /\ Tail(queue[v]) \in Seq(Hub!Events) /\ head = queue[v][1] /\ 1 \in DOMAIN queue[v]
        /\ DOMAIN queue[v] = 1..Len(queue[v]) /\ Len(queue[v]) \in Nat \ {0}
        /\ DOMAIN Tail(queue[v]) = 1..(Len(queue[v]) - 1)
        /\ \A i \in 1..(Len(queue[v]) - 1) : Tail(queue[v])[i] = queue[v][i + 1]
    BY <1>1, <1>2
  <1>4. head.presence \in Hub!Snapshots
    BY <1>3 DEF Hub!Events
  <1>5. queue'[v] = Tail(queue[v]) /\ view'[v] = (IF head = Hub!Changed THEN view[v] ELSE head.presence)
    BY <1>1, <1>2
  <1>6. \A w \in Viewers \ {v} : queue'[w] = queue[w] /\ view'[w] = view[w]
    BY <1>1, <1>2
  <1>7. queue' \in [Viewers -> Seq(Hub!Events)] /\ view' \in [Viewers -> Hub!Snapshots]
    BY <1>1, <1>2, <1>3, <1>4
  <1>8. HubTypes'
    BY <1>1, <1>7 DEF HubTypes, Hub!Busy
  <1>9. Hub!Subscribed' = Hub!Subscribed /\ Truth' = Truth /\ News' = News /\ Fresh' = Fresh
    BY <1>1 DEF Hub!Subscribed, Truth, News, Fresh, Hub!Busy
  <1> HIDE DEF head
  <1>10. UpToDate(v) => UpToDate(v)'
    <2> SUFFICES ASSUME UpToDate(v) PROVE UpToDate(v)' OBVIOUS
    <2>1. ASSUME NEW i \in DOMAIN queue'[v], Newest(i, v)' PROVE queue'[v][i] = News
      <3>1. i + 1 \in DOMAIN queue[v] /\ queue'[v][i] = queue[v][i + 1] /\ i \in 1..(Len(queue[v]) - 1)
        BY <1>3, <1>5, <2>1
      <3>2. ASSUME NEW j \in DOMAIN queue[v], j > i + 1 PROVE queue[v][j] = Hub!Changed
        <4>1. j - 1 \in 1..(Len(queue[v]) - 1) /\ j - 1 > i /\ Tail(queue[v])[j - 1] = queue[v][j]
          BY <1>3, <3>1, <3>2
        <4> QED BY <1>3, <1>5, <2>1, <4>1 DEF Newest
      <3>3. Newest(i + 1, v)
        BY <2>1, <3>1, <3>2 DEF Newest
      <3> QED BY <3>1, <3>3 DEF UpToDate
    <2>2. ASSUME \A i \in DOMAIN queue'[v] : queue'[v][i] = Hub!Changed PROVE view'[v] = Truth
      <3>1. ASSUME NEW j \in DOMAIN queue[v], j > 1 PROVE queue[v][j] = Hub!Changed
        <4>1. j - 1 \in 1..(Len(queue[v]) - 1) /\ Tail(queue[v])[j - 1] = queue[v][j]
          BY <1>3, <3>1
        <4> QED BY <1>3, <1>5, <2>2, <4>1
      <3>2. CASE head = Hub!Changed
        <4>1. \A j \in DOMAIN queue[v] : queue[v][j] = Hub!Changed
          <5>1. \A j \in DOMAIN queue[v] : j = 1 \/ j > 1
            BY <1>3
          <5> QED BY <1>3, <3>1, <3>2, <5>1
        <4> QED BY <1>1, <1>5, <3>2, <4>1 DEF UpToDate
      <3>3. CASE head # Hub!Changed
        <4>1. Newest(1, v)
          BY <1>3, <3>1, <3>3 DEF Newest
        <4>2. head = News
          BY <1>3, <4>1 DEF UpToDate
        <4> QED BY <1>5, <3>3, <4>2, EventTypes DEF News
      <3> QED BY <3>2, <3>3
    <2> QED BY <1>9, <2>1, <2>2 DEF UpToDate
  <1>11. OnItsWay(v) => OnItsWay(v)'
    BY <1>1, <1>9 DEF OnItsWay
  <1>12. ASSUME NEW w \in Viewers \ {v}, Reaches(w) PROVE Reaches(w)'
    BY <1>1, <1>6, <1>9, <1>12, Unreached
  <1> QED BY <1>1, <1>8, <1>9, <1>10, <1>11, <1>12, Subscribers DEF HubInv, NewsFresh, Reaches

\* A stream that ends takes only its own page out of the broadcasts.
LEMMA DisconnectStep == ASSUME HubTypes, HubInv, NEW v \in Viewers, Hub!Disconnect(v) PROVE HubTypes' /\ HubInv'
  <1>1. /\ stream' = [stream EXCEPT ![v] = "closed"] /\ queue' = [queue EXCEPT ![v] = <<>>]
        /\ sender' = [x \in Hub!Senders |->
                        IF sender[x].pc = "send" /\ sender[x].to = {v} THEN Hub!Idle
                        ELSE [sender[x] EXCEPT !.to = @ \ {v}]]
        /\ behind' = {x \in behind : sender'[x].pc # "idle"}
        /\ UNCHANGED <<here, status, stale, view, missed>>
    BY DEF Hub!Disconnect
  <1>2. ASSUME NEW x \in Hub!Senders
        PROVE  /\ sender'[x] \in HubSender
               /\ sender'[x].pc # "idle" =>
                    /\ sender'[x].pc = sender[x].pc /\ sender'[x].event = sender[x].event
                    /\ sender'[x].to = sender[x].to \ {v}
               /\ sender'[x].pc = "idle" => sender[x].pc = "idle" \/ (sender[x].pc = "send" /\ sender[x].to = {v})
    <2>1. sender[x] \in HubSender
      BY DEF HubTypes
    <2>2. CASE sender[x].pc = "send" /\ sender[x].to = {v}
      BY <1>1, <2>2, IdleSender
    <2>3. CASE ~(sender[x].pc = "send" /\ sender[x].to = {v})
      <3>1. sender'[x] = [sender[x] EXCEPT !.to = @ \ {v}]
        BY <1>1, <2>3
      <3> QED BY <2>1, <2>3, <3>1 DEF HubSender
    <2> QED BY <2>2, <2>3
  <1>3. sender' \in [Hub!Senders -> HubSender]
    BY <1>1, <1>2
  <1>4. /\ queue'[v] = <<>> /\ stream'[v] = "closed"
        /\ \A w \in Viewers \ {v} : stream'[w] = stream[w] /\ queue'[w] = queue[w]
    BY <1>1 DEF HubTypes
  <1>5. behind \subseteq Hub!Senders
    BY DEF HubTypes, Hub!Busy
  <1>6. HubTypes'
    BY <1>1, <1>3, <1>5 DEF HubTypes, Hub!Busy
  <1>7. Hub!Subscribed' = Hub!Subscribed \ {v} /\ Truth' = Truth /\ News' = News
    BY <1>1, <1>4 DEF Hub!Subscribed, Truth, News
  <1>8. Fresh' = {x \in Fresh : sender'[x].pc # "idle"}
    <2>1. \A x \in Hub!Senders : sender'[x].pc # "idle" => sender[x].pc # "idle"
      BY <1>2
    <2> QED BY <1>1, <2>1 DEF Fresh, Hub!Busy
  <1>9. NewsFresh => NewsFresh'
    BY <1>2, <1>7, <1>8 DEF NewsFresh, Fresh, Hub!Busy
  <1>10. ASSUME NEW w \in Viewers \ {v}, Reaches(w) PROVE Reaches(w)'
    <2>1. \A y \in Fresh : sender[y].event # Hub!Changed /\ (sender[y].pc = "copy" \/ w \in sender[y].to) =>
             /\ y \in Fresh' /\ sender'[y].event # Hub!Changed
             /\ sender'[y].pc = "copy" \/ w \in sender'[y].to
      <3> SUFFICES ASSUME NEW y \in Fresh, sender[y].event # Hub!Changed, sender[y].pc = "copy" \/ w \in sender[y].to
                   PROVE  /\ y \in Fresh' /\ sender'[y].event # Hub!Changed
                          /\ sender'[y].pc = "copy" \/ w \in sender'[y].to
        OBVIOUS
      <3>1. y \in Hub!Senders /\ sender[y].pc # "idle"
        BY DEF Fresh, Hub!Busy
      <3>2. sender'[y].pc # "idle"
        BY <1>2, <1>10, <3>1
      <3> QED BY <1>2, <1>8, <1>10, <3>1, <3>2
    <2> QED BY <1>1, <1>4, <1>7, <1>10, <2>1, Unreached
  <1> QED BY <1>1, <1>6, <1>7, <1>9, <1>10, Subscribers DEF HubInv

\* Every step of the hub keeps HubInv.
LEMMA HubStep == HubTypes /\ HubInv /\ [Hub!Next]_(Hub!vars) => HubTypes' /\ HubInv'
  <1> SUFFICES ASSUME HubTypes, HubInv, [Hub!Next]_(Hub!vars) PROVE HubTypes' /\ HubInv' OBVIOUS
  <1>1. CASE UNCHANGED Hub!vars
    <2>1. UNCHANGED <<status, stale, sender, stream, queue, view, behind, missed>>
      BY <1>1 DEF Hub!vars
    <2>2. HubTypes'
      BY <2>1 DEF HubTypes, Hub!Busy
    <2>3. Hub!Subscribed' = Hub!Subscribed /\ Truth' = Truth /\ News' = News /\ Fresh' = Fresh
      BY <2>1 DEF Hub!Subscribed, Truth, News, Fresh, Hub!Busy
    <2>4. ASSUME NEW v, Reaches(v) PROVE Reaches(v)'
      BY <2>1, <2>3, <2>4, Unreached
    <2> QED BY <2>1, <2>2, <2>3, <2>4 DEF HubInv, NewsFresh
  <1>2. ASSUME NEW c \in Clients, Hub!Tab(c) PROVE HubTypes' /\ HubInv'
    BY <1>2, AgeStep, HeartbeatStep DEF Hub!Tab
  <1>3. CASE Hub!CleanupStalePresence
    BY <1>3, CleanUpStep
  <1>4. ASSUME NEW x \in Savers, Hub!PublishRecordChange(x) PROVE HubTypes' /\ HubInv'
    BY <1>4, PublishStep
  <1>5. ASSUME NEW x \in Hub!Senders, Hub!Goroutine(x) PROVE HubTypes' /\ HubInv'
    BY <1>5, CopyStep, SendStep DEF Hub!Goroutine
  <1>6. ASSUME NEW v \in Viewers, Hub!Page(v) PROVE HubTypes' /\ HubInv'
    BY <1>6, SubscribeStep, FirstStep, DeliverStep, DisconnectStep DEF Hub!Page
  <1> QED BY <1>1, <1>2, <1>3, <1>4, <1>5, <1>6 DEF Hub!Next

\* A page nothing is under way to shows who has the record open, unless its newest
\* snapshot was dropped at a full buffer, overtaken by an older one or never sent,
\* for any number of tabs, savers and pages and any buffer (UpsertPresence,
\* cleanupStalePresence, broadcast, handleRealtimeStream).
THEOREM PresenceCorrect == Hub!Spec => []PresenceAccurate
  <1>1. HubTypes /\ HubInv => PresenceAccurate
    <2> SUFFICES ASSUME HubTypes, HubInv, NEW v \in Viewers, Hub!Settled(v), v \notin missed PROVE view[v] = Truth
      BY DEF PresenceAccurate, Hub!PresenceAccurate, Truth
    <2>1. stream[v] = "live" /\ queue[v] = <<>> /\ stale = {} /\ Hub!Busy = {}
      BY DEF Hub!Settled
    <2>2. Reaches(v)
      BY <2>1 DEF HubInv, Hub!Subscribed
    <2>3. ~OnItsWay(v)
      BY <2>1 DEF OnItsWay, Fresh
    <2> QED BY <2>1, <2>2, <2>3 DEF Reaches, UpToDate
  <1> QED BY <1>1, HubTypeInit, HubStep, PTL DEF Hub!Spec

=============================================================================
