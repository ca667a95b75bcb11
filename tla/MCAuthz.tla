------------------------------- MODULE MCAuthz -------------------------------
(* Instances for TLC of AuthzCache and, under names of its own, AdminGuard: *)
(* in one part two users, who are alike, a reader and a writer of the       *)
(* permission cache; in the other two accounts, the roles of                *)
(* 040_group_authz.sql and a revocation.                                    *)
EXTENDS AuthzCache, FiniteSets, TLC

CONSTANTS
    u1, u2, admin, operator, g1, w1, any, app,
    Accounts, Roles, Groups, Scopes, Global, Requests, Root, Admin, Inherits, FormEdits, MaxRows, MaxEdits

\* 040_group_authz.sql: admin inherits operator.
SeededInheritance == {<<admin, operator>>}

ASSUME GuardAssumption ==
    /\ Global \in Scopes /\ Root \in Accounts /\ Admin \in Roles
    /\ Inherits \subseteq Roles \X Roles
    /\ FormEdits \in BOOLEAN /\ MaxRows \in Nat /\ MaxEdits \in Nat

VARIABLES part, assigned, joined, groupRole, inherits, granted, request, behind
guard == <<assigned, joined, groupRole, inherits, granted, request, behind>>

Guard == INSTANCE AdminGuard WITH Users <- Accounts, direct <- assigned, member <- joined, outrun <- behind
Symmetry == Permutations(Users)

MCInit == part \in {"guard", "cache"} /\ Guard!Init /\ CacheInit
MCNext ==
    \/ part = "guard" /\ Guard!Next /\ UNCHANGED <<part, cacheVars>>
    \/ part = "cache" /\ CacheNext /\ UNCHANGED <<part, guard>>
MCSpec == MCInit /\ [][MCNext]_<<part, guard, cacheVars>>

\* Only a revocation overtaken by another change, or an edit as a record, takes
\* the last global administrator away (see AdminGuard).
GuardHolds == Guard!GuardHolds
=============================================================================
