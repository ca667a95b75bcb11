----------------------------- MODULE MCBootSync -----------------------------
(* Instances of BootSync for TLC. *)
EXTENDS BootSync, TLC

CONSTANTS p, q

OwnForm == <<"form", "user", "own">>
SystemRole == <<"role", "auditor", "system">>
BaseRole == <<"role", "auditor", "base">>
OwnText == <<"description", "", "own">>
MCEdits == {OwnForm, SystemRole, BaseRole, OwnLanding}
Contents(versions) == [v \in versions |-> "sum"]
Shop == {Seed("orders", "first", "new"), Seed("orders", Null, "new")}

\* The release before, one that ships an app, and one that no longer does.
MCBuilds ==
    [older |-> [files |-> Contents({M042, M043, M047}), ships |-> [app \in {} |-> {}]],
     shop |-> [files |-> Contents({M042, M043, M047, M070, M076}), ships |-> "shop" :> Shop],
     newer |-> [files |-> Contents({M042, M043, M047, M070, M076}), ships |-> [app \in {} |-> {}]]]

Fresh == [recorded |-> [v \in {} |-> Null], ran |-> <<>>, physical |-> {}, apps |-> [a \in {} |-> {}]]
\* Two apps of the time of scripts and empty role lists that people have edited,
\* both with a role of the same name; and an old checksum row.
OldDefinition == {Table(UserTable), Legacy, Open}
Upgraded ==
    [recorded |-> [v \in {M042, M043, M047} |-> IF v = M042 THEN Null ELSE "sum"],
     ran |-> <<M042, M043, M047>>, physical |-> {UserTable},
     apps |-> ("system" :> Row({SystemRole} \cup OldDefinition, OldDefinition, 2, 1))
              @@ ("base" :> Row({WorkOrders, Open, Old(UserTable), OwnForm, BaseRole, OwnText}, {WorkOrders}, 1, 1))]
MCInitial == {Fresh, Upgraded}
Symmetry == Permutations({p, q})
=============================================================================
