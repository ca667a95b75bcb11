------------------------- MODULE MCDefinitionEditor -------------------------
(* An app with something of every kind that extends a table of a base app    *)
(* and calls its public script.                                              *)
EXTENDS DefinitionEditor, TLC
CONSTANTS crm, base, t, b, n, z, m

MCTables == crm :> {t} @@ base :> {b, t}
MCCanon == n :> n @@ z :> z @@ m :> n
Obj(on, refs) == [on |-> on, refs |-> refs]
Role == <<"role", None, n>>
Anyone == <<"role", None, Authenticated>>
Run == <<"method", n, n>>

MCStart ==
    crm :> [objs |-> <<"dependency", None, base>> :> Obj(FALSE, {})
                  @@ Table(t) :> Obj(FALSE, {Table(b), Column(t, n)})
                  @@ Column(t, n) :> Obj(FALSE, {})
                  @@ <<"form", t, n>> :> Obj(FALSE, {Column(t, z)})
                  @@ <<"list", t, n>> :> Obj(FALSE, {Column(t, n)})
                  @@ Role :> Obj(FALSE, {})
                  @@ <<"rule", t, n>> :> Obj(FALSE, {Role})
                  @@ <<"rule", t, z>> :> Obj(FALSE, {Role, Column(t, n)})
                  @@ <<"schedule", None, n>> :> Obj(FALSE, {Run}),
            seeds |-> <<[table |-> t, rows |-> 0], [table |-> t, rows |-> 0]>>]
 @@ base :> [objs |-> <<"dependency", None, crm>> :> Obj(FALSE, {})
                  @@ Table(b) :> Obj(TRUE, {})
                  @@ Column(b, z) :> Obj(FALSE, {})
                  @@ <<"service", None, n>> :> Obj(FALSE, {})
                  @@ Run :> Obj(TRUE, {Anyone}),
            seeds |-> << >>]

\* The base app has unpublished work: its script is to become private.
MCDraft == [MCStart EXCEPT ![base].objs = (Run :> Obj(FALSE, {})) @@ @]

MCChoices(kind, o) ==
    CASE kind = "table" -> {Obj(FALSE, {}), Obj(TRUE, {Table(b)}), Obj(TRUE, {Table(t)})}
      [] kind = "column" -> {Obj(FALSE, {}), Obj(FALSE, {Table(b)})}
      [] kind \in {"form", "rule"} -> {Obj(FALSE, {Role} \cup {Column(o, c)}) : c \in {n, z}}
      [] kind = "relatedList" -> {Obj(FALSE, {Table(b)})}
      [] kind \in {"tableTrigger", "schedule"} -> {Obj(FALSE, {Run})}
      [] kind = "trigger" -> {Obj(FALSE, {Run, Table(t)})}
      [] kind = "method" -> {Obj(FALSE, {}), Obj(TRUE, {Anyone})}
      [] kind = "endpoint" -> {Obj(FALSE, {Run}), Obj(TRUE, {Run, Role})}
      [] kind = "clientScript" -> {Obj(TRUE, {Table(t), Column(t, n)})}
      [] kind = "page" -> {Obj(FALSE, {Role})}
      [] OTHER -> {Obj(FALSE, {})}
Symmetry == Permutations(Requests)
=============================================================================
