---------------------- MODULE DefinitionEditorProofs ----------------------
(***************************************************************************)
(* Proofs about DefinitionEditor for any applications, tables, names and   *)
(* requests.                                                               *)
(*                                                                         *)
(* EditorInv: every draft, and every live definition, is one that          *)
(* validation accepted with some drafts and live definitions of the other  *)
(* applications; the history variables seen and based keep them.  NoLoops: *)
(* unless a save overtook another or two apps have declared one table, no  *)
(* set of tables is closed under what each of them extends.  OwnersInv:    *)
(* owners holds, for each table, every app whose draft declares it, in any *)
(* snapshot a request still holds too; so while no table is contested each *)
(* has one home, and the validation, which looks from the app it           *)
(* validates, and the runtime, which looks from the app of the table       *)
(* below, find the same one.                                               *)
(***************************************************************************)
EXTENDS DefinitionEditor, SequenceTheorems, FiniteSetTheorems, WellFoundedInduction, TLAPS

-----------------------------------------------------------------------------
(* Edits of one draft                                                      *)

\* What a handler puts into a definition.
LEMMA PutIs ==
    ASSUME NEW d, DOMAIN d = {"objs", "seeds"}, NEW k, NEW c
    PROVE  /\ DOMAIN Put(d, k, c) = {"objs", "seeds"} /\ Put(d, k, c).seeds = d.seeds
           /\ Objects(Put(d, k, c)) = Objects(d) \cup {k}
           /\ Put(d, k, c).objs[k] = c
           /\ \A j \in Objects(d) : j # k => Put(d, k, c).objs[j] = d.objs[j]
BY DEF Put, Objects

\* What it keeps.
LEMMA KeepIs ==
    ASSUME NEW d, DOMAIN d = {"objs", "seeds"}, NEW K
    PROVE  /\ DOMAIN Keep(d, K) = {"objs", "seeds"} /\ Keep(d, K).seeds = d.seeds
           /\ Objects(Keep(d, K)) = K
           /\ \A k \in K : Keep(d, K).objs[k] = d.objs[k]
BY DEF Keep, Objects

\* What normalisation adds: a reference to one of a table's own columns.
LEMMA DisplayFieldIs ==
    ASSUME NEW d, NEW k
    PROVE  /\ k[1] # "table" => DisplayField(d, k) = {}
           /\ \A r \in DisplayField(d, k) : r = Column(k[3], r[3]) /\ r[1] = "column" /\ r \in Objects(d)
<1> DEFINE own == {Column(k[3], c) : c \in Preferred} \cap Objects(d)
<1>1. own # {} => (CHOOSE c \in own : TRUE) \in own
    OBVIOUS
<1>2. \A r \in own : r = Column(k[3], r[3]) /\ r[1] = "column" /\ r \in Objects(d)
    BY DEF Column
<1>3. DisplayField(d, k) = {} \/ (own # {} /\ DisplayField(d, k) = {CHOOSE c \in own : TRUE})
    BY DEF DisplayField
<1>4. k[1] # "table" => DisplayField(d, k) = {}
    BY DEF DisplayField
<1> HIDE DEF own
<1> QED BY <1>1, <1>2, <1>3, <1>4

\* Normalisation drops the dependency on itself and adds references, no object.
LEMMA NormalIs ==
    ASSUME NEW a, NEW d, Formed(d)
    PROVE  /\ DOMAIN Normal(a, d) = {"objs", "seeds"} /\ Normal(a, d).seeds = d.seeds
           /\ Objects(Normal(a, d)) = Objects(d) \ {<<"dependency", None, a>>}
           /\ \A k \in Objects(Normal(a, d)) :
                /\ Normal(a, d).objs[k].on = d.objs[k].on
                /\ Normal(a, d).objs[k].refs = d.objs[k].refs \cup DisplayField(d, k)
                /\ Normal(a, d).objs[k] = [on |-> d.objs[k].on, refs |-> d.objs[k].refs \cup DisplayField(d, k)]
<1> DEFINE K == Objects(d) \ {<<"dependency", None, a>>}
           f == [k \in K |-> [d.objs[k] EXCEPT !.refs = @ \cup DisplayField(d, k)]]
<1>1. DOMAIN d = {"objs", "seeds"} /\ Normal(a, d) = [d EXCEPT !.objs = f]
    BY DEF Formed, Normal
<1>2. \A k \in K : d.objs[k] = [on |-> d.objs[k].on, refs |-> d.objs[k].refs]
    BY DEF Formed, FormedContent
<1>3. \A k \in K : /\ f[k].on = d.objs[k].on /\ f[k].refs = d.objs[k].refs \cup DisplayField(d, k)
                   /\ f[k] = [on |-> d.objs[k].on, refs |-> d.objs[k].refs \cup DisplayField(d, k)]
  <2> SUFFICES ASSUME NEW k \in K
               PROVE  [d.objs[k] EXCEPT !.refs = @ \cup DisplayField(d, k)]
                        = [on |-> d.objs[k].on, refs |-> d.objs[k].refs \cup DisplayField(d, k)]
    OBVIOUS
  <2> DEFINE c == d.objs[k]
             D == DisplayField(d, k)
  <2>1. c = [on |-> c.on, refs |-> c.refs]
    BY <1>2
  <2> HIDE DEF c, D
  <2>2. [c EXCEPT !.refs = @ \cup D] = [on |-> c.on, refs |-> c.refs \cup D]
    BY <2>1
  <2> QED BY <2>2 DEF c, D
<1>4. DOMAIN f = K
    OBVIOUS
<1> HIDE DEF f
<1>5. DOMAIN Normal(a, d) = {"objs", "seeds"} /\ Normal(a, d).seeds = d.seeds /\ Normal(a, d).objs = f
    BY <1>1
<1> QED BY <1>3, <1>4, <1>5 DEF Objects

\* A normalised definition is formed and does not depend on itself.
LEMMA NormalFormed ==
    ASSUME NEW a, NEW d, Formed(d)
    PROVE  Formed(Normal(a, d)) /\ <<"dependency", None, a>> \notin Objects(Normal(a, d))
<1> DEFINE e == Normal(a, d)
<1>1. /\ DOMAIN e = {"objs", "seeds"} /\ e.seeds = d.seeds
      /\ Objects(e) = Objects(d) \ {<<"dependency", None, a>>}
      /\ \A k \in Objects(e) : e.objs[k] = [on |-> d.objs[k].on, refs |-> d.objs[k].refs \cup DisplayField(d, k)]
    BY NormalIs
<1> HIDE DEF e
<1>2. ASSUME NEW k \in Objects(e) PROVE FormedKey(e, k) /\ FormedContent(k, e.objs[k])
  <2>1. k \in Objects(d) /\ FormedKey(d, k) /\ FormedContent(k, d.objs[k])
    BY <1>1 DEF Formed
  <2>2. FormedKey(e, k)
    BY <1>1, <2>1 DEF FormedKey, Table
  <2>3. \A r \in DisplayField(d, k) : r[1] = "column" /\ k[1] = "table"
    BY DisplayFieldIs
  <2>4. FormedContent(k, e.objs[k])
    <3> DEFINE c == d.objs[k]
               x == e.objs[k]
               D == DisplayField(d, k)
    <3>1. x = [on |-> c.on, refs |-> c.refs \cup D] /\ FormedContent(k, c) /\ \A r \in D : r[1] = "column" /\ k[1] = "table"
      BY <1>1, <2>1, <2>3
    <3> HIDE DEF c, x, D
    <3>2. FormedContent(k, x)
      BY <3>1 DEF FormedContent
    <3> QED BY <3>2 DEF x
  <2> QED BY <2>2, <2>4
<1>3. Formed(e) /\ <<"dependency", None, a>> \notin Objects(e)
    BY <1>1, <1>2 DEF Formed
<1> QED BY <1>3 DEF e

-----------------------------------------------------------------------------
(* Every handler keeps the shape of a definition and changes what it says  *)

Differ(d, e) == {k \in Objects(d) \cup Objects(e) : ~(k \in Objects(d) /\ k \in Objects(e)) \/ d.objs[k] # e.objs[k]}

\* Of the objects it names, an edit changes what it posts; of others, the
\* forms and lists of a table it names.
Local(d, e) ==
    /\ \A k \in Differ(d, e.def) :
         \/ /\ k \in e.touched
            /\ k \in Objects(d) /\ k \in Objects(e.def) =>
                 KeptOf(d.objs[k], e.posted) = KeptOf(e.def.objs[k], e.posted)
         \/ k[1] \in {"form", "list"} /\ Table(k[2]) \in e.touched
    /\ \A k \in e.touched : k[1] = "table" => "column" \in e.posted

SeedsLocal(d, e) ==
    Len(e.def.seeds) = Len(d.seeds) =>
        \A i \in ChangedSeeds(d, e.def) : \E j \in i .. Len(d.seeds) : <<"seed", d.seeds[i].table, j>> \in e.touched

Proper(d, e) == Formed(e.def) /\ Local(d, e) /\ SeedsLocal(d, e)

\* The parts of an edit.
LEMMA ResultIs ==
    ASSUME NEW d, NEW active, NEW touched
    PROVE  /\ Result(d, active, touched).def = d /\ Result(d, active, touched).touched = touched
           /\ Result(d, active, touched).posted = Everything
           /\ DOMAIN Result(d, active, touched) = {"def", "active", "touched", "posted"}
BY DEF Result

\* Two contents agree in what is kept when everything is posted.
LEMMA NothingKept ==
    ASSUME NEW k, NEW j, NEW c, NEW x, FormedContent(k, c), FormedContent(j, x)
    PROVE  KeptOf(c, Everything) = KeptOf(x, Everything)
<1>1. \A r \in c.refs \cup x.refs : r[1] \in Everything
    BY DEF FormedContent, Everything
<1>2. KeptOf(c, Everything) = [on |-> FALSE, refs |-> {}] /\ KeptOf(x, Everything) = [on |-> FALSE, refs |-> {}]
    BY <1>1 DEF KeptOf, Everything
<1> QED BY <1>2

\* An edit that keeps the seeds is local in them.
LEMMA SameSeeds ==
    ASSUME NEW d, NEW e, Formed(d), e.def.seeds = d.seeds PROVE SeedsLocal(d, e)
BY DEF SeedsLocal, ChangedSeeds

\* An object added or given new contents.
LEMMA PutFormed ==
    ASSUME NEW d, Formed(d), NEW k, NEW c, FormedContent(k, c), FormedKey(d, k)
    PROVE  Formed(Put(d, k, c))
<1> DEFINE e == Put(d, k, c)
<1>1. /\ DOMAIN e = {"objs", "seeds"} /\ e.seeds = d.seeds /\ Objects(e) = Objects(d) \cup {k} /\ e.objs[k] = c
      /\ \A j \in Objects(d) : j # k => e.objs[j] = d.objs[j]
    BY PutIs DEF Formed
<1> HIDE DEF e
<1>2. ASSUME NEW j \in Objects(e) PROVE FormedKey(e, j) /\ FormedContent(j, e.objs[j])
  <2>1. FormedKey(d, j)
    BY <1>1 DEF Formed
  <2>2. FormedKey(e, j)
    BY <1>1, <2>1 DEF FormedKey, Table
  <2>3. FormedContent(j, e.objs[j])
    BY <1>1 DEF Formed
  <2> QED BY <2>2, <2>3
<1> QED BY <1>1, <1>2 DEF Formed, e

\* Objects taken away, with what hangs below them.
LEMMA KeepFormed ==
    ASSUME NEW d, Formed(d), NEW K, K \subseteq Objects(d),
           \A k \in K : /\ k[1] \in TableKinds => Table(k[2]) \in K
                        /\ k[1] = "method" => <<"service", None, k[2]>> \in K
    PROVE  Formed(Keep(d, K))
<1> DEFINE e == Keep(d, K)
<1>1. /\ DOMAIN e = {"objs", "seeds"} /\ e.seeds = d.seeds /\ Objects(e) = K
      /\ \A k \in K : e.objs[k] = d.objs[k]
    BY KeepIs DEF Formed
<1> HIDE DEF e
<1>2. ASSUME NEW j \in Objects(e) PROVE FormedKey(e, j) /\ FormedContent(j, e.objs[j])
    BY <1>1 DEF Formed, FormedKey
<1> QED BY <1>1, <1>2 DEF Formed, e

Named(d) == \A k \in Objects(d) : k[1] = "table" => k[3] \in AllTables

\* Kinds and owners of new objects are those that contents are known for.
LEMMA KindsKnown ==
    ASSUME NEW d, Formed(d), Named(d), NEW kind \in TableKinds \cup TopKinds \cup {"method"}, NEW owner \in Owners(d, kind)
    PROVE  /\ owner \in AllTables \cup Names \cup {None}
           /\ kind \in TableKinds => Table(owner) \in Objects(d)
           /\ kind \in TopKinds => owner = None
           /\ kind = "method" => <<"service", None, owner>> \in Objects(d)
<1>1. TableKinds \cap TopKinds = {} /\ "method" \notin TableKinds \cup TopKinds
    BY DEF TableKinds, TopKinds
<1>2. CASE kind \in TableKinds
  <2>1. Owners(d, kind) = {k[3] : k \in {j \in Objects(d) : j[1] = "table"}}
    BY <1>1, <1>2 DEF Owners
  <2>2. PICK k \in Objects(d) : k[1] = "table" /\ owner = k[3]
    BY <2>1
  <2>3. k = Table(k[3]) /\ k[3] \in AllTables
    BY <2>2 DEF Formed, FormedKey, TopKinds, Table, Named
  <2> QED BY <1>1, <1>2, <2>2, <2>3
<1>3. CASE kind = "method"
  <2>1. Owners(d, kind) = {k[3] : k \in {j \in Objects(d) : j[1] = "service"}}
    BY <1>1, <1>3 DEF Owners
  <2>2. PICK k \in Objects(d) : k[1] = "service" /\ owner = k[3]
    BY <2>1
  <2>3. k = <<"service", None, k[3]>> /\ k[3] \in Names
    BY <2>2 DEF Formed, FormedKey, TopKinds
  <2> QED BY <1>1, <1>3, <2>2, <2>3
<1>4. CASE kind \in TopKinds
    BY <1>1, <1>4 DEF Owners
<1> QED BY <1>2, <1>3, <1>4

\* What a handler may post for an object is formed.
LEMMA ContentsFormed ==
    ASSUME NEW kind \in TableKinds \cup TopKinds \cup {"method"}, NEW owner \in AllTables \cup Names \cup {None},
           NEW c \in Choices(kind, owner), NEW n
    PROVE  FormedContent(<<kind, owner, n>>, c)
<1>1. FormedContent(<<kind, owner, None>>, c)
    BY EditorAssumption
<1> QED BY <1>1 DEF FormedContent

\* A new object is the only one that differs.
LEMMA AddedProper ==
    ASSUME NEW d, Formed(d), Named(d), NEW kind \in TableKinds \cup TopKinds \cup {"method"}, NEW owner \in Owners(d, kind),
           NEW n, n \in DOMAIN Canon \/ kind # "service", NEW c \in NewContents(kind, owner), NEW e \in Added(d, kind, owner, n, c)
    PROVE  Proper(d, e)
<1> DEFINE k == <<kind, owner, Normalised(kind, n)>>
<1>1. /\ e = Result(IF Dropped(d, k) THEN d ELSE Put(d, k, c), <<kind, owner, n>>, {k})
      /\ k \notin Objects(d) \/ Dropped(d, k)
    BY DEF Added, Repeated, Dropped
<1>2. kind = "service" => Normalised(kind, n) \in Names
    BY SpellingAssumption DEF Normalised, LooseKinds
<1>3. FormedKey(d, k)
    BY <1>2, KindsKnown DEF FormedKey
<1>4. FormedContent(k, c)
  <2>1. CASE kind \in {"form", "page"}
    BY <2>1 DEF NewContents, FormedContent
  <2>2. CASE kind \notin {"form", "page"}
    BY <2>2, KindsKnown, ContentsFormed DEF NewContents
  <2> QED BY <2>1, <2>2
<1>5. k[1] = kind /\ e.touched = {k} /\ e.posted = Everything /\ e.def = IF Dropped(d, k) THEN d ELSE Put(d, k, c)
    BY <1>1, ResultIs
<1> HIDE DEF k
<1>6. CASE Dropped(d, k)
  <2>1. Differ(d, e.def) = {}
    BY <1>5, <1>6 DEF Differ
  <2> QED BY <1>5, <1>6, <2>1, SameSeeds DEF Proper, Local, Everything
<1>7. CASE ~Dropped(d, k)
  <2>1. e.def = Put(d, k, c) /\ k \notin Objects(d)
    BY <1>1, <1>5, <1>7
  <2>2. Formed(e.def)
    BY <1>3, <1>4, <2>1, PutFormed
  <2>3. /\ e.def.seeds = d.seeds /\ Objects(e.def) = Objects(d) \cup {k}
        /\ \A j \in Objects(d) : j # k => e.def.objs[j] = d.objs[j]
    BY <2>1, PutIs DEF Formed
  <2>4. Differ(d, e.def) \subseteq {k}
    BY <2>3 DEF Differ
  <2> QED BY <1>5, <2>1, <2>2, <2>3, <2>4, SameSeeds DEF Proper, Local, Everything
<1> QED BY <1>6, <1>7

\* Adding an object is a proper edit.
LEMMA NewProper ==
    ASSUME NEW a, NEW d, Formed(d), Named(d), NEW kinds, kinds \subseteq TableKinds \cup TopKinds \cup {"method"},
           NEW e \in NewOf(a, d, kinds)
    PROVE  Proper(d, e)
<1>1. PICK p \in UNION {{kind} \X Owners(d, kind) : kind \in kinds} :
        e \in UNION {UNION {Added(d, p[1], p[2], n, c) : c \in NewContents(p[1], p[2])} : n \in NamesFor(a, p[1])}
    BY DEF NewOf
<1>2. PICK n \in NamesFor(a, p[1]) : e \in UNION {Added(d, p[1], p[2], n, c) : c \in NewContents(p[1], p[2])}
    BY <1>1
<1>3. PICK c \in NewContents(p[1], p[2]) : e \in Added(d, p[1], p[2], n, c)
    BY <1>2
<1>4. p[1] \in kinds /\ p[2] \in Owners(d, p[1])
    BY <1>1
<1>5. p[1] = "service" => n \in DOMAIN Canon
    BY <1>2 DEF NamesFor, LooseKinds
<1> QED BY <1>3, <1>4, <1>5, AddedProper

\* An object given new contents, of which it keeps what is not posted.
LEMMA ChangedProper ==
    ASSUME NEW d, Formed(d), NEW k \in Objects(d), NEW x, FormedContent(k, x), NEW e,
           e.def = Put(d, k, x), e.touched = {k}, k[1] = "table" => "column" \in e.posted,
           KeptOf(d.objs[k], e.posted) = KeptOf(x, e.posted)
    PROVE  Proper(d, e)
<1>1. FormedKey(d, k)
    BY DEF Formed
<1>2. Formed(e.def)
    BY <1>1, PutFormed
<1>3. /\ e.def.seeds = d.seeds /\ Objects(e.def) = Objects(d) \cup {k} /\ e.def.objs[k] = x
      /\ \A j \in Objects(d) : j # k => e.def.objs[j] = d.objs[j]
    BY PutIs DEF Formed
<1>4. Differ(d, e.def) \subseteq {k}
    BY <1>3 DEF Differ
<1>5. Local(d, e)
    BY <1>3, <1>4 DEF Local
<1> QED BY <1>2, <1>3, <1>5, SameSeeds DEF Proper

\* Saving an object is a proper edit.
LEMMA SaveOfProper ==
    ASSUME NEW d, Formed(d), Named(d), NEW K, K \subseteq Objects(d),
           \A k \in K : k[1] \in (TableKinds \cup TopKinds \cup {"method"}) \ {"table"}, NEW e \in SaveOf(d, K)
    PROVE  Proper(d, e)
<1>1. PICK k \in K : e \in UNION {{Replaced(d, k, c, Posted(k[1], part)) : c \in Choices(k[1], k[2])}
                                : part \in {None} \cup Parts(k[1])}
    BY DEF SaveOf
<1>2. PICK part \in {None} \cup Parts(k[1]) : e \in {Replaced(d, k, c, Posted(k[1], part)) : c \in Choices(k[1], k[2])}
    BY <1>1
<1>3. PICK c \in Choices(k[1], k[2]) : e = Replaced(d, k, c, Posted(k[1], part))
    BY <1>2
<1> DEFINE what == Posted(k[1], part)
           old == d.objs[k]
           x == [on |-> IF "on" \in what THEN c.on ELSE old.on,
                 refs |-> {r \in old.refs : r[1] \notin what} \cup {r \in c.refs : r[1] \in what}]
<1>4. k \in Objects(d) /\ FormedKey(d, k) /\ FormedContent(k, old)
    BY DEF Formed
<1>5. k[2] \in AllTables \cup Names \cup {None}
  <2>1. CASE k[1] \in TableKinds
    <3>1. Table(k[2]) \in Objects(d)
      BY <1>4, <2>1 DEF FormedKey
    <3>2. Table(k[2])[1] = "table" /\ Table(k[2])[3] = k[2]
      BY DEF Table
    <3> QED BY <3>1, <3>2 DEF Named
  <2>2. CASE k[1] = "method"
    <3>1. <<"service", None, k[2]>> \in Objects(d)
      BY <1>4, <2>2 DEF FormedKey
    <3>2. FormedKey(d, <<"service", None, k[2]>>)
      BY <3>1 DEF Formed
    <3> QED BY <3>2 DEF FormedKey
  <2>3. CASE k[1] \in TopKinds
    BY <1>4, <2>3 DEF FormedKey
  <2> QED BY <2>1, <2>2, <2>3
<1>6. FormedContent(k, c)
  <2>1. FormedContent(<<k[1], k[2], k[3]>>, c)
    BY <1>3, <1>5, ContentsFormed
  <2>2. k = <<k[1], k[2], k[3]>>
    BY <1>4 DEF FormedKey
  <2> QED BY <2>1, <2>2
<1>7. e.def = Put(d, k, x) /\ e.touched = {k} /\ e.posted = what
  <2>1. e = [Result(Put(d, k, x), k, {k}) EXCEPT !.posted = what]
    BY <1>3 DEF Replaced, Refs
  <2> HIDE DEF x, what
  <2> QED BY <2>1 DEF Result
<1> HIDE DEF old, what
<1>8. FormedContent(k, x)
    BY <1>4, <1>6 DEF FormedContent
<1>9. KeptOf(old, what) = KeptOf(x, what)
  <2>1. {r \in x.refs : r[1] \notin what} = {r \in old.refs : r[1] \notin what}
    OBVIOUS
  <2>2. "on" \notin what => x.on = old.on
    OBVIOUS
  <2> HIDE DEF x
  <2> QED BY <2>1, <2>2 DEF KeptOf
<1> HIDE DEF x
<1> QED BY <1>4, <1>7, <1>8, <1>9, ChangedProper DEF old

\* Saving a table is a proper edit.
LEMMA TableEditsProper ==
    ASSUME NEW d, Formed(d), Named(d), NEW dropped, NEW e \in TableEdits(d, dropped),
           dropped \subseteq {"form", "list"}
    PROVE  Proper(d, e)
<1>1. PICK k \in {j \in Objects(d) : j[1] = "table"}, c \in Choices("table", None) :
        e = [Result(Keep(Put(d, k, [c EXCEPT !.refs = {r \in @ : r[1] # "table"} \cup RefsOf(d, k, "table")]),
                    {j \in Objects(d) : ~(j[2] = k[3] /\ j[1] \in dropped)}), k, {k})
               EXCEPT !.posted = @ \ {"table"}]
  <2> DEFINE F(k, c) == [Result(Keep(Put(d, k, [c EXCEPT !.refs = {r \in @ : r[1] # "table"} \cup RefsOf(d, k, "table")]),
                    {j \in Objects(d) : ~(j[2] = k[3] /\ j[1] \in dropped)}), k, {k})
               EXCEPT !.posted = @ \ {"table"}]
  <2>1. TableEdits(d, dropped) = {F(k, c) : k \in {j \in Objects(d) : j[1] = "table"}, c \in Choices("table", None)}
    BY DEF TableEdits
  <2>2. \E k \in {j \in Objects(d) : j[1] = "table"}, c \in Choices("table", None) : e = F(k, c)
    <3> HIDE DEF F
    <3> QED BY <2>1
  <2> QED BY <2>2
<1> DEFINE old == d.objs[k]
           x == [c EXCEPT !.refs = {r \in @ : r[1] # "table"} \cup RefsOf(d, k, "table")]
           mid == Put(d, k, x)
           K == {j \in Objects(d) : ~(j[2] = k[3] /\ j[1] \in dropped)}
<1>2. k \in Objects(d) /\ k = Table(k[3]) /\ FormedKey(d, k) /\ FormedContent(k, old)
  <2>1. k \in Objects(d) /\ FormedKey(d, k) /\ k[1] = "table"
    BY DEF Formed
  <2> QED BY <2>1 DEF Formed, FormedKey, Table, TopKinds
<1>3. FormedContent(k, c)
  <2>1. FormedContent(<<"table", None, k[3]>>, c)
    BY ContentsFormed DEF TopKinds
  <2> QED BY <1>2, <2>1 DEF Table
<1>4. e.def = Keep(mid, K) /\ e.touched = {k} /\ e.posted = Everything \ {"table"}
  <2>1. e = [Result(Keep(mid, K), k, {k}) EXCEPT !.posted = @ \ {"table"}]
    BY <1>1
  <2> HIDE DEF mid, K
  <2> QED BY <2>1 DEF Result
<1>5. x = [on |-> c.on, refs |-> {r \in c.refs : r[1] # "table"} \cup {r \in old.refs : r[1] = "table"}]
  <2> DEFINE T == RefsOf(d, k, "table")
  <2>1. c = [on |-> c.on, refs |-> c.refs]
    BY <1>3 DEF FormedContent
  <2>2. T = {r \in old.refs : r[1] = "table"}
    BY DEF RefsOf, Refs
  <2> HIDE DEF T
  <2>3. [c EXCEPT !.refs = {r \in @ : r[1] # "table"} \cup T] = [on |-> c.on, refs |-> {r \in c.refs : r[1] # "table"} \cup T]
    BY <2>1
  <2> QED BY <2>2, <2>3 DEF T
<1> HIDE DEF x
<1>6. FormedContent(k, x)
  <2>1. k[1] = "table"
    BY <1>1
  <2> QED BY <1>2, <1>3, <1>5, <2>1 DEF FormedContent
<1>7. KeptOf(old, e.posted) = KeptOf(x, e.posted)
  <2>1. \A r \in old.refs \cup c.refs : r[1] \in {"role", "table", "column", "method"}
    BY <1>2, <1>3 DEF FormedContent
  <2>2. {r \in old.refs : r[1] \notin e.posted} = {r \in x.refs : r[1] \notin e.posted}
    BY <1>4, <1>5, <2>1 DEF Everything
  <2>3. "on" \in e.posted
    BY <1>4 DEF Everything
  <2> HIDE DEF old
  <2> QED BY <2>2, <2>3 DEF KeptOf
<1>8. /\ Formed(mid) /\ mid.seeds = d.seeds /\ Objects(mid) = Objects(d) /\ mid.objs[k] = x
      /\ \A j \in Objects(d) : j # k => mid.objs[j] = d.objs[j]
  <2>1. Formed(mid)
    BY <1>2, <1>6, PutFormed
  <2>2. DOMAIN d = {"objs", "seeds"} /\ Objects(d) \cup {k} = Objects(d)
    BY <1>2 DEF Formed
  <2>3. /\ Put(d, k, x).seeds = d.seeds /\ Objects(Put(d, k, x)) = Objects(d) \cup {k} /\ Put(d, k, x).objs[k] = x
        /\ \A j \in Objects(d) : j # k => Put(d, k, x).objs[j] = d.objs[j]
    BY <2>2, PutIs
  <2> QED BY <2>1, <2>2, <2>3
<1> HIDE DEF mid
<1>9. /\ K \subseteq Objects(d) /\ k \in K
      /\ \A j \in Objects(d) \ K : j[1] \in {"form", "list"} /\ Table(j[2]) = k
      /\ \A j \in K : /\ j[1] \in TableKinds => Table(j[2]) \in K
                      /\ j[1] = "method" => <<"service", None, j[2]>> \in K
  <2>1. K \subseteq Objects(d) /\ k \in K
    BY <1>1, <1>2
  <2>2. \A j \in Objects(d) \ K : j[1] \in {"form", "list"} /\ Table(j[2]) = k
    BY <1>2
  <2>3. ASSUME NEW j \in K, j[1] \in TableKinds PROVE Table(j[2]) \in K
    <3>1. Table(j[2]) \in Objects(d)
      BY <2>3 DEF Formed, FormedKey
    <3>2. Table(j[2])[1] = "table"
      BY DEF Table
    <3> QED BY <3>1, <3>2
  <2>4. ASSUME NEW j \in K, j[1] = "method" PROVE <<"service", None, j[2]>> \in K
    BY <2>4 DEF Formed, FormedKey
  <2> QED BY <2>1, <2>2, <2>3, <2>4
<1> HIDE DEF K
<1>10. Formed(e.def)
    BY <1>4, <1>8, <1>9, KeepFormed
<1>11. /\ Objects(e.def) = K /\ e.def.seeds = d.seeds
       /\ \A j \in K : e.def.objs[j] = mid.objs[j]
    BY <1>4, <1>8, KeepIs DEF Formed
<1>12. ASSUME NEW j \in Differ(d, e.def)
       PROVE  \/ /\ j \in e.touched
                 /\ j \in Objects(d) /\ j \in Objects(e.def) =>
                      KeptOf(d.objs[j], e.posted) = KeptOf(e.def.objs[j], e.posted)
              \/ j[1] \in {"form", "list"} /\ Table(j[2]) \in e.touched
  <2>1. j \in Objects(d)
    BY <1>9, <1>11 DEF Differ
  <2>2. CASE j \notin K
    BY <1>4, <1>9, <2>1, <2>2
  <2>3. CASE j \in K
    <3>1. j = k
      BY <1>8, <1>11, <2>1, <2>3 DEF Differ
    <3> QED BY <1>4, <1>7, <1>8, <1>9, <1>11, <3>1 DEF old
  <2> QED BY <2>2, <2>3
<1>13. Local(d, e)
    BY <1>4, <1>12 DEF Local, Everything
<1> QED BY <1>10, <1>11, <1>13, SameSeeds DEF Proper

\* Objects taken away are named.
LEMMA LeftOutProper ==
    ASSUME NEW d, Formed(d), NEW gone, NEW e, e.def = Keep(d, Objects(d) \ gone), e.touched = gone, e.posted = Everything,
           \A k \in Objects(d) \ gone : /\ k[1] \in TableKinds => Table(k[2]) \notin gone
                                        /\ k[1] = "method" => <<"service", None, k[2]>> \notin gone
    PROVE  Proper(d, e)
<1> DEFINE K == Objects(d) \ gone
<1>1. \A k \in K : /\ k[1] \in TableKinds => Table(k[2]) \in K
                   /\ k[1] = "method" => <<"service", None, k[2]>> \in K
    BY DEF Formed, FormedKey
<1>2. K \subseteq Objects(d)
    OBVIOUS
<1> HIDE DEF K
<1>3. Formed(Keep(d, K))
    BY <1>1, <1>2, KeepFormed
<1>4. /\ Objects(Keep(d, K)) = K /\ Keep(d, K).seeds = d.seeds
      /\ \A k \in K : Keep(d, K).objs[k] = d.objs[k]
    BY KeepIs DEF Formed
<1>5. Differ(d, e.def) \subseteq gone /\ Objects(e.def) \cap gone = {}
    BY <1>4 DEF Differ, K
<1>6. Local(d, e)
    BY <1>5 DEF Local, Everything
<1> QED BY <1>3, <1>4, <1>6, SameSeeds DEF Proper, K

\* Renaming a table is a proper edit.
LEMMA RenamedProper ==
    ASSUME NEW a, NEW d, Formed(d), Named(d), NEW e \in Rename(a, d)
    PROVE  Proper(d, e)
<1>0. PICK k \in {j \in Objects(d) : j[1] \in {"rule", "dependency"}} :
        e \in UNION {Renamed(a, d, k, n) : n \in NamesFor(a, k[1])}
    BY DEF Rename
<1>1. PICK n \in NamesFor(a, k[1]) : e \in Renamed(a, d, k, n)
    BY <1>0
<1> DEFINE j == <<k[1], k[2], Normalised(k[1], n)>>
           moved == Keep(d, Objects(d) \ {k})
           x == d.objs[k]
<1>2. /\ e \in {Result(Put(moved, j, x), k, {j, k}), Result(moved, k, {j, k})}
      /\ j \notin Objects(d) => e = Result(Put(moved, j, x), k, {j, k})
    BY <1>1 DEF Renamed
<1>3. k \in Objects(d) /\ FormedKey(d, k) /\ FormedContent(k, x) /\ k[1] \in {"rule", "dependency"}
    BY <1>1 DEF Formed
<1>4. j[1] = k[1] /\ j[2] = k[2]
    OBVIOUS
<1>5. FormedKey(d, j) /\ FormedContent(j, x)
    BY <1>3, <1>4 DEF FormedKey, FormedContent
<1> HIDE DEF j, x
<1>6. \A i \in Objects(d) : /\ i[1] \in TableKinds => Table(i[2]) \in Objects(d) \ {k}
                            /\ i[1] = "method" => <<"service", None, i[2]>> \in Objects(d) \ {k}
    BY <1>3 DEF Formed, FormedKey, Table
<1>7. /\ Formed(moved) /\ Objects(moved) = Objects(d) \ {k} /\ moved.seeds = d.seeds
      /\ \A i \in Objects(d) \ {k} : moved.objs[i] = d.objs[i]
  <2>1. Formed(moved)
    BY <1>6, KeepFormed
  <2> QED BY <2>1, KeepIs DEF Formed
<1> HIDE DEF moved
<1>8. FormedKey(moved, j)
    BY <1>3, <1>4, <1>5, <1>7 DEF FormedKey, Table
<1>9. e.touched = {j, k} /\ e.posted = Everything /\ e.def \in {Put(moved, j, x), moved}
    BY <1>2, ResultIs
<1>10. /\ Formed(Put(moved, j, x)) /\ Put(moved, j, x).seeds = d.seeds
       /\ Objects(Put(moved, j, x)) = (Objects(d) \ {k}) \cup {j}
       /\ \A i \in Objects(d) \ {k} : i # j => Put(moved, j, x).objs[i] = d.objs[i]
  <2>1. FormedContent(j, x)
    BY <1>5
  <2>2. Formed(Put(moved, j, x))
    BY <1>7, <1>8, <2>1, PutFormed
  <2>3. DOMAIN moved = {"objs", "seeds"}
    BY <1>7 DEF Formed
  <2> QED BY <1>7, <2>2, <2>3, PutIs
<1>11. Formed(e.def) /\ e.def.seeds = d.seeds
    BY <1>7, <1>9, <1>10
<1>12. Differ(d, e.def) \subseteq {j, k}
    BY <1>7, <1>9, <1>10 DEF Differ
<1>13. \A i \in {j, k} : i \in Objects(d) /\ i \in Objects(e.def) =>
          KeptOf(d.objs[i], e.posted) = KeptOf(e.def.objs[i], e.posted)
    BY <1>9, <1>11, NothingKept DEF Formed
<1>14. Local(d, e)
    BY <1>9, <1>12, <1>13 DEF Local, Everything
<1> QED BY <1>11, <1>14, SameSeeds DEF Proper

\* Saving the application form is a proper edit.
LEMMA WholeProper ==
    ASSUME NEW d, Formed(d), NEW e \in SaveWhole(d)
    PROVE  Proper(d, e)
<1>1. PICK gone \in SUBSET Objects(d) :
        /\ e = Result(Keep(d, Objects(d) \ gone), Nowhere, gone)
        /\ \E kind \in {"dependency", "policy", "tableTrigger", "relatedList", "rule"} : \A j \in gone : j[1] = kind
    BY DEF SaveWhole
<1>2. \A k : /\ Table(k[2]) \notin gone
             /\ <<"service", None, k[2]>> \notin gone
    BY <1>1 DEF Table
<1>3. e.def = Keep(d, Objects(d) \ gone) /\ e.touched = gone /\ e.posted = Everything
    BY <1>1, ResultIs
<1> QED BY <1>2, <1>3, LeftOutProper

\* A set of numbers that holds 0 and the successor of each of its members is Nat.
LEMMA NumberInduction ==
    ASSUME NEW T, 0 \in T, \A n \in T : n \in Nat => n + 1 \in T
    PROVE  Nat \subseteq T
<1>1. IsWellFoundedOn(OpToRel(<, Nat), Nat)
    BY NatLessThanWellFounded DEF OpToRel
<1> DEFINE Left == Nat \ T
<1>2. SUFFICES ASSUME Left # {} PROVE FALSE
    OBVIOUS
<1>3. Left \subseteq Nat
    OBVIOUS
<1> HIDE DEF Left
<1>4. PICK n \in Left : \A m \in Left : ~(<<m, n>> \in OpToRel(<, Nat))
    BY <1>1, <1>2, <1>3, WFMin, Zenon
<1>5. n \in Nat /\ n \notin T /\ \A m \in Nat : m < n => m \in T
    BY <1>3, <1>4 DEF Left, OpToRel
<1>6. n # 0 /\ n - 1 \in Nat /\ n - 1 < n /\ (n - 1) + 1 = n
    BY <1>5
<1>7. n - 1 \in T
    BY <1>5, <1>6
<1>8. (n - 1) + 1 \in T
    BY <1>6, <1>7
<1> QED BY <1>5, <1>6, <1>8

\* Saving the YAML is a proper edit.
LEMMA YamlProper ==
    ASSUME NEW d, Formed(d), Named(d), NEW published, Formed(published), NEW e \in SaveYaml(d, published)
    PROVE  Proper(d, e)
<1> DEFINE ids == {<<"seed", d.seeds[i].table, i>> : i \in 1 .. Len(d.seeds)}
           F(y) == Result(y, Nowhere, Objects(d) \cup Objects(y) \cup ids)
           Y == {Put(d, k, c) : k \in {j \in Objects(d) : j[1] = "table"}, c \in Choices("table", None)}
<1>1. PICK y \in {published} \cup Y : e = F(y)
  <2>1. SaveYaml(d, published) = {F(y) : y \in {published} \cup Y}
    BY DEF SaveYaml
  <2> HIDE DEF F, Y
  <2> QED BY <2>1
<1>2. ASSUME NEW x \in Y PROVE Formed(x)
  <2>1. PICK k \in {j \in Objects(d) : j[1] = "table"}, c \in Choices("table", None) : x = Put(d, k, c)
    OBVIOUS
  <2>2. k \in Objects(d) /\ FormedKey(d, k) /\ k[1] = "table"
    BY DEF Formed
  <2>3. FormedContent(<<"table", None, k[3]>>, c) /\ k = <<"table", None, k[3]>>
    BY <2>2, ContentsFormed DEF TopKinds, FormedKey
  <2>4. FormedContent(k, c)
    BY <2>3
  <2> QED BY <2>1, <2>2, <2>4, PutFormed
<1> HIDE DEF Y
<1>3. /\ e.def = y /\ e.touched = Objects(d) \cup Objects(y) \cup ids /\ e.posted = Everything /\ Formed(y)
    BY <1>1, <1>2, ResultIs
<1>4. \A i \in 1 .. Len(d.seeds) : <<"seed", d.seeds[i].table, i>> \in ids /\ i \in i .. Len(d.seeds)
    OBVIOUS
<1> HIDE DEF ids, F
<1>5. SeedsLocal(d, e)
    BY <1>3, <1>4 DEF SeedsLocal, ChangedSeeds
<1>6. \A k \in Differ(d, y) : k \in e.touched
    BY <1>3 DEF Differ
<1>7. \A k : k \in Objects(d) /\ k \in Objects(y) => KeptOf(d.objs[k], Everything) = KeptOf(y.objs[k], Everything)
    BY <1>3, NothingKept DEF Formed
<1> QED BY <1>3, <1>5, <1>6, <1>7 DEF Proper, Local, Everything

\* The first seed of a table.
LEMMA FirstSeed ==
    ASSUME NEW d, Formed(d), NEW i \in 1 .. Len(d.seeds)
    PROVE  \E m \in 1 .. i : /\ d.seeds[m].table = d.seeds[i].table
                            /\ \A h \in 1 .. (m - 1) : d.seeds[h].table # d.seeds[i].table
<1> DEFINE T == {n \in Nat : (\E h \in 1 .. n : h <= i /\ d.seeds[h].table = d.seeds[i].table) =>
                    \E m \in 1 .. i : /\ d.seeds[m].table = d.seeds[i].table
                                     /\ \A h \in 1 .. (m - 1) : d.seeds[h].table # d.seeds[i].table}
<1>0. Len(d.seeds) \in Nat /\ i \in Nat /\ i >= 1
    BY DEF Formed
<1>1. 0 \in T
    OBVIOUS
<1>2. ASSUME NEW n \in T PROVE n \in Nat => n + 1 \in T
  <2>1. ASSUME NEW h \in 1 .. (n + 1), h <= i, d.seeds[h].table = d.seeds[i].table, n \in Nat,
               ~\E g \in 1 .. n : g <= i /\ d.seeds[g].table = d.seeds[i].table
        PROVE  \E m \in 1 .. i : /\ d.seeds[m].table = d.seeds[i].table
                                /\ \A g \in 1 .. (m - 1) : d.seeds[g].table # d.seeds[i].table
    <3>1. h = n + 1 /\ h \in 1 .. i
      BY <2>1, <1>0
    <3>2. \A g \in 1 .. (h - 1) : g \in 1 .. n /\ g <= i
      BY <3>1, <2>1, <1>0
    <3> QED BY <2>1, <3>1, <3>2
  <2> QED BY <2>1
<1>3. Nat \subseteq T
  <2> HIDE DEF T
  <2> QED BY <1>1, <1>2, NumberInduction
<1>4. i \in T
  <2> HIDE DEF T
  <2> QED BY <1>0, <1>3
<1>5. i \in 1 .. i /\ i <= i
    BY <1>0
<1>6. \E h \in 1 .. i : h <= i /\ d.seeds[h].table = d.seeds[i].table
    BY <1>5
<1> QED BY <1>4, <1>6

\* Saving a seed row is a proper edit.
LEMMA SeedProper ==
    ASSUME NEW d, Formed(d), NEW e \in SaveSeed(d)
    PROVE  Proper(d, e)
<1> DEFINE first(i) == CHOOSE j \in 1 .. i : /\ d.seeds[j].table = d.seeds[i].table
                                           /\ \A h \in 1 .. (j - 1) : d.seeds[h].table # d.seeds[i].table
           F(i, v) == Result([d EXCEPT !.seeds[first(i)].rows = v], <<"seed", d.seeds[i].table, i>>, {<<"seed", d.seeds[i].table, i>>})
<1>1. PICK i \in 1 .. Len(d.seeds) : e \in {F(i, v) : v \in 0 .. 1}
  <2>1. SaveSeed(d) = UNION {{F(i, v) : v \in 0 .. 1} : i \in 1 .. Len(d.seeds)}
    BY DEF SaveSeed
  <2> HIDE DEF F
  <2> QED BY <2>1
<1>2. PICK v \in 0 .. 1 : e = F(i, v)
  <2> HIDE DEF F
  <2> QED BY <1>1
<1> DEFINE m == first(i)
<1>3. m \in 1 .. i /\ d.seeds[m].table = d.seeds[i].table
    BY FirstSeed
<1> HIDE DEF first, m
<1>4. e.def = [d EXCEPT !.seeds[m].rows = v] /\ e.touched = {<<"seed", d.seeds[i].table, i>>}
    BY <1>2, ResultIs DEF m
<1> HIDE DEF F
<1> DEFINE row == [d.seeds[m] EXCEPT !.rows = v]
           seeds == [d.seeds EXCEPT ![m] = row]
<1>5. DOMAIN d = {"objs", "seeds"} /\ d.seeds \in Seq([table : AllTables, rows : Nat]) /\ Len(d.seeds) \in Nat /\ i \in Nat
    BY DEF Formed
<1>6. e.def = [d EXCEPT !.seeds = seeds]
    BY <1>4
<1>7. m \in 1 .. Len(d.seeds)
    BY <1>3, <1>5
<1>8. row \in [table : AllTables, rows : Nat]
  <2>1. d.seeds[m] \in [table : AllTables, rows : Nat]
    BY <1>5, <1>7, ElementOfSeq
  <2> QED BY <2>1
<1> HIDE DEF row
<1>9. /\ seeds \in Seq([table : AllTables, rows : Nat]) /\ Len(seeds) = Len(d.seeds)
      /\ \A j \in 1 .. Len(d.seeds) : j # m => seeds[j] = d.seeds[j]
    BY <1>5, <1>7, <1>8, ExceptSeq
<1> HIDE DEF seeds
<1>10. DOMAIN e.def = {"objs", "seeds"} /\ e.def.seeds = seeds /\ e.def.objs = d.objs
    BY <1>5, <1>6
<1>11. Formed(e.def)
    BY <1>9, <1>10 DEF Formed, FormedKey, Objects
<1>12. Differ(d, e.def) = {}
    BY <1>10 DEF Differ, Objects
<1>13. Local(d, e)
  <2>1. \A k \in e.touched : k[1] = "seed"
    BY <1>4
  <2> QED BY <1>12, <2>1 DEF Local
<1>14. SeedsLocal(d, e)
  <2>1. ChangedSeeds(d, e.def) \subseteq {m}
    BY <1>9, <1>10 DEF ChangedSeeds
  <2>2. i \in m .. Len(d.seeds) /\ <<"seed", d.seeds[m].table, i>> \in e.touched
    BY <1>3, <1>4, <1>5
  <2> QED BY <2>1, <2>2 DEF SeedsLocal
<1> QED BY <1>11, <1>13, <1>14 DEF Proper

\* Deleting an object is a proper edit.
LEMMA DeleteProper ==
    ASSUME NEW d, Formed(d), Named(d), NEW kinds, NEW e \in DeleteObject(d, kinds)
    PROVE  Proper(d, e)
<1> DEFINE gone(k) == {k} \cup Below(d, k)
           back(k) == IF k[1] \in TableKinds THEN Table(k[2])
                      ELSE IF k[1] = "method" THEN <<"service", None, k[2]>> ELSE Nowhere
           F(k) == Result(Keep(d, Objects(d) \ gone(k)), back(k), gone(k))
<1>1. PICK k \in {j \in Objects(d) : j[1] \in kinds} : e = F(k)
  <2>1. DeleteObject(d, kinds) = {F(k) : k \in {j \in Objects(d) : j[1] \in kinds}}
    BY DEF DeleteObject
  <2> HIDE DEF F
  <2> QED BY <2>1
<1>2. e.def = Keep(d, Objects(d) \ gone(k)) /\ e.touched = gone(k) /\ e.posted = Everything
  <2> HIDE DEF gone, back
  <2> QED BY <1>1, ResultIs
<1> HIDE DEF F, back
<1>3. k \in Objects(d) /\ \A j \in Below(d, k) : j \in Objects(d) /\ j[2] = k[3] /\ k[1] \in {"table", "service"}
                                              /\ ((j[1] = "method") = (k[1] = "service"))
    BY <1>1 DEF Below
<1>4. ASSUME NEW j \in Objects(d) \ gone(k), j[1] \in TableKinds PROVE Table(j[2]) \notin gone(k)
  <2>1. Table(j[2])[1] = "table" /\ Table(j[2])[2] = None /\ Table(j[2])[3] = j[2] /\ j[1] # "method"
    BY <1>4 DEF Table, TableKinds
  <2>2. ASSUME k = Table(j[2]) PROVE FALSE
    <3>1. j \in Below(d, k)
      BY <2>1, <2>2 DEF Below
    <3> QED BY <3>1
  <2>3. ASSUME Table(j[2]) \in Below(d, k) PROVE FALSE
    <3>1. k[3] = None /\ k[1] = "table"
      BY <1>3, <2>1, <2>3
    <3> QED BY <1>3, <3>1, SpellingAssumption DEF Named
  <2> QED BY <2>2, <2>3
<1>5. ASSUME NEW j \in Objects(d) \ gone(k), j[1] = "method" PROVE <<"service", None, j[2]>> \notin gone(k)
  <2>2. ASSUME k = <<"service", None, j[2]>> PROVE FALSE
    <3>1. j \in Below(d, k)
      BY <1>5, <2>2 DEF Below
    <3> QED BY <3>1
  <2>3. ASSUME <<"service", None, j[2]>> \in Below(d, k) PROVE FALSE
    <3>1. k[3] = None /\ k[1] = "table"
      BY <1>3, <2>3
    <3> QED BY <1>3, <3>1, SpellingAssumption DEF Named
  <2> QED BY <2>2, <2>3
<1> HIDE DEF gone
<1> QED BY <1>2, <1>4, <1>5, LeftOutProper

\* Deleting a seed row is a proper edit.
LEMMA DeleteSeedProper ==
    ASSUME NEW d, Formed(d), NEW e \in DeleteSeed(d)
    PROVE  Proper(d, e)
<1> DEFINE short(i) == SubSeq(d.seeds, 1, i - 1) \o SubSeq(d.seeds, i + 1, Len(d.seeds))
           F(i) == Result([d EXCEPT !.seeds = SubSeq(@, 1, i - 1) \o SubSeq(@, i + 1, Len(@))],
                          Nowhere, {<<"seed", d.seeds[i].table, i>>})
           R == [table : AllTables, rows : Nat]
<1>1. PICK i \in 1 .. Len(d.seeds) : e = F(i)
  <2>1. DeleteSeed(d) = {F(i) : i \in 1 .. Len(d.seeds)}
    BY DEF DeleteSeed
  <2> HIDE DEF F
  <2> QED BY <2>1
<1>2. DOMAIN d = {"objs", "seeds"} /\ d.seeds \in Seq(R) /\ Len(d.seeds) \in Nat /\ i \in Nat
    BY DEF Formed
<1>3. e.def = [d EXCEPT !.seeds = short(i)] /\ e.touched = {<<"seed", d.seeds[i].table, i>>}
    BY <1>1, ResultIs
<1> HIDE DEF F
<1>4. short(i) \in Seq(R) /\ Len(short(i)) = Len(d.seeds) - 1
  <2> DEFINE s == SubSeq(d.seeds, 1, i - 1)
             t == SubSeq(d.seeds, i + 1, Len(d.seeds))
  <2>1. \A j \in 1 .. Len(d.seeds) : d.seeds[j] \in R
    BY <1>2, ElementOfSeq
  <2>2. i - 1 \in Int /\ i + 1 \in Int /\ Len(d.seeds) \in Int /\ 1 \in Int
    BY <1>2
  <2>3. \A j \in 1 .. (i - 1) : d.seeds[j] \in R
    BY <1>2, <2>1
  <2>4. \A j \in (i + 1) .. Len(d.seeds) : d.seeds[j] \in R
    BY <1>2, <2>1
  <2> HIDE DEF R
  <2>5. s \in Seq(R) /\ Len(s) = IF 1 <= i - 1 THEN (i - 1) - 1 + 1 ELSE 0
    BY <2>2, <2>3, SubSeqProperties
  <2>6. t \in Seq(R) /\ Len(t) = IF i + 1 <= Len(d.seeds) THEN Len(d.seeds) - (i + 1) + 1 ELSE 0
    BY <2>2, <2>4, SubSeqProperties
  <2>7. Len(s) = i - 1
    BY <1>2, <2>5
  <2>8. Len(t) = Len(d.seeds) - i
    BY <1>2, <2>6
  <2> HIDE DEF s, t
  <2>9. s \o t \in Seq(R) /\ Len(s \o t) = Len(s) + Len(t)
    BY <2>5, <2>6, ConcatProperties
  <2>10. Len(s \o t) = Len(d.seeds) - 1
    BY <1>2, <2>7, <2>8, <2>9
  <2> QED BY <2>9, <2>10 DEF s, t
<1> HIDE DEF short
<1>5. DOMAIN e.def = {"objs", "seeds"} /\ e.def.seeds = short(i) /\ e.def.objs = d.objs
    BY <1>2, <1>3
<1>6. Formed(e.def)
    BY <1>4, <1>5 DEF Formed, FormedKey, Objects
<1>7. Differ(d, e.def) = {}
    BY <1>5 DEF Differ, Objects
<1>8. Local(d, e)
  <2>1. \A k \in e.touched : k[1] = "seed"
    BY <1>3
  <2> QED BY <1>7, <2>1 DEF Local
<1>9. Len(e.def.seeds) # Len(d.seeds)
    BY <1>2, <1>4, <1>5
<1> QED BY <1>6, <1>8, <1>9 DEF Proper, SeedsLocal

\* Saving what is not of a table, new or known.
LEMMA SaveEntryProper ==
    ASSUME NEW a, NEW d, Formed(d), Named(d), NEW kinds \in SUBSET ((TopKinds \cup {"method"}) \ {"table"}),
           NEW e \in SaveEntry(a, d, kinds)
    PROVE  Proper(d, e)
<1>1. CASE e \in NewOf(a, d, kinds)
    BY <1>1, NewProper
<1>2. CASE e \in SaveOf(d, {k \in Objects(d) : k[1] \in kinds})
  <2> DEFINE K == {k \in Objects(d) : k[1] \in kinds}
  <2>1. K \subseteq Objects(d) /\ \A k \in K : k[1] \in (TableKinds \cup TopKinds \cup {"method"}) \ {"table"}
    OBVIOUS
  <2>2. e \in SaveOf(d, K)
    BY <1>2
  <2> HIDE DEF K
  <2> QED BY <2>1, <2>2, SaveOfProper
<1> QED BY <1>1, <1>2 DEF SaveEntry

\* Every save is a proper edit.
LEMMA SavesProper ==
    ASSUME NEW a, NEW d, Formed(d), Named(d), NEW published, Formed(published), NEW e \in Saves(a, d, published)
    PROVE  Proper(d, e)
<1> DEFINE kinds == TableKinds \cup TopKinds \cup {"method"}
<1>1. {"table"} \subseteq kinds /\ (TableKinds \ {"list"}) \subseteq kinds /\ {"dependency"} \subseteq kinds
    BY DEF TableKinds, TopKinds
<1>2. CASE e \in NewTable(a, d) \cup NewTablePart(a, d) \cup NewDependency(a, d)
    BY <1>1, <1>2, NewProper DEF NewTable, NewTablePart, NewDependency
<1>3. CASE e \in SaveTable(d)
    BY <1>3, TableEditsProper DEF SaveTable
<1>4. CASE e \in SaveTablePart(d)
  <2> DEFINE K == {k \in Objects(d) : k[1] \in TableKinds \ {"list"}}
  <2>1. K \subseteq Objects(d) /\ \A k \in K : k[1] \in kinds \ {"table"}
    BY DEF TableKinds
  <2>2. e \in SaveOf(d, K)
    BY <1>4 DEF SaveTablePart
  <2> HIDE DEF K
  <2> QED BY <2>1, <2>2, SaveOfProper
<1>5. CASE e \in SaveService(a, d) \cup SavePage(a, d) \cup SaveClientScript(a, d) \cup SaveDocumentation(a, d)
  <2>1. \A K \in {{"role", "service", "method", "endpoint", "trigger", "schedule"}, {"page"}, {"clientScript"}, {"documentation"}} :
            K \in SUBSET ((TopKinds \cup {"method"}) \ {"table"})
    BY DEF TopKinds
  <2> QED BY <1>5, <2>1, SaveEntryProper DEF SaveService, SavePage, SaveClientScript, SaveDocumentation
<1>6. CASE e \in Rename(a, d) \cup SaveWhole(d) \cup SaveYaml(d, published) \cup SaveSeed(d)
    BY <1>6, RenamedProper, WholeProper, YamlProper, SeedProper
<1> QED BY <1>2, <1>3, <1>4, <1>5, <1>6 DEF Saves

\* Every deletion is a proper edit.
LEMMA DeletesProper ==
    ASSUME NEW d, Formed(d), Named(d), NEW e \in Deletes(d)
    PROVE  Proper(d, e)
BY DeleteProper, DeleteSeedProper DEF Deletes, DeleteTablePart, DeleteEntry

-----------------------------------------------------------------------------
(* What every state keeps                                                  *)

\* A definition that was normalised and validated for its app.
Good(a, d) == /\ Formed(d) /\ a \notin Dependencies(d)
              /\ \A k \in Objects(d) : k[1] = "table" => k[3] \in TablesOf[a]
AllGood(drafts) == \A b \in Apps : Good(b, drafts[b])

ReqFields == {"pc", "app", "drafts", "lives", "publish", "active", "touched", "posted"}
ReqGood(r) ==
    /\ DOMAIN req[r] = ReqFields
    /\ req[r].pc \in {"edit", "publish"} => req[r].app \in Apps /\ AllGood(req[r].drafts) /\ AllGood(req[r].lives)

EditorInv ==
    /\ DOMAIN draft = Apps /\ DOMAIN live = Apps /\ DOMAIN seen = Apps /\ DOMAIN based = Apps /\ DOMAIN req = Requests
    /\ AllGood(draft) /\ AllGood(live) /\ \A r \in Requests : ReqGood(r)
    /\ \A a \in Apps : /\ AllGood(seen[a]) /\ \E lives : Valid(a, draft[a], seen[a], lives)
                       /\ \E drafts : Valid(a, live[a], drafts, based[a])

\* A good definition is formed and its objects are named.
LEMMA GoodNamed == ASSUME NEW a \in Apps, NEW d, Good(a, d) PROVE Formed(d) /\ Named(d)
BY DEF Good, Named, AllTables

\* A definition that passes validation is good.
LEMMA NormalGood ==
    ASSUME NEW a, NEW d, Formed(d), NEW drafts, NEW lives, Valid(a, Normal(a, d), drafts, lives)
    PROVE  Good(a, Normal(a, d))
<1>1. Formed(Normal(a, d)) /\ <<"dependency", None, a>> \notin Objects(Normal(a, d))
    BY NormalFormed
<1>2. \A k \in Objects(Normal(a, d)) : k[1] = "table" => k[3] \in TablesOf[a]
    BY DEF Valid
<1> QED BY <1>1, <1>2 DEF Good, Dependencies

\* What a save or a delete does.
LEMMA EditIs ==
    ASSUME EditorInv, NEW r \in Requests, Save(r) \/ Delete(r)
    PROVE  LET a == req[r].app
               d == req[r].drafts[a]
           IN  /\ a \in Apps /\ req[r].pc = "edit" /\ Good(a, d)
               /\ \E e : /\ Proper(d, e) /\ Write(r, e)
                         /\ DOMAIN req' = Requests /\ \A q \in Requests \ {r} : req'[q] = req[q]
                         /\ DOMAIN req'[r] = ReqFields /\ req'[r].pc \in {"publish", "done"}
                         /\ req'[r].app = a /\ req'[r].drafts = req[r].drafts /\ req'[r].lives = req[r].lives
                         /\ req'[r].touched = e.touched /\ req'[r].posted = e.posted
<1> DEFINE a == req[r].app
           d == req[r].drafts[a]
           p == req[r].lives[a]
<1>1. /\ req[r].pc = "edit" /\ ReqGood(r) /\ DOMAIN req = Requests
    BY DEF Save, Delete, EditorInv
<1>2. a \in Apps /\ Good(a, d) /\ Good(a, p) /\ DOMAIN req[r] = ReqFields
    BY <1>1 DEF ReqGood, AllGood
<1>3. Formed(d) /\ Named(d) /\ Formed(p)
    BY <1>2, GoodNamed
<1>4. PICK e \in Saves(a, d, p) \cup Deletes(d), pc \in {"publish", "done"} :
        /\ Write(r, e)
        /\ req' = [req EXCEPT ![r].pc = pc, ![r].active = e.active, ![r].touched = e.touched, ![r].posted = e.posted]
  <2>1. CASE Save(r)
    BY <2>1 DEF Save
  <2>2. CASE Delete(r)
    BY <2>2 DEF Delete
  <2> QED BY <2>1, <2>2
<1>5. Proper(d, e)
    BY <1>3, <1>4, SavesProper, DeletesProper
<1>6. /\ DOMAIN req' = Requests /\ \A q \in Requests \ {r} : req'[q] = req[q]
      /\ req'[r] = [req[r] EXCEPT !.pc = pc, !.active = e.active, !.touched = e.touched, !.posted = e.posted]
    BY <1>1, <1>4
<1> DEFINE x == req[r]
<1>7. DOMAIN x = ReqFields
    BY <1>2
<1> HIDE DEF x
<1>8. req'[r] = [x EXCEPT !.pc = pc, !.active = e.active, !.touched = e.touched, !.posted = e.posted]
    BY <1>6 DEF x
<1>9. /\ DOMAIN req'[r] = ReqFields /\ req'[r].pc = pc /\ req'[r].app = x.app /\ req'[r].drafts = x.drafts
      /\ req'[r].lives = x.lives /\ req'[r].touched = e.touched /\ req'[r].posted = e.posted
    BY <1>7, <1>8 DEF ReqFields
<1>10. req'[r].pc \in {"publish", "done"} /\ req'[r].app = a /\ req'[r].drafts = req[r].drafts /\ req'[r].lives = req[r].lives
    BY <1>4, <1>9 DEF x
<1> QED BY <1>1, <1>2, <1>4, <1>5, <1>6, <1>9, <1>10

\* The definitions the editor starts from are good.
LEMMA StartGood == ASSUME NEW a \in Apps PROVE Good(a, Start[a]) /\ Good(a, StartLive[a])
<1>1. \A d \in {Start[a], StartLive[a]} : Formed(d) /\ a \notin Dependencies(d)
    BY EditorAssumption
<1>2. \A k \in Objects(Start[a]) : k[1] = "table" => k[3] \in TablesOf[a]
    BY EditorAssumption DEF Valid
<1>3. \A k \in Objects(StartLive[a]) : k[1] = "table" => k[3] \in TablesOf[a]
    BY EditorAssumption DEF Valid
<1> QED BY <1>1, <1>2, <1>3 DEF Good

\* EditorInv holds at the start.
LEMMA EditorInit == ASSUME Init PROVE EditorInv
<1>1. AllGood(Start) /\ AllGood(StartLive)
    BY StartGood DEF AllGood
<1>2. \A a \in Apps : Valid(a, Start[a], Start, StartLive) /\ Valid(a, StartLive[a], StartLive, StartLive)
    BY EditorAssumption
<1>3. \A r \in Requests : ReqGood(r)
    BY DEF Init, Idle, ReqGood, ReqFields
<1>4. /\ DOMAIN Start = Apps /\ DOMAIN StartLive = Apps
    BY EditorAssumption
<1> QED BY <1>1, <1>2, <1>3, <1>4 DEF Init, EditorInv

\* Opening a page keeps EditorInv.
LEMMA ReadKeeps == ASSUME EditorInv, NEW r \in Requests, Read(r) PROVE EditorInv'
<1>1. PICK a \in Apps, publish \in BOOLEAN, pc \in {"edit", "publish"} :
        req' = [req EXCEPT ![r] = [pc |-> pc, app |-> a, drafts |-> draft, lives |-> live,
                                   publish |-> publish, active |-> Nowhere, touched |-> {}, posted |-> {}]]
    BY DEF Read
<1>2. DOMAIN req' = Requests /\ \A q \in Requests \ {r} : req'[q] = req[q]
    BY <1>1 DEF EditorInv
<1>3. req'[r] = [pc |-> pc, app |-> a, drafts |-> draft, lives |-> live,
                 publish |-> publish, active |-> Nowhere, touched |-> {}, posted |-> {}]
    BY <1>1 DEF EditorInv
<1>4. AllGood(draft) /\ AllGood(live)
    BY DEF EditorInv
<1>5. ReqGood(r)'
    BY <1>3, <1>4 DEF ReqGood, ReqFields
<1>6. \A q \in Requests \ {r} : ReqGood(q)'
    BY <1>2 DEF EditorInv, ReqGood
<1>7. UNCHANGED <<draft, live, seen, based>>
    BY DEF Read
<1> QED BY <1>2, <1>5, <1>6, <1>7 DEF EditorInv

\* A save or a deletion keeps EditorInv.
LEMMA EditKeeps == ASSUME EditorInv, NEW r \in Requests, Save(r) \/ Delete(r) PROVE EditorInv'
<1> DEFINE a == req[r].app
           d == req[r].drafts[a]
<1>1. a \in Apps /\ req[r].pc = "edit" /\ Good(a, d)
    BY EditIs
<1>2. PICK e : /\ Proper(d, e) /\ Write(r, e)
               /\ DOMAIN req' = Requests /\ \A q \in Requests \ {r} : req'[q] = req[q]
               /\ DOMAIN req'[r] = ReqFields /\ req'[r].pc \in {"publish", "done"}
               /\ req'[r].app = a /\ req'[r].drafts = req[r].drafts /\ req'[r].lives = req[r].lives
    BY EditIs
<1>3. /\ Valid(a, Normal(a, e.def), req[r].drafts, req[r].lives)
      /\ draft' = [draft EXCEPT ![a] = Normal(a, e.def)]
      /\ seen' = [seen EXCEPT ![a] = req[r].drafts]
      /\ UNCHANGED <<live, based>>
    BY <1>2 DEF Write
<1>4. Good(a, Normal(a, e.def))
    BY <1>2, <1>3, NormalGood DEF Proper
<1>5. AllGood(req[r].drafts) /\ AllGood(req[r].lives)
    BY <1>1 DEF EditorInv, ReqGood
<1>6. AllGood(draft)' /\ DOMAIN draft' = Apps /\ \A b \in Apps : draft'[b] = IF b = a THEN Normal(a, e.def) ELSE draft[b]
    BY <1>1, <1>3, <1>4 DEF EditorInv, AllGood
<1>7. DOMAIN seen' = Apps /\ \A b \in Apps : seen'[b] = IF b = a THEN req[r].drafts ELSE seen[b]
    BY <1>1, <1>3 DEF EditorInv
<1>8. AllGood(live)' /\ \A q \in Requests : ReqGood(q)'
  <2>1. ReqGood(r)'
    BY <1>1, <1>2, <1>5 DEF ReqGood
  <2>2. \A q \in Requests \ {r} : ReqGood(q)'
    BY <1>2 DEF EditorInv, ReqGood
  <2> QED BY <1>3, <2>1, <2>2 DEF EditorInv
<1>9. ASSUME NEW b \in Apps
      PROVE  /\ AllGood(seen'[b]) /\ \E lives : Valid(b, draft'[b], seen'[b], lives)
             /\ \E drafts : Valid(b, live'[b], drafts, based'[b])
  <2>1. CASE b = a
    BY <1>3, <1>5, <1>6, <1>7, <2>1 DEF EditorInv
  <2>2. CASE b # a
    BY <1>3, <1>6, <1>7, <2>2 DEF EditorInv
  <2> QED BY <2>1, <2>2
<1> QED BY <1>2, <1>3, <1>6, <1>7, <1>8, <1>9 DEF EditorInv

\* A request that ends remembers nothing.
LEMMA DoneGood == ASSUME EditorInv, NEW r \in Requests, req' = [req EXCEPT ![r] = [Idle EXCEPT !.pc = "done"]]
                  PROVE  DOMAIN req' = Requests /\ \A q \in Requests : ReqGood(q)'
<1>1. DOMAIN req' = Requests /\ \A q \in Requests \ {r} : req'[q] = req[q]
    BY DEF EditorInv
<1>2. req'[r] = [Idle EXCEPT !.pc = "done"]
    BY DEF EditorInv
<1>3. req'[r].pc = "done" /\ DOMAIN req'[r] = ReqFields
    BY <1>2 DEF Idle, ReqFields
<1>4. ReqGood(r)'
    BY <1>3 DEF ReqGood
<1>5. \A q \in Requests \ {r} : ReqGood(q)'
    BY <1>1 DEF EditorInv, ReqGood
<1> QED BY <1>1, <1>4, <1>5

\* A refused post keeps EditorInv.
LEMMA RefuseKeeps == ASSUME EditorInv, NEW r \in Requests, Refuse(r) PROVE EditorInv'
BY DoneGood DEF EditorInv, Refuse, AllGood

\* Publishing keeps EditorInv.
LEMMA PublishKeeps == ASSUME EditorInv, NEW r \in Requests, Publish(r) PROVE EditorInv'
<1> DEFINE a == req[r].app
           d == Normal(a, req[r].drafts[a])
           ok == Valid(a, d, req[r].drafts, req[r].lives)
<1>1. /\ live' = IF ok THEN [live EXCEPT ![a] = d] ELSE live
      /\ based' = IF ok THEN [based EXCEPT ![a] = req[r].lives] ELSE based
      /\ req' = [req EXCEPT ![r] = [Idle EXCEPT !.pc = "done"]] /\ UNCHANGED <<draft, seen>> /\ req[r].pc = "publish"
    BY DEF Publish
<1>2. DOMAIN req' = Requests /\ \A q \in Requests : ReqGood(q)'
    BY <1>1, DoneGood
<1>3. CASE ~ok
    BY <1>1, <1>2, <1>3 DEF EditorInv, AllGood
<1>4. CASE ok
  <2>1. a \in Apps /\ Formed(req[r].drafts[a])
    BY <1>1 DEF EditorInv, ReqGood, AllGood, Good
  <2>2. Good(a, d)
    BY <1>4, <2>1, NormalGood
  <2>3. DOMAIN live' = Apps /\ \A b \in Apps : live'[b] = IF b = a THEN d ELSE live[b]
    BY <1>1, <1>4, <2>1 DEF EditorInv
  <2>4. DOMAIN based' = Apps /\ \A b \in Apps : based'[b] = IF b = a THEN req[r].lives ELSE based[b]
    BY <1>1, <1>4, <2>1 DEF EditorInv
  <2>5. AllGood(live)'
    BY <2>2, <2>3 DEF EditorInv, AllGood
  <2>6. \A b \in Apps : \E drafts : Valid(b, live'[b], drafts, based'[b])
    BY <1>4, <2>3, <2>4 DEF EditorInv
  <2> QED BY <1>1, <1>2, <2>3, <2>4, <2>5, <2>6 DEF EditorInv
<1> QED BY <1>3, <1>4

\* EditorInv is inductive.
LEMMA EditorStep == ASSUME EditorInv, [Next]_vars PROVE EditorInv'
<1>1. CASE UNCHANGED vars
    BY <1>1 DEF EditorInv, AllGood, ReqGood, vars
<1>2. CASE Next
    BY <1>2, ReadKeeps, EditKeeps, RefuseKeeps, PublishKeeps DEF Next
<1> QED BY <1>1, <1>2

\* Every state the editor reaches holds definitions that were normalised and
\* validated for their app.
LEMMA EditorInvariant == Spec => []EditorInv
<1>1. Init => EditorInv
    BY EditorInit
<1>2. EditorInv /\ [Next]_vars => EditorInv'
    BY EditorStep
<1> QED BY <1>1, <1>2, PTL DEF Spec

\* Every script a published trigger, schedule or enabled endpoint calls is
\* published, until a dependency publishes again.
THEOREM PublishedCallsResolve == Spec => []LiveCallsLive
<1>1. EditorInv => LiveCallsLive
  <2> SUFFICES ASSUME EditorInv, NEW a \in Apps, \A b \in Apps \ {a} : live[b] = based[a][b],
                      NEW k \in Objects(live[a]), k[1] # "tableTrigger", Checked(live[a], k),
                      NEW m \in RefsOf(live[a], k, "method")
               PROVE  \/ m \in Objects(live[a])
                      \/ \E b \in Dependencies(live[a]) \ {a} : m \in Objects(live[b]) /\ live[b].objs[m].on
    BY DEF LiveCallsLive
  <2>1. PICK drafts : Valid(a, live[a], drafts, based[a])
    BY DEF EditorInv
  <2>2. Resolves(Scope(a, live[a], drafts), live[a], based[a], k, m)
    BY <2>1 DEF Valid, RefsOf
  <2>3. m[1] = "method"
    BY DEF RefsOf
  <2>4. Callable(live[a], based[a], m)
    BY <2>2, <2>3 DEF Resolves
  <2>5. a \notin Dependencies(live[a]) /\ Dependencies(live[a]) \subseteq Apps
    BY DEF EditorInv, AllGood, Good, Dependencies
  <2> QED BY <2>4, <2>5 DEF Callable
<1> QED BY <1>1, EditorInvariant, PTL

\* What an edit leaves of the draft it read.
LEMMA NormalLocal ==
    ASSUME NEW a \in Apps, NEW d, Good(a, d), NEW e, Proper(d, e),
           NEW k \in Differ(d, Normal(a, e.def))
    PROVE  \/ /\ k \in e.touched
              /\ k \in Objects(d) /\ k \in Objects(Normal(a, e.def)) =>
                   KeptOf(d.objs[k], e.posted) = KeptOf(Normal(a, e.def).objs[k], e.posted)
           \/ k[1] \in {"form", "list"} /\ Table(k[2]) \in e.touched
           \/ k[1] = "table" /\ k \in Objects(d) /\ k \in Objects(Normal(a, e.def))
                            /\ d.objs[k].refs \subseteq Normal(a, e.def).objs[k].refs
<1> DEFINE after == Normal(a, e.def)
<1>1. /\ Objects(after) = Objects(e.def) \ {<<"dependency", None, a>>}
      /\ \A j \in Objects(after) : after.objs[j] = [on |-> e.def.objs[j].on, refs |-> e.def.objs[j].refs \cup DisplayField(e.def, j)]
    BY NormalIs DEF Proper
<1>2. <<"dependency", None, a>> \notin Objects(d) \cup Objects(after)
  <2>1. <<"dependency", None, a>> \notin Objects(d)
    BY DEF Good, Dependencies
  <2> QED BY <1>1, <2>1
<1>3. k # <<"dependency", None, a>> /\ (k \in Objects(after) <=> k \in Objects(e.def))
    BY <1>1, <1>2 DEF Differ
<1> HIDE DEF after
<1>4. ASSUME k \in Objects(after)
      PROVE  /\ e.def.objs[k] = [on |-> e.def.objs[k].on, refs |-> e.def.objs[k].refs]
             /\ k[1] # "table" => after.objs[k] = e.def.objs[k]
             /\ e.def.objs[k].refs \subseteq after.objs[k].refs
             /\ "column" \in e.posted => KeptOf(after.objs[k], e.posted) = KeptOf(e.def.objs[k], e.posted)
  <2> DEFINE c == e.def.objs[k]
             D == DisplayField(e.def, k)
             x == after.objs[k]
  <2>1. c = [on |-> c.on, refs |-> c.refs] /\ x = [on |-> c.on, refs |-> c.refs \cup D]
    BY <1>1, <1>3, <1>4 DEF Proper, Formed, FormedContent
  <2>2. (k[1] # "table" => D = {}) /\ \A r \in D : r[1] = "column"
    BY DisplayFieldIs
  <2> HIDE DEF c, D, x
  <2>3. c.refs \subseteq x.refs /\ x.on = c.on /\ x.refs = c.refs \cup D
    BY <2>1
  <2>4. "column" \in e.posted => {r \in x.refs : r[1] \notin e.posted} = {r \in c.refs : r[1] \notin e.posted}
    BY <2>2, <2>3
  <2>5. "column" \in e.posted => KeptOf(x, e.posted) = KeptOf(c, e.posted)
    BY <2>3, <2>4 DEF KeptOf
  <2>6. k[1] # "table" => x = c
    BY <2>1, <2>2
  <2> QED BY <2>1, <2>3, <2>5, <2>6 DEF c, x
<1>5. CASE k \in Differ(d, e.def)
  <2>1. \/ /\ k \in e.touched
           /\ k \in Objects(d) /\ k \in Objects(e.def) =>
                KeptOf(d.objs[k], e.posted) = KeptOf(e.def.objs[k], e.posted)
        \/ k[1] \in {"form", "list"} /\ Table(k[2]) \in e.touched
    BY <1>5 DEF Proper, Local
  <2>2. k \in e.touched /\ k[1] = "table" => "column" \in e.posted
    BY DEF Proper, Local
  <2> QED BY <1>3, <1>4, <2>1, <2>2 DEF after
<1>6. CASE k \notin Differ(d, e.def)
  <2>1. k \in Objects(d) /\ k \in Objects(e.def) /\ k \in Objects(after) /\ d.objs[k] = e.def.objs[k]
    BY <1>1, <1>3, <1>6 DEF Differ, after
  <2>2. k[1] = "table"
    BY <1>4, <2>1 DEF Differ, after
  <2> QED BY <1>4, <2>1, <2>2 DEF after
<1> QED BY <1>5, <1>6

\* An edit changes nothing in the draft it read but what the user named, and of
\* that only what the form posts; saving a table's properties empties its forms
\* and lists, and a table gets a default display field.
THEOREM EditsStayLocal == Spec => EditIsLocal
<1>1. ASSUME EditorInv, [Next]_vars, NEW r \in Requests, req[r].pc = "edit", req'[r] # req[r], draft' # draft
      PROVE  LET before == req[r].drafts[req[r].app]
                 after == draft'[req[r].app]
                 named == req'[r].touched
                 differs == {k \in Objects(before) \cup Objects(after) :
                               ~(k \in Objects(before) /\ k \in Objects(after)) \/ before.objs[k] # after.objs[k]}
             IN  /\ \A k \in differs :
                      \/ /\ k \in named
                         /\ k \in Objects(before) /\ k \in Objects(after) =>
                              KeptOf(before.objs[k], req'[r].posted) = KeptOf(after.objs[k], req'[r].posted)
                      \/ k[1] \in {"form", "list"} /\ Table(k[2]) \in named
                      \/ k[1] = "table" /\ k \in Objects(before) /\ k \in Objects(after)
                                       /\ before.objs[k].refs \subseteq after.objs[k].refs
                 /\ Len(after.seeds) = Len(before.seeds) =>
                      \A i \in ChangedSeeds(before, after) :
                        \E j \in i .. Len(before.seeds) : <<"seed", before.seeds[i].table, j>> \in named
  <2>1. PICK q \in Requests : Save(q) \/ Delete(q)
    <3>1. \A q \in Requests : (Read(q) => draft' = draft) /\ (Refuse(q) => draft' = draft) /\ (Publish(q) => draft' = draft)
      BY DEF Read, Refuse, Publish
    <3> QED BY <1>1, <3>1 DEF Next, vars
  <2>2. \A p \in Requests \ {q} : req'[p] = req[p]
    BY <1>1, <2>1, EditIs
  <2>3. q = r
    BY <1>1, <2>2
  <2> DEFINE a == req[r].app
             before == req[r].drafts[a]
  <2>4. a \in Apps /\ Good(a, before)
    BY <1>1, <2>1, <2>3, EditIs
  <2>5. PICK e : /\ Proper(before, e) /\ Write(r, e)
                 /\ req'[r].touched = e.touched /\ req'[r].posted = e.posted
    BY <1>1, <2>1, <2>3, EditIs
  <2> DEFINE after == Normal(a, e.def)
  <2>6. draft' = [draft EXCEPT ![a] = after] /\ DOMAIN draft = Apps
    BY <1>1, <2>5 DEF Write, EditorInv
  <2>7. draft'[a] = after
    BY <2>4, <2>6
  <2>8. after.seeds = e.def.seeds
    BY <2>5, NormalIs DEF Proper
  <2>9. SeedsLocal(before, e)
    BY <2>5 DEF Proper
  <2>10. \A k \in Differ(before, after) :
            \/ /\ k \in e.touched
               /\ k \in Objects(before) /\ k \in Objects(after) =>
                    KeptOf(before.objs[k], e.posted) = KeptOf(after.objs[k], e.posted)
            \/ k[1] \in {"form", "list"} /\ Table(k[2]) \in e.touched
            \/ k[1] = "table" /\ k \in Objects(before) /\ k \in Objects(after)
                             /\ before.objs[k].refs \subseteq after.objs[k].refs
    BY <2>4, <2>5, NormalLocal
  <2> HIDE DEF before, after
  <2>11. Len(after.seeds) = Len(before.seeds) =>
            \A i \in ChangedSeeds(before, after) :
               \E j \in i .. Len(before.seeds) : <<"seed", before.seeds[i].table, j>> \in e.touched
    BY <2>8, <2>9 DEF SeedsLocal, ChangedSeeds
  <2> QED BY <2>5, <2>7, <2>10, <2>11 DEF Differ, before
<1>2. EditorInv /\ [Next]_vars =>
        [\A r \in Requests : (req[r].pc = "edit" /\ req'[r] # req[r] /\ draft' # draft) =>
            LET before == req[r].drafts[req[r].app]
                after == draft'[req[r].app]
                named == req'[r].touched
                differs == {k \in Objects(before) \cup Objects(after) :
                              ~(k \in Objects(before) /\ k \in Objects(after)) \/ before.objs[k] # after.objs[k]}
            IN  /\ \A k \in differs :
                     \/ /\ k \in named
                        /\ k \in Objects(before) /\ k \in Objects(after) =>
                             KeptOf(before.objs[k], req'[r].posted) = KeptOf(after.objs[k], req'[r].posted)
                     \/ k[1] \in {"form", "list"} /\ Table(k[2]) \in named
                     \/ k[1] = "table" /\ k \in Objects(before) /\ k \in Objects(after)
                                      /\ before.objs[k].refs \subseteq after.objs[k].refs
                /\ Len(after.seeds) = Len(before.seeds) =>
                     \A i \in ChangedSeeds(before, after) :
                       \E j \in i .. Len(before.seeds) : <<"seed", before.seeds[i].table, j>> \in named]_vars
    BY <1>1
<1> QED BY <1>2, EditorInvariant, PTL DEF Spec, EditIsLocal

-----------------------------------------------------------------------------
(* Chains of tables                                                        *)

\* The height is the number of tables.
LEMMA HeightNat == Height \in Nat /\ (AllTables # {} => Cardinality(AllTables) <= Height /\ 1 <= Height)
<1>1. IsFiniteSet(Apps) /\ IsFiniteSet(AllTables) /\ Cardinality(Apps) \in Nat /\ Cardinality(AllTables) \in Nat
    BY SpellingAssumption, FS_CardinalityType
<1>2. AllTables # {} => Apps # {}
    BY DEF AllTables
<1>3. AllTables # {} => Cardinality(Apps) # 0 /\ Cardinality(AllTables) # 0
    BY <1>1, <1>2, FS_EmptySet
<1> DEFINE m == Cardinality(Apps)
           n == Cardinality(AllTables)
<1>4. m \in Nat /\ n \in Nat /\ Height = m * n /\ (AllTables # {} => m # 0 /\ n # 0)
    BY <1>1, <1>3 DEF Height
<1> HIDE DEF m, n
<1>5. m * n \in Nat
    BY <1>4
<1>6. ASSUME m # 0 PROVE n <= m * n
  <2>1. (m - 1) \in Nat
    BY <1>4, <1>6
  <2>2. (m - 1) * n \in Nat
    BY <1>4, <2>1
  <2>3. m * n = (m - 1) * n + n
    BY <1>4
  <2> QED BY <1>4, <2>2, <2>3
<1> QED BY <1>4, <1>5, <1>6 DEF n

Up(S, u) == IF u = None THEN None ELSE Parent(S, u)

\* The chain of the tables above a table exists.
LEMMA ChainEquation ==
    ASSUME NEW S, NEW t
    PROVE  Chain(S, t) = [n \in 0 .. Height |-> IF n = 0 THEN t ELSE Up(S, Chain(S, t)[n - 1])]
<1> DEFINE Step(f, n) == IF n = 0 THEN t ELSE Up(S, f[n - 1])
           Upto(m, f) == f = [n \in 0 .. m |-> Step(f, n)]
           T == {m \in Nat : \E f : Upto(m, f)}
<1>1. 0 \in T
  <2> DEFINE f == [n \in 0 .. 0 |-> t]
  <2>1. f = [n \in 0 .. 0 |-> Step(f, n)]
    OBVIOUS
  <2> QED BY <2>1
<1>2. ASSUME NEW m \in T, m \in Nat PROVE m + 1 \in T
  <2>1. PICK f : Upto(m, f)
    OBVIOUS
  <2> DEFINE g == [n \in 0 .. (m + 1) |-> IF n = m + 1 THEN Up(S, f[m]) ELSE f[n]]
  <2>2. \A n \in 0 .. m : f[n] = Step(f, n)
    BY <2>1
  <2>3. ASSUME NEW n \in 0 .. (m + 1) PROVE g[n] = Step(g, n)
    <3>1. CASE n = m + 1
      <4>1. n # 0 /\ n - 1 = m /\ m \in 0 .. (m + 1) /\ m # m + 1
        BY <1>2, <3>1
      <4>2. g[m] = f[m] /\ g[n] = Up(S, f[m])
        BY <3>1, <4>1
      <4> HIDE DEF g
      <4> QED BY <4>1, <4>2
    <3>2. CASE n # m + 1 /\ n # 0
      <4>1. n \in 0 .. m /\ n - 1 \in 0 .. (m + 1) /\ n - 1 # m + 1
        BY <1>2, <3>2
      <4>2. g[n] = f[n] /\ g[n - 1] = f[n - 1]
        BY <3>2, <4>1
      <4>3. f[n] = Up(S, f[n - 1])
        BY <2>2, <3>2, <4>1
      <4> HIDE DEF g
      <4> QED BY <3>2, <4>2, <4>3
    <3>3. CASE n = 0
      <4>1. g[0] = f[0] /\ f[0] = t
        BY <1>2, <2>2
      <4> HIDE DEF g
      <4> QED BY <3>3, <4>1
    <3> QED BY <3>1, <3>2, <3>3
  <2>4. g = [n \in 0 .. (m + 1) |-> Step(g, n)]
    <3> DEFINE h == [n \in 0 .. (m + 1) |-> Step(g, n)]
    <3>1. \A n \in 0 .. (m + 1) : g[n] = h[n]
      <4> HIDE DEF g, Step
      <4> QED BY <2>3
    <3>2. DOMAIN g = 0 .. (m + 1) /\ DOMAIN h = 0 .. (m + 1)
      OBVIOUS
    <3> QED BY <3>1, <3>2
  <2> HIDE DEF g
  <2>5. Upto(m + 1, g)
    BY <2>4
  <2> HIDE DEF Upto
  <2> QED BY <1>2, <2>5
<1>3. Height \in T
  <2>1. Nat \subseteq T
    <3> HIDE DEF T
    <3> QED BY <1>1, <1>2, NumberInduction
  <2> HIDE DEF T
  <2> QED BY <2>1, HeightNat
<1>4. \E f : Upto(Height, f)
    BY <1>3
<1>5. Chain(S, t) = CHOOSE f : Upto(Height, f)
    BY DEF Chain, Up
<1>6. Upto(Height, Chain(S, t))
  <2> HIDE DEF Upto
  <2> QED BY <1>4, <1>5
<1> QED BY <1>6

\* Its tables, one step after another.
LEMMA ChainIs ==
    ASSUME NEW S, NEW t
    PROVE  /\ Chain(S, t)[0] = t
           /\ \A n \in Nat : n + 1 <= Height => Chain(S, t)[n + 1] = Up(S, Chain(S, t)[n])
<1> DEFINE c == Chain(S, t)
<1>1. c = [n \in 0 .. Height |-> IF n = 0 THEN t ELSE Up(S, c[n - 1])]
    BY ChainEquation
<1> HIDE DEF c
<1>2. \A n \in 0 .. Height : c[n] = IF n = 0 THEN t ELSE Up(S, c[n - 1])
    BY <1>1
<1>3. c[0] = t
    BY <1>2, HeightNat
<1>4. ASSUME NEW n \in Nat, n + 1 <= Height PROVE c[n + 1] = Up(S, c[n])
  <2>1. n + 1 \in 0 .. Height /\ n + 1 # 0 /\ (n + 1) - 1 = n
    BY <1>4, HeightNat
  <2> QED BY <1>2, <2>1
<1> QED BY <1>3, <1>4 DEF c

\* What holds of a table and of the one above each table it holds of, holds
\* along the chain.
LEMMA ChainStays ==
    ASSUME NEW S, NEW t, NEW C, t \in C, \A u \in C : Up(S, u) \in C
    PROVE  \A n \in 0 .. Height : Chain(S, t)[n] \in C
<1> DEFINE T == {n \in Nat : n <= Height => Chain(S, t)[n] \in C}
<1>1. 0 \in T
    BY ChainIs
<1>2. ASSUME NEW n \in T, n \in Nat PROVE n + 1 \in T
  <2>1. n + 1 <= Height => n <= Height
    BY <1>2, HeightNat
  <2> QED BY <1>2, <2>1, ChainIs
<1>3. Nat \subseteq T
  <2> HIDE DEF T
  <2> QED BY <1>1, <1>2, NumberInduction
<1> QED BY <1>3, HeightNat

-----------------------------------------------------------------------------
(* Whose a table is                                                        *)

\* The apps that declare a table in these drafts are recorded.
Noted(drafts) == \A b \in Apps : \A t \in AllTables : Table(t) \in Objects(drafts[b]) => b \in owners[t]
OwnersInv ==
    /\ owners \in [AllTables -> SUBSET Apps]
    /\ Noted(draft)
    /\ \A a \in Apps : Noted(seen[a])
    /\ \A r \in Requests : req[r].pc \in {"edit", "publish"} => Noted(req[r].drafts)

\* What is recorded stays so.
LEMMA StaysNoted ==
    ASSUME NEW drafts, Noted(drafts), \A t \in AllTables : owners[t] \subseteq owners'[t]
    PROVE  \A b \in Apps : \A t \in AllTables : Table(t) \in Objects(drafts[b]) => b \in owners'[t]
BY DEF Noted

\* OwnersInv is inductive under EditorInv.
LEMMA OwnersStep == ASSUME EditorInv, OwnersInv, [Next]_vars PROVE OwnersInv' /\ \A t \in AllTables : owners[t] \subseteq owners'[t]
<1>1. ASSUME NEW r \in Requests, Save(r) \/ Delete(r)
      PROVE  OwnersInv' /\ \A t \in AllTables : owners[t] \subseteq owners'[t]
  <2> DEFINE a == req[r].app
  <2>1. a \in Apps /\ req[r].pc = "edit"
    BY <1>1, EditIs
  <2>2. PICK e : /\ Write(r, e)
                 /\ DOMAIN req' = Requests /\ \A q \in Requests \ {r} : req'[q] = req[q]
                 /\ req'[r].drafts = req[r].drafts
    BY <1>1, EditIs
  <2> DEFINE d == Normal(a, e.def)
  <2>3. /\ draft' = [draft EXCEPT ![a] = d] /\ seen' = [seen EXCEPT ![a] = req[r].drafts]
        /\ owners' = [t \in AllTables |-> owners[t] \cup IF Table(t) \in Objects(d) THEN {a} ELSE {}]
    BY <2>2 DEF Write
  <2> HIDE DEF d, a
  <2>4. /\ owners' \in [AllTables -> SUBSET Apps]
        /\ \A t \in AllTables : owners[t] \subseteq owners'[t] /\ (Table(t) \in Objects(d) => a \in owners'[t])
    BY <2>1, <2>3 DEF OwnersInv
  <2>5. \A b \in Apps : draft'[b] = (IF b = a THEN d ELSE draft[b]) /\ seen'[b] = IF b = a THEN req[r].drafts ELSE seen[b]
    BY <2>1, <2>3 DEF EditorInv
  <2>6. Noted(draft)'
    BY <2>4, <2>5 DEF Noted, OwnersInv
  <2>7. Noted(req[r].drafts)
    BY <2>1 DEF OwnersInv
  <2>8. ASSUME NEW b \in Apps PROVE Noted(seen[b])'
    <3>1. CASE b = a
      BY <2>4, <2>5, <2>7, <3>1 DEF Noted
    <3>2. CASE b # a
      BY <2>4, <2>5, <3>2 DEF Noted, OwnersInv
    <3> QED BY <3>1, <3>2
  <2>9. ASSUME NEW q \in Requests, req'[q].pc \in {"edit", "publish"} PROVE Noted(req[q].drafts)'
    <3>1. CASE q = r
      BY <2>2, <2>4, <2>7, <3>1 DEF Noted
    <3>2. CASE q # r
      BY <2>2, <2>4, <2>9, <3>2 DEF Noted, OwnersInv
    <3> QED BY <3>1, <3>2
  <2> QED BY <2>4, <2>6, <2>8, <2>9 DEF OwnersInv
<1>2. ASSUME NEW r \in Requests, Read(r)
      PROVE  OwnersInv' /\ \A t \in AllTables : owners[t] \subseteq owners'[t]
  <2>1. PICK a \in Apps, publish \in BOOLEAN, pc \in {"edit", "publish"} :
          req' = [req EXCEPT ![r] = [pc |-> pc, app |-> a, drafts |-> draft, lives |-> live,
                                     publish |-> publish, active |-> Nowhere, touched |-> {}, posted |-> {}]]
    BY <1>2 DEF Read
  <2>2. UNCHANGED <<draft, seen, owners>>
    BY <1>2 DEF Read
  <2>3. \A q \in Requests : req'[q] = IF q = r THEN [pc |-> pc, app |-> a, drafts |-> draft, lives |-> live,
                                     publish |-> publish, active |-> Nowhere, touched |-> {}, posted |-> {}] ELSE req[q]
    BY <2>1 DEF EditorInv
  <2>4. req'[r].drafts = draft /\ \A q \in Requests \ {r} : req'[q] = req[q]
    BY <2>3
  <2>5. ASSUME NEW q \in Requests, req'[q].pc \in {"edit", "publish"} PROVE Noted(req[q].drafts)'
    <3>1. CASE q = r
      BY <2>2, <2>4, <3>1 DEF Noted, OwnersInv
    <3>2. CASE q # r
      BY <2>2, <2>4, <2>5, <3>2 DEF Noted, OwnersInv
    <3> QED BY <3>1, <3>2
  <2> QED BY <2>2, <2>5 DEF OwnersInv, Noted
<1>3. ASSUME NEW r \in Requests, Refuse(r) \/ Publish(r)
      PROVE  OwnersInv' /\ \A t \in AllTables : owners[t] \subseteq owners'[t]
  <2>1. UNCHANGED <<draft, seen, owners>> /\ req' = [req EXCEPT ![r] = [Idle EXCEPT !.pc = "done"]]
    BY <1>3 DEF Refuse, Publish
  <2>2. req'[r].pc = "done" /\ \A q \in Requests \ {r} : req'[q] = req[q]
    BY <2>1 DEF EditorInv, Idle
  <2> QED BY <2>1, <2>2 DEF OwnersInv, Noted
<1>4. CASE UNCHANGED vars
    BY <1>4 DEF vars, OwnersInv, Noted
<1> QED BY <1>1, <1>2, <1>3, <1>4 DEF Next

\* Whoever declared a table is recorded.
LEMMA OwnersInvariant == Spec => []OwnersInv
<1>1. Init => OwnersInv
  <2> SUFFICES ASSUME Init PROVE OwnersInv
    OBVIOUS
  <2>1. owners = [t \in AllTables |-> {a \in Apps : Table(t) \in Objects(Start[a])}] /\ draft = Start
        /\ seen = [a \in Apps |-> Start] /\ req = [r \in Requests |-> Idle]
    BY DEF Init
  <2>2. \A t \in AllTables : owners[t] = {a \in Apps : Table(t) \in Objects(Start[a])}
    BY <2>1
  <2>3. owners \in [AllTables -> SUBSET Apps]
    BY <2>1
  <2>4. \A r \in Requests : req[r].pc = "idle"
    BY <2>1 DEF Idle
  <2> QED BY <2>1, <2>2, <2>3, <2>4 DEF OwnersInv, Noted
<1>2. EditorInv /\ OwnersInv /\ [Next]_vars => OwnersInv'
    BY OwnersStep
<1> QED BY <1>1, <1>2, EditorInvariant, PTL DEF Spec

\* The app of each table, in drafts where no table has two.
Homes == [AllTables -> Apps]
At(home, drafts) == \A b \in Apps : \A t \in AllTables : Table(t) \in Objects(drafts[b]) => home[t] = b

\* Where no two apps have declared one table, each table has its app.
LEMMA HomeIs ==
    ASSUME NEW own \in [AllTables -> SUBSET Apps], \A t \in AllTables : \A b, c \in own[t] : b = c
    PROVE  \E home \in Homes : \A t \in AllTables : \A b \in own[t] : home[t] = b
<1> DEFINE first(t) == IF own[t] = {} THEN CHOOSE a \in Apps : TRUE ELSE CHOOSE a \in Apps : a \in own[t]
           home == [t \in AllTables |-> first(t)]
<1>1. AllTables # {} => Apps # {}
    BY DEF AllTables
<1>2. ASSUME NEW t \in AllTables PROVE first(t) \in Apps /\ \A b \in own[t] : first(t) = b
  <2>1. \A b, c \in own[t] : b = c
    OBVIOUS
  <2>2. own[t] \subseteq Apps
    OBVIOUS
  <2>3. (CHOOSE a \in Apps : TRUE) \in Apps
    BY <1>1
  <2> QED BY <2>1, <2>2, <2>3
<1> HIDE DEF first
<1>3. home \in Homes /\ \A t \in AllTables : \A b \in own[t] : home[t] = b
    BY <1>2 DEF Homes
<1> QED BY <1>3

\* A table and its columns are in the definition of its own app.
LEMMA TablesAtHome ==
    ASSUME NEW b \in Apps, NEW d, Good(b, d), NEW k \in Objects(d)
    PROVE  /\ k[1] = "table" => k[3] \in TablesOf[b] /\ k = Table(k[3])
           /\ k[1] = "column" => k[2] \in TablesOf[b]
           /\ k[1] \in {"form", "list"} => k[2] \in TablesOf[b] /\ Table(k[2]) \in Objects(d)
<1>1. FormedKey(d, k)
    BY DEF Good, Formed
<1>2. k[1] = "table" => k[3] \in TablesOf[b] /\ k = Table(k[3])
    BY <1>1 DEF Good, FormedKey, Table, TopKinds
<1>3. k[1] \in TableKinds => Table(k[2]) \in Objects(d)
    BY <1>1 DEF FormedKey
<1>4. Table(k[2])[1] = "table" /\ Table(k[2])[3] = k[2]
    BY DEF Table
<1>5. k[1] \in TableKinds => k[2] \in TablesOf[b]
    BY <1>3, <1>4 DEF Good
<1> QED BY <1>2, <1>3, <1>5 DEF TableKinds

\* What a table extends depends on the table alone.
LEMMA ParentSame ==
    ASSUME NEW S, NEW R, NEW u, Table(u) \in DOMAIN S <=> Table(u) \in DOMAIN R,
           Table(u) \in DOMAIN S => S[Table(u)] = R[Table(u)]
    PROVE  Parent(S, u) = Parent(R, u)
<1> DEFINE up(X) == IF Table(u) \in DOMAIN X THEN {r \in X[Table(u)].refs : r[1] = "table"} ELSE {}
           of(U) == IF U = {} THEN None ELSE (CHOOSE r \in U : TRUE)[3]
<1>1. up(S) = up(R)
    OBVIOUS
<1>2. Parent(S, u) = of(up(S)) /\ Parent(R, u) = of(up(R))
    BY DEF Parent
<1> HIDE DEF up, of
<1> QED BY <1>1, <1>2

\* The drafts of all apps together say of a table what its own app says.
LEMMA MergedIs ==
    ASSUME NEW drafts, NEW home \in Homes, At(home, drafts), NEW u \in AllTables
    PROVE  /\ Table(u) \in DOMAIN Merged(drafts) <=> Table(u) \in Objects(drafts[home[u]])
           /\ Parent(Merged(drafts), u) = Parent(drafts[home[u]].objs, u)
<1> DEFINE k == Table(u)
           b == home[u]
           of(j) == CHOOSE c \in Apps : j \in Objects(drafts[c])
           K == UNION {Objects(drafts[c]) : c \in Apps}
<1>1. b \in Apps /\ \A c \in Apps : k \in Objects(drafts[c]) => c = b
    BY DEF At, Homes
<1> HIDE DEF k, b
<1>3. Merged(drafts) = [j \in K |-> drafts[of(j)].objs[j]]
    BY DEF Merged
<1>4. k \in K <=> k \in Objects(drafts[b])
    BY <1>1
<1>5. k \in K => of(k) = b
    BY <1>1
<1> HIDE DEF of, K
<1>6. DOMAIN Merged(drafts) = K /\ (k \in K => Merged(drafts)[k] = drafts[b].objs[k])
    BY <1>3, <1>5
<1>7. Objects(drafts[b]) = DOMAIN drafts[b].objs
    BY DEF Objects
<1>8. Parent(Merged(drafts), u) = Parent(drafts[b].objs, u)
    BY <1>4, <1>6, <1>7, ParentSame DEF k
<1> QED BY <1>4, <1>6, <1>8 DEF k, b

\* The definition of app b, when app a is validated with definition d.
SeenOf(a, d, drafts, b) == IF b = a THEN d ELSE drafts[b]

\* Whose table a lookup finds.
LEMMA FoundIs ==
    ASSUME NEW a \in Apps, NEW d, a \notin Dependencies(d), NEW drafts, NEW u
    PROVE  LET b == FoundIn(a, d, drafts, u) IN
           /\ Table(u) \in Objects(d) => b = a
           /\ Table(u) \notin Objects(d) /\ (\E c \in Dependencies(d) : Table(u) \in Objects(drafts[c])) => b \in Dependencies(d)
           /\ b # None => b \in {a} \cup Dependencies(d) /\ Table(u) \in Objects(SeenOf(a, d, drafts, b))
           /\ b = None => Table(u) \notin Objects(d) /\ \A c \in Dependencies(d) : Table(u) \notin Objects(drafts[c])
<1> DEFINE theirs == {c \in Dependencies(d) : Table(u) \in Objects(drafts[c])}
           b == FoundIn(a, d, drafts, u)
<1>1. b = IF Table(u) \in Objects(d) THEN a ELSE IF theirs = {} THEN None ELSE CHOOSE c \in theirs : TRUE
    BY DEF FoundIn
<1>2. theirs # {} => (CHOOSE c \in theirs : TRUE) \in theirs
    OBVIOUS
<1>3. a # None /\ \A c \in theirs : c # None /\ c # a
    BY SpellingAssumption DEF Dependencies
<1> HIDE DEF b
<1>4. CASE Table(u) \in Objects(d)
    BY <1>1, <1>3, <1>4 DEF b, SeenOf
<1>5. CASE Table(u) \notin Objects(d) /\ theirs = {}
  <2>1. b = None /\ \A c \in Dependencies(d) : Table(u) \notin Objects(drafts[c])
    BY <1>1, <1>5
  <2> QED BY <1>5, <2>1 DEF b
<1>6. CASE Table(u) \notin Objects(d) /\ theirs # {}
  <2>1. b \in theirs /\ b # None /\ b # a
    BY <1>1, <1>2, <1>3, <1>6
  <2>2. b \in Dependencies(d) /\ Table(u) \in Objects(drafts[b])
    BY <2>1
  <2> QED BY <1>6, <2>1, <2>2 DEF b, SeenOf
<1> QED BY <1>4, <1>5, <1>6

\* A validation sees the app's own objects as they are, and the tables and
\* columns it finds in its dependencies as their drafts have them.
LEMMA ScopeIs ==
    ASSUME NEW a \in Apps, NEW d, Good(a, d), NEW drafts, AllGood(drafts)
    PROVE  LET S == Scope(a, d, drafts) IN
           /\ \A k \in Objects(d) : k \in DOMAIN S /\ S[k] = d.objs[k]
           /\ \A u : FoundIn(a, d, drafts, u) # None => Table(u) \in DOMAIN S
           /\ \A u : Table(u) \in DOMAIN S =>
                LET b == FoundIn(a, d, drafts, u) IN
                /\ u \in AllTables /\ b \in {a} \cup Dependencies(d) /\ b \in Apps
                /\ Table(u) \in Objects(SeenOf(a, d, drafts, b))
                /\ S[Table(u)] = SeenOf(a, d, drafts, b).objs[Table(u)]
           /\ \A u, c : Column(u, c) \in DOMAIN S =>
                LET b == FoundIn(a, d, drafts, u) IN
                u \in AllTables /\ b \in Apps /\ b \in {a} \cup Dependencies(d) /\ Column(u, c) \in Objects(SeenOf(a, d, drafts, b))
<1> DEFINE S == Scope(a, d, drafts)
           B == Borrowed(a, d, drafts)
           at(u) == FoundIn(a, d, drafts, u)
<1>1. S = [k \in Objects(d) \cup B |-> IF k \in Objects(d) THEN d.objs[k] ELSE drafts[at(TableOf(k))].objs[k]]
    BY DEF Scope
<1>2. Dependencies(d) \subseteq Apps /\ a \notin Dependencies(d)
    BY DEF Good, Dependencies
<1>3. \A k : k \in B <=> /\ \E b \in Dependencies(d) : k \in Objects(drafts[b])
                          /\ k[1] \in {"table", "column"} /\ at(TableOf(k)) \in Dependencies(d)
                          /\ k \in Objects(drafts[at(TableOf(k))])
    BY DEF Borrowed
<1> HIDE DEF S, B, at
<1>4. DOMAIN S = Objects(d) \cup B /\ \A k \in Objects(d) : k \in DOMAIN S /\ S[k] = d.objs[k]
    BY <1>1
<1>5. \A u : Table(u)[1] = "table" /\ Table(u)[3] = u /\ TableOf(Table(u)) = u
    BY DEF Table, TableOf
<1>6. \A u, c : Column(u, c)[1] = "column" /\ Column(u, c)[2] = u /\ TableOf(Column(u, c)) = u
    BY DEF Column, TableOf
<1>7. ASSUME NEW u PROVE /\ Table(u) \in Objects(d) => at(u) = a
                         /\ at(u) # None => at(u) \in {a} \cup Dependencies(d) /\ Table(u) \in Objects(SeenOf(a, d, drafts, at(u)))
    BY <1>2, FoundIs DEF at
<1>8. ASSUME NEW u, at(u) # None PROVE Table(u) \in DOMAIN S
  <2>1. CASE at(u) = a
    BY <1>4, <1>7, <1>8, <2>1 DEF SeenOf
  <2>2. CASE at(u) # a
    <3>1. at(u) \in Dependencies(d) /\ Table(u) \in Objects(drafts[at(u)])
      BY <1>7, <1>8, <2>2 DEF SeenOf
    <3>2. Table(u) \in B
      BY <1>3, <1>5, <3>1
    <3> QED BY <1>4, <3>2
  <2> QED BY <2>1, <2>2
<1>9. ASSUME NEW u, Table(u) \in DOMAIN S
      PROVE  /\ u \in AllTables /\ at(u) \in {a} \cup Dependencies(d) /\ at(u) \in Apps
             /\ Table(u) \in Objects(SeenOf(a, d, drafts, at(u)))
             /\ S[Table(u)] = SeenOf(a, d, drafts, at(u)).objs[Table(u)]
  <2>2. CASE Table(u) \in Objects(d)
    <3>1. u \in TablesOf[a]
      BY <1>5, <2>2, TablesAtHome
    <3> QED BY <1>4, <1>7, <2>2, <3>1 DEF SeenOf, AllTables
  <2>3. CASE Table(u) \notin Objects(d)
    <3>1. at(u) \in Dependencies(d) /\ Table(u) \in Objects(drafts[at(u)]) /\ Table(u) \in B
      BY <1>3, <1>4, <1>5, <1>9, <2>3
    <3>2. S[Table(u)] = drafts[at(u)].objs[Table(u)] /\ at(u) \in Apps /\ at(u) # a
      BY <1>1, <1>2, <1>5, <2>3, <3>1
    <3>3. u \in TablesOf[at(u)]
      BY <1>5, <3>1, <3>2, TablesAtHome DEF AllGood
    <3> QED BY <3>1, <3>2, <3>3 DEF SeenOf, AllTables
  <2> QED BY <2>2, <2>3
<1>10. ASSUME NEW u, NEW c, Column(u, c) \in DOMAIN S
       PROVE  /\ u \in AllTables /\ at(u) \in Apps /\ at(u) \in {a} \cup Dependencies(d)
              /\ Column(u, c) \in Objects(SeenOf(a, d, drafts, at(u)))
  <2>2. CASE Column(u, c) \in Objects(d)
    <3>1. FormedKey(d, Column(u, c))
      BY <2>2 DEF Good, Formed
    <3>2. Table(u) \in Objects(d)
      BY <1>6, <3>1 DEF FormedKey, TableKinds
    <3>3. u \in TablesOf[a]
      BY <1>6, <2>2, TablesAtHome
    <3> QED BY <1>7, <2>2, <3>2, <3>3 DEF SeenOf, AllTables
  <2>3. CASE Column(u, c) \notin Objects(d)
    <3>1. at(u) \in Dependencies(d) /\ Column(u, c) \in Objects(drafts[at(u)])
      BY <1>3, <1>4, <1>6, <1>10, <2>3
    <3>2. at(u) \in Apps /\ at(u) # a
      BY <1>2, <3>1
    <3>3. u \in TablesOf[at(u)]
      BY <1>6, <3>1, <3>2, TablesAtHome DEF AllGood
    <3> QED BY <3>1, <3>2, <3>3 DEF SeenOf, AllTables
  <2> QED BY <2>2, <2>3
<1> QED BY <1>4, <1>8, <1>9, <1>10 DEF S, at

\* Where each table has its app, a lookup finds the table there.
LEMMA FoundHome ==
    ASSUME NEW a \in Apps, NEW d, Good(a, d), NEW drafts, AllGood(drafts), NEW home \in Homes, At(home, drafts),
           \A t \in AllTables : Table(t) \in Objects(d) => home[t] = a, NEW u \in AllTables,
           FoundIn(a, d, drafts, u) # None
    PROVE  FoundIn(a, d, drafts, u) = home[u]
<1> DEFINE b == FoundIn(a, d, drafts, u)
<1>1. a \notin Dependencies(d) /\ Dependencies(d) \subseteq Apps
    BY DEF Good, Dependencies
<1>2. b \in {a} \cup Dependencies(d) /\ Table(u) \in Objects(SeenOf(a, d, drafts, b))
    BY <1>1, FoundIs
<1> HIDE DEF b
<1>3. CASE b = a
    BY <1>2, <1>3 DEF SeenOf, b
<1>4. CASE b # a
    BY <1>1, <1>2, <1>4 DEF SeenOf, At, b
<1> QED BY <1>3, <1>4

\* What a table's draft says it extends was found when the draft was validated.
LEMMA ParentKnown ==
    ASSUME EditorInv, NEW b \in Apps, NEW u, Parent(draft[b].objs, u) # None
    PROVE  LET p == Parent(draft[b].objs, u) IN
           Table(u) \in Objects(draft[b]) /\ p \in AllTables /\ FoundIn(b, draft[b], seen[b], p) # None
<1> DEFINE d == draft[b]
           S == Scope(b, d, seen[b])
           p == Parent(d.objs, u)
<1>1. Good(b, d) /\ AllGood(seen[b])
    BY DEF EditorInv, AllGood
<1>2. PICK lives : Valid(b, d, seen[b], lives)
    BY DEF EditorInv
<1>3. Table(u) \in Objects(d)
  <2>1. Table(u) \notin DOMAIN d.objs => p = None
    BY DEF Parent
  <2> QED BY <2>1 DEF Objects
<1>4. Table(u)[1] = "table" /\ Table(u)[3] = u
    BY DEF Table
<1>5. InheritsWell(S, d, u)
    BY <1>2, <1>3, <1>4 DEF Valid
<1>6. Table(u) \in DOMAIN S /\ S[Table(u)] = d.objs[Table(u)] /\ Table(u) \in DOMAIN d.objs
    BY <1>1, <1>3, ScopeIs DEF Objects
<1>7. Parent(S, u) = p
    BY <1>6, ParentSame
<1>8. Table(p) \in DOMAIN S
    BY <1>5, <1>7 DEF InheritsWell
<1>9. p \in AllTables /\ FoundIn(b, d, seen[b], p) \in Apps
    BY <1>1, <1>8, ScopeIs
<1> QED BY <1>3, <1>9, SpellingAssumption

\* So the tables above a table are tables.
LEMMA UpKnown ==
    ASSUME EditorInv, NEW home \in Homes, At(home, draft), NEW u \in AllTables \cup {None}
    PROVE  Up(Merged(draft), u) \in AllTables \cup {None}
<1>1. CASE u = None
    BY <1>1 DEF Up
<1>2. CASE u # None
  <2>1. home[u] \in Apps
    BY <1>2 DEF Homes
  <2>2. Parent(Merged(draft), u) = Parent(draft[home[u]].objs, u)
    BY <1>2, MergedIs
  <2> QED BY <1>2, <2>1, <2>2, ParentKnown DEF Up
<1> QED BY <1>1, <1>2

-----------------------------------------------------------------------------
(* What the explorer resolves                                              *)

Above(u) == LET p == Parent(draft[u[1]].objs, u[2]) IN <<FoundIn(u[1], draft[u[1]], draft, p), p>>
UpDraft(u) == IF u[1] = None THEN u ELSE Above(u)

\* The explorer's chain is the function that goes up step by step.
Climbs(a, t, g) == g = [n \in 0 .. Height |-> IF n = 0 THEN <<a, t>> ELSE UpDraft(g[n - 1])]
LEMMA ResolvedIs ==
    ASSUME NEW a, NEW t, NEW g, Climbs(a, t, g)
    PROVE  ResolvedChain(a, t) = g
<1> DEFINE Eq(f) == f = [n \in 0 .. Height |-> IF n = 0 THEN <<a, t>> ELSE UpDraft(f[n - 1])]
           f == ResolvedChain(a, t)
<1>1. Eq(g)
    BY DEF Climbs
<1>2. f = CHOOSE h : Eq(h)
    BY DEF ResolvedChain, UpDraft, Above
<1>3. Eq(f)
  <2> HIDE DEF Eq, f
  <2> QED BY <1>1, <1>2
<1> DEFINE T == {n \in Nat : n <= Height => f[n] = g[n]}
<1> HIDE DEF f
<1>4. /\ DOMAIN f = 0 .. Height /\ DOMAIN g = 0 .. Height
      /\ \A n \in 0 .. Height : f[n] = IF n = 0 THEN <<a, t>> ELSE UpDraft(f[n - 1])
      /\ \A n \in 0 .. Height : g[n] = IF n = 0 THEN <<a, t>> ELSE UpDraft(g[n - 1])
    BY <1>1, <1>3
<1>5. 0 \in T
    BY <1>4, HeightNat
<1>6. ASSUME NEW n \in T, n \in Nat PROVE n + 1 \in T
  <2>1. n + 1 <= Height => /\ n + 1 \in 0 .. Height /\ n + 1 # 0 /\ (n + 1) - 1 = n /\ n <= Height
    BY <1>6, HeightNat
  <2>2. n + 1 <= Height => f[n + 1] = UpDraft(f[n]) /\ g[n + 1] = UpDraft(g[n]) /\ f[n] = g[n]
    BY <1>4, <1>6, <2>1
  <2>3. n + 1 <= Height => f[n + 1] = g[n + 1]
    BY <2>2
  <2> QED BY <1>6, <2>3
<1>7. Nat \subseteq T
  <2> HIDE DEF T
  <2> QED BY <1>5, <1>6, NumberInduction
<1>8. \A n \in 0 .. Height : f[n] = g[n]
    BY <1>7, HeightNat
<1> DEFINE F(n) == IF n = 0 THEN <<a, t>> ELSE UpDraft(f[n - 1])
           G(n) == IF n = 0 THEN <<a, t>> ELSE UpDraft(g[n - 1])
<1>9. f = [n \in 0 .. Height |-> F(n)] /\ g = [n \in 0 .. Height |-> G(n)]
    BY <1>1, <1>3
<1>10. \A n \in 0 .. Height : F(n) = G(n)
    BY <1>4, <1>8
<1> HIDE DEF F, G, Eq
<1>11. f = g
    BY <1>9, <1>10
<1> QED BY <1>11 DEF f

\* A column the explorer resolves is the table's own or comes from the tables
\* above it.
LEMMA InheritedFromAbove ==
    ASSUME EditorInv, NEW a \in Apps, NEW t, NEW id \in ResolvedColumns(a, t), id \notin Objects(draft[a])
    PROVE  Parent(draft[a].objs, t) # None
<1> SUFFICES ASSUME Parent(draft[a].objs, t) = None PROVE FALSE
    OBVIOUS
<1> DEFINE g == [n \in 0 .. Height |-> IF n = 0 THEN <<a, t>> ELSE <<None, None>>]
<1>1. Good(a, draft[a]) /\ AllGood(draft) /\ a # None
    BY SpellingAssumption DEF EditorInv, AllGood
<1>2. FoundIn(a, draft[a], draft, None) = None
  <2>1. Table(None) \notin Objects(draft[a]) /\ \A b \in Apps : Table(None) \notin Objects(draft[b])
    <3> SUFFICES ASSUME NEW b \in Apps, Table(None) \in Objects(draft[b]) PROVE FALSE
      OBVIOUS
    <3>1. Table(None)[1] = "table" /\ Table(None)[3] = None
      BY DEF Table
    <3>2. None \in TablesOf[b]
      BY <1>1, <3>1, TablesAtHome DEF AllGood
    <3> QED BY <3>2, SpellingAssumption DEF AllTables
  <2>2. Dependencies(draft[a]) \subseteq Apps /\ a \notin Dependencies(draft[a])
    BY <1>1 DEF Good, Dependencies
  <2>3. FoundIn(a, draft[a], draft, None) # None => FoundIn(a, draft[a], draft, None) \in {a} \cup Dependencies(draft[a])
        /\ Table(None) \in Objects(SeenOf(a, draft[a], draft, FoundIn(a, draft[a], draft, None)))
    BY <2>2, FoundIs
  <2> QED BY <2>1, <2>2, <2>3 DEF SeenOf
<1>3. UpDraft(<<a, t>>) = <<None, None>> /\ UpDraft(<<None, None>>) = <<None, None>>
    BY <1>1, <1>2 DEF UpDraft, Above
<1>4. ASSUME NEW n \in 0 .. Height PROVE g[n] = IF n = 0 THEN <<a, t>> ELSE UpDraft(g[n - 1])
  <2>1. CASE n = 0
    BY <2>1
  <2>2. CASE n # 0
    <3>1. n - 1 \in 0 .. Height
      BY <2>2, HeightNat
    <3>2. g[n - 1] \in {<<a, t>>, <<None, None>>} /\ g[n] = <<None, None>>
      BY <2>2, <3>1
    <3> HIDE DEF g
    <3> QED BY <1>3, <2>2, <3>2
  <2> QED BY <2>1, <2>2
<1>5. g = [n \in 0 .. Height |-> IF n = 0 THEN <<a, t>> ELSE UpDraft(g[n - 1])]
  <2> DEFINE h == [n \in 0 .. Height |-> IF n = 0 THEN <<a, t>> ELSE UpDraft(g[n - 1])]
  <2>1. DOMAIN g = 0 .. Height /\ DOMAIN h = 0 .. Height
    OBVIOUS
  <2>2. \A n \in 0 .. Height : g[n] = h[n]
    <3> HIDE DEF g
    <3> QED BY <1>4
  <2> QED BY <2>1, <2>2
<1>6. \A n \in 0 .. Height : g[n] \in {<<a, t>>, <<None, None>>}
    OBVIOUS
<1> HIDE DEF g
<1>7. ResolvedChain(a, t) = g
  <2>1. Climbs(a, t, g)
    BY <1>5 DEF Climbs
  <2> QED BY <2>1, ResolvedIs
<1>8. PICK c \in Names, u \in {<<a, t>>} : id = Column(t, c) /\ Column(u[2], c) \in Objects(draft[u[1]])
    BY <1>6, <1>7 DEF ResolvedColumns
<1> QED BY <1>8

Found(a, id) == Required(draft[a], id) /\ (draft[a] = live[a] => Marked(a, id))

\* The first three elements of a sequence.
LEMMA FirstThree ==
    ASSUME NEW x, NEW y, NEW z, NEW s, s[1] = x, s[2] = y, s[3] = z
    PROVE  SubSeq(s, 1, 3) = <<x, y, z>>
<1> DEFINE S == {x, y, z}
           k == <<x, y, z>>
<1>1. \A i \in 1 .. 3 : i = 1 \/ i = 2 \/ i = 3
    OBVIOUS
<1>2. \A i \in 1 .. 3 : s[i] \in S
    BY <1>1
<1>3. k \in Seq(S) /\ Len(k) = 3 /\ k[1] = x /\ k[2] = y /\ k[3] = z
    OBVIOUS
<1> HIDE DEF S, k
<1>4. /\ SubSeq(s, 1, 3) \in Seq(S)
      /\ Len(SubSeq(s, 1, 3)) = IF 1 <= 3 THEN 3 - 1 + 1 ELSE 0
      /\ \A i \in 1 .. (3 - 1 + 1) : SubSeq(s, 1, 3)[i] = s[1 + i - 1]
    BY <1>2, SubSeqProperties
<1>5. Len(SubSeq(s, 1, 3)) = 3 /\ \A i \in 1 .. 3 : SubSeq(s, 1, 3)[i] = s[i]
    BY <1>4
<1>6. \A i \in 1 .. 3 : s[i] = k[i]
    BY <1>1, <1>3
<1>7. SubSeq(s, 1, 3) = k
    BY <1>3, <1>4, <1>5, <1>6, SeqEqual
<1> QED BY <1>7 DEF k

\* An object's id is found, and so is the id of one of its parts.
LEMMA ObjectsFound ==
    ASSUME NEW a, Formed(draft[a]), NEW k \in Objects(draft[a]), k[1] \notin {"application", "yaml", "seed"}
    PROVE  Found(a, k) /\ \A part : Found(a, Append(k, part)) /\ Append(k, part)[1] = k[1]
<1>1. k = <<k[1], k[2], k[3]>>
    BY DEF Formed, FormedKey
<1>2. Whole(k) = k
    BY <1>1, FirstThree DEF Whole
<1>3. ASSUME NEW part PROVE Whole(Append(k, part)) = k /\ Append(k, part)[1] = k[1]
  <2> DEFINE s == Append(k, part)
             x == k[1]
             y == k[2]
             z == k[3]
             S == {x, y, z, part}
  <2>1. k = <<x, y, z>>
    BY <1>1
  <2> HIDE DEF x, y, z
  <2>2. k \in Seq(S) /\ Len(k) = 3 /\ k[1] = x /\ k[2] = y /\ k[3] = z /\ part \in S
    BY <2>1
  <2> HIDE DEF S
  <2>3. \A i \in 1 .. Len(k) : Append(k, part)[i] = k[i]
    <3> SUFFICES ASSUME NEW T, NEW q \in Seq(T), NEW p \in T PROVE \A i \in 1 .. Len(q) : Append(q, p)[i] = q[i]
      BY <2>2
    <3> QED BY AppendProperties
  <2>6. 1 \in 1 .. Len(k) /\ 2 \in 1 .. Len(k) /\ 3 \in 1 .. Len(k)
    BY <2>2
  <2>7. Append(k, part)[1] = k[1] /\ Append(k, part)[2] = k[2] /\ Append(k, part)[3] = k[3]
    BY <2>3, <2>6, Zenon
  <2>4. s[1] = x /\ s[2] = y /\ s[3] = z
    BY <2>2, <2>7, Zenon
  <2> HIDE DEF s
  <2>5. SubSeq(s, 1, 3) = k
    BY <2>1, <2>4, FirstThree
  <2> QED BY <2>4, <2>5 DEF s, x, Whole
<1>4. ASSUME NEW id, Whole(id) = k, id[1] = k[1] PROVE Found(a, id)
    BY <1>4 DEF Found, Required, Marked
<1> QED BY <1>2, <1>3, <1>4

\* An object listed, or a part of one, is found by its id.
LEMMA PartFound ==
    ASSUME NEW a, Formed(draft[a]), NEW kinds, kinds \cap {"application", "yaml", "seed", "column"} = {}
    PROVE  \A id \in WithParts(Under(draft[a], kinds)) : Found(a, id) /\ id[1] # "column"
<1> SUFFICES ASSUME NEW id \in WithParts(Under(draft[a], kinds)) PROVE Found(a, id) /\ id[1] # "column"
    OBVIOUS
<1>1. PICK k \in Under(draft[a], kinds) : id = k \/ \E part \in Parts(k[1]) : id = Append(k, part)
    BY DEF WithParts
<1>2. k \in Objects(draft[a]) /\ k[1] \in kinds
    BY DEF Under
<1> QED BY <1>1, <1>2, ObjectsFound

\* An object listed under a kind is found by its id.
LEMMA UnderFound ==
    ASSUME NEW a, Formed(draft[a]), NEW kinds, kinds \cap {"application", "yaml", "seed", "column"} = {}
    PROVE  \A id \in Under(draft[a], kinds) : Found(a, id) /\ id[1] # "column"
BY ObjectsFound DEF Under

\* A seed row listed is found by its id.
LEMMA SeedFound ==
    ASSUME NEW a, Formed(draft[a]), NEW i \in 1 .. Len(draft[a].seeds)
    PROVE  Found(a, <<"seed", draft[a].seeds[i].table, i>>)
<1> DEFINE id == <<"seed", draft[a].seeds[i].table, i>>
<1>1. id[1] = "seed" /\ id[2] = draft[a].seeds[i].table /\ id[3] = i
    OBVIOUS
<1>2. Len(draft[a].seeds) \in Nat /\ i <= Len(draft[a].seeds)
    BY DEF Formed
<1> HIDE DEF id
<1>3. Required(draft[a], id)
    BY <1>1 DEF Required
<1>4. draft[a] = live[a] => Marked(a, id)
    BY <1>1, <1>2 DEF Marked
<1> QED BY <1>3, <1>4 DEF Found, id

\* Every id the explorer lists leads a save to an object, and a draft with
\* nothing unpublished is marked published throughout, but for inherited columns.
THEOREM ListedIdsLead == Spec => []ListedFound
<1>1. ASSUME EditorInv, NEW a \in Apps, NEW id \in Listed(a)
      PROVE  \/ id[1] = "column" /\ id \notin Objects(draft[a]) /\ Parent(draft[a].objs, id[2]) # None
             \/ ~(id[1] = "column" /\ id \notin Objects(draft[a])) /\ Found(a, id)
  <2> DEFINE d == draft[a]
  <2>1. Good(a, d) /\ Formed(d)
    BY <1>1 DEF EditorInv, AllGood, Good
  <2>2. CASE id \in ListedDefinition(a, d)
    <3>1. CASE id[1] \in {"application", "yaml"}
      BY <3>1 DEF Found, Required, Marked
    <3>2. CASE id \in Under(d, {"dependency"})
      BY <2>1, <3>2, UnderFound
    <3>3. <<"application", None, a>>[1] = "application" /\ <<"yaml", None, a>>[1] = "yaml"
      OBVIOUS
    <3> QED BY <2>2, <3>1, <3>2, <3>3 DEF ListedDefinition
  <2>3. CASE id \in ListedTables(a, d)
    <3>1. CASE id \in Under(d, {"table", "rule"})
      BY <2>1, <3>1, UnderFound
    <3>2. CASE id \notin Under(d, {"table", "rule"})
      <4>1. PICK k \in Under(d, {"table"}) : id \in ResolvedColumns(a, k[3])
        BY <2>3, <3>2 DEF ListedTables
      <4>2. k[3] \in TablesOf[a]
        BY <2>1, TablesAtHome DEF Under
      <4>3. PICK c \in Names : id = Column(k[3], c)
        BY <4>1 DEF ResolvedColumns
      <4>4. id[1] = "column" /\ id[2] = k[3]
        BY <4>3 DEF Column
      <4>5. id \notin Objects(d) => Parent(d.objs, id[2]) # None
        BY <1>1, <4>1, <4>2, <4>4, InheritedFromAbove
      <4>6. id \in Objects(d) => Found(a, id)
        BY <2>1, <4>4, ObjectsFound
      <4> QED BY <4>4, <4>5, <4>6
    <3> QED BY <3>1, <3>2
  <2>4. CASE id \in ListedTableParts(d)
    BY <2>1, <2>4, UnderFound DEF ListedTableParts
  <2>5. CASE id \in ListedForms(d) \cup ListedPages(d) \cup ListedDocumentation(d) \cup ListedScripts(d)
    BY <2>1, <2>5, PartFound DEF ListedForms, ListedPages, ListedDocumentation, ListedScripts
  <2>6. CASE id \in ListedServices(d)
    BY <2>1, <2>6, UnderFound DEF ListedServices
  <2>7. CASE id \in ListedJobs(d)
    <3>1. CASE id \in Under(d, {"trigger", "schedule"})
      BY <2>1, <3>1, UnderFound
    <3>2. CASE id \notin Under(d, {"trigger", "schedule"})
      <4>1. PICK i \in 1 .. Len(d.seeds) : id = <<"seed", d.seeds[i].table, i>>
        BY <2>7, <3>2 DEF ListedJobs
      <4>2. id[1] = "seed"
        BY <4>1
      <4> QED BY <2>1, <4>1, <4>2, SeedFound
    <3> QED BY <3>1, <3>2
  <2> QED BY <2>2, <2>3, <2>4, <2>5, <2>6, <2>7 DEF Listed
<1>2. EditorInv => ListedFound
    BY <1>1 DEF ListedFound, Found
<1> QED BY <1>2, EditorInvariant, PTL

\* A validation sees the same in drafts that agree on the dependencies.
LEMMA ScopeSame ==
    ASSUME NEW a, NEW d, NEW drafts, NEW others, \A b \in Dependencies(d) : drafts[b] = others[b]
    PROVE  Scope(a, d, drafts) = Scope(a, d, others)
<1> DEFINE theirs(m, u) == {b \in Dependencies(d) : Table(u) \in Objects(m[b])}
           at(m, u) == FoundIn(a, d, m, u)
           key(m, k) == k[1] \in {"table", "column"} /\ at(m, TableOf(k)) \in Dependencies(d) /\ k \in Objects(m[at(m, TableOf(k))])
           S(m) == [k \in Objects(d) \cup Borrowed(a, d, m) |-> IF k \in Objects(d) THEN d.objs[k] ELSE m[at(m, TableOf(k))].objs[k]]
<1>1. ASSUME NEW u PROVE at(drafts, u) = at(others, u)
  <2> DEFINE F(B) == IF Table(u) \in Objects(d) THEN a ELSE IF B = {} THEN None ELSE CHOOSE b \in B : TRUE
  <2>1. theirs(drafts, u) = theirs(others, u)
    OBVIOUS
  <2>2. at(drafts, u) = F(theirs(drafts, u)) /\ at(others, u) = F(theirs(others, u))
    BY DEF FoundIn
  <2> HIDE DEF F, theirs, at
  <2> QED BY <2>1, <2>2
<1> HIDE DEF at
<1>2. \A k : key(drafts, k) <=> key(others, k)
    BY <1>1
<1>3. UNION {Objects(drafts[b]) : b \in Dependencies(d)} = UNION {Objects(others[b]) : b \in Dependencies(d)}
    OBVIOUS
<1>4. /\ Borrowed(a, d, drafts) = {k \in UNION {Objects(drafts[b]) : b \in Dependencies(d)} : key(drafts, k)}
      /\ Borrowed(a, d, others) = {k \in UNION {Objects(others[b]) : b \in Dependencies(d)} : key(others, k)}
    BY DEF Borrowed, at
<1>5. \A k \in Borrowed(a, d, others) : at(others, TableOf(k)) \in Dependencies(d)
    BY <1>4
<1> HIDE DEF key
<1>6. Borrowed(a, d, drafts) = Borrowed(a, d, others)
    BY <1>2, <1>3, <1>4
<1>7. Scope(a, d, drafts) = S(drafts) /\ Scope(a, d, others) = S(others)
    BY DEF Scope, at
<1>8. \A k \in Borrowed(a, d, others) : drafts[at(drafts, TableOf(k))] = others[at(others, TableOf(k))]
    BY <1>1, <1>5
<1>9. S(drafts) = S(others)
    BY <1>6, <1>8
<1> QED BY <1>7, <1>9

\* Where every table on a chain finds the one it extends, all of the chain is seen.
LEMMA LineageSeen ==
    ASSUME NEW S, NEW t, Table(t) \in DOMAIN S,
           \A u \in Lineage(S, t) : Parent(S, u) = None \/ Table(Parent(S, u)) \in DOMAIN S
    PROVE  \A n \in 0 .. Height : Chain(S, t)[n] = None \/ Table(Chain(S, t)[n]) \in DOMAIN S
<1> DEFINE c == Chain(S, t)
           T == {n \in Nat : n <= Height => c[n] = None \/ Table(c[n]) \in DOMAIN S}
<1>0. \A n \in 0 .. Height : c[n] # None => c[n] \in Lineage(S, t)
    BY DEF Lineage
<1>1. c[0] = t /\ \A n \in Nat : n + 1 <= Height => c[n + 1] = Up(S, c[n])
    BY ChainIs
<1> HIDE DEF c
<1>2. 0 \in T
    BY <1>1
<1>3. ASSUME NEW n \in T, n \in Nat PROVE n + 1 \in T
  <2>1. n + 1 <= Height => n \in 0 .. Height /\ n <= Height
    BY <1>3, HeightNat
  <2> QED BY <1>0, <1>1, <1>3, <2>1 DEF Up
<1>4. Nat \subseteq T
  <2> HIDE DEF T
  <2> QED BY <1>2, <1>3, NumberInduction
<1> QED BY <1>4, HeightNat DEF c

\* Where inheritance is well, the chain of the tables above ends and all of it is found.
LEMMA InheritanceGood ==
    ASSUME NEW S, NEW d, NEW t \in AllTables, Table(t) \in DOMAIN S, InheritsWell(S, d, t)
    PROVE  /\ ~Cyclic(S, t)
           /\ \A u \in Lineage(S, t) : Parent(S, u) = None \/ Table(Parent(S, u)) \in DOMAIN S
<1>1. CASE Parent(S, t) # None
    BY <1>1 DEF InheritsWell
<1>2. CASE Parent(S, t) = None
  <2> DEFINE c == Chain(S, t)
             T == {n \in Nat : n + 1 <= Height => c[n + 1] = None}
  <2>1. c[0] = t /\ \A n \in Nat : n + 1 <= Height => c[n + 1] = Up(S, c[n])
    BY ChainIs
  <2>2. \A v \in {t, None} : Up(S, v) = None
    BY <1>2 DEF Up
  <2>3. \A n \in 0 .. Height : c[n] \in {t, None}
    BY <2>2, ChainStays
  <2>4. Height \in Nat /\ 1 <= Height
    BY HeightNat
  <2> HIDE DEF c
  <2>5. c[Height] = None
    <3>1. Height - 1 \in Nat /\ (Height - 1) + 1 = Height /\ Height - 1 \in 0 .. Height
      BY <2>4
    <3>2. c[Height] = Up(S, c[Height - 1])
      BY <2>1, <2>4, <3>1
    <3> QED BY <2>2, <2>3, <3>1, <3>2
  <2>6. \A u \in Lineage(S, t) : u = t
    BY <2>3 DEF Lineage, c
  <2> QED BY <1>2, <2>5, <2>6 DEF Cyclic, c
<1> QED BY <1>1, <1>2

\* Where the explorer stands when the validation stands at u.
Place(home, u) == IF u = None THEN <<None, None>> ELSE <<home[u], u>>

\* From a table that an app's validation sees, the explorer goes up as the
\* validation does.
LEMMA PlaceUp ==
    ASSUME EditorInv, NEW home \in Homes, At(home, draft), \A b \in Apps : At(home, seen[b]), NEW a \in Apps, NEW u,
           Table(u) \in DOMAIN Scope(a, draft[a], draft),
           \/ Parent(Scope(a, draft[a], draft), u) = None
           \/ Table(Parent(Scope(a, draft[a], draft), u)) \in DOMAIN Scope(a, draft[a], draft)
    PROVE  UpDraft(Place(home, u)) = Place(home, Up(Scope(a, draft[a], draft), u))
<1> DEFINE S == Scope(a, draft[a], draft)
           p == Parent(S, u)
           o == home[u]
<1>1. AllGood(draft) /\ Good(a, draft[a])
    BY DEF EditorInv, AllGood
<1>2. \A b \in Apps : \A t \in AllTables : Table(t) \in Objects(draft[b]) => home[t] = b
    BY DEF At
<1>3. ASSUME NEW v, Table(v) \in DOMAIN S
      PROVE  /\ v \in AllTables /\ home[v] \in Apps /\ Table(v) \in Objects(draft[home[v]])
             /\ S[Table(v)] = draft[home[v]].objs[Table(v)]
  <2> DEFINE b == FoundIn(a, draft[a], draft, v)
  <2>1. /\ v \in AllTables /\ b \in Apps /\ Table(v) \in Objects(SeenOf(a, draft[a], draft, b))
        /\ S[Table(v)] = SeenOf(a, draft[a], draft, b).objs[Table(v)]
    BY <1>1, <1>3, ScopeIs
  <2>2. SeenOf(a, draft[a], draft, b) = draft[b]
    BY DEF SeenOf
  <2> HIDE DEF b
  <2> QED BY <1>2, <2>1, <2>2
<1>4. u \in AllTables /\ u # None /\ o \in Apps /\ o # None /\ Table(u) \in Objects(draft[o])
    BY <1>3, SpellingAssumption
<1>5. Parent(draft[o].objs, u) = p
    BY <1>3, <1>4, ParentSame DEF Objects
<1>6. Up(S, u) = p /\ Place(home, u) = <<o, u>>
    BY <1>4 DEF Up, Place
<1> HIDE DEF S, p, o
<1>7. UpDraft(<<o, u>>) = <<FoundIn(o, draft[o], draft, p), p>>
    BY <1>4, <1>5 DEF UpDraft, Above
<1>8. Good(o, draft[o]) /\ AllGood(seen[o]) /\ o \notin Dependencies(draft[o]) /\ Dependencies(draft[o]) \subseteq Apps
    BY <1>4 DEF EditorInv, AllGood, Good, Dependencies
<1>9. CASE p = None
  <2>1. \A b \in Apps : Table(None) \notin Objects(draft[b])
    <3> SUFFICES ASSUME NEW b \in Apps, Table(None) \in Objects(draft[b]) PROVE FALSE
      OBVIOUS
    <3>1. Table(None)[1] = "table" /\ Table(None)[3] = None
      BY DEF Table
    <3>2. None \in TablesOf[b]
      BY <1>1, <3>1, TablesAtHome DEF AllGood
    <3> QED BY <3>2, SpellingAssumption DEF AllTables
  <2> DEFINE b == FoundIn(o, draft[o], draft, None)
  <2>2. b # None => b \in {o} \cup Dependencies(draft[o]) /\ Table(None) \in Objects(SeenOf(o, draft[o], draft, b))
    BY <1>4, <1>8, FoundIs
  <2>3. SeenOf(o, draft[o], draft, b) = draft[b]
    BY DEF SeenOf
  <2> HIDE DEF b
  <2>4. b = None
    BY <1>4, <1>8, <2>1, <2>2, <2>3
  <2> QED BY <1>6, <1>7, <1>9, <2>4 DEF Place, b, S
<1>10. CASE p # None
  <2>1. p \in AllTables /\ home[p] \in Apps /\ Table(p) \in Objects(draft[home[p]])
    BY <1>3, <1>10 DEF S, p
  <2>2. FoundIn(o, draft[o], seen[o], p) # None
    BY <1>4, <1>5, <1>10, ParentKnown
  <2>3. \A t \in AllTables : Table(t) \in Objects(draft[o]) => home[t] = o
    BY <1>2, <1>4
  <2>4. FoundIn(o, draft[o], seen[o], p) = home[p]
    BY <1>4, <1>8, <2>1, <2>2, <2>3, FoundHome
  <2>5. home[p] \in {o} \cup Dependencies(draft[o])
    BY <1>4, <1>8, <2>2, <2>4, FoundIs
  <2>6. FoundIn(o, draft[o], draft, p) # None
    BY <1>4, <1>8, <2>1, <2>5, FoundIs
  <2>7. FoundIn(o, draft[o], draft, p) = home[p]
    BY <1>1, <1>4, <1>8, <2>1, <2>3, <2>6, FoundHome
  <2> QED BY <1>6, <1>7, <1>10, <2>7 DEF Place, S
<1> QED BY <1>9, <1>10 DEF S, p, o

\* Where the validation accepts what a table extends, the explorer resolves it
\* along the same chain to the end.
LEMMA ChainResolved ==
    ASSUME EditorInv, NEW home \in Homes, At(home, draft), \A b \in Apps : At(home, seen[b]), NEW a \in Apps,
           NEW t \in AllTables, Table(t) \in Objects(draft[a]), InheritsWell(Scope(a, draft[a], draft), draft[a], t)
    PROVE  /\ ResolvedChain(a, t)[Height] = <<None, None>>
           /\ \A n \in 0 .. Height : ResolvedChain(a, t)[n] = Place(home, Chain(Scope(a, draft[a], draft), t)[n])
<1> DEFINE S == Scope(a, draft[a], draft)
           c == Chain(S, t)
           g == [n \in 0 .. Height |-> Place(home, c[n])]
<1>1. AllGood(draft) /\ Good(a, draft[a])
    BY DEF EditorInv, AllGood
<1>2. Table(t) \in DOMAIN S
    BY <1>1, ScopeIs
<1>3. /\ ~Cyclic(S, t)
      /\ \A u \in Lineage(S, t) : Parent(S, u) = None \/ Table(Parent(S, u)) \in DOMAIN S
    BY <1>2, InheritanceGood
<1>4. \A n \in 0 .. Height : c[n] = None \/ (Table(c[n]) \in DOMAIN S /\ c[n] \in Lineage(S, t))
    BY <1>2, <1>3, LineageSeen DEF Lineage
<1>5. c[0] = t /\ \A n \in Nat : n + 1 <= Height => c[n + 1] = Up(S, c[n])
    BY ChainIs
<1>6. Place(home, t) = <<a, t>> /\ t # None
    BY SpellingAssumption DEF Place, At
<1>7. UpDraft(<<None, None>>) = <<None, None>> /\ Place(home, None) = <<None, None>> /\ Up(S, None) = None
    BY DEF UpDraft, Place, Up
<1>8. c[Height] = None
    BY <1>3 DEF Cyclic
<1>9. ASSUME NEW u, u = None \/ (Table(u) \in DOMAIN S /\ u \in Lineage(S, t))
      PROVE  UpDraft(Place(home, u)) = Place(home, Up(S, u))
  <2>1. CASE u = None
    BY <1>7, <2>1
  <2>2. CASE u # None
    BY <1>3, <1>9, <2>2, PlaceUp
  <2> QED BY <2>1, <2>2
<1> HIDE DEF c, S
<1>10. ASSUME NEW n \in 0 .. Height PROVE g[n] = IF n = 0 THEN <<a, t>> ELSE UpDraft(g[n - 1])
  <2>1. CASE n = 0
    BY <1>5, <1>6, <2>1
  <2>2. CASE n # 0
    <3>1. n - 1 \in 0 .. Height /\ n - 1 \in Nat /\ (n - 1) + 1 = n /\ n <= Height
      BY <2>2, HeightNat
    <3>2. g[n] = Place(home, c[n]) /\ g[n - 1] = Place(home, c[n - 1])
      BY <3>1
    <3> HIDE DEF g
    <3>3. c[n] = Up(S, c[n - 1])
      BY <1>5, <3>1
    <3>4. UpDraft(Place(home, c[n - 1])) = Place(home, Up(S, c[n - 1]))
      BY <1>4, <1>9, <3>1
    <3> QED BY <2>2, <3>2, <3>3, <3>4
  <2> QED BY <2>1, <2>2
<1>11. g = [n \in 0 .. Height |-> IF n = 0 THEN <<a, t>> ELSE UpDraft(g[n - 1])]
  <2> DEFINE h == [n \in 0 .. Height |-> IF n = 0 THEN <<a, t>> ELSE UpDraft(g[n - 1])]
  <2>1. DOMAIN g = 0 .. Height /\ DOMAIN h = 0 .. Height
    OBVIOUS
  <2>2. \A n \in 0 .. Height : g[n] = h[n]
    <3> HIDE DEF g
    <3> QED BY <1>10
  <2> QED BY <2>1, <2>2
<1>12. Height \in 0 .. Height
    BY HeightNat
<1>13. \A n \in 0 .. Height : g[n] = Place(home, c[n])
    OBVIOUS
<1> HIDE DEF g
<1>14. ResolvedChain(a, t) = g
  <2>1. Climbs(a, t, g)
    BY <1>11 DEF Climbs
  <2> QED BY <2>1, ResolvedIs
<1> QED BY <1>7, <1>8, <1>12, <1>13, <1>14 DEF c, S

\* The fields a draft's forms and lists name are columns the explorer and the
\* runtime resolve, as long as the other apps are as they were when the draft
\* was validated and no two apps have declared one table.
THEOREM FormFieldsResolve == Spec => []FieldsResolve
<1>1. ASSUME EditorInv, OwnersInv, ~Contested, NEW a \in Apps, \A b \in Apps \ {a} : draft[b] = seen[a][b],
             NEW k \in Objects(draft[a]), k[1] \in {"form", "list"}, NEW r \in RefsOf(draft[a], k, "column")
      PROVE  r \in ResolvedColumns(a, k[2])
  <2> DEFINE d == draft[a]
             t == k[2]
             S == Scope(a, d, draft)
  <2>1. Good(a, d) /\ AllGood(draft) /\ Formed(d)
    BY <1>1 DEF EditorInv, AllGood, Good
  <2>2. PICK lives : Valid(a, d, seen[a], lives)
    BY <1>1 DEF EditorInv
  <2>3. S = Scope(a, d, seen[a])
    BY <1>1, <2>1, ScopeSame DEF Good, Dependencies
  <2>4. t \in TablesOf[a] /\ Table(t) \in Objects(d) /\ t \in AllTables
    BY <1>1, <2>1, TablesAtHome DEF AllTables
  <2>5. r[1] = "column" /\ r \in d.objs[k].refs
    BY DEF RefsOf, Refs
  <2>6. r = Column(t, r[3])
    BY <1>1, <2>1, <2>5 DEF Formed, FormedContent
  <2>7. r[3] \in Fields(S, t)
    <3>1. Checked(d, k)
      BY <1>1 DEF Checked
    <3>2. Resolves(S, d, lives, k, r)
      BY <2>2, <2>3, <2>5, <3>1 DEF Valid, Refs
    <3>3. r[2] = t
      BY <2>6 DEF Column
    <3> QED BY <1>1, <2>5, <3>2, <3>3 DEF Resolves
  <2>8. InheritsWell(S, d, t)
    BY <2>2, <2>3, <2>4 DEF Valid, Table
  <2>9. PICK home \in Homes : \A u \in AllTables : \A b \in owners[u] : home[u] = b
    BY <1>1, HomeIs DEF OwnersInv, Contested
  <2>10. At(home, draft) /\ \A b \in Apps : At(home, seen[b])
    BY <1>1, <2>9 DEF OwnersInv, Noted, At
  <2>11. PICK u \in Lineage(S, t) : Column(u, r[3]) \in DOMAIN S
    BY <2>7 DEF Fields
  <2>12. PICK n \in 0 .. Height : u = Chain(S, t)[n] /\ u # None
    BY <2>11 DEF Lineage
  <2>13. /\ ResolvedChain(a, t)[Height] = <<None, None>>
         /\ ResolvedChain(a, t)[n] = <<home[u], u>>
    BY <1>1, <2>4, <2>8, <2>10, <2>12, ChainResolved DEF Place
  <2>14. r[3] \in Names /\ Column(u, r[3]) \in Objects(draft[home[u]])
    <3> DEFINE b == FoundIn(a, d, draft, u)
    <3>1. u \in AllTables /\ b \in Apps /\ Column(u, r[3]) \in Objects(SeenOf(a, d, draft, b))
      BY <2>1, <2>11, ScopeIs
    <3>2. \A v \in AllTables : Table(v) \in Objects(d) => home[v] = a
      BY <2>10 DEF At
    <3>3. b = home[u]
      BY <2>1, <2>10, <3>1, <3>2, SpellingAssumption, FoundHome
    <3>4. SeenOf(a, d, draft, b) = draft[b]
      BY DEF SeenOf
    <3> QED BY <2>7, <3>1, <3>3, <3>4 DEF Fields
  <2> DEFINE up == ResolvedChain(a, t)
             chain == IF up[Height] = <<None, None>> THEN {up[i] : i \in 0 .. Height} \ {<<None, None>>} ELSE {<<a, t>>}
  <2>15. <<home[u], u>> \in chain
    BY <2>12, <2>13
  <2>16. <<home[u], u>>[1] = home[u] /\ <<home[u], u>>[2] = u
    OBVIOUS
  <2>17. ResolvedColumns(a, t) = {Column(t, c) : c \in {m \in Names : \E v \in chain : Column(v[2], m) \in Objects(draft[v[1]])}}
    BY DEF ResolvedColumns
  <2> HIDE DEF chain
  <2>18. r[3] \in {m \in Names : \E v \in chain : Column(v[2], m) \in Objects(draft[v[1]])}
    BY <2>14, <2>15, <2>16
  <2> QED BY <2>6, <2>17, <2>18
<1>2. EditorInv /\ OwnersInv => FieldsResolve
    BY <1>1 DEF FieldsResolve
<1> QED BY <1>2, EditorInvariant, OwnersInvariant, PTL

\* A loop: tables that each extend one of them.
Loop(M, C) == C \subseteq AllTables /\ C # {} /\ \A u \in C : Parent(M, u) \in C

\* A table of a loop has a chain that does not end.
LEMMA LoopCyclic == ASSUME NEW M, NEW C, Loop(M, C), NEW t \in C PROVE Cyclic(M, t) /\ t \in AllTables
<1>1. \A u \in C : Up(M, u) \in C
    BY SpellingAssumption DEF Loop, Up
<1>2. Chain(M, t)[Height] \in C
    BY <1>1, ChainStays, HeightNat
<1> QED BY <1>2, SpellingAssumption DEF Loop, Cyclic

\* A chain that does not end runs through a loop: there are only so many tables.
LEMMA CyclicLoop ==
    ASSUME NEW M, NEW t \in AllTables, Cyclic(M, t), \A u \in AllTables \cup {None} : Up(M, u) \in AllTables \cup {None}
    PROVE  \E C : Loop(M, C)
<1> DEFINE c == Chain(M, t)
<1>1. /\ c[0] = t /\ \A n \in Nat : n + 1 <= Height => c[n + 1] = Up(M, c[n])
      /\ \A n \in 0 .. Height : c[n] \in AllTables \cup {None}
      /\ c[Height] # None /\ Height \in Nat
  <2>1. c[0] = t /\ \A n \in Nat : n + 1 <= Height => c[n + 1] = Up(M, c[n])
    BY ChainIs
  <2>2. t \in AllTables \cup {None}
    OBVIOUS
  <2>3. \A n \in 0 .. Height : c[n] \in AllTables \cup {None}
    BY <2>2, ChainStays
  <2> QED BY <2>1, <2>3, HeightNat DEF Cyclic
<1> HIDE DEF c
<1>2. \A n \in 0 .. Height : c[n] # None
  <2> DEFINE T == {i \in Nat : i <= Height => c[Height - i] # None}
  <2>1. 0 \in T
    BY <1>1
  <2>2. ASSUME NEW i \in T, i \in Nat PROVE i + 1 \in T
    <3>1. CASE i + 1 <= Height
      <4>1. /\ Height - (i + 1) \in Nat /\ (Height - (i + 1)) + 1 = Height - i
            /\ Height - i <= Height /\ i <= Height
        BY <1>1, <2>2, <3>1
      <4>2. c[Height - i] = Up(M, c[Height - (i + 1)])
        BY <1>1, <4>1
      <4>3. c[Height - i] # None
        BY <2>2, <4>1
      <4>4. c[Height - (i + 1)] # None
        BY <4>2, <4>3 DEF Up
      <4> QED BY <2>2, <4>4
    <3>2. CASE ~(i + 1 <= Height)
      BY <2>2, <3>2
    <3> QED BY <3>1, <3>2
  <2>3. Nat \subseteq T
    <3> HIDE DEF T
    <3> QED BY <2>1, <2>2, NumberInduction
  <2>4. ASSUME NEW n \in 0 .. Height PROVE c[n] # None
    <3>1. Height - n \in Nat /\ Height - n <= Height /\ Height - (Height - n) = n
      BY <1>1
    <3>2. Height - n \in T
      <4> HIDE DEF T
      <4> QED BY <2>3, <3>1
    <3>3. c[Height - (Height - n)] # None
      BY <3>1, <3>2
    <3> QED BY <3>1, <3>3
  <2> QED BY <2>4
<1>3. PICK i, j \in 0 .. Height : i < j /\ c[i] = c[j]
  <2> DEFINE f == [n \in 0 .. Height |-> c[n]]
  <2>1. f \in [0 .. Height -> AllTables]
    BY <1>1, <1>2
  <2>2. IsFiniteSet(0 .. Height) /\ Cardinality(0 .. Height) = Height + 1
    BY <1>1, FS_Interval
  <2>3. IsFiniteSet(AllTables) /\ Cardinality(AllTables) < Cardinality(0 .. Height)
    BY <1>1, <2>2, SpellingAssumption, HeightNat, FS_CardinalityType
  <2> HIDE DEF f
  <2>4. PICK x, y \in 0 .. Height : x # y /\ f[x] = f[y]
    BY <2>1, <2>2, <2>3, FS_PigeonHole
  <2>5. c[x] = c[y]
    BY <2>4 DEF f
  <2>6. x < y \/ y < x
    BY <1>1, <2>4
  <2> QED BY <2>5, <2>6
<1> DEFINE C == {c[n] : n \in i .. j}
<1>4. C \subseteq AllTables /\ C # {}
    BY <1>1, <1>2, <1>3
<1>5. ASSUME NEW n \in i .. j PROVE Parent(M, c[n]) \in C
  <2> DEFINE m == IF n = j THEN i + 1 ELSE n + 1
             l == IF n = j THEN i ELSE n
  <2>1. l \in Nat /\ l + 1 = m /\ l + 1 <= Height /\ m \in i .. j /\ l \in 0 .. Height /\ c[l] = c[n]
    BY <1>1, <1>3
  <2> HIDE DEF m, l
  <2>2. c[m] = Up(M, c[l])
    BY <1>1, <2>1
  <2>3. c[m] = Parent(M, c[n])
    BY <1>2, <2>1, <2>2 DEF Up
  <2> QED BY <2>1, <2>3
<1>6. Loop(M, C)
    BY <1>4, <1>5 DEF Loop
<1> QED BY <1>6

\* No tables extend each other in a loop, in the drafts taken together.
NoLoops == ~overtaken /\ ~Contested => \A C : ~Loop(Merged(draft), C)

\* An app's tables, validated against the other apps' drafts as they are, do
\* not close a loop.
LEMMA ValidNoLoop ==
    ASSUME NEW a \in Apps, NEW d, Good(a, d), NEW drafts, AllGood(drafts), NEW lives, Valid(a, d, drafts, lives),
           NEW after, after[a] = d, \A b \in Apps \ {a} : after[b] = drafts[b],
           NEW home \in Homes, At(home, after), At(home, drafts), NEW C, Loop(Merged(after), C)
    PROVE  \A u \in C : home[u] # a
<1> SUFFICES ASSUME NEW u \in C, home[u] = a PROVE FALSE
    OBVIOUS
<1> DEFINE S == Scope(a, d, drafts)
           M == Merged(after)
           c == Chain(S, u)
<1>1. u \in AllTables /\ Parent(M, u) \in C /\ None \notin C /\ C \subseteq AllTables
    BY SpellingAssumption DEF Loop
<1>2. \A v : Table(v) \in DOMAIN S => Parent(S, v) = Parent(M, v)
  <2> SUFFICES ASSUME NEW v, Table(v) \in DOMAIN S PROVE Parent(S, v) = Parent(M, v)
    OBVIOUS
  <2> DEFINE o == FoundIn(a, d, drafts, v)
  <2>1. /\ v \in AllTables /\ o \in Apps /\ Table(v) \in Objects(SeenOf(a, d, drafts, o))
        /\ S[Table(v)] = SeenOf(a, d, drafts, o).objs[Table(v)]
    BY ScopeIs
  <2>2. \A t \in AllTables : Table(t) \in Objects(d) => home[t] = a
    BY DEF At
  <2>3. o = home[v]
    BY <2>1, <2>2, SpellingAssumption, FoundHome
  <2>4. SeenOf(a, d, drafts, o) = after[o]
    BY <2>1 DEF SeenOf
  <2>5. Parent(S, v) = Parent(after[o].objs, v)
    BY <2>1, <2>4, ParentSame DEF Objects
  <2> QED BY <2>1, <2>3, <2>5, MergedIs
<1>3. Parent(after[a].objs, u) = Parent(M, u)
    BY <1>1, MergedIs
<1>4. Table(u) \in Objects(d)
  <2>1. Table(u) \notin DOMAIN after[a].objs => Parent(after[a].objs, u) = None
    BY DEF Parent
  <2> QED BY <1>1, <1>3, <2>1 DEF Objects
<1>5. Table(u) \in DOMAIN S
    BY <1>4, ScopeIs
<1>6. InheritsWell(S, d, u)
    BY <1>4 DEF Valid, Table
<1>8. /\ ~Cyclic(S, u)
      /\ \A v \in Lineage(S, u) : Parent(S, v) = None \/ Table(Parent(S, v)) \in DOMAIN S
    BY <1>1, <1>5, <1>6, InheritanceGood
<1>9. \A n \in 0 .. Height : c[n] = None \/ Table(c[n]) \in DOMAIN S
    BY <1>5, <1>8, LineageSeen
<1> DEFINE T == {n \in Nat : n <= Height => c[n] \in C}
<1>10. c[0] = u /\ \A n \in Nat : n + 1 <= Height => c[n + 1] = Up(S, c[n])
    BY ChainIs
<1> HIDE DEF c
<1>11. 0 \in T
    BY <1>10
<1>12. ASSUME NEW n \in T, n \in Nat PROVE n + 1 \in T
  <2>1. CASE n + 1 <= Height
    <3>1. n \in 0 .. Height /\ n <= Height
      BY <1>12, <2>1, HeightNat
    <3>2. c[n] \in C /\ c[n] # None
      BY <1>1, <1>12, <3>1
    <3>3. Parent(S, c[n]) = Parent(M, c[n])
      BY <1>2, <1>9, <3>1, <3>2
    <3>4. c[n + 1] \in C
      BY <1>10, <1>12, <2>1, <3>2, <3>3 DEF Up, Loop
    <3> QED BY <1>12, <3>4
  <2>2. CASE ~(n + 1 <= Height)
    BY <1>12, <2>2
  <2> QED BY <2>1, <2>2
<1>13. Nat \subseteq T
  <2> HIDE DEF T
  <2> QED BY <1>11, <1>12, NumberInduction
<1>14. c[Height] \in C
    BY <1>13, HeightNat
<1> QED BY <1>1, <1>8, <1>14 DEF Cyclic, c

\* NoLoops is inductive under EditorInv and OwnersInv.
LEMMA LoopStep == ASSUME EditorInv, EditorInv', OwnersInv, OwnersInv', NoLoops, [Next]_vars PROVE NoLoops'
<1>1. CASE UNCHANGED <<draft, overtaken, owners>>
    BY <1>1 DEF NoLoops, Contested
<1>2. ASSUME NEW r \in Requests, Save(r) \/ Delete(r) PROVE NoLoops'
  <2> DEFINE a == req[r].app
             drafts == req[r].drafts
  <2>1. a \in Apps /\ req[r].pc = "edit"
    BY <1>2, EditIs
  <2>2. PICK e : Proper(drafts[a], e) /\ Write(r, e)
    BY <1>2, EditIs
  <2> DEFINE d == Normal(a, e.def)
  <2>3. /\ Valid(a, d, drafts, req[r].lives) /\ draft' = [draft EXCEPT ![a] = d]
        /\ overtaken' = (overtaken \/ \E b \in Apps \ {a} : drafts[b] # draft[b])
    BY <2>2 DEF Write
  <2>4. Good(a, d)
    BY <2>2, <2>3, NormalGood DEF Proper
  <2>5. AllGood(drafts) /\ DOMAIN draft = Apps /\ Noted(drafts)
    BY <2>1 DEF EditorInv, ReqGood, OwnersInv
  <2> HIDE DEF d, a, drafts
  <2>6. draft'[a] = d /\ \A b \in Apps \ {a} : draft'[b] = draft[b]
    BY <2>1, <2>3, <2>5
  <2>7. ASSUME ~overtaken', ~Contested', NEW C, Loop(Merged(draft'), C) PROVE FALSE
    <3>1. ~overtaken /\ \A b \in Apps \ {a} : drafts[b] = draft[b]
      BY <2>3, <2>7
    <3>2. \A t \in AllTables : owners[t] \subseteq owners'[t]
      BY OwnersStep
    <3>3. ~Contested
      BY <2>7, <3>2 DEF Contested
    <3>4. owners' \in [AllTables -> SUBSET Apps]
      BY DEF OwnersInv
    <3>5. PICK home \in Homes : \A t \in AllTables : \A b \in owners'[t] : home[t] = b
      <4>1. \A t \in AllTables : \A b, c \in owners'[t] : b = c
        BY <2>7 DEF Contested
      <4> QED BY <3>4, <4>1, HomeIs
    <3>6. At(home, draft) /\ At(home, draft') /\ At(home, drafts)
      <4>1. At(home, draft')
        BY <3>5 DEF OwnersInv, Noted, At
      <4>2. At(home, draft) /\ At(home, drafts)
        BY <2>5, <3>2, <3>5 DEF OwnersInv, Noted, At
      <4> QED BY <4>1, <4>2
    <3>7. \A u \in C : home[u] # a
      <4>1. \A b \in Apps \ {a} : draft'[b] = drafts[b]
        BY <2>6, <3>1
      <4>2. Valid(a, d, drafts, req[r].lives) /\ draft'[a] = d /\ Loop(Merged(draft'), C)
        BY <2>3, <2>6, <2>7
      <4> QED BY <2>1, <2>4, <2>5, <3>6, <4>1, <4>2, ValidNoLoop
    <3>8. ASSUME NEW u \in C PROVE Parent(Merged(draft), u) = Parent(Merged(draft'), u)
      <4>1. u \in AllTables
        BY <2>7 DEF Loop
      <4>2. home[u] \in Apps \ {a}
        BY <3>7, <4>1 DEF Homes
      <4>3. draft'[home[u]] = draft[home[u]]
        BY <2>6, <4>2
      <4>4. Parent(Merged(draft), u) = Parent(draft[home[u]].objs, u)
        BY <3>6, <4>1, MergedIs
      <4>5. Parent(Merged(draft'), u) = Parent(draft'[home[u]].objs, u)
        BY <3>6, <4>1, MergedIs
      <4> QED BY <4>3, <4>4, <4>5
    <3>9. Loop(Merged(draft), C)
      BY <2>7, <3>8 DEF Loop
    <3> QED BY <3>1, <3>3, <3>9 DEF NoLoops
  <2> QED BY <2>7 DEF NoLoops
<1>3. CASE Next
  <2>1. \A r \in Requests : Read(r) \/ Refuse(r) \/ Publish(r) => UNCHANGED <<draft, overtaken, owners>>
    BY DEF Read, Refuse, Publish
  <2> QED BY <1>1, <1>2, <1>3, <2>1 DEF Next
<1>4. CASE UNCHANGED vars
    BY <1>1, <1>4 DEF vars
<1> QED BY <1>3, <1>4

\* No table inherits from itself across apps, unless a save overlapped a change
\* of another app or two apps have declared one table.
THEOREM InheritanceEnds == Spec => []NoInheritanceCycle
<1>1. Init => NoLoops
  <2> SUFFICES ASSUME Init, ~Contested, NEW C, Loop(Merged(Start), C) PROVE FALSE
    BY DEF Init, NoLoops
  <2>1. \A t \in AllTables : owners[t] = {a \in Apps : Table(t) \in Objects(Start[a])}
    BY DEF Init
  <2>2. Apart(Start)
    BY <2>1 DEF Apart, Contested
  <2>3. \A t \in AllTables : ~Cyclic(Merged(Start), t)
    BY <2>2, EditorAssumption
  <2>4. PICK t : t \in C
    BY DEF Loop
  <2> QED BY <2>3, <2>4, LoopCyclic
<1>2. EditorInv /\ EditorInv' /\ OwnersInv /\ OwnersInv' /\ NoLoops /\ [Next]_vars => NoLoops'
    BY LoopStep
<1>3. EditorInv /\ OwnersInv /\ NoLoops => NoInheritanceCycle
  <2> SUFFICES ASSUME EditorInv, OwnersInv, NoLoops, ~overtaken, ~Contested, NEW a \in Apps, NEW t \in TablesOf[a],
                      Cyclic(Merged(draft), t)
               PROVE  FALSE
    BY DEF NoInheritanceCycle
  <2>1. t \in AllTables
    BY DEF AllTables
  <2>2. PICK home \in Homes : \A u \in AllTables : \A b \in owners[u] : home[u] = b
    BY HomeIs DEF OwnersInv, Contested
  <2>3. At(home, draft)
    BY <2>2 DEF OwnersInv, Noted, At
  <2>4. \A u \in AllTables \cup {None} : Up(Merged(draft), u) \in AllTables \cup {None}
    BY <2>3, UpKnown
  <2>5. \E C : Loop(Merged(draft), C)
    BY <2>1, <2>4, CyclicLoop
  <2> QED BY <2>5 DEF NoLoops
<1> QED BY <1>1, <1>2, <1>3, EditorInvariant, OwnersInvariant, PTL DEF Spec
=============================================================================
