------------------------- MODULE RecordRulesProofs -------------------------
(***************************************************************************)
(* Proofs about RecordRules for any records, fields, users, roles, rules   *)
(* and page size, and about ObservabilityIngest under the names            *)
(* MCRecordRules gives its variables, for any targets, deliveries and      *)
(* provisioned action definitions.                                         *)
(*                                                                         *)
(* RecordRules: RulesInv carries the answer of the rules from the check to *)
(* the write.  Lists and pages: a finite set of numbers can be listed in   *)
(* order, in one way (SortedLists, by NumberInduction), and each page is a *)
(* part of that one sequence.                                              *)
(*                                                                         *)
(* ObservabilityIngest: RollInv says what a call has read and will save    *)
(* while no other call for it has committed; DecideInv says that one call  *)
(* at a time holds a row, and what it is about to open and close is what   *)
(* the row it saves asks for.                                              *)
(***************************************************************************)
EXTENDS MCRecordRules, WellFoundedInduction, SequenceTheorems, FiniteSetTheorems, TLAPS

-----------------------------------------------------------------------------
(* Sets of ids as sequences                                                *)

\* A set of numbers that holds 0 and the successor of each of its members is Nat.
LEMMA NumberInduction ==
    ASSUME NEW T, 0 \in T, \A n \in T : n \in Nat => n + 1 \in T
    PROVE  Nat \subseteq T
<1>1. IsWellFoundedOn(OpToRel(<, Nat), Nat)
    BY NatLessThanWellFounded DEF OpToRel
<1> DEFINE Left == Nat \ T
<1>2. SUFFICES ASSUME Left # {} PROVE FALSE
    OBVIOUS
<1>3. Left \subseteq Nat
    OBVIOUS
<1> HIDE DEF Left
<1>4. PICK n \in Left : \A m \in Left : ~(<<m, n>> \in OpToRel(<, Nat))
    BY <1>1, <1>2, <1>3, WFMin, Zenon
<1>5. n \in Nat /\ n \notin T /\ \A m \in Nat : m < n => m \in T
    BY <1>3, <1>4 DEF Left, OpToRel
<1>6. n # 0 /\ n - 1 \in Nat /\ n - 1 < n /\ (n - 1) + 1 = n
    BY <1>5
<1>7. n - 1 \in T
    BY <1>5, <1>6
<1>8. (n - 1) + 1 \in T
    BY <1>6, <1>7
<1> QED BY <1>5, <1>6, <1>8

Increasing(s) == \A i, j \in DOMAIN s : i < j => s[i] < s[j]

\* A finite set of numbers has a largest one, and can be listed in order.
LEMMA CanBeSorted ==
    ASSUME NEW ids, ids \subseteq Int, IsFiniteSet(ids)
    PROVE  \E s \in [1..Cardinality(ids) -> ids] : Increasing(s)
<1> DEFINE T == {n \in Nat : \A S \in SUBSET ids : Cardinality(S) = n =>
                    /\ n > 0 => \E m \in S : \A k \in S : k <= m
                    /\ \E s \in [1..n -> S] : Increasing(s)}
<1>0. \A S \in SUBSET ids : S \subseteq Int /\ IsFiniteSet(S) /\ Cardinality(S) \in Nat
    BY FS_Subset, FS_CardinalityType
<1>1. 0 \in T
  <2> SUFFICES ASSUME NEW S \in SUBSET ids PROVE \E s \in [1..0 -> S] : Increasing(s)
    OBVIOUS
  <2> WITNESS [i \in 1..0 |-> 0] \in [1..0 -> S]
  <2> QED BY DEF Increasing
<1>2. ASSUME NEW n \in T, n \in Nat PROVE n + 1 \in T
  <2> SUFFICES ASSUME NEW S \in SUBSET ids, Cardinality(S) = n + 1
               PROVE  /\ \E m \in S : \A k \in S : k <= m
                      /\ \E s \in [1..(n + 1) -> S] : Increasing(s)
    BY <1>2
  <2>1. S # {}
    BY <1>0, <1>2, FS_EmptySet
  <2>2. PICK x \in S : TRUE
    BY <2>1
  <2>3. \A y \in S : /\ S \ {y} \in SUBSET ids /\ Cardinality(S \ {y}) = n
                     /\ n > 0 => \E m \in S \ {y} : \A k \in S \ {y} : k <= m
                     /\ \E s \in [1..n -> S \ {y}] : Increasing(s)
    <3> TAKE y \in S
    <3>1. S \ {y} \in SUBSET ids /\ Cardinality(S \ {y}) = n
      BY <1>0, <1>2, FS_RemoveElement
    <3> QED BY <1>2, <3>1
  <2>4. \E m \in S : \A k \in S : k <= m
    <3>1. CASE n = 0
      <4>1. S \ {x} = {}
        BY <1>0, <2>2, <2>3, <3>1, FS_EmptySet, FS_Subset
      <4> QED BY <1>0, <2>2, <4>1
    <3>2. CASE n > 0
      <4>1. PICK m \in S \ {x} : \A k \in S \ {x} : k <= m
        BY <2>2, <2>3, <3>2
      <4>2. m \in Int /\ x \in Int
        BY <1>0, <2>2
      <4>3. CASE x <= m
        BY <4>1, <4>3
      <4>4. CASE m < x
        <5>1. \A k \in S : k <= x
          BY <1>0, <4>1, <4>2, <4>4
        <5> QED BY <2>2, <5>1
      <4> QED BY <4>2, <4>3, <4>4
    <3> QED BY <1>2, <3>1, <3>2
  <2>5. PICK m \in S : \A k \in S : k <= m
    BY <2>4
  <2>6. PICK s \in [1..n -> S \ {m}] : Increasing(s)
    BY <2>3, <2>5
  <2> DEFINE u == [i \in 1..(n + 1) |-> IF i = n + 1 THEN m ELSE s[i]]
  <2>7. u \in [1..(n + 1) -> S]
    BY <1>2, <2>5, <2>6
  <2>8. \A i \in 1..n : s[i] \in S /\ s[i] # m /\ s[i] \in Int /\ m \in Int
    BY <1>0, <2>5, <2>6
  <2>9. Increasing(u)
    <3> SUFFICES ASSUME NEW i \in 1..(n + 1), NEW j \in 1..(n + 1), i < j PROVE u[i] < u[j]
      BY DEF Increasing
    <3>1. i \in 1..n /\ u[i] = s[i]
      BY <1>2
    <3>2. CASE j = n + 1
      BY <2>5, <2>8, <3>1, <3>2
    <3>3. CASE j # n + 1
      <4>1. j \in 1..n /\ u[j] = s[j]
        BY <1>2, <3>3
      <4> QED BY <2>6, <3>1, <4>1 DEF Increasing
    <3> QED BY <3>2, <3>3
  <2> HIDE DEF u
  <2> QED BY <2>4, <2>7, <2>9
<1>3. Nat \subseteq T
  <2> HIDE DEF T
  <2> QED BY <1>1, <1>2, NumberInduction
<1> QED BY <1>0, <1>3

\* Sorted lists exactly the members of a set (buildScriptOrderClause).
LEMMA SortedLists ==
    ASSUME NEW ids, ids \subseteq Int, IsFiniteSet(ids)
    PROVE  /\ Sorted(ids) \in [1..Cardinality(ids) -> ids]
           /\ Sorted(ids) \in Seq(ids) /\ Len(Sorted(ids)) = Cardinality(ids)
           /\ Cardinality(ids) \in Nat
           /\ ToSet(Sorted(ids)) = ids
<1> DEFINE n == Cardinality(ids)
           s == Sorted(ids)
           R == {s[i] : i \in 1..n}
<1>1. n \in Nat
    BY FS_CardinalityType
<1>2. s \in [1..n -> ids] /\ Increasing(s)
    BY CanBeSorted DEF Sorted, Increasing
<1>3. s \in Seq(ids) /\ Len(s) = n
    BY <1>1, <1>2, LenProperties, IsASeq
<1> HIDE DEF s
<1>4. \A i, j \in 1..n : i # j => s[i] # s[j]
  <2> SUFFICES ASSUME NEW i \in 1..n, NEW j \in 1..n, i # j PROVE s[i] # s[j]
    OBVIOUS
  <2>0. i \in Int /\ j \in Int /\ (i < j \/ j < i)
    BY <1>1
  <2>a. s[i] \in ids /\ s[j] \in ids
    BY <1>2
  <2>1. s[i] \in Int /\ s[j] \in Int /\ (i < j \/ j < i)
    BY <2>0, <2>a
  <2> QED BY <1>1, <1>2, <2>1 DEF Increasing
<1>5. R \subseteq ids /\ IsFiniteSet(R)
  <2>1. R \subseteq ids
    BY <1>2
  <2> QED BY <2>1, FS_Subset
<1>6. Cardinality(R) = n
  <2>1. s \in Bijection(1..n, R)
    <3>1. s \in [1..n -> R]
      BY <1>2
    <3> QED BY <1>4, <3>1 DEF Bijection, Injection, Surjection, IsInjective
  <2>2. ExistsBijection(1..n, R)
    BY <2>1 DEF ExistsBijection
  <2> QED BY <1>1, <1>5, <2>2, FS_Bijection, FS_CardinalityType, FS_SameCardinalityBij, FS_Interval
<1>7. R = ids
    BY <1>5, <1>6, FS_Subset
<1>8. ToSet(s) = R
    BY <1>2 DEF ToSet
<1> QED BY <1>1, <1>2, <1>3, <1>7, <1>8 DEF s

-----------------------------------------------------------------------------
(* Questions to the rules                                                  *)

\* What a save changes is what it submits and the row does not hold.
LEMMA MergedChanges ==
    ASSUME NEW old \in Records, NEW patch, DOMAIN patch \subseteq Fields
    PROVE  /\ DOMAIN Merged(old, patch) = Fields
           /\ ChangedFields(old, Merged(old, patch)) = ChangedFields(old, patch)
           /\ \A f \in Fields : Merged(old, patch)[f] # old[f] => f \in DOMAIN patch
BY DEF Merged, ChangedFields, Records

\* A row with a patch laid over it is a row.
LEMMA MergedTyped ==
    ASSUME NEW old \in Records, NEW patch, DOMAIN patch \subseteq Fields,
           \A f \in DOMAIN patch : patch[f] \in Blankable
    PROVE  Merged(old, patch) \in Records
BY DEF Merged, Records

\* What is left to submit is part of the patch.
LEMMA SubmittedPart ==
    ASSUME NEW old, NEW patch \in Patches
    PROVE  /\ DOMAIN patch \subseteq Fields
           /\ DOMAIN Submitted(old, patch) \subseteq DOMAIN patch
           /\ \A f \in DOMAIN patch : patch[f] \in Blankable
           /\ \A f \in DOMAIN Submitted(old, patch) : Submitted(old, patch)[f] = patch[f]
<1>1. PICK S \in SUBSET Fields : patch \in [S -> Blankable]
    BY DEF Patches
<1> QED BY <1>1 DEF Submitted, ChangedFields

\* An actor whom nothing restricts may do it (scriptAccess.restricts).
LEMMA UnrestrictedAllows ==
    ASSUME NEW e, NEW op, NEW record, ~Restricts(e, op)
    PROVE  AllowsRecord(e, op, record)
BY DEF Restricts, AllowsRecord, Gate, ScopeDecision

-----------------------------------------------------------------------------
(* Lists                                                                   *)

\* A cut keeps part of a sequence, and the whole of one that is short enough.
LEMMA CutPart ==
    ASSUME NEW n \in Nat, NEW S, NEW s \in Seq(S)
    PROVE  /\ AtMost(n, s) \in Seq(S)
           /\ ToSet(AtMost(n, s)) \subseteq ToSet(s)
           /\ Len(s) <= n => AtMost(n, s) = s
           /\ AtMost(n, AtMost(n, s)) = AtMost(n, s)
<1> DEFINE m == IF Len(s) < n THEN Len(s) ELSE n
<1>1. m \in 0 .. Len(s) /\ Len(s) \in Nat
    OBVIOUS
<1>2. /\ SubSeq(s, 1, m) \in Seq(S) /\ Len(SubSeq(s, 1, m)) = m
      /\ \A i \in 1..m : SubSeq(s, 1, m)[i] = s[i]
    BY <1>1, SubSeqProperties
<1>3. AtMost(n, s) = SubSeq(s, 1, m)
    BY DEF AtMost
<1>4. ToSet(AtMost(n, s)) \subseteq ToSet(s)
    BY <1>1, <1>2, <1>3 DEF ToSet
<1>5. SubSeq(s, 1, Len(s)) = s
    BY SubSeqFull
<1>6. Len(s) <= n => AtMost(n, s) = s
  <2>1. Len(s) <= n => m = Len(s)
    BY <1>1
  <2> HIDE DEF m
  <2> QED BY <1>3, <1>5, <2>1
<1>7. AtMost(n, AtMost(n, s)) = AtMost(n, s)
  <2> DEFINE c == SubSeq(s, 1, m)
  <2>1. c \in Seq(S) /\ Len(c) = m
    BY <1>2
  <2>2. SubSeq(c, 1, Len(c)) = c
    BY <2>1, SubSeqFull
  <2> HIDE DEF c
  <2>3. m <= n
    BY <1>1
  <2>4. AtMost(n, c) = SubSeq(c, 1, m)
    BY <1>1, <2>1, <2>3 DEF AtMost
  <2> QED BY <1>3, <2>1, <2>2, <2>4 DEF c
<1> QED BY <1>2, <1>3, <1>4, <1>6, <1>7

\* The rows a query matches are finitely many numbers.
LEMMA MatchingIds ==
    ASSUME NEW query, NEW table, DOMAIN table = Ids
    PROVE  /\ Matching(query, table) \subseteq Ids
           /\ Matching(query, table) \subseteq Int /\ IsFiniteSet(Matching(query, table))
<1>1. Matching(query, table) \subseteq Ids
    BY DEF Matching
<1> QED BY <1>1, RulesAssumption, FS_Subset

\* The limit of a query is a number.
LEMMA LimitNumber ==
    ASSUME NEW query \in Queries PROVE Limit(query) \in Nat
BY RulesAssumption DEF Limit

\* A list holds rows that match and that the actor may touch, and all of them
\* up to its limit when the cap leaves none of the matching ones out.
LEMMA ListedPermitted ==
    ASSUME NEW e, NEW op, NEW query \in Queries, NEW table, DOMAIN table = Ids
    PROVE  LET readable == {id \in Matching(query, table) : AllowsRecord(e, op, table[id].record)}
               listed == ListRecords(e, op, query, table)
           IN /\ ToSet(listed) \subseteq readable
              /\ Cardinality(Matching(query, table)) <= Cap => listed = AtMost(Limit(query), Sorted(readable))
<1> DEFINE M == Matching(query, table)
           n == Fetched(e, op, query)
           fetched == AtMost(n, Sorted(M))
           A(ids) == {id \in ids : AllowsRecord(e, op, table[id].record)}
<1>1. M \subseteq Int /\ IsFiniteSet(M)
    BY MatchingIds
<1>2. Sorted(M) \in Seq(M) /\ Len(Sorted(M)) = Cardinality(M) /\ ToSet(Sorted(M)) = M
    BY <1>1, SortedLists
<1>3. n \in Nat /\ Limit(query) \in Nat
    BY LimitNumber, RulesAssumption DEF Fetched
<1> HIDE DEF n
<1>4. ToSet(fetched) \subseteq M
    BY <1>2, <1>3, CutPart
<1>5. CASE Restricts(e, op)
  <2> DEFINE allowed == Sorted(A(ToSet(fetched)))
  <2>1. ListRecords(e, op, query, table) = AtMost(Limit(query), allowed)
    BY <1>5 DEF ListRecords, n
  <2>2. A(ToSet(fetched)) \subseteq Int /\ IsFiniteSet(A(ToSet(fetched)))
    BY <1>1, <1>4, FS_Subset
  <2>3. allowed \in Seq(A(ToSet(fetched))) /\ ToSet(allowed) = A(ToSet(fetched))
    BY <2>2, SortedLists
  <2>4. ToSet(AtMost(Limit(query), allowed)) \subseteq A(ToSet(fetched))
    BY <1>3, <2>3, CutPart
  <2>5. ASSUME Cardinality(M) <= Cap PROVE allowed = Sorted(A(M))
    <3>1. n = Cap
      BY <1>5 DEF n, Fetched
    <3>2. fetched = Sorted(M)
      BY <1>2, <1>3, <2>5, <3>1, CutPart
    <3> QED BY <1>2, <3>2
  <2> HIDE DEF allowed, fetched
  <2> QED BY <1>4, <2>1, <2>4, <2>5
<1>6. CASE ~Restricts(e, op)
  <2>1. A(M) = M
    BY <1>6, UnrestrictedAllows
  <2>2. n = Limit(query)
    BY <1>6 DEF n, Fetched
  <2>3. ListRecords(e, op, query, table) = AtMost(Limit(query), fetched)
    BY <1>6 DEF ListRecords, n
  <2>4. AtMost(Limit(query), fetched) = fetched
    BY <1>2, <1>3, <2>2, CutPart
  <2> QED BY <1>4, <2>1, <2>2, <2>3, <2>4
<1> QED BY <1>5, <1>6

-----------------------------------------------------------------------------
(* What is written is permitted                                            *)

Rows == [record : Records, deleted : BOOLEAN]
JobFields == {"kind", "id", "patch", "versioned", "actor", "guard", "old", "query", "todo"}

RulesTypes ==
    /\ rows \in [Ids -> Rows]
    /\ own \in [DOMAIN own -> Rows] /\ DOMAIN own \subseteq Ids
    /\ roles \in RoleSets
    /\ changes \in Nat
    /\ job = [x \in JobFields |-> job[x]]
    /\ pc \in {"idle", "posted", "asked", "bulk", "bulkwrite", "mark", "running", "loaded", "each", "targets"}

\* The request's next write is of a row and with values of the table.
JobTypes ==
    /\ pc \in {"posted", "asked", "bulkwrite", "mark", "loaded"} => job.id \in Ids
    /\ pc \in {"posted", "bulk", "bulkwrite", "loaded", "each"} => job.patch \in Patches
    /\ pc \in {"posted", "asked"} => job.old \in Records
    /\ pc = "asked" => DOMAIN job.patch \subseteq Fields /\ \A f \in DOMAIN job.patch : job.patch[f] \in Blankable
    /\ pc \in {"bulk", "bulkwrite", "running", "loaded", "each", "targets"} => job.todo \subseteq Ids
    /\ pc = "each" => job.todo # {}
    /\ pc = "targets" => job.query \in Queries
    /\ pc \in {"loaded", "each", "targets"} => job.actor # NotLoaded

\* Unless somebody has changed a row since, the snapshot is the row, and what
\* the rules have said of the row holds of it.
Asked ==
    /\ pc \in {"posted", "asked"} => job.id \in stale \/ rows[job.id].record = job.old
    /\ pc = "asked" => ProposalAllowed(Evaluator(job.actor, job.guard), "U", job.old, job.patch)
    /\ pc = "bulkwrite" =>
         job.id \in stale \/ ProposalAllowed(Evaluator(job.actor, job.guard), "U", rows[job.id].record, job.patch)
    /\ pc = "mark" =>
         job.id \in stale \/ AllowsRecord(Evaluator(job.actor, job.guard), MarkOp(job.kind = "delete"), rows[job.id].record)
    /\ pc = "loaded" =>
         job.id \in stale \/ AllowsRecord(Evaluator(job.actor, job.guard), "U", Seen[job.id].record)
    /\ pc = "targets" =>
         \A id \in job.todo : id \in stale \/ AllowsRecord(Evaluator(job.actor, job.guard), "D", Seen[id].record)

RulesInv == RulesTypes /\ JobTypes /\ Asked

\* RulesInv holds at the start.
LEMMA RulesInit == ASSUME Init PROVE RulesInv
<1>1. rows \in [Ids -> Rows]
  <2>1. PICK first \in [Ids -> [record : InitialRecords, deleted : {FALSE}]] : rows = first
    BY DEF Init
  <2>2. InitialRecords \subseteq Records
    BY RulesAssumption DEF Records, Blankable
  <2>3. [record : InitialRecords, deleted : {FALSE}] \subseteq Rows
    BY <2>2 DEF Rows
  <2> QED BY <2>1, <2>3
<1>2. DOMAIN own = {} /\ own \in [DOMAIN own -> Rows]
  BY DEF Init
<1>3. job = [x \in JobFields |-> job[x]]
  BY DEF Init, None, JobFields
<1> QED BY <1>1, <1>2, <1>3 DEF Init, RulesInv, RulesTypes, JobTypes, Asked

\* A server without a job has a job record with every field.
LEMMA NoneIs ==
    /\ None = [x \in JobFields |-> None[x]]
    /\ DOMAIN None = JobFields
BY DEF None, JobFields

\* Storing a record changes one row.
LEMMA Stored ==
    ASSUME RulesTypes, NEW id \in Ids, NEW record \in Records, Store(id, record)
    PROVE  /\ rows' \in [Ids -> Rows]
           /\ rows'[id].record = record
           /\ \A i \in Ids : i # id => rows'[i] = rows[i]
<1>1. rows[id] \in Rows
    BY DEF RulesTypes
<1>2. [rows[id] EXCEPT !.record = record] \in Rows /\ [rows[id] EXCEPT !.record = record].record = record
    BY <1>1 DEF Rows
<1>3. rows' = [rows EXCEPT ![id] = [rows[id] EXCEPT !.record = record]]
    BY DEF Store
<1> QED BY <1>2, <1>3 DEF RulesTypes

\* A posted form keeps RulesInv.
LEMMA SavePostKeeps == ASSUME RulesInv, SavePost PROVE RulesInv'
<1>1. PICK id \in Ids, patch \in Patches, versioned \in BOOLEAN :
        Begin("posted", [None EXCEPT !.kind = "save", !.id = id, !.patch = patch,
                                     !.versioned = versioned, !.old = rows[id].record])
    BY DEF SavePost
<1>2. /\ pc' = "posted" /\ stale' = {}
      /\ job'.id = id /\ job'.patch = patch /\ job'.old = rows[id].record
      /\ job' = [x \in JobFields |-> job'[x]]
    BY <1>1, NoneIs DEF Begin, JobFields
<1>3. rows[id] \in Rows /\ rows[id].record \in Records
    BY DEF RulesInv, RulesTypes, Rows
<1>4. RulesTypes'
    BY <1>2 DEF RulesInv, RulesTypes, SavePost
<1>5. JobTypes' /\ Asked'
    BY <1>2, <1>3 DEF JobTypes, Asked, SavePost
<1> QED BY <1>4, <1>5 DEF RulesInv

\* A job that ends keeps RulesInv, whatever it wrote.
LEMMA IdleKeeps ==
    ASSUME RulesTypes, rows' \in [Ids -> Rows], own' \in [DOMAIN own' -> Rows], DOMAIN own' \subseteq Ids,
           roles' = roles, changes' = changes, Finish
    PROVE  RulesInv'
<1>1. pc' = "idle" /\ job' = None
    BY DEF Finish
<1>2. job' = [x \in JobFields |-> job'[x]]
    BY <1>1, NoneIs
<1> QED BY <1>1, <1>2 DEF RulesInv, RulesTypes, JobTypes, Asked

\* The question a save asks keeps RulesInv.
LEMMA SaveAskKeeps == ASSUME RulesInv, SaveAsk PROVE RulesInv'
<1> DEFINE patch == Submitted(job.old, job.patch)
<1>1. /\ pc = "posted" /\ pc' = "asked" /\ UNCHANGED <<rows, roles, security, own, stale, ops, changes>>
      /\ ProposalAllowed(Evaluator(roles, security), "U", job.old, patch)
      /\ job' = [job EXCEPT !.patch = patch, !.actor = roles, !.guard = security]
    BY DEF SaveAsk
<1>2. /\ job.id \in Ids /\ job.patch \in Patches /\ job.old \in Records
      /\ job = [x \in JobFields |-> job[x]]
      /\ job.id \in stale \/ rows[job.id].record = job.old
    BY <1>1 DEF RulesInv, RulesTypes, JobTypes, Asked
<1>3. DOMAIN patch \subseteq Fields /\ \A f \in DOMAIN patch : patch[f] \in Blankable
    BY <1>2, SubmittedPart
<1> HIDE DEF patch
<1>4. /\ job' = [x \in JobFields |-> job'[x]] /\ job'.id = job.id /\ job'.old = job.old
      /\ job'.patch = patch /\ job'.actor = roles /\ job'.guard = security
    BY <1>1, <1>2 DEF JobFields
<1>5. RulesTypes' /\ JobTypes'
    BY <1>1, <1>2, <1>3, <1>4 DEF RulesInv, RulesTypes, JobTypes
<1>6. Evaluator(job.actor, job.guard)' = Evaluator(roles, security)
    BY <1>1, <1>4 DEF Evaluator
<1>7. ProposalAllowed(Evaluator(job.actor, job.guard)', "U", job'.old, job'.patch)
    BY <1>1, <1>4, <1>6
<1>11. UNCHANGED <<rows, stale>>
    BY DEF SaveAsk
<1>8. job'.id \in stale' \/ rows'[job'.id].record = job'.old
    BY <1>2, <1>4, <1>11
<1>9. pc' = "asked"
    BY <1>1
<1>10. Asked'
    BY <1>7, <1>8, <1>9 DEF Asked
<1> QED BY <1>5, <1>10 DEF RulesInv

\* The UPDATE of a save, or its refusal, keeps RulesInv.
LEMMA SaveEndKeeps == ASSUME RulesInv, SaveCommit \/ SaveRefused PROVE RulesInv'
<1>1. CASE SaveCommit
  <2>1. /\ job.id \in Ids /\ RulesTypes
        /\ DOMAIN job.patch \subseteq Fields /\ \A f \in DOMAIN job.patch : job.patch[f] \in Blankable
    BY <1>1 DEF RulesInv, JobTypes, SaveCommit
  <2>2. rows[job.id].record \in Records
    BY <2>1 DEF RulesTypes, Rows
  <2>3. Merged(rows[job.id].record, job.patch) \in Records
    BY <2>1, <2>2, MergedTyped
  <2>4. Store(job.id, Merged(rows[job.id].record, job.patch)) /\ Finish /\ UNCHANGED <<roles, own, changes>>
    BY <1>1 DEF SaveCommit
  <2>5. rows' \in [Ids -> Rows]
    BY <2>1, <2>3, <2>4, Stored
  <2> QED BY <2>1, <2>4, <2>5, IdleKeeps DEF RulesTypes
<1>2. CASE SaveRefused
    BY <1>2, IdleKeeps DEF RulesInv, RulesTypes, SaveRefused
<1> QED BY <1>1, <1>2

\* A bulk edit keeps RulesInv in each of its steps.
LEMMA BulkKeeps == ASSUME RulesInv, BulkStart \/ BulkCheck \/ BulkWrite \/ BulkEnd PROVE RulesInv'
<1>1. CASE BulkStart
  <2>1. PICK ids \in SUBSET Ids, patch \in Patches :
          Begin("bulk", [None EXCEPT !.kind = "bulk", !.patch = patch, !.todo = ids,
                                     !.actor = roles, !.guard = security])
    BY <1>1 DEF BulkStart
  <2>2. pc' = "bulk" /\ job'.patch = patch /\ job'.todo = ids /\ job' = [x \in JobFields |-> job'[x]]
    BY <2>1, NoneIs DEF Begin, JobFields
  <2> QED BY <1>1, <2>2 DEF RulesInv, RulesTypes, JobTypes, Asked, BulkStart
<1>2. CASE BulkCheck
  <2>0. pc = "bulk" /\ UNCHANGED <<rows, roles, security, own, ops, changes>>
    BY <1>2 DEF BulkCheck
  <2>1. PICK id \in job.todo :
          LET rest == [job EXCEPT !.todo = @ \ {id}] IN
          IF ProposalAllowed(Evaluator(job.actor, job.guard), "U", rows[id].record, job.patch)
            THEN pc' = "bulkwrite" /\ job' = [rest EXCEPT !.id = id] /\ stale' = {}
            ELSE job' = rest /\ UNCHANGED <<pc, stale>>
    BY <1>2 DEF BulkCheck
  <2>2. id \in Ids /\ job = [x \in JobFields |-> job[x]] /\ job.patch \in Patches /\ job.todo \subseteq Ids
    BY <2>0, <2>1 DEF RulesInv, RulesTypes, JobTypes
  <2>3. CASE ProposalAllowed(Evaluator(job.actor, job.guard), "U", rows[id].record, job.patch)
    <3>1. /\ pc' = "bulkwrite" /\ job'.id = id /\ job'.patch = job.patch /\ job'.actor = job.actor /\ job'.guard = job.guard
          /\ job'.todo = job.todo \ {id} /\ job' = [x \in JobFields |-> job'[x]]
      BY <2>1, <2>2, <2>3 DEF JobFields
    <3>2. Evaluator(job.actor, job.guard)' = Evaluator(job.actor, job.guard)
      BY <2>0, <3>1 DEF Evaluator
    <3> QED BY <2>0, <2>2, <2>3, <3>1, <3>2 DEF RulesInv, RulesTypes, JobTypes, Asked
  <2>4. CASE ~ProposalAllowed(Evaluator(job.actor, job.guard), "U", rows[id].record, job.patch)
    <3>1. /\ pc' = "bulk" /\ job'.patch = job.patch
          /\ job'.todo = job.todo \ {id} /\ job' = [x \in JobFields |-> job'[x]]
      BY <2>0, <2>1, <2>2, <2>4 DEF JobFields
    <3> QED BY <2>0, <2>2, <3>1 DEF RulesInv, RulesTypes, JobTypes, Asked
  <2> QED BY <2>3, <2>4
<1>3. CASE BulkWrite
  <2>1. pc = "bulkwrite" /\ job.id \in Ids /\ job.patch \in Patches /\ RulesTypes
    BY <1>3 DEF RulesInv, JobTypes, BulkWrite
  <2>2. rows[job.id].record \in Records
    BY <2>1 DEF RulesTypes, Rows
  <2>3. Merged(rows[job.id].record, job.patch) \in Records
    BY <2>1, <2>2, SubmittedPart, MergedTyped
  <2>4. rows' \in [Ids -> Rows]
    BY <1>3, <2>1, <2>3, Stored DEF BulkWrite
  <2> QED BY <1>3, <2>1, <2>4 DEF RulesInv, RulesTypes, JobTypes, Asked, BulkWrite
<1>4. CASE BulkEnd
    BY <1>4, IdleKeeps DEF RulesInv, RulesTypes, BulkEnd
<1> QED BY <1>1, <1>2, <1>3, <1>4

\* Marking a notification keeps RulesInv.
LEMMA MarkKeeps == ASSUME RulesInv, MarkCheck \/ MarkWrite PROVE RulesInv'
<1>1. CASE MarkCheck
  <2>1. PICK id \in Ids, deleted \in BOOLEAN :
          /\ AllowsRecord(Evaluator(roles, security), MarkOp(deleted), rows[id].record)
          /\ Begin("mark", [None EXCEPT !.kind = IF deleted THEN "delete" ELSE "restore", !.id = id,
                                       !.actor = roles, !.guard = security])
    BY <1>1 DEF MarkCheck
  <2>2. /\ pc' = "mark" /\ job'.id = id /\ job'.actor = roles /\ job'.guard = security
        /\ job' = [x \in JobFields |-> job'[x]]
        /\ (job'.kind = "delete") = deleted
    BY <2>1, NoneIs DEF Begin, JobFields
  <2>3. UNCHANGED <<rows, roles, security, own, ops, changes>>
    BY <1>1 DEF MarkCheck
  <2>4. Evaluator(job.actor, job.guard)' = Evaluator(roles, security)
    BY <2>2, <2>3 DEF Evaluator
  <2>5. AllowsRecord(Evaluator(job.actor, job.guard)', MarkOp(job'.kind = "delete"), rows[id].record)
    BY <2>1, <2>2, <2>4
  <2> QED BY <2>2, <2>3, <2>5 DEF RulesInv, RulesTypes, JobTypes, Asked
<1>2. CASE MarkWrite
  <2>1. pc = "mark" /\ job.id \in Ids /\ rows \in [Ids -> Rows]
    BY <1>2 DEF RulesInv, RulesTypes, JobTypes, MarkWrite
  <2>2. [rows[job.id] EXCEPT !.deleted = (job.kind = "delete")] \in Rows
    BY <2>1 DEF Rows
  <2>3. rows' = [rows EXCEPT ![job.id] = [rows[job.id] EXCEPT !.deleted = (job.kind = "delete")]]
    BY <1>2 DEF MarkWrite
  <2>4. rows' \in [Ids -> Rows]
    BY <2>1, <2>2, <2>3
  <2> QED BY <1>2, <2>4, IdleKeeps DEF RulesInv, RulesTypes, MarkWrite
<1> QED BY <1>1, <1>2

\* The rules a script goes by are those of its first touch.
LEMMA ActorKnown ==
    ASSUME RulesTypes PROVE Actor # NotLoaded
BY RulesAssumption DEF RulesTypes, Actor

\* A script sees rows.
LEMMA SeenTyped ==
    ASSUME RulesTypes PROVE Seen \in [Ids -> Rows]
BY DEF RulesTypes, Seen

\* A row a script loads for the next step keeps RulesInv.
LEMMA LoadKeeps ==
    ASSUME RulesInv, NEW request, request = [x \in JobFields |-> request[x]], request.actor = job.actor, request.guard = job.guard,
           request.patch \in Patches, request.todo \subseteq Ids, NEW id \in Ids, Load(request, id),
           UNCHANGED <<rows, roles, security, changes, own>>
    PROVE  RulesInv'
<1>1. Actor # NotLoaded /\ Seen' = Seen
    BY ActorKnown DEF RulesInv, Seen
<1>2. Touched(request) = [request EXCEPT !.actor = Actor, !.guard = Guard]
    BY DEF Touched
<1>3. CASE MayUpdate(Seen[id])
  <2>1. pc' = "loaded" /\ stale' = {} /\ job' = [Touched(request) EXCEPT !.id = id, !.old = Seen[id].record]
    BY <1>3 DEF Load
  <2>2. /\ job' = [x \in JobFields |-> job'[x]]
        /\ job'.id = id /\ job'.actor = Actor /\ job'.guard = Guard /\ job'.patch = request.patch /\ job'.todo = request.todo
    BY <1>2, <2>1 DEF JobFields
  <2>3. Evaluator(job.actor, job.guard)' = Access
    BY <2>2 DEF Access
  <2>4. AllowsRecord(Evaluator(job.actor, job.guard)', "U", Seen'[id].record)
    BY <1>1, <1>3, <2>3 DEF MayUpdate
  <2> QED BY <1>1, <2>1, <2>2, <2>4 DEF RulesInv, RulesTypes, JobTypes, Asked
<1>4. CASE ~MayUpdate(Seen[id])
  <2>1. pc' = "running" /\ job' = [Touched(request) EXCEPT !.todo = {}]
    BY <1>4 DEF Load
  <2>2. job' = [x \in JobFields |-> job'[x]]
    BY <1>2, <2>1 DEF JobFields
  <2> QED BY <2>1, <2>2 DEF RulesInv, RulesTypes, JobTypes, Asked
<1> QED BY <1>3, <1>4

\* What a script writes stays a table of rows of its own.
LEMMA PutTyped ==
    ASSUME RulesTypes, NEW S, S \subseteq Ids, NEW written \in [S -> Rows], Put(written)
    PROVE  own' \in [DOMAIN own' -> Rows] /\ DOMAIN own' = S \cup DOMAIN own /\ DOMAIN own' \subseteq Ids
BY DEF RulesTypes, Put

\* A list holds ids.
LEMMA ListedIds ==
    ASSUME NEW e, NEW op, NEW query \in Queries, NEW table, DOMAIN table = Ids
    PROVE  ToSet(ListRecords(e, op, query, table)) \subseteq Ids
BY ListedPermitted, MatchingIds

\* A list is a sequence of ids.
LEMMA ListedSeq ==
    ASSUME NEW e, NEW op, NEW query \in Queries, NEW table, DOMAIN table = Ids
    PROVE  ListRecords(e, op, query, table) \in Seq(Ids)
<1> DEFINE M == Matching(query, table)
           n == Fetched(e, op, query)
           fetched == AtMost(n, Sorted(M))
           A == {id \in ToSet(fetched) : AllowsRecord(e, op, table[id].record)}
<1>1. M \subseteq Int /\ M \subseteq Ids /\ IsFiniteSet(M)
    BY MatchingIds
<1>2. Sorted(M) \in Seq(M) /\ ToSet(Sorted(M)) = M
    BY <1>1, SortedLists
<1>3. n \in Nat /\ Limit(query) \in Nat
    BY LimitNumber, RulesAssumption DEF Fetched
<1>4. fetched \in Seq(M) /\ ToSet(fetched) \subseteq M
    BY <1>2, <1>3, CutPart
<1>5. A \subseteq Int /\ A \subseteq Ids /\ IsFiniteSet(A)
    BY <1>1, <1>4, FS_Subset
<1>6. fetched \in Seq(Ids)
    BY <1>1, <1>4, SeqMonotonic
<1>7. Sorted(A) \in Seq(Ids)
    BY <1>5, SortedLists, SeqMonotonic
<1>8. ListRecords(e, op, query, table) = AtMost(Limit(query), IF Restricts(e, op) THEN Sorted(A) ELSE fetched)
    BY DEF ListRecords
<1> HIDE DEF A, fetched
<1>9. (IF Restricts(e, op) THEN Sorted(A) ELSE fetched) \in Seq(Ids)
    BY <1>6, <1>7
<1> QED BY <1>3, <1>8, <1>9, CutPart

\* deleteWhere deletes among the rows it has been permitted.
LEMMA GoneAmong ==
    ASSUME RulesTypes, JobTypes, ScriptDelete
    PROVE  \E gone : /\ gone \subseteq Ids /\ gone \subseteq job.todo
                     /\ Put([id \in gone |-> [Seen[id] EXCEPT !.deleted = TRUE]])
<1> DEFINE S == AmongPermitted(Matching(job.query, Seen))
           found == Sorted(S)
           gone == ToSet(IF job.query.limit = 0 THEN found ELSE AtMost(Limit(job.query), found))
<1>1. pc = "targets" /\ Put([id \in gone |-> [Seen[id] EXCEPT !.deleted = TRUE]])
    BY DEF ScriptDelete
<1>2. job.todo \subseteq Ids /\ job.query \in Queries
    BY <1>1 DEF JobTypes
<1>3. DOMAIN Seen = Ids
    BY DEF Seen
<1>4. S \subseteq job.todo /\ S \subseteq Ids /\ S \subseteq Int /\ IsFiniteSet(S)
  <2>1. S \subseteq job.todo /\ S \subseteq Matching(job.query, Seen)
    BY DEF AmongPermitted
  <2> QED BY <1>2, <1>3, <2>1, MatchingIds, FS_Subset
<1>5. found \in Seq(S) /\ ToSet(found) = S
    BY <1>4, SortedLists
<1>6. ToSet(AtMost(Limit(job.query), found)) \subseteq S
    BY <1>2, <1>5, LimitNumber, CutPart
<1>7. gone \subseteq S
    BY <1>5, <1>6
<1> QED BY <1>1, <1>4, <1>7

\* A script that reads and updates keeps RulesInv.
LEMMA ScriptStepKeeps ==
    ASSUME RulesInv, ScriptStart \/ ScriptUpdate \/ ScriptUpdateWhere \/ ScriptEach \/ ScriptWrite
    PROVE  RulesInv'
<1>0. RulesTypes /\ job = [x \in JobFields |-> job[x]] /\ Seen \in [Ids -> Rows] /\ DOMAIN Seen = Ids
    BY SeenTyped DEF RulesInv, RulesTypes
<1>1. CASE ScriptStart
  <2>1. PICK actor : Begin("running", [None EXCEPT !.kind = "script", !.actor = actor])
    BY <1>1 DEF ScriptStart
  <2>2. pc' = "running" /\ job' = [x \in JobFields |-> job'[x]] /\ job'.todo = {}
    BY <2>1 DEF Begin, JobFields, None
  <2> QED BY <1>1, <2>2 DEF RulesInv, RulesTypes, JobTypes, Asked, ScriptStart
<1>2. CASE ScriptUpdate
  <2>1. PICK id \in Ids, patch \in Patches : Load([job EXCEPT !.patch = patch], id)
    BY <1>2 DEF ScriptUpdate
  <2> DEFINE request == [job EXCEPT !.patch = patch]
  <2>2. pc = "running" /\ UNCHANGED <<rows, roles, security, changes, own>>
    BY <1>2 DEF ScriptUpdate, Operation, ScriptVars
  <2>3. /\ request = [x \in JobFields |-> request[x]] /\ request.actor = job.actor /\ request.guard = job.guard
        /\ request.patch = patch /\ request.todo = job.todo
    BY <1>0 DEF JobFields
  <2>4. job.todo \subseteq Ids
    BY <2>2 DEF RulesInv, JobTypes
  <2> HIDE DEF request
  <2> QED BY <2>1, <2>2, <2>3, <2>4, LoadKeeps DEF request
<1>3. CASE ScriptUpdateWhere
  <2>1. PICK query \in Queries, patch \in Patches :
          LET ids == ListRecords(Access, "U", query, Seen) IN
            /\ job' = [Touched(job) EXCEPT !.patch = patch, !.todo = ToSet(ids)]
            /\ pc' = IF ids = <<>> THEN "running" ELSE "each"
    BY <1>3 DEF ScriptUpdateWhere
  <2> DEFINE ids == ListRecords(Access, "U", query, Seen)
  <2>2. UNCHANGED <<rows, roles, security, changes, own, stale>>
    BY <1>3 DEF ScriptUpdateWhere, ScriptVars
  <2>3. ToSet(ids) \subseteq Ids /\ (ids # <<>> => ToSet(ids) # {})
    <3>1. ToSet(ids) \subseteq Ids
      BY <1>0, ListedIds
    <3>2. ids \in Seq(Ids)
      BY <1>0, ListedSeq
    <3> HIDE DEF ids
    <3>3. ids # <<>> => 1 \in DOMAIN ids
      BY <3>2
    <3> QED BY <3>1, <3>3 DEF ToSet
  <2> HIDE DEF ids
  <2>4. /\ job' = [x \in JobFields |-> job'[x]]
        /\ job'.patch = patch /\ job'.todo = ToSet(ids) /\ job'.actor = Actor
    BY <1>0, <2>1 DEF Touched, JobFields, ids
  <2>5. pc' = (IF ids = <<>> THEN "running" ELSE "each")
    BY <2>1 DEF ids
  <2>6. Actor # NotLoaded
    BY <1>0, ActorKnown
  <2> QED BY <2>2, <2>3, <2>4, <2>5, <2>6 DEF RulesInv, RulesTypes, JobTypes, Asked
<1>4. CASE ScriptEach
  <2> DEFINE id == Sorted(job.todo)[1]
             request == [job EXCEPT !.todo = @ \ {id}]
  <2>1. pc = "each" /\ Load(request, id) /\ UNCHANGED <<rows, roles, security, changes, own>>
    BY <1>4 DEF ScriptEach, ScriptVars
  <2>2. job.todo \subseteq Ids /\ job.todo # {} /\ job.patch \in Patches
    BY <2>1 DEF RulesInv, JobTypes
  <2>3. id \in job.todo
    <3>1. job.todo \subseteq Int /\ IsFiniteSet(job.todo)
      BY <2>2, RulesAssumption, FS_Subset
    <3>2. Cardinality(job.todo) # 0
      BY <2>2, <3>1, FS_EmptySet
    <3> QED BY <3>1, <3>2, SortedLists
  <2>4. id \in Ids
    BY <2>2, <2>3
  <2> HIDE DEF id
  <2>5. /\ request = [x \in JobFields |-> request[x]] /\ request.actor = job.actor /\ request.guard = job.guard
        /\ request.patch = job.patch /\ request.todo = job.todo \ {id}
    BY <1>0 DEF JobFields
  <2> HIDE DEF request
  <2> QED BY <2>1, <2>2, <2>4, <2>5, LoadKeeps
<1>5. CASE ScriptWrite
  <2>1. /\ pc = "loaded" /\ job.id \in Ids /\ job.patch \in Patches /\ job.todo \subseteq Ids
        /\ UNCHANGED <<rows, roles, security, changes, stale>>
    BY <1>5 DEF ScriptWrite, ScriptVars, RulesInv, JobTypes
  <2>2. Seen[job.id] \in Rows /\ Seen[job.id].record \in Records
    BY <1>0, <2>1 DEF Rows
  <2>3. UpdateSet \in Records
    BY <2>1, <2>2, SubmittedPart, MergedTyped DEF UpdateSet
  <2>4. [Seen[job.id] EXCEPT !.record = UpdateSet] \in Rows
    BY <2>2, <2>3 DEF Rows
  <2>5. Put([i \in {job.id} |-> [Seen[job.id] EXCEPT !.record = UpdateSet]])
    BY <1>5 DEF ScriptWrite, Own
  <2>6. own' \in [DOMAIN own' -> Rows] /\ DOMAIN own' \subseteq Ids
    <3>1. [i \in {job.id} |-> [Seen[job.id] EXCEPT !.record = UpdateSet]] \in [{job.id} -> Rows]
      BY <2>4
    <3>2. {job.id} \subseteq Ids
      BY <2>1
    <3> QED BY <1>0, <2>5, <3>1, <3>2, PutTyped
  <2>7. CASE pc' = "running" /\ job' = [job EXCEPT !.todo = {}]
    <3>1. job' = [x \in JobFields |-> job'[x]] /\ job'.todo = {}
      BY <1>0, <2>7 DEF JobFields
    <3> QED BY <2>1, <2>6, <2>7, <3>1 DEF RulesInv, RulesTypes, JobTypes, Asked
  <2>8. CASE pc' = "each" /\ UNCHANGED job /\ job.todo # {}
    BY <2>1, <2>6, <2>8 DEF RulesInv, RulesTypes, JobTypes, Asked
  <2> QED BY <1>5, <2>7, <2>8 DEF ScriptWrite
<1> QED BY <1>1, <1>2, <1>3, <1>4, <1>5

\* A script that deletes, or ends, keeps RulesInv.
LEMMA ScriptDeleteKeeps ==
    ASSUME RulesInv, ScriptTargets \/ ScriptDelete \/ ScriptEnd
    PROVE  RulesInv'
<1>0. RulesTypes /\ job = [x \in JobFields |-> job[x]] /\ Seen \in [Ids -> Rows] /\ DOMAIN Seen = Ids
    BY SeenTyped DEF RulesInv, RulesTypes
<1>1. CASE ScriptTargets
  <2>1. PICK query \in Queries :
          LET ids == IF Restricts(Access, "D") THEN ToSet(ListRecords(Access, "D", query, Seen)) ELSE Ids IN
            IF ids = {} THEN pc' = "running" /\ job' = Touched(job) /\ UNCHANGED stale
            ELSE pc' = "targets" /\ job' = [Touched(job) EXCEPT !.query = query, !.todo = ids] /\ stale' = {}
    BY <1>1 DEF ScriptTargets
  <2> DEFINE ids == IF Restricts(Access, "D") THEN ToSet(ListRecords(Access, "D", query, Seen)) ELSE Ids
  <2>2. pc = "running" /\ UNCHANGED <<rows, roles, security, changes, own>>
    BY <1>1 DEF ScriptTargets, ScriptVars, Operation
  <2>3. ids \subseteq Ids /\ \A id \in ids : AllowsRecord(Access, "D", Seen[id].record)
    <3>1. CASE Restricts(Access, "D")
      BY <1>0, <3>1, ListedPermitted, MatchingIds
    <3>2. CASE ~Restricts(Access, "D")
      BY <3>2, UnrestrictedAllows
    <3> QED BY <3>1, <3>2
  <2> HIDE DEF ids
  <2>4. Actor # NotLoaded /\ Touched(job) = [job EXCEPT !.actor = Actor, !.guard = Guard]
    BY <1>0, ActorKnown DEF Touched
  <2>5. job.todo \subseteq Ids
    BY <2>2 DEF RulesInv, JobTypes
  <2>6. CASE ids = {}
    <3>1. pc' = "running" /\ job' = Touched(job) /\ UNCHANGED stale
      BY <2>1, <2>6 DEF ids
    <3>2. job' = [x \in JobFields |-> job'[x]] /\ job'.todo = job.todo
      BY <1>0, <2>4, <3>1 DEF JobFields
    <3> QED BY <2>2, <2>5, <3>1, <3>2 DEF RulesInv, RulesTypes, JobTypes, Asked
  <2>7. CASE ids # {}
    <3>1. pc' = "targets" /\ job' = [Touched(job) EXCEPT !.query = query, !.todo = ids] /\ stale' = {}
      BY <2>1, <2>7 DEF ids
    <3>2. job' = [x \in JobFields |-> job'[x]] /\ job'.todo = ids /\ job'.query = query
        /\ job'.actor = Actor /\ job'.guard = Guard
      BY <1>0, <2>4, <3>1 DEF JobFields
    <3>3. Evaluator(job.actor, job.guard)' = Access
      BY <2>2, <3>2 DEF Access
    <3>4. Seen' = Seen
      BY <2>2 DEF Seen
    <3>5. \A id \in job'.todo : AllowsRecord(Evaluator(job.actor, job.guard)', "D", Seen'[id].record)
      BY <2>3, <3>2, <3>3, <3>4
    <3> QED BY <2>2, <2>3, <2>4, <3>1, <3>2, <3>5 DEF RulesInv, RulesTypes, JobTypes, Asked
  <2> QED BY <2>6, <2>7
<1>2. CASE ScriptDelete
  <2>1. /\ pc' = "running" /\ job' = [job EXCEPT !.todo = {}, !.query = <<>>]
        /\ UNCHANGED <<rows, roles, security, changes, stale>>
    BY <1>2 DEF ScriptDelete, ScriptVars
  <2>2. PICK gone : gone \subseteq Ids /\ Put([id \in gone |-> [Seen[id] EXCEPT !.deleted = TRUE]])
    BY <1>2, GoneAmong DEF RulesInv
  <2>3. [id \in gone |-> [Seen[id] EXCEPT !.deleted = TRUE]] \in [gone -> Rows]
    BY <1>0, <2>2 DEF Rows
  <2>4. own' \in [DOMAIN own' -> Rows] /\ DOMAIN own' \subseteq Ids
    BY <1>0, <2>2, <2>3, PutTyped
  <2>5. job' = [x \in JobFields |-> job'[x]] /\ job'.todo = {}
    BY <1>0, <2>1 DEF JobFields
  <2> QED BY <2>1, <2>4, <2>5 DEF RulesInv, RulesTypes, JobTypes, Asked
<1>3. CASE ScriptEnd
  <2>1. rows' \in [Ids -> Rows]
    BY <1>0, <1>3 DEF ScriptEnd, RulesTypes
  <2>2. own' \in [DOMAIN own' -> Rows] /\ DOMAIN own' = {}
    BY <1>3 DEF ScriptEnd
  <2> QED BY <1>0, <1>3, <2>1, <2>2, IdleKeeps DEF ScriptEnd
<1> QED BY <1>1, <1>2, <1>3

\* Writes and grants of others keep RulesInv.
LEMMA OthersKeep == ASSUME RulesInv, OthersWrite \/ OthersGrant PROVE RulesInv'
<1>1. CASE OthersWrite
  <2>1. PICK id \in Ids \ DOMAIN own, record \in Records, deleted \in BOOLEAN :
          /\ rows' = [rows EXCEPT ![id] = [record |-> record, deleted |-> deleted]]
          /\ stale' = IF Idle THEN stale ELSE stale \cup {id}
    BY <1>1 DEF OthersWrite
  <2>2. changes' = changes + 1 /\ UNCHANGED <<roles, security, pc, job, own, ops>>
    BY <1>1 DEF OthersWrite
  <2>3. [record |-> record, deleted |-> deleted] \in Rows
    BY DEF Rows
  <2>4. rows' \in [Ids -> Rows]
    BY <2>1, <2>3 DEF RulesInv, RulesTypes
  <2>5. RulesTypes'
    BY <2>2, <2>4 DEF RulesInv, RulesTypes
  <2>6. JobTypes'
    BY <2>2 DEF RulesInv, JobTypes
  <2>7. \A i \in Ids : i # id => rows'[i] = rows[i] /\ Seen'[i] = Seen[i]
    BY <2>1, <2>2 DEF RulesInv, RulesTypes, Seen
  <2>8. pc # "idle" => stale' = stale \cup {id}
    BY <2>1 DEF Idle
  <2>9. Evaluator(job.actor, job.guard)' = Evaluator(job.actor, job.guard)
    BY <2>2 DEF Evaluator
  <2>10. Asked'
    <3>1. pc \in {"posted", "asked"} => job.id \in stale' \/ rows'[job.id].record = job.old
      BY <2>7, <2>8 DEF RulesInv, JobTypes, Asked
    <3>2. pc = "bulkwrite" => job.id \in stale'
             \/ ProposalAllowed(Evaluator(job.actor, job.guard), "U", rows'[job.id].record, job.patch)
      BY <2>7, <2>8 DEF RulesInv, JobTypes, Asked
    <3>3. pc = "mark" => job.id \in stale'
             \/ AllowsRecord(Evaluator(job.actor, job.guard), MarkOp(job.kind = "delete"), rows'[job.id].record)
      BY <2>7, <2>8 DEF RulesInv, JobTypes, Asked
    <3>4. pc = "loaded" => job.id \in stale' \/ AllowsRecord(Evaluator(job.actor, job.guard), "U", Seen'[job.id].record)
      BY <2>7, <2>8 DEF RulesInv, JobTypes, Asked
    <3>5. pc = "targets" =>
            \A i \in job.todo : i \in stale' \/ AllowsRecord(Evaluator(job.actor, job.guard), "D", Seen'[i].record)
      BY <2>7, <2>8 DEF RulesInv, JobTypes, Asked
    <3>6. pc = "asked" => ProposalAllowed(Evaluator(job.actor, job.guard), "U", job.old, job.patch)
      BY DEF RulesInv, Asked
    <3> QED BY <2>2, <2>9, <3>1, <3>2, <3>3, <3>4, <3>5, <3>6 DEF Asked
  <2> QED BY <2>5, <2>6, <2>10 DEF RulesInv
<1>2. CASE OthersGrant
  <2>1. changes' = changes + 1 /\ UNCHANGED <<rows, pc, job, own, stale, ops>>
    BY <1>2 DEF OthersGrant
  <2>5. roles' \in RoleSets
    BY <1>2 DEF OthersGrant, RulesInv, RulesTypes
  <2>2. Evaluator(job.actor, job.guard)' = Evaluator(job.actor, job.guard) /\ Seen' = Seen
    BY <2>1 DEF Evaluator, Seen
  <2>6. RulesTypes'
    BY <2>1, <2>5 DEF RulesInv, RulesTypes
  <2>7. JobTypes'
    BY <2>1 DEF RulesInv, JobTypes
  <2>3. RulesTypes' /\ JobTypes'
    BY <2>6, <2>7
  <2>4. Asked'
    BY <2>1, <2>2 DEF RulesInv, Asked
  <2> QED BY <2>3, <2>4 DEF RulesInv
<1> QED BY <1>1, <1>2

\* A step that changes nothing keeps RulesInv.
LEMMA RulesUnchanged == ASSUME RulesInv, UNCHANGED vars PROVE RulesInv'
BY DEF RulesInv, RulesTypes, JobTypes, Asked, Evaluator, Seen, vars

\* RulesInv is inductive.
LEMMA RulesStep == ASSUME RulesInv, [Next]_vars PROVE RulesInv'
BY SavePostKeeps, SaveAskKeeps, SaveEndKeeps, BulkKeeps, MarkKeeps, ScriptStepKeeps, ScriptDeleteKeeps, OthersKeep, RulesUnchanged
   DEF Next

-----------------------------------------------------------------------------
\* A handler writes what the rules allowed it when they were asked.
LEMMA HandlerWrites ==
    ASSUME RulesInv, [Next]_vars
    PROVE  HandlerWritePermitted
<1>1. ASSUME pc = "asked", pc' = "idle", rows'[job.id] # rows[job.id]
      PROVE  \/ ~job.versioned /\ job.id \in stale
             \/ AllowsFields(Evaluator(job.actor, job.guard), "U",
                             ChangedFields(rows[job.id].record, rows'[job.id].record), rows'[job.id].record)
  <2>1. SaveCommit
    BY <1>1 DEF Next, vars, SavePost, SaveAsk, SaveRefused, BulkStart, BulkCheck, BulkWrite, BulkEnd,
               MarkCheck, MarkWrite, ScriptStart, ScriptUpdate, ScriptUpdateWhere, ScriptEach, ScriptWrite,
               ScriptTargets, ScriptDelete, ScriptEnd, OthersWrite, OthersGrant, Idle, Operation
  <2> SUFFICES ASSUME job.id \notin stale
               PROVE  AllowsFields(Evaluator(job.actor, job.guard), "U",
                          ChangedFields(rows[job.id].record, rows'[job.id].record), rows'[job.id].record)
    BY <2>1 DEF SaveCommit
  <2>2. /\ job.id \in Ids /\ RulesTypes /\ rows[job.id].record = job.old /\ job.old \in Records
        /\ DOMAIN job.patch \subseteq Fields /\ \A f \in DOMAIN job.patch : job.patch[f] \in Blankable
        /\ ProposalAllowed(Evaluator(job.actor, job.guard), "U", job.old, job.patch)
    BY <1>1 DEF RulesInv, JobTypes, Asked
  <2>3. Merged(job.old, job.patch) \in Records
    BY <2>2, MergedTyped
  <2>4. rows'[job.id].record = Merged(job.old, job.patch)
    BY <2>1, <2>2, <2>3, Stored DEF SaveCommit
  <2>5. ChangedFields(job.old, Merged(job.old, job.patch)) = ChangedFields(job.old, job.patch)
    BY <2>2, MergedChanges
  <2> QED BY <2>2, <2>4, <2>5 DEF ProposalAllowed
<1>2. ASSUME pc = "bulkwrite", pc' = "bulk"
      PROVE  \/ job.id \in stale
             \/ AllowsFields(Evaluator(job.actor, job.guard), "U", ChangedFields(rows[job.id].record, job.patch), rows'[job.id].record)
  <2>1. BulkWrite
    BY <1>2 DEF Next, vars, SavePost, SaveAsk, SaveCommit, SaveRefused, BulkStart, BulkCheck, BulkEnd,
               MarkCheck, MarkWrite, ScriptStart, ScriptUpdate, ScriptUpdateWhere, ScriptEach, ScriptWrite,
               ScriptTargets, ScriptDelete, ScriptEnd, OthersWrite, OthersGrant, Idle, Operation
  <2>2. job.id \in Ids /\ job.patch \in Patches /\ RulesTypes
    BY <1>2 DEF RulesInv, JobTypes
  <2>3. rows[job.id].record \in Records
    BY <2>2 DEF RulesTypes, Rows
  <2>4. Merged(rows[job.id].record, job.patch) \in Records
    BY <2>2, <2>3, SubmittedPart, MergedTyped
  <2>5. rows'[job.id].record = Merged(rows[job.id].record, job.patch)
    BY <2>1, <2>2, <2>4, Stored DEF BulkWrite
  <2> QED BY <1>2, <2>5 DEF RulesInv, Asked, ProposalAllowed
<1>3. ASSUME pc = "mark", pc' = "idle"
      PROVE  job.id \in stale \/ AllowsRecord(Evaluator(job.actor, job.guard), MarkOp(job.kind = "delete"), rows[job.id].record)
  BY <1>3 DEF RulesInv, Asked
<1> QED BY <1>1, <1>2, <1>3 DEF HandlerWritePermitted

\* A script updates what the rules allowed it when they were asked.
LEMMA ScriptWrites ==
    ASSUME RulesInv, [Next]_vars
    PROVE  ScriptUpdatePermitted
<1> SUFFICES ASSUME pc = "loaded", pc' # "loaded"
             PROVE  /\ job.id \in stale \/ AllowsRecord(Access, "U", Seen[job.id].record)
                    /\ \A f \in Fields : own'[job.id].record[f] # Seen[job.id].record[f] => f \in DOMAIN job.patch
    BY DEF ScriptUpdatePermitted
<1>1. ScriptWrite
    BY DEF Next, vars, SavePost, SaveAsk, SaveCommit, SaveRefused, BulkStart, BulkCheck, BulkWrite, BulkEnd,
           MarkCheck, MarkWrite, ScriptStart, ScriptUpdate, ScriptUpdateWhere, ScriptEach,
           ScriptTargets, ScriptDelete, ScriptEnd, OthersWrite, OthersGrant, Idle, Operation
<1>2. /\ job.id \in Ids /\ job.patch \in Patches /\ job.actor # NotLoaded /\ RulesTypes
      /\ job.id \in stale \/ AllowsRecord(Evaluator(job.actor, job.guard), "U", Seen[job.id].record)
    BY DEF RulesInv, JobTypes, Asked
<1>3. Access = Evaluator(job.actor, job.guard)
    BY <1>2 DEF Access, Actor, Guard
<1>4. Seen[job.id] \in Rows /\ Seen[job.id].record \in Records
    BY <1>2, SeenTyped DEF Rows
<1>5. own'[job.id].record = UpdateSet
  <2>1. own'[job.id] = [Seen[job.id] EXCEPT !.record = UpdateSet]
    BY <1>1 DEF ScriptWrite, Own, Put
  <2> QED BY <1>4, <2>1 DEF Rows
<1>6. \A f \in Fields : UpdateSet[f] # Seen[job.id].record[f] => f \in DOMAIN job.patch
    BY <1>2, <1>4, SubmittedPart, MergedChanges DEF UpdateSet
<1> QED BY <1>2, <1>3, <1>5, <1>6

\* A script deletes what the rules allowed it when they were asked.
LEMMA ScriptDeletes ==
    ASSUME RulesInv, [Next]_vars
    PROVE  ScriptDeletePermitted
<1> SUFFICES ASSUME pc = "targets", pc' = "running", NEW id \in DOMAIN own',
                    own'[id].deleted, ~Seen[id].deleted
             PROVE  id \in stale \/ AllowsRecord(Access, "D", Seen[id].record)
    BY DEF ScriptDeletePermitted
<1>1. ScriptDelete
    BY DEF Next, vars, SavePost, SaveAsk, SaveCommit, SaveRefused, BulkStart, BulkCheck, BulkWrite, BulkEnd,
           MarkCheck, MarkWrite, ScriptStart, ScriptUpdate, ScriptUpdateWhere, ScriptEach, ScriptWrite,
           ScriptTargets, ScriptEnd, OthersWrite, OthersGrant, Idle, Operation
<1>2. PICK gone : gone \subseteq job.todo /\ Put([i \in gone |-> [Seen[i] EXCEPT !.deleted = TRUE]])
    BY <1>1, GoneAmong DEF RulesInv
<1>3. id \in gone
    BY <1>2 DEF Put, Seen, RulesInv, RulesTypes
<1>4. Access = Evaluator(job.actor, job.guard)
    BY DEF Access, Actor, Guard, RulesInv, JobTypes
<1> QED BY <1>2, <1>3, <1>4 DEF RulesInv, Asked

\* Whatever writes a record, the rules let its user write it, unless somebody
\* changed the row after they had been asked (WritesPermitted).
THEOREM WritesKeepTheRules == Spec => WritesPermitted
<1>1. Init => RulesInv
    BY RulesInit
<1>2. RulesInv /\ [Next]_vars => RulesInv'
    BY RulesStep
<1>3. RulesInv /\ [Next]_vars => [HandlerWritePermitted /\ ScriptUpdatePermitted /\ ScriptDeletePermitted]_vars
    BY HandlerWrites, ScriptWrites, ScriptDeletes
<1> QED BY <1>1, <1>2, <1>3, PTL DEF Spec, WritesPermitted

-----------------------------------------------------------------------------
\* A script's list holds the first rows that match and that its user may read,
\* thinned out only by the cap (ListsComplete).
THEOREM ListsHoldWhatMayBeRead == Spec => []ListsComplete
<1>1. Init => RulesInv
    BY RulesInit
<1>2. RulesInv /\ [Next]_vars => RulesInv'
    BY RulesStep
<1>3. RulesInv => ListsComplete
    BY ListedPermitted DEF RulesInv, RulesTypes, ListsComplete
<1> QED BY <1>1, <1>2, <1>3, PTL DEF Spec

\* What the preview allows of an unchanged row the save does not refuse, as
\* long as no field is blanked (PreviewSound).
THEOREM PreviewTellsTheTruth == Spec => []PreviewSound
<1>1. Init => RulesInv
    BY RulesInit
<1>2. RulesInv /\ [Next]_vars => RulesInv'
    BY RulesStep
<1>3. RulesInv => PreviewSound
  <2> SUFFICES ASSUME RulesInv, NEW id \in Ids, NEW patch \in Patches, NEW form \in Securities,
                      \A f \in DOMAIN patch : patch[f] # Null,
                      ChangedFields(rows[id].record, patch) # {},
                      MergedPreview(Preview(Evaluator(roles, security), FALSE, rows[id].record, patch),
                          Preview([gate |-> form.gate, rules |-> OrderedRules[form], roles |-> roles],
                                  FALSE, rows[id].record, patch)).save
               PROVE  ProposalAllowed(Evaluator(roles, security), "U", rows[id].record, Submitted(rows[id].record, patch))
    BY DEF PreviewSound
  <2> DEFINE e == Evaluator(roles, security)
             old == rows[id].record
             changed == ChangedFields(old, patch)
  <2>1. Preview(e, FALSE, old, patch).save
    BY DEF MergedPreview
  <2> HIDE DEF e, old
  <2>2. /\ AllowsRecord(e, "U", Merged(old, patch))
        /\ BlockedFields(e, "U", changed, Merged(old, patch)) = {}
    BY <2>1 DEF Preview, e, old
  <2>3. \A f \in changed : AllowsField(e, "U", f, Merged(old, patch))
    BY <2>2 DEF BlockedFields
  <2>4. changed \subseteq DOMAIN patch /\ Submitted(old, patch) = [f \in changed |-> patch[f]]
    BY DEF Submitted, ChangedFields
  <2>5. ChangedFields(old, Submitted(old, patch)) = changed
    BY <2>4 DEF ChangedFields
  <2>6. Merged(old, Submitted(old, patch)) = Merged(old, patch)
    BY <2>4 DEF Merged, ChangedFields
  <2> QED BY <2>2, <2>3, <2>5, <2>6 DEF ProposalAllowed, AllowsFields, e, old
<1> QED BY <1>1, <1>2, <1>3, PTL DEF Spec

-----------------------------------------------------------------------------
(* Pages                                                                   *)

\* The number of pages is enough for the rows, and no page of them is empty.
LEMMA PagesEnough ==
    ASSUME NEW c \in Nat, c > 0, NEW size \in Nat \ {0}
    PROVE  LET pages == (c + size - 1) \div size
           IN pages \in Nat /\ pages > 0 /\ pages * size >= c /\ (pages - 1) * size < c
<1> DEFINE pages == (c + size - 1) \div size
<1>1. pages \in Int /\ size * pages <= c + size - 1 /\ c + size - 1 < size * pages + size
    OBVIOUS
<1> HIDE DEF pages
<1>2. pages * size = size * pages
    BY <1>1
<1>3. (pages - 1) * size = size * pages - size
    BY <1>1
<1>4. pages > 0
  <2>1. size * pages > 0
    BY <1>1
  <2> QED BY <1>1, <2>1
<1> QED BY <1>1, <1>2, <1>3, <1>4

\* One more row has the rank of the one before, or the next one.
LEMMA RankStep ==
    ASSUME NEW order, NEW readable, NEW i \in Nat
    PROVE  /\ Rank(order, readable, 0) = 0
           /\ Rank(order, readable, i) \in Nat
           /\ Rank(order, readable, i + 1) =
                IF order[i + 1] \in readable THEN Rank(order, readable, i) + 1 ELSE Rank(order, readable, i)
<1> DEFINE Upto(k) == {j \in 1..k : order[j] \in readable}
<1>1. IsFiniteSet(Upto(i)) /\ Cardinality(Upto(i)) \in Nat
  <2>1. IsFiniteSet(1..i)
    BY FS_Interval
  <2>2. Upto(i) \subseteq 1..i
    OBVIOUS
  <2> QED BY <2>1, <2>2, FS_Subset, FS_CardinalityType
<1>2. Upto(0) = {}
    OBVIOUS
<1>3. CASE order[i + 1] \in readable
  <2>1. Upto(i + 1) = Upto(i) \cup {i + 1} /\ i + 1 \notin Upto(i)
    BY <1>3
  <2> QED BY <1>1, <1>2, <1>3, <2>1, FS_AddElement, FS_EmptySet DEF Rank
<1>4. CASE order[i + 1] \notin readable
  <2>1. Upto(i + 1) = Upto(i)
    BY <1>4
  <2> QED BY <1>1, <1>2, <1>4, <2>1, FS_EmptySet DEF Rank
<1> QED BY <1>3, <1>4

\* Ranks grow along an order, and no rank is left out.
LEMMA Ranks ==
    ASSUME NEW order, NEW readable
    PROVE  \A i \in Nat :
             /\ \A j \in 1..i : Rank(order, readable, j) <= Rank(order, readable, i)
             /\ \A v \in 1..Rank(order, readable, i) :
                  \E j \in 1..i : order[j] \in readable /\ Rank(order, readable, j) = v
<1> DEFINE R(i) == Rank(order, readable, i)
           T == {i \in Nat : /\ \A j \in 1..i : R(j) <= R(i)
                             /\ \A v \in 1..R(i) : \E j \in 1..i : order[j] \in readable /\ R(j) = v}
<1>0. \A i \in Nat : R(0) = 0 /\ R(i) \in Nat /\ R(i + 1) = IF order[i + 1] \in readable THEN R(i) + 1 ELSE R(i)
    BY RankStep
<1> HIDE DEF R
<1>1. 0 \in T
    BY <1>0
<1>2. ASSUME NEW i \in T, i \in Nat PROVE i + 1 \in T
  <2>1. \A j \in 1..(i + 1) : R(j) <= R(i + 1)
    <3> TAKE j \in 1..(i + 1)
    <3>1. CASE j = i + 1
      BY <1>0, <1>2, <3>1
    <3>2. CASE j # i + 1
      <4>1. j \in 1..i /\ j \in Nat
        BY <1>2, <3>2
      <4>2. R(j) <= R(i) /\ R(i) \in Nat /\ R(j) \in Nat
        BY <1>0, <1>2, <4>1
      <4> QED BY <1>0, <1>2, <4>2
    <3> QED BY <3>1, <3>2
  <2>2. ASSUME NEW v \in 1..R(i + 1) PROVE \E j \in 1..(i + 1) : order[j] \in readable /\ R(j) = v
    <3>1. CASE v \in 1..R(i)
      <4>1. PICK j \in 1..i : order[j] \in readable /\ R(j) = v
        BY <1>2, <3>1
      <4>2. j \in 1..(i + 1)
        BY <1>2, <4>1
      <4> QED BY <4>1, <4>2
    <3>2. CASE v \notin 1..R(i)
      <4>0. R(i) \in Nat /\ R(i + 1) \in Nat /\ v \in Nat /\ v >= 1 /\ v <= R(i + 1) /\ v > R(i)
        <5>1. R(i) \in Nat /\ R(i + 1) \in Nat
          BY <1>0, <1>2
        <5>2. v \in Nat /\ 1 <= v /\ v <= R(i + 1)
          BY <5>1
        <5> QED BY <3>2, <5>1, <5>2
      <4>3. R(i + 1) = IF order[i + 1] \in readable THEN R(i) + 1 ELSE R(i)
        BY <1>0, <1>2
      <4>1. order[i + 1] \in readable /\ R(i + 1) = v
        BY <4>0, <4>3
      <4>2. i + 1 \in 1..(i + 1)
        BY <1>2
      <4> QED BY <4>1, <4>2
    <3> QED BY <3>1, <3>2
  <2> QED BY <1>2, <2>1, <2>2
<1>3. Nat \subseteq T
  <2> HIDE DEF T
  <2> QED BY <1>1, <1>2, NumberInduction
<1> QED BY <1>3 DEF R

\* The readable rows among the first i.
ReadableUpto(order, readable, i) == {order[j] : j \in {x \in 1..i : order[x] \in readable}}

\* The rank of a row is the number of readable rows up to it.
LEMMA RankImage ==
    ASSUME NEW ids, NEW n \in Nat, NEW order \in Bijection(1..n, ids), NEW readable, NEW i \in 0..n
    PROVE  /\ IsFiniteSet(ReadableUpto(order, readable, i))
           /\ Cardinality(ReadableUpto(order, readable, i)) = Rank(order, readable, i)
<1> DEFINE S == {x \in 1..i : order[x] \in readable}
           seen == {order[j] : j \in S}
           f == [k \in S |-> order[k]]
<1>1. order \in [1..n -> ids] /\ \A j, k \in 1..n : order[j] = order[k] => j = k
    BY DEF Bijection, Injection, IsInjective
<1>2. S \subseteq 1..i /\ S \subseteq 1..n /\ IsFiniteSet(S)
  <2>1. IsFiniteSet(1..i)
    BY FS_Interval
  <2>2. S \subseteq 1..i /\ S \subseteq 1..n
    OBVIOUS
  <2> QED BY <2>1, <2>2, FS_Subset
<1>3. f \in Bijection(S, seen)
  <2>1. f \in [S -> seen]
    OBVIOUS
  <2>2. \A j, k \in S : f[j] = f[k] => j = k
    BY <1>1, <1>2
  <2>3. \A t \in seen : \E k \in S : f[k] = t
    OBVIOUS
  <2> QED BY <2>1, <2>2, <2>3 DEF Bijection, Injection, Surjection, IsInjective
<1>4. ExistsBijection(S, seen)
    BY <1>3 DEF ExistsBijection
<1> QED BY <1>2, <1>4, FS_Bijection DEF Rank, ReadableUpto

\* The last row of an order has as its rank the number of the readable rows.
LEMMA RankOfAll ==
    ASSUME NEW ids, NEW n \in Nat, NEW order \in Bijection(1..n, ids), NEW readable \in SUBSET ids
    PROVE  IsFiniteSet(readable) /\ Rank(order, readable, n) = Cardinality(readable)
<1>1. \A id \in ids : \E j \in 1..n : order[j] = id
    BY DEF Bijection, Surjection
<1>2. {order[j] : j \in {x \in 1..n : order[x] \in readable}} = readable
    BY <1>1
<1>3. n \in 0..n
    OBVIOUS
<1> DEFINE S == ReadableUpto(order, readable, n)
<1>4. IsFiniteSet(S) /\ Cardinality(S) = Rank(order, readable, n)
    BY <1>3, RankImage
<1>5. S = readable
    BY <1>2 DEF ReadableUpto
<1> HIDE DEF S
<1> QED BY <1>4, <1>5

-----------------------------------------------------------------------------
(* The loop of a page                                                      *)

\* The states of a page's loop.
Loop(e, start, size, order, table, n, f) ==
    f = [i \in 0..n |-> IF i = 0 THEN NothingSeen ELSE RowRead(e, start, size, order[i], table, f[i - 1])]

\* A page's loop ends with something: its states are those of a function.
LEMMA LoopExists ==
    ASSUME NEW e, NEW start, NEW size, NEW order, NEW table
    PROVE  \A n \in Nat : \E f : Loop(e, start, size, order, table, n, f)
<1> DEFINE T == {n \in Nat : \E f :
             f = [i \in 0..n |-> IF i = 0 THEN NothingSeen ELSE RowRead(e, start, size, order[i], table, f[i - 1])]}
           G(i, x) == RowRead(e, start, size, order[i], table, x)
<1>1. 0 \in T
  <2> DEFINE f == [i \in 0..0 |-> NothingSeen]
  <2>1. f = [i \in 0..0 |-> IF i = 0 THEN NothingSeen ELSE RowRead(e, start, size, order[i], table, f[i - 1])]
    OBVIOUS
  <2> QED BY <2>1
<1>2. ASSUME NEW n \in T, n \in Nat PROVE n + 1 \in T
  <2>1. PICK f : f = [i \in 0..n |-> IF i = 0 THEN NothingSeen ELSE G(i, f[i - 1])]
    BY <1>2
  <2> HIDE DEF G
  <2> DEFINE g == [i \in 0..(n + 1) |-> IF i = n + 1 THEN G(n + 1, f[n]) ELSE f[i]]
  <2>2. \A i \in 0..(n + 1) : g[i] = IF i = 0 THEN NothingSeen ELSE G(i, g[i - 1])
    <3> TAKE i \in 0..(n + 1)
    <3>1. CASE i = 0
      <4>1. 0 \in 0..(n + 1) /\ 0 # n + 1 /\ 0 \in 0..n
        BY <1>2
      <4> QED BY <2>1, <3>1, <4>1
    <3>2. CASE i = n + 1
      <4>1. i # 0 /\ i - 1 = n /\ n # n + 1 /\ n \in 0..(n + 1)
        BY <1>2, <3>2
      <4> QED BY <3>2, <4>1
    <3>3. CASE i # 0 /\ i # n + 1
      <4>1. i \in 0..n /\ i - 1 \in 0..(n + 1) /\ i - 1 # n + 1
        BY <1>2, <3>3
      <4> QED BY <2>1, <3>3, <4>1
    <3> QED BY <3>1, <3>2, <3>3
  <2>3. g = [i \in 0..(n + 1) |-> g[i]]
    OBVIOUS
  <2> HIDE DEF g
  <2>4. g = [i \in 0..(n + 1) |-> IF i = 0 THEN NothingSeen ELSE G(i, g[i - 1])]
    BY <2>2, <2>3
  <2>5. n + 1 \in Nat
    BY <1>2
  <2> QED BY <2>4, <2>5 DEF G
<1>3. Nat \subseteq T
  <2> HIDE DEF T
  <2> QED BY <1>1, <1>2, NumberInduction
<1> QED BY <1>3 DEF Loop

\* What the rows up to i have in common with a part of a page: the k-th one of
\* it is the readable row of rank before + k.
Kept(before, s, i, order, readable) ==
    \A j \in 1..i : order[j] \in readable /\ Rank(order, readable, j) - before \in DOMAIN s =>
                        s[Rank(order, readable, j) - before] = order[j]

\* What the loop knows after i rows.
SeenInv(s, i, start, size, ids, order, readable) ==
    LET r == Rank(order, readable, i) IN
    /\ s = [count |-> s.count, last |-> s.last, rows |-> s.rows, more |-> s.more]
    /\ s.more \in BOOLEAN /\ s.last \in Seq(ids) /\ s.rows \in Seq(ids)
    /\ Len(s.rows) <= size
    /\ Kept(start, s.rows, i, order, readable)
    /\ s.more => Len(s.rows) = size /\ r > start + size
    /\ ~s.more =>
         /\ s.count = r
         /\ Len(s.rows) = IF r <= start THEN 0 ELSE r - start
         /\ Len(s.last) = IF r < size THEN r ELSE size
         /\ Kept(r - Len(s.last), s.last, i, order, readable)

\* The loop has kept the last rows, and keeps them with one more.
LEMMA LastKept ==
    ASSUME NEW ids, NEW order, NEW readable, NEW i \in Nat, NEW size \in Nat \ {0}, NEW last \in Seq(ids),
           order[i + 1] \in ids, order[i + 1] \in readable,
           Len(last) = IF Rank(order, readable, i) < size THEN Rank(order, readable, i) ELSE size,
           Kept(Rank(order, readable, i) - Len(last), last, i, order, readable)
    PROVE  LET next == Append(IF Len(last) = size THEN Tail(last) ELSE last, order[i + 1])
               r == Rank(order, readable, i + 1)
           IN /\ next \in Seq(ids)
              /\ Len(next) = IF r < size THEN r ELSE size
              /\ Kept(r - Len(next), next, i + 1, order, readable)
<1> DEFINE R(k) == Rank(order, readable, k)
           id == order[i + 1]
           next == Append(IF Len(last) = size THEN Tail(last) ELSE last, id)
<1>1. R(i) \in Nat /\ R(i + 1) = R(i) + 1
    BY RankStep
<1>2. \A j \in 1..i : R(j) \in Nat /\ R(j) <= R(i)
  <2> TAKE j \in 1..i
  <2>1. j \in Nat
    OBVIOUS
  <2>2. R(j) \in Nat
    BY <2>1, RankStep
  <2>3. R(j) <= R(i)
    BY Ranks
  <2> QED BY <2>2, <2>3
<1>3. /\ Len(last) = IF R(i) < size THEN R(i) ELSE size
      /\ \A j \in 1..i : order[j] \in readable /\ R(j) - (R(i) - Len(last)) \in 1..Len(last) =>
            last[R(j) - (R(i) - Len(last))] = order[j]
    BY DEF Kept
<1> HIDE DEF R
<1>4. CASE Len(last) = size
  <2>1. Tail(last) \in Seq(ids) /\ Len(Tail(last)) = size - 1 /\ \A k \in 1..(size - 1) : Tail(last)[k] = last[k + 1]
    BY <1>4
  <2>2. next = Append(Tail(last), id)
    BY <1>4
  <2>3. next \in Seq(ids) /\ Len(next) = size /\ next[size] = id /\ \A k \in 1..(size - 1) : next[k] = last[k + 1]
    BY <2>1, <2>2
  <2> HIDE DEF next
  <2>4. R(i) >= size /\ ~(R(i + 1) < size)
    BY <1>1, <1>3, <1>4
  <2>5. ASSUME NEW j \in 1..(i + 1), order[j] \in readable, R(j) - (R(i + 1) - size) \in 1..size
        PROVE  next[R(j) - (R(i + 1) - size)] = order[j]
    <3>1. CASE j = i + 1
      <4>1. R(j) - (R(i + 1) - size) = size
        BY <1>1, <3>1
      <4> QED BY <2>3, <3>1, <4>1
    <3>2. CASE j # i + 1
      <4>1. j \in 1..i
        BY <3>2
      <4> DEFINE k == R(j) - (R(i + 1) - size)
      <4>2. k \in 1..(size - 1) /\ k + 1 = R(j) - (R(i) - size) /\ k + 1 \in 1..size
        BY <1>1, <1>2, <2>5, <4>1
      <4> HIDE DEF k
      <4>3. next[k] = last[k + 1] /\ last[k + 1] = order[j]
        BY <1>3, <1>4, <2>3, <2>5, <4>1, <4>2
      <4> QED BY <4>3 DEF k
    <3> QED BY <3>1, <3>2
  <2> QED BY <2>3, <2>4, <2>5 DEF Kept, R, next
<1>5. CASE Len(last) # size
  <2>1. R(i) < size /\ Len(last) = R(i) /\ next = Append(last, id)
    BY <1>1, <1>3, <1>5
  <2>2. next \in Seq(ids) /\ Len(next) = R(i + 1) /\ next[R(i + 1)] = id /\ \A k \in 1..R(i) : next[k] = last[k]
    BY <1>1, <2>1
  <2> HIDE DEF next
  <2>3. ASSUME NEW j \in 1..(i + 1), order[j] \in readable, R(j) - (R(i + 1) - R(i + 1)) \in 1..R(i + 1)
        PROVE  next[R(j) - (R(i + 1) - R(i + 1))] = order[j]
    <3>1. CASE j = i + 1
      BY <1>1, <2>2, <3>1
    <3>2. CASE j # i + 1
      <4>1. j \in 1..i
        BY <3>2
      <4>2. R(j) \in 1..R(i) /\ R(j) - (R(i + 1) - R(i + 1)) = R(j) /\ R(j) - (R(i) - R(i)) = R(j)
        BY <1>1, <1>2, <2>3, <4>1
      <4>3. next[R(j)] = last[R(j)] /\ last[R(j)] = order[j]
        BY <1>3, <2>1, <2>2, <2>3, <4>1, <4>2
      <4> QED BY <4>2, <4>3
    <3> QED BY <3>1, <3>2
  <2>4. Len(next) = IF R(i + 1) < size THEN R(i + 1) ELSE size
    BY <1>1, <2>1, <2>2
  <2>5. DOMAIN next = 1..R(i + 1)
    BY <2>2
  <2> QED BY <2>2, <2>3, <2>4, <2>5 DEF Kept, R, next
<1> QED BY <1>4, <1>5

\* A part of a page that the next row does not belong to stays what it is.
LEMMA KeptMore ==
    ASSUME NEW order, NEW readable, NEW i \in Nat, NEW before, NEW s,
           Kept(before, s, i, order, readable),
           order[i + 1] \in readable /\ Rank(order, readable, i + 1) - before \in DOMAIN s =>
               s[Rank(order, readable, i + 1) - before] = order[i + 1]
    PROVE  Kept(before, s, i + 1, order, readable)
<1> DEFINE D(j) == Rank(order, readable, j) - before
<1>1. \A j \in 1..(i + 1) : j \in 1..i \/ j = i + 1
    OBVIOUS
<1>2. \A j \in 1..i : order[j] \in readable /\ D(j) \in DOMAIN s => s[D(j)] = order[j]
    BY DEF Kept
<1> SUFFICES \A j \in 1..(i + 1) : order[j] \in readable /\ D(j) \in DOMAIN s => s[D(j)] = order[j]
    BY DEF Kept
<1> HIDE DEF D
<1>3. order[i + 1] \in readable /\ D(i + 1) \in DOMAIN s => s[D(i + 1)] = order[i + 1]
    BY DEF D
<1> QED BY <1>1, <1>2, <1>3

\* The loop's knowledge, field by field.
LEMMA SeenIs ==
    ASSUME NEW ids, NEW order, NEW readable, NEW i \in Nat, NEW start \in Nat, NEW size \in Nat \ {0},
           NEW count, NEW last \in Seq(ids), NEW shown \in Seq(ids), NEW more \in BOOLEAN,
           Len(shown) <= size,
           Kept(start, shown, i, order, readable),
           more => Len(shown) = size /\ Rank(order, readable, i) > start + size,
           ~more =>
             /\ count = Rank(order, readable, i)
             /\ Len(shown) = IF Rank(order, readable, i) <= start THEN 0 ELSE Rank(order, readable, i) - start
             /\ Len(last) = IF Rank(order, readable, i) < size THEN Rank(order, readable, i) ELSE size
             /\ Kept(Rank(order, readable, i) - Len(last), last, i, order, readable)
    PROVE  SeenInv([count |-> count, last |-> last, rows |-> shown, more |-> more], i, start, size, ids, order, readable)
<1> DEFINE s == [count |-> count, last |-> last, rows |-> shown, more |-> more]
<1>1. s.count = count /\ s.last = last /\ s.rows = shown /\ s.more = more
    OBVIOUS
<1>2. s = [count |-> s.count, last |-> s.last, rows |-> s.rows, more |-> s.more]
    OBVIOUS
<1> HIDE DEF s
<1>3. SeenInv(s, i, start, size, ids, order, readable)
    BY <1>1, <1>2 DEF SeenInv
<1> QED BY <1>3 DEF s

\* Before the loop knows of one more row than a page holds.
LEMMA SeenShort ==
    ASSUME NEW ids, NEW order, NEW readable, NEW i \in Nat, NEW start \in Nat, NEW size \in Nat \ {0},
           NEW last \in Seq(ids), NEW shown \in Seq(ids), NEW r, r = Rank(order, readable, i),
           Len(shown) <= size,
           Kept(start, shown, i, order, readable),
           Len(shown) = IF r <= start THEN 0 ELSE r - start,
           Len(last) = IF r < size THEN r ELSE size,
           Kept(r - Len(last), last, i, order, readable)
    PROVE  SeenInv([count |-> r, last |-> last, rows |-> shown, more |-> FALSE], i, start, size, ids, order, readable)
<1>1. FALSE \in BOOLEAN
    OBVIOUS
<1> QED BY <1>1, SeenIs

\* And after.
LEMMA SeenLong ==
    ASSUME NEW ids, NEW order, NEW readable, NEW i \in Nat, NEW start \in Nat, NEW size \in Nat \ {0}, NEW count,
           NEW last \in Seq(ids), NEW shown \in Seq(ids),
           Len(shown) = size,
           Kept(start, shown, i, order, readable),
           Rank(order, readable, i) > start + size
    PROVE  SeenInv([count |-> count, last |-> last, rows |-> shown, more |-> TRUE], i, start, size, ids, order, readable)
<1>1. TRUE \in BOOLEAN /\ Len(shown) <= size
    OBVIOUS
<1> QED BY <1>1, SeenIs

\* One turn of the loop keeps what it knows.
LEMMA RowReadKeeps ==
    ASSUME NEW ids, NEW order, NEW readable, NEW i \in Nat, NEW start \in Nat, NEW size \in Nat \ {0},
           NEW e, NEW table, NEW s, order[i + 1] \in ids,
           order[i + 1] \in readable <=> AllowsRecord(e, "R", table[order[i + 1]].record),
           SeenInv(s, i, start, size, ids, order, readable)
    PROVE  SeenInv(RowRead(e, start, size, order[i + 1], table, s), i + 1, start, size, ids, order, readable)
<1> DEFINE R(k) == Rank(order, readable, k)
           id == order[i + 1]
           next == RowRead(e, start, size, id, table, s)
           last == Append(IF Len(s.last) = size THEN Tail(s.last) ELSE s.last, id)
<1>1. /\ R(i) \in Nat /\ R(i + 1) \in Nat
      /\ R(i + 1) = IF id \in readable THEN R(i) + 1 ELSE R(i)
    BY RankStep
<1>2. /\ s = [count |-> s.count, last |-> s.last, rows |-> s.rows, more |-> s.more]
      /\ s.more \in BOOLEAN /\ s.last \in Seq(ids) /\ s.rows \in Seq(ids)
      /\ Len(s.rows) <= size
      /\ Kept(start, s.rows, i, order, readable)
      /\ s.more => Len(s.rows) = size /\ R(i) > start + size
      /\ ~s.more =>
           /\ s.count = R(i)
           /\ Len(s.rows) = IF R(i) <= start THEN 0 ELSE R(i) - start
           /\ Len(s.last) = IF R(i) < size THEN R(i) ELSE size
           /\ Kept(R(i) - Len(s.last), s.last, i, order, readable)
    BY DEF SeenInv
<1>3. Len(s.rows) \in Nat /\ DOMAIN s.rows = 1..Len(s.rows)
    BY <1>2
<1>4. ASSUME s.more \/ id \notin readable PROVE next = s
    BY <1>4 DEF RowRead
<1>5. ASSUME ~s.more, id \in readable
      PROVE  /\ last \in Seq(ids)
             /\ Len(last) = IF R(i + 1) < size THEN R(i + 1) ELSE size
             /\ Kept(R(i + 1) - Len(last), last, i + 1, order, readable)
  <2>1. /\ s.last \in Seq(ids)
        /\ Len(s.last) = IF Rank(order, readable, i) < size THEN Rank(order, readable, i) ELSE size
        /\ Kept(Rank(order, readable, i) - Len(s.last), s.last, i, order, readable)
    BY <1>2, <1>5
  <2>2. order[i + 1] \in readable
    BY <1>5
  <2> QED BY <2>1, <2>2, LastKept
<1>6. Kept(start, s.rows, i, order, readable)
    BY <1>2
<1>7. ASSUME R(i + 1) - start \notin DOMAIN s.rows \/ id \notin readable
      PROVE  Kept(start, s.rows, i + 1, order, readable)
    BY <1>6, <1>7, KeptMore
<1>8. CASE s.more
  <2>1. R(i + 1) > start + size
    BY <1>1, <1>2, <1>8
  <2>2. R(i + 1) - start \notin DOMAIN s.rows
    BY <1>1, <1>2, <1>3, <1>8, <2>1
  <2>3. Kept(start, s.rows, i + 1, order, readable)
    BY <1>7, <2>2
  <2>4. s.last \in Seq(ids) /\ s.rows \in Seq(ids) /\ Len(s.rows) = size /\ i + 1 \in Nat
    BY <1>2, <1>8
  <2>5. SeenInv([count |-> s.count, last |-> s.last, rows |-> s.rows, more |-> TRUE],
                i + 1, start, size, ids, order, readable)
    BY <2>1, <2>3, <2>4, SeenLong
  <2>6. s = [count |-> s.count, last |-> s.last, rows |-> s.rows, more |-> TRUE]
    BY <1>2, <1>8
  <2> QED BY <1>4, <1>8, <2>5, <2>6
<1>9. CASE ~s.more /\ id \notin readable
  <2>1. Kept(start, s.rows, i + 1, order, readable)
    BY <1>7, <1>9
  <2>2. Kept(R(i) - Len(s.last), s.last, i + 1, order, readable)
    BY <1>2, <1>9, KeptMore
  <2>3. next = s /\ R(i + 1) = R(i)
    BY <1>1, <1>4, <1>9
  <2>4. /\ s.last \in Seq(ids) /\ s.rows \in Seq(ids) /\ Len(s.rows) <= size /\ i + 1 \in Nat
        /\ Len(s.rows) = IF R(i) <= start THEN 0 ELSE R(i) - start
        /\ Len(s.last) = IF R(i) < size THEN R(i) ELSE size
        /\ s.count = R(i)
    BY <1>2, <1>9
  <2>5. SeenInv([count |-> R(i), last |-> s.last, rows |-> s.rows, more |-> FALSE],
                i + 1, start, size, ids, order, readable)
    BY <2>1, <2>2, <2>3, <2>4, SeenShort
  <2>6. s = [count |-> R(i), last |-> s.last, rows |-> s.rows, more |-> FALSE]
    BY <1>2, <1>9, <2>4
  <2> QED BY <2>3, <2>5, <2>6
<1>10. CASE ~s.more /\ id \in readable
  <2>0. s.count + 1 = R(i + 1) /\ R(i + 1) = R(i) + 1
    BY <1>1, <1>2, <1>10
  <2> HIDE DEF last
  <2>1. CASE R(i + 1) <= start
    <3>1. next = [s EXCEPT !.count = R(i + 1), !.last = last]
      BY <1>10, <2>0, <2>1 DEF RowRead, AheadOfPage, last
    <3>2. next = [count |-> R(i + 1), last |-> last, rows |-> s.rows, more |-> FALSE]
      BY <1>2, <1>10, <3>1
    <3>3. Len(s.rows) = 0
      BY <1>1, <1>2, <1>10, <2>0, <2>1
    <3>4. Kept(start, s.rows, i + 1, order, readable)
      BY <1>3, <1>7, <3>3
    <3>5. SeenInv([count |-> R(i + 1), last |-> last, rows |-> s.rows, more |-> FALSE],
                  i + 1, start, size, ids, order, readable)
      <4>1. /\ last \in Seq(ids) /\ Len(last) = IF R(i + 1) < size THEN R(i + 1) ELSE size
            /\ Kept(R(i + 1) - Len(last), last, i + 1, order, readable)
        BY <1>5, <1>10
      <4>2. /\ s.rows \in Seq(ids) /\ Len(s.rows) <= size /\ i + 1 \in Nat
            /\ Len(s.rows) = IF R(i + 1) <= start THEN 0 ELSE R(i + 1) - start
        BY <1>2, <2>1, <3>3
      <4> QED BY <3>4, <4>1, <4>2, SeenShort
    <3> QED BY <3>2, <3>5
  <2>2. CASE R(i + 1) > start /\ Len(s.rows) < size
    <3> DEFINE shown == Append(s.rows, id)
    <3>0. ~AheadOfPage(s.count + 1, start)
      BY <1>1, <2>0, <2>2 DEF AheadOfPage
    <3>1. next = [s EXCEPT !.count = R(i + 1), !.last = last, !.rows = shown]
      BY <1>10, <2>0, <2>2, <3>0 DEF RowRead, last
    <3>2. next = [count |-> R(i + 1), last |-> last, rows |-> shown, more |-> FALSE]
      <4> HIDE DEF shown, next
      <4> QED BY <1>2, <1>10, <3>1
    <3>3. Len(s.rows) = R(i) - start
      BY <1>1, <1>2, <1>10, <2>0, <2>2
    <3>8. /\ shown \in Seq(ids) /\ Len(shown) = Len(s.rows) + 1 /\ shown[Len(s.rows) + 1] = id
          /\ \A k \in 1..Len(s.rows) : shown[k] = s.rows[k]
      BY <1>2, <1>3
    <3>9. Len(s.rows) + 1 = R(i + 1) - start
      BY <1>1, <2>0, <3>3
    <3>4. shown \in Seq(ids) /\ Len(shown) = R(i + 1) - start /\ shown[R(i + 1) - start] = id
          /\ \A k \in 1..Len(s.rows) : shown[k] = s.rows[k]
      <4> HIDE DEF shown, R
      <4> QED BY <3>8, <3>9
    <3>5. \A j \in 1..i : R(j) \in Nat /\ R(j) <= R(i)
      <4> TAKE j \in 1..i
      <4>1. j \in Nat
        OBVIOUS
      <4>2. R(j) \in Nat
        BY <4>1, RankStep
      <4>3. R(j) <= R(i)
        BY Ranks
      <4> QED BY <4>2, <4>3
    <3> HIDE DEF shown, next
    <3>6. Kept(start, shown, i, order, readable)
      <4> SUFFICES ASSUME NEW j \in 1..i, order[j] \in readable, R(j) - start \in DOMAIN shown
                   PROVE  shown[R(j) - start] = order[j]
        BY DEF Kept
      <4>1. DOMAIN shown = 1..Len(shown) /\ R(j) \in Nat /\ R(j) <= R(i)
        BY <3>4, <3>5
      <4> HIDE DEF R
      <4>2. R(j) - start \in 1..Len(s.rows)
        BY <1>1, <3>3, <3>4, <4>1
      <4>3. s.rows[R(j) - start] = order[j]
        BY <1>3, <1>6, <4>2 DEF Kept, R
      <4> QED BY <3>4, <4>2, <4>3
    <3>7. Kept(start, shown, i + 1, order, readable)
      BY <3>4, <3>6, KeptMore
    <3>10. Len(shown) <= size /\ Len(shown) = IF R(i + 1) <= start THEN 0 ELSE R(i + 1) - start
      <4> HIDE DEF R
      <4> QED BY <1>1, <1>3, <2>2, <3>4, <3>9
    <3>11. SeenInv([count |-> R(i + 1), last |-> last, rows |-> shown, more |-> FALSE],
                   i + 1, start, size, ids, order, readable)
      <4>1. /\ last \in Seq(ids) /\ Len(last) = IF R(i + 1) < size THEN R(i + 1) ELSE size
            /\ Kept(R(i + 1) - Len(last), last, i + 1, order, readable) /\ i + 1 \in Nat
        BY <1>5, <1>10
      <4> QED BY <3>4, <3>7, <3>10, <4>1, SeenShort
    <3> QED BY <3>2, <3>11 DEF next
  <2>3. CASE R(i + 1) > start /\ ~(Len(s.rows) < size)
    <3>0. ~AheadOfPage(s.count + 1, start)
      BY <1>1, <2>0, <2>3 DEF AheadOfPage
    <3>1. next = [s EXCEPT !.count = R(i + 1), !.last = last, !.more = TRUE]
      BY <1>10, <2>0, <2>3, <3>0 DEF RowRead, last
    <3>2. next = [count |-> R(i + 1), last |-> last, rows |-> s.rows, more |-> TRUE]
      BY <1>2, <1>10, <3>1
    <3>3. Len(s.rows) = size /\ R(i) = start + size
      BY <1>1, <1>2, <1>3, <1>10, <2>0, <2>3
    <3>4. R(i + 1) - start \notin DOMAIN s.rows
      BY <1>1, <1>3, <2>0, <3>3
    <3>5. Kept(start, s.rows, i + 1, order, readable)
      BY <1>7, <3>4
    <3>6. SeenInv([count |-> R(i + 1), last |-> last, rows |-> s.rows, more |-> TRUE],
                  i + 1, start, size, ids, order, readable)
      <4>1. last \in Seq(ids) /\ s.rows \in Seq(ids) /\ i + 1 \in Nat
        BY <1>2, <1>5, <1>10
      <4>2. R(i + 1) > start + size
        BY <2>0, <3>3
      <4> QED BY <3>3, <3>5, <4>1, <4>2, SeenLong
    <3> QED BY <3>2, <3>6
  <2> QED BY <1>1, <2>1, <2>2, <2>3
<1> QED BY <1>2, <1>8, <1>9, <1>10

\* What the loop knows after any number of its rows.
LEMMA LoopKnows ==
    ASSUME NEW ids, NEW n \in Nat, NEW order \in [1..n -> ids], NEW readable, NEW start \in Nat,
           NEW size \in Nat \ {0}, NEW e, NEW table, NEW seen,
           seen = [i \in 0..n |-> IF i = 0 THEN NothingSeen ELSE RowRead(e, start, size, order[i], table, seen[i - 1])],
           \A id \in ids : id \in readable <=> AllowsRecord(e, "R", table[id].record)
    PROVE  SeenInv(seen[n], n, start, size, ids, order, readable)
<1> DEFINE T == {i \in Nat : i <= n => SeenInv(seen[i], i, start, size, ids, order, readable)}
<1>1. 0 \in T
  <2>1. seen[0] = NothingSeen
    OBVIOUS
  <2>2. Rank(order, readable, 0) = 0
    BY RankStep
  <2>3. <<>> \in Seq(ids) /\ Len(<<>>) = 0
    OBVIOUS
  <2>4. \A before, t : Kept(before, t, 0, order, readable)
    BY DEF Kept
  <2>5. NothingSeen = [count |-> 0, last |-> <<>>, rows |-> <<>>, more |-> FALSE]
    BY DEF NothingSeen
  <2>6. SeenInv(NothingSeen, 0, start, size, ids, order, readable)
    BY <2>2, <2>3, <2>4, <2>5 DEF SeenInv
  <2> QED BY <2>1, <2>6
<1>2. ASSUME NEW i \in T, i \in Nat PROVE i + 1 \in T
  <2> SUFFICES ASSUME i + 1 <= n PROVE SeenInv(seen[i + 1], i + 1, start, size, ids, order, readable)
    BY <1>2
  <2>1. i + 1 \in 0..n /\ i + 1 # 0 /\ (i + 1) - 1 = i /\ i + 1 \in 1..n /\ i <= n
    BY <1>2
  <2>2. seen[i + 1] = RowRead(e, start, size, order[i + 1], table, seen[i])
    BY <2>1
  <2>3. order[i + 1] \in ids /\ (order[i + 1] \in readable <=> AllowsRecord(e, "R", table[order[i + 1]].record))
    BY <2>1
  <2>4. SeenInv(seen[i], i, start, size, ids, order, readable)
    BY <1>2, <2>1
  <2>5. SeenInv(RowRead(e, start, size, order[i + 1], table, seen[i]), i + 1, start, size, ids, order, readable)
    BY <1>2, <2>3, <2>4, RowReadKeeps
  <2> QED BY <2>2, <2>5
<1>3. Nat \subseteq T
  <2> HIDE DEF T
  <2> QED BY <1>1, <1>2, NumberInduction
<1> QED BY <1>3

\* Products grow with their factors.
LEMMA ProductsGrow ==
    ASSUME NEW x \in Nat, NEW y \in Nat, NEW k \in Nat, x <= y
    PROVE  x * k <= y * k
<1>1. PICK d \in Nat : y = x + d
  <2>1. y - x \in Nat /\ y = x + (y - x)
    OBVIOUS
  <2> QED BY <2>1
<1>2. (x + d) * k = x * k + d * k /\ d * k \in Nat /\ x * k \in Nat
    OBVIOUS
<1> QED BY <1>1, <1>2

\* A page of any query is its share of the readable rows, under its number.
LEMMA PageRight ==
    ASSUME NEW ids, NEW n \in Nat, NEW order \in Bijection(1..n, ids), NEW readable \in SUBSET ids,
           NEW page \in Nat \ {0}, NEW size \in Nat \ {0}, NEW e, NEW table,
           \A id \in ids : id \in readable <=> AllowsRecord(e, "R", table[id].record)
    PROVE  LET P == SecureListPage(e, page, size, order, table)
           IN PageOf(page, size, P, order, readable) /\ P.page \in Nat /\ P.shown \in Seq(ids)
<1> DEFINE start == (page - 1) * size
           seen == CHOOSE f : f = [i \in 0..Len(order) |->
                       IF i = 0 THEN NothingSeen ELSE RowRead(e, (page - 1) * size, size, order[i], table, f[i - 1])]
           s == seen[n]
           pages == IF s.count = 0 THEN 1 ELSE (s.count + size - 1) \div size
           P == SecureListPage(e, page, size, order, table)
           total == Cardinality(readable)
           left(before) == IF total <= before THEN 0 ELSE IF total - before < size THEN total - before ELSE size
           R(k) == Rank(order, readable, k)
<1>1. order \in [1..n -> ids] /\ DOMAIN order = 1..n /\ order \in Seq(ids) /\ Len(order) = n
  <2>1. order \in [1..n -> ids]
    BY DEF Bijection, Injection
  <2> QED BY <2>1
<1>2. start \in Nat /\ start + size = page * size
  <2>1. page - 1 \in Nat /\ size \in Nat /\ page \in Nat
    OBVIOUS
  <2>2. ((page - 1) + 1) * size = (page - 1) * size + size
    BY <2>1
  <2>3. (page - 1) + 1 = page
    OBVIOUS
  <2> QED BY <2>1, <2>2, <2>3
<1>3. seen = [i \in 0..n |-> IF i = 0 THEN NothingSeen ELSE RowRead(e, start, size, order[i], table, seen[i - 1])]
  <2>1. \E f : f = [i \in 0..n |-> IF i = 0 THEN NothingSeen ELSE RowRead(e, start, size, order[i], table, f[i - 1])]
    <3> HIDE DEF start
    <3>1. \E f : Loop(e, start, size, order, table, n, f)
      BY LoopExists
    <3> QED BY <3>1 DEF Loop
  <2> QED BY <1>1, <2>1
<1>4. P = IF s.more
            THEN [page |-> page, shown |-> s.rows, pages |-> page + 1, exact |-> FALSE, next |-> TRUE]
          ELSE IF page > pages
            THEN [page |-> pages, shown |-> s.last, pages |-> pages, exact |-> TRUE, next |-> FALSE]
          ELSE [page |-> page, shown |-> s.rows, pages |-> pages, exact |-> TRUE, next |-> page < pages]
    BY <1>1 DEF SecureListPage
<1> HIDE DEF seen, start
<1>5. SeenInv(s, n, start, size, ids, order, readable)
    BY <1>1, <1>2, <1>3, LoopKnows
<1>6. IsFiniteSet(readable) /\ total \in Nat /\ R(n) = total
    BY RankOfAll, FS_CardinalityType
<1> HIDE DEF P, s, total, R
<1>7. /\ s.more \in BOOLEAN /\ s.last \in Seq(ids) /\ s.rows \in Seq(ids)
      /\ Len(s.rows) <= size
      /\ Kept(start, s.rows, n, order, readable)
      /\ s.more => Len(s.rows) = size /\ total > start + size
      /\ ~s.more =>
           /\ s.count = total
           /\ Len(s.rows) = IF total <= start THEN 0 ELSE total - start
           /\ Len(s.last) = IF total < size THEN total ELSE size
           /\ Kept(total - Len(s.last), s.last, n, order, readable)
    BY <1>5, <1>6 DEF SeenInv, R
<1>8. ASSUME NEW before \in Int, NEW t \in Seq(ids), Kept(before, t, n, order, readable), Len(t) <= total - before
      PROVE  ShowsAfter(before, t, order, readable)
  <2>1. DOMAIN t = 1..Len(t) /\ Len(t) \in Nat
    BY <1>8
  <2>2. DOMAIN t \subseteq 1..(total - before)
    BY <1>6, <1>8, <2>1
  <2>3. \A i \in DOMAIN order : order[i] \in readable /\ Rank(order, readable, i) - before \in DOMAIN t =>
            t[Rank(order, readable, i) - before] = order[i]
    BY <1>1, <1>8 DEF Kept
  <2> QED BY <2>2, <2>3 DEF ShowsAfter, total
<1>9. Len(s.rows) \in Nat
    BY <1>7
<1>12. ASSUME /\ P.next <=> total > page * size
              /\ P.page = page => ShowsAfter(start, P.shown, order, readable) /\ Len(P.shown) = left(start)
              /\ P.page # page =>
                   /\ P.page < page /\ P.page * size >= total
                   /\ ShowsAfter(total - left(0), P.shown, order, readable) /\ Len(P.shown) = left(0)
       PROVE  PageOf(page, size, P, order, readable)
    BY <1>12 DEF PageOf, total, start
<1>10. CASE s.more
  <2>1. P.next = TRUE /\ P.page = page /\ P.shown = s.rows
    BY <1>4, <1>10
  <2>2. total > start + size /\ Len(s.rows) = size
    BY <1>7, <1>10
  <2>3. ShowsAfter(start, s.rows, order, readable)
    BY <1>2, <1>6, <1>7, <1>8, <2>2
  <2>4. left(start) = size
    BY <1>2, <1>6, <2>2
  <2>5. total > page * size
    BY <1>2, <2>2
  <2>6. ShowsAfter(start, P.shown, order, readable) /\ Len(P.shown) = left(start)
    BY <2>1, <2>2, <2>3, <2>4
  <2>7. P.next <=> total > page * size
    BY <2>1, <2>5
  <2> HIDE DEF left
  <2>8. PageOf(page, size, P, order, readable)
    BY <1>12, <2>1, <2>6, <2>7, Zenon
  <2> QED BY <1>7, <2>1, <2>8 DEF P
<1>11. CASE ~s.more
  <2>1. /\ s.count = total
        /\ Len(s.rows) = IF total <= start THEN 0 ELSE total - start
        /\ Len(s.last) = IF total < size THEN total ELSE size
        /\ Kept(total - Len(s.last), s.last, n, order, readable)
    BY <1>7, <1>11
  <2>2. total <= page * size
    BY <1>2, <1>6, <1>7, <2>1
  <2>3. pages \in Nat /\ pages > 0 /\ pages * size >= total /\ (total > 0 => (pages - 1) * size < total)
        /\ (total = 0 => pages = 1)
    <3>1. CASE total = 0
      <4>1. pages = 1
        BY <2>1, <3>1
      <4> QED BY <3>1, <4>1
    <3>2. CASE total # 0
      <4>1. total > 0 /\ pages = (total + size - 1) \div size
        BY <1>6, <2>1, <3>2
      <4> HIDE DEF pages
      <4>2. /\ (total + size - 1) \div size \in Nat /\ (total + size - 1) \div size > 0
            /\ ((total + size - 1) \div size) * size >= total
            /\ (((total + size - 1) \div size) - 1) * size < total
        BY <1>6, <4>1, PagesEnough
      <4> QED BY <4>1, <4>2
    <3> QED BY <3>1, <3>2
  <2> HIDE DEF pages
  <2>4. CASE page > pages
    <3>1. P.next = FALSE /\ P.page = pages /\ P.shown = s.last
      BY <1>4, <1>11, <2>4
    <3>2. Len(s.last) = left(0) /\ Len(s.last) \in Nat /\ Len(s.last) <= total
      BY <1>6, <2>1
    <3>3. ShowsAfter(total - Len(s.last), s.last, order, readable)
      BY <1>6, <1>7, <1>8, <2>1, <3>2
    <3>4. ~(total > page * size)
      BY <1>2, <1>6, <2>2
    <3>5. P.page < page /\ P.page * size >= total
      BY <2>3, <2>4, <3>1
    <3>6. ShowsAfter(total - left(0), P.shown, order, readable) /\ Len(P.shown) = left(0)
      BY <3>1, <3>2, <3>3
    <3>7. P.page # page
      BY <2>3, <2>4, <3>1
    <3>8. P.next <=> total > page * size
      BY <3>1, <3>4
    <3> HIDE DEF left
    <3>9. PageOf(page, size, P, order, readable)
      BY <1>12, <3>5, <3>6, <3>7, <3>8, Zenon
    <3> QED BY <1>7, <2>3, <3>1, <3>9 DEF P
  <2>5. CASE ~(page > pages)
    <3>1. P.next = (page < pages) /\ P.page = page /\ P.shown = s.rows
      BY <1>4, <1>11, <2>5
    <3>2. ~(page < pages)
      <4> SUFFICES ASSUME page < pages PROVE FALSE
        OBVIOUS
      <4>1. page * size <= (pages - 1) * size
        <5>1. page \in Nat /\ pages - 1 \in Nat /\ page <= pages - 1
          BY <2>3
        <5> QED BY <5>1, ProductsGrow
      <4>2. total > 0
        BY <1>6, <2>3
      <4> QED BY <1>2, <1>6, <2>2, <2>3, <4>1, <4>2
    <3>3. Len(s.rows) = left(start)
      BY <1>2, <1>6, <1>7, <2>1
    <3>4. ShowsAfter(start, s.rows, order, readable)
      <4>1. CASE total <= start
        <5>1. s.rows = <<>>
          BY <1>7, <2>1, <4>1
        <5>2. DOMAIN s.rows = {}
          BY <5>1
        <5> QED BY <5>2 DEF ShowsAfter
      <4>2. CASE ~(total <= start)
        <5>1. Len(s.rows) <= total - start
          BY <1>2, <1>6, <2>1, <4>2
        <5> QED BY <1>2, <1>7, <1>8, <5>1
      <4> QED BY <4>1, <4>2
    <3>5. ~(total > page * size)
      BY <1>2, <1>6, <2>2
    <3>6. ShowsAfter(start, P.shown, order, readable) /\ Len(P.shown) = left(start)
      BY <3>1, <3>3, <3>4
    <3>7. P.next <=> total > page * size
      BY <3>1, <3>2, <3>5
    <3> HIDE DEF left
    <3>8. PageOf(page, size, P, order, readable)
      BY <1>12, <3>1, <3>6, <3>7, Zenon
    <3> QED BY <1>7, <3>1, <3>8 DEF P
  <2> QED BY <2>3, <2>4, <2>5
<1> QED BY <1>7, <1>10, <1>11 DEF P

\* The readable rows up to a row by the value sorted by.
UpTo(sort, readable, id, table) == {i \in readable : i = id \/ Precedes(sort, i, id, table)}

\* Where no two readable rows agree in the column, a row's rank is that of its
\* value, in whatever order a query returns the others.
LEMMA UntiedRank ==
    ASSUME NEW ids, NEW n \in Nat, NEW order \in Bijection(1..n, ids), NEW readable \in SUBSET ids,
           NEW table, NEW sort, order \in Orders(sort, ids, table), Untied(sort.column, readable, table),
           \A i \in ids : SortValue(sort.column, i, table) \in Int,
           NEW k \in 1..n, order[k] \in readable
    PROVE  Rank(order, readable, k) = Cardinality(UpTo(sort, readable, order[k], table))
<1> DEFINE Upto == ReadableUpto(order, readable, k)
           Ahead == {id \in readable : id = order[k] \/ Precedes(sort, id, order[k], table)}
<1>1. order \in [1..n -> ids] /\ (\A i, j \in 1..n : order[i] = order[j] => i = j)
      /\ (\A id \in ids : \E j \in 1..n : order[j] = id)
    BY DEF Bijection, Injection, Surjection, IsInjective
<1>0. \A i, j \in 1..n : i < j => ~Precedes(sort, order[j], order[i], table)
  <2>1. DOMAIN order = 1..n
    BY <1>1
  <2> QED BY <2>1 DEF Orders
<1>2. Cardinality(Upto) = Rank(order, readable, k)
  <2>1. k \in 0..n
    OBVIOUS
  <2>2. IsFiniteSet(Upto) /\ Cardinality(Upto) = Rank(order, readable, k)
    BY <2>1, RankImage
  <2> QED BY <2>2
<1>3. ASSUME NEW id \in Upto PROVE id \in Ahead
  <2>1. PICK j \in 1..k : order[j] \in readable /\ id = order[j]
    BY <1>3 DEF ReadableUpto
  <2>2. CASE j = k
    BY <2>1, <2>2
  <2>3. CASE j # k
    <3>1. j < k /\ j \in 1..n
      BY <2>3
    <3>2. ~Precedes(sort, order[k], order[j], table) /\ order[j] # order[k]
      BY <1>0, <1>1, <2>3, <3>1
    <3>3. SortValue(sort.column, order[j], table) # SortValue(sort.column, order[k], table)
      BY <2>1, <3>2 DEF Untied
    <3>4. SortValue(sort.column, order[j], table) \in Int /\ SortValue(sort.column, order[k], table) \in Int
      BY <1>1, <3>1
    <3>5. Precedes(sort, order[j], order[k], table)
      BY <3>2, <3>3, <3>4 DEF Precedes
    <3> QED BY <2>1, <3>5
  <2> QED BY <2>2, <2>3
<1>4. ASSUME NEW id \in Ahead PROVE id \in Upto
  <2>1. PICK j \in 1..n : order[j] = id
    BY <1>1
  <2>2. j <= k
    <3> SUFFICES ASSUME k < j PROVE FALSE
      OBVIOUS
    <3>1. ~Precedes(sort, order[j], order[k], table) /\ order[j] # order[k]
      BY <1>0, <1>1
    <3> QED BY <1>4, <2>1, <3>1
  <2>3. j \in 1..k /\ order[j] \in readable
    BY <1>4, <2>1, <2>2
  <2> QED BY <2>1, <2>3 DEF ReadableUpto
<1>5. Upto = Ahead
    BY <1>3, <1>4
<1> QED BY <1>2, <1>5 DEF UpTo

\* Division rounds down.
LEMMA Quotient ==
    ASSUME NEW x \in Nat, NEW size \in Nat \ {0}
    PROVE  x \div size \in Nat /\ size * (x \div size) <= x /\ x < size * (x \div size) + size
<1> DEFINE d == x \div size
<1>1. d \in Int /\ size * d <= x /\ x < size * d + size
    OBVIOUS
<1> HIDE DEF d
<1>2. d >= 0
  <2> SUFFICES ASSUME d < 0 PROVE FALSE
    BY <1>1
  <2>1. d + 1 <= 0 /\ size * (d + 1) = size * d + size
    BY <1>1
  <2>2. 0 - (d + 1) \in Nat /\ size * (0 - (d + 1)) >= 0 /\ size * (0 - (d + 1)) = 0 - size * (d + 1)
    BY <1>1, <2>1
  <2> QED BY <1>1, <2>1, <2>2
<1> QED BY <1>1, <1>2 DEF d

\* A row of rank r is on page (r - 1) \div size + 1 and on no other.
LEMMA OnOnePage ==
    ASSUME NEW ids, NEW n \in Nat, NEW order \in Bijection(1..n, ids), NEW readable \in SUBSET ids,
           NEW size \in Nat \ {0}, NEW q \in Nat \ {0}, NEW P, P.page \in Nat, P.shown \in Seq(ids),
           PageOf(q, size, P, order, readable), NEW k \in 1..n, order[k] \in readable
    PROVE  (P.page = q /\ order[k] \in ToSet(P.shown))
               <=> q = (Rank(order, readable, k) - 1) \div size + 1
<1> DEFINE R(i) == Rank(order, readable, i)
           total == Cardinality(readable)
           p == (R(k) - 1) \div size + 1
           before == (q - 1) * size
           shown == P.shown
<1>1. order \in [1..n -> ids] /\ (\A i, j \in 1..n : order[i] = order[j] => i = j) /\ DOMAIN order = 1..n
    BY DEF Bijection, Injection, IsInjective
<1>2. total \in Nat /\ R(n) = total
    BY RankOfAll, FS_CardinalityType
<1>3. R(k) \in Nat /\ R(k) >= 1 /\ R(k) <= total
  <2>1. PICK x \in Nat : k = x + 1
    <3>1. k - 1 \in Nat /\ k = (k - 1) + 1
      OBVIOUS
    <3> QED BY <3>1
  <2>2. R(k) = R(x) + 1 /\ R(x) \in Nat
    BY <2>1, RankStep
  <2>3. R(k) <= R(n)
    BY Ranks
  <2> QED BY <1>2, <2>2, <2>3
<1>4. p \in Nat /\ p >= 1 /\ (p - 1) * size <= R(k) - 1 /\ R(k) - 1 < p * size
  <2> HIDE DEF R
  <2> DEFINE d == (R(k) - 1) \div size
  <2>1. d \in Nat /\ size * d <= R(k) - 1 /\ R(k) - 1 < size * d + size
    <3>1. R(k) - 1 \in Nat
      BY <1>3
    <3> QED BY <3>1, Quotient
  <2>2. p = d + 1
    OBVIOUS
  <2> HIDE DEF d, p
  <2>4. (p - 1) * size = size * d /\ p * size = size * d + size
    BY <2>1, <2>2
  <2> QED BY <1>3, <2>1, <2>2, <2>4
<1>5. before \in Nat /\ q * size = before + size /\ before + size \in Nat
  <2>1. q - 1 \in Nat /\ size \in Nat /\ q \in Nat
    OBVIOUS
  <2>2. ((q - 1) + 1) * size = (q - 1) * size + size
    BY <2>1
  <2>3. (q - 1) + 1 = q
    OBVIOUS
  <2> QED BY <2>1, <2>2, <2>3
<1>6. /\ P.page = q =>
           /\ ShowsAfter(before, shown, order, readable)
           /\ Len(shown) = IF total <= before THEN 0 ELSE IF total - before < size THEN total - before ELSE size
      /\ P.page # q => P.page < q /\ P.page * size >= total
    BY DEF PageOf
<1>7. DOMAIN shown = 1..Len(shown) /\ Len(shown) \in Nat
    OBVIOUS
<1> HIDE DEF p, before, shown, total
<1>8. ASSUME q = p PROVE P.page = q /\ order[k] \in ToSet(shown)
  <2>1. P.page = q
    <3> SUFFICES ASSUME P.page # q PROVE FALSE
      OBVIOUS
    <3>1. P.page < q /\ P.page * size >= total
      BY <1>6
    <3>2. P.page <= p - 1 /\ p - 1 \in Nat
      BY <1>4, <1>8, <3>1
    <3>3. P.page * size <= (p - 1) * size
      BY <3>2, ProductsGrow
    <3>4. P.page * size \in Nat /\ (p - 1) * size \in Nat
      BY <3>2
    <3> QED BY <1>2, <1>3, <1>4, <3>1, <3>3, <3>4
  <2>2. before <= R(k) - 1 /\ R(k) - 1 < before + size
    BY <1>4, <1>5, <1>8 DEF before
  <2>3. R(k) - before \in DOMAIN shown
    <3> HIDE DEF R
    <3>1. Len(shown) = IF total - before < size THEN total - before ELSE size
      BY <1>2, <1>3, <1>5, <1>6, <2>1, <2>2
    <3>2. R(k) - before >= 1 /\ R(k) - before <= size /\ R(k) - before <= total - before
      BY <1>2, <1>3, <1>5, <2>2
    <3>3. R(k) - before \in 1..Len(shown)
      BY <1>2, <1>3, <1>5, <3>1, <3>2
    <3> QED BY <1>7, <3>3
  <2>4. shown[R(k) - before] = order[k]
    BY <1>1, <1>6, <2>1, <2>3 DEF ShowsAfter
  <2> QED BY <2>1, <2>3, <2>4 DEF ToSet
<1>9. ASSUME P.page = q, order[k] \in ToSet(shown) PROVE q = p
  <2>1. PICK m \in DOMAIN shown : shown[m] = order[k]
    BY <1>9 DEF ToSet
  <2>13. ShowsAfter(before, shown, order, readable)
    BY <1>6, <1>9
  <2>14. m \in Nat /\ m >= 1 /\ m <= Len(shown)
    BY <1>7, <2>1
  <2>2. ShowsAfter(before, shown, order, readable) /\ m \in Nat /\ m >= 1 /\ m <= Len(shown)
    BY <2>13, <2>14
  <2>3. m <= total - before /\ m <= size
    BY <1>2, <1>5, <1>6, <1>9, <2>2
  <2>4. before + m \in 1..R(n)
    BY <1>2, <1>5, <2>2, <2>3
  <2>5. PICK j \in 1..n : order[j] \in readable /\ R(j) = before + m
    BY <2>4, Ranks
  <2>6. R(j) - before = m
    BY <1>5, <2>2, <2>5
  <2>7. shown[m] = order[j]
    <3>1. R(j) - before \in DOMAIN shown
      BY <2>1, <2>6
    <3>2. shown[R(j) - before] = order[j]
      BY <1>1, <2>2, <2>5, <3>1 DEF ShowsAfter
    <3> QED BY <2>6, <3>2
  <2>8. R(k) = before + m
    BY <1>1, <2>1, <2>5, <2>7
  <2> HIDE DEF R
  <2>9. before <= R(k) - 1 /\ R(k) - 1 < q * size
    BY <1>5, <2>2, <2>3, <2>8
  <2>10. p * size \in Nat /\ q * size \in Nat /\ (p - 1) * size \in Nat
    BY <1>4
  <2>11. ~(q < p)
    <3> SUFFICES ASSUME q < p PROVE FALSE
      OBVIOUS
    <3>1. q \in Nat /\ p - 1 \in Nat /\ q <= p - 1
      BY <1>4
    <3>2. q * size <= (p - 1) * size
      BY <3>1, ProductsGrow
    <3> DEFINE y == q * size
               z == (p - 1) * size
    <3>3. y <= z /\ z <= R(k) - 1 /\ R(k) - 1 < y /\ y \in Nat /\ z \in Nat
      BY <1>4, <2>9, <2>10, <3>2
    <3> HIDE DEF y, z
    <3> QED BY <1>3, <3>3
  <2>12. ~(p < q)
    <3> SUFFICES ASSUME p < q PROVE FALSE
      OBVIOUS
    <3>1. p \in Nat /\ q - 1 \in Nat /\ p <= q - 1
      BY <1>4
    <3>2. p * size <= before
      BY <3>1, ProductsGrow DEF before
    <3> QED BY <1>3, <1>4, <1>5, <2>9, <2>10, <3>2
  <2> QED BY <1>4, <2>11, <2>12
<1>10. (P.page = q /\ order[k] \in ToSet(shown)) <=> q = p
    BY <1>8, <1>9
<1> QED BY <1>10 DEF p, shown

\* What a column sorts by is a number.
LEMMA SortNumber ==
    ASSUME NEW table \in [Ids -> Rows], NEW column \in SortColumns, NEW id \in Ids
    PROVE  SortValue(column, id, table) \in Int
<1>1. CASE column = "_created_at"
    BY <1>1, RulesAssumption DEF SortValue
<1>2. CASE column # "_created_at"
  <2>1. column \in Fields /\ table[id].record \in Records
    BY <1>2 DEF SortColumns, Rows
  <2>2. table[id].record[column] \in Blankable
    BY <2>1 DEF Records
  <2> QED BY <1>2, <2>2, RulesAssumption DEF SortValue, Blankable
<1> QED BY <1>1, <1>2

\* All pages of a table under one sorting.
LEMMA TablePages ==
    ASSUME NEW table \in [Ids -> Rows], NEW ids \in SUBSET Ids, NEW readable \in SUBSET ids, NEW e,
           \A id \in ids : id \in readable <=> AllowsRecord(e, "R", table[id].record),
           NEW column \in SortColumns, NEW desc \in BOOLEAN, NEW size \in PageSizes
    PROVE  Covers(e, [column |-> column, desc |-> desc], size, ids, readable, table)
<1> DEFINE pages == 1..Cardinality(Ids) + 1
           sort == [column |-> column, desc |-> desc]
           orders == Orders(sort, ids, table)
           P == [page \in pages |-> [order \in orders |-> SecureListPage(e, page, size, order, table)]]
           n == Cardinality(ids)
           total == Cardinality(readable)
<1>1. size \in Nat \ {0} /\ IsFiniteSet(Ids)
    BY RulesAssumption
<1>2. /\ n \in Nat /\ total \in Nat /\ Cardinality(Ids) \in Nat /\ total <= Cardinality(Ids)
  <2>1. readable \subseteq Ids /\ IsFiniteSet(ids)
    BY <1>1, FS_Subset
  <2> QED BY <1>1, <2>1, FS_Subset, FS_CardinalityType
<1>3. ASSUME NEW order \in orders
      PROVE  order \in Bijection(1..n, ids) /\ \A i, j \in 1..n : i < j => ~Precedes(sort, order[j], order[i], table)
  <2>1. order \in Bijection(1..n, ids) /\ \A i, j \in DOMAIN order : i < j => ~Precedes(sort, order[j], order[i], table)
    BY DEF Orders
  <2>2. DOMAIN order = 1..n
    BY <2>1 DEF Bijection, Injection
  <2> QED BY <2>1, <2>2
<1>4. ASSUME NEW page \in pages, NEW order \in orders
      PROVE  /\ P[page][order] = SecureListPage(e, page, size, order, table)
             /\ PageOf(page, size, P[page][order], order, readable)
             /\ P[page][order].page \in Nat /\ P[page][order].shown \in Seq(ids)
  <2>1. page \in Nat \ {0}
    BY <1>2
  <2>2. P[page][order] = SecureListPage(e, page, size, order, table)
    <3> HIDE DEF pages, orders
    <3> QED OBVIOUS
  <2>3. order \in Bijection(1..n, ids)
    BY <1>3
  <2> HIDE DEF P, n, orders
  <2>4. /\ PageOf(page, size, SecureListPage(e, page, size, order, table), order, readable)
        /\ SecureListPage(e, page, size, order, table).page \in Nat
        /\ SecureListPage(e, page, size, order, table).shown \in Seq(ids)
    BY <1>1, <1>2, <2>1, <2>3, PageRight
  <2> QED BY <2>2, <2>4
<1>5. ASSUME Untied(column, readable, table), NEW id \in readable
      PROVE  \E page \in pages : \A q \in pages, order \in orders : OnPage(id, q, P[q][order]) <=> q = page
  <2> DEFINE r == Cardinality(UpTo(sort, readable, id, table))
             p == (r - 1) \div size + 1
  <2>1. ASSUME NEW order \in orders
        PROVE  \E k \in 1..n : order[k] = id /\ Rank(order, readable, k) = r
    <3>1. order \in Bijection(1..n, ids) /\ \A i, j \in 1..n : i < j => ~Precedes(sort, order[j], order[i], table)
      BY <1>3
    <3>2. PICK k \in 1..n : order[k] = id
      BY <3>1 DEF Bijection, Surjection
    <3>3. \A i \in ids : SortValue(sort.column, i, table) \in Int
      BY SortNumber
    <3>4. Untied(sort.column, readable, table) /\ order \in Orders(sort, ids, table)
      BY <1>5
    <3> HIDE DEF sort, n, orders
    <3>6. order[k] \in readable
      BY <3>2
    <3>5. Rank(order, readable, k) = Cardinality(UpTo(sort, readable, order[k], table))
      BY <1>2, <3>1, <3>3, <3>4, <3>6, UntiedRank
    <3> QED BY <3>2, <3>5
  <2>2. r \in Nat /\ r >= 1 /\ r <= total
    <3> DEFINE S == UpTo(sort, readable, id, table)
    <3>1. IsFiniteSet(readable) /\ S \subseteq readable /\ id \in S
      BY <1>1, FS_Subset DEF UpTo
    <3> HIDE DEF S
    <3>2. IsFiniteSet(S) /\ Cardinality(S) \in Nat /\ Cardinality(S) <= total /\ Cardinality(S) # 0
      BY <3>1, FS_Subset, FS_CardinalityType, FS_EmptySet
    <3> QED BY <3>2 DEF S
  <2> HIDE DEF r
  <2>3. p \in pages
    <3> DEFINE d == (r - 1) \div size
    <3>1. d \in Nat /\ size * d <= r - 1 /\ r - 1 < size * d + size
      <4>1. r - 1 \in Nat
        BY <2>2
      <4> QED BY <1>1, <4>1, Quotient
    <3> HIDE DEF d
    <3>3. d <= size * d
      <4>1. 1 * d <= size * d
        <5>1. 1 \in Nat /\ size \in Nat /\ d \in Nat /\ 1 <= size
          BY <1>1, <3>1
        <5> QED BY <5>1, ProductsGrow
      <4> QED BY <3>1, <4>1
    <3>4. d + 1 >= 1 /\ d + 1 <= total /\ d + 1 \in Int
      BY <1>1, <1>2, <2>2, <3>1, <3>3
    <3>5. d + 1 \in pages
      BY <1>2, <3>4
    <3> QED BY <3>5 DEF d
  <2>4. ASSUME NEW q \in pages, NEW order \in orders PROVE OnPage(id, q, P[q][order]) <=> q = p
    <3>1. PICK k \in 1..n : order[k] = id /\ Rank(order, readable, k) = r
      BY <2>1
    <3>2. /\ PageOf(q, size, P[q][order], order, readable)
          /\ P[q][order].page \in Nat /\ P[q][order].shown \in Seq(ids)
      BY <1>4
    <3>3. q \in Nat \ {0} /\ order \in Bijection(1..n, ids)
      BY <1>2, <1>3
    <3> HIDE DEF P, n, orders, pages, total
    <3>4. (P[q][order].page = q /\ order[k] \in ToSet(P[q][order].shown))
              <=> q = (Rank(order, readable, k) - 1) \div size + 1
      BY <1>1, <1>2, <1>5, <3>1, <3>2, <3>3, OnOnePage
    <3> QED BY <3>1, <3>4 DEF OnPage
  <2> HIDE DEF p, P, orders, pages
  <2> QED BY <2>3, <2>4
<1> HIDE DEF P, orders, pages, sort
<1>6. \A page \in pages, order \in orders : PageOf(page, size, P[page][order], order, readable)
    BY <1>4
<1>7. Untied(column, readable, table) =>
          \A id \in readable : \E page \in pages :
              \A q \in pages, order \in orders : OnPage(id, q, P[q][order]) <=> q = page
    BY <1>5
<1>8. sort.column = column
    BY DEF sort
<1>9. Covers(e, sort, size, ids, readable, table)
    BY <1>6, <1>7, <1>8 DEF Covers, P, orders, pages
<1> QED BY <1>9 DEF sort

\* Every page of a table shows its share of the readable rows in the order of
\* its query and says rightly whether more follow; where no two of them agree
\* in the column sorted by, each is on exactly one page (loadSecureListPage).
THEOREM PagesShowEveryRow == Spec => []PagesCoverRows
<1>1. Init => RulesInv
    BY RulesInit
<1>2. RulesInv /\ [Next]_vars => RulesInv'
    BY RulesStep
<1>3. RulesInv => PagesCoverRows
  <2> SUFFICES ASSUME RulesInv PROVE PagesCoverRows
    OBVIOUS
  <2> DEFINE e == Evaluator(roles, security)
             ids == {id \in Ids : ~rows[id].deleted}
             readable == {id \in ids : AllowsRecord(e, "R", rows[id].record)}
  <2>1. rows \in [Ids -> Rows]
    BY DEF RulesInv, RulesTypes
  <2>2. ids \in SUBSET Ids /\ readable \in SUBSET ids
    OBVIOUS
  <2>3. \A id \in ids : id \in readable <=> AllowsRecord(e, "R", rows[id].record)
    OBVIOUS
  <2> HIDE DEF e, ids, readable
  <2>4. \A column \in SortColumns, desc \in BOOLEAN, size \in PageSizes :
          Covers(e, [column |-> column, desc |-> desc], size, ids, readable, rows)
    BY <2>1, <2>2, <2>3, TablePages
  <2> QED BY <2>4 DEF PagesCoverRows, e, ids, readable
<1> QED BY <1>1, <1>2, <1>3, PTL DEF Spec

-----------------------------------------------------------------------------
(* Calls of ingest_event                                                   *)

Stages == {"new", "find", "make", "record", "update", "evaluate", "write", "commit", "done"}
TxFields == {"event", "stage", "new", "read", "saved", "todo", "opens", "closes"}
RowHeld == {"evaluate", "write", "commit"}

IngestTypes ==
    /\ stage \in [Deliveries -> Stages]
    /\ DOMAIN tx = Deliveries /\ DOMAIN answer = Deliveries /\ DOMAIN during = Deliveries
    /\ DOMAIN observable = Targets /\ log \subseteq Deliveries
    /\ \A d \in Deliveries : DOMAIN tx[d] = TxFields

\* What a call is about, and what it may insert.
CallKnown(d) ==
    /\ stage[d] # "new" => Ingest!Of(d) \in Targets
    /\ stage[d] = "new" => tx[d].new = {}
    /\ stage[d] # "new" => tx[d].new \subseteq {EntityOf[Ingest!Of(d)], DefinitionOf[Ingest!Of(d)], Ingest!Of(d)}
    /\ stage[d] \in {"new", "find", "make"} =>
         tx[d].stage \in {1, 2, 3} /\ tx[d].read = Ingest!Fresh /\ tx[d].new \cap Targets = {}
    /\ d \in log => stage[d] = "done"
    /\ during[d] \subseteq log

\* Until another call for its observable commits, a call has read the row
\* that its save finds, and saves what its event says.
CallReads(d) ==
    /\ tx[d].read.last # d
    /\ stage[d] \in {"record", "update"} => Ingest!Overlapped(d) \/ tx[d].read = Ingest!CurrentRow(d)
    /\ stage[d] \in RowHeld =>
         /\ tx[d].saved.last = d
         /\ \/ Ingest!Overlapped(d)
            \/ tx[d].saved.state = tx[d].event.state /\ tx[d].saved.severity = tx[d].event.severity

\* A row's last call is one that has committed, and shows in it.
LastShown ==
    \A t \in Targets : \A d \in Deliveries :
        observable[t].last = d => d \in log /\ (Ingest!Overlapped(d) \/ Ingest!ShowsLastEvent(t, d))

RollInv == IngestTypes /\ (\A d \in Deliveries : CallKnown(d) /\ CallReads(d)) /\ LastShown

\* One call goes on with its own work; nothing is committed.
Moves(d) ==
    /\ d \in Deliveries /\ stage[d] # "done"
    /\ stage' \in [Deliveries -> Stages] /\ \A e \in Deliveries \ {d} : stage'[e] = stage[e]
    /\ DOMAIN tx' = Deliveries /\ \A e \in Deliveries \ {d} : tx'[e] = tx[e]
    /\ DOMAIN tx'[d] = TxFields /\ DOMAIN answer' = Deliveries
    /\ UNCHANGED <<exists, observable, log, links, during>>
    /\ stage[d] # "new" => tx'[d].event = tx[d].event

\* A call that has read nothing yet has every field, and nothing in it.
LEMMA EmptyFields ==
    /\ DOMAIN Ingest!Empty = TxFields
    /\ Ingest!Empty.new = {} /\ Ingest!Empty.stage = 1 /\ Ingest!Empty.read = Ingest!Fresh
    /\ Ingest!Fresh.last = Absent
    /\ Ingest!Columns = {"state", "severity", "flaps", "last"}
BY DEF Ingest!Empty, TxFields, Ingest!Fresh, Ingest!Columns

\* A step of one call that leaves the tables alone moves that call.
LEMMA StepMoves ==
    ASSUME IngestTypes, NEW d \in Deliveries, NEW next \in Stages, NEW with, DOMAIN with = TxFields,
           stage[d] # "done", Ingest!Step(d, next, with),
           DOMAIN answer' = Deliveries, UNCHANGED <<exists, observable, log, links, during>>,
           stage[d] # "new" => with.event = tx[d].event
    PROVE  Moves(d) /\ stage'[d] = next /\ tx'[d] = with
<1>1. /\ stage' = [stage EXCEPT ![d] = next] /\ tx' = [tx EXCEPT ![d] = with]
    BY DEF Ingest!Step
<1>2. stage' \in [Deliveries -> Stages] /\ stage'[d] = next /\ \A e \in Deliveries \ {d} : stage'[e] = stage[e]
    BY <1>1 DEF IngestTypes
<1>3. DOMAIN tx' = Deliveries /\ tx'[d] = with /\ \A e \in Deliveries \ {d} : tx'[e] = tx[e]
    BY <1>1 DEF IngestTypes
<1> QED BY <1>2, <1>3 DEF Moves

\* A call that fails leaves nothing but its event.
LEMMA FailMoves ==
    ASSUME IngestTypes, NEW d \in Deliveries, NEW why, stage[d] \notin {"new", "done"}, Ingest!Fail(d, why)
    PROVE  /\ Moves(d) /\ stage'[d] = "done"
           /\ tx'[d].event = tx[d].event /\ tx'[d].new = {} /\ tx'[d].read = Ingest!Fresh
<1> DEFINE with == [Ingest!Empty EXCEPT !.event = tx[d].event]
<1>1. /\ Ingest!Step(d, "done", with) /\ answer' = [answer EXCEPT ![d] = why]
      /\ UNCHANGED <<exists, observable, log, links, during>>
    BY DEF Ingest!Fail, Ingest!End, Ingest!Database
<1>2. /\ DOMAIN with = TxFields /\ with.event = tx[d].event /\ with.new = {} /\ with.read = Ingest!Fresh
    BY EmptyFields DEF TxFields
<1>3. DOMAIN answer' = Deliveries /\ "done" \in Stages
    BY <1>1 DEF IngestTypes, Stages
<1> HIDE DEF with
<1>4. Moves(d) /\ stage'[d] = "done" /\ tx'[d] = with
    BY <1>1, <1>2, <1>3, StepMoves
<1> QED BY <1>2, <1>4

\* An event stays with its call.
LEMMA EventsStay ==
    ASSUME RollInv, NEW d, Moves(d)
    PROVE  /\ \A e \in Deliveries : stage[e] # "new" => tx'[e].event = tx[e].event /\ Ingest!Of(e)' = Ingest!Of(e)
           /\ \A e \in Deliveries : e # d \/ stage[d] # "new" => (Ingest!Overlapped(e)' <=> Ingest!Overlapped(e))
<1>1. \A e \in Deliveries : stage[e] # "new" => tx'[e].event = tx[e].event
    BY DEF Moves
<1>2. \A e \in Deliveries : stage[e] # "new" => Ingest!Of(e)' = Ingest!Of(e)
    BY <1>1 DEF Ingest!Of
<1>3. \A e \in Deliveries : \A x \in during[e] : x \in Deliveries /\ stage[x] # "new"
    BY DEF RollInv, CallKnown, IngestTypes
<1>4. during' = during
    BY DEF Moves
<1>5. \A e \in Deliveries : e # d \/ stage[d] # "new" => Ingest!Of(e)' = Ingest!Of(e)
    BY <1>1 DEF Moves, Ingest!Of
<1> QED BY <1>1, <1>2, <1>3, <1>4, <1>5 DEF Ingest!Overlapped

\* Moving one call disturbs neither the rows nor another call.
LEMMA MovesKeepOthers ==
    ASSUME RollInv, NEW d, Moves(d)
    PROVE  /\ IngestTypes' /\ LastShown'
           /\ \A e \in Deliveries \ {d} : CallKnown(e)' /\ CallReads(e)'
<1>1. IngestTypes'
    BY DEF RollInv, IngestTypes, Moves
<1>2. LastShown'
  <2> SUFFICES ASSUME NEW t \in Targets, NEW e \in Deliveries, observable'[t].last = e
               PROVE  e \in log' /\ (Ingest!Overlapped(e)' \/ Ingest!ShowsLastEvent(t, e)')
    BY DEF LastShown
  <2>1. observable' = observable /\ log' = log
    BY DEF Moves
  <2>2. e \in log /\ (Ingest!Overlapped(e) \/ Ingest!ShowsLastEvent(t, e))
    BY <2>1 DEF RollInv, LastShown
  <2>3. stage[e] = "done" /\ e # d
    BY <2>2 DEF RollInv, CallKnown, Moves
  <2>4. tx'[e] = tx[e]
    BY <2>3 DEF Moves
  <2> QED BY <2>1, <2>2, <2>3, <2>4, EventsStay DEF Ingest!ShowsLastEvent
<1>3. ASSUME NEW e \in Deliveries \ {d} PROVE CallKnown(e)' /\ CallReads(e)'
  <2>1. tx'[e] = tx[e] /\ stage'[e] = stage[e] /\ UNCHANGED <<observable, log, during>>
    BY DEF Moves
  <2>2. Ingest!Of(e)' = Ingest!Of(e) /\ (Ingest!Overlapped(e)' <=> Ingest!Overlapped(e))
    BY <2>1, EventsStay DEF Ingest!Of
  <2>3. Ingest!CurrentRow(e)' = Ingest!CurrentRow(e)
    BY <2>1, <2>2 DEF Ingest!CurrentRow
  <2>4. CallKnown(e) /\ CallReads(e)
    BY DEF RollInv
  <2>5. CallKnown(e)'
    BY <2>1, <2>2, <2>4 DEF CallKnown
  <2>6. CallReads(e)'
    BY <2>1, <2>2, <2>3, <2>4 DEF CallReads
  <2> QED BY <2>5, <2>6
<1> QED BY <1>1, <1>2, <1>3

\* A failed call promises nothing.
LEMMA FailKeeps ==
    ASSUME RollInv, NEW d \in Deliveries, NEW why, stage[d] \notin {"new", "done"}, Ingest!Fail(d, why)
    PROVE  RollInv' /\ Moves(d) /\ stage'[d] \notin RowHeld
<1>1. /\ Moves(d) /\ stage'[d] = "done"
      /\ tx'[d].event = tx[d].event /\ tx'[d].new = {} /\ tx'[d].read = Ingest!Fresh
    BY FailMoves DEF RollInv
<1>2. CallKnown(d) /\ Ingest!Of(d)' = Ingest!Of(d) /\ UNCHANGED <<log, during>>
    BY <1>1, EventsStay DEF RollInv, Moves
<1>3. CallKnown(d)'
    BY <1>1, <1>2 DEF CallKnown
<1>4. CallReads(d)'
    BY <1>1, EmptyFields, IngestAssumption DEF CallReads, RowHeld
<1> QED BY <1>1, <1>3, <1>4, MovesKeepOthers DEF RollInv, RowHeld

\* Receiving an event keeps RollInv.
LEMMA ReceiveKeeps ==
    ASSUME RollInv, NEW d \in Deliveries, Ingest!Receive(d)
    PROVE  RollInv' /\ Moves(d) /\ stage'[d] \notin RowHeld
<1>1. PICK p \in Payloads : Ingest!Step(d, "find", [Ingest!Empty EXCEPT !.event = Ingest!Event(p)])
    BY DEF Ingest!Receive
<1> DEFINE with == [Ingest!Empty EXCEPT !.event = Ingest!Event(p)]
<1>2. DOMAIN with = TxFields /\ with.event = Ingest!Event(p) /\ with.new = {} /\ with.stage = 1 /\ with.read = Ingest!Fresh
    BY EmptyFields DEF TxFields
<1>3. stage[d] = "new" /\ UNCHANGED <<exists, removed, observable, log, links, touched, answer, during>>
    BY DEF Ingest!Receive, Ingest!Database
<1>4. Moves(d) /\ stage'[d] = "find" /\ tx'[d] = with
  <2> HIDE DEF with
  <2>1. DOMAIN answer' = Deliveries /\ "find" \in Stages
    BY <1>3 DEF RollInv, IngestTypes, Stages
  <2> QED BY <1>1, <1>2, <1>3, <2>1, StepMoves DEF RollInv, with
<1> HIDE DEF with
<1>5. Ingest!Of(d)' = Canonical[Canonical[p.node]]
  <2>1. Ingest!Github(p).node = p.node
    BY DEF Ingest!Github
  <2>2. Ingest!Event(p).node = Canonical[p.node]
    BY <2>1 DEF Ingest!Event, Ingest!Normalized, Ingest!LowerCase
  <2> QED BY <1>2, <1>4, <2>2 DEF Ingest!Of, Ingest!Target
<1>6. Ingest!Of(d)' \in Targets
    BY <1>5, IngestAssumption
<1>7. CallKnown(d)'
    BY <1>2, <1>3, <1>4, <1>6 DEF CallKnown, RollInv
<1>8. CallReads(d)'
    BY <1>2, <1>4, EmptyFields, IngestAssumption DEF CallReads, RowHeld
<1> QED BY <1>4, <1>7, <1>8, MovesKeepOthers DEF RollInv, RowHeld

\* The record of a stage is there: the next stage, or the event's own row.
LEMMA ProceedMoves ==
    ASSUME RollInv, NEW d \in Deliveries, NEW r, Ingest!Proceed(d, r), stage[d] \in {"find", "make"},
           DOMAIN r = TxFields, r.event = tx[d].event, r.stage = tx[d].stage,
           answer' = answer, UNCHANGED <<exists, observable, log, links, during>>
    PROVE  /\ Moves(d)
           /\ tx'[d].event = r.event /\ tx'[d].new = r.new /\ tx'[d].read = r.read
           /\ \/ tx[d].stage = 3 /\ stage'[d] = "record"
              \/ tx[d].stage # 3 /\ stage'[d] = "find" /\ tx'[d].stage \in {1, 2, 3}
<1>1. tx[d].stage \in {1, 2, 3}
    BY DEF RollInv, CallKnown
<1>2. DOMAIN answer' = Deliveries /\ {"record", "find"} \subseteq Stages
    BY DEF RollInv, IngestTypes, Stages
<1>3. CASE tx[d].stage = 3
  <2>1. Ingest!Step(d, "record", r)
    BY <1>3 DEF Ingest!Proceed
  <2>2. Moves(d) /\ stage'[d] = "record" /\ tx'[d] = r
    BY <1>2, <2>1, StepMoves DEF RollInv
  <2> QED BY <1>3, <2>2
<1>4. CASE tx[d].stage # 3
  <2> DEFINE with == [r EXCEPT !.stage = @ + 1]
  <2>1. Ingest!Step(d, "find", with)
    BY <1>4 DEF Ingest!Proceed
  <2>2. /\ DOMAIN with = TxFields /\ with.event = r.event /\ with.new = r.new /\ with.read = r.read
        /\ with.stage = r.stage + 1
    BY DEF TxFields
  <2> HIDE DEF with
  <2>3. Moves(d) /\ stage'[d] = "find" /\ tx'[d] = with
    BY <1>2, <2>1, <2>2, StepMoves DEF RollInv
  <2> QED BY <1>1, <1>4, <2>2, <2>3
<1> QED BY <1>3, <1>4

\* The rows a call looks for: only the last is its observable's.
LEMMA KeyIs ==
    ASSUME RollInv, NEW d \in Deliveries, stage[d] \in {"find", "make"}
    PROVE  /\ Ingest!Of(d) \in Targets
           /\ Ingest!Key(d) \in {EntityOf[Ingest!Of(d)], DefinitionOf[Ingest!Of(d)], Ingest!Of(d)}
           /\ tx[d].stage = 3 => Ingest!Key(d) = Ingest!Of(d)
           /\ tx[d].stage # 3 => Ingest!Key(d) \notin Targets
<1>1. tx[d].stage \in {1, 2, 3} /\ Ingest!Of(d) \in Targets
    BY DEF RollInv, CallKnown
<1>2. Ingest!Key(d) = <<EntityOf[Ingest!Of(d)], DefinitionOf[Ingest!Of(d)], Ingest!Of(d)>>[tx[d].stage]
    BY DEF Ingest!Key, Ingest!Keys, Ingest!Of
<1>3. Ingest!Key(d) = IF tx[d].stage = 1 THEN EntityOf[Ingest!Of(d)]
                      ELSE IF tx[d].stage = 2 THEN DefinitionOf[Ingest!Of(d)] ELSE Ingest!Of(d)
    BY <1>1, <1>2
<1> QED BY <1>1, <1>3, IngestAssumption

\* Looking up the rows of an event keeps RollInv.
LEMMA FindKeeps ==
    ASSUME RollInv, NEW d \in Deliveries, Ingest!Find(d)
    PROVE  RollInv' /\ Moves(d) /\ stage'[d] \notin RowHeld
<1>1. stage[d] = "find" /\ UNCHANGED <<exists, removed, observable, log, links, touched, answer, during>>
    BY DEF Ingest!Find, Ingest!Database
<1>2. CallKnown(d) /\ Ingest!Of(d) \in Targets /\ DOMAIN tx[d] = TxFields /\ tx[d].read = Ingest!Fresh
    BY <1>1 DEF RollInv, CallKnown, IngestTypes
<1>3. observable[Ingest!Of(d)].last # d
    BY <1>1, <1>2 DEF RollInv, LastShown, CallKnown
<1>4. Ingest!Fresh.last # d
    BY EmptyFields, IngestAssumption
<1>5. CASE Ingest!Step(d, "make", tx[d])
  <2>1. DOMAIN answer' = Deliveries /\ "make" \in Stages
    BY <1>1 DEF RollInv, IngestTypes, Stages
  <2>2. Moves(d) /\ stage'[d] = "make" /\ tx'[d] = tx[d]
    BY <1>1, <1>2, <1>5, <2>1, StepMoves DEF RollInv
  <2>3. Ingest!Of(d)' = Ingest!Of(d)
    BY <1>1, <2>2, EventsStay
  <2>4. CallKnown(d)'
    BY <1>1, <1>2, <2>2, <2>3 DEF CallKnown
  <2>5. CallReads(d)'
    BY <1>2, <1>4, <2>2 DEF CallReads, RowHeld
  <2> QED BY <2>2, <2>4, <2>5, MovesKeepOthers DEF RollInv, RowHeld
<1>6. CASE ~Ingest!Step(d, "make", tx[d])
  <2> DEFINE r == IF tx[d].stage < 3 THEN tx[d]
                  ELSE [tx[d] EXCEPT !.read = observable[Ingest!Of(d)], !.saved = observable[Ingest!Of(d)]]
  <2>1. Ingest!Proceed(d, r)
    BY <1>6 DEF Ingest!Find
  <2>2. /\ DOMAIN r = TxFields /\ r.event = tx[d].event /\ r.stage = tx[d].stage /\ r.new = tx[d].new
        /\ tx[d].stage = 3 => r.read = observable[Ingest!Of(d)]
        /\ tx[d].stage # 3 => r.read = Ingest!Fresh
    <3>1. tx[d].stage \in {1, 2, 3}
      BY <1>1, <1>2 DEF CallKnown
    <3> QED BY <1>2, <3>1 DEF TxFields
  <2> HIDE DEF r
  <2>3. /\ Moves(d)
        /\ tx'[d].event = r.event /\ tx'[d].new = r.new /\ tx'[d].read = r.read
        /\ \/ tx[d].stage = 3 /\ stage'[d] = "record"
           \/ tx[d].stage # 3 /\ stage'[d] = "find" /\ tx'[d].stage \in {1, 2, 3}
    BY <1>1, <2>1, <2>2, ProceedMoves
  <2>4. Ingest!Of(d)' = Ingest!Of(d)
    BY <1>1, <2>3, EventsStay
  <2>5. CallKnown(d)'
    BY <1>1, <1>2, <2>2, <2>3, <2>4 DEF CallKnown
  <2>6. tx[d].stage = 3 => tx'[d].read = Ingest!CurrentRow(d)'
    <3>1. tx[d].new \cap Targets = {}
      BY <1>1, <1>2 DEF CallKnown
    <3> QED BY <1>1, <1>2, <2>2, <2>3, <2>4, <3>1 DEF Ingest!CurrentRow
  <2>7. CallReads(d)'
    BY <1>3, <1>4, <2>2, <2>3, <2>6 DEF CallReads, RowHeld
  <2> QED BY <2>3, <2>5, <2>7, MovesKeepOthers DEF RollInv, RowHeld
<1> QED BY <1>5, <1>6

\* Inserting what was not found keeps RollInv.
LEMMA MakeKeeps ==
    ASSUME RollInv, NEW d \in Deliveries, Ingest!Make(d)
    PROVE  RollInv' /\ Moves(d) /\ stage'[d] \notin RowHeld
<1>1. stage[d] = "make"
    BY DEF Ingest!Make
<1>2. CASE Ingest!Fail(d, "conflict")
    BY <1>1, <1>2, FailKeeps
<1>3. CASE ~Ingest!Fail(d, "conflict")
  <2> DEFINE r == [tx[d] EXCEPT !.new = @ \cup {Ingest!Key(d)}]
  <2>1. Ingest!Proceed(d, r) /\ UNCHANGED <<exists, removed, observable, log, links, touched, answer, during>>
    BY <1>3 DEF Ingest!Make, Ingest!Database
  <2>2. CallKnown(d) /\ DOMAIN tx[d] = TxFields /\ tx[d].read = Ingest!Fresh
    BY <1>1 DEF RollInv, CallKnown, IngestTypes
  <2>3. /\ DOMAIN r = TxFields /\ r.event = tx[d].event /\ r.stage = tx[d].stage /\ r.read = tx[d].read
        /\ r.new = tx[d].new \cup {Ingest!Key(d)}
    BY <2>2 DEF TxFields
  <2> HIDE DEF r
  <2>4. /\ Moves(d)
        /\ tx'[d].event = r.event /\ tx'[d].new = r.new /\ tx'[d].read = r.read
        /\ \/ tx[d].stage = 3 /\ stage'[d] = "record"
           \/ tx[d].stage # 3 /\ stage'[d] = "find" /\ tx'[d].stage \in {1, 2, 3}
    BY <1>1, <2>1, <2>3, ProceedMoves
  <2>5. Ingest!Of(d)' = Ingest!Of(d)
    BY <1>1, <2>4, EventsStay
  <2>6. CallKnown(d)'
    BY <1>1, <2>1, <2>2, <2>3, <2>4, <2>5, KeyIs DEF CallKnown
  <2>7. tx[d].stage = 3 => tx'[d].read = Ingest!CurrentRow(d)'
    BY <1>1, <2>2, <2>3, <2>4, <2>5, KeyIs DEF Ingest!CurrentRow
  <2>8. Ingest!Fresh.last # d
    BY EmptyFields, IngestAssumption
  <2>9. CallReads(d)'
    BY <2>2, <2>3, <2>4, <2>7, <2>8 DEF CallReads, RowHeld
  <2> QED BY <2>4, <2>6, <2>9, MovesKeepOthers DEF RollInv, RowHeld
<1> QED BY <1>2, <1>3

\* A step that leaves what a call has read and is about to save.
LEMMA WorkKeeps ==
    ASSUME RollInv, NEW d \in Deliveries, NEW next \in Stages, NEW with,
           stage[d] \in {"record", "update", "evaluate", "write"},
           Ingest!Step(d, next, with), UNCHANGED <<exists, removed, observable, log, links, touched, answer, during>>,
           DOMAIN with = TxFields, with.event = tx[d].event, with.new = tx[d].new, with.read = tx[d].read,
           \/ stage[d] = "record" /\ next = "update"
           \/ stage[d] = "update" /\ next = "evaluate" /\ with.saved = Ingest!Saved(d)
           \/ stage[d] \in {"evaluate", "write"} /\ next \in {"evaluate", "write", "commit"} /\ with.saved = tx[d].saved
    PROVE  RollInv' /\ Moves(d) /\ stage'[d] = next /\ tx'[d] = with
<1>1. DOMAIN answer' = Deliveries
    BY DEF RollInv, IngestTypes
<1>2. Moves(d) /\ stage'[d] = next /\ tx'[d] = with
    BY <1>1, StepMoves DEF RollInv
<1>3. Ingest!Of(d)' = Ingest!Of(d) /\ (Ingest!Overlapped(d)' <=> Ingest!Overlapped(d))
    BY <1>2, EventsStay
<1>4. CallKnown(d) /\ CallReads(d)
    BY DEF RollInv
<1>5. CallKnown(d)'
    BY <1>2, <1>3, <1>4 DEF CallKnown
<1>6. Ingest!CurrentRow(d)' = Ingest!CurrentRow(d)
    BY <1>2, <1>3 DEF Ingest!CurrentRow
<1>7. ASSUME stage[d] = "update"
      PROVE  /\ with.saved.last = d
             /\ \/ Ingest!Overlapped(d)
                \/ with.saved.state = tx[d].event.state /\ with.saved.severity = tx[d].event.severity
  <2>1. with.saved = Ingest!Saved(d)
    BY <1>7
  <2>2. /\ Ingest!Updated(d).state = tx[d].event.state /\ Ingest!Updated(d).severity = tx[d].event.severity
        /\ Ingest!Updated(d).last = d
    BY DEF Ingest!Updated
  <2>3. \A c \in {"state", "severity", "last"} :
          Ingest!Saved(d)[c] = IF Ingest!Updated(d)[c] # tx[d].read[c] THEN Ingest!Updated(d)[c] ELSE Ingest!CurrentRow(d)[c]
    BY EmptyFields DEF Ingest!Saved
  <2>4. Ingest!Saved(d).last = d
    BY <1>4, <2>2, <2>3 DEF CallReads
  <2>5. Ingest!Overlapped(d) \/ tx[d].read = Ingest!CurrentRow(d)
    BY <1>4, <1>7 DEF CallReads
  <2>6. tx[d].read = Ingest!CurrentRow(d) =>
          Ingest!Saved(d).state = Ingest!Updated(d).state /\ Ingest!Saved(d).severity = Ingest!Updated(d).severity
    BY <2>3
  <2> QED BY <2>1, <2>2, <2>4, <2>5, <2>6
<1>8. CallReads(d)'
  <2>1. CASE stage[d] = "record"
    BY <2>1, <1>2, <1>3, <1>4, <1>6 DEF CallReads, RowHeld
  <2>2. CASE stage[d] = "update"
    BY <2>2, <1>2, <1>3, <1>4, <1>7 DEF CallReads, RowHeld
  <2>3. CASE stage[d] \in {"evaluate", "write"}
    BY <2>3, <1>2, <1>3, <1>4 DEF CallReads, RowHeld
  <2> QED BY <2>1, <2>2, <2>3
<1> QED BY <1>2, <1>5, <1>8, MovesKeepOthers DEF RollInv

\* The stages from the update to the commit are stages.
LEMMA StagesIn == {"update", "evaluate", "write", "commit"} \subseteq Stages
BY DEF Stages

\* Recording the event keeps RollInv.
LEMMA RecordKeeps ==
    ASSUME RollInv, NEW d \in Deliveries, Ingest!Record(d)
    PROVE  RollInv' /\ Moves(d) /\ stage'[d] \notin RowHeld
<1>1. stage[d] = "record"
    BY DEF Ingest!Record
<1>2. CASE Ingest!Fail(d, "gone")
    BY <1>1, <1>2, FailKeeps
<1>3. CASE ~Ingest!Fail(d, "gone")
  <2>1. Ingest!Step(d, "update", tx[d]) /\ UNCHANGED <<exists, removed, observable, log, links, touched, answer, during>>
    BY <1>3 DEF Ingest!Record, Ingest!Database
  <2>2. DOMAIN tx[d] = TxFields
    BY DEF RollInv, IngestTypes
  <2> QED BY <1>1, <2>1, <2>2, StagesIn, WorkKeeps DEF RowHeld
<1> QED BY <1>2, <1>3

\* The update keeps RollInv and takes a row no other call holds.
LEMMA UpdateMoves ==
    ASSUME RollInv, NEW d \in Deliveries, Ingest!Update(d), ~Ingest!Fail(d, "gone")
    PROVE  /\ RollInv' /\ Moves(d) /\ stage'[d] = "evaluate"
           /\ tx'[d].todo = Provisioned /\ tx'[d].opens = {} /\ tx'[d].closes = {}
           /\ \A e \in Deliveries \ {d} : ~Ingest!Holds(e, Ingest!Of(d))
<1>1. stage[d] = "update" /\ \A e \in Deliveries \ {d} : ~Ingest!Holds(e, Ingest!Of(d))
    BY DEF Ingest!Update, Ingest!Others
<1> DEFINE with == [tx[d] EXCEPT !.saved = Ingest!Saved(d), !.todo = Provisioned, !.opens = {}, !.closes = {}]
<1>2. Ingest!Step(d, "evaluate", with) /\ UNCHANGED <<exists, removed, observable, log, links, touched, answer, during>>
    BY DEF Ingest!Update, Ingest!Database
<1>3. /\ DOMAIN with = TxFields /\ with.event = tx[d].event /\ with.new = tx[d].new /\ with.read = tx[d].read
      /\ with.saved = Ingest!Saved(d) /\ with.todo = Provisioned /\ with.opens = {} /\ with.closes = {}
    BY DEF RollInv, IngestTypes, TxFields
<1> HIDE DEF with
<1> QED BY <1>1, <1>2, <1>3, StagesIn, WorkKeeps

\* One action of the observable is evaluated: what its task asks for, given
\* the links that are open, is added to what the call writes.
Evaluated(d, x) ==
    LET now == Ingest!OpenLinks(Ingest!Of(d)) \ tx[d].closes
    IN /\ x \in tx[d].todo /\ Ingest!Wanted(x, tx[d].saved)
       /\ tx'[d].todo = tx[d].todo \ {x}
       /\ tx[d].opens \subseteq tx'[d].opens /\ tx'[d].opens \subseteq tx[d].opens \cup {x}
       /\ tx[d].closes \subseteq tx'[d].closes
       /\ \A y \in tx'[d].opens : y \in tx[d].opens \/ y.type = "create_task"
       /\ \A l \in tx'[d].closes : l \in tx[d].closes \/ (l \in now /\ Ingest!Closes(x, l))
       /\ ~x.window /\ Ingest!FlapGuardSatisfied(x, tx[d].saved, 0) =>
            /\ x.type = "create_task" => x \in tx'[d].opens \/ \E l \in now : l.action = x
            /\ \A l \in now : Ingest!Closes(x, l) => l \in tx'[d].closes

\* An action that does not count events is due or not whatever their number.
LEMMA DueAnyway ==
    ASSUME NEW x, ~x.window, NEW r, NEW n
    PROVE  Ingest!FlapGuardSatisfied(x, r, n) <=> Ingest!FlapGuardSatisfied(x, r, 0)
BY DEF Ingest!FlapGuardSatisfied

\* Evaluating an action keeps RollInv; the last time nothing wanted is left.
LEMMA EvaluateMoves ==
    ASSUME RollInv, NEW d \in Deliveries, Ingest!Evaluate(d)
    PROVE  /\ RollInv' /\ Moves(d) /\ stage[d] = "evaluate" /\ tx'[d].saved = tx[d].saved
           /\ \/ /\ stage'[d] = "commit" /\ tx'[d].opens = tx[d].opens /\ tx'[d].closes = tx[d].closes
                 /\ tx'[d].todo = {} /\ \A x \in tx[d].todo : ~Ingest!Wanted(x, tx[d].saved)
              \/ stage'[d] = "write" /\ \E x \in tx[d].todo : Evaluated(d, x)
<1>1. /\ stage[d] = "evaluate"
      /\ UNCHANGED <<exists, removed, observable, log, links, touched, answer, during>>
    BY DEF Ingest!Evaluate, Ingest!Database
<1> DEFINE wanted == {x \in tx[d].todo : Ingest!Wanted(x, tx[d].saved)}
<1>2. \/ wanted = {} /\ Ingest!Step(d, "commit", [tx[d] EXCEPT !.todo = {}])
      \/ \E x \in wanted : \E read \in Ingest!RecentEvents(x, d) : Ingest!Step(d, "write", Ingest!EvaluateAction(d, x, read))
    BY DEF Ingest!Evaluate, Ingest!Observed
<1>3. CASE wanted = {} /\ Ingest!Step(d, "commit", [tx[d] EXCEPT !.todo = {}])
  <2> DEFINE with == [tx[d] EXCEPT !.todo = {}]
  <2>1. /\ DOMAIN with = TxFields /\ with.event = tx[d].event /\ with.new = tx[d].new /\ with.read = tx[d].read
        /\ with.saved = tx[d].saved /\ with.opens = tx[d].opens /\ with.closes = tx[d].closes /\ with.todo = {}
    BY DEF RollInv, IngestTypes, TxFields
  <2>2. Ingest!Step(d, "commit", with)
    BY <1>3
  <2> HIDE DEF with
  <2>3. RollInv' /\ Moves(d) /\ stage'[d] = "commit" /\ tx'[d] = with
    BY <1>1, <2>1, <2>2, StagesIn, WorkKeeps
  <2> QED BY <1>1, <1>3, <2>1, <2>3
<1>4. ASSUME NEW x \in wanted, NEW read \in Ingest!RecentEvents(x, d), Ingest!Step(d, "write", Ingest!EvaluateAction(d, x, read))
      PROVE  /\ RollInv' /\ Moves(d) /\ stage'[d] = "write" /\ tx'[d].saved = tx[d].saved
             /\ x \in tx[d].todo /\ Evaluated(d, x)
  <2> DEFINE due == Ingest!FlapGuardSatisfied(x, tx[d].saved, Ingest!Matches(x, read))
             now == Ingest!OpenLinks(Ingest!Of(d)) \ tx[d].closes
             opens == {y \in {x} : due /\ y.type = "create_task" /\ \A l \in now : l.action # y}
             closes == {l \in now : due /\ Ingest!Closes(x, l)}
             with == [tx[d] EXCEPT !.todo = @ \ {x}, !.opens = @ \cup opens, !.closes = @ \cup closes]
  <2>1. Ingest!Step(d, "write", with)
    BY <1>4 DEF Ingest!EvaluateAction, Ingest!Observed
  <2> HIDE DEF opens, closes
  <2>2. /\ DOMAIN with = TxFields /\ with.event = tx[d].event /\ with.new = tx[d].new /\ with.read = tx[d].read
        /\ with.saved = tx[d].saved /\ with.todo = tx[d].todo \ {x}
        /\ with.opens = tx[d].opens \cup opens /\ with.closes = tx[d].closes \cup closes
    BY DEF RollInv, IngestTypes, TxFields
  <2> HIDE DEF with
  <2>3. RollInv' /\ Moves(d) /\ stage'[d] = "write" /\ tx'[d] = with
    BY <1>1, <2>1, <2>2, StagesIn, WorkKeeps
  <2>4. x \in tx[d].todo /\ Ingest!Wanted(x, tx[d].saved)
    OBVIOUS
  <2>5. ~x.window /\ Ingest!FlapGuardSatisfied(x, tx[d].saved, 0) => due
    BY DueAnyway
  <2> HIDE DEF due, now, wanted
  <2>6. /\ opens \subseteq {x} /\ \A y \in opens : y.type = "create_task"
        /\ \A l \in closes : l \in now /\ Ingest!Closes(x, l)
        /\ due /\ x.type = "create_task" => x \in opens \/ \E l \in now : l.action = x
        /\ due => \A l \in now : Ingest!Closes(x, l) => l \in closes
    BY DEF opens, closes
  <2>7. Evaluated(d, x)
    BY <2>2, <2>3, <2>4, <2>5, <2>6 DEF Evaluated, now
  <2> QED BY <2>2, <2>3, <2>4, <2>7
<1> QED BY <1>1, <1>2, <1>3, <1>4

\* Writing the task links keeps RollInv.
LEMMA WriteMoves ==
    ASSUME RollInv, NEW d \in Deliveries, Ingest!Write(d), ~Ingest!Fail(d, "link")
    PROVE  RollInv' /\ Moves(d) /\ stage[d] = "write" /\ stage'[d] = "evaluate" /\ tx'[d] = tx[d]
<1>1. /\ stage[d] = "write" /\ Ingest!Step(d, "evaluate", tx[d])
      /\ UNCHANGED <<exists, removed, observable, log, links, touched, answer, during>>
    BY DEF Ingest!Write, Ingest!Database
<1>2. DOMAIN tx[d] = TxFields
    BY DEF RollInv, IngestTypes
<1> QED BY <1>1, <1>2, StagesIn, WorkKeeps

\* What a commit makes of the rows, the log and the calls under way.
LEMMA CommitMoves ==
    ASSUME RollInv, NEW d \in Deliveries, Ingest!Commit(d)
    PROVE  /\ stage[d] = "commit" /\ Ingest!Of(d) \in Targets
           /\ IngestTypes'
           /\ stage'[d] = "done" /\ tx'[d].new = {} /\ tx'[d].read = Ingest!Fresh /\ tx'[d].event = tx[d].event
           /\ \A e \in Deliveries \ {d} : tx'[e] = tx[e] /\ stage'[e] = stage[e]
           /\ \A e \in Deliveries : Ingest!Of(e)' = Ingest!Of(e)
           /\ log' = log \cup {d} /\ exists' = exists \cup tx[d].new
           /\ observable'[Ingest!Of(d)] = tx[d].saved
           /\ \A t \in Targets : t # Ingest!Of(d) => observable'[t] = observable[t]
           /\ \A e \in Deliveries : stage[e] \notin {"new", "done"} /\ e # d => during'[e] = during[e] \cup {d}
           /\ \A e \in Deliveries : stage[e] \in {"new", "done"} \/ e = d => during'[e] = during[e]
           /\ links' = (links \ tx[d].closes)
                 \cup {[l EXCEPT !.open = FALSE] : l \in tx[d].closes}
                 \cup {[target |-> Ingest!Of(d), action |-> x, by |-> d, open |-> TRUE] : x \in tx[d].opens}
<1> DEFINE with == [Ingest!Empty EXCEPT !.event = tx[d].event]
<1>1. stage[d] = "commit" /\ Ingest!Of(d) \in Targets
    BY DEF Ingest!Commit, RollInv, CallKnown
<1>2. /\ stage' = [stage EXCEPT ![d] = "done"] /\ tx' = [tx EXCEPT ![d] = with] /\ answer' = [answer EXCEPT ![d] = "ok"]
    BY DEF Ingest!Commit, Ingest!End, Ingest!Step
<1>3. /\ DOMAIN with = TxFields /\ with.event = tx[d].event /\ with.new = {} /\ with.read = Ingest!Fresh
    BY EmptyFields DEF TxFields
<1> HIDE DEF with
<1>4. /\ stage' \in [Deliveries -> Stages] /\ stage'[d] = "done"
      /\ \A e \in Deliveries \ {d} : stage'[e] = stage[e]
    BY <1>2 DEF RollInv, IngestTypes, Stages
<1>5. /\ DOMAIN tx' = Deliveries /\ tx'[d] = with /\ \A e \in Deliveries \ {d} : tx'[e] = tx[e]
    BY <1>2 DEF RollInv, IngestTypes
<1>6. /\ observable' = [observable EXCEPT ![Ingest!Of(d)] = tx[d].saved]
      /\ log' = log \cup {d} /\ exists' = exists \cup tx[d].new
      /\ during' = [e \in Deliveries |-> IF stage[e] \in {"new", "done"} \/ e = d THEN during[e] ELSE during[e] \cup {d}]
      /\ links' = (links \ tx[d].closes)
                 \cup {[l EXCEPT !.open = FALSE] : l \in tx[d].closes}
                 \cup {[target |-> Ingest!Of(d), action |-> x, by |-> d, open |-> TRUE] : x \in tx[d].opens}
    BY DEF Ingest!Commit
<1>7. /\ DOMAIN observable' = Targets /\ observable'[Ingest!Of(d)] = tx[d].saved
      /\ \A t \in Targets : t # Ingest!Of(d) => observable'[t] = observable[t]
    BY <1>1, <1>6 DEF RollInv, IngestTypes
<1>8. IngestTypes'
    BY <1>2, <1>3, <1>4, <1>5, <1>6, <1>7 DEF RollInv, IngestTypes
<1>9. \A e \in Deliveries : Ingest!Of(e)' = Ingest!Of(e)
    BY <1>3, <1>5 DEF Ingest!Of
<1>10. /\ \A e \in Deliveries : stage[e] \notin {"new", "done"} /\ e # d => during'[e] = during[e] \cup {d}
       /\ \A e \in Deliveries : stage[e] \in {"new", "done"} \/ e = d => during'[e] = during[e]
    BY <1>6
<1> QED BY <1>1, <1>3, <1>4, <1>5, <1>6, <1>7, <1>8, <1>9, <1>10

\* The commit keeps RollInv.
LEMMA CommitKeeps == ASSUME RollInv, NEW d \in Deliveries, Ingest!Commit(d) PROVE RollInv'
<1>1. /\ stage[d] = "commit" /\ Ingest!Of(d) \in Targets
      /\ stage'[d] = "done" /\ tx'[d].new = {} /\ tx'[d].read = Ingest!Fresh /\ tx'[d].event = tx[d].event
      /\ \A e \in Deliveries \ {d} : tx'[e] = tx[e] /\ stage'[e] = stage[e]
      /\ \A e \in Deliveries : Ingest!Of(e)' = Ingest!Of(e)
    BY CommitMoves
<1>2. /\ IngestTypes'
      /\ log' = log \cup {d}
      /\ observable'[Ingest!Of(d)] = tx[d].saved
      /\ \A t \in Targets : t # Ingest!Of(d) => observable'[t] = observable[t]
      /\ \A e \in Deliveries : stage[e] \notin {"new", "done"} /\ e # d => during'[e] = during[e] \cup {d}
      /\ \A e \in Deliveries : stage[e] \in {"new", "done"} \/ e = d => during'[e] = during[e]
    BY CommitMoves
<1>3. \A e \in Deliveries : during[e] \subseteq Deliveries /\ during[e] \subseteq during'[e]
  <2> TAKE e \in Deliveries
  <2>1. during[e] \subseteq log /\ log \subseteq Deliveries
    BY DEF RollInv, CallKnown, IngestTypes
  <2> QED BY <1>2, <2>1
<1>4. \A e \in Deliveries : Ingest!Overlapped(e) => Ingest!Overlapped(e)'
    BY <1>1, <1>3 DEF Ingest!Overlapped
<1>5. CallKnown(d) /\ CallReads(d)
    BY DEF RollInv
<1>6. tx[d].saved.last = d
    BY <1>1, <1>5 DEF CallReads, RowHeld
<1>7. LastShown'
  <2> SUFFICES ASSUME NEW t \in Targets, NEW e \in Deliveries, observable'[t].last = e
               PROVE  e \in log' /\ (Ingest!Overlapped(e)' \/ Ingest!ShowsLastEvent(t, e)')
    BY DEF LastShown
  <2>1. CASE t = Ingest!Of(d)
    <3>1. e = d /\ observable'[t] = tx[d].saved
      BY <1>2, <1>6, <2>1
    <3>2. Ingest!Overlapped(d) \/ (tx[d].saved.state = tx[d].event.state /\ tx[d].saved.severity = tx[d].event.severity)
      BY <1>1, <1>5 DEF CallReads, RowHeld
    <3> QED BY <1>1, <1>2, <1>4, <3>1, <3>2 DEF Ingest!ShowsLastEvent
  <2>2. CASE t # Ingest!Of(d)
    <3>1. observable'[t] = observable[t]
      BY <1>2, <2>2
    <3>2. e \in log /\ (Ingest!Overlapped(e) \/ Ingest!ShowsLastEvent(t, e))
      BY <3>1 DEF RollInv, LastShown
    <3>3. tx'[e].event = tx[e].event
      BY <1>1
    <3> QED BY <1>2, <1>4, <3>1, <3>2, <3>3 DEF Ingest!ShowsLastEvent
  <2> QED BY <2>1, <2>2
<1>8. CallKnown(d)'
    BY <1>1, <1>2, <1>5 DEF CallKnown
<1>9. CallReads(d)'
    BY <1>1, EmptyFields, IngestAssumption DEF CallReads, RowHeld
<1>10. ASSUME NEW e \in Deliveries, e # d PROVE CallKnown(e)' /\ CallReads(e)'
  <2>1. CallKnown(e) /\ CallReads(e)
    BY DEF RollInv
  <2>2. tx'[e] = tx[e] /\ stage'[e] = stage[e] /\ Ingest!Of(e)' = Ingest!Of(e)
    BY <1>1, <1>10
  <2>3. CallKnown(e)'
    BY <1>2, <1>10, <2>1, <2>2 DEF CallKnown
  <2>4. stage[e] \in {"record", "update"} => Ingest!Overlapped(e)' \/ tx'[e].read = Ingest!CurrentRow(e)'
    <3> SUFFICES ASSUME stage[e] \in {"record", "update"}, ~Ingest!Overlapped(e)'
                 PROVE  tx'[e].read = Ingest!CurrentRow(e)'
      OBVIOUS
    <3>1. d \in during'[e]
      BY <1>2, <1>10
    <3>2. Ingest!Of(d) # Ingest!Of(e)
      BY <1>1, <2>2, <3>1 DEF Ingest!Overlapped
    <3>3. Ingest!Of(e) \in Targets
      BY <2>1 DEF CallKnown
    <3>4. Ingest!CurrentRow(e)' = Ingest!CurrentRow(e)
      BY <1>2, <2>2, <3>2, <3>3 DEF Ingest!CurrentRow
    <3> QED BY <1>4, <2>1, <2>2, <3>4 DEF CallReads
  <2>5. CallReads(e)'
    BY <1>4, <2>1, <2>2, <2>4 DEF CallReads
  <2> QED BY <2>3, <2>5
<1> QED BY <1>2, <1>7, <1>8, <1>9, <1>10 DEF RollInv

\* Deliveries do not use what users mark deleted as anything but a condition.
LEMMA MarkKeepsCalls ==
    ASSUME RollInv, UNCHANGED <<stage, tx, answer, observable, log, during>> PROVE RollInv'
<1>1. \A e \in Deliveries : /\ Ingest!Of(e)' = Ingest!Of(e) /\ Ingest!CurrentRow(e)' = Ingest!CurrentRow(e)
                            /\ (Ingest!Overlapped(e)' <=> Ingest!Overlapped(e))
                            /\ \A t \in Targets : Ingest!ShowsLastEvent(t, e)' <=> Ingest!ShowsLastEvent(t, e)
    BY DEF Ingest!Of, Ingest!CurrentRow, Ingest!Overlapped, Ingest!ShowsLastEvent
<1>2. IngestTypes' /\ \A e \in Deliveries : CallKnown(e)' /\ CallReads(e)'
    BY <1>1 DEF RollInv, IngestTypes, CallKnown, CallReads
<1>3. LastShown'
    BY <1>1 DEF RollInv, LastShown
<1> QED BY <1>2, <1>3 DEF RollInv

\* RollInv holds at the start.
LEMMA RollInit == ASSUME Ingest!Init PROVE RollInv
<1>1. IngestTypes
    BY EmptyFields DEF Ingest!Init, IngestTypes, Stages
<1>2. ASSUME NEW d \in Deliveries PROVE CallKnown(d) /\ CallReads(d)
  <2>1. stage[d] = "new" /\ tx[d] = Ingest!Empty /\ log = {} /\ during[d] = {}
    BY DEF Ingest!Init
  <2> QED BY <2>1, EmptyFields, IngestAssumption DEF CallKnown, CallReads, RowHeld
<1>3. \A t \in Targets : observable[t].last = Absent
    BY EmptyFields DEF Ingest!Init
<1> QED BY <1>1, <1>2, <1>3, IngestAssumption DEF RollInv, LastShown

\* RollInv is inductive.
LEMMA RollStep == ASSUME RollInv, Ingest!Next PROVE RollInv'
<1>1. ASSUME NEW d \in Deliveries, Ingest!Receive(d) \/ Ingest!Statement(d) \/ Ingest!Interrupt(d) PROVE RollInv'
  <2>1. CASE Ingest!Receive(d)
    BY <2>1, ReceiveKeeps
  <2>2. CASE Ingest!Find(d)
    BY <2>2, FindKeeps
  <2>3. CASE Ingest!EntityMissing(d)
    BY <2>3, FailKeeps DEF Ingest!EntityMissing
  <2>4. CASE Ingest!Make(d)
    BY <2>4, MakeKeeps
  <2>5. CASE Ingest!Record(d)
    BY <2>5, RecordKeeps
  <2>6. CASE Ingest!Update(d)
    BY <2>6, UpdateMoves, FailKeeps DEF Ingest!Update
  <2>7. CASE Ingest!Evaluate(d)
    BY <2>7, EvaluateMoves
  <2>8. CASE Ingest!Write(d)
    BY <2>8, WriteMoves, FailKeeps DEF Ingest!Write
  <2>9. CASE Ingest!Commit(d)
    BY <2>9, CommitKeeps
  <2>10. CASE Ingest!Interrupt(d)
    BY <2>10, FailKeeps DEF Ingest!Interrupt
  <2> QED BY <1>1, <2>1, <2>2, <2>3, <2>4, <2>5, <2>6, <2>7, <2>8, <2>9, <2>10 DEF Ingest!Statement
<1>2. ASSUME NEW k \in exists, Ingest!Delete(k) \/ Ingest!Restore(k) PROVE RollInv'
    BY <1>2, MarkKeepsCalls DEF Ingest!Delete, Ingest!Restore, Ingest!Mark
<1> QED BY <1>1, <1>2 DEF Ingest!Next

\* The observable shows state and severity of its last event, unless another
\* delivery for it committed between the look-up and the save of that event's
\* (updateObservable, save).
THEOREM LastEventShown == Ingest!Spec => []RolledUpUnlessOverlapped
<1>1. Ingest!Init => RollInv
    BY RollInit
<1>2. RollInv /\ [Ingest!Next]_Ingest!vars => RollInv'
  <2>1. CASE UNCHANGED Ingest!vars
    BY <2>1, MarkKeepsCalls DEF Ingest!vars
  <2> QED BY <2>1, RollStep
<1>3. RollInv => RolledUpUnlessOverlapped
    BY DEF RollInv, LastShown, IngestTypes, RolledUpUnlessOverlapped, Ingest!RolledUpUnlessOverlapped
<1> QED BY <1>1, <1>2, <1>3, PTL DEF Ingest!Spec

-----------------------------------------------------------------------------
(* The row decides which tasks are open                                    *)

\* One call at a time holds a row.
Exclusive ==
    \A d, e \in Deliveries :
        stage[d] \in RowHeld /\ stage[e] \in RowHeld /\ Ingest!Of(d) = Ingest!Of(e) => d = e

\* A link comes from an action definition that creates tasks.
LinksKnown ==
    \A l \in links : /\ DOMAIN l = {"target", "action", "by", "open"}
                     /\ l.action \in Provisioned /\ l.action.type = "create_task"

\* What a call opens and closes is what the row it saved asks for, given the
\* links of its observable and but for the actions still to be evaluated.
Decided(d) ==
    stage[d] \in RowHeld =>
        /\ tx[d].todo \subseteq Provisioned /\ (stage[d] = "commit" => tx[d].todo = {})
        /\ \A x \in tx[d].opens : x \in Provisioned /\ x.type = "create_task" /\ x.trigger = tx[d].saved.state
        /\ \A l \in tx[d].closes : /\ l \in Ingest!OpenLinks(Ingest!Of(d))
                                   /\ \E y \in Provisioned : y.trigger = tx[d].saved.state /\ Ingest!Closes(y, l)
        /\ \A x \in Provisioned \ tx[d].todo : ~x.window /\ Ingest!Triggered(x, tx[d].saved, 0) =>
             /\ x.type = "create_task" => x \in tx[d].opens \/ \E l \in Ingest!OpenLinks(Ingest!Of(d)) : l.action = x
             /\ x.type # "create_task" => \A l \in Ingest!OpenLinks(Ingest!Of(d)) : Ingest!Closes(x, l) => l \in tx[d].closes

DecideInv == Exclusive /\ LinksKnown /\ (\A d \in Deliveries : Decided(d)) /\ Ingest!RowDecides

\* No action closes the task another one with its trigger opens.
LEMMA NoneCloses ==
    ASSUME LinksKnown, NEW x \in Provisioned, x.type = "create_task", NEW y \in Provisioned, x.trigger = y.trigger,
           NEW l, l.action = x
    PROVE  ~Ingest!Closes(y, l)
BY IngestAssumption DEF Ingest!Closes

\* A call that commits nothing leaves the other calls and the links as they are.
LEMMA MovesDecide ==
    ASSUME RollInv, DecideInv, NEW d, Moves(d)
    PROVE  /\ LinksKnown' /\ Ingest!RowDecides'
           /\ \A e \in Deliveries \ {d} : Decided(e)'
           /\ stage'[d] \notin RowHeld => Exclusive' /\ Decided(d)'
           /\ stage[d] \in RowHeld /\ stage'[d] \in RowHeld => Exclusive'
<1>1. UNCHANGED <<exists, observable, links>> /\ \A t : Ingest!OpenLinks(t)' = Ingest!OpenLinks(t)
    BY DEF Moves, Ingest!OpenLinks
<1>2. LinksKnown'
    BY <1>1 DEF DecideInv, LinksKnown
<1>3. Ingest!RowDecides'
    BY <1>1 DEF DecideInv, Ingest!RowDecides
<1>4. ASSUME NEW e \in Deliveries \ {d} PROVE Decided(e)'
  <2>1. tx'[e] = tx[e] /\ stage'[e] = stage[e]
    BY DEF Moves
  <2>2. Ingest!Of(e)' = Ingest!Of(e)
    BY <2>1 DEF Ingest!Of
  <2>3. Decided(e)
    BY DEF DecideInv
  <2> QED BY <1>1, <2>1, <2>2, <2>3 DEF Decided
<1>5. stage'[d] \notin RowHeld => Decided(d)'
    BY DEF Decided, RowHeld
<1>6. \A e \in Deliveries : stage[e] # "new" => Ingest!Of(e)' = Ingest!Of(e)
    BY EventsStay
<1>7. \A e \in Deliveries \ {d} : stage'[e] = stage[e]
    BY DEF Moves
<1>8. stage'[d] \notin RowHeld => Exclusive'
    BY <1>6, <1>7 DEF DecideInv, Exclusive, RowHeld
<1>9. stage[d] \in RowHeld /\ stage'[d] \in RowHeld => Exclusive'
    BY <1>6, <1>7 DEF DecideInv, Exclusive, RowHeld
<1> QED BY <1>2, <1>3, <1>4, <1>5, <1>8, <1>9

\* A call that fails keeps DecideInv.
LEMMA FailDecides ==
    ASSUME RollInv, DecideInv, NEW d \in Deliveries, NEW why, stage[d] \notin {"new", "done"}, Ingest!Fail(d, why)
    PROVE  DecideInv'
<1>1. Moves(d) /\ stage'[d] \notin RowHeld
    BY FailKeeps
<1> QED BY <1>1, MovesDecide DEF DecideInv

\* A step before the update keeps DecideInv.
LEMMA EarlyDecides ==
    ASSUME RollInv, DecideInv, NEW d \in Deliveries,
           Ingest!Receive(d) \/ Ingest!Find(d) \/ Ingest!EntityMissing(d) \/ Ingest!Make(d) \/ Ingest!Record(d) \/ Ingest!Interrupt(d)
    PROVE  DecideInv'
<1>1. Moves(d) /\ stage'[d] \notin RowHeld
  <2>1. CASE Ingest!EntityMissing(d)
    BY <2>1, FailKeeps DEF Ingest!EntityMissing
  <2>2. CASE Ingest!Interrupt(d)
    BY <2>2, FailKeeps DEF Ingest!Interrupt
  <2> QED BY <2>1, <2>2, ReceiveKeeps, FindKeeps, MakeKeeps, RecordKeeps
<1> QED BY <1>1, MovesDecide DEF DecideInv

\* The update keeps DecideInv.
LEMMA UpdateDecides == ASSUME RollInv, DecideInv, NEW d \in Deliveries, Ingest!Update(d) PROVE DecideInv'
<1>0. stage[d] = "update"
    BY DEF Ingest!Update
<1>1. CASE Ingest!Fail(d, "gone")
    BY <1>0, <1>1, FailDecides
<1>2. CASE ~Ingest!Fail(d, "gone")
  <2>1. Moves(d) /\ stage'[d] = "evaluate" /\ \A e \in Deliveries \ {d} : ~Ingest!Holds(e, Ingest!Of(d))
    BY <1>2, UpdateMoves
  <2>2. \A e \in Deliveries : stage[e] # "new" => Ingest!Of(e)' = Ingest!Of(e)
    BY <2>1, EventsStay
  <2>3. \A e \in Deliveries \ {d} : stage'[e] = stage[e]
    BY <2>1 DEF Moves
  <2>4. \A e \in Deliveries \ {d} : stage'[e] \in RowHeld => Ingest!Of(e)' # Ingest!Of(d)'
    BY <1>0, <2>1, <2>2, <2>3 DEF Ingest!Holds, Ingest!Updating, RowHeld
  <2>5. Exclusive'
    BY <2>2, <2>3, <2>4 DEF DecideInv, Exclusive, RowHeld
  <2>6. Decided(d)'
    <3>1. tx'[d].todo = Provisioned /\ tx'[d].opens = {} /\ tx'[d].closes = {}
      BY <1>2, UpdateMoves
    <3> QED BY <2>1, <3>1 DEF Decided
  <2> QED BY <2>1, <2>5, <2>6, MovesDecide DEF DecideInv
<1> QED BY <1>1, <1>2

\* Evaluating an action keeps DecideInv.
LEMMA EvaluateDecides == ASSUME RollInv, DecideInv, NEW d \in Deliveries, Ingest!Evaluate(d) PROVE DecideInv'
<1> DEFINE now == Ingest!OpenLinks(Ingest!Of(d))
<1>0. stage[d] = "evaluate" /\ stage[d] \in RowHeld
    BY DEF Ingest!Evaluate, RowHeld
<1>1. /\ tx[d].todo \subseteq Provisioned
      /\ \A x \in tx[d].opens : x \in Provisioned /\ x.type = "create_task" /\ x.trigger = tx[d].saved.state
      /\ \A l \in tx[d].closes : l \in now /\ \E y \in Provisioned : y.trigger = tx[d].saved.state /\ Ingest!Closes(y, l)
      /\ \A x \in Provisioned \ tx[d].todo : ~x.window /\ Ingest!Triggered(x, tx[d].saved, 0) =>
           /\ x.type = "create_task" => x \in tx[d].opens \/ \E l \in now : l.action = x
           /\ x.type # "create_task" => \A l \in now : Ingest!Closes(x, l) => l \in tx[d].closes
    BY <1>0 DEF DecideInv, Decided
<1>2. /\ Moves(d) /\ tx'[d].saved = tx[d].saved
      /\ \/ /\ stage'[d] = "commit" /\ tx'[d].opens = tx[d].opens /\ tx'[d].closes = tx[d].closes
            /\ tx'[d].todo = {} /\ \A x \in tx[d].todo : ~Ingest!Wanted(x, tx[d].saved)
         \/ stage'[d] = "write" /\ \E x \in tx[d].todo : Evaluated(d, x)
    BY EvaluateMoves
<1>3. Ingest!OpenLinks(Ingest!Of(d))' = now
  <2>1. Ingest!Of(d)' = Ingest!Of(d) /\ links' = links
    BY <1>0, <1>2, EventsStay DEF Moves
  <2> QED BY <2>1 DEF Ingest!OpenLinks
<1>4. \A x : Ingest!Triggered(x, tx[d].saved, 0) <=> Ingest!Wanted(x, tx[d].saved) /\ Ingest!FlapGuardSatisfied(x, tx[d].saved, 0)
    BY DEF Ingest!Triggered
<1>5. \A x : Ingest!Wanted(x, tx[d].saved) => x.trigger = tx[d].saved.state
    BY DEF Ingest!Wanted
<1>6. Decided(d)'
  <2>1. CASE /\ stage'[d] = "commit" /\ tx'[d].opens = tx[d].opens /\ tx'[d].closes = tx[d].closes
             /\ tx'[d].todo = {} /\ \A x \in tx[d].todo : ~Ingest!Wanted(x, tx[d].saved)
    <3> HIDE DEF now
    <3> QED BY <1>1, <1>2, <1>3, <1>4, <2>1 DEF Decided
  <2>2. ASSUME NEW x \in tx[d].todo, Evaluated(d, x), stage'[d] = "write" PROVE Decided(d)'
    <3>1. /\ x \in tx[d].todo /\ Ingest!Wanted(x, tx[d].saved) /\ tx'[d].todo = tx[d].todo \ {x}
          /\ tx[d].opens \subseteq tx'[d].opens /\ tx'[d].opens \subseteq tx[d].opens \cup {x}
          /\ tx[d].closes \subseteq tx'[d].closes
          /\ \A y \in tx'[d].opens : y \in tx[d].opens \/ y.type = "create_task"
          /\ \A l \in tx'[d].closes : l \in tx[d].closes \/ (l \in now /\ Ingest!Closes(x, l))
          /\ ~x.window /\ Ingest!FlapGuardSatisfied(x, tx[d].saved, 0) =>
               /\ x.type = "create_task" => x \in tx'[d].opens \/ \E l \in now : l.action = x
               /\ \A l \in now : Ingest!Closes(x, l) => l \in tx'[d].closes
      BY <2>2 DEF Evaluated
    <3> HIDE DEF now
    <3>2. /\ tx'[d].todo \subseteq Provisioned
          /\ \A y \in tx'[d].opens : y \in Provisioned /\ y.type = "create_task" /\ y.trigger = tx[d].saved.state
          /\ \A l \in tx'[d].closes : l \in now /\ \E y \in Provisioned : y.trigger = tx[d].saved.state /\ Ingest!Closes(y, l)
      BY <1>1, <1>5, <3>1
    <3>3. ASSUME NEW y \in Provisioned \ tx'[d].todo, ~y.window, Ingest!Triggered(y, tx[d].saved, 0)
          PROVE  /\ y.type = "create_task" => y \in tx'[d].opens \/ \E l \in now : l.action = y
                 /\ y.type # "create_task" => \A l \in now : Ingest!Closes(y, l) => l \in tx'[d].closes
      <4>1. CASE y = x
        BY <1>4, <3>1, <3>3, <4>1
      <4>2. CASE y # x
        BY <1>1, <3>1, <3>3, <4>2
      <4> QED BY <4>1, <4>2
    <3> QED BY <1>2, <1>3, <2>2, <3>2, <3>3 DEF Decided
  <2> QED BY <1>2, <2>1, <2>2
<1> QED BY <1>0, <1>2, <1>6, MovesDecide DEF DecideInv, RowHeld

\* Writing the task links keeps DecideInv.
LEMMA WriteDecides == ASSUME RollInv, DecideInv, NEW d \in Deliveries, Ingest!Write(d) PROVE DecideInv'
<1>0. stage[d] = "write"
    BY DEF Ingest!Write
<1>1. CASE Ingest!Fail(d, "link")
    BY <1>0, <1>1, FailDecides
<1>2. CASE ~Ingest!Fail(d, "link")
  <2>1. Moves(d) /\ stage[d] = "write" /\ stage'[d] = "evaluate" /\ tx'[d] = tx[d]
    BY <1>2, WriteMoves
  <2>2. Ingest!Of(d)' = Ingest!Of(d) /\ links' = links
    BY <2>1, EventsStay DEF Moves
  <2>3. Decided(d)'
    BY <2>1, <2>2 DEF DecideInv, Decided, RowHeld, Ingest!OpenLinks
  <2> QED BY <2>1, <2>3, MovesDecide DEF DecideInv, RowHeld
<1> QED BY <1>1, <1>2

\* A commit changes the links of its own observable only.
LEMMA CommitLinks ==
    ASSUME RollInv, DecideInv, NEW d \in Deliveries, Ingest!Commit(d)
    PROVE  /\ LinksKnown'
           /\ \A t \in Targets : t # Ingest!Of(d) => Ingest!OpenLinks(t)' = Ingest!OpenLinks(t)
           /\ \A l \in Ingest!OpenLinks(Ingest!Of(d)) : l \notin tx[d].closes => l \in Ingest!OpenLinks(Ingest!Of(d))'
           /\ \A l \in Ingest!OpenLinks(Ingest!Of(d))' :
                (l \in Ingest!OpenLinks(Ingest!Of(d)) /\ l \notin tx[d].closes) \/ l.action \in tx[d].opens
           /\ \A x \in tx[d].opens : \E l \in Ingest!OpenLinks(Ingest!Of(d))' : l.action = x
<1> DEFINE o == Ingest!Of(d)
           closed == {[l EXCEPT !.open = FALSE] : l \in tx[d].closes}
           opened == {[target |-> o, action |-> x, by |-> d, open |-> TRUE] : x \in tx[d].opens}
<1>1. stage[d] = "commit" /\ o' = o /\ links' = (links \ tx[d].closes) \cup closed \cup opened
    BY CommitMoves
<1>2. Decided(d) /\ LinksKnown
    BY DEF DecideInv
<1>3. \A l \in tx[d].closes : l \in links /\ l.target = o
    BY <1>1, <1>2 DEF Decided, RowHeld, Ingest!OpenLinks
<1>4. \A l \in closed : /\ l.open = FALSE /\ l.target = o
                        /\ DOMAIN l = {"target", "action", "by", "open"}
                        /\ l.action \in Provisioned /\ l.action.type = "create_task"
  <2> SUFFICES ASSUME NEW k \in tx[d].closes
               PROVE  LET l == [k EXCEPT !.open = FALSE]
                      IN /\ l.open = FALSE /\ l.target = o
                         /\ DOMAIN l = {"target", "action", "by", "open"}
                         /\ l.action \in Provisioned /\ l.action.type = "create_task"
    OBVIOUS
  <2>1. /\ DOMAIN k = {"target", "action", "by", "open"} /\ k.target = o
        /\ k.action \in Provisioned /\ k.action.type = "create_task"
    BY <1>2, <1>3 DEF LinksKnown
  <2> HIDE DEF o
  <2> QED BY <2>1
<1>5. \A l \in opened : /\ l.open = TRUE /\ l.target = o /\ l.action \in tx[d].opens
                        /\ DOMAIN l = {"target", "action", "by", "open"}
    OBVIOUS
<1>6. \A x \in tx[d].opens : x \in Provisioned /\ x.type = "create_task"
    BY <1>1, <1>2 DEF Decided, RowHeld
<1>7. \A x \in tx[d].opens : \E l \in opened : l.action = x
  <2> TAKE x \in tx[d].opens
  <2> DEFINE k == [target |-> o, action |-> x, by |-> d, open |-> TRUE]
  <2>1. k \in opened /\ k.action = x
    OBVIOUS
  <2> QED BY <2>1
<1> HIDE DEF closed, opened, o
<1>8. LinksKnown'
    BY <1>1, <1>2, <1>4, <1>5, <1>6 DEF LinksKnown
<1>9. \A t \in Targets : t # o => Ingest!OpenLinks(t)' = Ingest!OpenLinks(t)
    BY <1>1, <1>3, <1>4, <1>5 DEF Ingest!OpenLinks
<1>10. \A l \in Ingest!OpenLinks(o) : l \notin tx[d].closes => l \in Ingest!OpenLinks(o)'
    BY <1>1 DEF Ingest!OpenLinks
<1>11. \A l \in Ingest!OpenLinks(o)' : (l \in Ingest!OpenLinks(o) /\ l \notin tx[d].closes) \/ l.action \in tx[d].opens
    BY <1>1, <1>4, <1>5 DEF Ingest!OpenLinks
<1>12. \A x \in tx[d].opens : \E l \in Ingest!OpenLinks(o)' : l.action = x
    BY <1>1, <1>5, <1>7 DEF Ingest!OpenLinks
<1> QED BY <1>8, <1>9, <1>10, <1>11, <1>12 DEF o

\* The commit keeps DecideInv.
LEMMA CommitDecides == ASSUME RollInv, DecideInv, NEW d \in Deliveries, Ingest!Commit(d) PROVE DecideInv'
<1> DEFINE o == Ingest!Of(d)
           s == tx[d].saved
           before == Ingest!OpenLinks(o)
           after == Ingest!OpenLinks(o)'
<1>1. /\ stage[d] = "commit" /\ o \in Targets
      /\ stage'[d] = "done"
      /\ \A e \in Deliveries \ {d} : tx'[e] = tx[e] /\ stage'[e] = stage[e]
      /\ \A e \in Deliveries : Ingest!Of(e)' = Ingest!Of(e)
      /\ exists' = exists \cup tx[d].new
      /\ observable'[o] = s
      /\ \A t \in Targets : t # o => observable'[t] = observable[t]
    BY CommitMoves
<1>2. /\ LinksKnown'
      /\ \A t \in Targets : t # o => Ingest!OpenLinks(t)' = Ingest!OpenLinks(t)
      /\ \A l \in before : l \notin tx[d].closes => l \in after
      /\ \A l \in after : (l \in before /\ l \notin tx[d].closes) \/ l.action \in tx[d].opens
      /\ \A x \in tx[d].opens : \E l \in after : l.action = x
    BY CommitLinks
<1>3. /\ \A x \in tx[d].opens : x \in Provisioned /\ x.type = "create_task" /\ x.trigger = s.state
      /\ \A l \in tx[d].closes : /\ l \in before
                                 /\ \E y \in Provisioned : y.trigger = s.state /\ Ingest!Closes(y, l)
      /\ \A x \in Provisioned : ~x.window /\ Ingest!Triggered(x, s, 0) =>
             /\ x.type = "create_task" => x \in tx[d].opens \/ \E l \in before : l.action = x
             /\ x.type # "create_task" => \A l \in before : Ingest!Closes(x, l) => l \in tx[d].closes
    BY <1>1 DEF DecideInv, Decided, RowHeld
<1>4. LinksKnown
    BY DEF DecideInv
<1>5. \A l \in before : l.action \in Provisioned /\ l.action.type = "create_task"
    BY <1>4 DEF LinksKnown, Ingest!OpenLinks
<1>6. \A x \in Provisioned : Ingest!Triggered(x, s, 0) => x.trigger = s.state
    BY DEF Ingest!Triggered, Ingest!Wanted
<1>7. Ingest!RowDecides'
  <2> SUFFICES ASSUME NEW t \in Targets \cap exists', NEW x \in Provisioned,
                      ~x.window, Ingest!Triggered(x, observable'[t], 0)
               PROVE  IF x.type = "create_task" THEN \E l \in Ingest!OpenLinks(t)' : l.action = x
                      ELSE \A l \in Ingest!OpenLinks(t)' : ~Ingest!Closes(x, l)
    BY DEF Ingest!RowDecides, Ingest!Triggered, Ingest!Wanted, Ingest!FlapGuardSatisfied, Ingest!Closes
  <2>0. t = o => Ingest!OpenLinks(t)' = after
    BY <1>1 DEF Ingest!OpenLinks
  <2>1. CASE t = o
    <3>0. Ingest!Triggered(x, s, 0) /\ x.trigger = s.state
      BY <1>1, <1>6, <2>1
    <3> HIDE DEF before, after, s, o
    <3>1. CASE x.type = "create_task"
      <4>1. CASE x \in tx[d].opens
        BY <1>2, <2>0, <2>1, <3>1, <4>1
      <4>2. CASE x \notin tx[d].opens
        <5>1. PICK l \in before : l.action = x
          BY <1>3, <3>0, <3>1, <4>2
        <5>2. l \notin tx[d].closes
          BY <1>3, <1>4, <3>0, <3>1, <5>1, NoneCloses
        <5>3. l \in after
          BY <1>2, <5>1, <5>2
        <5> QED BY <2>0, <2>1, <3>1, <5>1, <5>3
      <4> QED BY <4>1, <4>2
    <3>2. CASE x.type # "create_task"
      <4>1. ASSUME NEW l \in after PROVE ~Ingest!Closes(x, l)
        <5>1. CASE l \in before /\ l \notin tx[d].closes
          BY <1>3, <3>0, <3>2, <5>1
        <5>2. CASE l.action \in tx[d].opens
          BY <1>3, <1>4, <3>0, <5>2, NoneCloses
        <5> QED BY <1>2, <5>1, <5>2
      <4> QED BY <2>0, <2>1, <3>2, <4>1
    <3> QED BY <3>1, <3>2
  <2>2. CASE t # o
    <3>1. t \notin tx[d].new
      BY <1>1, <2>2, IngestAssumption DEF RollInv, CallKnown
    <3>2. t \in exists /\ observable'[t] = observable[t] /\ Ingest!OpenLinks(t)' = Ingest!OpenLinks(t)
      BY <1>1, <1>2, <2>2, <3>1
    <3> QED BY <3>2 DEF DecideInv, Ingest!RowDecides
  <2> QED BY <2>1, <2>2
<1>8. Exclusive'
    BY <1>1 DEF DecideInv, Exclusive, RowHeld
<1>9. ASSUME NEW e \in Deliveries PROVE Decided(e)'
  <2>1. CASE e = d
    BY <1>1, <2>1 DEF Decided, RowHeld
  <2>2. CASE e # d /\ stage[e] \in RowHeld
    <3>1. tx'[e] = tx[e] /\ stage'[e] = stage[e] /\ Ingest!Of(e)' = Ingest!Of(e)
      BY <1>1, <2>2
    <3>2. Ingest!Of(e) # o /\ Ingest!Of(e) \in Targets
      BY <1>1, <2>2 DEF DecideInv, Exclusive, RowHeld, RollInv, CallKnown
    <3>3. Ingest!OpenLinks(Ingest!Of(e))' = Ingest!OpenLinks(Ingest!Of(e))
      BY <1>2, <3>1, <3>2 DEF Ingest!OpenLinks
    <3> QED BY <3>1, <3>3 DEF DecideInv, Decided
  <2>3. CASE e # d /\ stage[e] \notin RowHeld
    BY <1>1, <2>3 DEF Decided
  <2> QED BY <2>1, <2>2, <2>3
<1> QED BY <1>2, <1>7, <1>8, <1>9 DEF DecideInv

\* A committed row that triggers a task has an open one for it, and one that
\* resolves a task type leaves none of that type open, whatever the order of
\* the deliveries (evaluateActions after the saved row).
THEOREM RowDecidesTasks == Ingest!Spec => []RowDecides
<1>1. Ingest!Init => RollInv /\ DecideInv
  <2> SUFFICES ASSUME Ingest!Init PROVE RollInv /\ DecideInv
    OBVIOUS
  <2>1. stage = [d \in Deliveries |-> "new"] /\ links = {} /\ exists = {}
    BY DEF Ingest!Init
  <2>2. DecideInv
    BY <2>1 DEF DecideInv, Exclusive, RowHeld, LinksKnown, Decided, Ingest!RowDecides
  <2> QED BY <2>2, RollInit
<1>2. RollInv /\ DecideInv /\ [Ingest!Next]_Ingest!vars => (RollInv /\ DecideInv)'
  <2> SUFFICES ASSUME RollInv, DecideInv, [Ingest!Next]_Ingest!vars PROVE RollInv' /\ DecideInv'
    OBVIOUS
  <2>1. RollInv'
    BY RollStep, MarkKeepsCalls DEF Ingest!vars
  <2>2. ASSUME NEW d \in Deliveries, Ingest!Receive(d) \/ Ingest!Statement(d) \/ Ingest!Interrupt(d) PROVE DecideInv'
    BY <2>2, EarlyDecides, UpdateDecides, EvaluateDecides, WriteDecides, CommitDecides DEF Ingest!Statement
  <2>3. ASSUME UNCHANGED <<stage, tx, exists, observable, links>> PROVE DecideInv'
    <3>1. \A d : Ingest!Of(d)' = Ingest!Of(d) /\ \A t : Ingest!OpenLinks(t)' = Ingest!OpenLinks(t)
      BY <2>3 DEF Ingest!Of, Ingest!OpenLinks
    <3>2. Exclusive' /\ LinksKnown' /\ \A d \in Deliveries : Decided(d)'
      BY <2>3, <3>1 DEF DecideInv, Exclusive, LinksKnown, Decided
    <3>3. Ingest!RowDecides'
      BY <2>3, <3>1 DEF DecideInv, Ingest!RowDecides
    <3> QED BY <3>2, <3>3 DEF DecideInv
  <2>4. ASSUME NEW k \in exists, Ingest!Delete(k) \/ Ingest!Restore(k) PROVE DecideInv'
    BY <2>3, <2>4 DEF Ingest!Delete, Ingest!Restore, Ingest!Mark
  <2> QED BY <2>1, <2>2, <2>3, <2>4 DEF Ingest!Next, Ingest!vars
<1>3. DecideInv => RowDecides
    BY DEF DecideInv, RowDecides
<1> QED BY <1>1, <1>2, <1>3, PTL DEF Ingest!Spec
=============================================================================
