---------------------------- MODULE MCRecordSave ----------------------------
(***************************************************************************)
(* Instances of RecordSave and DocsArticles for TLC: saves of a record and *)
(* saves of articles.  `part` says which of the two moves in a behaviour,  *)
(* so that one run explores both without their product.                    *)
(***************************************************************************)
EXTENDS RecordSave, TLC

CONSTANTS w1, w2, w3

\* A save through the API, a bulk update and a script.
MCAll == w1 :> "api" @@ w2 :> "bulk" @@ w3 :> "script"

\* Two editor pages on an article of migration 065 and a new one.
CONSTANTS Articles, Slugs, Bodies, Editors, Seeded, NoSlug, NoArticle, NoRowsMatch, MaxSaves
VARIABLES part, library, article, versions, page, save, moved
docs == <<library, article, versions, page, save, moved>>
Docs == INSTANCE DocsArticles WITH row <- article, Pages <- Editors, MaxVersion <- MaxSaves

\* An article of the migration is an article, an article has a slug.
ASSUME DocsAssumption ==
    Seeded \subseteq Articles /\ MaxSaves \in Nat \ {0} /\ NoSlug \notin Slugs

MCInit ==
    /\ Init /\ Docs!Init
    /\ part \in {"record", "docs"}
MCNext ==
    \/ part = "record" /\ Next /\ UNCHANGED <<part, docs>>
    \/ part = "docs" /\ Docs!Next /\ UNCHANGED <<part, vars>>
MCSpec == MCInit /\ [][MCNext]_<<part, vars, docs>>

Symmetry == Permutations(Editors) \cup Permutations(Bodies) \cup Permutations(Slugs)

\* Every save of an article leaves its snapshot, whatever overtakes it
\* (saveDocsArticle; see DocsArticles).
HistoryMatches == Docs!HistoryMatches
\* An editor page writes another article than it shows only if the slug moved
\* behind it (original_slug; see DocsArticles).
StraysOnlyAfterMove == Docs!StraysOnlyAfterMove
\* Creating an article never fails because there is no row to update (`case
\* sql.ErrNoRows`, "Create Article"; see DocsArticles).
CreateSucceeds == Docs!CreateSucceeds
=============================================================================
