---------------------------- MODULE DocsArticles ----------------------------
(***************************************************************************)
(* The articles of one docs library (cmd/server/handleDocs.go and the      *)
(* editor page of docs-view.html).  An article is found by its slug, which *)
(* its editors may change; a save increments version_num and writes a      *)
(* snapshot row in the same transaction.  The page keeps the slug the      *)
(* article had when it was opened, original_slug, and syncs it with every  *)
(* answer it receives.                                                     *)
(*                                                                         *)
(* The tables have unique indexes on (library, slug) and on (article,      *)
(* version_num).  Title, tags, roles and status follow the body and are    *)
(* left out; archiving an article touches only its status.                 *)
(***************************************************************************)
EXTENDS Naturals, FiniteSets

CONSTANTS
    Articles,      \* rows of _docs_article
    Slugs,         \* slugs an editor may type
    Bodies,        \* texts
    Pages,         \* editor pages, each with at most one save under way
    Seeded,        \* the articles of migration 065
    NoSlug,        \* the empty original_slug of a new article's page
    NoArticle,     \* no row yet
    NoRowsMatch,   \* does `err == sql.ErrNoRows` hold for an empty result?  With pgx it does not
    MaxVersion     \* bound: saves of one article

VARIABLES
    library,   \* _docs_library.status
    row,       \* _docs_article
    versions,  \* _docs_article_version
    page,      \* what each page holds
    save,      \* the request each page has under way
    moved      \* history: the slug of the page's article changed behind the page

vars == <<library, row, versions, page, save, moved>>

Version == 0 .. MaxVersion

Absent == [slug |-> NoSlug, body |-> NoSlug, version |-> 0]

Row == [slug : Slugs, body : Bodies, version : 1 .. MaxVersion] \cup {Absent}

Snapshot == [article : Articles, version : Version, body : Bodies]

\* article is the row the page showed last: the browser does not know it
Page == [mode : {"closed", "new", "edit"}, original : Slugs \cup {NoSlug},
         article : Articles \cup {NoArticle}]

Save == [step : {"idle", "posted", "checked", "found", "missing", "norows", "done"},
         original : Slugs \cup {NoSlug}, slug : Slugs \cup {NoSlug},
         body : Bodies \cup {NoSlug}, found : Articles \cup {NoArticle}, version : Version]

TypeOK ==
    /\ library \in {"active", "archived"}
    /\ row \in [Articles -> Row]
    /\ versions \subseteq Snapshot
    /\ page \in [Pages -> Page]
    /\ save \in [Pages -> Save]
    /\ moved \in [Pages -> BOOLEAN]

-----------------------------------------------------------------------------

Closed == [mode |-> "closed", original |-> NoSlug, article |-> NoArticle]
Idle == [step |-> "idle", original |-> NoSlug, slug |-> NoSlug, body |-> NoSlug,
         found |-> NoArticle, version |-> 0]

Exists(a) == row[a].version > 0

\* idx_docs_article_slug_per_library lets a take slug s
Free(s, a) == \A b \in Articles \ {a} : row[b].slug # s

Snap(a, n, b) == [article |-> a, version |-> n, body |-> b]

\* INSERT ... ON CONFLICT (docs_article_id, version_num) DO NOTHING
Inserted(a, n, b) ==
    IF \E s \in versions : s.article = a /\ s.version = n
    THEN versions
    ELSE versions \cup {Snap(a, n, b)}

Init ==
    /\ library = "active"
    /\ \E s \in [Seeded -> Slugs], b \in [Seeded -> Bodies] :
         /\ \A x, y \in Seeded : s[x] = s[y] => x = y
         /\ row = [a \in Articles |->
                     IF a \in Seeded THEN [slug |-> s[a], body |-> b[a], version |-> 1] ELSE Absent]
         /\ versions = {Snap(a, 1, b[a]) : a \in Seeded}
    /\ page = [p \in Pages |-> Closed]
    /\ save = [p \in Pages |-> Idle]
    /\ moved = [p \in Pages |-> FALSE]

-----------------------------------------------------------------------------
(* The pages.                                                              *)

\* /docs/manage?article=...: the form is rendered from the row
Open(p, a) ==
    /\ page[p].mode = "closed"
    /\ library = "active"
    /\ Exists(a)
    /\ page' = [page EXCEPT ![p] = [mode |-> "edit", original |-> row[a].slug, article |-> a]]
    /\ moved' = [moved EXCEPT ![p] = FALSE]
    /\ UNCHANGED <<library, row, versions, save>>

\* /docs/manage?new_article=1: an empty form with the button "Create Article"
OpenNew(p) ==
    /\ page[p].mode = "closed"
    /\ library = "active"
    /\ page' = [page EXCEPT ![p] = [mode |-> "new", original |-> NoSlug, article |-> NoArticle]]
    /\ moved' = [moved EXCEPT ![p] = FALSE]
    /\ UNCHANGED <<library, row, versions, save>>

Close(p) ==
    /\ page[p].mode # "closed"
    /\ save[p].step = "idle"
    /\ page' = [page EXCEPT ![p] = Closed]
    /\ UNCHANGED <<library, row, versions, save, moved>>

\* ajaxSave: one request at a time, with the slug and the text as typed
Post(p, s, b) ==
    /\ page[p].mode # "closed"
    /\ save[p].step = "idle"
    /\ save' = [save EXCEPT ![p] = [Idle EXCEPT !.step = "posted", !.original = page[p].original,
                                                !.slug = s, !.body = b]]
    /\ UNCHANGED <<library, row, versions, page, moved>>

\* mutant: an answer that leaves original_slug as it was rendered
SyncedMode(pg, slug) == [pg EXCEPT !.mode = "edit"]

\* data.ok: original_slug is synced and the button reads "Save Article"
Synced(pg, slug) == [pg EXCEPT !.mode = "edit", !.original = slug]

Answer(p) ==
    /\ save[p].step = "done"
    /\ page' = [page EXCEPT ![p] = Synced(@, save[p].slug)]
    /\ save' = [save EXCEPT ![p] = Idle]
    /\ UNCHANGED <<library, row, versions, moved>>

\* the answer of a committed save is lost: "Save failed", nothing is synced
AnswerLost(p) ==
    /\ save[p].step = "done"
    /\ save' = [save EXCEPT ![p] = Idle]
    /\ moved' = [moved EXCEPT ![p] = TRUE]
    /\ UNCHANGED <<library, row, versions, page>>

-----------------------------------------------------------------------------
(* saveDocsArticle.                                                        *)

\* listDocsLibraries, before the transaction
CheckLibrary(p) ==
    /\ save[p].step = "posted"
    /\ library = "active"
    /\ save' = [save EXCEPT ![p].step = "checked"]
    /\ UNCHANGED <<library, row, versions, page, moved>>

\* firstNonEmpty(originalSlug, article.Slug)
Key(r) == IF r.original # NoSlug THEN r.original ELSE r.slug

\* SELECT ... WHERE a.slug = key, without a lock
Select(p) ==
    /\ save[p].step = "checked"
    /\ \E a \in Articles :
         /\ Exists(a)
         /\ row[a].slug = Key(save[p])
         /\ save' = [save EXCEPT ![p].step = "found", ![p].found = a, ![p].version = row[a].version]
    /\ UNCHANGED <<library, row, versions, page, moved>>

\* no row: the branch that creates, or `default: return "", err`
SelectNone(p) ==
    /\ save[p].step = "checked"
    /\ \A a \in Articles : Exists(a) => row[a].slug # Key(save[p])
    /\ save' = [save EXCEPT ![p].step = IF NoRowsMatch THEN "missing" ELSE "norows"]
    /\ UNCHANGED <<library, row, versions, page, moved>>

\* mutant: the number the SELECT returned, incremented
NextVersionRead(p) == save[p].version + 1

\* SET version_num = version_num + 1: from the locked row
NextVersion(p) == row[save[p].found].version + 1

\* the pages whose article is renamed behind them
Overtaken(p, a, s) == {q \in Pages \ {p} : page[q].article = a /\ row[a].slug # s}

(***************************************************************************)
(* UPDATE, snapshot and COMMIT: the UPDATE locks the row until the commit  *)
(* and nobody reads an uncommitted row, so the three are one step.         *)
(***************************************************************************)
Update(p) ==
    LET a == save[p].found  r == save[p]  n == NextVersion(p) IN
    /\ r.step = "found"
    /\ n <= MaxVersion
    /\ Free(r.slug, a)
    /\ row' = [row EXCEPT ![a] = [slug |-> r.slug, body |-> r.body, version |-> n]]
    /\ versions' = Inserted(a, n, r.body)
    /\ save' = [save EXCEPT ![p].step = "done", ![p].version = n]
    /\ page' = [page EXCEPT ![p].article = a]
    /\ moved' = [q \in Pages |-> moved[q] \/ q \in Overtaken(p, a, r.slug)]
    /\ UNCHANGED library

\* INSERT of the article and of its first snapshot
Create(p) ==
    LET r == save[p] IN
    /\ r.step = "missing"
    /\ \E a \in Articles :
         /\ ~Exists(a)
         /\ Free(r.slug, a)
         /\ row' = [row EXCEPT ![a] = [slug |-> r.slug, body |-> r.body, version |-> 1]]
         /\ versions' = Inserted(a, 1, r.body)
         /\ save' = [save EXCEPT ![p].step = "done", ![p].found = a, ![p].version = 1]
         /\ page' = [page EXCEPT ![p].article = a]
    /\ UNCHANGED <<library, moved>>

\* every error path, a refusal, a lost connection, a restart: the
\* transaction rolls back and the page shows "Save failed"
Fail(p) ==
    /\ save[p].step \in {"posted", "checked", "found", "missing", "norows"}
    /\ save' = [save EXCEPT ![p] = Idle]
    /\ UNCHANGED <<library, row, versions, page, moved>>

\* archiveDocsLibrary; no operation brings a library back
ArchiveLibrary ==
    /\ library = "active"
    /\ library' = "archived"
    /\ UNCHANGED <<row, versions, page, save, moved>>

Next ==
    \/ \E p \in Pages :
         \/ \E a \in Articles : Open(p, a)
         \/ OpenNew(p)
         \/ Close(p)
         \/ \E s \in Slugs, b \in Bodies : Post(p, s, b)
         \/ Answer(p)
         \/ AnswerLost(p)
         \/ CheckLibrary(p)
         \/ Select(p)
         \/ SelectNone(p)
         \/ Update(p)
         \/ Create(p)
         \/ Fail(p)
    \/ ArchiveLibrary

Spec == Init /\ [][Next]_vars

-----------------------------------------------------------------------------
(* What the articles promise.                                              *)

(***************************************************************************)
(* The snapshots of an article are numbered 1 to its version_num without a *)
(* gap or a repetition and the newest holds its text, however the saves of *)
(* several pages interleave (saveDocsArticle; "Every save creates a        *)
(* snapshot.", docs-view.html).                                            *)
(***************************************************************************)
HistoryMatches ==
    \A a \in Articles :
        LET mine == {s \in versions : s.article = a} IN
        /\ {s.version : s \in mine} = 1 .. row[a].version
        /\ \A s, t \in mine : s.version = t.version => s = t
        /\ \A s \in mine : s.version = row[a].version => s.body = row[a].body
        /\ \A p \in Pages : save[p].step = "done" /\ save[p].found = a
             => Snap(a, save[p].version, save[p].body) \in mine

\* a page opened or saved as one article writes another one
Stray(p) ==
    /\ page[p].mode = "edit" /\ page'[p].mode = "edit"
    /\ page'[p].article # page[p].article

(***************************************************************************)
(* A save writes the article its page shows unless that article's slug was *)
(* changed behind the page, by another page or by a save of its own whose  *)
(* answer was lost (original_slug in docs-view.html, the SELECT by slug of *)
(* saveDocsArticle).                                                       *)
(***************************************************************************)
StraysOnlyAfterMove == [][\A p \in Pages : Stray(p) => moved[p]]_vars

(***************************************************************************)
(* Creating an article never fails because there is no row to update       *)
(* (`case sql.ErrNoRows` of saveDocsArticle, "Create Article" of           *)
(* docs-view.html).                                                        *)
(***************************************************************************)
CreateSucceeds == \A p \in Pages : save[p].step = "norows" => save[p].original # NoSlug

=============================================================================
