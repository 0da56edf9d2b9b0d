------------------------------ MODULE Content ------------------------------
(***************************************************************************)
(* What the administrator publishes: blogs, sections about the company,    *)
(* departments and members of the team.  The four services are alike: an   *)
(* article has one picture on disk, which an update with a new picture and *)
(* a removal unlink before they write the row, and its row is loaded,      *)
(* changed in memory and saved.                                            *)
(*                                                                         *)
(* They differ in names.  A blog has a slug, made of its title, and a      *)
(* section is one of few; the table has a unique index on either.  Before  *)
(* that a blog is checked when it is created and when it is renamed, a     *)
(* section when it is created only.  Titles and texts are left out.        *)
(***************************************************************************)
EXTENDS Naturals, FiniteSets

CONSTANTS
    MaxArticles,  \* bound: articles ever created
    Slugs,        \* slugs of blogs, names of sections
    NoSlug,       \* of a department and of a member of the team
    MaxPictures,  \* bound: pictures ever uploaded
    Editors,      \* requests that can be in flight at once
    MaxMishaps    \* bound: requests that fail

ASSUME ContentAssumption ==
    NoSlug \notin Slugs /\ MaxArticles \in Nat \ {0} /\ {MaxPictures, MaxMishaps} \subseteq Nat

VARIABLES
    kind,      \* which of the tables it is
    article,   \* its rows
    stored,    \* the pictures on disk
    named,     \* pictures uploaded so far, each under a new name
    job,       \* the handler each request has in flight
    mishaps,   \* failures so far
    missing    \* history: pictures unlinked by a handler that failed or was refused, and
               \* pictures a save put back on record after the row had changed

contentVars == <<kind, article, stored, named, job, mishaps, missing>>

\* The four tables: whether articles have a slug that is unique, whether create and update
\* ask for it first, and whether there has to be a picture.
Blog        == [slugs |-> TRUE,  createAsks |-> TRUE,  updateAsks |-> TRUE,  pictured |-> TRUE]
CompanyInfo == [slugs |-> TRUE,  createAsks |-> TRUE,  updateAsks |-> FALSE, pictured |-> FALSE]
Department  == [slugs |-> FALSE, createAsks |-> FALSE, updateAsks |-> FALSE, pictured |-> FALSE]
TeamMember  == [slugs |-> FALSE, createAsks |-> FALSE, updateAsks |-> FALSE, pictured |-> FALSE]

Kinds == {Blog, CompanyInfo, Department, TeamMember}

\* Ids and names are random; the model gives them out in order.
Articles  == 1..MaxArticles
Pictures  == 1..MaxPictures
NoPicture == 0

Columns == {"slug", "picture"}

Shape == [slug : Slugs \cup {NoSlug}, picture : Pictures \cup {NoPicture}]
Row   == [state : {"unborn", "here", "gone"}, slug : Slugs \cup {NoSlug},
          picture : Pictures \cup {NoPicture}]
Empty == [slug |-> NoSlug, picture |-> NoPicture]

\* Of which article, what it will be, whether another slug has to be asked for, which picture
\* is to be unlinked; insert and dirty: what the SELECT of save found; fresh: the row has not
\* changed since it was loaded.
Job == [at : {"idle", "creating", "updating", "removing", "unlinked", "selected", "deleting"},
        id : Articles, entity : Shape, renamed : BOOLEAN, unlink : SUBSET Pictures,
        insert : BOOLEAN, dirty : SUBSET Columns, fresh : BOOLEAN]

Begun(at, id, entity, renamed, unlink) ==
    [at |-> at, id |-> id, entity |-> entity, renamed |-> renamed, unlink |-> unlink,
     insert |-> FALSE, dirty |-> {}, fresh |-> TRUE]

NoJob == Begun("idle", 1, Empty, FALSE, {})

Has(a)    == article[a].state = "here"
File(pic) == {pic} \ {NoPicture}

\* What the articles of a table can be called.
Called == IF kind.slugs THEN Slugs ELSE {NoSlug}

\* The unique index, were article a given this slug.
Taken(slug, a) == slug # NoSlug /\ \E b \in Articles \ {a} : Has(b) /\ article[b].slug = slug

ContentInit ==
    /\ kind \in Kinds
    /\ article = [a \in Articles |-> [state |-> "unborn", slug |-> NoSlug, picture |-> NoPicture]]
    /\ stored = {} /\ named = 0 /\ missing = {}
    /\ job = [r \in Editors |-> NoJob]
    /\ mishaps = 0

-----------------------------------------------------------------------------
\* The interceptor stores the picture of a request before its handler runs.
UploadPicture(pic) ==
    /\ pic \in {NoPicture, named + 1}
    /\ stored' = stored \cup File(pic)
    /\ named'  = IF pic = NoPicture THEN named ELSE pic

\* A handler that has loaded article a and will save it.
Saves(q, a) == job[q].at \in {"updating", "unlinked", "selected"} /\ job[q].id = a

\* The row of article a becomes s, and the handler of r is done.
WriteRow(r, a, s) ==
    /\ article' = [article EXCEPT ![a] = s]
    /\ job' = [q \in Editors |->
                  IF q = r THEN NoJob
                  ELSE IF Saves(q, a) THEN [job[q] EXCEPT !.fresh = @ /\ article[a] = s]
                  ELSE job[q]]

\* The handler of r ends with an error; the picture it has unlinked does not come back.
Throw(r) ==
    /\ missing' = missing \cup (job[r].unlink \ stored)
    /\ job' = [job EXCEPT ![r] = NoJob]
    /\ UNCHANGED <<kind, article, stored, named>>

Unborn == {a \in Articles : article[a].state = "unborn"}

\* The bound on articles has room for one more.
IdLeft == Cardinality({r \in Editors : job[r].at = "creating"}) < Cardinality(Unborn)

\* create, addInfo.
CreateArticle(r, slug, pic) ==
    /\ job[r].at = "idle" /\ IdLeft
    /\ kind.createAsks => \A b \in Articles : Has(b) => article[b].slug # slug
    /\ kind.pictured => pic # NoPicture
    /\ UploadPicture(pic)
    /\ job' = [job EXCEPT ![r] = Begun("creating", 1, [slug |-> slug, picture |-> pic], FALSE, {})]
    /\ UNCHANGED <<kind, article, mishaps, missing>>

\* The INSERT of its save, under a new id; the index may refuse it.
InsertArticle(r, a) ==
    LET e == job[r].entity
    IN  /\ job[r].at = "creating"
        /\ a \in Unborn /\ \A b \in Unborn : a <= b
        /\ IF Taken(e.slug, a)
             THEN Throw(r)
             ELSE /\ WriteRow(r, a, [state |-> "here", slug |-> e.slug, picture |-> e.picture])
                  /\ UNCHANGED <<kind, stored, named, missing>>
        /\ UNCHANGED mishaps

\* Mutant of UpdateArticle: the new picture is stored but not recorded.
MutUnrecorded(r, a, slug, pic) ==
    /\ job[r].at = "idle" /\ Has(a)
    /\ UploadPicture(pic)
    /\ job' = [job EXCEPT ![r] =
           Begun("updating", a, [slug |-> slug, picture |-> article[a].picture],
                 kind.updateAsks /\ slug # article[a].slug,
                 IF pic = NoPicture THEN {} ELSE File(article[a].picture))]
    /\ UNCHANGED <<kind, article, mishaps, missing>>

\* update, updateInfo: perhaps another name, perhaps another picture.
UpdateArticle(r, a, slug, pic) ==
    /\ job[r].at = "idle" /\ Has(a)
    /\ UploadPicture(pic)
    /\ job' = [job EXCEPT ![r] =
           Begun("updating", a,
                 [slug |-> slug, picture |-> IF pic = NoPicture THEN article[a].picture ELSE pic],
                 kind.updateAsks /\ slug # article[a].slug,
                 IF pic = NoPicture THEN {} ELSE File(article[a].picture))]
    /\ UNCHANGED <<kind, article, mishaps, missing>>

\* remove, deleteInfo: the picture of the article as loaded goes with it.
RemoveArticle(r, a) ==
    /\ job[r].at = "idle" /\ Has(a)
    /\ job' = [job EXCEPT ![r] = Begun("removing", a, Empty, FALSE, File(article[a].picture))]
    /\ UNCHANGED <<kind, article, stored, named, mishaps, missing>>

\* The picture is unlinked.  Just before, an update of a blog asks whether its new slug
\* is taken, and gives up if it is.
Unlink(r) ==
    /\ job[r].at \in {"updating", "removing"}
    /\ IF job[r].renamed /\ Taken(job[r].entity.slug, job[r].id)
         THEN Throw(r)
         ELSE /\ stored' = stored \ job[r].unlink
              /\ job' = [job EXCEPT ![r].at = IF @ = "updating" THEN "unlinked" ELSE "deleting"]
              /\ UNCHANGED <<kind, article, named, missing>>
    /\ UNCHANGED mishaps

\* The SELECT of save: a row that is gone will be inserted again, of one that is there the
\* columns that differ will be written.
SelectArticle(r) ==
    LET row == article[job[r].id]
        e   == job[r].entity
    IN  /\ job[r].at = "unlinked"
        /\ job' = [job EXCEPT ![r] = [@ EXCEPT !.at = "selected", !.insert = ~Has(job[r].id),
                                               !.dirty = {c \in Columns : e[c] # row[c]}]]
        /\ UNCHANGED <<kind, article, stored, named, mishaps, missing>>

\* The indexes on slug and id refuse what a save is about to write.
Refused(s) ==
    \/ s.insert /\ (Has(s.id) \/ Taken(s.entity.slug, s.id))
    \/ ~s.insert /\ Has(s.id) /\ "slug" \in s.dirty /\ Taken(s.entity.slug, s.id)

\* The row a save leaves behind: an UPDATE does not bring back what is gone.
Saved(s) ==
    LET row == article[s.id]
    IN  IF s.insert THEN [state |-> "here", slug |-> s.entity.slug, picture |-> s.entity.picture]
        ELSE IF Has(s.id) THEN [state |-> "here",
                                slug    |-> IF "slug" \in s.dirty THEN s.entity.slug ELSE row.slug,
                                picture |-> IF "picture" \in s.dirty THEN s.entity.picture ELSE row.picture]
        ELSE row

\* The INSERT or UPDATE of save.
CommitArticle(r) ==
    LET s == job[r]
    IN  /\ s.at = "selected"
        /\ IF Refused(s)
             THEN Throw(r)
             ELSE /\ WriteRow(r, s.id, Saved(s))
                  /\ missing' = IF s.fresh THEN missing
                                           ELSE missing \cup (File(Saved(s).picture) \ stored)
                  /\ UNCHANGED <<kind, stored, named>>
        /\ UNCHANGED mishaps

\* The DELETE of a removal.
DeleteArticle(r) ==
    LET a == job[r].id
    IN  /\ job[r].at = "deleting"
        /\ WriteRow(r, a, [article[a] EXCEPT !.state = "gone"])
        /\ UNCHANGED <<kind, stored, named, mishaps, missing>>

\* A request fails after it has unlinked a picture, or the process restarts.  One that fails
\* earlier has changed nothing, but may leave its upload on disk.
Mishap(r) ==
    /\ job[r].at \in {"unlinked", "selected", "deleting"} /\ job[r].unlink # {}
    /\ mishaps < MaxMishaps /\ mishaps' = mishaps + 1
    /\ Throw(r)

ContentNext ==
    \E r \in Editors :
        \/ \E slug \in Called, pic \in Pictures \cup {NoPicture} :
               \/ CreateArticle(r, slug, pic)
               \/ \E a \in Articles : UpdateArticle(r, a, slug, pic)
        \/ \E a \in Articles : InsertArticle(r, a) \/ RemoveArticle(r, a)
        \/ Unlink(r) \/ SelectArticle(r) \/ CommitArticle(r) \/ DeleteArticle(r)
        \/ Mishap(r)

ContentSpec == ContentInit /\ [][ContentNext]_contentVars

-----------------------------------------------------------------------------
(* Correctness.                                                            *)

\* The type invariant.
ContentTypeOK ==
    /\ kind \in Kinds
    /\ article \in [Articles -> Row]
    /\ named \in 0..MaxPictures /\ stored \subseteq 1..named /\ missing \subseteq 1..named
    /\ job \in [Editors -> Job]
    /\ mishaps \in 0..MaxMishaps

\* The picture of an article is on disk, except while a handler that will replace it or
\* remove the article is under way, except after one that unlinked it was refused by the
\* index (a section or blog that was given a taken name) or failed, and except after the
\* save of a row that had changed since it was loaded (update, updateInfo, remove,
\* deleteInfo).
PicturesShown ==
    \A a \in Articles :
        Has(a) => \A pic \in File(article[a].picture) \ (stored \cup missing) :
                      \E r \in Editors : pic \in job[r].unlink

=============================================================================
