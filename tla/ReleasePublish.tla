--------------------------- MODULE ReleasePublish ---------------------------
(***************************************************************************)
(* The draft transaction that publishes a release, against a remote        *)
(* repository that other actors use too.                                   *)
(*                                                                         *)
(* A publisher is one run of publish(): a sequence of requests, each of    *)
(* them an action here.  A request fails when its response is lost, late   *)
(* or not what was expected; the publisher then never learns whether the   *)
(* server received it, and the server may still carry it out later.  An    *)
(* administrator edits drafts, moves the tag, deletes releases or switches *)
(* the immutability policy off, at most MaxAdmin times.                    *)
(*                                                                         *)
(* All publishers release the same tag; "other" releases only fill the     *)
(* pages of the listing.  An artifact's bytes are the publisher that       *)
(* sealed them.                                                            *)
(***************************************************************************)
EXTENDS Integers, FiniteSets, FiniteSetsExt

CONSTANTS
    Publishers,
    Admin,         \* whoever else edits the repository
    Names,         \* artifact names
    MaxReleases,   \* bound: releases ever created
    MaxOther,      \* bound: releases of other tags
    PageSize,      \* entries in one page of the listing
    MaxPages,      \* maximumReleasePages
    MaxAdmin       \* bound: steps of the administrator

ASSUME PublishAssumption ==
    /\ Admin \notin Publishers
    /\ IsFiniteSet(Names) /\ Names # {}
    /\ MaxReleases \in Nat /\ MaxOther \in Nat /\ MaxOther <= MaxReleases
    /\ PageSize \in Nat \ {0} /\ MaxPages \in Nat \ {0} /\ MaxAdmin \in Nat

VARIABLES
    releases,  \* remote: the releases that exist, a function from their ids
    nextId,    \* remote: the next id
    tag,       \* remote: [at, locked], what the tag resolves to
    enforced,  \* remote: immutable releases are enabled and enforced
    inflight,  \* requests whose publisher has given up on them
    admin,     \* steps of the administrator so far
    pub        \* per publisher: where its run is and what it knows

remote == <<releases, nextId, tag, enforced>>
vars == <<remote, inflight, admin, pub>>

Ids     == 1 .. MaxReleases
Actors  == Publishers \cup {Admin}
Asset   == [name : Names, from : Actors]
Release == [of : {"this", "other"}, draft : BOOLEAN, immutable : BOOLEAN,
            by : Actors, assets : SUBSET Asset, tampered : BOOLEAN]
Request == [op : {"create", "upload", "publish"}, by : Publishers, id : Ids \cup {0},
            asset : SUBSET Asset]

Requests == {"settings", "list", "tag1", "create", "reconcile", "upload", "draft",
             "assets1", "overflow1", "download1", "tag2", "patch", "published",
             "assets2", "overflow2", "download2", "tag3"}
Running  == Requests \cup {"seal"}

Existing       == DOMAIN releases
OfTag          == {r \in Existing : releases[r].of = "this"}
Sealed(p)      == {[name |-> a, from |-> p] : a \in Names}
Published(r)   == ~releases[r].draft
With(r, value) == [releases EXCEPT ![r] = value]
Add(r, value)  == [x \in Existing \cup {r} |-> IF x = r THEN value ELSE releases[x]]

-----------------------------------------------------------------------------
(* The server's handlers: what a request does when it is carried out.      *)

ServerCreates(p) ==
    /\ nextId <= MaxReleases
    /\ releases' = Add(nextId, [of |-> "this", draft |-> TRUE, immutable |-> FALSE,
                                by |-> p, assets |-> {}, tampered |-> FALSE])
    /\ nextId' = nextId + 1
    /\ UNCHANGED <<tag, enforced>>

\* A name is taken once, and an immutable release takes no more assets.
ServerAccepts(r, a) ==
    /\ r \in Existing /\ ~releases[r].immutable
    /\ \A b \in releases[r].assets : b.name # a.name
ServerUploads(r, a) ==
    /\ ServerAccepts(r, a)
    /\ releases' = With(r, [releases[r] EXCEPT !.assets = @ \cup {a}])
    /\ UNCHANGED <<nextId, tag, enforced>>

\* A tag names at most one published release; publishing an immutable one
\* locks its tag.  Publishing again changes nothing.
ServerMayPublish(r) ==
    r \in Existing /\ \A s \in OfTag \ {r} : ~Published(s)
ServerPublishes(r) ==
    /\ ServerMayPublish(r)
    /\ releases' = IF Published(r) THEN releases
                   ELSE With(r, [releases[r] EXCEPT !.draft = FALSE,
                                                    !.immutable = enforced])
    /\ tag' = [tag EXCEPT !.locked = @ \/ (~Published(r) /\ enforced)]
    /\ UNCHANGED <<nextId, enforced>>

Deliver ==
    \E q \in inflight :
        /\ inflight' = inflight \ {q}
        /\ \/ q.op = "create"  /\ ServerCreates(q.by)
           \/ q.op = "upload"  /\ \E a \in q.asset : ServerUploads(q.id, a)
           \/ q.op = "publish" /\ ServerPublishes(q.id)
        /\ UNCHANGED <<admin, pub>>

-----------------------------------------------------------------------------
(* The administrator, bounded.                                             *)

Tamper(r, value) == releases' = With(r, [value EXCEPT !.tampered = TRUE])

AdminActs ==
    /\ admin < MaxAdmin
    /\ admin' = admin + 1
    /\ \/ /\ ~tag.locked
          /\ tag' = [tag EXCEPT !.at = IF @ = "commit" THEN "elsewhere" ELSE "commit"]
          /\ UNCHANGED <<releases, nextId, enforced>>
       \/ /\ enforced' = ~enforced
          /\ UNCHANGED <<releases, nextId, tag>>
       \/ \E r \in OfTag : \E a \in releases[r].assets :
             /\ ~releases[r].immutable
             /\ \/ Tamper(r, [releases[r] EXCEPT !.assets = @ \ {a}])
                \/ Tamper(r, [releases[r] EXCEPT !.assets =
                                 (@ \ {a}) \cup {[a EXCEPT !.from = Admin]}])
             /\ UNCHANGED <<nextId, tag, enforced>>
       \/ \E r \in OfTag : \E a \in Names :
             /\ ServerAccepts(r, [name |-> a, from |-> Admin])
             /\ Tamper(r, [releases[r] EXCEPT !.assets =
                              @ \cup {[name |-> a, from |-> Admin]}])
             /\ UNCHANGED <<nextId, tag, enforced>>
       \/ \E r \in OfTag :
             /\ ServerMayPublish(r) /\ ~Published(r)
             /\ Tamper(r, [releases[r] EXCEPT !.draft = FALSE, !.immutable = enforced])
             /\ tag' = [tag EXCEPT !.locked = @ \/ enforced]
             /\ UNCHANGED <<nextId, enforced>>
       \/ \E r \in Existing :
             /\ releases' = [x \in Existing \ {r} |-> releases[x]]
             /\ UNCHANGED <<nextId, tag, enforced>>
    /\ UNCHANGED <<inflight, pub>>

\* Another tag is released: one entry more in front of the listing.
OtherTagReleased ==
    /\ nextId <= MaxReleases
    /\ Cardinality(Existing \ OfTag) < MaxOther
    /\ releases' = Add(nextId, [of |-> "other", draft |-> FALSE, immutable |-> TRUE,
                                by |-> Admin, assets |-> {}, tampered |-> FALSE])
    /\ nextId' = nextId + 1
    /\ UNCHANGED <<tag, enforced, inflight, admin, pub>>

-----------------------------------------------------------------------------
(* A publisher's run.                                                      *)

Init ==
    /\ releases = [r \in {} |-> r]
    /\ nextId = 1
    /\ tag = [at |-> "commit", locked |-> FALSE]
    /\ enforced = TRUE
    /\ inflight = {}
    /\ admin = 0
    /\ pub = [p \in Publishers |->
                [pc |-> "idle", page |-> 1, mine |-> 0, todo |-> Names,
                 created |-> FALSE, published |-> FALSE, retained |-> FALSE,
                 result |-> "none", sawOther |-> FALSE, unnamed |-> FALSE]]

Goto(p, next) == pub' = [pub EXCEPT ![p] = [@ EXCEPT !.pc = next, !.todo = Names, !.page = 1]]

\* The run ends; the deferred function reports a draft that was kept unless
\* publication was attempted.
End(p, run, result) ==
    pub' = [pub EXCEPT ![p] = [run EXCEPT !.pc = "done", !.result = result,
                !.retained = result = "error" /\ run.created /\ ~run.published]]
Fail(p) == End(p, pub[p], "error")

\* sawOther remembers, for the properties only, what there was at the start.
Start(p) ==
    /\ pub[p].pc = "idle"
    /\ pub' = [pub EXCEPT ![p].pc = "settings", ![p].sawOther = OfTag # {}]
    /\ UNCHANGED <<remote, inflight, admin>>

RequireImmutableReleases(p) ==
    /\ pub[p].pc = "settings"
    /\ IF enforced THEN Goto(p, "list") ELSE Fail(p)
    /\ UNCHANGED <<remote, inflight, admin>>

\* The listing shows the newest release first.
Page(k) ==
    {r \in Existing :
        LET newer == Cardinality({s \in Existing : s > r})
        IN  newer >= (k - 1) * PageSize /\ newer < k * PageSize}

\* Mutant: the first page is taken for the whole listing.
LastPageFirst(page) == TRUE
LastPage(page) == Cardinality(page) < PageSize

\* Mutant: the listing is followed without a bound.
NextPageUnbounded(p) == pub' = [pub EXCEPT ![p].page = @ + 1]
\* Mutant: a listing longer than the bound is read again from its start.
NextPageRestart(p) == pub' = [pub EXCEPT ![p].page = (@ % MaxPages) + 1]
NextPage(p) ==
    IF pub[p].page = MaxPages THEN Fail(p)
    ELSE pub' = [pub EXCEPT ![p].page = @ + 1]

\* Mutant: the reconciled draft is used as if the creation had been answered.
ReconciledAdopts(p, r) ==
    pub' = [pub EXCEPT ![p].pc = "upload", ![p].mine = r, ![p].created = TRUE]
\* Mutant: the reconciled draft is not remembered as created.
ReconciledSilently(p, r) == End(p, [pub[p] EXCEPT !.mine = r], "error")
\* After a lost response a release that is found ends the run all the same.
Reconciled(p, r) == End(p, [pub[p] EXCEPT !.mine = r, !.created = ~Published(r)], "error")

\* findReleaseByTag, one page: for rejectExistingRelease, and to reconcile a
\* creation whose response was lost.
FindReleaseByTag(p) ==
    LET page  == Page(pub[p].page)
        found == page \cap OfTag
    IN  /\ pub[p].pc \in {"list", "reconcile"}
        /\ IF found # {} THEN
              IF pub[p].pc = "list" THEN Fail(p) ELSE Reconciled(p, Max(found))
           ELSE IF LastPage(page) THEN
              IF pub[p].pc = "list" THEN Goto(p, "tag1") ELSE Fail(p)
           ELSE NextPage(p)
        /\ UNCHANGED <<remote, inflight, admin>>

\* Mutant: the tag is not looked at again after publication.
RequireRemoteTagCommitBefore(p) ==
    /\ pub[p].pc \in {"tag1", "tag2", "tag3"}
    /\ IF pub[p].pc = "tag3" THEN End(p, pub[p], "ok")
       ELSE IF tag.at # "commit" THEN Fail(p)
       ELSE IF pub[p].pc = "tag1" THEN Goto(p, "create")
       ELSE Goto(p, "seal")
    /\ UNCHANGED <<remote, inflight, admin>>

RequireRemoteTagCommit(p) ==
    /\ pub[p].pc \in {"tag1", "tag2", "tag3"}
    /\ IF tag.at # "commit" THEN Fail(p)
       ELSE IF pub[p].pc = "tag1" THEN Goto(p, "create")
       ELSE IF pub[p].pc = "tag2" THEN Goto(p, "seal")
       ELSE End(p, pub[p], "ok")
    /\ UNCHANGED <<remote, inflight, admin>>

\* The answer to the creation names the new draft, and the run goes on; or it shows
\* the draft of the tag, but not as it was asked for; or its id, tag or draft flag is
\* wrong, and for the run nothing was created (unnamed is for the properties only).
CreateDraft(p) ==
    LET run == [pub[p] EXCEPT !.mine = nextId, !.created = TRUE]
    IN  /\ pub[p].pc = "create"
        /\ ServerCreates(p)
        /\ \/ pub' = [pub EXCEPT ![p] = [run EXCEPT !.pc = "upload"]]
           \/ End(p, run, "error")
           \/ End(p, [pub[p] EXCEPT !.unnamed = TRUE], "error")
        /\ UNCHANGED <<inflight, admin>>

UploadArtifact(p) ==
    /\ pub[p].pc = "upload"
    /\ \E a \in pub[p].todo :
          LET asset == [name |-> a, from |-> p] IN
          /\ a = CHOOSE b \in pub[p].todo : TRUE
          /\ IF ServerAccepts(pub[p].mine, asset)
             THEN /\ ServerUploads(pub[p].mine, asset)
                  /\ IF pub[p].todo = {a} THEN Goto(p, "draft")
                     ELSE pub' = [pub EXCEPT ![p].todo = @ \ {a}]
             ELSE Fail(p) /\ UNCHANGED remote
    /\ UNCHANGED <<inflight, admin>>

RequireDraft(p) ==
    /\ pub[p].pc = "draft"
    /\ IF pub[p].mine \in Existing /\ ~Published(pub[p].mine)
       THEN Goto(p, "assets1") ELSE Fail(p)
    /\ UNCHANGED <<remote, inflight, admin>>

\* requireRemoteArtifactClosure: the listing of the assets, which the code judges
\* when it has the second page too ...
RequireAssetList(p) ==
    /\ pub[p].pc \in {"assets1", "assets2"}
    /\ IF pub[p].mine \in Existing /\ releases[pub[p].mine].assets = Sealed(p)
       THEN Goto(p, IF pub[p].pc = "assets1" THEN "overflow1" ELSE "overflow2")
       ELSE Fail(p)
    /\ UNCHANGED <<remote, inflight, admin>>

\* ... the second page, which must be empty: a page holds 100 assets ...
RequireNoOverflow(p) ==
    /\ pub[p].pc \in {"overflow1", "overflow2"}
    /\ IF pub[p].mine \in Existing /\ Cardinality(releases[pub[p].mine].assets) <= 100
       THEN Goto(p, IF pub[p].pc = "overflow1" THEN "download1" ELSE "download2")
       ELSE Fail(p)
    /\ UNCHANGED <<remote, inflight, admin>>

\* ... and the download of each of them, by the id that was listed.
RequireDownloadedAsset(p) ==
    /\ pub[p].pc \in {"download1", "download2"}
    /\ LET a == CHOOSE b \in pub[p].todo : TRUE IN
       IF pub[p].mine \notin Existing
          \/ [name |-> a, from |-> p] \notin releases[pub[p].mine].assets
       THEN Fail(p)
       ELSE IF pub[p].todo = {a}
       THEN Goto(p, IF pub[p].pc = "download1" THEN "tag2" ELSE "tag3")
       ELSE pub' = [pub EXCEPT ![p].todo = @ \ {a}]
    /\ UNCHANGED <<remote, inflight, admin>>

\* verifyOpenReleaseArtifacts: the sealed descriptors are read once more.
VerifySealed(p) ==
    /\ pub[p].pc = "seal"
    /\ Goto(p, "patch") \/ Fail(p)
    /\ UNCHANGED <<remote, inflight, admin>>

\* The public commit boundary.  The response must show a published, immutable
\* release; a run that got this far no longer reports a retained draft.
PublishDraft(p) ==
    /\ pub[p].pc = "patch"
    /\ LET r   == pub[p].mine
           run == [pub[p] EXCEPT !.published = TRUE]
       IN  IF ServerMayPublish(r)
           THEN /\ ServerPublishes(r)
                /\ IF releases'[r].immutable
                   THEN pub' = [pub EXCEPT ![p] = [run EXCEPT !.pc = "published"]]
                   ELSE End(p, run, "error")
           ELSE End(p, run, "error") /\ UNCHANGED remote
    /\ UNCHANGED <<inflight, admin>>

RequirePublished(p) ==
    /\ pub[p].pc = "published"
    /\ IF /\ pub[p].mine \in Existing /\ Published(pub[p].mine)
          /\ releases[pub[p].mine].immutable
       THEN Goto(p, "assets2") ELSE Fail(p)
    /\ UNCHANGED <<remote, inflight, admin>>

\* A request fails for its publisher.  One that would change the server may
\* still reach it.
RequestFails(p) ==
    LET run == pub[p]
        sent(op, asset) == [op |-> op, by |-> p, id |-> run.mine, asset |-> asset]
    IN  /\ run.pc \in Requests
        /\ CASE run.pc = "create" ->
                  /\ inflight' = inflight \cup {sent("create", {})}
                  /\ pub' = [pub EXCEPT ![p].pc = "reconcile", ![p].unnamed = TRUE]
             [] run.pc = "upload" ->
                  /\ inflight' = inflight \cup
                        {sent("upload", {[name |-> CHOOSE b \in run.todo : TRUE,
                                          from |-> p]})}
                  /\ Fail(p)
             [] run.pc = "patch" ->
                  /\ inflight' = inflight \cup {sent("publish", {})}
                  /\ End(p, [run EXCEPT !.published = TRUE], "error")
             [] OTHER -> Fail(p) /\ UNCHANGED inflight
        /\ UNCHANGED <<remote, admin>>

Crash(p) ==
    /\ pub[p].pc \in Running
    /\ pub' = [pub EXCEPT ![p].pc = "done", ![p].result = "crashed"]
    /\ UNCHANGED <<remote, inflight, admin>>

Step(p) ==
    \/ RequireImmutableReleases(p) \/ FindReleaseByTag(p) \/ RequireRemoteTagCommit(p)
    \/ CreateDraft(p) \/ UploadArtifact(p) \/ RequireDraft(p) \/ RequireAssetList(p)
    \/ RequireNoOverflow(p) \/ RequireDownloadedAsset(p) \/ VerifySealed(p) \/ PublishDraft(p)
    \/ RequirePublished(p) \/ RequestFails(p)

Next ==
    \/ \E p \in Publishers : Start(p) \/ Step(p) \/ Crash(p)
    \/ Deliver
    \/ OtherTagReleased
    \/ AdminActs

Spec == Init /\ [][Next]_vars

\* The client's timeout ends every request, so a run that was started goes on.
FairSpec == Spec /\ \A p \in Publishers : WF_vars(Step(p))

-----------------------------------------------------------------------------
(* Properties.                                                             *)

\* Remote and local state keep their shape; ids are never used twice.
TypeOK ==
    /\ releases \in [Existing -> Release] /\ Existing \subseteq 1 .. (nextId - 1)
    /\ nextId \in 1 .. (MaxReleases + 1)
    /\ tag \in [at : {"commit", "elsewhere"}, locked : BOOLEAN]
    /\ enforced \in BOOLEAN
    /\ inflight \subseteq Request
    /\ admin \in 0 .. MaxAdmin
    /\ pub \in [Publishers ->
                  [pc : Running \cup {"idle", "done"}, page : 1 .. MaxPages,
                   mine : Ids \cup {0}, todo : SUBSET Names, created : BOOLEAN,
                   published : BOOLEAN, retained : BOOLEAN,
                   result : {"none", "ok", "error", "crashed"},
                   sawOther : BOOLEAN, unnamed : BOOLEAN]]

\* A run that reports success leaves a public, immutable release of its own with
\* exactly the sealed artifacts, and its tag still resolves to the commit: every
\* change another actor made in between was noticed by one of the checks.
SuccessIsComplete ==
    \A p \in Publishers :
        (pub[p].result = "ok" /\ pub[p].mine \in Existing) =>
            LET r == releases[pub[p].mine] IN
            /\ ~r.draft /\ r.immutable /\ r.by = p
            /\ r.assets = Sealed(p)
            /\ tag.at = "commit"

\* Nothing incomplete is published: a release that no other actor edited and
\* that is public holds all artifacts of the run that created it, even when an
\* upload failed for the run and reached the server later.
PublishedIsComplete ==
    \A r \in OfTag :
        (Published(r) /\ ~releases[r].tampered) =>
            releases[r].assets = Sealed(releases[r].by)

\* A run puts artifacts only into the draft it created: a draft it found while
\* it reconciled a lost response may belong to another run.
OwnDraftOnly ==
    \A r \in OfTag : \A a \in releases[r].assets : a.from \in {releases[r].by, Admin}

\* A release holds the artifacts of one run, and all of them once it is public: no run
\* adopts, completes or publishes what another began.
ArtifactsOfOneRun == OwnDraftOnly /\ PublishedIsComplete

\* The draft a failed run leaves behind is reported, unless publication had been
\* attempted or no answer named the draft: the creation went unanswered and the
\* listing showed nothing or another draft, or the answer's id, tag or draft flag was
\* wrong.  So no failure after the creation, at whichever request, hides the draft.
DraftIsReported ==
    \A r \in OfTag :
        LET p == releases[r].by IN
        (~Published(r) /\ p # Admin /\ pub[p].result = "error") =>
            \/ pub[p].retained
            \/ pub[p].published
            \/ pub[p].unnamed /\ pub[p].mine # r

\* A run that starts beside a release or draft for its tag never creates another
\* one, as long as nothing is deleted while it pages through the listing.
RerunCreatesNothing ==
    \A p \in Publishers :
        (pub[p].sawOther /\ admin = 0) =>
            /\ \A r \in OfTag : releases[r].by # p
            /\ \A q \in inflight : q.by # p

\* Each run that was started ends, whatever the server answers.
RunEnds == \A p \in Publishers : pub[p].pc # "idle" ~> pub[p].pc = "done"
=============================================================================
