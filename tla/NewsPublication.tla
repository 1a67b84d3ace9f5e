-------------------------- MODULE NewsPublication --------------------------
(***************************************************************************)
(* One news entry: its editing, its revisions and its publication, which   *)
(* grants public access to its detail cover and its home cover.  Requests  *)
(* that are refused change nothing and have no step.  Every transaction    *)
(* compares the version of the request with that of the row, and so what   *)
(* the handlers and the service read before it is what it finds.  Texts    *)
(* and locales are left out.                                               *)
(***************************************************************************)
EXTENDS ContentOutbox

CONSTANT Edits      \* what an edit does to the covers

VARIABLES
    entry,     \* content_entry and news_item
    revision,  \* content_revision: the covers of each saved version
    proj       \* public_projection: the version and covers that are public

newsRows == <<entry, revision, proj>>
newsVars == <<newsRows, outboxVars>>

Covers   == {Detail, HomeCover}

ASSUME EditsAssumption == Edits \subseteq [Covers -> {"keep", "new", "clear"}]

NoCovers == [i \in Covers |-> 0]
NoCover(i) == Ref(i, 0, 0)
NoPub    == [i \in Covers |-> NoCover(i)]
NoProj   == [ver |-> 0, cover |-> NoCovers]
NoEntry  == [status |-> "absent", ver |-> 0, cover |-> NoCovers, pub |-> NoPub]

\* publishedAssets: the recorded images that have a grant.
PublishedAssets == {r \in {entry.pub[i] : i \in Covers} : r.asset # 0 /\ r.grant # 0}

\* lockContentVersion, with the current version.
MutableNews ==
    /\ entry.status \notin {"absent", "deleted"} \cup InFlight
    /\ entry.ver < MaxVersion

\* UPDATE content_entry SET status=..., version=version+1
Advance(status) == entry' = [entry EXCEPT !.status = status, !.ver = @ + 1]

\* insertRevision of the entry as it is after the transaction.
InsertRevision ==
    revision' = [v \in DOMAIN revision \cup {entry'.ver} |->
                    IF v = entry'.ver THEN entry'.cover ELSE revision[v]]

CreateNews ==
    /\ entry.status = "absent"
    /\ entry' = [NoEntry EXCEPT !.status = "draft", !.ver = 1]
    /\ InsertRevision
    /\ UNCHANGED <<proj, outboxVars>>

\* updateContent.
WriteDraft(cover) ==
    /\ MutableNews
    /\ entry' = [entry EXCEPT !.status = "draft", !.ver = @ + 1, !.cover = cover]
    /\ InsertRevision
    /\ UNCHANGED <<proj, outboxVars>>

\* An edit, or adminNewsCoverComplete with the image it just completed.
UpdateNews(edit) ==
    WriteDraft([i \in Covers |-> CASE edit[i] = "keep"  -> entry.cover[i]
                                   [] edit[i] = "new"   -> entry.ver + 1
                                   [] edit[i] = "clear" -> 0])

RestoreNews(v) == v \in DOMAIN revision /\ WriteDraft(revision[v])

\* The handler refuses an entry without a detail cover.
StartPublish ==
    /\ MutableNews
    /\ entry.cover[Detail] # 0
    /\ Advance("publishing")
    /\ outbox' = InsertOne(outbox, PublishKey(entry.ver + 1),
            {Ref(i, entry.cover[i], 0) : i \in {j \in Covers : entry.cover[j] # 0}})
    /\ InsertRevision
    /\ UNCHANGED <<proj, work, grants, faults>>

\* IsPublished is whether the entry has a projection.
StartUnpublish ==
    /\ MutableNews
    /\ proj # NoProj
    /\ Advance("unpublishing")
    /\ proj' = NoProj
    /\ outbox' = InsertOne(outbox, UnpublishKey(entry.ver + 1), PublishedAssets)
    /\ UNCHANGED <<revision, work, grants, faults>>

\* contentAssetIDs: the covers of the entry and of every revision.
AssetIDs == {Ref(i, c[i], 0) : i \in Covers, c \in {entry.cover} \cup
                {revision[v] : v \in DOMAIN revision}}

NewsIsPublic == proj # NoProj \/ \E i \in Covers : entry.pub[i].grant # 0

DeleteNews ==
    /\ entry.status \in {"draft", "unpublished"}
    /\ ~NewsIsPublic
    /\ outbox' = Insert(outbox, DeleteKey, {r \in AssetIDs : r.asset # 0})
    /\ entry' = [NoEntry EXCEPT !.status = "deleted"]
    /\ revision' = [v \in {} |-> NoCovers]
    /\ UNCHANGED <<proj, work, grants, faults>>

Expected(k) == IF k.kind = "publish" THEN "publishing" ELSE "unpublishing"
CurrentNews(k)  == entry.status = Expected(k) /\ entry.ver = k.ver

\* Mutant of FailEntry: a publication of news fails like one of home.
FailAsHome(k) ==
    IF k.kind \in {"publish", "unpublish"} /\ CurrentNews(k)
    THEN [entry EXCEPT !.status = IF k.kind = "publish" THEN "publish_failed"
                                                        ELSE "unpublish_failed"]
    ELSE entry

\* failEvent: the row goes back only if it still is in this publication.
FailEntry(k) ==
    IF k.kind \in {"publish", "unpublish"} /\ CurrentNews(k)
    THEN [entry EXCEPT !.status = IF k.kind = "publish" THEN "draft"
                                                        ELSE "unpublish_failed"]
    ELSE entry

FailNews(w) ==
    /\ Busy(w, "fail")
    /\ outbox' = Mark(outbox, work[w].key, "failed")
    /\ entry' = FailEntry(work[w].key)
    /\ Release(w)
    /\ UNCHANGED <<revision, proj, grants, faults>>

\* The recorded grants a publication replaces.
Replaced(refs) ==
    {r \in {entry.pub[i] : i \in Covers} :
        /\ r.grant # 0
        /\ \A x \in refs : x.image = r.image => x.grant # r.grant}

\* What CompleteContentPublish writes of the entry and its projection.
PublishEntry(k, refs) ==
    /\ entry' = [entry EXCEPT !.status = "published", !.pub =
            [i \in Covers |-> IF \E r \in refs : r.image = i
                              THEN CHOOSE r \in refs : r.image = i ELSE NoCover(i)]]
    /\ proj' = [ver |-> k.ver, cover |-> entry.cover]
    /\ outbox' = Insert(Mark(outbox, k, "delivered"), RevokeKey, Replaced(refs))

CompleteContentPublish(w) ==
    /\ Busy(w, "complete")
    /\ LET k == work[w].key
           delivered == EventOf(w).status = "delivered"
       IN \/ delivered /\ Release(w) /\ UNCHANGED <<newsRows, outbox, faults>>
          \/ /\ ~delivered /\ ~CurrentNews(k)                   \* ErrStalePublication
             /\ Goto(w, "compensate")
             /\ UNCHANGED <<newsRows, outbox, faults>>
          \/ /\ ~delivered /\ CurrentNews(k)
             /\ PublishEntry(k, work[w].done)
             /\ Answered(w, AfterPublishError(w))
             /\ UNCHANGED revision
          \/ RollsBack(w, AfterPublishError(w)) /\ UNCHANGED newsRows
    /\ UNCHANGED grants

\* Mutant of FailNewsPublish: the grants are not revoked.
FailUncompensated(w) ==
    /\ Busy(w, "compensate")
    /\ \/ /\ outbox' = Mark(outbox, work[w].key, "failed")
          /\ entry' = FailEntry(work[w].key)
          /\ Answered(w, "retry")
          /\ UNCHANGED <<revision, proj>>
       \/ RollsBack(w, "retry") /\ UNCHANGED newsRows
    /\ UNCHANGED grants

\* FailContentPublish revokes the grants this attempt knows of; its error is
\* retried.
FailNewsPublish(w) ==
    /\ Busy(w, "compensate")
    /\ \/ /\ outbox' = Insert(Mark(outbox, work[w].key, "failed"), CompensateKey,
                              work[w].done)
          /\ entry' = FailEntry(work[w].key)
          /\ Answered(w, "retry")
          /\ UNCHANGED <<revision, proj>>
       \/ RollsBack(w, "retry") /\ UNCHANGED newsRows
    /\ UNCHANGED grants

CompleteContentUnpublish(w) ==
    /\ Busy(w, "finish") /\ work[w].key.kind = "unpublish"
    /\ LET k == work[w].key
           delivered == EventOf(w).status = "delivered"
       IN \/ delivered /\ Release(w) /\ UNCHANGED <<entry, outbox, faults>>
          \/ /\ ~delivered /\ ~CurrentNews(k)                   \* ErrStalePublication
             /\ Goto(w, AfterError(w))
             /\ UNCHANGED <<entry, outbox, faults>>
          \/ /\ ~delivered /\ CurrentNews(k)
             /\ entry' = [entry EXCEPT !.status = "unpublished", !.pub = NoPub]
             /\ outbox' = Mark(outbox, k, "delivered")
             /\ Answered(w, AfterError(w))
          \/ RollsBack(w, AfterError(w)) /\ UNCHANGED entry
    /\ UNCHANGED <<revision, proj, grants>>

NewsInit ==
    /\ entry = NoEntry
    /\ revision = [v \in {} |-> NoCovers]
    /\ proj = NoProj
    /\ OutboxInit

NewsWorker(w) ==
    \/ OutboxStep(w) /\ UNCHANGED newsRows
    \/ CreatePublicGrant(w, AfterPublishError(w)) /\ UNCHANGED newsRows
    \/ CompleteContentPublish(w) \/ FailNewsPublish(w)
    \/ CompleteContentUnpublish(w) \/ FailNews(w)

NewsNext ==
    \/ CreateNews \/ StartPublish \/ StartUnpublish \/ DeleteNews
    \/ \E edit \in Edits : UpdateNews(edit)
    \/ \E v \in Versions : RestoreNews(v)
    \/ \E w \in Workers : /\ \/ \E k \in DOMAIN outbox : Claim(w, k)
                             \/ Crash(w)
                          /\ UNCHANGED newsRows
    \/ \E w \in Workers : NewsWorker(w)

NewsSpec == NewsInit /\ [][NewsNext]_newsVars

\* What a worker of the deployment goes on with.
NewsProgress(w) ==
    NewsWorker(w) \/ \E k \in DOMAIN outbox : Claim(w, k) /\ UNCHANGED newsRows

\* The values of all variables.
NewsTypeOK ==
    /\ OutboxTypeOK
    /\ entry.status \in {"absent", "deleted", "draft", "published", "unpublished",
                         "unpublish_failed"} \cup InFlight
    /\ entry.ver \in 0 .. MaxVersion
    /\ entry.cover \in [Covers -> 0 .. MaxVersion]
    /\ \A i \in Covers : entry.pub[i] \in Refs \cup {NoCover(i)}
    /\ DOMAIN revision \subseteq Versions
    /\ proj.ver \in 0 .. MaxVersion

CoversAreServed ==
    \A i \in Covers : proj.cover[i] # 0 =>
        Ref(i, proj.cover[i], proj.ver) \in grants /\ entry.pub[i].grant = proj.ver

CoverGrantsAreAccounted ==
    \A g \in grants : g.image \in Covers => g \in PublishedAssets \/ Accounted(g)

\* As long as no worker loses its lease: a public entry shows its covers under
\* live grants; and a live grant is recorded in the entry, or an event is still
\* to revoke it, or its publication goes on, or its publication has failed with
\* an attempt that did not know of it.  Only that last grant stays for good.
CoverGrantsFit == ~faults.lost => CoversAreServed /\ CoverGrantsAreAccounted

\* Nothing is in flight, and no grant that is to be revoked is live.
NewsSettled ==
    /\ entry.status \notin InFlight
    /\ \A g \in grants : ~Open(RevokeKey(g)) /\ ~Open(CompensateKey(g))
----------------------------------------------------------------------------
(* The abstract lifecycle, with the entry as the one edition there is      *)

Only == "entry"

\* A deleted entry is none; the covers are its asset.
EntryRow ==
    [phase |-> IF entry.status = "deleted" THEN "absent" ELSE entry.status,
     asset |-> entry.cover]

\* Readers see the covers of the projection, if there is one.
EntryShown == IF proj = NoProj THEN {} ELSE {proj.cover}

Alone(x) == [i \in {Only} |-> [l \in {Only} |-> x]]

Lifecycle == INSTANCE EditionLifecycle WITH
    Issues <- {Only}, Locales <- {Only}, Assets <- [Covers -> 0 .. MaxVersion],
    None <- NoCovers, edition <- Alone(EntryRow), shown <- Alone(EntryShown)

\* A news entry has the lifecycle bulletins have: whatever is claimed twice,
\* fails, is retried or comes late, readers see the covers of the version an
\* editor asked to publish, until it is withdrawn.
NewsPublishesAsPromised == Lifecycle!Spec
=============================================================================
