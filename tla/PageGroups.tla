----------------------------- MODULE PageGroups -----------------------------
(***************************************************************************)
(* A page and the members it is published with: home and its videos, about *)
(* and its history.  The public state of the group is written as a whole;  *)
(* manifests record what each publication did with which member.  About    *)
(* and a home of template home.v1 are published in the transaction of the  *)
(* handler, a home of template home.v2 by a worker, which grants public    *)
(* access to its banner.                                                   *)
(*                                                                         *)
(* Every transaction that changes a page or a member locks the row of the  *)
(* page and is one step.  Requests that are refused have no step.  A text  *)
(* is named by the version that wrote it.  The locales are left out: all   *)
(* texts are complete.                                                     *)
(***************************************************************************)
EXTENDS ContentOutbox

CONSTANTS
    PageKey,     \* "home" or "about"
    Legacy,      \* whether the page was published before there were manifests
    Children,    \* the members: videos or history entries
    Reader       \* whether the steps of a reading editor are followed

VARIABLES
    page,        \* content_entry, page_item and translations of the page
    child,       \* those of the members
    pageRev,     \* content_revision of the page
    childRev,    \* content_revision of the members
    manifest,    \* page_publication_manifest by page version
    pageProj,    \* public_projection of the page
    childProj,   \* public_projection of the members
    seen         \* what an editor has read: first the page, then the members

groupRows == <<page, child, pageRev, childRev, manifest, pageProj, childProj>>
groupVars == <<groupRows, seen, outboxVars>>

NoRef  == Ref(Banner, 0, 0)
NoBody == [template |-> "none", text |-> <<0, 0>>, banner |-> 0]
NoPageProj  == [ver |-> 0, body |-> NoBody]
NoChildProj == [ver |-> 0, text |-> 0]
Gone(status) == [status |-> status, ver |-> 0, text |-> 0]

\* A text of the page: the version of the page that wrote it, and that of the
\* sources a migration took it from.
Written(v) == <<v, 0>>

Exists(c)      == child[c].status \notin {"absent", "deleted"}
IsPublished(c) == childProj[c] # NoChildProj
PageIsPublished == pageProj # NoPageProj
Finished       == {v \in DOMAIN manifest : manifest[v].state \in {"published", "unpublished"}}

Put(f, x, y) == [z \in DOMAIN f \cup {x} |-> IF z = x THEN y ELSE f[z]]

Status(status) == [page EXCEPT !.status = status, !.ver = @ + 1]
InsertPageRevision == pageRev' = Put(pageRev, page'.ver, page'.body)
InsertRevisions(members) ==
    childRev' = [c \in Children |-> IF c \in members
                    THEN Put(childRev[c], child'[c].ver, child'[c].text) ELSE childRev[c]]

----------------------------------------------------------------------------
(* Editing                                                                 *)

\* lockContentVersion of the page, with the current version.
Mutable == page.status \notin InFlight /\ page.ver < MaxVersion

\* Mutant of TouchPageGroup: a publication that runs is not looked at.
TouchAnytime ==
    /\ page.ver < MaxVersion
    /\ page' = IF page.status \in InFlight THEN page ELSE Status("draft")

\* Mutant of TouchPageGroup: the version stays.
TouchStatus == Mutable /\ page' = [page EXCEPT !.status = "draft"]

\* Every change of a member makes the page a draft of a new version.
TouchPageGroup == Mutable /\ page' = Status("draft")

WriteChild(c, row) ==
    /\ TouchPageGroup
    /\ child' = [child EXCEPT ![c] = row]
    /\ InsertRevisions({c})
    /\ UNCHANGED <<pageRev, manifest, pageProj, childProj, outboxVars>>

CreateChild(c) ==
    /\ child[c].status = "absent"
    /\ WriteChild(c, [status |-> "draft", ver |-> 1, text |-> 1])

UpdateChild(c) ==
    /\ Exists(c)
    /\ WriteChild(c, [status |-> "draft", ver |-> child[c].ver + 1, text |-> child[c].ver + 1])

\* hasPublicContentState or hasPageGroupManifestState.
\* Mutant: manifests are not looked at.
HasPublicState(c) == IsPublished(c)
HasGroupState(c) == IsPublished(c) \/ \E v \in DOMAIN manifest : c \in DOMAIN manifest[v].items

\* DeleteContent of a member that is or was public: the next publication
\* removes it.
RemoveChild(c) ==
    /\ Exists(c) /\ HasGroupState(c)
    /\ WriteChild(c, [child[c] EXCEPT !.status = "pending_removal", !.ver = @ + 1])

\* DeleteContent of a member that never was.
DeleteChild(c) ==
    /\ Exists(c) /\ ~HasGroupState(c)
    /\ child[c].status # "published"
    /\ TouchPageGroup
    /\ child' = [child EXCEPT ![c] = Gone("deleted")]
    /\ childRev' = [childRev EXCEPT ![c] = [v \in {} |-> 0]]
    /\ UNCHANGED <<pageRev, manifest, pageProj, childProj, outboxVars>>

\* An edit of the page, or adminHomeBannerComplete with the image it completed.
UpdatePage(body) ==
    /\ Mutable
    /\ page' = [Status("draft") EXCEPT !.body = body]
    /\ InsertPageRevision
    /\ UNCHANGED <<child, childRev, manifest, pageProj, childProj, outboxVars>>

EditText     == UpdatePage([page.body EXCEPT !.text = Written(page.ver + 1)])
AttachBanner == /\ page.body.template = "home.v2"
                /\ UpdatePage([page.body EXCEPT !.banner = page.ver + 1])

----------------------------------------------------------------------------
(* Manifests                                                               *)

Item(c, n, action) == [source |-> child[c].ver, target |-> child[c].ver + n, action |-> action]

\* The members a publication takes along.
Members == {c \in Children : child[c].status \in {"published", "draft", "publish_failed"}}

\* collectGroupManifest: an unpublished member is left out.
CollectManifest ==
    [c \in Members \cup {x \in Children : child[x].status = "pending_removal"} |->
        CASE child[c].status = "pending_removal" -> Item(c, 1, "remove")
          [] child[c].status = "published"       -> Item(c, 0, "keep")
          [] OTHER                               -> Item(c, 1, "publish")]

\* capturePublishedBaseline: what was public before the first manifest.
WithBaseline ==
    IF DOMAIN manifest # {} \/ ~PageIsPublished THEN manifest
    ELSE Put(manifest, pageProj.ver,
             [state |-> "published",
              items |-> [c \in {x \in Children : IsPublished(x)} |->
                            [source |-> childProj[c].ver, target |-> childProj[c].ver,
                             action |-> "keep"]]])

InsertManifest(state, items) ==
    manifest' = Put(WithBaseline, page.ver + 1, [state |-> state, items |-> items])

ActionOf(action) == CASE action = "remove" -> "unpublished" [] OTHER -> "published"

\* updateGroupChildStatus of all members of a manifest.
UpdateMembers(items) ==
    child' = [c \in Children |-> IF c \in DOMAIN items
                THEN [child[c] EXCEPT !.status = ActionOf(items[c].action),
                                      !.ver = items[c].target]
                ELSE child[c]]

\* The public state of the group is deleted and written again.
WriteProjections(v, items) ==
    /\ pageProj' = [ver |-> v, body |-> page.body]
    /\ childProj' = [c \in Children |->
            IF c \in DOMAIN items /\ items[c].action # "remove"
            THEN [ver |-> items[c].target, text |-> child[c].text] ELSE NoChildProj]

\* The members that get a revision of a publication: not those it removes.
Revised(items) == {c \in DOMAIN items : items[c].action = "publish"}

----------------------------------------------------------------------------
(* Publication by a handler                                                *)

\* The banner that is public is taken back: enqueueGrantRevoke.
ClearBanner(row) ==
    /\ page' = [row EXCEPT !.pub = NoRef]
    /\ outbox' = IF page.pub = NoRef THEN outbox
                 ELSE InsertOne(outbox, RevokeKey(page.pub), {page.pub})

PublishPageGroup ==
    /\ Mutable
    /\ page.body.template # "home.v2"
    /\ InsertManifest("published", CollectManifest)
    /\ WriteProjections(page.ver + 1, CollectManifest)
    /\ UpdateMembers(CollectManifest)
    /\ InsertRevisions(Revised(CollectManifest))
    /\ ClearBanner(Status("published"))
    /\ InsertPageRevision
    /\ UNCHANGED <<work, grants, faults>>

UnpublishGroup ==
    LET items == [c \in {x \in Children : IsPublished(x)} |-> Item(c, 1, "remove")]
    IN /\ Mutable
       /\ PageIsPublished
       /\ InsertManifest("unpublished", items)
       /\ pageProj' = NoPageProj
       /\ childProj' = [c \in Children |-> NoChildProj]
       /\ UpdateMembers(items)
       /\ InsertRevisions(DOMAIN items)
       /\ ClearBanner(Status("unpublished"))
       /\ InsertPageRevision
       /\ UNCHANGED <<work, grants, faults>>

\* What RestorePageGroup needs of the revision v of the group.
Restorable(v) ==
    /\ v \in DOMAIN pageRev
    /\ \A c \in DOMAIN manifest[v].items :
          Exists(c) /\ manifest[v].items[c].target \in DOMAIN childRev[c]

\* RestorePageGroup: the members of the revision come back as they were, all
\* others are to be removed.
RestorePageGroup(v) ==
    LET items == manifest[v].items
        Restored(c) ==
            IF ~Exists(c) THEN child[c]
            ELSE IF c \notin DOMAIN items
            THEN [child[c] EXCEPT !.status = "pending_removal", !.ver = @ + 1]
            ELSE [status |-> IF items[c].action = "remove" THEN "pending_removal" ELSE "draft",
                  ver |-> child[c].ver + 1, text |-> childRev[c][items[c].target]]
    IN /\ Mutable
       /\ v \in Finished /\ Restorable(v)
       /\ child' = [c \in Children |-> Restored(c)]
       /\ InsertRevisions({c \in Children : Exists(c)})
       /\ page' = [Status("draft") EXCEPT !.body = pageRev[v]]
       /\ InsertPageRevision
       /\ UNCHANGED <<manifest, pageProj, childProj, outboxVars>>

----------------------------------------------------------------------------
(* Publication of a home.v2 page by a worker                               *)

StartHomePublish ==
    /\ Mutable
    /\ page.body.template = "home.v2" /\ page.body.banner # 0
    /\ InsertManifest("pending", CollectManifest)
    /\ page' = Status("publishing")
    /\ outbox' = InsertOne(outbox, PublishKey(page.ver + 1), {Ref(Banner, page.body.banner, 0)})
    /\ UNCHANGED <<child, pageRev, childRev, pageProj, childProj, work, grants, faults>>

\* validateGroupManifestChildren.
MembersFit(items) ==
    \A c \in DOMAIN items :
        /\ child[c].ver = items[c].source
        /\ child[c].status \in CASE items[c].action = "keep"    -> {"published"}
                                 [] items[c].action = "publish" -> {"draft", "publish_failed"}
                                 [] items[c].action = "remove"  -> {"pending_removal"}

IsPending(v) == v \in DOMAIN manifest /\ manifest[v].state = "pending"

\* The page still is in the publication of this event.
Current(k) ==
    /\ page.status = "publishing" /\ page.ver = k.ver
    /\ page.body.template = "home.v2"
    /\ IsPending(k.ver)
    /\ \A r \in outbox[k].refs : r.asset = page.body.banner
    /\ MembersFit(manifest[k.ver].items)

\* What completeHomePublish writes, for the banner r it got a grant for.
PublishHome(k, r) ==
    LET items == manifest[k.ver].items
        box   == Mark(outbox, k, "delivered")
    IN /\ WriteProjections(k.ver, items)
       /\ page' = [page EXCEPT !.status = "published", !.pub = r]
       /\ UpdateMembers(items)
       /\ InsertRevisions(Revised(items))
       /\ InsertPageRevision
       /\ manifest' = [manifest EXCEPT ![k.ver].state = "published"]
       /\ outbox' = IF page.pub \in {NoRef, r} THEN box
                    ELSE InsertOne(box, RevokeKey(page.pub), {page.pub})

CompleteHomePublish(w) ==
    /\ Busy(w, "complete")
    /\ LET k == work[w].key
           delivered == EventOf(w).status = "delivered"
       IN \/ delivered /\ Release(w) /\ UNCHANGED <<groupRows, outbox, faults>>
          \/ /\ ~delivered /\ ~Current(k)                   \* ErrStalePublication
             /\ Goto(w, "compensate")
             /\ UNCHANGED <<groupRows, outbox, faults>>
          \/ /\ ~delivered /\ Current(k)
             /\ PublishHome(k, First(work[w].done))
             /\ Answered(w, AfterPublishError(w))
          \/ RollsBack(w, AfterPublishError(w)) /\ UNCHANGED groupRows
    /\ UNCHANGED grants

\* Mutant of FailHome: only the event fails.
FailEventOnly(k) == UNCHANGED <<page, manifest>>

\* failEvent: the page and its manifest, if they still are in this publication.
FailHome(k) ==
    /\ page' = IF k.kind = "publish" /\ page.status = "publishing" /\ page.ver = k.ver
               THEN [page EXCEPT !.status = "publish_failed"] ELSE page
    /\ manifest' = IF k.kind = "publish" /\ IsPending(k.ver)
                   THEN [manifest EXCEPT ![k.ver].state = "failed"] ELSE manifest

otherRows == <<child, pageRev, childRev, pageProj, childProj>>

Fail(w) ==
    /\ Busy(w, "fail")
    /\ outbox' = Mark(outbox, work[w].key, "failed")
    /\ FailHome(work[w].key)
    /\ Release(w)
    /\ UNCHANGED <<otherRows, grants, faults>>

\* FailContentPublish revokes the grant the attempt got; its error is retried.
FailContentPublish(w) ==
    /\ Busy(w, "compensate")
    /\ \/ /\ outbox' = Insert(Mark(outbox, work[w].key, "failed"), CompensateKey,
                              work[w].done)
          /\ FailHome(work[w].key)
          /\ Answered(w, "retry")
          /\ UNCHANGED otherRows
       \/ RollsBack(w, "retry") /\ UNCHANGED groupRows
    /\ UNCHANGED grants

----------------------------------------------------------------------------
(* The specification                                                       *)

\* An editor reads the page, then lists the members.
ReadPage ==
    /\ Reader
    /\ seen' = [ver |-> page.ver, listed |-> FALSE, texts |-> [c \in {} |-> 0]]
    /\ UNCHANGED <<groupRows, outboxVars>>

Texts == [c \in Members |-> child[c].text]

ReadMembers ==
    /\ seen.ver # 0 /\ ~seen.listed
    /\ seen' = [seen EXCEPT !.listed = TRUE, !.texts = Texts]
    /\ UNCHANGED <<groupRows, outboxVars>>

\* A page the content seed created; or one that was published, with its first
\* member, before groups had manifests.
GroupInit ==
    LET body == [template |-> IF PageKey = "home" THEN "home.v1" ELSE "about.v1",
                 text |-> Written(1), banner |-> 0]
        first == CHOOSE c \in Children : TRUE
        Only(x, y) == [c \in Children |-> IF Legacy /\ c = first THEN x ELSE y]
    IN /\ page = [status |-> IF Legacy THEN "published" ELSE "draft",
                  ver |-> IF Legacy THEN 2 ELSE 1, body |-> body, pub |-> NoRef]
       /\ pageRev = [v \in 1 .. page.ver |-> body]
       /\ child = Only([status |-> "published", ver |-> 2, text |-> 1], Gone("absent"))
       /\ childRev = Only([v \in 1 .. 2 |-> 1], [v \in {} |-> 0])
       /\ manifest = [v \in {} |-> [state |-> "none"]]
       /\ pageProj = IF Legacy THEN [ver |-> 2, body |-> body] ELSE NoPageProj
       /\ childProj = Only([ver |-> 2, text |-> 1], NoChildProj)
       /\ seen = [ver |-> 0, listed |-> FALSE, texts |-> [c \in {} |-> 0]]
       /\ OutboxInit

GroupWorker(w) ==
    \/ OutboxStep(w) /\ UNCHANGED groupRows
    \/ CreatePublicGrant(w, "retry") /\ UNCHANGED groupRows
    \/ CompleteHomePublish(w) \/ FailContentPublish(w) \/ Fail(w)

GroupEdit ==
    \/ \E c \in Children : CreateChild(c) \/ UpdateChild(c) \/ RemoveChild(c) \/ DeleteChild(c)
    \/ EditText \/ AttachBanner
    \/ PublishPageGroup \/ UnpublishGroup \/ StartHomePublish
    \/ \E v \in Finished : RestorePageGroup(v)

GroupNext ==
    \/ GroupEdit /\ UNCHANGED seen
    \/ ReadPage \/ ReadMembers
    \/ \E w \in Workers :
          /\ \/ /\ (\E k \in DOMAIN outbox : Claim(w, k)) \/ Crash(w)
                /\ UNCHANGED groupRows
             \/ GroupWorker(w)
          /\ UNCHANGED seen

GroupSpec == GroupInit /\ [][GroupNext]_groupVars

\* What a worker of the deployment goes on with.
GroupProgress(w) ==
    /\ GroupWorker(w) \/ \E k \in DOMAIN outbox : Claim(w, k) /\ UNCHANGED groupRows
    /\ UNCHANGED seen

----------------------------------------------------------------------------
(* Properties                                                              *)

\* The values of all variables.
GroupTypeOK ==
    /\ OutboxTypeOK
    /\ page.status \in {"draft", "published", "unpublished", "publishing", "publish_failed"}
    /\ page.ver \in Versions
    /\ page.pub \in Refs \cup {NoRef}
    /\ \A c \in Children :
          /\ child[c].status \in {"absent", "deleted", "draft", "published", "unpublished",
                                  "pending_removal"}
          /\ child[c].ver \in 0 .. MaxVersion /\ child[c].text \in 0 .. MaxVersion
          /\ DOMAIN childRev[c] \subseteq Versions
          /\ childProj[c].ver \in 0 .. MaxVersion
    /\ DOMAIN pageRev \subseteq Versions
    /\ \A v \in DOMAIN manifest : /\ v \in Versions
                                  /\ DOMAIN manifest[v].items \subseteq Children
    /\ seen.ver \in 0 .. MaxVersion

Latest == CHOOSE v \in Finished : \A x \in Finished : x <= v

\* What is public of a group is what its latest publication decided; and a
\* publication that runs still fits the members it collected.
ManifestsMatchMembers ==
    /\ Finished # {} =>
          LET m == manifest[Latest]
              public == {c \in DOMAIN m.items : m.items[c].action # "remove"}
          IN IF m.state = "unpublished"
             THEN ~PageIsPublished /\ \A c \in Children : ~IsPublished(c)
             ELSE /\ pageProj.ver = Latest
                  /\ public = {c \in Children : IsPublished(c)}
                  /\ \A c \in public : /\ childProj[c].ver = m.items[c].target
                                       /\ childProj[c].text = childRev[c][m.items[c].target]
    /\ {v \in DOMAIN manifest : manifest[v].state = "pending"}
            = IF page.status = "publishing" THEN {page.ver} ELSE {}
    /\ page.status = "publishing" => MembersFit(manifest[page.ver].items)

\* A publication with the version an editor read publishes the members the
\* editor read after it.
GroupPublishesWhatWasSeen ==
    seen.listed /\ seen.ver = page.ver => seen.texts = Texts

\* A revision of the group that is listed can be restored, as far as it
\* published its members or took the whole group back.
GroupRevisionsAreRestorable ==
    \A v \in Finished :
        /\ v \in DOMAIN pageRev
        /\ \A c \in DOMAIN manifest[v].items :
              /\ Exists(c)
              /\ \/ manifest[v].items[c].target \in DOMAIN childRev[c]
                 \/ manifest[v].state = "published" /\ manifest[v].items[c].action = "remove"

BannerIsServed ==
    pageProj.body.template = "home.v2" =>
        /\ page.pub = Ref(Banner, pageProj.body.banner, pageProj.ver)
        /\ page.pub \in grants

BannerGrantsAreAccounted ==
    \A g \in grants : g.image = Banner => g = page.pub \/ Accounted(g)

\* As long as no worker loses its lease: the banner of a public home page is
\* served under the grant that is recorded; and a live grant is recorded in the
\* page, or an event is still to revoke it, or its publication goes on, or its
\* publication has failed with an attempt that did not know of it.  Only that
\* last grant stays for good.
BannerGrantsFit == ~faults.lost => BannerIsServed /\ BannerGrantsAreAccounted

\* Nothing is in flight, and no grant that is to be revoked is live.
Settled ==
    /\ page.status \notin InFlight
    /\ \A g \in grants : ~Open(RevokeKey(g)) /\ ~Open(CompensateKey(g))
=============================================================================
