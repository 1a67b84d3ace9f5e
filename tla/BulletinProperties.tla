------------------------- MODULE BulletinProperties -------------------------
(***************************************************************************)
(* What the publication of bulletins promises: the type invariant, the     *)
(* agreement between the CMS rows, the outbox and the public projections,  *)
(* what a step may never do, and that every publication settles.           *)
(***************************************************************************)
EXTENDS BulletinPublication

IssueRows ==
    {NoIssue, IssueRow("deleted", 0, 0)} \cup
    [status : Statuses, version : Versions, number : Numbers,
     notif : {"not_requested", "pending", "queued", "failed"}]

VersionRows ==
    {NoVersion} \cup
    [status : Statuses, asset : Assets, grant : GrantIds,
     retAsset : AssetOrNone, retGrant : GrantIds]

Snapshots  == [number : Numbers, assets : [Locales -> AssetOrNone]]
PubRows    == [issue : Issues, ver : Versions, asset : Assets]
LatestRows == [issue : Issues, ver : Versions, asset : Assets,
               number : Numbers, listed : BOOLEAN]

EventRows(k) ==
    [status : {"pending", "processing", "delivered", "failed"},
     attempts : 0 .. MaxAttempts,
     asset : IF k.kind = "notify" THEN {None} ELSE Assets,
     grant : GrantIds, notify : BOOLEAN]

\* A busy worker is in a step of the handler of an event the outbox has.
BusyOK(b) ==
    /\ b.key \in DOMAIN outbox
    /\ b \in [pc : StepsOf(b.key.kind), key : {b.key}, att : 1 .. MaxAttempts]

CmsOK ==
    /\ issue \in [Issues -> IssueRows]
    /\ version \in [Issues -> [Locales -> VersionRows]]

RevisionOK ==
    /\ DOMAIN revision = Issues
    /\ \A i \in Issues : /\ DOMAIN revision[i] \subseteq Versions
                          /\ \A r \in DOMAIN revision[i] : revision[i][r] \in Snapshots

PublicOK ==
    /\ pub \in [Locales -> [Numbers -> PubRows \cup {NoPub}]]
    /\ latest \in [Locales -> LatestRows \cup {NoLatest}]

OutboxOK ==
    /\ DOMAIN outbox \subseteq Keys
    /\ \A k \in DOMAIN outbox : outbox[k] \in EventRows(k)

WorkOK ==
    /\ DOMAIN work = Workers
    /\ \A w \in Workers : work[w] = Idle \/ BusyOK(work[w])

RemoteOK ==
    /\ assets \in [Assets -> {"pending", "clean", "bad", "deleted"}]
    /\ grants \subseteq Assets \X Issues \X Versions
    /\ faults \in 0 .. MaxFaults

\* Every variable holds rows of the shape its table has; an existing version
\* has an asset, and so has every event whose handler calls asset-api.
TypeOK == CmsOK /\ RevisionOK /\ PublicOK /\ OutboxOK /\ WorkOK /\ RemoteOK

----------------------------------------------------------------------------
(* Agreement of the CMS rows with the outbox                               *)

Publishes(k) == k.kind \in {"publish", "unpublish"}

VersionsInFlight(i) == {l \in Locales : version[i][l].status \in InFlight}

\* An issue is publishing (unpublishing) exactly while one of its editions is,
\* and then only that one: editors of other editions and workers that come late
\* never open a second publication of the issue.
SingleFlight ==
    \A i \in Issues :
        IF issue[i].status \in InFlight
        THEN \E l \in Locales : /\ VersionsInFlight(i) = {l}
                                /\ version[i][l].status = issue[i].status
        ELSE VersionsInFlight(i) = {}

\* No publication is stuck without work: while an edition is publishing or
\* unpublishing, the event that will finish it is in the outbox, open, for the
\* issue's current version.
InFlightHasEvent ==
    \A i \in Issues, l \in Locales :
        /\ version[i][l].status = "publishing" =>
                Open(PublishKey(i, l, issue[i].version))
        /\ version[i][l].status = "unpublishing" =>
                Open(UnpublishKey(i, l, issue[i].version))

\* Conversely, an open publish or unpublish event is about the issue as it is
\* now: no edit, restore or delete slipped in between the request and its
\* completion, and the payload still names the edition's asset and grant.
OpenEventIsCurrent ==
    \A k \in DOMAIN outbox :
        (Open(k) /\ Publishes(k)) =>
            LET v == version[k.issue][k.locale]
            IN /\ issue[k.issue].version = k.ver
               /\ v.status = Doing(k.kind)
               /\ k.kind = "publish" => outbox[k].asset = v.asset
               /\ k.kind = "unpublish" => outbox[k].grant = v.grant

\* Publish and unpublish events of an issue are serialised by its aggregate
\* version: no version starts two of them, and none is ahead of the issue.
EventsAreSerial ==
    \A k \in DOMAIN outbox : Publishes(k) =>
        /\ issue[k.issue].status # "deleted" => k.ver <= issue[k.issue].version
        /\ \A j \in DOMAIN outbox :
              (Publishes(j) /\ j.issue = k.issue /\ j.ver = k.ver) => j = k

\* A notification an editor was told is pending has an open event that will
\* queue or fail it, whichever workers raced on it.
PendingNotificationHasEvent ==
    \A i \in Issues : issue[i].notif = "pending" => Open(NotifyKey(i))

----------------------------------------------------------------------------
(* Agreement of the public projections with the CMS rows                   *)

Public(l, n) == pub[l][n] # NoPub

\* What is public can be taken back: a public edition belongs to an existing
\* issue of that number, and its row records exactly the grant the projection
\* was published with, whatever was drafted, restored or retried since.
PublicIsRecorded ==
    \A l \in Locales, n \in Numbers : Public(l, n) =>
        LET p == pub[l][n]
            v == version[p.issue][l]
        IN /\ Exists(p.issue) /\ issue[p.issue].number = n
           /\ p.ver <= issue[p.issue].version
           /\ v.status \in {"published", "draft", "publishing"}
           /\ v.grant = p.ver
           /\ v.retGrant \in {0, p.ver}
           /\ v.retGrant # 0 => v.retAsset = p.asset

\* An edition the CMS shows as published is public, with the asset it shows.
PublishedIsPublic ==
    \A i \in Issues, l \in Locales : version[i][l].status = "published" =>
        pub[l][issue[i].number] = [issue |-> i, ver |-> version[i][l].grant,
                                   asset |-> version[i][l].asset]

\* /bulletins/latest shows the greatest public number of its locale, with the
\* content of that number's own page, and nothing when nothing is public.
LatestIsNewest ==
    \A l \in Locales :
        IF latest[l] = NoLatest
        THEN \A n \in Numbers : ~Public(l, n)
        ELSE /\ pub[l][latest[l].number] = [issue |-> latest[l].issue,
                                            ver |-> latest[l].ver,
                                            asset |-> latest[l].asset]
             /\ \A n \in Numbers : Public(l, n) => n <= latest[l].number

\* No event revokes the grant of what is public: the grant of every public row
\* is live, while events revoke those of replaced, withdrawn and failed
\* publications.  The file itself may still be deleted, by the retirement of an
\* asset that was published again.  It takes workers that keep their leases
\* (LeasesAreKept): one that lost its own may fail a publication another has
\* delivered (DeliveredIsNotRevoked).
PublicIsGranted ==
    \A l \in Locales, n \in Numbers : Public(l, n) =>
        <<pub[l][n].asset, pub[l][n].issue, pub[l][n].ver>> \in grants

----------------------------------------------------------------------------
(* What a step may never do                                                *)

\* Public visibility changes only when an asset grant workflow completes (the
\* grant of the new row is live at asset-api then) or an editor unpublishes:
\* drafts, restores, failures and late workers leave the public rows alone.
VisibilityStep ==
    \A l \in Locales, n \in Numbers : pub'[l][n] # pub[l][n] =>
        IF pub'[l][n] = NoPub
        THEN issue'[pub[l][n].issue].status = "unpublishing"
        ELSE LET p == pub'[l][n]
             IN /\ issue[p.issue].status = "publishing"
                /\ issue'[p.issue].status = "published"
                /\ p.ver = issue[p.issue].version
                /\ <<p.asset, p.issue, p.ver>> \in grants

VisibilityChangesByWorkflow == [][VisibilityStep]_vars

\* While an issue is publishing or unpublishing nothing the publication was
\* started for changes: version, number, and the assets of all its editions.
FrozenStep ==
    \A i \in Issues : issue[i].status \in InFlight =>
        /\ issue'[i].version = issue[i].version
        /\ issue'[i].number = issue[i].number
        /\ \A l \in Locales : version'[i][l].asset = version[i][l].asset

FrozenInFlight == [][FrozenStep]_vars

----------------------------------------------------------------------------
(* The abstract lifecycle of an edition                                    *)

\* The editions of the CMS.
EditionOf(v) == [phase |-> v.status, asset |-> v.asset]

EditionRows == [i \in Issues |-> [l \in Locales |-> EditionOf(version[i][l])]]

\* Readers see an edition at any of the numbers its rows are public under.
ReadersSee ==
    [i \in Issues |-> [l \in Locales |->
        {pub[l][n].asset : n \in {m \in Numbers : pub[l][m].issue = i}}]]

Lifecycle == INSTANCE EditionLifecycle WITH edition <- EditionRows, shown <- ReadersSee

\* The outbox, the workers and the projections together behave like the
\* lifecycle of editions: whatever is claimed twice, fails, is retried or comes
\* late, readers see only what an editor asked to publish, until they withdraw it.
PublishesAsPromised == Lifecycle!Spec

----------------------------------------------------------------------------
(* Leases.  As long as none is lost, an event whose lease has run out is    *)
(* claimed only after its worker has crashed.                              *)

LeaseKept ==
    \A w \in Workers, k \in DOMAIN outbox :
        Claim(w, k) /\ LeaseExpires(k) => \A v \in Workers : ~Holds(v, k)

LeasesAreKept == [][LeaseKept]_vars

----------------------------------------------------------------------------
(* Claims of the repository's tests and documents that the code can break  *)

\* A publication that is delivered is not revoked: no grant revocation is
\* queued for it and it does not become failed.
DeliveredStep ==
    \A k \in DOMAIN outbox :
        (k.kind = "publish" /\ outbox[k].status = "delivered") =>
            /\ outbox'[k].status = "delivered"
            /\ RevokeKey(k.issue, k.ver) \notin DOMAIN outbox' \ DOMAIN outbox

DeliveredIsNotRevoked == [][DeliveredStep]_vars

\* A publish event that finally failed has its grant, if it is live, queued for
\* revocation.
FailedPublishIsCompensated ==
    \A k \in DOMAIN outbox :
        (k.kind = "publish" /\ outbox[k].status = "failed"
          /\ <<outbox[k].asset, k.issue, k.ver>> \in grants)
        => RevokeKey(k.issue, k.ver) \in DOMAIN outbox

\* When a publication replaces the public asset of an edition, the retirement
\* of the replaced asset is queued.
ReplacedStep ==
    \A l \in Locales, n \in Numbers :
        (Public(l, n) /\ pub'[l][n] # NoPub /\ pub'[l][n].asset # pub[l][n].asset)
        => RetireKey(pub[l][n].issue, l, pub[l][n].asset) \in DOMAIN outbox'

ReplacedAssetIsRetired == [][ReplacedStep]_vars

\* The rows ListPublic joins for a locale: those typed 'bulletin_issue'.
ListedRows(i, l) ==
    {n \in Numbers : pub[l][n].issue = i}
    \cup (IF latest[l].listed /\ latest[l].issue = i THEN {0} ELSE {})

\* The public list shows each edition of an issue once.
ListedOnce == \A i \in Issues, l \in Locales : Cardinality(ListedRows(i, l)) <= 1

----------------------------------------------------------------------------
(* Liveness.  The loop of every worker runs, so some claimable event is        *)
(* claimed; no call of asset-api or of the database fails every time; and the  *)
(* readiness deadline passes.  No order of claims is assumed.                  *)

GrantCreated(w)     == CreatePublicGrant(w) /\ work'[w].pc = "complete"
GrantRevoked(w)     == RevokeGrant(w) /\ work'[w].pc \in {"delete", "finish"}
AssetDeleted(w)     == DeleteAsset(w) /\ work'[w].pc = "finish"
Confirmed(w)        == EventDelivered(w) /\ work'[w].pc # "retry"
Compensated(w)      == FailPublish(w) /\ work'[w].pc = "idle"
DeadlineExceeded(w) ==
    /\ GetAsset(w)
    /\ assets[outbox[work[w].key].asset] = "pending"
    /\ work'[w].pc = "fail"

Fairness ==
    /\ WF_vars(\E w \in Workers, k \in DOMAIN outbox : Claim(w, k))
    /\ \A w \in Workers : WF_vars(WorkerStep(w))
    /\ SF_vars(\E w \in Workers : GrantCreated(w))
    /\ SF_vars(\E w \in Workers : GrantRevoked(w))
    /\ SF_vars(\E w \in Workers : AssetDeleted(w))
    /\ SF_vars(\E w \in Workers : Confirmed(w))
    /\ SF_vars(\E w \in Workers : Compensated(w))
    /\ SF_vars(\E w \in Workers : DeadlineExceeded(w))

FairSpec == Spec /\ Fairness

\* Every publication and unpublication an editor starts comes to an end.
PublicationSettles ==
    \A i \in Issues : issue[i].status \in InFlight ~> issue[i].status \notin InFlight

\* Every requested notification is queued or reported failed.
NotificationSettles ==
    \A i \in Issues : issue[i].notif = "pending" ~> issue[i].notif # "pending"

\* Every event is worked off, compensations and retirements included.
EventsSettle == \A k \in Keys : Open(k) ~> ~Open(k)
=============================================================================
