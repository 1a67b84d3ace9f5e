--------------------------- MODULE BulletinProofs ---------------------------
(***************************************************************************)
(* Proofs about BulletinPublication, for any number of issues, locales,    *)
(* assets, workers, versions, attempts and faults: the types of its rows,  *)
(* the events of notifications, and the agreement of the CMS rows with the *)
(* outbox.                                                                 *)
(***************************************************************************)
EXTENDS BulletinProperties, TLAPS

----------------------------------------------------------------------------
(* Keys and events                                                         *)

\* What the fields of an idempotency key are, by the kind of its event.
LEMMA KeyFields ==
    ASSUME NEW k \in Keys
    PROVE  /\ k.kind \in Kinds
           /\ k.issue \in Issues
           /\ Publishes(k) => k.locale \in Locales /\ k.ver \in Versions
           /\ k.kind = "publish" => k = PublishKey(k.issue, k.locale, k.ver)
           /\ k.kind = "unpublish" => k = UnpublishKey(k.issue, k.locale, k.ver)
           /\ k.kind = "revoke" => k.ver \in Versions
           /\ k.kind = "delete" => k.asset \in Assets
BY DEF Keys, Kinds, Publishes, PublishKey, UnpublishKey, RetireKey, DeleteKey,
       RevokeKey, NotifyKey, EventKey

\* The keys the code builds are keys of the outbox.
LEMMA KeysAreKeys ==
    ASSUME NEW i \in Issues, NEW l \in Locales, NEW v \in Versions, NEW a \in Assets
    PROVE  /\ PublishKey(i, l, v) \in Keys /\ UnpublishKey(i, l, v) \in Keys
           /\ RetireKey(i, l, a) \in Keys /\ DeleteKey(i, a) \in Keys
           /\ RevokeKey(i, v) \in Keys /\ NotifyKey(i) \in Keys
BY DEF Keys

\* Insert adds the event if its key is new and changes nothing else.
LEMMA InsertAdds ==
    ASSUME NEW box, NEW k, NEW e
    PROVE  /\ DOMAIN Insert(box, k, e) = DOMAIN box \cup {k}
           /\ \A x \in DOMAIN box : Insert(box, k, e)[x] = box[x]
           /\ k \notin DOMAIN box => Insert(box, k, e)[k] = e
BY DEF Insert

\* A well-typed outbox stays so when a well-typed event is inserted.
Typed(box) == /\ DOMAIN box \subseteq Keys
              /\ \A x \in DOMAIN box : box[x] \in EventRows(x)

LEMMA InsertTyped ==
    ASSUME NEW box, Typed(box), NEW k \in Keys, NEW e \in EventRows(k)
    PROVE  Typed(Insert(box, k, e)) /\ DOMAIN box \subseteq DOMAIN Insert(box, k, e)
<1>1. DOMAIN Insert(box, k, e) = DOMAIN box \cup {k}
  BY InsertAdds
<1>2. ASSUME NEW x \in DOMAIN Insert(box, k, e)
      PROVE  Insert(box, k, e)[x] \in EventRows(x)
  <2>1. CASE x \in DOMAIN box
    <3>1. Insert(box, k, e)[x] = box[x]
      BY <2>1 DEF Insert
    <3>2. box[x] \in EventRows(x)
      BY <2>1 DEF Typed
    <3>3. QED
      BY <3>1, <3>2
  <2>2. CASE x = k /\ k \notin DOMAIN box
    BY <2>2, InsertAdds
  <2>3. QED
    BY <1>1, <2>1, <2>2
<1>3. QED
  BY <1>1, <1>2 DEF Typed

\* Updating the status and the attempts of an event keeps the outbox typed.
LEMMA NewEventTyped ==
    ASSUME BulletinAssumption, NEW k, NEW a, NEW g \in GrantIds, NEW n \in BOOLEAN,
           IF k.kind = "notify" THEN a = None ELSE a \in Assets
    PROVE  Event(a, g, n) \in EventRows(k)
BY DEF Event, EventRows, BulletinAssumption

\* The columns of a row of the issue and version tables.
LEMMA IssueFields ==
    ASSUME CmsOK, BulletinAssumption, NEW i \in Issues
    PROVE  /\ issue[i] \in IssueRows
           /\ issue[i].version \in GrantIds /\ issue[i].number \in Numbers \cup {0}
           /\ Exists(i) => /\ issue[i].status \in Statuses
                           /\ issue[i].version \in Versions
                           /\ issue[i].number \in Numbers
           /\ ~Exists(i) => issue[i].version = 0 /\ issue[i].number = 0
<1>1. issue[i] \in IssueRows
  BY DEF CmsOK
<1>2. QED
  BY <1>1 DEF IssueRows, IssueRow, NoIssue, Exists, Statuses, InFlight, GrantIds, Versions,
     BulletinAssumption

LEMMA VersionFields ==
    ASSUME CmsOK, BulletinAssumption, NEW i \in Issues, NEW l \in Locales
    PROVE  /\ version[i][l] \in VersionRows
           /\ version[i][l].grant \in GrantIds /\ version[i][l].retGrant \in GrantIds
           /\ version[i][l].retAsset \in AssetOrNone
           /\ version[i][l].asset \in AssetOrNone
           /\ version[i][l].status # "absent" => /\ version[i][l].asset \in Assets
                                                 /\ version[i][l].status \in Statuses
           /\ version[i][l].status = "absent" => version[i][l] = NoVersion
<1>1. version[i][l] \in VersionRows
  BY DEF CmsOK
<1>2. QED
  BY <1>1 DEF VersionRows, NoVersion, Statuses, InFlight, GrantIds, AssetOrNone,
     BulletinAssumption

----------------------------------------------------------------------------
(* Parts of the type invariant that many actions disturb in the same way   *)

LEMMA WorkKept ==
    ASSUME WorkOK, work' = work, DOMAIN outbox \subseteq DOMAIN outbox'
    PROVE  WorkOK'
BY DEF WorkOK, BusyOK

LEMMA WorkMoves ==
    ASSUME WorkOK, DOMAIN outbox \subseteq DOMAIN outbox', NEW w \in Workers,
           work[w] # Idle, NEW step \in StepsOf(work[w].key.kind), Goto(w, step)
    PROVE  WorkOK'
BY DEF WorkOK, BusyOK, Goto

LEMMA WorkReleased ==
    ASSUME WorkOK, DOMAIN outbox \subseteq DOMAIN outbox', NEW w \in Workers, Release(w)
    PROVE  WorkOK'
BY DEF WorkOK, BusyOK, Release

\* A worker in one of these steps handles an event of the kind the step is for.
LEMMA WorkerKind ==
    ASSUME OutboxOK, WorkOK, NEW w \in Workers, work[w] # Idle
    PROVE  /\ work[w].key \in DOMAIN outbox /\ work[w].key \in Keys
           /\ work[w].pc \in {"get", "grant", "complete", "confirm", "compensate", "defer"}
                => work[w].key.kind = "publish"
           /\ work[w].pc = "revoke" => work[w].key.kind \in {"unpublish", "retire", "revoke"}
           /\ work[w].pc = "delete" => work[w].key.kind \in {"retire", "delete"}
           /\ work[w].pc = "send" => work[w].key.kind = "notify"
           /\ work[w].pc = "finish" => work[w].key.kind # "publish"
           /\ work[w].att \in 1 .. MaxAttempts
           /\ AfterError(w) \in StepsOf(work[w].key.kind)
           /\ {"retry", "fail"} \subseteq StepsOf(work[w].key.kind)
BY KeyFields DEF OutboxOK, WorkOK, BusyOK, StepsOf, Errors, AfterError, Kinds

\* Changing the status or the attempts of an event keeps the outbox typed.
LEMMA OutboxStatus ==
    ASSUME NEW box, Typed(box), NEW k \in DOMAIN box,
           NEW s \in {"pending", "processing", "delivered", "failed"},
           NEW n \in 0 .. MaxAttempts
    PROVE  /\ Typed([box EXCEPT ![k].status = s])
           /\ Typed([box EXCEPT ![k].status = s, ![k].attempts = n])
<1>1. /\ box[k] \in EventRows(k)
      /\ [box[k] EXCEPT !.status = s] \in EventRows(k)
      /\ [box[k] EXCEPT !.status = s, !.attempts = n] \in EventRows(k)
  BY DEF Typed, EventRows
<1>2. QED
  BY <1>1 DEF Typed

LEMMA RevisionSaved ==
    ASSUME BulletinAssumption, RevisionOK, CmsOK', NEW i \in Issues,
           issue'[i].status \in Statuses, SaveRevision(i)
    PROVE  RevisionOK'
<1>1. /\ issue'[i].version \in Versions /\ issue'[i].number \in Numbers
      /\ \A l \in Locales : version'[i][l].asset \in AssetOrNone
  <2>1. issue'[i] \in IssueRows /\ \A l \in Locales : version'[i][l] \in VersionRows
    BY DEF CmsOK
  <2>2. QED
    BY <2>1 DEF IssueRows, VersionRows, IssueRow, NoIssue, NoVersion, Statuses, InFlight,
       AssetOrNone
<1> DEFINE row == [number |-> issue'[i].number,
                   assets |-> [l \in Locales |-> version'[i][l].asset]]
           old == revision[i]
           new == [r \in DOMAIN old \cup {issue'[i].version} |->
                     IF r = issue'[i].version THEN row ELSE old[r]]
<1>2. row \in Snapshots
  BY <1>1 DEF Snapshots
<1>3. revision' = [revision EXCEPT ![i] = new]
  BY DEF SaveRevision
<1>4. DOMAIN new \subseteq Versions /\ \A r \in DOMAIN new : new[r] \in Snapshots
  <2>1. DOMAIN old \subseteq Versions /\ \A r \in DOMAIN old : old[r] \in Snapshots
    BY DEF RevisionOK
  <2> HIDE DEF row, old
  <2>2. QED
    BY <1>1, <1>2, <2>1
<1> HIDE DEF row, old, new
<1>5. QED
  BY <1>3, <1>4 DEF RevisionOK

LEMMA DraftedRow ==
    ASSUME BulletinAssumption, NEW v \in VersionRows, NEW a \in Assets
    PROVE  Drafted(v, a) \in VersionRows /\ Drafted(v, a).status = "draft"
<1>1. /\ v.grant \in GrantIds /\ v.retGrant \in GrantIds
      /\ v.asset \in AssetOrNone /\ v.retAsset \in AssetOrNone
  BY DEF VersionRows, NoVersion, AssetOrNone, GrantIds, BulletinAssumption
<1>2. QED
  BY <1>1 DEF Drafted, VersionRows, Statuses

\* The rows of an issue that is moved on by one version.
LEMMA IssueMoved ==
    ASSUME BulletinAssumption, CmsOK, NEW i \in Issues, Mutable(i),
           NEW s \in Statuses, NEW n \in Numbers
    PROVE  /\ [issue EXCEPT ![i].status = s, ![i].version = @ + 1]
                 \in [Issues -> IssueRows]
           /\ [issue EXCEPT ![i].status = s, ![i].version = @ + 1, ![i].number = n]
                 \in [Issues -> IssueRows]
           /\ [issue EXCEPT ![i].number = n, ![i].version = @ + 1]
                 \in [Issues -> IssueRows]
           /\ issue[i].version + 1 \in Versions
<1>1. /\ issue[i] \in [status : Statuses, version : Versions, number : Numbers,
                       notif : {"not_requested", "pending", "queued", "failed"}]
      /\ issue[i].version + 1 \in Versions
  BY DEF CmsOK, IssueRows, IssueRow, NoIssue, Mutable, Exists, Versions, BulletinAssumption
<1>2. /\ [issue[i] EXCEPT !.status = s, !.version = issue[i].version + 1] \in IssueRows
      /\ [issue[i] EXCEPT !.status = s, !.version = issue[i].version + 1, !.number = n]
            \in IssueRows
      /\ [issue[i] EXCEPT !.number = n, !.version = issue[i].version + 1] \in IssueRows
  BY <1>1 DEF IssueRows
<1>3. QED
  BY <1>1, <1>2 DEF CmsOK

----------------------------------------------------------------------------
(* The type invariant                                                      *)

LEMMA InitTypeOK ==
    ASSUME BulletinAssumption, Init
    PROVE  TypeOK
<1>1. CmsOK
  BY DEF Init, CmsOK, IssueRows, VersionRows, NoIssue
<1>2. RevisionOK /\ PublicOK /\ OutboxOK /\ WorkOK
  BY DEF Init, RevisionOK, PublicOK, OutboxOK, WorkOK
<1>3. RemoteOK
  BY DEF Init, RemoteOK, BulletinAssumption
<1>4. QED
  BY <1>1, <1>2, <1>3 DEF TypeOK

LEMMA CreateIssueTyped ==
    ASSUME BulletinAssumption, TypeOK, NEW i \in Issues, NEW n \in Numbers, CreateIssue(i, n)
    PROVE  TypeOK'
<1>1. IssueRow("draft", 1, n) \in IssueRows
  BY DEF IssueRow, IssueRows, Statuses, Versions, BulletinAssumption
<1>2. CmsOK'
  BY <1>1 DEF TypeOK, CmsOK, CreateIssue
<1>3. QED
  BY <1>2, WorkKept DEF TypeOK, CreateIssue, RevisionOK, PublicOK, OutboxOK, RemoteOK,
     public, remote

LEMMA UpdateIssueTyped ==
    ASSUME BulletinAssumption, TypeOK, NEW i \in Issues, NEW n \in Numbers, UpdateIssue(i, n)
    PROVE  TypeOK'
<1>1. Mutable(i) /\ issue[i].status \in Statuses /\ "draft" \in Statuses
  BY IssueFields DEF UpdateIssue, Mutable, TypeOK, Statuses
<1>2. CmsOK' /\ issue'[i].status \in Statuses
  <2>1. issue' \in [Issues -> IssueRows]
    BY <1>1, IssueMoved DEF TypeOK, UpdateIssue
  <2>2. issue'[i].status = issue[i].status
    BY DEF TypeOK, CmsOK, UpdateIssue
  <2>3. QED
    BY <1>1, <2>1, <2>2 DEF TypeOK, CmsOK, UpdateIssue
<1>3. RevisionOK'
  BY <1>2, RevisionSaved DEF TypeOK, UpdateIssue
<1>4. QED
  BY <1>2, <1>3, WorkKept DEF TypeOK, UpdateIssue, PublicOK, OutboxOK, RemoteOK, public, remote

LEMMA DraftFinished ==
    ASSUME BulletinAssumption, TypeOK, NEW i \in Issues, Mutable(i),
           version' \in [Issues -> [Locales -> VersionRows]], FinishIssueDraft(i)
    PROVE  CmsOK' /\ RevisionOK'
<1>1. "draft" \in Statuses /\ \E n : n \in Numbers
  BY IssueFields DEF Statuses, Mutable, TypeOK
<1>2. issue' \in [Issues -> IssueRows]
  BY <1>1, IssueMoved DEF TypeOK, FinishIssueDraft, Advance
<1>3. CmsOK' /\ issue'[i].status \in Statuses
  BY <1>1, <1>2 DEF CmsOK, TypeOK, FinishIssueDraft, Advance
<1>4. QED
  BY <1>3, RevisionSaved DEF TypeOK, FinishIssueDraft

LEMMA PutVersionTyped ==
    ASSUME BulletinAssumption, TypeOK, NEW i \in Issues, NEW l \in Locales, NEW a \in Assets,
           PutVersion(i, l, a)
    PROVE  TypeOK'
<1>1. Drafted(version[i][l], a) \in VersionRows
  BY VersionFields, DraftedRow DEF TypeOK
<1>2. version' \in [Issues -> [Locales -> VersionRows]]
  BY <1>1 DEF TypeOK, CmsOK, PutVersion
<1>3. CmsOK' /\ RevisionOK'
  BY <1>2, DraftFinished DEF PutVersion
<1>4. QED
  BY <1>3, WorkKept DEF TypeOK, PutVersion, PublicOK, OutboxOK, RemoteOK, public, remote

LEMMA UpdateVersionTyped ==
    ASSUME BulletinAssumption, TypeOK, NEW i \in Issues, NEW l \in Locales, UpdateVersion(i, l)
    PROVE  TypeOK'
<1>1. [version[i][l] EXCEPT !.status = "draft"] \in VersionRows
  BY VersionFields DEF UpdateVersion, TypeOK, VersionRows, Statuses, NoVersion
<1>2. version' \in [Issues -> [Locales -> VersionRows]]
  BY <1>1 DEF TypeOK, CmsOK, UpdateVersion
<1>3. CmsOK' /\ RevisionOK'
  BY <1>2, DraftFinished DEF UpdateVersion
<1>4. QED
  BY <1>3, WorkKept DEF TypeOK, UpdateVersion, PublicOK, OutboxOK, RemoteOK, public, remote

\* asset.owner.delete events extend the outbox; they belong to no publication.
LEMMA DeletesEnqueued ==
    ASSUME BulletinAssumption, OutboxOK, NEW i \in Issues, NEW S \in SUBSET Assets,
           EnqueueAssetDeletes(i, S)
    PROVE  /\ OutboxOK' /\ DOMAIN outbox \subseteq DOMAIN outbox'
           /\ \A k \in DOMAIN outbox : outbox'[k] = outbox[k]
           /\ \A k \in DOMAIN outbox' \ DOMAIN outbox : k.kind = "delete"
<1> DEFINE new == {DeleteKey(i, a) : a \in S} \ DOMAIN outbox
<1>1. outbox' = [k \in DOMAIN outbox \cup new |->
                    IF k \in new THEN Event(k.asset, 0, FALSE) ELSE outbox[k]]
  BY DEF EnqueueAssetDeletes
<1>2. \A k \in new : k \in Keys /\ k.kind = "delete" /\ k.asset \in Assets
  BY KeysAreKeys DEF DeleteKey, EventKey, Keys
<1>3. \A k \in new : Event(k.asset, 0, FALSE) \in EventRows(k)
  BY <1>2 DEF Event, EventRows, GrantIds, BulletinAssumption
<1>4. new \cap DOMAIN outbox = {}
  OBVIOUS
<1> HIDE DEF new
<1>5. /\ DOMAIN outbox' = DOMAIN outbox \cup new
      /\ \A k \in DOMAIN outbox : outbox'[k] = outbox[k]
      /\ \A k \in new : outbox'[k] = Event(k.asset, 0, FALSE)
  BY <1>1, <1>4
<1>6. QED
  BY <1>2, <1>3, <1>5 DEF OutboxOK

LEMMA DeleteVersionTyped ==
    ASSUME BulletinAssumption, TypeOK, NEW i \in Issues, NEW l \in Locales, DeleteVersion(i, l)
    PROVE  TypeOK'
<1>1. {version[i][l].asset} \in SUBSET Assets
  BY VersionFields DEF DeleteVersion, TypeOK
<1>2. version' \in [Issues -> [Locales -> VersionRows]]
  BY DEF TypeOK, CmsOK, DeleteVersion, VersionRows
<1>3. CmsOK' /\ RevisionOK'
  BY <1>2, DraftFinished DEF DeleteVersion
<1>4. OutboxOK' /\ DOMAIN outbox \subseteq DOMAIN outbox'
  BY <1>1, DeletesEnqueued DEF TypeOK, DeleteVersion
<1>5. QED
  BY <1>3, <1>4, WorkKept DEF TypeOK, DeleteVersion, PublicOK, RemoteOK, public, remote

LEMMA RestoreTyped ==
    ASSUME BulletinAssumption, TypeOK, NEW i \in Issues, NEW r \in Versions,
           RestoreIssueRevision(i, r)
    PROVE  TypeOK'
<1> DEFINE snapshot == revision[i][r]
           rows == [l \in Locales |->
                      IF snapshot.assets[l] = None THEN NoVersion
                      ELSE Drafted(version[i][l], snapshot.assets[l])]
<1>1. snapshot \in Snapshots /\ snapshot.number \in Numbers /\ "draft" \in Statuses
      /\ \A l \in Locales : snapshot.assets[l] \in AssetOrNone
  BY DEF RestoreIssueRevision, TypeOK, RevisionOK, Snapshots, Statuses
<1>2. rows \in [Locales -> VersionRows]
  <2>1. ASSUME NEW l \in Locales, snapshot.assets[l] # None
        PROVE  Drafted(version[i][l], snapshot.assets[l]) \in VersionRows
    BY <1>1, <2>1, VersionFields, DraftedRow DEF TypeOK, AssetOrNone
  <2>2. NoVersion \in VersionRows
    BY DEF VersionRows
  <2> HIDE DEF snapshot
  <2>3. QED
    BY <2>1, <2>2
<1>3. version' = [version EXCEPT ![i] = rows]
  BY DEF RestoreIssueRevision
<1>4. issue' = [issue EXCEPT ![i].status = "draft", ![i].version = @ + 1,
                             ![i].number = snapshot.number]
  BY DEF RestoreIssueRevision
<1>5. issue' \in [Issues -> IssueRows]
  <2>1. Mutable(i)
    BY DEF RestoreIssueRevision
  <2> HIDE DEF snapshot
  <2>2. QED
    BY <1>1, <1>4, <2>1, IssueMoved DEF TypeOK
<1>6. CmsOK' /\ issue'[i].status \in Statuses
  BY <1>1, <1>2, <1>3, <1>4, <1>5 DEF TypeOK, CmsOK
<1>7. RevisionOK'
  BY <1>6, RevisionSaved DEF TypeOK, RestoreIssueRevision
<1>8. QED
  BY <1>6, <1>7, WorkKept DEF TypeOK, RestoreIssueRevision, PublicOK, OutboxOK, RemoteOK,
     public, remote

LEMMA StartPublishTyped ==
    ASSUME BulletinAssumption, TypeOK, NEW i \in Issues, NEW l \in Locales,
           NEW notify \in BOOLEAN, StartPublish(i, l, notify)
    PROVE  TypeOK'
<1> DEFINE next == issue[i].version + 1
           k == PublishKey(i, l, next)
           e == Event(version[i][l].asset, 0, notify)
<1>1. Mutable(i) /\ "publishing" \in Statuses /\ \E n : n \in Numbers
  BY IssueFields DEF StartPublish, Mutable, TypeOK, Statuses, InFlight
<1>2. issue' \in [Issues -> IssueRows] /\ next \in Versions
  <2>1. issue' = [issue EXCEPT ![i].status = "publishing", ![i].version = next]
    BY DEF StartPublish, Advance
  <2>2. QED
    BY <1>1, <2>1, IssueMoved DEF TypeOK
<1>3. version[i][l].asset \in Assets
      /\ [version[i][l] EXCEPT !.status = "publishing"] \in VersionRows
  BY <1>1, VersionFields DEF StartPublish, TypeOK, VersionRows, NoVersion
<1>4. CmsOK'
  BY <1>2, <1>3 DEF TypeOK, CmsOK, StartPublish
<1>5. k \in Keys /\ k.kind = "publish"
  BY <1>2 DEF Keys, PublishKey, EventKey
<1>6. e \in EventRows(k)
  BY <1>3, <1>5 DEF Event, EventRows, GrantIds, BulletinAssumption
<1>7. outbox' = Insert(outbox, k, e)
  BY DEF StartPublish
<1> HIDE DEF k, e
<1>8. OutboxOK' /\ DOMAIN outbox \subseteq DOMAIN outbox'
  BY <1>5, <1>6, <1>7, InsertTyped DEF TypeOK, OutboxOK, Typed
<1>9. QED
  BY <1>4, <1>8, WorkKept DEF TypeOK, StartPublish, RevisionOK, PublicOK, RemoteOK, public,
     remote

LEMMA LatestTyped ==
    ASSUME NEW rows \in [Numbers -> PubRows \cup {NoPub}],
           NEW kept \in LatestRows \cup {NoLatest}
    PROVE  RemainingLatest(rows, kept) \subseteq LatestRows \cup {NoLatest}
<1>1. ASSUME NEW n \in Numbers, rows[n] # NoPub
      PROVE  /\ rows[n].issue \in Issues /\ rows[n].ver \in Versions
             /\ rows[n].asset \in Assets
  BY <1>1 DEF PubRows
<1>2. ASSUME kept # NoLatest
      PROVE  kept.listed \in BOOLEAN
  BY <1>2 DEF LatestRows
<1> DEFINE row(n) == [issue |-> rows[n].issue, ver |-> rows[n].ver, asset |-> rows[n].asset,
                      number |-> n,
                      listed |-> IF kept = NoLatest THEN TRUE ELSE kept.listed]
<1>3. \A n \in {m \in Numbers : rows[m] # NoPub} : row(n) \in LatestRows
  BY <1>1, <1>2 DEF LatestRows
<1> HIDE DEF row
<1>4. {row(n) : n \in {m \in Numbers : rows[m] # NoPub}} \subseteq LatestRows
  BY <1>3
<1>5. QED
  BY <1>4 DEF RemainingLatest, row

LEMMA UnpublishTyped ==
    ASSUME BulletinAssumption, TypeOK, NEW i \in Issues, NEW l \in Locales, Unpublish(i, l)
    PROVE  TypeOK'
<1> DEFINE v    == version[i][l]
           next == issue[i].version + 1
           rows == [pub[l] EXCEPT ![issue[i].number] = NoPub]
           kept == IF latest[l].issue = i THEN NoLatest ELSE latest[l]
           k    == UnpublishKey(i, l, next)
           e    == Event(IF v.retAsset # None THEN v.retAsset ELSE v.asset, v.grant, FALSE)
<1>1. Mutable(i) /\ "unpublishing" \in Statuses /\ \E n : n \in Numbers
  BY IssueFields DEF Unpublish, Mutable, TypeOK, Statuses, InFlight
<1>2. issue' \in [Issues -> IssueRows] /\ next \in Versions
  <2>1. issue' = [issue EXCEPT ![i].status = "unpublishing", ![i].version = next]
    BY DEF Unpublish, Advance
  <2>2. QED
    BY <1>1, <2>1, IssueMoved DEF TypeOK
<1>3. /\ v.asset \in Assets /\ v.retAsset \in AssetOrNone /\ v.grant \in GrantIds
      /\ [v EXCEPT !.status = "unpublishing"] \in VersionRows
  BY <1>1, VersionFields DEF Unpublish, TypeOK, VersionRows, NoVersion
<1>4. CmsOK'
  BY <1>2, <1>3 DEF TypeOK, CmsOK, Unpublish
<1>5. k \in Keys /\ k.kind = "unpublish"
  BY <1>2 DEF Keys, UnpublishKey, EventKey
<1>6. e \in EventRows(k)
  BY <1>3, <1>5 DEF Event, EventRows, AssetOrNone, BulletinAssumption
<1>7. outbox' = Insert(outbox, k, e)
  BY DEF Unpublish
<1>8. rows \in [Numbers -> PubRows \cup {NoPub}] /\ kept \in LatestRows \cup {NoLatest}
  BY DEF TypeOK, PublicOK
<1>9. PublicOK'
  <2>1. pub' = [pub EXCEPT ![l] = rows]
    BY DEF Unpublish
  <2>2. PICK row \in RemainingLatest(rows, kept) : latest' = [latest EXCEPT ![l] = row]
    BY DEF Unpublish
  <2> HIDE DEF rows, kept
  <2>3. row \in LatestRows \cup {NoLatest}
    BY <1>8, LatestTyped
  <2>4. QED
    BY <1>8, <2>1, <2>2, <2>3 DEF TypeOK, PublicOK
<1> HIDE DEF k, e
<1>10. OutboxOK' /\ DOMAIN outbox \subseteq DOMAIN outbox'
  BY <1>5, <1>6, <1>7, InsertTyped DEF TypeOK, OutboxOK, Typed
<1>11. QED
  BY <1>4, <1>9, <1>10, WorkKept DEF TypeOK, Unpublish, RevisionOK, RemoteOK, remote

LEMMA DeleteIssueTyped ==
    ASSUME BulletinAssumption, TypeOK, NEW i \in Issues, DeleteIssue(i)
    PROVE  TypeOK'
<1>1. IssueAssets(i) \in SUBSET Assets
  <2>1. \A l \in Locales : version[i][l].asset \in AssetOrNone
    BY VersionFields DEF TypeOK
  <2>2. \A r \in DOMAIN revision[i], l \in Locales : revision[i][r].assets[l] \in AssetOrNone
    BY DEF TypeOK, RevisionOK, Snapshots
  <2>3. QED
    BY <2>1, <2>2 DEF IssueAssets, AssetOrNone
<1>2. OutboxOK' /\ DOMAIN outbox \subseteq DOMAIN outbox'
  BY <1>1, DeletesEnqueued DEF TypeOK, DeleteIssue
<1>3. CmsOK'
  BY DEF TypeOK, CmsOK, DeleteIssue, IssueRows, VersionRows
<1>4. RevisionOK'
  BY DEF TypeOK, RevisionOK, DeleteIssue
<1>5. QED
  BY <1>2, <1>3, <1>4, WorkKept DEF TypeOK, DeleteIssue, PublicOK, RemoteOK, public, remote

LEMMA ClaimTyped ==
    ASSUME BulletinAssumption, TypeOK, NEW w \in Workers, NEW k \in DOMAIN outbox, Claim(w, k)
    PROVE  TypeOK'
<1> DEFINE n == IF outbox[k].attempts < MaxAttempts THEN outbox[k].attempts + 1
                ELSE MaxAttempts
           b == [pc |-> FirstStep(k), key |-> k, att |-> n]
<1>1. n \in 1 .. MaxAttempts /\ n \in 0 .. MaxAttempts
  BY DEF TypeOK, OutboxOK, EventRows, BulletinAssumption
<1>2. FirstStep(k) \in StepsOf(k.kind)
  BY KeyFields DEF TypeOK, OutboxOK, FirstStep, StepsOf, Kinds
<1>3. /\ outbox' = [outbox EXCEPT ![k].status = "processing", ![k].attempts = n]
      /\ work' = [work EXCEPT ![w] = b]
      /\ UNCHANGED <<cms, public, remote>>
      /\ faults' \in 0 .. MaxFaults
  BY DEF Claim, TypeOK, RemoteOK, BulletinAssumption
<1>4. b \in [pc : StepsOf(b.key.kind), key : {b.key}, att : 1 .. MaxAttempts] /\ b.key = k
  BY <1>1, <1>2
<1> HIDE DEF n, b
<1>5. Typed(outbox') /\ DOMAIN outbox' = DOMAIN outbox
  <2>1. Typed(outbox)
    BY DEF TypeOK, OutboxOK, Typed
  <2>2. QED
    BY <1>1, <1>3, <2>1, OutboxStatus
<1>6. WorkOK'
  BY <1>3, <1>4, <1>5 DEF TypeOK, WorkOK, BusyOK
<1>7. QED
  BY <1>3, <1>5, <1>6 DEF TypeOK, CmsOK, RevisionOK, PublicOK, OutboxOK, Typed, RemoteOK,
     cms, public, remote

LEMMA CrashTyped ==
    ASSUME BulletinAssumption, TypeOK, NEW w \in Workers, Crash(w)
    PROVE  TypeOK'
BY WorkReleased DEF Crash, TypeOK, CmsOK, RevisionOK, PublicOK, OutboxOK, RemoteOK, cms, public,
   remote, BulletinAssumption

LEMMA RetryTyped ==
    ASSUME BulletinAssumption, TypeOK, NEW w \in Workers, Retry(w)
    PROVE  TypeOK'
<1>1. work[w].key \in DOMAIN outbox
  BY WorkerKind DEF Retry, TypeOK
<1>2. Typed(outbox') /\ DOMAIN outbox' = DOMAIN outbox
  <2>1. 0 \in 0 .. MaxAttempts /\ Typed(outbox)
    BY DEF BulletinAssumption, TypeOK, OutboxOK, Typed
  <2>2. QED
    BY <1>1, <2>1, OutboxStatus DEF Retry, Typed
<1>3. QED
  BY <1>2, WorkReleased DEF Retry, TypeOK, CmsOK, RevisionOK, PublicOK, OutboxOK, Typed,
     RemoteOK, cms, public, remote

LEMMA DeferTyped ==
    ASSUME BulletinAssumption, TypeOK, NEW w \in Workers, Defer(w)
    PROVE  TypeOK'
<1> DEFINE k == work[w].key
           n == IF outbox[k].attempts > 0 THEN outbox[k].attempts - 1 ELSE 0
<1>1. k \in DOMAIN outbox
  BY WorkerKind DEF Defer, TypeOK
<1>2. n \in 0 .. MaxAttempts
  BY <1>1 DEF TypeOK, OutboxOK, EventRows, BulletinAssumption
<1>3. outbox' = IF outbox[k].status = "processing"
                THEN [outbox EXCEPT ![k].status = "pending", ![k].attempts = n] ELSE outbox
  BY DEF Defer
<1> HIDE DEF n, k
<1>4. Typed(outbox') /\ DOMAIN outbox' = DOMAIN outbox
  <2>1. Typed(outbox)
    BY DEF TypeOK, OutboxOK, Typed
  <2>2. QED
    BY <1>1, <1>2, <1>3, <2>1, OutboxStatus
<1>5. QED
  BY <1>4, WorkReleased DEF Defer, TypeOK, CmsOK, RevisionOK, PublicOK, OutboxOK, Typed,
     RemoteOK, cms, public, remote

\* failEvent on the rows of the issue, whatever publication it is in.
LEMMA FailedRows ==
    ASSUME BulletinAssumption, CmsOK, NEW k \in Keys
    PROVE  FailIssue(k) \in [Issues -> IssueRows]
           /\ FailVersion(k) \in [Issues -> [Locales -> VersionRows]]
<1>1. k.issue \in Issues /\ Aborted(k.kind) \in Statuses
      /\ Doing(k.kind) \notin {"absent", "deleted"}
  BY KeyFields DEF Aborted, Doing, Statuses
<1>2. /\ issue[k.issue].status = Doing(k.kind) =>
            [issue[k.issue] EXCEPT !.status = Aborted(k.kind)] \in IssueRows
      /\ issue[k.issue].notif = "pending" =>
            [issue[k.issue] EXCEPT !.notif = "failed"] \in IssueRows
  BY <1>1, IssueFields DEF IssueRows, IssueRow, NoIssue
<1>3. FailIssue(k) \in [Issues -> IssueRows]
  BY <1>1, <1>2 DEF FailIssue, CmsOK
<1>4. ASSUME k.locale \in Locales, version[k.issue][k.locale].status = Doing(k.kind)
      PROVE  [version[k.issue][k.locale] EXCEPT !.status = Aborted(k.kind)] \in VersionRows
  BY <1>1, <1>4, VersionFields DEF VersionRows, NoVersion
<1>5. FailVersion(k) \in [Issues -> [Locales -> VersionRows]]
  BY <1>1, <1>4, KeyFields DEF FailVersion, CmsOK, Publishes
<1>6. QED
  BY <1>3, <1>5

LEMMA FailEventTyped ==
    ASSUME BulletinAssumption, TypeOK, NEW box, Typed(box), NEW k \in DOMAIN box,
           FailEvent(k, box)
    PROVE  /\ CmsOK' /\ RevisionOK' /\ PublicOK' /\ OutboxOK' /\ RemoteOK'
           /\ DOMAIN outbox' = DOMAIN box
<1>1. Typed(outbox') /\ DOMAIN outbox' = DOMAIN box
  <2>1. 0 \in 0 .. MaxAttempts
    BY DEF BulletinAssumption
  <2>2. QED
    BY <2>1, OutboxStatus DEF FailEvent
<1>2. CmsOK'
  BY FailedRows DEF TypeOK, FailEvent, CmsOK, Typed
<1>3. QED
  BY <1>1, <1>2 DEF TypeOK, FailEvent, RevisionOK, PublicOK, OutboxOK, Typed, RemoteOK,
     public, remote

LEMMA FailTyped ==
    ASSUME BulletinAssumption, TypeOK, NEW w \in Workers, Fail(w)
    PROVE  TypeOK'
<1>1. work[w].key \in DOMAIN outbox /\ Typed(outbox)
  BY WorkerKind DEF Fail, TypeOK, OutboxOK, Typed
<1>2. QED
  BY <1>1, FailEventTyped, WorkReleased DEF Fail, TypeOK

LEMMA GetAssetTyped ==
    ASSUME BulletinAssumption, TypeOK, NEW w \in Workers, GetAsset(w)
    PROVE  TypeOK'
<1>1. PICK step \in {"grant", "defer", "fail", AfterError(w)} : Goto(w, step)
  BY DEF GetAsset
<1>2. step \in StepsOf(work[w].key.kind) /\ work[w] # Idle
  BY WorkerKind DEF GetAsset, TypeOK, StepsOf, Errors
<1>3. QED
  BY <1>1, <1>2, WorkMoves DEF GetAsset, TypeOK, CmsOK, RevisionOK, PublicOK, OutboxOK,
     RemoteOK, cms, public, remote

LEMMA CreatePublicGrantTyped ==
    ASSUME BulletinAssumption, TypeOK, NEW w \in Workers, CreatePublicGrant(w)
    PROVE  TypeOK'
<1> DEFINE k == work[w].key
<1>1. /\ k \in DOMAIN outbox /\ k.kind = "publish" /\ k.issue \in Issues
      /\ k.ver \in Versions /\ {"complete", "retry"} \subseteq StepsOf(k.kind)
  BY WorkerKind, KeyFields DEF CreatePublicGrant, TypeOK, Publishes, StepsOf, Errors
<1>2. outbox[k].asset \in Assets
  BY <1>1 DEF TypeOK, OutboxOK, EventRows
<1>3. grants' \subseteq Assets \X Issues \X Versions
  BY <1>1, <1>2 DEF CreatePublicGrant, TypeOK, RemoteOK
<1>4. PICK step \in {"complete", "retry"} : Goto(w, step)
  BY DEF CreatePublicGrant
<1>5. WorkOK'
  BY <1>1, <1>4, WorkMoves DEF CreatePublicGrant, TypeOK
<1>6. QED
  BY <1>3, <1>5 DEF CreatePublicGrant, TypeOK, CmsOK, RevisionOK, PublicOK, OutboxOK,
     RemoteOK, cms, public

LEMMA RequeueTyped ==
    ASSUME BulletinAssumption, NEW box, Typed(box), NEW k \in Keys, NEW e \in EventRows(k)
    PROVE  Typed(Requeue(box, k, e)) /\ DOMAIN box \subseteq DOMAIN Requeue(box, k, e)
<1>1. CASE k \notin DOMAIN box
  BY <1>1, InsertTyped DEF Requeue
<1>2. CASE k \in DOMAIN box
  <2>1. 0 \in 0 .. MaxAttempts
    BY DEF BulletinAssumption
  <2>2. Typed([box EXCEPT ![k].status = "pending", ![k].attempts = 0])
    BY <1>2, <2>1, OutboxStatus
  <2>3. QED
    BY <1>2, <2>2 DEF Requeue
<1>3. QED
  BY <1>1, <1>2

\* The issue and version rows of an edition that becomes public.
LEMMA PublishedRows ==
    ASSUME BulletinAssumption,
           NEW r \in IssueRows, r.status = "publishing",
           NEW m \in {"not_requested", "pending", "queued", "failed"},
           NEW v \in VersionRows, v.status = "publishing", NEW g \in Versions
    PROVE  /\ r.notif \in {"not_requested", "pending", "queued", "failed"}
           /\ [r EXCEPT !.status = "published", !.notif = m] \in IssueRows
           /\ [v EXCEPT !.status = "published", !.grant = g,
                        !.retAsset = None, !.retGrant = 0] \in VersionRows
<1>1. r \in [status : Statuses, version : Versions, number : Numbers,
            notif : {"not_requested", "pending", "queued", "failed"}]
  BY DEF IssueRows, IssueRow, NoIssue
<1>2. v \in [status : Statuses, asset : Assets, grant : GrantIds,
            retAsset : AssetOrNone, retGrant : GrantIds]
  BY DEF VersionRows, NoVersion
<1>3. "published" \in Statuses /\ None \in AssetOrNone /\ g \in GrantIds /\ 0 \in GrantIds
  BY DEF Statuses, AssetOrNone, GrantIds, Versions, BulletinAssumption
<1>4. r.notif \in {"not_requested", "pending", "queued", "failed"}
  BY <1>1
<1>5. [r EXCEPT !.status = "published", !.notif = m] \in IssueRows
  BY <1>1, <1>3 DEF IssueRows
<1>6. [v EXCEPT !.status = "published", !.grant = g,
               !.retAsset = None, !.retGrant = 0] \in VersionRows
  BY <1>2, <1>3 DEF VersionRows
<1>7. QED
  BY <1>4, <1>5, <1>6

LEMMA PublishEditionTyped ==
    ASSUME BulletinAssumption, TypeOK, NEW k \in DOMAIN outbox, k.kind = "publish",
           Current(k), PublishEdition(k)
    PROVE  CmsOK' /\ PublicOK' /\ OutboxOK' /\ DOMAIN outbox \subseteq DOMAIN outbox'
<1> DEFINE i == k.issue
           l == k.locale
           e == outbox[k]
           v == version[i][l]
           n == issue[i].number
           row  == [issue |-> i, ver |-> k.ver, asset |-> e.asset]
           top  == [issue |-> i, ver |-> k.ver, asset |-> e.asset,
                    number |-> n, listed |-> latest[l].listed]
           ask  == e.notify /\ issue[i].notif \in {"not_requested", "failed"}
           done == [outbox EXCEPT ![k].status = "delivered"]
           told == IF ask THEN Requeue(done, NotifyKey(i), Event(None, 0, FALSE)) ELSE done
<1>1. /\ i \in Issues /\ l \in Locales /\ k.ver \in Versions /\ k \in Keys
      /\ e.asset \in Assets
  BY KeyFields DEF TypeOK, OutboxOK, Publishes, EventRows
<1>2. /\ n \in Numbers
      /\ v.retAsset \in AssetOrNone /\ v.retGrant \in GrantIds
  BY <1>1, IssueFields, VersionFields DEF TypeOK, Current, Exists
<1>3. CmsOK'
  <2> DEFINE m == IF ask THEN "pending" ELSE issue[i].notif
             r == [issue[i] EXCEPT !.status = "published", !.notif = m]
             u == [v EXCEPT !.status = "published", !.grant = k.ver,
                            !.retAsset = None, !.retGrant = 0]
  <2>1. issue' = [issue EXCEPT ![i].status = "published", ![i].notif = m]
    BY DEF PublishEdition
  <2>2. version' = [version EXCEPT ![i][l].status = "published", ![i][l].grant = k.ver,
                                   ![i][l].retAsset = None, ![i][l].retGrant = 0]
    BY DEF PublishEdition
  <2>3. /\ issue[i] \in IssueRows /\ issue[i].status = "publishing"
        /\ v \in VersionRows /\ v.status = "publishing"
    BY <1>1, IssueFields, VersionFields DEF TypeOK, Current
  <2> HIDE DEF ask
  <2>4. m \in {"not_requested", "pending", "queued", "failed"}
    BY <2>3, PublishedRows, <1>1
  <2> HIDE DEF m
  <2>5. r \in IssueRows /\ u \in VersionRows
    BY <1>1, <2>3, <2>4, PublishedRows
  <2>6. issue' = [issue EXCEPT ![i] = r]
    BY <1>1, <2>1 DEF TypeOK, CmsOK
  <2>7. version' = [version EXCEPT ![i] = [version[i] EXCEPT ![l] = u]]
    BY <1>1, <2>2 DEF TypeOK, CmsOK
  <2> HIDE DEF r, u, v
  <2>8. QED
    BY <1>1, <2>5, <2>6, <2>7 DEF TypeOK, CmsOK
<1>4. PublicOK'
  <2>1. row \in PubRows
    BY <1>1 DEF PubRows
  <2>2. latest[l].listed \in BOOLEAN
    <3>1. latest[l] \in LatestRows \/ latest[l] = NoLatest
      BY <1>1 DEF TypeOK, PublicOK
    <3> HIDE DEF l
    <3>2. CASE latest[l] \in LatestRows
      BY <3>2 DEF LatestRows
    <3>3. CASE latest[l] = NoLatest
      BY <3>3 DEF NoLatest
    <3>4. QED
      BY <3>1, <3>2, <3>3
  <2>3. top \in LatestRows
    BY <1>1, <1>2, <2>2 DEF LatestRows
  <2>4. /\ pub' = [pub EXCEPT ![l] = [pub[l] EXCEPT ![n] = row]]
        /\ latest' = latest \/ latest' = [latest EXCEPT ![l] = top]
    BY DEF PublishEdition, NewerLatest
  <2> HIDE DEF row, top, n
  <2>5. [pub[l] EXCEPT ![n] = row] \in [Numbers -> PubRows \cup {NoPub}]
    BY <1>1, <1>2, <2>1 DEF TypeOK, PublicOK
  <2>6. QED
    BY <1>1, <2>3, <2>4, <2>5 DEF TypeOK, PublicOK
<1>5. OutboxOK' /\ DOMAIN outbox \subseteq DOMAIN outbox'
  <2>1. Typed(done) /\ DOMAIN done = DOMAIN outbox
    <3>1. Typed(outbox) /\ 0 \in 0 .. MaxAttempts
      BY DEF TypeOK, OutboxOK, Typed, BulletinAssumption
    <3>2. QED
      BY <3>1, OutboxStatus
  <2>2. NotifyKey(i) \in Keys /\ Event(None, 0, FALSE) \in EventRows(NotifyKey(i))
    BY <1>1 DEF Keys, NotifyKey, EventKey, Event, EventRows, GrantIds, BulletinAssumption
  <2>3. outbox' = IF v.retAsset \notin {None, e.asset}
                  THEN Insert(told, RetireKey(i, l, v.retAsset),
                              Event(v.retAsset, v.retGrant, FALSE))
                  ELSE told
    BY DEF PublishEdition
  <2> HIDE DEF done, ask
  <2>4. Typed(told) /\ DOMAIN outbox \subseteq DOMAIN told
    BY <2>1, <2>2, RequeueTyped
  <2>5. ASSUME v.retAsset \notin {None, e.asset}
        PROVE  /\ RetireKey(i, l, v.retAsset) \in Keys
               /\ Event(v.retAsset, v.retGrant, FALSE)
                     \in EventRows(RetireKey(i, l, v.retAsset))
    BY <1>1, <1>2, <2>5 DEF Keys, RetireKey, EventKey, Event, EventRows, AssetOrNone,
       BulletinAssumption
  <2> HIDE DEF told, e, v
  <2>6. CASE v.retAsset \notin {None, e.asset}
    <3> DEFINE rk == RetireKey(i, l, v.retAsset)
               re == Event(v.retAsset, v.retGrant, FALSE)
    <3>1. outbox' = Insert(told, rk, re) /\ rk \in Keys /\ re \in EventRows(rk)
      BY <2>3, <2>5, <2>6
    <3> HIDE DEF rk, re
    <3>2. Typed(outbox') /\ DOMAIN told \subseteq DOMAIN outbox'
      BY <2>4, <3>1, InsertTyped
    <3>3. QED
      BY <2>4, <3>2 DEF Typed, OutboxOK
  <2>7. CASE ~(v.retAsset \notin {None, e.asset})
    BY <2>3, <2>4, <2>7 DEF Typed, OutboxOK
  <2>8. QED
    BY <2>6, <2>7
<1>6. QED
  BY <1>3, <1>4, <1>5

LEMMA CompletePublishTyped ==
    ASSUME BulletinAssumption, TypeOK, NEW w \in Workers, CompletePublish(w)
    PROVE  TypeOK'
<1> DEFINE k == work[w].key
<1>1. /\ k \in DOMAIN outbox /\ k.kind = "publish" /\ work[w] # Idle
      /\ {"retry", "compensate", "confirm"} \subseteq StepsOf(k.kind)
  BY WorkerKind DEF CompletePublish, TypeOK, StepsOf, Errors
<1>2. Release(w) \/ \E step \in {"retry", "compensate", "confirm"} : Goto(w, step)
  BY DEF CompletePublish, AfterCompletionError
<1>3. \/ UNCHANGED <<cms, public, outbox>>
      \/ Current(k) /\ PublishEdition(k) /\ UNCHANGED revision
  BY DEF CompletePublish
<1>4. CmsOK' /\ RevisionOK' /\ PublicOK' /\ OutboxOK' /\ DOMAIN outbox \subseteq DOMAIN outbox'
  BY <1>1, <1>3, PublishEditionTyped
     DEF TypeOK, CmsOK, RevisionOK, PublicOK, OutboxOK, cms, public
<1>5. WorkOK'
  BY <1>1, <1>2, <1>4, WorkMoves, WorkReleased DEF TypeOK
<1>6. QED
  BY <1>4, <1>5 DEF CompletePublish, TypeOK, RemoteOK, remote

LEMMA EventDeliveredTyped ==
    ASSUME BulletinAssumption, TypeOK, NEW w \in Workers, EventDelivered(w)
    PROVE  TypeOK'
<1>1. /\ work[w] # Idle
      /\ {"retry", "compensate"} \subseteq StepsOf(work[w].key.kind)
  BY WorkerKind DEF EventDelivered, TypeOK, StepsOf, Errors
<1>2. Release(w) \/ \E step \in {"retry", "compensate"} : Goto(w, step)
  BY DEF EventDelivered
<1>3. WorkOK'
  BY <1>1, <1>2, WorkMoves, WorkReleased DEF EventDelivered, TypeOK
<1>4. QED
  BY <1>3 DEF EventDelivered, TypeOK, CmsOK, RevisionOK, PublicOK, OutboxOK, RemoteOK, cms,
     public, remote

LEMMA FailPublishTyped ==
    ASSUME BulletinAssumption, TypeOK, NEW w \in Workers, FailPublish(w)
    PROVE  TypeOK'
<1> DEFINE k == work[w].key
           rk == RevokeKey(k.issue, k.ver)
           re == Event(outbox[k].asset, k.ver, FALSE)
           box == Insert(outbox, rk, re)
<1>1. /\ k \in DOMAIN outbox /\ k \in Keys /\ k.kind = "publish" /\ work[w] # Idle
      /\ k.issue \in Issues /\ k.ver \in Versions /\ "retry" \in StepsOf(k.kind)
  BY WorkerKind, KeyFields DEF FailPublish, TypeOK, Publishes
<1>2. outbox[k].asset \in Assets
  BY <1>1 DEF TypeOK, OutboxOK, EventRows
<1>3. rk \in Keys /\ rk.kind = "revoke"
  BY <1>1 DEF Keys, RevokeKey, EventKey
<1>4. re \in EventRows(rk)
  BY <1>1, <1>2 DEF RevokeKey, EventKey, Event, EventRows, GrantIds, Versions,
     BulletinAssumption
<1>5. \/ FailEvent(k, box) /\ Release(w)
      \/ Goto(w, "retry") /\ UNCHANGED <<cms, public, outbox, remote, faults>>
  BY DEF FailPublish
<1>6. Typed(outbox)
  BY DEF TypeOK, OutboxOK, Typed
<1> HIDE DEF rk, re
<1>7. Typed(box) /\ DOMAIN outbox \subseteq DOMAIN box
  BY <1>3, <1>4, <1>6, InsertTyped
<1>8. CASE FailEvent(k, box) /\ Release(w)
  <2> HIDE DEF box, k
  <2>1. k \in DOMAIN box
    BY <1>1, <1>7
  <2>2. /\ CmsOK' /\ RevisionOK' /\ PublicOK' /\ OutboxOK' /\ RemoteOK'
        /\ DOMAIN outbox' = DOMAIN box
    BY <1>7, <1>8, <2>1, FailEventTyped
  <2>3. QED
    BY <1>7, <1>8, <2>2, WorkReleased DEF TypeOK
<1>9. CASE Goto(w, "retry") /\ UNCHANGED <<cms, public, outbox, remote, faults>>
  BY <1>1, <1>9, WorkMoves DEF TypeOK, CmsOK, RevisionOK, PublicOK, OutboxOK, RemoteOK,
     cms, public, remote
<1>10. QED
  BY <1>5, <1>8, <1>9

LEMMA RevokeGrantTyped ==
    ASSUME BulletinAssumption, TypeOK, NEW w \in Workers, RevokeGrant(w)
    PROVE  TypeOK'
<1> DEFINE next == IF work[w].key.kind = "retire" THEN "delete" ELSE "finish"
<1>1. work[w] # Idle /\ {next, "retry"} \subseteq StepsOf(work[w].key.kind)
  BY WorkerKind DEF RevokeGrant, TypeOK, StepsOf, Errors
<1>2. \E step \in {next, "retry"} : Goto(w, step)
  BY DEF RevokeGrant
<1>3. WorkOK'
  BY <1>1, <1>2, WorkMoves DEF RevokeGrant, TypeOK
<1>4. grants' \subseteq Assets \X Issues \X Versions
  BY DEF RevokeGrant, TypeOK, RemoteOK
<1>5. QED
  BY <1>3, <1>4 DEF RevokeGrant, TypeOK, CmsOK, RevisionOK, PublicOK, OutboxOK, RemoteOK,
     cms, public

LEMMA DeleteAssetTyped ==
    ASSUME BulletinAssumption, TypeOK, NEW w \in Workers, DeleteAsset(w)
    PROVE  TypeOK'
<1>1. work[w] # Idle /\ {"finish", "retry"} \subseteq StepsOf(work[w].key.kind)
  BY WorkerKind DEF DeleteAsset, TypeOK, StepsOf, Errors
<1>2. \E step \in {"finish", "retry"} : Goto(w, step)
  BY DEF DeleteAsset
<1>3. WorkOK'
  BY <1>1, <1>2, WorkMoves DEF DeleteAsset, TypeOK
<1>4. assets' \in [Assets -> {"pending", "clean", "bad", "deleted"}]
  BY DEF DeleteAsset, TypeOK, RemoteOK
<1>5. QED
  BY <1>3, <1>4 DEF DeleteAsset, TypeOK, CmsOK, RevisionOK, PublicOK, OutboxOK, RemoteOK,
     cms, public

LEMMA CompleteUnpublishTyped ==
    ASSUME BulletinAssumption, TypeOK, NEW w \in Workers, CompleteUnpublish(w)
    PROVE  TypeOK'
<1> DEFINE k == work[w].key
           u == [version[k.issue][k.locale] EXCEPT !.status = "unpublished", !.grant = 0,
                                                   !.retAsset = None, !.retGrant = 0]
<1>1. /\ k \in DOMAIN outbox /\ k \in Keys /\ k.kind = "unpublish" /\ work[w] # Idle
      /\ k.issue \in Issues /\ k.locale \in Locales /\ k.ver \in Versions
  BY WorkerKind, KeyFields DEF CompleteUnpublish, TypeOK, Publishes
<1>2. Release(w) \/ Goto(w, AfterError(w))
  BY DEF CompleteUnpublish
<1>3. CASE UNCHANGED <<cms, outbox>>
  <2>1. WorkOK'
    BY <1>1, <1>2, <1>3, WorkerKind, WorkMoves, WorkReleased DEF TypeOK
  <2>2. QED
    BY <1>3, <2>1 DEF CompleteUnpublish, TypeOK, CmsOK, RevisionOK, PublicOK, OutboxOK,
       RemoteOK, cms, public, remote
<1>4. CASE /\ issue[k.issue].version = k.ver
           /\ version[k.issue][k.locale].status = "unpublishing"
           /\ UnpublishEdition(k) /\ UNCHANGED revision
  <2>1. /\ issue[k.issue] \in [status : Statuses, version : Versions, number : Numbers,
                                notif : {"not_requested", "pending", "queued", "failed"}]
        /\ version[k.issue][k.locale] \in
                [status : Statuses, asset : Assets, grant : GrantIds,
                 retAsset : AssetOrNone, retGrant : GrantIds]
    <3>1. issue[k.issue] \in IssueRows /\ version[k.issue][k.locale] \in VersionRows
      BY <1>1, IssueFields, VersionFields DEF TypeOK
    <3>2. issue[k.issue].version # 0
      BY <1>1, <1>4 DEF Versions
    <3>3. QED
      BY <1>4, <3>1, <3>2 DEF IssueRows, VersionRows, NoIssue, IssueRow, NoVersion
  <2>2. u \in VersionRows
    <3>1. /\ "unpublished" \in Statuses /\ 0 \in GrantIds /\ None \in AssetOrNone
      BY DEF Statuses, AssetOrNone, GrantIds, BulletinAssumption
    <3> DEFINE v == version[k.issue][k.locale]
    <3> HIDE DEF v
    <3>2. [v EXCEPT !.status = "unpublished", !.grant = 0, !.retAsset = None,
                    !.retGrant = 0] \in VersionRows
      BY <2>1, <3>1 DEF VersionRows, v
    <3>3. QED
      BY <3>2 DEF v
  <2>3. version' = [version EXCEPT ![k.issue] = [version[k.issue] EXCEPT ![k.locale] = u]]
    <3>1. version' = [version EXCEPT ![k.issue][k.locale].status = "unpublished",
                                     ![k.issue][k.locale].grant = 0,
                                     ![k.issue][k.locale].retAsset = None,
                                     ![k.issue][k.locale].retGrant = 0]
      BY <1>4 DEF UnpublishEdition
    <3>2. version \in [Issues -> [Locales -> VersionRows]]
      BY DEF TypeOK, CmsOK
    <3> HIDE DEF k
    <3>3. QED
      BY <1>1, <3>1, <3>2
  <2>4. PICK s \in {"published", "unpublished"} : issue' = [issue EXCEPT ![k.issue].status = s]
    BY <1>4 DEF UnpublishEdition
  <2>5. [issue[k.issue] EXCEPT !.status = s] \in IssueRows
    BY <2>1 DEF IssueRows, Statuses
  <2> HIDE DEF u
  <2>6. CmsOK'
    BY <1>1, <2>2, <2>3, <2>4, <2>5 DEF TypeOK, CmsOK
  <2>7. Typed(outbox') /\ DOMAIN outbox' = DOMAIN outbox
    <3>1. Typed(outbox) /\ 0 \in 0 .. MaxAttempts
      BY DEF TypeOK, OutboxOK, Typed, BulletinAssumption
    <3>2. QED
      BY <1>1, <1>4, <3>1, OutboxStatus DEF UnpublishEdition
  <2>8. WorkOK'
    BY <1>1, <1>2, <2>7, WorkerKind, WorkMoves, WorkReleased DEF TypeOK
  <2>9. QED
    BY <1>4, <2>6, <2>7, <2>8 DEF CompleteUnpublish, TypeOK, RevisionOK, PublicOK, OutboxOK,
       Typed, RemoteOK, public, remote
<1>5. QED
  BY <1>3, <1>4 DEF CompleteUnpublish

\* An event whose status becomes 'delivered' keeps the outbox typed.
LEMMA DeliveredTyped ==
    ASSUME BulletinAssumption, OutboxOK, NEW k \in DOMAIN outbox,
           outbox' = [outbox EXCEPT ![k].status = "delivered"] \/ UNCHANGED outbox
    PROVE  OutboxOK' /\ DOMAIN outbox' = DOMAIN outbox
<1>1. Typed(outbox) /\ 0 \in 0 .. MaxAttempts
  BY DEF OutboxOK, Typed, BulletinAssumption
<1>2. Typed(outbox') /\ DOMAIN outbox' = DOMAIN outbox
  BY <1>1, OutboxStatus
<1>3. QED
  BY <1>2 DEF OutboxOK, Typed

LEMMA CompleteTyped ==
    ASSUME BulletinAssumption, TypeOK, NEW w \in Workers, Complete(w)
    PROVE  TypeOK'
<1>1. work[w] # Idle /\ work[w].key \in DOMAIN outbox
  BY WorkerKind DEF Complete, TypeOK
<1>2. OutboxOK' /\ DOMAIN outbox' = DOMAIN outbox
  BY <1>1, DeliveredTyped DEF Complete, TypeOK
<1>3. Release(w) \/ Goto(w, AfterError(w))
  BY DEF Complete
<1>4. WorkOK'
  BY <1>1, <1>2, <1>3, WorkerKind, WorkMoves, WorkReleased DEF TypeOK
<1>5. QED
  BY <1>2, <1>4 DEF Complete, TypeOK, CmsOK, RevisionOK, PublicOK, RemoteOK, cms, public,
     remote

LEMMA QueueNotificationTyped ==
    ASSUME BulletinAssumption, TypeOK, NEW w \in Workers, QueueNotification(w)
    PROVE  TypeOK'
<1>1. PICK step \in {"finish", "fail", AfterError(w)} : Goto(w, step)
  BY DEF QueueNotification
<1>2. work[w] # Idle /\ step \in StepsOf(work[w].key.kind)
  BY WorkerKind DEF QueueNotification, TypeOK, StepsOf, Errors
<1>3. QED
  BY <1>1, <1>2, WorkMoves DEF QueueNotification, TypeOK, CmsOK, RevisionOK, PublicOK,
     OutboxOK, RemoteOK, cms, public, remote

LEMMA CompleteNotificationTyped ==
    ASSUME BulletinAssumption, TypeOK, NEW w \in Workers, CompleteNotification(w)
    PROVE  TypeOK'
<1> DEFINE k == work[w].key
<1>1. work[w] # Idle /\ k \in DOMAIN outbox /\ k.issue \in Issues
  BY WorkerKind, KeyFields DEF CompleteNotification, TypeOK
<1>2. OutboxOK' /\ DOMAIN outbox' = DOMAIN outbox
  BY <1>1, DeliveredTyped DEF CompleteNotification, TypeOK
<1>3. issue' \in [Issues -> IssueRows]
  <2>1. ASSUME issue[k.issue].notif = "pending"
        PROVE  [issue[k.issue] EXCEPT !.notif = "queued"] \in IssueRows
    BY <1>1, <2>1, IssueFields DEF TypeOK, IssueRows, IssueRow, NoIssue
  <2>2. \/ UNCHANGED issue
        \/ /\ issue[k.issue].notif = "pending"
           /\ issue' = [issue EXCEPT ![k.issue].notif = "queued"]
    BY DEF CompleteNotification
  <2>3. QED
    BY <1>1, <2>1, <2>2 DEF TypeOK, CmsOK
<1>4. Release(w) \/ Goto(w, AfterError(w))
  <2>1. WorkOK
    BY DEF TypeOK
  <2>2. QED
    BY <1>1, <2>1 DEF CompleteNotification, Release, Goto, WorkOK, BusyOK
<1>5. WorkOK'
  BY <1>1, <1>2, <1>4, WorkerKind, WorkMoves, WorkReleased DEF TypeOK
<1>6. QED
  BY <1>2, <1>3, <1>5 DEF CompleteNotification, TypeOK, CmsOK, RevisionOK, PublicOK,
     RemoteOK, public, remote

LEMMA AssetStepTyped ==
    ASSUME BulletinAssumption, TypeOK, NEW a \in Assets, AssetScanned(a) \/ RetryAssetScan(a)
    PROVE  TypeOK'
<1>1. assets' \in [Assets -> {"pending", "clean", "bad", "deleted"}]
  BY DEF AssetScanned, RetryAssetScan, TypeOK, RemoteOK
<1>2. UNCHANGED <<cms, public, outbox, work, grants, faults>>
  BY DEF AssetScanned, RetryAssetScan
<1>3. QED
  BY <1>1, <1>2, WorkKept DEF TypeOK, CmsOK, RevisionOK, PublicOK, OutboxOK, RemoteOK, cms,
     public

LEMMA StutterTyped ==
    ASSUME TypeOK, UNCHANGED vars
    PROVE  TypeOK'
BY WorkKept DEF TypeOK, CmsOK, RevisionOK, PublicOK, OutboxOK, RemoteOK, vars, cms, public,
   remote

LEMMA NextTypeOK ==
    ASSUME BulletinAssumption, TypeOK, [Next]_vars
    PROVE  TypeOK'
<1>1. ASSUME NEW i \in Issues, Edit(i)
      PROVE  TypeOK'
  <2>1. NotifyChoices \subseteq BOOLEAN
    BY DEF BulletinAssumption
  <2>2. QED
    BY <1>1, <2>1, CreateIssueTyped, UpdateIssueTyped, PutVersionTyped, UpdateVersionTyped,
       DeleteVersionTyped, UnpublishTyped, StartPublishTyped, RestoreTyped, DeleteIssueTyped
       DEF Edit
<1>2. ASSUME NEW w \in Workers, WorkerStep(w)
      PROVE  TypeOK'
  BY <1>2, RetryTyped, DeferTyped, FailTyped, GetAssetTyped, CreatePublicGrantTyped,
     CompletePublishTyped, EventDeliveredTyped, FailPublishTyped, RevokeGrantTyped,
     DeleteAssetTyped, CompleteUnpublishTyped, CompleteTyped, QueueNotificationTyped,
     CompleteNotificationTyped DEF WorkerStep
<1>3. QED
  BY <1>1, <1>2, ClaimTyped, CrashTyped, AssetStepTyped, StutterTyped DEF Next

\* Type correctness: every row of every table keeps its shape; every existing
\* edition and every event whose handler calls asset-api names an asset; and
\* every busy worker is in a step of the handler of an event of the outbox.
THEOREM TypeCorrect == Spec => []TypeOK
<1>1. Init => TypeOK
  BY InitTypeOK, BulletinAssumption
<1>2. TypeOK /\ [Next]_vars => TypeOK'
  BY NextTypeOK, BulletinAssumption
<1>3. QED
  BY <1>1, <1>2, PTL DEF Spec

----------------------------------------------------------------------------
(***************************************************************************)
(* A pending notification has an open event (PendingNotificationHasEvent). *)
(* One outbox row serves all requests for an issue, so that the row has to *)
(* be free or failed when a request comes: the invariant relates what the  *)
(* issue says of its notification to the status of that row.               *)
(***************************************************************************)
NotifiedAt(i) ==
    LET k == NotifyKey(i)
    IN /\ issue[i].notif = "pending" => Open(k)
       /\ issue[i].notif = "failed" => k \in DOMAIN outbox /\ outbox[k].status = "failed"
       /\ (issue[i].notif = "not_requested" /\ issue[i].status # "deleted") =>
                k \notin DOMAIN outbox

Notified == \A i \in Issues : NotifiedAt(i)

NotificationInv == TypeOK /\ Notified

SameNotice(i) ==
    /\ issue'[i].notif = issue[i].notif
    /\ issue[i].status = "deleted" => issue'[i].status = "deleted"

\* The row of the notification keeps its status, or stays open.
SameNotifyEvent(i) ==
    LET k == NotifyKey(i)
    IN /\ k \in DOMAIN outbox' <=> k \in DOMAIN outbox
       /\ k \in DOMAIN outbox => \/ outbox'[k].status = outbox[k].status
                                 \/ Open(k) /\ Open(k)'

LEMMA NoticeKept ==
    ASSUME NEW i \in Issues, NotifiedAt(i), SameNotice(i), SameNotifyEvent(i)
    PROVE  NotifiedAt(i)'
<1>1. PICK k : k = NotifyKey(i)
  OBVIOUS
<1> QED
  BY <1>1 DEF NotifiedAt, SameNotice, SameNotifyEvent, Open

LEMMA NoticesKept ==
    ASSUME Notified, \A i \in Issues : SameNotice(i) /\ SameNotifyEvent(i)
    PROVE  Notified'
BY NoticeKept DEF Notified

LEMMA NotifyKeys ==
    ASSUME NEW i, NEW j
    PROVE  /\ NotifyKey(i).kind = "notify" /\ NotifyKey(i).issue = i
           /\ ~Publishes(NotifyKey(i))
           /\ NotifyKey(i) = NotifyKey(j) => i = j
BY DEF NotifyKey, EventKey, Publishes

----------------------------------------------------------------------------
(* The rows of the outbox                                                  *)

LEMMA OnlyOthers ==
    ASSUME \A x \in DOMAIN outbox : x.kind = "notify" => outbox'[x] = outbox[x],
           DOMAIN outbox \subseteq DOMAIN outbox',
           \A x \in DOMAIN outbox' \ DOMAIN outbox : x.kind # "notify"
    PROVE  \A i \in Issues : SameNotifyEvent(i)
BY NotifyKeys DEF SameNotifyEvent

LEMMA InsertIsQuiet ==
    ASSUME NEW k, NEW e, k.kind # "notify", outbox' = Insert(outbox, k, e)
    PROVE  \A i \in Issues : SameNotifyEvent(i)
<1>1. /\ DOMAIN outbox' = DOMAIN outbox \cup {k}
      /\ \A x \in DOMAIN outbox : outbox'[x] = outbox[x]
  BY DEF Insert
<1> QED
  BY <1>1, OnlyOthers

LEMMA DeletesStayQuiet ==
    ASSUME NEW i, NEW S, EnqueueAssetDeletes(i, S)
    PROVE  \A j \in Issues : SameNotifyEvent(j)
<1> DEFINE new == {DeleteKey(i, a) : a \in S} \ DOMAIN outbox
<1>1. \A k \in new : k.kind # "notify"
  BY DEF DeleteKey, EventKey
<1>2. /\ \A k \in DOMAIN outbox : outbox'[k] = outbox[k]
      /\ DOMAIN outbox' = DOMAIN outbox \cup new
  BY DEF EnqueueAssetDeletes
<1> HIDE DEF new
<1> QED
  BY <1>1, <1>2, OnlyOthers

LEMMA OutboxKept ==
    ASSUME outbox' = outbox
    PROVE  \A i \in Issues : SameNotifyEvent(i)
BY DEF SameNotifyEvent

\* A worker moves one event, of another kind or from open to open.
LEMMA EventStaysOpen ==
    ASSUME NEW k \in DOMAIN outbox, DOMAIN outbox' = DOMAIN outbox,
           \A x \in DOMAIN outbox \ {k} : outbox'[x] = outbox[x],
           k.kind # "notify" \/ (Open(k) /\ Open(k)')
    PROVE  \A i \in Issues : SameNotifyEvent(i)
<1> SUFFICES ASSUME NEW i \in Issues
             PROVE  SameNotifyEvent(i)
  OBVIOUS
<1>1. PICK n : n = NotifyKey(i) /\ n.kind = "notify"
  BY NotifyKeys
<1> QED
  BY <1>1 DEF SameNotifyEvent

LEMMA StatusSet ==
    ASSUME OutboxOK, NEW k \in DOMAIN outbox, NEW s, NEW n,
           \/ outbox' = [outbox EXCEPT ![k].status = s]
           \/ outbox' = [outbox EXCEPT ![k].status = s, ![k].attempts = n]
    PROVE  /\ DOMAIN outbox' = DOMAIN outbox /\ outbox'[k].status = s
           /\ \A x \in DOMAIN outbox \ {k} : outbox'[x] = outbox[x]
<1>1. outbox[k] \in EventRows(k)
  BY DEF OutboxOK
<1>2. DOMAIN outbox[k] = {"status", "attempts", "asset", "grant", "notify"}
  BY <1>1 DEF EventRows
<1> QED
  BY <1>2

----------------------------------------------------------------------------
(* Editors                                                                 *)

LEMMA AdvancedNotice ==
    ASSUME TypeOK, NEW i \in Issues, NEW s, Mutable(i), Advance(i, s)
    PROVE  \A j \in Issues : SameNotice(j)
<1>1. issue \in [Issues -> IssueRows] /\ issue[i] \in IssueRows
  BY DEF TypeOK, CmsOK
<1>2. DOMAIN issue[i] = {"status", "version", "number", "notif"}
  BY <1>1 DEF IssueRows, IssueRow, NoIssue
<1>3. issue[i].status # "deleted"
  BY DEF Mutable, Exists
<1> QED
  BY <1>1, <1>2, <1>3 DEF Advance, SameNotice

\* An edit changes no notification but that of an issue it deletes.
LEMMA EditNotice ==
    ASSUME TypeOK, NEW i \in Issues, Edit(i)
    PROVE  \/ \A j \in Issues : SameNotice(j)
           \/ issue' = [issue EXCEPT ![i] = IssueRow("deleted", 0, 0)]
<1>1. issue \in [Issues -> IssueRows] /\ issue[i] \in IssueRows
  BY DEF TypeOK, CmsOK
<1>2. DOMAIN issue[i] = {"status", "version", "number", "notif"}
  BY <1>1 DEF IssueRows, IssueRow, NoIssue
<1>3. ASSUME NEW n, CreateIssue(i, n)
      PROVE  \A j \in Issues : SameNotice(j)
  <2>1. issue[i].status = "absent" /\ issue' = [issue EXCEPT ![i] = IssueRow("draft", 1, n)]
    BY <1>3 DEF CreateIssue
  <2>2. issue[i].notif = "not_requested"
    BY <1>1, <2>1 DEF IssueRows, IssueRow, NoIssue, Statuses, InFlight
  <2> QED
    BY <1>1, <2>1, <2>2 DEF SameNotice, IssueRow
<1>4. ASSUME NEW n, UpdateIssue(i, n)
      PROVE  \A j \in Issues : SameNotice(j)
  BY <1>1, <1>2, <1>4 DEF UpdateIssue, SameNotice
<1>5. ASSUME NEW r, RestoreIssueRevision(i, r)
      PROVE  \A j \in Issues : SameNotice(j)
  <2>1. PICK n : /\ Mutable(i)
                 /\ issue' = [issue EXCEPT ![i].status = "draft", ![i].version = @ + 1,
                                           ![i].number = n]
    BY <1>5 DEF RestoreIssueRevision
  <2>2. issue[i].status # "deleted"
    BY <2>1 DEF Mutable, Exists
  <2> QED
    BY <1>1, <1>2, <2>1, <2>2 DEF SameNotice
<1> QED
  BY <1>3, <1>4, <1>5, AdvancedNotice DEF Edit, PutVersion, UpdateVersion, DeleteVersion,
     Unpublish, StartPublish, DeleteIssue, FinishIssueDraft

LEMMA EditEvents ==
    ASSUME NEW i \in Issues, Edit(i)
    PROVE  \A j \in Issues : SameNotifyEvent(j)
<1>1. ASSUME NEW l, NEW v, NEW e,
             \/ outbox' = Insert(outbox, PublishKey(i, l, v), e)
             \/ outbox' = Insert(outbox, UnpublishKey(i, l, v), e)
      PROVE  \A j \in Issues : SameNotifyEvent(j)
  <2>1. PublishKey(i, l, v).kind # "notify" /\ UnpublishKey(i, l, v).kind # "notify"
    BY DEF PublishKey, UnpublishKey, EventKey
  <2> QED
    BY <1>1, <2>1, InsertIsQuiet
<1>3. ASSUME NEW l, NEW notify, StartPublish(i, l, notify)
      PROVE  \A j \in Issues : SameNotifyEvent(j)
  BY <1>1, <1>3 DEF StartPublish
<1>4. ASSUME NEW l, Unpublish(i, l)
      PROVE  \A j \in Issues : SameNotifyEvent(j)
  BY <1>1, <1>4 DEF Unpublish
<1> QED
  BY <1>3, <1>4, OutboxKept, DeletesStayQuiet DEF Edit, CreateIssue, UpdateIssue, PutVersion,
     UpdateVersion, DeleteVersion, RestoreIssueRevision, DeleteIssue

LEMMA EditNotified ==
    ASSUME TypeOK, Notified, NEW i \in Issues, Edit(i)
    PROVE  Notified'
<1>1. \A j \in Issues : SameNotifyEvent(j)
  BY EditEvents
<1>2. CASE issue' = [issue EXCEPT ![i] = IssueRow("deleted", 0, 0)]
  <2>1. issue'[i] = IssueRow("deleted", 0, 0) /\ \A j \in Issues \ {i} : issue'[j] = issue[j]
    BY <1>2 DEF TypeOK, CmsOK
  <2>2. NotifiedAt(i)'
    BY <2>1 DEF NotifiedAt, IssueRow
  <2>3. ASSUME NEW j \in Issues \ {i}
        PROVE  NotifiedAt(j)'
    BY <1>1, <2>1, NoticeKept DEF SameNotice, Notified
  <2> QED
    BY <2>2, <2>3 DEF Notified
<1> QED
  BY <1>1, <1>2, EditNotice, NoticesKept

----------------------------------------------------------------------------
(* Workers                                                                 *)

\* The issue rows a worker's transaction leaves.
LEMMA WorkerNotice ==
    ASSUME TypeOK, NEW i \in Issues, NEW s, s # "deleted",
           \/ issue' = issue
           \/ issue' = [issue EXCEPT ![i].status = s] /\ issue[i].status # "deleted"
    PROVE  \A j \in Issues : SameNotice(j)
<1>1. issue[i] \in IssueRows /\ DOMAIN issue = Issues
  BY DEF TypeOK, CmsOK
<1>2. DOMAIN issue[i] = {"status", "version", "number", "notif"}
  BY <1>1 DEF IssueRows, IssueRow, NoIssue
<1> QED
  BY <1>1, <1>2 DEF SameNotice

\* A transaction that writes the notification of one issue.
WritesNotice(i, s, m) == issue' = [issue EXCEPT ![i].status = s, ![i].notif = m]

LEMMA NoticeWritten ==
    ASSUME TypeOK, NEW i \in Issues, NEW s, NEW m,
           \/ issue' = [issue EXCEPT ![i].notif = m]
           \/ WritesNotice(i, s, m)
    PROVE  issue'[i].notif = m /\ \A j \in Issues \ {i} : SameNotice(j)
<1>1. issue[i] \in IssueRows /\ DOMAIN issue = Issues
  BY DEF TypeOK, CmsOK
<1>2. DOMAIN issue[i] = {"status", "version", "number", "notif"}
  BY <1>1 DEF IssueRows, IssueRow, NoIssue
<1> QED
  BY <1>1, <1>2 DEF SameNotice, WritesNotice

LEMMA IsNotifyKey ==
    ASSUME NEW k \in Keys, k.kind = "notify"
    PROVE  k = NotifyKey(k.issue)
BY DEF Keys, PublishKey, UnpublishKey, RetireKey, DeleteKey, RevokeKey, NotifyKey, EventKey

LEMMA FailNotified ==
    ASSUME TypeOK, Notified, NEW k \in DOMAIN outbox, NEW r, NEW e, r.kind # "notify",
           \/ FailEvent(k, outbox)
           \/ FailEvent(k, Insert(outbox, r, e)) /\ k.kind = "publish"
    PROVE  Notified'
<1>1. PICK i : i = k.issue /\ k \in Keys /\ i \in Issues
  BY KeyFields DEF TypeOK, OutboxOK
<1>2. CASE k.kind = "notify"
  <2>1. /\ outbox' = [outbox EXCEPT ![k].status = "failed"]
        /\ issue' = IF issue[i].notif = "pending" THEN [issue EXCEPT ![i].notif = "failed"]
                    ELSE issue
    BY <1>1, <1>2 DEF FailEvent, FailIssue
  <2>2. /\ DOMAIN outbox' = DOMAIN outbox /\ outbox'[k].status = "failed"
        /\ \A x \in DOMAIN outbox \ {k} : outbox'[x] = outbox[x]
    BY <2>1, StatusSet DEF TypeOK
  <2>3. k = NotifyKey(i)
    BY <1>1, <1>2, IsNotifyKey
  <2>4. \/ issue[i].notif = "pending" /\ issue'[i].notif = "failed"
        \/ issue[i].notif # "pending" /\ issue' = issue
    BY <2>1, NoticeWritten, <1>1
  <2>5. NotifiedAt(i)'
    BY <1>1, <2>2, <2>3, <2>4 DEF NotifiedAt, Notified
  <2>6. ASSUME NEW j \in Issues \ {i}
        PROVE  NotifiedAt(j)'
    <3>1. SameNotice(j)
      BY <1>1, <2>1, NoticeWritten DEF SameNotice
    <3>2. NotifyKey(j) # k
      BY <2>3, NotifyKeys
    <3>3. SameNotifyEvent(j)
      BY <2>2, <3>2 DEF SameNotifyEvent
    <3> QED
      BY <3>1, <3>3, NoticeKept DEF Notified
  <2> QED
    BY <2>5, <2>6 DEF Notified
<1>3. CASE k.kind # "notify"
  <2>1. Aborted(k.kind) # "deleted" /\ Doing(k.kind) # "deleted"
    BY DEF Aborted, Doing
  <2>2. \A j \in Issues : SameNotice(j)
    <3>1. \/ issue' = issue
          \/ /\ issue[i].status = Doing(k.kind)
             /\ issue' = [issue EXCEPT ![i].status = Aborted(k.kind)]
      BY <1>1, <1>3 DEF FailEvent, FailIssue
    <3> QED
      BY <1>1, <2>1, <3>1, WorkerNotice
  <2>3. PICK box : /\ box = outbox \/ box = Insert(outbox, r, e)
                   /\ outbox' = [box EXCEPT ![k].status = "failed"]
    BY DEF FailEvent
  <2>4. /\ DOMAIN outbox \subseteq DOMAIN box /\ DOMAIN box \subseteq DOMAIN outbox \cup {r}
        /\ \A x \in DOMAIN outbox : box[x] = outbox[x]
    BY <2>3 DEF Insert
  <2>5. /\ DOMAIN outbox \subseteq DOMAIN outbox' /\ DOMAIN outbox' \subseteq DOMAIN outbox \cup {r}
        /\ \A x \in DOMAIN outbox \ {k} : outbox'[x] = outbox[x]
    BY <2>3, <2>4
  <2>6. \A j \in Issues : SameNotifyEvent(j)
    BY <1>3, <2>5, OnlyOthers
  <2> QED
    BY <2>2, <2>6, NoticesKept
<1> QED
  BY <1>2, <1>3

\* A completed publication requests a notification if its row is new or has failed.
LEMMA PublishNotified ==
    ASSUME TypeOK, Notified, NEW k \in DOMAIN outbox, k.kind = "publish", Current(k),
           PublishEdition(k)
    PROVE  Notified'
<1> DEFINE i == k.issue
           nk == NotifyKey(k.issue)
           ne == Event(None, 0, FALSE)
           v == version[k.issue][k.locale]
           rk == RetireKey(k.issue, k.locale, v.retAsset)
           re == Event(v.retAsset, v.retGrant, FALSE)
           ask  == outbox[k].notify /\ issue[k.issue].notif \in {"not_requested", "failed"}
           done == [outbox EXCEPT ![k].status = "delivered"]
           told == IF ask THEN Requeue(done, nk, ne) ELSE done
<1>1. outbox' = IF v.retAsset \notin {None, outbox[k].asset}
                THEN Insert(told, rk, re) ELSE told
  BY DEF PublishEdition
<1>2. /\ issue' = [issue EXCEPT ![i].status = "published",
                                ![i].notif = IF ask THEN "pending" ELSE issue[i].notif]
      /\ i \in Issues /\ issue[i].status # "deleted"
  BY KeyFields DEF PublishEdition, Current, TypeOK, OutboxOK
<1>3. /\ issue'[i].notif = IF ask THEN "pending" ELSE issue[i].notif
      /\ \A j \in Issues \ {i} : SameNotice(j)
  <2>1. PICK m : m = IF ask THEN "pending" ELSE issue[i].notif
    OBVIOUS
  <2>2. WritesNotice(i, "published", m)
    BY <1>2, <2>1 DEF WritesNotice
  <2>3. issue'[i].notif = m /\ \A j \in Issues \ {i} : SameNotice(j)
    BY <1>2, <2>2, NoticeWritten
  <2> QED
    BY <2>1, <2>3
<1>4. nk.kind = "notify" /\ rk.kind # "notify" /\ nk # k /\ rk # nk /\ ne.status = "pending"
  BY DEF NotifyKey, RetireKey, EventKey, Event
<1>5. /\ DOMAIN done = DOMAIN outbox
      /\ \A x \in DOMAIN outbox \ {k} : done[x] = outbox[x]
  OBVIOUS
<1>6. ask => (nk \in DOMAIN outbox => outbox[nk].status = "failed")
  BY <1>2 DEF Notified, NotifiedAt
<1>7. nk \in DOMAIN outbox => "status" \in DOMAIN outbox[nk] /\ "attempts" \in DOMAIN outbox[nk]
  BY DEF TypeOK, OutboxOK, EventRows
<1> HIDE DEF nk, ne, rk, re, ask, done, v
<1>8. CASE ask
  <2>1. /\ nk \in DOMAIN told /\ told[nk].status = "pending"
        /\ DOMAIN told = DOMAIN done \cup {nk}
        /\ \A x \in DOMAIN done \ {nk} : told[x] = done[x]
    <3>1. told = Requeue(done, nk, ne)
      BY <1>8
    <3> HIDE DEF told
    <3>2. nk \in DOMAIN done => /\ done[nk].status = "failed"
                               /\ "status" \in DOMAIN done[nk]
                               /\ "attempts" \in DOMAIN done[nk]
      BY <1>4, <1>5, <1>6, <1>7, <1>8
    <3> QED
      BY <1>4, <3>1, <3>2 DEF Requeue, Insert
  <2> HIDE DEF told
  <2>2. /\ DOMAIN told \subseteq DOMAIN outbox' /\ DOMAIN outbox' \subseteq DOMAIN told \cup {rk}
        /\ \A x \in DOMAIN told : outbox'[x] = told[x]
    BY <1>1 DEF Insert
  <2>3. NotifiedAt(i)'
    BY <1>3, <1>8, <2>1, <2>2 DEF NotifiedAt, Open, nk
  <2>4. ASSUME NEW j \in Issues \ {i}
        PROVE  NotifiedAt(j)'
    <3>1. PICK n : n = NotifyKey(j) /\ n # nk /\ n # rk /\ n # k
      BY <1>4, NotifyKeys DEF nk
    <3>2. SameNotifyEvent(j)
      BY <1>5, <2>1, <2>2, <3>1 DEF SameNotifyEvent
    <3> QED
      BY <1>3, <3>2, NoticeKept DEF Notified
  <2> QED
    BY <2>3, <2>4 DEF Notified
<1>9. CASE ~ask
  <2>0. told = done
    BY <1>9
  <2> HIDE DEF told
  <2>1. /\ DOMAIN outbox \subseteq DOMAIN outbox' /\ DOMAIN outbox' \subseteq DOMAIN outbox \cup {rk}
        /\ \A x \in DOMAIN outbox \ {k} : outbox'[x] = outbox[x]
    BY <1>1, <1>5, <2>0 DEF Insert
  <2>2. \A j \in Issues : SameNotifyEvent(j)
    BY <1>4, <2>1, OnlyOthers
  <2>3. \A j \in Issues : SameNotice(j)
    BY <1>2, <1>3, <1>9 DEF SameNotice
  <2> QED
    BY <2>2, <2>3, NoticesKept
<1> QED
  BY <1>8, <1>9

LEMMA UnpublishNotified ==
    ASSUME TypeOK, Notified, NEW k \in DOMAIN outbox, k.kind = "unpublish",
           issue[k.issue].status # "deleted", UnpublishEdition(k)
    PROVE  Notified'
<1>1. k.issue \in Issues
  BY KeyFields DEF TypeOK, OutboxOK
<1>2. \A i \in Issues : SameNotifyEvent(i)
  <2>1. outbox' = [outbox EXCEPT ![k].status = "delivered"]
    BY DEF UnpublishEdition
  <2> QED
    BY <2>1, StatusSet, EventStaysOpen DEF TypeOK
<1>3. \A i \in Issues : SameNotice(i)
  <2>1. PICK s \in {"published", "unpublished"} : issue' = [issue EXCEPT ![k.issue].status = s]
    BY DEF UnpublishEdition
  <2> QED
    BY <1>1, <2>1, WorkerNotice
<1> QED
  BY <1>2, <1>3, NoticesKept

LEMMA CompleteNotificationNotified ==
    ASSUME TypeOK, Notified, NEW w \in Workers, CompleteNotification(w)
    PROVE  Notified'
<1>1. PICK k, i : k = work[w].key /\ i = k.issue
  OBVIOUS
<1>2. /\ k \in DOMAIN outbox /\ k.kind = "notify" /\ i \in Issues /\ k = NotifyKey(i)
  BY <1>1, WorkerKind, KeyFields, IsNotifyKey DEF CompleteNotification, TypeOK
<1>3. CASE outbox' = outbox /\ issue' = issue
  BY <1>3, OutboxKept, NoticesKept DEF SameNotice
<1>4. CASE /\ outbox' = IF outbox[k].status = "processing"
                        THEN [outbox EXCEPT ![k].status = "delivered"] ELSE outbox
           /\ issue' = IF issue[i].notif = "pending"
                       THEN [issue EXCEPT ![i].notif = "queued"] ELSE issue
  <2>1. /\ DOMAIN outbox' = DOMAIN outbox
        /\ \A x \in DOMAIN outbox \ {k} : outbox'[x] = outbox[x]
        /\ outbox[k].status # "processing" => outbox' = outbox
    BY <1>2, <1>4, StatusSet DEF TypeOK
  <2>2. \/ issue[i].notif = "pending" /\ issue'[i].notif = "queued"
        \/ issue[i].notif # "pending" /\ issue' = issue
    BY <1>2, <1>4, NoticeWritten
  <2>3. NotifiedAt(i)'
    BY <1>2, <2>1, <2>2 DEF NotifiedAt, Notified
  <2>4. ASSUME NEW j \in Issues \ {i}
        PROVE  NotifiedAt(j)'
    <3>1. SameNotice(j)
      BY <1>2, <1>4, NoticeWritten DEF SameNotice
    <3>2. NotifyKey(j) # k
      BY <1>2, NotifyKeys
    <3>3. SameNotifyEvent(j)
      BY <2>1, <3>2 DEF SameNotifyEvent
    <3> QED
      BY <3>1, <3>3, NoticeKept DEF Notified
  <2> QED
    BY <2>3, <2>4 DEF Notified
<1> QED
  BY <1>1, <1>3, <1>4 DEF CompleteNotification

LEMMA QuietNotified ==
    ASSUME Notified, issue' = issue, \A i \in Issues : SameNotifyEvent(i)
    PROVE  Notified'
BY NoticesKept DEF SameNotice

LEMMA WorkerNotified ==
    ASSUME BulletinAssumption, TypeOK, Notified, NEW w \in Workers, WorkerStep(w)
    PROVE  Notified'
<1>0. PICK k : k = work[w].key
  OBVIOUS
<1>1. CASE issue' = issue /\ outbox' = outbox
  BY <1>1, OutboxKept, QuietNotified
<1>2. CASE Retry(w) \/ Defer(w)
  <2>1. k \in DOMAIN outbox /\ issue' = issue
    BY <1>0, <1>2, WorkerKind DEF Retry, Defer, TypeOK, cms
  <2>2. \/ outbox' = outbox
        \/ /\ outbox[k].status = "processing"
           /\ \/ outbox' = [outbox EXCEPT ![k].status = "pending"]
              \/ \E n : outbox' = [outbox EXCEPT ![k].status = "pending", ![k].attempts = n]
    BY <1>0, <1>2 DEF Retry, Defer
  <2>3. CASE outbox' = outbox
    BY <1>1, <2>1, <2>3
  <2>4. CASE outbox' # outbox
    <3>1. /\ DOMAIN outbox' = DOMAIN outbox /\ outbox'[k].status = "pending"
          /\ \A x \in DOMAIN outbox \ {k} : outbox'[x] = outbox[x]
      BY <2>1, <2>2, <2>4, StatusSet DEF TypeOK
    <3>2. Open(k) /\ Open(k)'
      BY <2>1, <2>2, <2>4, <3>1 DEF Open
    <3> QED
      BY <2>1, <3>1, <3>2, EventStaysOpen, QuietNotified
  <2> QED
    BY <2>3, <2>4
<1>3. CASE Fail(w)
  <2>1. k \in DOMAIN outbox /\ FailEvent(k, outbox)
    BY <1>0, <1>3, WorkerKind DEF Fail, TypeOK
  <2>2. PublishKey(0, 0, 0).kind # "notify"
    BY DEF PublishKey, EventKey
  <2> QED
    BY <2>1, <2>2, FailNotified
<1>4. CASE FailPublish(w)
  <2>1. k \in DOMAIN outbox /\ k.kind = "publish"
    BY <1>0, <1>4, WorkerKind DEF FailPublish, TypeOK
  <2>2. \/ issue' = issue /\ outbox' = outbox
        \/ \E e : FailEvent(k, Insert(outbox, RevokeKey(k.issue, k.ver), e))
    BY <1>0, <1>4 DEF FailPublish, cms
  <2>3. RevokeKey(k.issue, k.ver).kind # "notify"
    BY DEF RevokeKey, EventKey
  <2> QED
    BY <1>1, <2>1, <2>2, <2>3, FailNotified
<1>5. CASE CompletePublish(w)
  <2>1. k \in DOMAIN outbox /\ k.kind = "publish"
    BY <1>0, <1>5, WorkerKind DEF CompletePublish, TypeOK
  <2>2. \/ issue' = issue /\ outbox' = outbox
        \/ Current(k) /\ PublishEdition(k)
    BY <1>0, <1>5 DEF CompletePublish, cms
  <2> QED
    BY <1>1, <2>1, <2>2, PublishNotified
<1>6. CASE CompleteUnpublish(w)
  <2>1. k \in DOMAIN outbox /\ k.kind = "unpublish" /\ k.ver \in Versions /\ k.issue \in Issues
    BY <1>0, <1>6, WorkerKind, KeyFields DEF CompleteUnpublish, TypeOK, Publishes
  <2>2. \/ issue' = issue /\ outbox' = outbox
        \/ issue[k.issue].version = k.ver /\ UnpublishEdition(k)
    BY <1>0, <1>6 DEF CompleteUnpublish, cms
  <2>3. issue[k.issue].version = k.ver => issue[k.issue].status # "deleted"
    <3>1. k.ver # 0
      BY <2>1 DEF Versions
    <3> QED
      BY <2>1, <3>1, IssueFields DEF TypeOK, Exists
  <2> QED
    BY <1>1, <2>1, <2>2, <2>3, UnpublishNotified
<1>7. CASE Complete(w)
  <2>1. k \in DOMAIN outbox /\ k.kind # "notify" /\ issue' = issue
    BY <1>0, <1>7, WorkerKind DEF Complete, TypeOK, cms
  <2>2. outbox' = outbox \/ outbox' = [outbox EXCEPT ![k].status = "delivered"]
    BY <1>0, <1>7 DEF Complete
  <2>3. CASE outbox' # outbox
    BY <2>1, <2>2, <2>3, StatusSet, EventStaysOpen, QuietNotified DEF TypeOK
  <2> QED
    BY <1>1, <2>1, <2>3
<1>8. CASE CompleteNotification(w)
  BY <1>8, CompleteNotificationNotified
<1> QED
  BY <1>1, <1>2, <1>3, <1>4, <1>5, <1>6, <1>7, <1>8 DEF WorkerStep, GetAsset,
     CreatePublicGrant, EventDelivered, RevokeGrant, DeleteAsset, QueueNotification, cms

LEMMA ClaimNotified ==
    ASSUME TypeOK, Notified, NEW w \in Workers, NEW k \in DOMAIN outbox, Claim(w, k)
    PROVE  Notified'
<1>1. /\ issue' = issue /\ outbox[k].status \in {"pending", "processing"}
      /\ \E n : outbox' = [outbox EXCEPT ![k].status = "processing", ![k].attempts = n]
  BY DEF Claim, LeaseExpires, cms
<1>2. /\ DOMAIN outbox' = DOMAIN outbox /\ outbox'[k].status = "processing"
      /\ \A x \in DOMAIN outbox \ {k} : outbox'[x] = outbox[x]
  BY <1>1, StatusSet DEF TypeOK
<1>3. Open(k) /\ Open(k)'
  BY <1>1, <1>2 DEF Open
<1> QED
  BY <1>1, <1>2, <1>3, EventStaysOpen, QuietNotified

LEMMA NextNotified ==
    ASSUME BulletinAssumption, NotificationInv, [Next]_vars
    PROVE  NotificationInv'
<1>1. TypeOK'
  BY NextTypeOK DEF NotificationInv
<1>2. (issue' = issue /\ outbox' = outbox) => Notified'
  BY OutboxKept, QuietNotified DEF NotificationInv
<1>3. Notified'
  BY <1>2, EditNotified, ClaimNotified, WorkerNotified DEF NotificationInv, Next, Crash,
     AssetScanned, RetryAssetScan, vars, cms
<1> QED
  BY <1>1, <1>3 DEF NotificationInv

\* A notification an editor was told is pending has an open event that will
\* queue or fail it, for any number of workers, lost leases and republications.
THEOREM PendingNotificationsHaveEvents == Spec => []PendingNotificationHasEvent
<1>1. Init => NotificationInv
  <2>1. Init => Notified
    BY DEF Init, Notified, NotifiedAt, NoIssue, IssueRow
  <2> QED
    BY <2>1, InitTypeOK, BulletinAssumption DEF NotificationInv
<1>2. NotificationInv /\ [Next]_vars => NotificationInv'
  BY NextNotified, BulletinAssumption
<1>3. NotificationInv => PendingNotificationHasEvent
  BY DEF NotificationInv, Notified, NotifiedAt, PendingNotificationHasEvent
<1> QED
  BY <1>1, <1>2, <1>3, PTL DEF Spec

----------------------------------------------------------------------------
(***************************************************************************)
(* The CMS rows agree with the outbox: SingleFlight, InFlightHasEvent,     *)
(* OpenEventIsCurrent and EventsAreSerial, proved together since each      *)
(* needs the others.  The argument is per issue.  A step treats an issue   *)
(* in one of four ways: it leaves its publication alone (Untouched), edits *)
(* it while nothing is in flight (Edited), starts a publication (Started), *)
(* or finishes the one in flight (Finished).                               *)
(***************************************************************************)
Agreement ==
    /\ SingleFlight
    /\ InFlightHasEvent
    /\ OpenEventIsCurrent
    /\ EventsAreSerial

AgreementInv == TypeOK /\ Agreement

\* The editions of an issue that is in flight.
FlightAt(i) ==
    /\ issue[i].status \in InFlight =>
            \E l \in Locales : version[i][l].status \in InFlight
    /\ \A l \in Locales : version[i][l].status \in InFlight =>
            /\ version[i][l].status = issue[i].status
            /\ \A m \in Locales : version[i][m].status \in InFlight => m = l

EventsAt(i) ==
    \A l \in Locales :
        /\ version[i][l].status = "publishing" =>
                Open(PublishKey(i, l, issue[i].version))
        /\ version[i][l].status = "unpublishing" =>
                Open(UnpublishKey(i, l, issue[i].version))

CurrentAt(i) ==
    \A k \in DOMAIN outbox : (k.issue = i /\ Publishes(k) /\ Open(k)) =>
        /\ issue[i].version = k.ver
        /\ version[i][k.locale].status = Doing(k.kind)
        /\ k.kind = "publish" => outbox[k].asset = version[i][k.locale].asset
        /\ k.kind = "unpublish" => outbox[k].grant = version[i][k.locale].grant

SerialAt(i) ==
    \A k \in DOMAIN outbox : (k.issue = i /\ Publishes(k)) =>
        /\ issue[i].status # "deleted" => k.ver <= issue[i].version
        /\ \A j \in DOMAIN outbox :
              (j.issue = i /\ Publishes(j) /\ j.ver = k.ver) => j = k

AgreesAt(i) == FlightAt(i) /\ EventsAt(i) /\ CurrentAt(i) /\ SerialAt(i)

\* Agreement is agreement at every issue.
LEMMA AgreementAtIssues ==
    ASSUME OutboxOK, Agreement, NEW i \in Issues
    PROVE  AgreesAt(i)
<1>1. FlightAt(i)
  BY DEF Agreement, SingleFlight, VersionsInFlight, FlightAt
<1>2. EventsAt(i)
  BY DEF Agreement, InFlightHasEvent, EventsAt
<1>3. CurrentAt(i)
  BY DEF Agreement, OpenEventIsCurrent, CurrentAt
<1>4. SerialAt(i)
  BY DEF Agreement, EventsAreSerial, SerialAt
<1>5. QED
  BY <1>1, <1>2, <1>3, <1>4 DEF AgreesAt

LEMMA AgreementOfIssues ==
    ASSUME OutboxOK', \A i \in Issues : AgreesAt(i)'
    PROVE  Agreement'
<1>1. \A k \in DOMAIN outbox' : k.issue \in Issues
  BY KeyFields DEF OutboxOK
<1>2. SingleFlight'
  <2>1. SUFFICES ASSUME NEW i \in Issues
                 PROVE  (IF issue[i].status \in InFlight
                         THEN \E l \in Locales : /\ VersionsInFlight(i) = {l}
                                                 /\ version[i][l].status = issue[i].status
                         ELSE VersionsInFlight(i) = {})'
    BY DEF SingleFlight
  <2>2. FlightAt(i)'
    BY DEF AgreesAt
  <2>3. QED
    BY <2>2 DEF FlightAt, VersionsInFlight
<1>3. InFlightHasEvent'
  BY DEF InFlightHasEvent, AgreesAt, EventsAt
<1>4. OpenEventIsCurrent'
  BY <1>1 DEF OpenEventIsCurrent, AgreesAt, CurrentAt
<1>5. EventsAreSerial'
  BY <1>1 DEF EventsAreSerial, AgreesAt, SerialAt
<1>6. QED
  BY <1>2, <1>3, <1>4, <1>5 DEF Agreement

----------------------------------------------------------------------------
(* The four ways a step treats an issue                                    *)

SameRows(i) ==
    /\ issue'[i].status = issue[i].status
    /\ issue'[i].version = issue[i].version
    /\ \A l \in Locales : /\ version'[i][l].status = version[i][l].status
                          /\ version'[i][l].asset = version[i][l].asset
                          /\ version'[i][l].grant = version[i][l].grant

SameEvent(k) ==
    /\ k \in DOMAIN outbox' <=> k \in DOMAIN outbox
    /\ k \in DOMAIN outbox => /\ outbox'[k].asset = outbox[k].asset
                              /\ outbox'[k].grant = outbox[k].grant
    /\ Open(k)' <=> Open(k)

\* The publish and unpublish events of an issue, but for those in S.
SameEvents(i, S) ==
    \A k \in Keys : (k.issue = i /\ Publishes(k) /\ k \notin S) => SameEvent(k)

LEMMA Untouched ==
    ASSUME TypeOK, OutboxOK', NEW i \in Issues, AgreesAt(i), SameRows(i), SameEvents(i, {})
    PROVE  AgreesAt(i)'
<1> USE DEF AgreesAt, SameRows
<1>1. \A k \in Keys : (k.issue = i /\ Publishes(k)) => SameEvent(k)
  BY DEF SameEvents
<1>2. FlightAt(i)'
  BY DEF FlightAt
<1>3. EventsAt(i)'
  <2>1. SUFFICES ASSUME NEW l \in Locales, NEW v, v = issue[i].version
                 PROVE  /\ version'[i][l].status = "publishing" => Open(PublishKey(i, l, v))'
                        /\ version'[i][l].status = "unpublishing" => Open(UnpublishKey(i, l, v))'
    BY DEF EventsAt
  <2>2. Open(PublishKey(i, l, v)) => Open(PublishKey(i, l, v))'
    <3>1. SUFFICES ASSUME Open(PublishKey(i, l, v))
                   PROVE  Open(PublishKey(i, l, v))'
      OBVIOUS
    <3>2. PublishKey(i, l, v) \in Keys
      BY <3>1 DEF Open, TypeOK, OutboxOK
    <3>3. PublishKey(i, l, v).issue = i /\ Publishes(PublishKey(i, l, v))
      BY DEF PublishKey, EventKey, Publishes
    <3>4. QED
      BY <1>1, <3>1, <3>2, <3>3 DEF SameEvent
  <2>3. Open(UnpublishKey(i, l, v)) => Open(UnpublishKey(i, l, v))'
    <3>1. SUFFICES ASSUME Open(UnpublishKey(i, l, v))
                   PROVE  Open(UnpublishKey(i, l, v))'
      OBVIOUS
    <3>2. UnpublishKey(i, l, v) \in Keys
      BY <3>1 DEF Open, TypeOK, OutboxOK
    <3>3. UnpublishKey(i, l, v).issue = i /\ Publishes(UnpublishKey(i, l, v))
      BY DEF UnpublishKey, EventKey, Publishes
    <3>4. QED
      BY <1>1, <3>1, <3>2, <3>3 DEF SameEvent
  <2>4. QED
    BY <2>1, <2>2, <2>3 DEF EventsAt
<1>4. CurrentAt(i)'
  <2>1. SUFFICES ASSUME NEW k \in DOMAIN outbox', k.issue = i, Publishes(k), Open(k)'
                 PROVE  /\ issue'[i].version = k.ver
                        /\ version'[i][k.locale].status = Doing(k.kind)
                        /\ k.kind = "publish" => outbox'[k].asset = version'[i][k.locale].asset
                        /\ k.kind = "unpublish" => outbox'[k].grant = version'[i][k.locale].grant
    BY DEF CurrentAt
  <2>2. k \in Keys /\ k.locale \in Locales
    BY <2>1, KeyFields DEF OutboxOK
  <2>3. SameEvent(k)
    BY <1>1, <2>1, <2>2
  <2>4. k \in DOMAIN outbox /\ Open(k)
    BY <2>1, <2>3 DEF SameEvent
  <2>5. QED
    BY <2>1, <2>2, <2>3, <2>4 DEF CurrentAt, SameEvent
<1>5. SerialAt(i)'
  <2>1. \A k \in DOMAIN outbox' : k.issue = i /\ Publishes(k) => k \in DOMAIN outbox
    BY <1>1 DEF SameEvent, OutboxOK
  <2>2. QED
    BY <2>1 DEF SerialAt
<1>6. QED
  BY <1>2, <1>3, <1>4, <1>5

\* An issue with no edition in flight has no open publish or unpublish event.
LEMMA NothingOpen ==
    ASSUME TypeOK, NEW i \in Issues, AgreesAt(i), issue[i].status \notin InFlight,
           NEW k \in DOMAIN outbox, k.issue = i, Publishes(k)
    PROVE  ~Open(k)
<1>1. k.locale \in Locales
  BY KeyFields DEF TypeOK, OutboxOK
<1>2. Open(k) => version[i][k.locale].status \in InFlight
  BY DEF AgreesAt, CurrentAt, Doing, InFlight
<1>3. QED
  BY <1>1, <1>2 DEF AgreesAt, FlightAt

LEMMA Edited ==
    ASSUME TypeOK, OutboxOK', NEW i \in Issues, AgreesAt(i), SameEvents(i, {}),
           issue[i].status \notin InFlight,
           issue'[i].status \notin InFlight,
           \A l \in Locales : version'[i][l].status \notin InFlight,
           issue'[i].status # "deleted" =>
                /\ issue[i].status # "deleted"
                /\ issue[i].version <= issue'[i].version,
           issue[i].version \in Nat, issue'[i].version \in Nat
    PROVE  AgreesAt(i)'
<1>1. FlightAt(i)' /\ EventsAt(i)'
  BY DEF FlightAt, EventsAt, InFlight
<1>2. \A k \in DOMAIN outbox' : (k.issue = i /\ Publishes(k)) =>
            /\ k \in DOMAIN outbox /\ ~Open(k)' /\ k.ver \in Nat
  <2>1. SUFFICES ASSUME NEW k \in DOMAIN outbox', k.issue = i, Publishes(k)
                 PROVE  k \in DOMAIN outbox /\ ~Open(k)' /\ k.ver \in Nat
    OBVIOUS
  <2>2. k \in Keys /\ k.ver \in Versions
    BY <2>1, KeyFields DEF OutboxOK
  <2>3. SameEvent(k)
    BY <2>1, <2>2 DEF SameEvents
  <2>4. k \in DOMAIN outbox
    BY <2>3 DEF SameEvent
  <2>5. ~Open(k)
    BY <2>1, <2>4, NothingOpen
  <2>6. QED
    BY <2>2, <2>3, <2>4, <2>5 DEF SameEvent, Versions
<1>3. CurrentAt(i)'
  BY <1>2 DEF CurrentAt
<1>4. SerialAt(i)'
  <2>1. SerialAt(i)
    BY DEF AgreesAt
  <2>2. QED
    BY <1>2, <2>1 DEF SerialAt
<1>5. QED
  BY <1>1, <1>3, <1>4 DEF AgreesAt

LEMMA Started ==
    ASSUME TypeOK, OutboxOK', NEW k \in Keys, Publishes(k), AgreesAt(k.issue),
           SameEvents(k.issue, {k}),
           issue[k.issue].status \notin InFlight \cup {"deleted"},
           issue[k.issue].version \in Nat, k.ver = issue[k.issue].version + 1,
           issue'[k.issue].version = k.ver,
           issue'[k.issue].status = Doing(k.kind),
           version'[k.issue][k.locale].status = Doing(k.kind),
           \A m \in Locales \ {k.locale} :
                version'[k.issue][m].status = version[k.issue][m].status,
           Open(k)',
           k.kind = "publish" => outbox'[k].asset = version'[k.issue][k.locale].asset,
           k.kind = "unpublish" => outbox'[k].grant = version'[k.issue][k.locale].grant
    PROVE  AgreesAt(k.issue)'
<1> DEFINE i == k.issue
           l == k.locale
<1>0. /\ i \in Issues /\ l \in Locales /\ k.ver \in Versions
      /\ k.kind \in {"publish", "unpublish"}
      /\ k.kind = "publish" => k = PublishKey(i, l, k.ver)
      /\ k.kind = "unpublish" => k = UnpublishKey(i, l, k.ver)
  BY KeyFields DEF Publishes
<1>1. \A m \in Locales : m # l => version'[i][m].status \notin InFlight
  BY <1>0 DEF AgreesAt, FlightAt
<1>2. FlightAt(i)'
  BY <1>0, <1>1 DEF FlightAt, Doing, InFlight
<1>3. EventsAt(i)'
  <2>1. SUFFICES ASSUME NEW m \in Locales
                 PROVE  /\ version'[i][m].status = "publishing" => Open(PublishKey(i, m, k.ver))'
                        /\ version'[i][m].status = "unpublishing" => Open(UnpublishKey(i, m, k.ver))'
    BY DEF EventsAt
  <2>2. CASE m # l
    BY <1>1, <2>2 DEF InFlight
  <2>3. CASE m = l
    BY <1>0, <2>3 DEF Doing
  <2>4. QED
    BY <2>2, <2>3
<1>4. \A j \in DOMAIN outbox' : (j.issue = i /\ Publishes(j) /\ j # k) =>
            /\ j \in DOMAIN outbox /\ ~Open(j)' /\ j.ver \in Nat
  <2>1. SUFFICES ASSUME NEW j \in DOMAIN outbox', j.issue = i, Publishes(j), j # k
                 PROVE  j \in DOMAIN outbox /\ ~Open(j)' /\ j.ver \in Nat
    OBVIOUS
  <2>2. j \in Keys /\ j.ver \in Versions
    BY <2>1, KeyFields DEF OutboxOK
  <2>3. SameEvent(j)
    BY <2>1, <2>2 DEF SameEvents
  <2>4. j \in DOMAIN outbox
    BY <2>3 DEF SameEvent
  <2>5. ~Open(j)
    BY <1>0, <2>1, <2>4, NothingOpen
  <2>6. QED
    BY <2>2, <2>3, <2>4, <2>5 DEF SameEvent, Versions
<1>5. CurrentAt(i)'
  BY <1>4 DEF CurrentAt
<1>6. SerialAt(i)'
  <2>1. SerialAt(i)
    BY DEF AgreesAt
  <2>2. \A j \in DOMAIN outbox' : (j.issue = i /\ Publishes(j) /\ j # k) => j.ver < k.ver
    BY <1>4, <2>1 DEF SerialAt
  <2>3. k.ver \in Nat
    BY <1>0 DEF Versions
  <2>4. QED
    BY <1>4, <2>1, <2>2, <2>3 DEF SerialAt
<1>7. QED
  BY <1>2, <1>3, <1>5, <1>6 DEF AgreesAt

LEMMA Finished ==
    ASSUME TypeOK, OutboxOK', NEW k \in DOMAIN outbox, Publishes(k), AgreesAt(k.issue),
           SameEvents(k.issue, {k}),
           issue[k.issue].version = k.ver,
           version[k.issue][k.locale].status \in InFlight,
           issue'[k.issue].version = k.ver,
           issue'[k.issue].status \notin InFlight,
           version'[k.issue][k.locale].status \notin InFlight,
           \A m \in Locales \ {k.locale} :
                version'[k.issue][m].status = version[k.issue][m].status,
           ~Open(k)'
    PROVE  AgreesAt(k.issue)'
<1> DEFINE i == k.issue
           l == k.locale
<1>0. i \in Issues /\ l \in Locales /\ k \in Keys
  BY KeyFields DEF TypeOK, OutboxOK
<1>1. issue[i].status \in InFlight
  BY <1>0 DEF AgreesAt, FlightAt
<1>2. \A m \in Locales : version'[i][m].status \notin InFlight
  BY <1>0 DEF AgreesAt, FlightAt
<1>3. FlightAt(i)' /\ EventsAt(i)'
  BY <1>2 DEF FlightAt, EventsAt, InFlight
<1>4. \A j \in DOMAIN outbox' : (j.issue = i /\ Publishes(j)) =>
            j = k \/ (j \in DOMAIN outbox /\ SameEvent(j))
  BY DEF SameEvents, SameEvent, OutboxOK
<1>5. CurrentAt(i)'
  <2>1. SUFFICES ASSUME NEW j \in DOMAIN outbox', j.issue = i, Publishes(j), Open(j)'
                 PROVE  FALSE
    BY DEF CurrentAt
  <2>2. j # k /\ j \in DOMAIN outbox /\ Open(j)
    BY <1>4, <2>1 DEF SameEvent
  <2>3. j.ver = k.ver
    BY <2>1, <2>2 DEF AgreesAt, CurrentAt
  <2>4. QED
    BY <2>1, <2>2, <2>3 DEF AgreesAt, SerialAt
<1>6. SerialAt(i)'
  <2>1. SerialAt(i)
    BY DEF AgreesAt
  <2>2. issue[i].status # "deleted"
    BY <1>1 DEF InFlight
  <2>3. QED
    BY <1>4, <2>1, <2>2 DEF SerialAt
<1>7. QED
  BY <1>3, <1>5, <1>6 DEF AgreesAt

----------------------------------------------------------------------------
(* From one issue to all of them                                           *)

SamePublications == \A k \in Keys : Publishes(k) => SameEvent(k)

LEMMA OneIssue ==
    ASSUME TypeOK, OutboxOK', Agreement, NEW i \in Issues, AgreesAt(i)',
           \A j \in Issues \ {i} : SameRows(j) /\ SameEvents(j, {})
    PROVE  Agreement'
<1>1. \A j \in Issues : AgreesAt(j)'
  BY AgreementAtIssues, Untouched DEF TypeOK
<1>2. QED
  BY <1>1, AgreementOfIssues

LEMMA Quiet ==
    ASSUME TypeOK, OutboxOK', Agreement, SamePublications, \A i \in Issues : SameRows(i)
    PROVE  Agreement'
<1>1. \A i \in Issues : SameEvents(i, {})
  BY DEF SamePublications, SameEvents
<1>2. \A i \in Issues : AgreesAt(i)'
  BY <1>1, AgreementAtIssues, Untouched DEF TypeOK
<1>3. QED
  BY <1>2, AgreementOfIssues

LEMMA SameRow ==
    ASSUME NEW i, issue'[i] = issue[i], version'[i] = version[i]
    PROVE  SameRows(i)
BY DEF SameRows

LEMMA VersionsAtRest ==
    ASSUME OutboxOK, Agreement, NEW i \in Issues, issue[i].status \notin InFlight
    PROVE  \A l \in Locales : version[i][l].status \notin InFlight
BY AgreementAtIssues DEF AgreesAt, FlightAt

LEMMA IssueEdited ==
    ASSUME BulletinAssumption, TypeOK, TypeOK', Agreement, NEW i \in Issues,
           SamePublications,
           \A j \in Issues \ {i} : issue'[j] = issue[j] /\ version'[j] = version[j],
           issue[i].status \notin InFlight,
           issue'[i].status \notin InFlight,
           \A l \in Locales : version'[i][l].status \notin InFlight,
           issue'[i].status # "deleted" =>
                /\ issue[i].status # "deleted"
                /\ issue[i].version <= issue'[i].version
    PROVE  Agreement'
<1>1. issue[i].version \in Nat
  BY IssueFields DEF TypeOK, GrantIds
<1>2. issue'[i].version \in Nat
  BY DEF TypeOK, CmsOK, IssueRows, NoIssue, IssueRow, Versions
<1>3. AgreesAt(i)'
  BY <1>1, <1>2, AgreementAtIssues, Edited DEF TypeOK, SameEvents, SamePublications
<1>4. \A j \in Issues \ {i} : SameRows(j) /\ SameEvents(j, {})
  BY SameRow DEF SameEvents, SamePublications
<1>5. QED
  BY <1>3, <1>4, OneIssue DEF TypeOK

\* A new outbox row of another kind leaves the publications alone, and so does
\* a change of such a row.
LEMMA OtherRows ==
    ASSUME NEW S, \A k \in S : ~Publishes(k),
           \A k \in DOMAIN outbox \ S : k \in DOMAIN outbox' /\ outbox'[k] = outbox[k],
           DOMAIN outbox' \subseteq DOMAIN outbox \cup S
    PROVE  SamePublications
BY DEF SamePublications, SameEvent, Open

LEMMA OtherRow ==
    ASSUME NEW k, ~Publishes(k), DOMAIN outbox' = DOMAIN outbox,
           \A x \in DOMAIN outbox \ {k} : outbox'[x] = outbox[x]
    PROVE  SamePublications
BY DEF SamePublications, SameEvent, Open

LEMMA SameOutbox ==
    ASSUME outbox' = outbox
    PROVE  SamePublications
BY DEF SamePublications, SameEvent, Open

LEMMA DeletesAreQuiet ==
    ASSUME NEW i, NEW S, EnqueueAssetDeletes(i, S)
    PROVE  SamePublications
<1> DEFINE new == {DeleteKey(i, a) : a \in S} \ DOMAIN outbox
<1>1. \A k \in new : ~Publishes(k)
  BY DEF DeleteKey, EventKey, Publishes
<1>2. /\ \A k \in DOMAIN outbox \ new : k \in DOMAIN outbox' /\ outbox'[k] = outbox[k]
      /\ DOMAIN outbox' \subseteq DOMAIN outbox \cup new
  BY DEF EnqueueAssetDeletes
<1> HIDE DEF new
<1>3. QED
  BY <1>1, <1>2, OtherRows

----------------------------------------------------------------------------
(* Editors                                                                 *)

LEMMA InitAgrees ==
    ASSUME Init
    PROVE  Agreement
<1>1. SingleFlight
  BY DEF Init, SingleFlight, VersionsInFlight, NoIssue, IssueRow, NoVersion, InFlight
<1>2. InFlightHasEvent /\ OpenEventIsCurrent /\ EventsAreSerial
  BY DEF Init, InFlightHasEvent, OpenEventIsCurrent, EventsAreSerial, NoVersion
<1>3. QED
  BY <1>1, <1>2 DEF Agreement

LEMMA CreateIssueAgrees ==
    ASSUME BulletinAssumption, TypeOK, TypeOK', Agreement, NEW i \in Issues, NEW n \in Numbers,
           CreateIssue(i, n)
    PROVE  Agreement'
<1>1. issue[i].status = "absent" /\ issue[i].version = 0
  BY IssueFields DEF TypeOK, CreateIssue, Exists
<1>2. /\ issue' = [issue EXCEPT ![i] = IssueRow("draft", 1, n)]
      /\ version' = version /\ outbox' = outbox
  BY DEF CreateIssue
<1>3. issue'[i].status = "draft" /\ issue'[i].version = 1
  BY <1>2 DEF TypeOK, CmsOK, IssueRow
<1>4. \A l \in Locales : version[i][l].status \notin InFlight
  BY <1>1, VersionsAtRest DEF TypeOK, InFlight
<1>5. \A j \in Issues \ {i} : issue'[j] = issue[j] /\ version'[j] = version[j]
  BY <1>2
<1>6. QED
  BY <1>1, <1>2, <1>3, <1>4, <1>5, SameOutbox, IssueEdited DEF InFlight

\* What a mutable issue looks like, and what Advance does to it.
LEMMA MutableIssue ==
    ASSUME BulletinAssumption, TypeOK, Agreement, NEW i \in Issues, Mutable(i)
    PROVE  /\ issue[i].status \notin InFlight \cup {"deleted"}
           /\ issue[i].version \in Nat
           /\ \A l \in Locales : version[i][l].status \notin InFlight
<1>1. issue[i].status \notin InFlight \cup {"deleted"}
  BY DEF Mutable, Exists
<1>2. QED
  BY <1>1, IssueFields, VersionsAtRest DEF TypeOK, GrantIds

LEMMA Advanced ==
    ASSUME TypeOK, NEW i \in Issues, NEW s, Advance(i, s)
    PROVE  /\ issue'[i].status = s
           /\ issue'[i].version = issue[i].version + 1
           /\ \A j \in Issues \ {i} : issue'[j] = issue[j]
<1>1. issue \in [Issues -> IssueRows] /\ issue[i] \in IssueRows
  BY DEF TypeOK, CmsOK
<1>2. DOMAIN issue[i] = {"status", "version", "number", "notif"}
  BY <1>1 DEF IssueRows, IssueRow, NoIssue
<1>3. issue' = [issue EXCEPT ![i] = [issue[i] EXCEPT !.status = s, !.version = issue[i].version + 1]]
  BY <1>1 DEF Advance
<1>4. QED
  BY <1>1, <1>2, <1>3

LEMMA UpdateIssueAgrees ==
    ASSUME BulletinAssumption, TypeOK, TypeOK', Agreement, NEW i \in Issues, NEW n \in Numbers,
           UpdateIssue(i, n)
    PROVE  Agreement'
<1>1. Mutable(i) /\ version' = version /\ outbox' = outbox
  BY DEF UpdateIssue
<1>2. /\ issue[i].status \notin InFlight \cup {"deleted"} /\ issue[i].version \in Nat
      /\ \A l \in Locales : version'[i][l].status \notin InFlight
  BY <1>1, MutableIssue
<1>3. issue'[i].status = issue[i].status /\ issue'[i].version = issue[i].version + 1
  BY DEF UpdateIssue, TypeOK, CmsOK, IssueRows, IssueRow, NoIssue
<1>4. \A j \in Issues \ {i} : issue'[j] = issue[j] /\ version'[j] = version[j]
  BY <1>1 DEF UpdateIssue, TypeOK, CmsOK
<1>5. QED
  BY <1>1, <1>2, <1>3, <1>4, SameOutbox, IssueEdited

\* The edits that end with finishIssueDraft.
LEMMA DraftAgrees ==
    ASSUME BulletinAssumption, TypeOK, TypeOK', Agreement, NEW i \in Issues, Mutable(i),
           SamePublications, FinishIssueDraft(i),
           \A j \in Issues \ {i} : version'[j] = version[j],
           \A m \in Locales : version'[i][m].status \in {version[i][m].status, "draft", "absent"}
    PROVE  Agreement'
<1>1. Advance(i, "draft")
  BY DEF FinishIssueDraft
<1>2. /\ issue[i].status \notin InFlight \cup {"deleted"} /\ issue[i].version \in Nat
      /\ \A l \in Locales : version'[i][l].status \notin InFlight
  BY MutableIssue DEF InFlight
<1>3. issue'[i].status = "draft" /\ issue'[i].version = issue[i].version + 1
      /\ \A j \in Issues \ {i} : issue'[j] = issue[j]
  BY <1>1, Advanced
<1>4. QED
  BY <1>2, <1>3, IssueEdited DEF InFlight

LEMMA PutVersionAgrees ==
    ASSUME BulletinAssumption, TypeOK, TypeOK', Agreement,
           NEW i \in Issues, NEW l \in Locales, NEW a \in Assets, PutVersion(i, l, a)
    PROVE  Agreement'
<1>1. version' = [version EXCEPT ![i][l] = Drafted(version[i][l], a)]
  BY DEF PutVersion, TypeOK, CmsOK
<1>2. Drafted(version[i][l], a).status = "draft"
  BY DEF Drafted
<1>3. \A m \in Locales : version'[i][m].status \in {version[i][m].status, "draft", "absent"}
  BY <1>1, <1>2 DEF TypeOK, CmsOK
<1>4. \A j \in Issues \ {i} : version'[j] = version[j]
  BY <1>1
<1>5. QED
  BY <1>3, <1>4, SameOutbox, DraftAgrees DEF PutVersion

LEMMA UpdateVersionAgrees ==
    ASSUME BulletinAssumption, TypeOK, TypeOK', Agreement,
           NEW i \in Issues, NEW l \in Locales, UpdateVersion(i, l)
    PROVE  Agreement'
<1>1. version' = [version EXCEPT ![i][l].status = "draft"]
  BY DEF UpdateVersion
<1>2. DOMAIN version[i][l] = {"status", "asset", "grant", "retAsset", "retGrant"}
  BY VersionFields DEF TypeOK, VersionRows, NoVersion
<1>3. \A m \in Locales : version'[i][m].status \in {version[i][m].status, "draft", "absent"}
  BY <1>1, <1>2 DEF TypeOK, CmsOK
<1>4. \A j \in Issues \ {i} : version'[j] = version[j]
  BY <1>1
<1>5. QED
  BY <1>3, <1>4, SameOutbox, DraftAgrees DEF UpdateVersion

LEMMA DeleteVersionAgrees ==
    ASSUME BulletinAssumption, TypeOK, TypeOK', Agreement,
           NEW i \in Issues, NEW l \in Locales, DeleteVersion(i, l)
    PROVE  Agreement'
<1>1. version' = [version EXCEPT ![i][l] = NoVersion]
  BY DEF DeleteVersion
<1>2. NoVersion.status = "absent"
  BY DEF NoVersion
<1>3. \A m \in Locales : version'[i][m].status \in {version[i][m].status, "draft", "absent"}
  BY <1>1, <1>2 DEF TypeOK, CmsOK
<1>4. \A j \in Issues \ {i} : version'[j] = version[j]
  BY <1>1
<1>5. SamePublications
  BY DeletesAreQuiet DEF DeleteVersion
<1>6. QED
  BY <1>3, <1>4, <1>5, DraftAgrees DEF DeleteVersion

LEMMA RestoreAgrees ==
    ASSUME BulletinAssumption, TypeOK, TypeOK', Agreement,
           NEW i \in Issues, NEW r \in Versions, RestoreIssueRevision(i, r)
    PROVE  Agreement'
<1> DEFINE snapshot == revision[i][r]
<1>1. /\ Mutable(i)
      /\ version' = [version EXCEPT ![i] = [l \in Locales |->
                IF snapshot.assets[l] = None THEN NoVersion
                ELSE Drafted(version[i][l], snapshot.assets[l])]]
      /\ issue' = [issue EXCEPT ![i].status = "draft", ![i].version = @ + 1,
                                ![i].number = snapshot.number]
      /\ outbox' = outbox
  BY DEF RestoreIssueRevision, TypeOK, CmsOK
<1> HIDE DEF snapshot
<1>2. \A v, a : Drafted(v, a).status = "draft"
  BY DEF Drafted
<1>3. \A l \in Locales : version'[i][l].status \notin InFlight
  <2>1. SUFFICES ASSUME NEW l \in Locales
                 PROVE  version'[i][l].status \notin InFlight
    OBVIOUS
  <2>2. version'[i][l] = IF snapshot.assets[l] = None THEN NoVersion
                         ELSE Drafted(version[i][l], snapshot.assets[l])
    BY <1>1 DEF TypeOK, CmsOK
  <2>3. version'[i][l].status \in {"absent", "draft"}
    BY <1>2, <2>2 DEF NoVersion
  <2>4. QED
    BY <2>3 DEF InFlight
<1>4. /\ issue'[i].status = "draft" /\ issue'[i].version = issue[i].version + 1
      /\ \A j \in Issues \ {i} : issue'[j] = issue[j] /\ version'[j] = version[j]
  BY <1>1 DEF TypeOK, CmsOK, IssueRows, IssueRow, NoIssue
<1>5. issue[i].status \notin InFlight \cup {"deleted"} /\ issue[i].version \in Nat
  BY <1>1, MutableIssue
<1>6. SamePublications
  BY <1>1, SameOutbox
<1>7. QED
  BY <1>3, <1>4, <1>5, <1>6, IssueEdited DEF InFlight

LEMMA DeleteIssueAgrees ==
    ASSUME BulletinAssumption, TypeOK, TypeOK', Agreement, NEW i \in Issues, DeleteIssue(i)
    PROVE  Agreement'
<1>1. /\ issue' = [issue EXCEPT ![i] = IssueRow("deleted", 0, 0)]
      /\ version' = [version EXCEPT ![i] = [l \in Locales |-> NoVersion]]
      /\ issue[i].status \notin InFlight
  BY DEF DeleteIssue
<1>2. SamePublications
  BY DeletesAreQuiet DEF DeleteIssue
<1>3. issue'[i].status = "deleted"
  BY <1>1 DEF TypeOK, CmsOK, IssueRow
<1>4. \A l \in Locales : version'[i][l].status \notin InFlight
  BY <1>1 DEF TypeOK, CmsOK, NoVersion, InFlight
<1>5. \A j \in Issues \ {i} : issue'[j] = issue[j] /\ version'[j] = version[j]
  BY <1>1
<1>6. QED
  BY <1>1, <1>2, <1>3, <1>4, <1>5, IssueEdited DEF InFlight

\* A request for k moves the issue and the edition on and inserts the event.
LEMMA RequestAgrees ==
    ASSUME BulletinAssumption, TypeOK, TypeOK', Agreement,
           NEW k \in Keys, Publishes(k), Mutable(k.issue),
           k.ver = issue[k.issue].version + 1,
           Advance(k.issue, Doing(k.kind)),
           version' = [version EXCEPT ![k.issue][k.locale].status = Doing(k.kind)],
           NEW e, outbox' = Insert(outbox, k, e), e.status = "pending",
           k.kind = "publish" => e.asset = version[k.issue][k.locale].asset,
           k.kind = "unpublish" => e.grant = version[k.issue][k.locale].grant
    PROVE  Agreement'
<1> DEFINE i == k.issue
           l == k.locale
<1>1. i \in Issues /\ l \in Locales /\ k.ver \in Nat
  BY KeyFields DEF Versions
<1>2. issue[i].status \notin InFlight \cup {"deleted"} /\ issue[i].version \in Nat
  BY <1>1, MutableIssue
<1>3. /\ issue'[i].status = Doing(k.kind) /\ issue'[i].version = k.ver
      /\ \A j \in Issues \ {i} : issue'[j] = issue[j]
  BY <1>1, Advanced
<1>4. /\ version'[i][l].status = Doing(k.kind)
      /\ version'[i][l].asset = version[i][l].asset
      /\ version'[i][l].grant = version[i][l].grant
      /\ \A m \in Locales \ {l} : version'[i][m] = version[i][m]
      /\ \A j \in Issues \ {i} : version'[j] = version[j]
  <2>1. version \in [Issues -> [Locales -> VersionRows]]
    BY DEF TypeOK, CmsOK
  <2>2. DOMAIN version[i][l] = {"status", "asset", "grant", "retAsset", "retGrant"}
    BY <1>1, VersionFields DEF TypeOK, VersionRows, NoVersion
  <2>3. QED
    BY <1>1, <2>1, <2>2
<1>5. AgreesAt(i)
  BY <1>1, AgreementAtIssues DEF TypeOK
<1>6. k \notin DOMAIN outbox
  BY <1>1, <1>2, <1>5 DEF AgreesAt, SerialAt
<1>7. /\ outbox'[k] = e /\ DOMAIN outbox' = DOMAIN outbox \cup {k}
      /\ \A x \in DOMAIN outbox : outbox'[x] = outbox[x]
  BY <1>6 DEF Insert
<1>8. Open(k)'
  BY <1>7 DEF Open
<1>9. \A x \in Keys \ {k} : SameEvent(x)
  BY <1>7 DEF SameEvent, Open
<1>10. AgreesAt(i)'
  BY <1>1, <1>2, <1>3, <1>4, <1>5, <1>7, <1>8, <1>9, Started DEF TypeOK, SameEvents
<1>11. \A j \in Issues \ {i} : SameRows(j) /\ SameEvents(j, {})
  BY <1>3, <1>4, <1>9, SameRow DEF SameEvents
<1>12. QED
  BY <1>1, <1>10, <1>11, OneIssue DEF TypeOK

LEMMA StartPublishAgrees ==
    ASSUME BulletinAssumption, TypeOK, TypeOK', Agreement,
           NEW i \in Issues, NEW l \in Locales, NEW notify \in BOOLEAN,
           StartPublish(i, l, notify)
    PROVE  Agreement'
<1> DEFINE next == issue[i].version + 1
           k == PublishKey(i, l, next)
           e == Event(version[i][l].asset, 0, notify)
<1>1. Mutable(i) /\ next \in Versions
  BY IssueFields DEF StartPublish, TypeOK, Mutable, Versions, BulletinAssumption
<1>2. /\ k \in Keys /\ k.kind = "publish" /\ k.issue = i /\ k.locale = l /\ k.ver = next
      /\ Publishes(k) /\ Doing(k.kind) = "publishing"
  BY <1>1 DEF Keys, PublishKey, EventKey, Publishes, Doing
<1>3. e.status = "pending" /\ e.asset = version[i][l].asset
  BY DEF Event
<1>4. /\ Advance(i, "publishing") /\ outbox' = Insert(outbox, k, e)
      /\ version' = [version EXCEPT ![i][l].status = "publishing"]
  BY DEF StartPublish
<1> HIDE DEF k, e
<1>5. QED
  BY <1>1, <1>2, <1>3, <1>4, RequestAgrees

LEMMA UnpublishAgrees ==
    ASSUME BulletinAssumption, TypeOK, TypeOK', Agreement,
           NEW i \in Issues, NEW l \in Locales, Unpublish(i, l)
    PROVE  Agreement'
<1> DEFINE next == issue[i].version + 1
           v == version[i][l]
           k == UnpublishKey(i, l, next)
           e == Event(IF v.retAsset # None THEN v.retAsset ELSE v.asset, v.grant, FALSE)
<1>1. Mutable(i) /\ next \in Versions
  BY IssueFields DEF Unpublish, TypeOK, Mutable, Versions, BulletinAssumption
<1>2. /\ k \in Keys /\ k.kind = "unpublish" /\ k.issue = i /\ k.locale = l /\ k.ver = next
      /\ Publishes(k) /\ Doing(k.kind) = "unpublishing"
  BY <1>1 DEF Keys, UnpublishKey, EventKey, Publishes, Doing
<1>3. e.status = "pending" /\ e.grant = version[i][l].grant
  BY DEF Event
<1>4. /\ Advance(i, "unpublishing") /\ outbox' = Insert(outbox, k, e)
      /\ version' = [version EXCEPT ![i][l].status = "unpublishing"]
  BY DEF Unpublish
<1> HIDE DEF k, e
<1>5. QED
  BY <1>1, <1>2, <1>3, <1>4, RequestAgrees
----------------------------------------------------------------------------
(* Workers                                                                 *)

\* A step that changes neither the CMS rows nor the outbox.
LEMMA NothingMoves ==
    ASSUME TypeOK, TypeOK', Agreement, issue' = issue, version' = version, outbox' = outbox
    PROVE  Agreement'
BY SameOutbox, SameRow, Quiet DEF TypeOK

\* A claim, a retry or a deferral moves an open event to another open status.
LEMMA EventMoves ==
    ASSUME TypeOK, TypeOK', Agreement, issue' = issue, version' = version,
           NEW k \in DOMAIN outbox, Open(k),
           NEW s \in {"pending", "processing"},
           NEW n, outbox' = [outbox EXCEPT ![k].status = s, ![k].attempts = n]
                  \/ outbox' = [outbox EXCEPT ![k].status = s]
    PROVE  Agreement'
<1>1. outbox[k] \in EventRows(k) /\ DOMAIN outbox' = DOMAIN outbox
  BY DEF TypeOK, OutboxOK
<1>2. DOMAIN outbox[k] = {"status", "attempts", "asset", "grant", "notify"}
  BY <1>1 DEF EventRows
<1>3. /\ outbox'[k].status = s /\ outbox'[k].asset = outbox[k].asset
      /\ outbox'[k].grant = outbox[k].grant
  BY <1>2
<1>4. \A x \in DOMAIN outbox \ {k} : outbox'[x] = outbox[x]
  OBVIOUS
<1>5. SamePublications
  BY <1>1, <1>3, <1>4 DEF SamePublications, SameEvent, Open
<1>6. QED
  BY <1>5, SameRow, Quiet DEF TypeOK

LEMMA ClaimAgrees ==
    ASSUME TypeOK, TypeOK', Agreement, NEW w \in Workers, NEW k \in DOMAIN outbox, Claim(w, k)
    PROVE  Agreement'
<1>1. Open(k)
  BY DEF Claim, LeaseExpires, Open
<1>2. \E n : outbox' = [outbox EXCEPT ![k].status = "processing", ![k].attempts = n]
  BY DEF Claim
<1>3. issue' = issue /\ version' = version
  BY DEF Claim, cms
<1>4. QED
  BY <1>1, <1>2, <1>3, EventMoves

LEMMA RetryAgrees ==
    ASSUME TypeOK, TypeOK', Agreement, NEW w \in Workers, Retry(w) \/ Defer(w)
    PROVE  Agreement'
<1> DEFINE k == work[w].key
<1>1. k \in DOMAIN outbox
  BY WorkerKind DEF Retry, Defer, TypeOK
<1>2. issue' = issue /\ version' = version
  BY DEF Retry, Defer, cms
<1>3. \/ outbox' = outbox
      \/ /\ outbox[k].status = "processing"
         /\ \E n : outbox' = [outbox EXCEPT ![k].status = "pending", ![k].attempts = n]
      \/ /\ outbox[k].status = "processing"
         /\ outbox' = [outbox EXCEPT ![k].status = "pending"]
  BY DEF Retry, Defer
<1> HIDE DEF k
<1>4. CASE outbox' = outbox
  BY <1>2, <1>4, NothingMoves
<1>5. CASE outbox' # outbox
  BY <1>1, <1>2, <1>3, <1>5, EventMoves DEF Open
<1>6. QED
  BY <1>4, <1>5

\* The end of an event that is no publication.
LEMMA CompleteAgrees ==
    ASSUME TypeOK, TypeOK', Agreement, NEW w \in Workers, Complete(w)
    PROVE  Agreement'
<1> DEFINE k == work[w].key
<1>1. k \in DOMAIN outbox /\ ~Publishes(k)
  BY WorkerKind DEF Complete, TypeOK, Publishes
<1>2. issue' = issue /\ version' = version
  BY DEF Complete, cms
<1>3. outbox' = [outbox EXCEPT ![k].status = "delivered"] \/ outbox' = outbox
  BY DEF Complete
<1> HIDE DEF k
<1>4. SamePublications
  <2>1. DOMAIN outbox' = DOMAIN outbox /\ \A x \in DOMAIN outbox \ {k} : outbox'[x] = outbox[x]
    BY <1>3
  <2>2. QED
    BY <1>1, <2>1, OtherRow
<1>5. QED
  BY <1>2, <1>4, SameRow, Quiet DEF TypeOK

\* Only the notification status of an issue changes.
LEMMA NotifAgrees ==
    ASSUME TypeOK, TypeOK', Agreement, SamePublications, version' = version,
           NEW i \in Issues, NEW s,
           issue' = issue \/ issue' = [issue EXCEPT ![i].notif = s]
    PROVE  Agreement'
<1>1. issue[i] \in IssueRows /\ DOMAIN issue = Issues
  BY DEF TypeOK, CmsOK
<1>2. DOMAIN issue[i] = {"status", "version", "number", "notif"}
  BY <1>1 DEF IssueRows, IssueRow, NoIssue
<1>3. \A j \in Issues : /\ issue'[j].status = issue[j].status
                        /\ issue'[j].version = issue[j].version
  BY <1>1, <1>2
<1>4. \A j \in Issues : SameRows(j)
  BY <1>3 DEF SameRows
<1>5. QED
  BY <1>4, Quiet DEF TypeOK

LEMMA CompleteNotificationAgrees ==
    ASSUME TypeOK, TypeOK', Agreement, NEW w \in Workers, CompleteNotification(w)
    PROVE  Agreement'
<1> DEFINE k == work[w].key
<1>1. k \in DOMAIN outbox /\ ~Publishes(k) /\ k.issue \in Issues
  BY WorkerKind, KeyFields DEF CompleteNotification, TypeOK, Publishes
<1>2. version' = version
  BY DEF CompleteNotification
<1>3. /\ outbox' = [outbox EXCEPT ![k].status = "delivered"] \/ outbox' = outbox
      /\ issue' = issue \/ issue' = [issue EXCEPT ![k.issue].notif = "queued"]
  BY DEF CompleteNotification
<1> HIDE DEF k
<1>4. SamePublications
  <2>1. DOMAIN outbox' = DOMAIN outbox /\ \A x \in DOMAIN outbox \ {k} : outbox'[x] = outbox[x]
    BY <1>3
  <2>2. QED
    BY <1>1, <2>1, OtherRow
<1>5. QED
  BY <1>1, <1>2, <1>3, <1>4, NotifAgrees
\* The event of an edition in flight is the one open event of its issue.
LEMMA CurrentEvent ==
    ASSUME BulletinAssumption, TypeOK, Agreement, NEW k \in DOMAIN outbox, Publishes(k),
           issue[k.issue].version = k.ver, issue[k.issue].status = Doing(k.kind)
    PROVE  version[k.issue][k.locale].status = Doing(k.kind)
<1> DEFINE i == k.issue
<1>1. k \in Keys /\ i \in Issues /\ k.locale \in Locales /\ k.kind \in {"publish", "unpublish"}
  BY KeyFields DEF TypeOK, OutboxOK, Publishes
<1>2. FlightAt(i) /\ EventsAt(i) /\ SerialAt(i)
  BY <1>1, AgreementAtIssues DEF TypeOK, AgreesAt
<1>3. PICK m \in Locales : version[i][m].status = Doing(k.kind)
  <2>1. issue[i].status \in InFlight
    BY <1>1 DEF Doing, InFlight
  <2>2. QED
    BY <1>2, <2>1 DEF FlightAt
<1>4. CASE k.kind = "publish"
  <2>1. Open(PublishKey(i, m, k.ver))
    BY <1>2, <1>3, <1>4 DEF EventsAt, Doing
  <2>2. PublishKey(i, m, k.ver) = k
    <3>1. /\ PublishKey(i, m, k.ver).issue = i /\ PublishKey(i, m, k.ver).ver = k.ver
          /\ Publishes(PublishKey(i, m, k.ver))
      BY DEF PublishKey, EventKey, Publishes
    <3>2. QED
      BY <1>2, <2>1, <3>1 DEF SerialAt, Open
  <2>3. k.locale = m
    BY <2>2 DEF PublishKey, EventKey
  <2>4. QED
    BY <1>3, <2>3
<1>5. CASE k.kind = "unpublish"
  <2>1. Open(UnpublishKey(i, m, k.ver))
    BY <1>2, <1>3, <1>5 DEF EventsAt, Doing
  <2>2. UnpublishKey(i, m, k.ver) = k
    <3>1. /\ UnpublishKey(i, m, k.ver).issue = i /\ UnpublishKey(i, m, k.ver).ver = k.ver
          /\ Publishes(UnpublishKey(i, m, k.ver))
      BY DEF UnpublishKey, EventKey, Publishes
    <3>2. QED
      BY <1>2, <2>1, <3>1 DEF SerialAt, Open
  <2>3. k.locale = m
    BY <2>2 DEF UnpublishKey, EventKey
  <2>4. QED
    BY <1>3, <2>3
<1>6. QED
  BY <1>1, <1>4, <1>5

\* The transaction that ends the publication in flight, from what it does to
\* the issue, to the edition and to the outbox.
LEMMA FlightEnds ==
    ASSUME BulletinAssumption, TypeOK, TypeOK', Agreement, NEW k \in DOMAIN outbox, Publishes(k),
           issue[k.issue].version = k.ver,
           version[k.issue][k.locale].status \in InFlight,
           issue'[k.issue].version = issue[k.issue].version,
           issue'[k.issue].status \notin InFlight,
           \A j \in Issues \ {k.issue} : issue'[j] = issue[j] /\ version'[j] = version[j],
           version'[k.issue][k.locale].status \notin InFlight,
           \A m \in Locales \ {k.locale} : version'[k.issue][m] = version[k.issue][m],
           ~Open(k)', \A x \in Keys \ {k} : Publishes(x) => SameEvent(x)
    PROVE  Agreement'
<1>1. k \in Keys /\ k.issue \in Issues
  BY KeyFields DEF TypeOK, OutboxOK
<1>2. AgreesAt(k.issue)
  BY <1>1, AgreementAtIssues DEF TypeOK
<1>3. \A m \in Locales \ {k.locale} :
            version'[k.issue][m].status = version[k.issue][m].status
  OBVIOUS
<1>4. SameEvents(k.issue, {k})
  BY DEF SameEvents
<1>5. issue'[k.issue].version = k.ver
  OBVIOUS
<1>6. AgreesAt(k.issue)'
  BY <1>2, <1>3, <1>4, <1>5, Finished DEF TypeOK
<1>7. \A j \in Issues \ {k.issue} : SameRows(j) /\ SameEvents(j, {})
  BY SameRow DEF SameEvents
<1>8. QED
  BY <1>1, <1>6, <1>7, OneIssue DEF TypeOK

\* An event that is no longer what its issue is doing is not open.
LEMMA StaleEvent ==
    ASSUME BulletinAssumption, TypeOK, Agreement, NEW k \in DOMAIN outbox, Publishes(k),
           ~(issue[k.issue].version = k.ver /\ issue[k.issue].status = Doing(k.kind))
    PROVE  /\ ~Open(k)
           /\ ~(/\ issue[k.issue].version = k.ver
                /\ version[k.issue][k.locale].status = Doing(k.kind))
<1>1. k \in Keys /\ k.issue \in Issues /\ k.locale \in Locales
  BY KeyFields DEF TypeOK, OutboxOK
<1>2. FlightAt(k.issue) /\ CurrentAt(k.issue)
  BY <1>1, AgreementAtIssues DEF TypeOK, AgreesAt
<1>3. Doing(k.kind) \in InFlight
  BY DEF Doing, InFlight
<1>4. QED
  BY <1>1, <1>2, <1>3 DEF FlightAt, CurrentAt
\* failEvent, on an outbox that has no more than a revocation inserted.
LEMMA FailEventAgrees ==
    ASSUME BulletinAssumption, TypeOK, TypeOK', Agreement, NEW k \in DOMAIN outbox,
           NEW box, FailEvent(k, box), DOMAIN outbox \subseteq DOMAIN box,
           \A x \in DOMAIN outbox : box[x] = outbox[x],
           \A x \in DOMAIN box \ DOMAIN outbox : ~Publishes(x)
    PROVE  Agreement'
<1>1. /\ outbox' = [box EXCEPT ![k].status = "failed"]
      /\ issue' = FailIssue(k) /\ version' = FailVersion(k)
  BY DEF FailEvent
<1>2. k \in Keys /\ k.issue \in Issues
  BY KeyFields DEF TypeOK, OutboxOK
<1>3. /\ \A x \in Keys \ {k} : Publishes(x) => SameEvent(x)
      /\ ~Open(k)'
  <2>1. /\ DOMAIN outbox' = DOMAIN box
        /\ \A x \in DOMAIN box \ {k} : outbox'[x] = box[x]
    BY <1>1
  <2>2. DOMAIN outbox[k] = {"status", "attempts", "asset", "grant", "notify"}
    <3>1. outbox[k] \in EventRows(k)
      BY DEF TypeOK, OutboxOK
    <3>2. QED
      BY <3>1 DEF EventRows
  <2>3. outbox'[k].status = "failed"
    BY <1>1, <2>2
  <2>4. ~Open(k)'
    BY <2>3 DEF Open
  <2>5. \A x \in Keys \ {k} : Publishes(x) => SameEvent(x)
    BY <2>1 DEF SameEvent, Open
  <2>6. QED
    BY <2>4, <2>5
<1>4. CASE /\ Publishes(k) /\ issue[k.issue].version = k.ver
           /\ issue[k.issue].status = Doing(k.kind)
  <2>1. version[k.issue][k.locale].status = Doing(k.kind)
    BY <1>4, CurrentEvent
  <2>2. k.locale \in Locales /\ k.kind \in {"publish", "unpublish"}
    BY <1>2, <1>4, KeyFields DEF Publishes
  <2>3. issue' = [issue EXCEPT ![k.issue].status = Aborted(k.kind)]
    BY <1>1, <1>4, <2>2 DEF FailIssue
  <2>4. version' = [version EXCEPT ![k.issue][k.locale].status = Aborted(k.kind)]
    BY <1>1, <1>4, <2>1, <2>2 DEF FailVersion
  <2>5. Aborted(k.kind) \notin InFlight /\ Doing(k.kind) \in InFlight
    BY DEF Aborted, Doing, InFlight
  <2>6. /\ issue'[k.issue].status = Aborted(k.kind)
        /\ issue'[k.issue].version = issue[k.issue].version
        /\ \A j \in Issues \ {k.issue} : issue'[j] = issue[j]
    <3>1. issue[k.issue] \in IssueRows /\ DOMAIN issue = Issues
      BY <1>2 DEF TypeOK, CmsOK
    <3>2. DOMAIN issue[k.issue] = {"status", "version", "number", "notif"}
      BY <3>1 DEF IssueRows, IssueRow, NoIssue
    <3>3. QED
      BY <1>2, <2>3, <3>1, <3>2
  <2>7. /\ version'[k.issue][k.locale].status = Aborted(k.kind)
        /\ \A m \in Locales \ {k.locale} : version'[k.issue][m] = version[k.issue][m]
        /\ \A j \in Issues \ {k.issue} : version'[j] = version[j]
    <3>1. version \in [Issues -> [Locales -> VersionRows]]
      BY DEF TypeOK, CmsOK
    <3>2. DOMAIN version[k.issue][k.locale]
                = {"status", "asset", "grant", "retAsset", "retGrant"}
      BY <1>2, <2>2, VersionFields DEF TypeOK, VersionRows, NoVersion
    <3>3. QED
      BY <1>2, <2>2, <2>4, <3>1, <3>2
  <2>8. QED
    BY <1>3, <1>4, <2>1, <2>5, <2>6, <2>7, FlightEnds
<1>5. CASE ~(/\ Publishes(k) /\ issue[k.issue].version = k.ver
             /\ issue[k.issue].status = Doing(k.kind))
  <2>1. Publishes(k) => /\ ~Open(k)
                        /\ ~(/\ issue[k.issue].version = k.ver
                             /\ version[k.issue][k.locale].status = Doing(k.kind))
    BY <1>5, StaleEvent
  <2>2. version' = version
    BY <1>1, <2>1 DEF FailVersion, Publishes
  <2>3. issue' = issue \/ issue' = [issue EXCEPT ![k.issue].notif = "failed"]
    BY <1>1, <1>5 DEF FailIssue, Publishes
  <2>4. Publishes(k) => SameEvent(k)
    <3>1. DOMAIN outbox[k] = {"status", "attempts", "asset", "grant", "notify"}
      <4>1. outbox[k] \in EventRows(k)
        BY DEF TypeOK, OutboxOK
      <4>2. QED
        BY <4>1 DEF EventRows
    <3>2. /\ k \in DOMAIN outbox' /\ outbox'[k].asset = outbox[k].asset
          /\ outbox'[k].grant = outbox[k].grant
      BY <1>1, <3>1
    <3>3. QED
      BY <1>3, <2>1, <3>2 DEF SameEvent
  <2>5. SamePublications
    BY <1>3, <2>4 DEF SamePublications
  <2>6. QED
    BY <1>2, <2>2, <2>3, <2>5, NotifAgrees
<1>6. QED
  BY <1>4, <1>5

LEMMA FailAgrees ==
    ASSUME BulletinAssumption, TypeOK, TypeOK', Agreement, NEW w \in Workers, Fail(w)
    PROVE  Agreement'
<1>1. work[w].key \in DOMAIN outbox
  BY WorkerKind DEF Fail, TypeOK
<1>2. FailEvent(work[w].key, outbox)
  BY DEF Fail
<1>3. QED
  BY <1>1, <1>2, FailEventAgrees

LEMMA FailPublishAgrees ==
    ASSUME BulletinAssumption, TypeOK, TypeOK', Agreement, NEW w \in Workers, FailPublish(w)
    PROVE  Agreement'
<1> DEFINE k == work[w].key
           rk == RevokeKey(k.issue, k.ver)
           re == Event(outbox[k].asset, k.ver, FALSE)
           box == Insert(outbox, rk, re)
<1>1. k \in DOMAIN outbox
  BY WorkerKind DEF FailPublish, TypeOK
<1>2. ~Publishes(rk)
  BY DEF RevokeKey, EventKey, Publishes
<1>3. \/ FailEvent(k, box)
      \/ issue' = issue /\ version' = version /\ outbox' = outbox
  BY DEF FailPublish, cms
<1> HIDE DEF rk, re, k
<1>4. /\ DOMAIN box = DOMAIN outbox \cup {rk}
      /\ \A x \in DOMAIN outbox : box[x] = outbox[x]
  BY DEF Insert
<1>5. \A x \in DOMAIN box \ DOMAIN outbox : ~Publishes(x)
  BY <1>2, <1>4
<1> HIDE DEF box
<1>6. QED
  BY <1>1, <1>3, <1>4, <1>5, FailEventAgrees, NothingMoves
\* Only k and events of other kinds change when an edition becomes public.
LEMMA PublishEvents ==
    ASSUME TypeOK, NEW k \in DOMAIN outbox, Publishes(k), PublishEdition(k)
    PROVE  ~Open(k)' /\ \A x \in Keys \ {k} : Publishes(x) => SameEvent(x)
<1> DEFINE nk == NotifyKey(k.issue)
           ne == Event(None, 0, FALSE)
           v == version[k.issue][k.locale]
           rk == RetireKey(k.issue, k.locale, v.retAsset)
           re == Event(v.retAsset, v.retGrant, FALSE)
           ask  == outbox[k].notify /\ issue[k.issue].notif \in {"not_requested", "failed"}
           done == [outbox EXCEPT ![k].status = "delivered"]
           told == IF ask THEN Requeue(done, nk, ne) ELSE done
<1>1. outbox' = IF v.retAsset \notin {None, outbox[k].asset}
                THEN Insert(told, rk, re) ELSE told
  BY DEF PublishEdition
<1>2. ~Publishes(nk) /\ ~Publishes(rk)
  BY DEF NotifyKey, RetireKey, EventKey, Publishes
<1>3. /\ DOMAIN done = DOMAIN outbox /\ done[k].status = "delivered"
      /\ \A x \in DOMAIN outbox \ {k} : done[x] = outbox[x]
  <2>1. outbox[k] \in EventRows(k)
    BY DEF TypeOK, OutboxOK
  <2>2. DOMAIN outbox[k] = {"status", "attempts", "asset", "grant", "notify"}
    BY <2>1 DEF EventRows
  <2>3. QED
    BY <2>2
<1> HIDE DEF nk, ne, rk, re, ask, done
<1>4. /\ DOMAIN done \subseteq DOMAIN told /\ DOMAIN told \subseteq DOMAIN done \cup {nk}
      /\ \A x \in DOMAIN done \ {nk} : told[x] = done[x]
  <2>1. CASE ask
    <3>1. told = Requeue(done, nk, ne)
      BY <2>1
    <3> HIDE DEF told
    <3>2. QED
      BY <3>1 DEF Requeue, Insert
  <2>2. CASE ~ask
    BY <2>2
  <2>3. QED
    BY <2>1, <2>2
<1> HIDE DEF told, v
<1>5. /\ DOMAIN told \subseteq DOMAIN outbox' /\ DOMAIN outbox' \subseteq DOMAIN told \cup {rk}
      /\ \A x \in DOMAIN told : outbox'[x] = told[x]
  BY <1>1, InsertAdds DEF Insert
<1>6. ~Open(k)'
  BY <1>2, <1>3, <1>4, <1>5 DEF Open
<1>7. ASSUME NEW x \in Keys, x # k, Publishes(x)
      PROVE  SameEvent(x)
  <2>1. x \in DOMAIN outbox' <=> x \in DOMAIN outbox
    BY <1>2, <1>3, <1>4, <1>5, <1>7
  <2>2. x \in DOMAIN outbox => outbox'[x] = outbox[x]
    BY <1>2, <1>3, <1>4, <1>5, <1>7
  <2>3. QED
    BY <2>1, <2>2 DEF SameEvent, Open
<1>8. QED
  BY <1>6, <1>7

LEMMA CompletePublishAgrees ==
    ASSUME BulletinAssumption, TypeOK, TypeOK', Agreement, NEW w \in Workers, CompletePublish(w)
    PROVE  Agreement'
<1>0. PICK k : k = work[w].key
  OBVIOUS
<1> DEFINE i == k.issue
           l == k.locale
<1>1. k \in DOMAIN outbox /\ k.kind = "publish" /\ Publishes(k)
  BY <1>0, WorkerKind DEF CompletePublish, TypeOK, Publishes
<1>2. \/ issue' = issue /\ version' = version /\ outbox' = outbox
      \/ Current(k) /\ PublishEdition(k)
  BY <1>0 DEF CompletePublish, cms
<1>3. CASE Current(k) /\ PublishEdition(k)
  <2>1. i \in Issues /\ l \in Locales
    BY <1>1, KeyFields DEF TypeOK, OutboxOK
  <2>2. /\ issue'[i].status = "published" /\ issue'[i].version = issue[i].version
        /\ \A j \in Issues \ {i} : issue'[j] = issue[j]
    <3>1. \E m : issue' = [issue EXCEPT ![i].status = "published", ![i].notif = m]
      BY <1>3 DEF PublishEdition
    <3>2. issue[i] \in IssueRows /\ DOMAIN issue = Issues
      BY <2>1 DEF TypeOK, CmsOK
    <3>3. DOMAIN issue[i] = {"status", "version", "number", "notif"}
      BY <3>2 DEF IssueRows, IssueRow, NoIssue
    <3>4. QED
      BY <2>1, <3>1, <3>2, <3>3
  <2>3. /\ version'[i][l].status = "published"
        /\ \A m \in Locales \ {l} : version'[i][m] = version[i][m]
        /\ \A j \in Issues \ {i} : version'[j] = version[j]
    <3>1. version' = [version EXCEPT ![i][l].status = "published", ![i][l].grant = k.ver,
                                     ![i][l].retAsset = None, ![i][l].retGrant = 0]
      BY <1>3 DEF PublishEdition
    <3>2. version \in [Issues -> [Locales -> VersionRows]]
      BY DEF TypeOK, CmsOK
    <3>3. DOMAIN version[i][l] = {"status", "asset", "grant", "retAsset", "retGrant"}
      BY <2>1, VersionFields DEF TypeOK, VersionRows, NoVersion
    <3>4. QED
      BY <2>1, <3>1, <3>2, <3>3
  <2>4. issue[i].version = k.ver /\ version[i][l].status \in InFlight
    BY <1>3 DEF Current, InFlight
  <2>5. ~Open(k)' /\ \A x \in Keys \ {k} : Publishes(x) => SameEvent(x)
    BY <1>1, <1>3, PublishEvents
  <2>6. QED
    BY <1>1, <2>2, <2>3, <2>4, <2>5, FlightEnds DEF InFlight
<1>4. QED
  BY <1>2, <1>3, NothingMoves

LEMMA CompleteUnpublishAgrees ==
    ASSUME BulletinAssumption, TypeOK, TypeOK', Agreement, NEW w \in Workers,
           CompleteUnpublish(w)
    PROVE  Agreement'
<1>0. PICK k : k = work[w].key
  OBVIOUS
<1> DEFINE i == k.issue
           l == k.locale
<1>1. k \in DOMAIN outbox /\ k.kind = "unpublish" /\ Publishes(k)
  BY <1>0, WorkerKind DEF CompleteUnpublish, TypeOK, Publishes
<1>2. \/ issue' = issue /\ version' = version /\ outbox' = outbox
      \/ /\ issue[i].version = k.ver /\ version[i][l].status = "unpublishing"
         /\ UnpublishEdition(k)
  BY <1>0 DEF CompleteUnpublish, cms
<1>3. CASE /\ issue[i].version = k.ver /\ version[i][l].status = "unpublishing"
           /\ UnpublishEdition(k)
  <2>1. i \in Issues /\ l \in Locales
    BY <1>1, KeyFields DEF TypeOK, OutboxOK
  <2>2. /\ issue'[i].status \in {"published", "unpublished"}
        /\ issue'[i].version = issue[i].version
        /\ \A j \in Issues \ {i} : issue'[j] = issue[j]
    <3>1. PICK s \in {"published", "unpublished"} : issue' = [issue EXCEPT ![i].status = s]
      BY <1>3 DEF UnpublishEdition
    <3>2. issue[i] \in IssueRows /\ DOMAIN issue = Issues
      BY <2>1 DEF TypeOK, CmsOK
    <3>3. DOMAIN issue[i] = {"status", "version", "number", "notif"}
      BY <3>2 DEF IssueRows, IssueRow, NoIssue
    <3>4. QED
      BY <2>1, <3>1, <3>2, <3>3
  <2>3. /\ version'[i][l].status = "unpublished"
        /\ \A m \in Locales \ {l} : version'[i][m] = version[i][m]
        /\ \A j \in Issues \ {i} : version'[j] = version[j]
    <3>1. version' = [version EXCEPT ![i][l].status = "unpublished", ![i][l].grant = 0,
                                     ![i][l].retAsset = None, ![i][l].retGrant = 0]
      BY <1>3 DEF UnpublishEdition
    <3>2. version \in [Issues -> [Locales -> VersionRows]]
      BY DEF TypeOK, CmsOK
    <3>3. DOMAIN version[i][l] = {"status", "asset", "grant", "retAsset", "retGrant"}
      BY <2>1, VersionFields DEF TypeOK, VersionRows, NoVersion
    <3>4. QED
      BY <2>1, <3>1, <3>2, <3>3
  <2>4. version[i][l].status \in InFlight
    BY <1>3 DEF InFlight
  <2>5. ~Open(k)' /\ \A x \in Keys \ {k} : Publishes(x) => SameEvent(x)
    <3>1. outbox' = [outbox EXCEPT ![k].status = "delivered"]
      BY <1>3 DEF UnpublishEdition
    <3>2. outbox[k] \in EventRows(k)
      BY <1>1 DEF TypeOK, OutboxOK
    <3>3. DOMAIN outbox[k] = {"status", "attempts", "asset", "grant", "notify"}
      BY <3>2 DEF EventRows
    <3>4. /\ DOMAIN outbox' = DOMAIN outbox /\ outbox'[k].status = "delivered"
          /\ \A x \in DOMAIN outbox \ {k} : outbox'[x] = outbox[x]
      BY <1>1, <3>1, <3>3
    <3>5. QED
      BY <3>4 DEF SameEvent, Open
  <2>6. QED
    BY <1>1, <1>3, <2>2, <2>3, <2>4, <2>5, FlightEnds DEF InFlight
<1>4. QED
  BY <1>2, <1>3, NothingMoves

\* The remote calls, crashes and scans change neither CMS rows nor the outbox.
LEMMA RemoteStepAgrees ==
    ASSUME TypeOK, TypeOK', Agreement, UNCHANGED <<cms, outbox>>
    PROVE  Agreement'
BY NothingMoves DEF cms

----------------------------------------------------------------------------
(* The inductive invariant                                                 *)

LEMMA NextAgrees ==
    ASSUME BulletinAssumption, AgreementInv, [Next]_vars
    PROVE  AgreementInv'
<1>1. TypeOK /\ TypeOK' /\ Agreement
  BY NextTypeOK DEF AgreementInv
<1>2. ASSUME NEW i \in Issues, Edit(i)
      PROVE  Agreement'
  <2>1. NotifyChoices \subseteq BOOLEAN
    BY DEF BulletinAssumption
  <2>2. QED
    BY <1>1, <1>2, <2>1, CreateIssueAgrees, UpdateIssueAgrees, PutVersionAgrees,
       UpdateVersionAgrees, DeleteVersionAgrees, RestoreAgrees, DeleteIssueAgrees,
       StartPublishAgrees, UnpublishAgrees DEF Edit
<1>3. ASSUME NEW w \in Workers, WorkerStep(w)
      PROVE  Agreement'
  <2>1. CASE GetAsset(w) \/ CreatePublicGrant(w) \/ EventDelivered(w) \/ RevokeGrant(w)
             \/ DeleteAsset(w) \/ QueueNotification(w)
    <3>1. UNCHANGED <<cms, outbox>>
      BY <2>1 DEF GetAsset, CreatePublicGrant, EventDelivered, RevokeGrant, DeleteAsset,
         QueueNotification
    <3>2. QED
      BY <1>1, <3>1, RemoteStepAgrees
  <2>2. QED
    BY <1>1, <1>3, <2>1, RetryAgrees, FailAgrees, CompletePublishAgrees, FailPublishAgrees,
       CompleteUnpublishAgrees, CompleteAgrees, CompleteNotificationAgrees DEF WorkerStep
<1>4. ASSUME NEW w \in Workers, Crash(w)
      PROVE  Agreement'
  BY <1>1, <1>4, RemoteStepAgrees DEF Crash
<1>5. ASSUME NEW a \in Assets, AssetScanned(a) \/ RetryAssetScan(a)
      PROVE  Agreement'
  BY <1>1, <1>5, RemoteStepAgrees DEF AssetScanned, RetryAssetScan
<1>6. CASE UNCHANGED vars
  <2>1. UNCHANGED <<cms, outbox>>
    BY <1>6 DEF vars
  <2>2. QED
    BY <1>1, <2>1, RemoteStepAgrees DEF AgreementInv
<1>7. QED
  BY <1>1, <1>2, <1>3, <1>4, <1>5, <1>6, ClaimAgrees DEF Next, AgreementInv

\* The inductive invariant holds in every reachable state.
LEMMA AgreementInvariant == Spec => []AgreementInv
<1>1. Init => AgreementInv
  BY InitTypeOK, InitAgrees, BulletinAssumption DEF AgreementInv
<1>2. AgreementInv /\ [Next]_vars => AgreementInv'
  BY NextAgrees, BulletinAssumption
<1>3. QED
  BY <1>1, <1>2, PTL DEF Spec

\* An issue is publishing or unpublishing exactly while one of its editions
\* is, and never two of them: whatever editors, workers, crashes and lost
\* leases do, no second publication of an issue is ever started.
THEOREM PublicationsAreSingleFlight == Spec => []SingleFlight
<1>1. AgreementInv => SingleFlight
  BY DEF AgreementInv, Agreement
<1>2. QED
  BY <1>1, AgreementInvariant, PTL

\* An edition in flight always has the open event that will finish it: no
\* retry, failure or completion by any worker leaves it stuck without one.
THEOREM FlightsHaveEvents == Spec => []InFlightHasEvent
<1>1. AgreementInv => InFlightHasEvent
  BY DEF AgreementInv, Agreement
<1>2. QED
  BY <1>1, AgreementInvariant, PTL

\* An open publish or unpublish event is about the issue as it is now: no
\* editor transaction slips between a request and its completion.
THEOREM OpenEventsAreCurrent == Spec => []OpenEventIsCurrent
<1>1. AgreementInv => OpenEventIsCurrent
  BY DEF AgreementInv, Agreement
<1>2. QED
  BY <1>1, AgreementInvariant, PTL

\* No version of an issue starts two publications, and no event is ahead of
\* its issue.
THEOREM PublicationsAreSerial == Spec => []EventsAreSerial
<1>1. AgreementInv => EventsAreSerial
  BY DEF AgreementInv, Agreement
<1>2. QED
  BY <1>1, AgreementInvariant, PTL
----------------------------------------------------------------------------
(* An issue in flight is frozen                                            *)

\* An editor's transaction changes the rows of an issue that is not in flight.
LEMMA EditFrozen ==
    ASSUME TypeOK, NEW i \in Issues, Edit(i)
    PROVE  FrozenStep
<1>1. issue[i].status \notin InFlight
  BY DEF Edit, CreateIssue, UpdateIssue, PutVersion, UpdateVersion, DeleteVersion, Unpublish,
     StartPublish, RestoreIssueRevision, DeleteIssue, Mutable, InFlight
<1>2. \A j \in Issues \ {i} : issue'[j] = issue[j]
  <2>1. \A s : Advance(i, s) => \A j \in Issues \ {i} : issue'[j] = issue[j]
    BY Advanced
  <2>2. QED
    BY <2>1 DEF TypeOK, CmsOK, Edit, CreateIssue, UpdateIssue, PutVersion, UpdateVersion,
       DeleteVersion, Unpublish, StartPublish, RestoreIssueRevision, DeleteIssue,
       FinishIssueDraft
<1>3. \A j \in Issues \ {i} : version'[j] = version[j]
  BY DEF TypeOK, CmsOK, Edit, CreateIssue, UpdateIssue, PutVersion, UpdateVersion,
     DeleteVersion, Unpublish, StartPublish, RestoreIssueRevision, DeleteIssue
<1>4. QED
  BY <1>1, <1>2, <1>3 DEF FrozenStep

\* What a worker's transaction writes to the issue and version tables.
LEMMA IssueColumns ==
    ASSUME TypeOK, NEW i \in Issues, NEW s, NEW m,
           \/ issue' = issue
           \/ issue' = [issue EXCEPT ![i].status = s]
           \/ issue' = [issue EXCEPT ![i].notif = m]
           \/ issue' = [issue EXCEPT ![i].status = s, ![i].notif = m]
    PROVE  \A j \in Issues : /\ issue'[j].version = issue[j].version
                             /\ issue'[j].number = issue[j].number
<1>1. issue[i] \in IssueRows /\ DOMAIN issue = Issues
  BY DEF TypeOK, CmsOK
<1>2. DOMAIN issue[i] = {"status", "version", "number", "notif"}
  BY <1>1 DEF IssueRows, IssueRow, NoIssue
<1>3. QED
  BY <1>1, <1>2

LEMMA VersionColumns ==
    ASSUME TypeOK, NEW i \in Issues, NEW l \in Locales, NEW s, NEW g,
           \/ version' = version
           \/ version' = [version EXCEPT ![i][l].status = s]
           \/ version' = [version EXCEPT ![i][l].status = s, ![i][l].grant = g,
                                         ![i][l].retAsset = None, ![i][l].retGrant = 0]
    PROVE  \A j \in Issues, m \in Locales : version'[j][m].asset = version[j][m].asset
<1>1. version \in [Issues -> [Locales -> VersionRows]] /\ version[i][l] \in VersionRows
  BY DEF TypeOK, CmsOK
<1>2. DOMAIN version[i][l] = {"status", "asset", "grant", "retAsset", "retGrant"}
  BY <1>1 DEF VersionRows, NoVersion
<1>3. QED
  BY <1>1, <1>2

LEMMA FailFrozen ==
    ASSUME BulletinAssumption, TypeOK, NEW k \in DOMAIN outbox, NEW box, FailEvent(k, box)
    PROVE  FrozenStep
<1>1. k \in Keys /\ k.issue \in Issues
  BY KeyFields DEF TypeOK, OutboxOK
<1>2. \/ issue' = issue
      \/ issue' = [issue EXCEPT ![k.issue].status = Aborted(k.kind)]
      \/ issue' = [issue EXCEPT ![k.issue].notif = "failed"]
  BY DEF FailEvent, FailIssue
<1>3. \/ version' = version
      \/ /\ version' = [version EXCEPT ![k.issue][k.locale].status = Aborted(k.kind)]
         /\ k.kind \in {"publish", "unpublish"}
  BY DEF FailEvent, FailVersion
<1>4. \A j \in Issues : /\ issue'[j].version = issue[j].version
                        /\ issue'[j].number = issue[j].number
  BY <1>1, <1>2, IssueColumns
<1>5. \A j \in Issues, m \in Locales : version'[j][m].asset = version[j][m].asset
  <2>1. k.kind \in {"publish", "unpublish"} => k.locale \in Locales
    BY <1>1, KeyFields DEF Publishes
  <2>2. QED
    BY <1>1, <1>3, <2>1, VersionColumns
<1>6. QED
  BY <1>4, <1>5 DEF FrozenStep

LEMMA WorkerFrozen ==
    ASSUME BulletinAssumption, TypeOK, NEW w \in Workers, WorkerStep(w)
    PROVE  FrozenStep
<1>0. PICK k : k = work[w].key
  OBVIOUS
<1>1. CASE issue' = issue /\ version' = version
  BY <1>1 DEF FrozenStep
<1>2. CASE Fail(w) \/ FailPublish(w)
  <2>1. k \in DOMAIN outbox
    BY <1>0, <1>2, WorkerKind DEF Fail, FailPublish, TypeOK
  <2>2. (issue' = issue /\ version' = version) \/ \E box : FailEvent(k, box)
    BY <1>0, <1>2 DEF Fail, FailPublish, cms
  <2>3. QED
    BY <1>1, <2>1, <2>2, FailFrozen
<1>3. CASE CompletePublish(w) \/ CompleteUnpublish(w)
  <2>1. k \in DOMAIN outbox /\ Publishes(k)
    BY <1>0, <1>3, WorkerKind DEF CompletePublish, CompleteUnpublish, TypeOK, Publishes
  <2>2. k.issue \in Issues /\ k.locale \in Locales
    BY <2>1, KeyFields DEF TypeOK, OutboxOK
  <2>3. (issue' = issue /\ version' = version) \/ PublishEdition(k) \/ UnpublishEdition(k)
    BY <1>0, <1>3 DEF CompletePublish, CompleteUnpublish, cms
  <2>4. CASE PublishEdition(k)
    <3>1. PICK m : issue' = [issue EXCEPT ![k.issue].status = "published",
                                          ![k.issue].notif = m]
      BY <2>4 DEF PublishEdition
    <3>2. version' = [version EXCEPT ![k.issue][k.locale].status = "published",
                                     ![k.issue][k.locale].grant = k.ver,
                                     ![k.issue][k.locale].retAsset = None,
                                     ![k.issue][k.locale].retGrant = 0]
      BY <2>4 DEF PublishEdition
    <3>3. \A j \in Issues : /\ issue'[j].version = issue[j].version
                            /\ issue'[j].number = issue[j].number
      BY <2>2, <3>1, IssueColumns
    <3>4. \A j \in Issues, m1 \in Locales : version'[j][m1].asset = version[j][m1].asset
      BY <2>2, <3>2, VersionColumns
    <3>5. QED
      BY <3>3, <3>4 DEF FrozenStep
  <2>5. CASE UnpublishEdition(k)
    <3>1. PICK s : issue' = [issue EXCEPT ![k.issue].status = s]
      BY <2>5 DEF UnpublishEdition
    <3>2. version' = [version EXCEPT ![k.issue][k.locale].status = "unpublished",
                                     ![k.issue][k.locale].grant = 0,
                                     ![k.issue][k.locale].retAsset = None,
                                     ![k.issue][k.locale].retGrant = 0]
      BY <2>5 DEF UnpublishEdition
    <3>3. \A j \in Issues : /\ issue'[j].version = issue[j].version
                            /\ issue'[j].number = issue[j].number
      BY <2>2, <3>1, IssueColumns
    <3>4. \A j \in Issues, m \in Locales : version'[j][m].asset = version[j][m].asset
      BY <2>2, <3>2, VersionColumns
    <3>5. QED
      BY <3>3, <3>4 DEF FrozenStep
  <2>6. QED
    BY <1>1, <2>3, <2>4, <2>5
<1>4. CASE CompleteNotification(w)
  <2>1. k \in DOMAIN outbox /\ k.issue \in Issues
    BY <1>0, <1>4, WorkerKind, KeyFields DEF CompleteNotification, TypeOK
  <2>2. version' = version
    BY <1>4 DEF CompleteNotification
  <2>3. issue' = issue \/ issue' = [issue EXCEPT ![k.issue].notif = "queued"]
    BY <1>0, <1>4 DEF CompleteNotification
  <2>4. \A j \in Issues : /\ issue'[j].version = issue[j].version
                          /\ issue'[j].number = issue[j].number
    BY <2>1, <2>3, IssueColumns
  <2>5. QED
    BY <2>2, <2>4 DEF FrozenStep
<1>5. QED
  BY <1>1, <1>2, <1>3, <1>4 DEF WorkerStep, Retry, Defer, GetAsset, CreatePublicGrant,
     EventDelivered, RevokeGrant, DeleteAsset, Complete, QueueNotification, cms

\* While an issue is publishing or unpublishing, no step of anyone changes its
\* version, its number or the assets of its editions: what a worker completes
\* is what the editor asked for.
THEOREM FlightsAreFrozen == Spec => FrozenInFlight
<1>1. TypeOK /\ [Next]_vars => [FrozenStep]_vars
  <2>1. SUFFICES ASSUME TypeOK, Next
                 PROVE  FrozenStep
    OBVIOUS
  <2>2. CASE UNCHANGED cms
    BY <2>2 DEF cms, FrozenStep
  <2>3. QED
    BY <2>1, <2>2, EditFrozen, WorkerFrozen, BulletinAssumption
       DEF Next, Claim, Crash, AssetScanned, RetryAssetScan
<1>2. QED
  BY <1>1, TypeCorrect, PTL DEF Spec, FrozenInFlight

=============================================================================
