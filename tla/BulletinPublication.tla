------------------------ MODULE BulletinPublication ------------------------
(***************************************************************************)
(* The publication of weekly bulletins.  Editors change an issue and its   *)
(* locale versions in Postgres transactions; publishing and unpublishing   *)
(* are asynchronous: a transaction moves the issue to 'publishing' or      *)
(* 'unpublishing' and inserts an outbox event, and the publication workers *)
(* of the (one to three) replicas claim events under a 30 second lease,    *)
(* call asset-api, and finish the event in further transactions.           *)
(*                                                                         *)
(* Every transaction and every remote call of the worker is one step, so   *)
(* that the steps of editors and of several workers interleave as in the   *)
(* deployment.  What is abstracted:                                        *)
(*   - issue number and issue date, both unique, are one value `number';   *)
(*   - titles, file names, ETags and actors are left out;                  *)
(*   - time: backoff and lease expiry are nondeterministic;                *)
(*   - a public grant is named by the aggregate version in the idempotency *)
(*     key it was created with ("bulletin:<issue>:<locale>:v<version>");   *)
(*   - the publication_workflow row of an event has no variable: it is     *)
(*     written in the same transactions as the event's status (see         *)
(*     WorkflowStatus).                                                    *)
(***************************************************************************)
EXTENDS Integers, FiniteSets

CONSTANTS
    Issues,         \* bulletin issue ids
    Locales,        \* editions of an issue
    Assets,         \* uploaded PDF assets
    Owner,          \* [Assets -> Issues \X Locales]: the edition that owns an asset
    Numbers,        \* issue numbers (with their dates)
    Workers,        \* worker loops, one per replica
    NotifyChoices,  \* values of the notifySubscribers flag editors use
    None,           \* no asset, no locale, no issue
    MaxAttempts,    \* OUTBOX_MAX_ATTEMPTS
    MaxVersion,     \* bound: aggregate versions of an issue
    MaxFaults       \* bound: worker crashes plus leases lost by a live worker

ASSUME BulletinAssumption ==
    /\ Owner \in [Assets -> Issues \X Locales]
    /\ Numbers \subseteq Nat \ {0}
    /\ NotifyChoices \subseteq BOOLEAN
    /\ None \notin Issues \cup Locales \cup Assets
    /\ MaxAttempts \in Nat \ {0}
    /\ MaxVersion \in Nat \ {0}
    /\ MaxFaults \in Nat

VARIABLES
    issue,     \* bulletin_issue rows
    version,   \* bulletin_version rows of each issue and locale
    revision,  \* bulletin_revision rows: what each saved version contained
    pub,       \* public_projection rows bulletins:issue:<locale>:<date>
    latest,    \* public_projection rows bulletins:latest:<locale>
    outbox,    \* outbox_event rows, by idempotency key
    work,      \* where each worker is in its handler
    assets,    \* asset-api: readiness of each asset
    grants,    \* asset-api: the live public grants <<asset, issue, version>>
    faults     \* crashes and lost leases so far

cms    == <<issue, version, revision>>
public == <<pub, latest>>
remote == <<assets, grants>>
vars   == <<cms, public, outbox, work, remote, faults>>

----------------------------------------------------------------------------
(* Rows                                                                    *)

InFlight == {"publishing", "unpublishing"}

\* Statuses of an existing issue or version.  An issue without a row is
\* 'absent' or 'deleted', a version without one 'absent'.
Statuses == {"draft", "published", "unpublish_failed", "unpublished"} \cup InFlight

Versions == 1 .. MaxVersion

\* Grants are named by versions; 0 is the empty grant id.
GrantIds == 0 .. MaxVersion

AssetOrNone == Assets \cup {None}

IssueRow(status, ver, n) == [status |-> status, version |-> ver, number |-> n,
                             notif |-> "not_requested"]
NoIssue   == IssueRow("absent", 0, 0)
NoVersion == [status |-> "absent", asset |-> None, grant |-> 0,
              retAsset |-> None, retGrant |-> 0]
NoPub     == [issue |-> None, ver |-> 0, asset |-> None]
NoLatest  == [issue |-> None, ver |-> 0, asset |-> None, number |-> 0,
              listed |-> FALSE]

Exists(i) == issue[i].status \notin {"absent", "deleted"}

Kinds == {"publish", "unpublish", "retire", "delete", "revoke", "notify"}

\* Idempotency keys.  Each kind of event fixes the fields it is keyed by.
EventKey(k, i, l, v, a) ==
    [kind |-> k, issue |-> i, locale |-> l, ver |-> v, asset |-> a]

PublishKey(i, l, v)   == EventKey("publish", i, l, v, None)
UnpublishKey(i, l, v) == EventKey("unpublish", i, l, v, None)
RetireKey(i, l, a)    == EventKey("retire", i, l, 0, a)
DeleteKey(i, a)       == EventKey("delete", i, None, 0, a)
RevokeKey(i, v)       == EventKey("revoke", i, None, v, None)
NotifyKey(i)          == EventKey("notify", i, None, 0, None)

Keys ==    {PublishKey(i, l, v) : i \in Issues, l \in Locales, v \in Versions}
      \cup {UnpublishKey(i, l, v) : i \in Issues, l \in Locales, v \in Versions}
      \cup {RetireKey(i, l, a) : i \in Issues, l \in Locales, a \in Assets}
      \cup {DeleteKey(i, a) : i \in Issues, a \in Assets}
      \cup {RevokeKey(i, v) : i \in Issues, v \in Versions}
      \cup {NotifyKey(i) : i \in Issues}

\* A new event: pending, never attempted, with its payload.
Event(a, g, notify) == [status |-> "pending", attempts |-> 0,
                        asset |-> a, grant |-> g, notify |-> notify]

Open(k) == k \in DOMAIN outbox /\ outbox[k].status \in {"pending", "processing"}

\* publication_workflow.status of a publish or unpublish event.
WorkflowStatus(k) ==
    CASE outbox[k].status = "delivered" -> "completed"
      [] outbox[k].status = "failed"    -> "failed"
      [] OTHER -> IF k.kind = "publish" THEN "waiting_asset_scan"
                                        ELSE "revoke_pending"

\* INSERT ... ON CONFLICT(destination,idempotency_key) DO NOTHING
Insert(box, k, e) ==
    IF k \in DOMAIN box THEN box
    ELSE [x \in DOMAIN box \cup {k} |-> IF x = k THEN e ELSE box[x]]

----------------------------------------------------------------------------
(* Editor transactions.  Each locks the issue row and compares its version *)
(* with If-Match; a stale or refused request changes nothing.              *)

\* Mutant of Mutable: the check for a publication in progress is dropped.
MutableInFlight(i) == Exists(i) /\ issue[i].version < MaxVersion

Mutable(i) ==
    /\ Exists(i)
    /\ issue[i].status \notin InFlight
    /\ issue[i].version < MaxVersion

\* Mutant of HasGrant: only the retiring grant counts.
HasRetiringGrant(v) == v.retGrant # 0

HasGrant(v) == v.grant # 0 \/ v.retGrant # 0

NumberFree(i, n) == \A j \in Issues \ {i} : issue[j].number # n

\* SELECT EXISTS(... resource_type='bulletin_issue' AND resource_id=i)
HasProjection(i) ==
    \E l \in Locales : \/ \E n \in Numbers : pub[l][n].issue = i
                       \/ latest[l].listed /\ latest[l].issue = i

\* insertBulletinRevision of the issue as it is after the transaction.
SaveRevision(i) ==
    revision' = [revision EXCEPT ![i] =
        [r \in DOMAIN @ \cup {issue'[i].version} |->
            IF r = issue'[i].version
            THEN [number |-> issue'[i].number,
                  assets |-> [l \in Locales |-> version'[i][l].asset]]
            ELSE @[r]]]

\* Mutant of Advance: the aggregate version stays.
AdvanceStatusOnly(i, status) == issue' = [issue EXCEPT ![i].status = status]

\* UPDATE bulletin_issue SET status=..., version=version+1
Advance(i, status) ==
    issue' = [issue EXCEPT ![i].status = status, ![i].version = @ + 1]

FinishIssueDraft(i) ==
    /\ Advance(i, "draft")
    /\ SaveRevision(i)

EnqueueAssetDeletes(i, S) ==
    LET new == {DeleteKey(i, a) : a \in S} \ DOMAIN outbox
    IN outbox' = [k \in DOMAIN outbox \cup new |->
                    IF k \in new THEN Event(k.asset, 0, FALSE) ELSE outbox[k]]

CreateIssue(i, n) ==
    /\ issue[i].status = "absent"
    /\ NumberFree(i, n)
    /\ issue' = [issue EXCEPT ![i] = IssueRow("draft", 1, n)]
    /\ UNCHANGED <<version, revision, public, outbox, work, remote, faults>>

UpdateIssue(i, n) ==
    /\ Mutable(i)
    /\ \A l \in Locales :
         /\ version[i][l].status \notin {"published", "publishing",
                                         "unpublishing", "unpublish_failed"}
         /\ ~HasGrant(version[i][l])
    /\ NumberFree(i, n)
    /\ issue' = [issue EXCEPT ![i].number = n, ![i].version = @ + 1]
    /\ UNCHANGED version
    /\ SaveRevision(i)
    /\ UNCHANGED <<public, outbox, work, remote, faults>>

\* Mutant of Drafted: a published version that gets a new asset stays published.
DraftedWhilePublished(v, a) ==
    [status |-> IF v.status = "published" THEN v.status ELSE "draft",
     asset |-> a, grant |-> v.grant,
     retAsset |-> IF v.status = "published" THEN v.asset ELSE v.retAsset,
     retGrant |-> IF v.status = "published" THEN v.grant ELSE v.retGrant]

\* The upsert shared by PutVersion and RestoreIssueRevision: the asset and the
\* grant of a published version become the retiring ones.
Drafted(v, a) ==
    [status |-> "draft", asset |-> a, grant |-> v.grant,
     retAsset |-> IF v.status = "published" THEN v.asset ELSE v.retAsset,
     retGrant |-> IF v.status = "published" THEN v.grant ELSE v.retGrant]

\* adminCompleteUpload, with the asset it just completed at asset-api.
PutVersion(i, l, a) ==
    /\ Mutable(i)
    /\ Owner[a] = <<i, l>>
    /\ assets[a] # "deleted"
    /\ version[i][l].status \notin {"unpublishing", "unpublish_failed"}
    /\ version' = [version EXCEPT ![i][l] = Drafted(@, a)]
    /\ FinishIssueDraft(i)
    /\ UNCHANGED <<public, outbox, work, remote, faults>>

UpdateVersion(i, l) ==
    /\ Mutable(i)
    /\ version[i][l].status \in {"draft", "unpublished"}
    /\ ~HasGrant(version[i][l])
    /\ version' = [version EXCEPT ![i][l].status = "draft"]
    /\ FinishIssueDraft(i)
    /\ UNCHANGED <<public, outbox, work, remote, faults>>

DeleteVersion(i, l) ==
    /\ Mutable(i)
    /\ version[i][l].status \in {"draft", "unpublished"}
    /\ ~HasGrant(version[i][l])
    /\ version' = [version EXCEPT ![i][l] = NoVersion]
    /\ EnqueueAssetDeletes(i, {version[i][l].asset})
    /\ FinishIssueDraft(i)
    /\ UNCHANGED <<public, work, remote, faults>>

RestoreIssueRevision(i, r) ==
    /\ Mutable(i)
    /\ r \in DOMAIN revision[i]
    /\ LET snapshot == revision[i][r]
       IN /\ snapshot.number # issue[i].number =>
                ~HasProjection(i) /\ NumberFree(i, snapshot.number)
          /\ \A l \in Locales : snapshot.assets[l] = None =>
                /\ ~HasGrant(version[i][l])
                /\ version[i][l].status \notin
                        {"published", "unpublishing", "unpublish_failed"}
          /\ version' = [version EXCEPT ![i] = [l \in Locales |->
                IF snapshot.assets[l] = None THEN NoVersion
                ELSE Drafted(@[l], snapshot.assets[l])]]
          /\ issue' = [issue EXCEPT ![i].status = "draft", ![i].version = @ + 1,
                                    ![i].number = snapshot.number]
    /\ SaveRevision(i)
    /\ UNCHANGED <<public, outbox, work, remote, faults>>

StartPublish(i, l, notify) ==
    /\ Mutable(i)
    /\ version[i][l].status # "absent"
    /\ Advance(i, "publishing")
    /\ outbox' = Insert(outbox, PublishKey(i, l, issue[i].version + 1),
                        Event(version[i][l].asset, 0, notify))
    /\ version' = [version EXCEPT ![i][l].status = "publishing"]
    /\ UNCHANGED <<revision, public, work, remote, faults>>

\* The latest row after an unpublish: the greatest remaining projection row of
\* the locale replaces it.  The insert copies resource_type from that row, and
\* an update of an existing row keeps the type it has.
RemainingLatest(rows, kept) ==
    LET found == {[issue |-> rows[n].issue, ver |-> rows[n].ver,
                   asset |-> rows[n].asset, number |-> n,
                   listed |-> IF kept = NoLatest THEN TRUE ELSE kept.listed] :
                        n \in {m \in Numbers : rows[m] # NoPub}}
                 \cup (IF kept.listed THEN {kept} ELSE {})
    IN IF found = {} THEN {kept}
       ELSE {f \in found : \A g \in found : g.number <= f.number}

Unpublish(i, l) ==
    /\ Mutable(i)
    /\ version[i][l].status \in {"published", "draft", "unpublish_failed"}
    /\ version[i][l].grant # 0
    /\ Advance(i, "unpublishing")
    /\ LET v    == version[i][l]
           rows == [pub[l] EXCEPT ![issue[i].number] = NoPub]
           kept == IF latest[l].issue = i THEN NoLatest ELSE latest[l]
       IN /\ outbox' = Insert(outbox, UnpublishKey(i, l, issue[i].version + 1),
                Event(IF v.retAsset # None THEN v.retAsset ELSE v.asset,
                      v.grant, FALSE))
          /\ pub' = [pub EXCEPT ![l] = rows]
          /\ \E row \in RemainingLatest(rows, kept) :
                latest' = [latest EXCEPT ![l] = row]
    /\ version' = [version EXCEPT ![i][l].status = "unpublishing"]
    /\ UNCHANGED <<revision, work, remote, faults>>

\* Mutant of IssueAssets: versions and snapshots without an asset are not skipped.
IssueAssetsWithNulls(i) ==
    {version[i][l].asset : l \in Locales}
        \cup UNION {{revision[i][r].assets[l] : l \in Locales} :
                        r \in DOMAIN revision[i]}

\* bulletinAssetIDs: the assets of the versions and of every revision.
IssueAssets(i) ==
    ({version[i][l].asset : l \in Locales}
        \cup UNION {{revision[i][r].assets[l] : l \in Locales} :
                        r \in DOMAIN revision[i]}) \ {None}

DeleteIssue(i) ==
    /\ Exists(i)
    /\ issue[i].status \notin InFlight \cup {"published", "unpublish_failed"}
    /\ \A l \in Locales : /\ \A n \in Numbers : pub[l][n].issue # i
                          /\ latest[l].issue # i
                          /\ ~HasGrant(version[i][l])
    /\ EnqueueAssetDeletes(i, IssueAssets(i))
    /\ issue' = [issue EXCEPT ![i] = IssueRow("deleted", 0, 0)]
    /\ version' = [version EXCEPT ![i] = [l \in Locales |-> NoVersion]]
    /\ revision' = [revision EXCEPT ![i] = [r \in {} |-> None]]
    /\ UNCHANGED <<public, work, remote, faults>>

----------------------------------------------------------------------------
(* Worker loop: claim, then one remote call or one transaction per step.   *)

Idle == [pc |-> "idle"]

\* The steps of each handler, and those processNext ends a failed one with.
Errors == {"retry", "fail"}
StepsOf(kind) == Errors \cup
    CASE kind = "publish" -> {"get", "grant", "complete", "confirm", "compensate",
                              "defer"}
      [] kind = "retire"  -> {"revoke", "delete", "finish"}
      [] kind = "delete"  -> {"delete", "finish"}
      [] kind = "notify"  -> {"send", "finish"}
      [] OTHER            -> {"revoke", "finish"}

Holds(w, k) == work[w] # Idle /\ work[w].key = k

Goto(w, step) == work' = [work EXCEPT ![w].pc = step]
Release(w)    == work' = [work EXCEPT ![w] = Idle]

\* Mutant of AfterError: the attempts are not counted.
AlwaysRetry(w) == "retry"

\* Where processNext sends an error that is neither terminal nor to be
\* compensated: retried until the attempts are used up.
AfterError(w) == IF work[w].att >= MaxAttempts THEN "fail" ELSE "retry"

FirstStep(k) == CASE k.kind = "publish" -> "get"
                  [] k.kind \in {"unpublish", "retire", "revoke"} -> "revoke"
                  [] k.kind = "delete" -> "delete"
                  [] k.kind = "notify" -> "send"

\* Mutant of LeaseExpires: only pending events are claimed.
LeaseNeverExpires(k) == FALSE

\* The lease of an event being processed runs out at any time.
LeaseExpires(k) == outbox[k].status = "processing"

\* Claim: a pending event, or one whose lease has run out.  Nothing fences the
\* worker that held it.  The attempt counter saturates at MaxAttempts, which is
\* all the handlers compare it with.
Claim(w, k) ==
    /\ work[w] = Idle
    /\ k \in DOMAIN outbox
    /\ \/ /\ outbox[k].status = "pending"
          /\ UNCHANGED faults
       \/ /\ LeaseExpires(k)
          /\ IF \E x \in Workers : Holds(x, k)
             THEN faults < MaxFaults /\ faults' = faults + 1
             ELSE UNCHANGED faults
    /\ LET attempts == IF outbox[k].attempts < MaxAttempts
                       THEN outbox[k].attempts + 1 ELSE MaxAttempts
       IN /\ outbox' = [outbox EXCEPT ![k].status = "processing",
                                      ![k].attempts = attempts]
          /\ work' = [work EXCEPT ![w] =
                        [pc |-> FirstStep(k), key |-> k, att |-> attempts]]
    /\ UNCHANGED <<cms, public, remote>>

\* The process stops, or its last call of processNext returns an error that is
\* only logged: the event stays 'processing' until its lease runs out.
Crash(w) ==
    /\ work[w] # Idle
    /\ faults < MaxFaults
    /\ faults' = faults + 1
    /\ Release(w)
    /\ UNCHANGED <<cms, public, outbox, remote>>

\* Mutant of Retry: the event is reopened whatever became of it.
RetryUnconditionally(w) ==
    /\ work[w] # Idle /\ work[w].pc = "retry"
    /\ outbox' = [outbox EXCEPT ![work[w].key].status = "pending"]
    /\ Release(w)
    /\ UNCHANGED <<cms, public, remote, faults>>

Retry(w) ==
    /\ work[w] # Idle /\ work[w].pc = "retry"
    /\ LET k == work[w].key
       IN outbox' = IF outbox[k].status = "processing"
                    THEN [outbox EXCEPT ![k].status = "pending"] ELSE outbox
    /\ Release(w)
    /\ UNCHANGED <<cms, public, remote, faults>>

Defer(w) ==
    /\ work[w] # Idle /\ work[w].pc = "defer"
    /\ LET k == work[w].key
       IN outbox' = IF outbox[k].status = "processing"
                    THEN [outbox EXCEPT ![k].status = "pending",
                            ![k].attempts = IF @ > 0 THEN @ - 1 ELSE 0]
                    ELSE outbox
    /\ Release(w)
    /\ UNCHANGED <<cms, public, remote, faults>>

Doing(kind)   == IF kind = "publish" THEN "publishing" ELSE "unpublishing"
Aborted(kind) == IF kind = "publish" THEN "draft" ELSE "unpublish_failed"

\* failEvent on the issue and version rows: only if they still are in the
\* publication the event started.
FailIssue(k) ==
    LET i == k.issue
    IN CASE /\ k.kind \in {"publish", "unpublish"}
            /\ issue[i].version = k.ver
            /\ issue[i].status = Doing(k.kind)
            -> [issue EXCEPT ![i].status = Aborted(k.kind)]
         [] k.kind = "notify" /\ issue[i].notif = "pending"
            -> [issue EXCEPT ![i].notif = "failed"]
         [] OTHER -> issue

\* Mutant of FailVersion: a failed unpublication is not written to the version.
FailPublishedVersion(k) ==
    IF /\ k.kind = "publish"
       /\ issue[k.issue].version = k.ver
       /\ version[k.issue][k.locale].status = "publishing"
    THEN [version EXCEPT ![k.issue][k.locale].status = "draft"]
    ELSE version

FailVersion(k) ==
    IF /\ k.kind \in {"publish", "unpublish"}
       /\ issue[k.issue].version = k.ver
       /\ version[k.issue][k.locale].status = Doing(k.kind)
    THEN [version EXCEPT ![k.issue][k.locale].status = Aborted(k.kind)]
    ELSE version

FailEvent(k, box) ==
    /\ outbox' = [box EXCEPT ![k].status = "failed"]
    /\ issue' = FailIssue(k)
    /\ version' = FailVersion(k)
    /\ UNCHANGED <<revision, public, remote, faults>>

Fail(w) ==
    /\ work[w] # Idle /\ work[w].pc = "fail"
    /\ FailEvent(work[w].key, outbox)
    /\ Release(w)

----------------------------------------------------------------------------
(* Handler of bulletin.publish.ensure_asset                                *)

\* Mutant of GetAsset: a pending asset is deferred for ever.
GetAssetWithoutDeadline(w) ==
    /\ work[w] # Idle /\ work[w].pc = "get"
    /\ LET state == assets[outbox[work[w].key].asset]
       IN \/ state = "clean"   /\ Goto(w, "grant")
          \/ state = "pending" /\ Goto(w, "defer")
          \/ state = "bad"     /\ Goto(w, "fail")
          \/ Goto(w, AfterError(w))
    /\ UNCHANGED <<cms, public, outbox, remote, faults>>

\* assets.Get and readyAsset.  A pending asset is deferred until the readiness
\* deadline of 30 minutes has passed.
GetAsset(w) ==
    /\ work[w] # Idle /\ work[w].pc = "get"
    /\ LET state == assets[outbox[work[w].key].asset]
       IN \/ state = "clean"   /\ Goto(w, "grant")
          \/ state = "pending" /\ \E step \in {"defer", "fail"} : Goto(w, step)
          \/ state = "bad"     /\ Goto(w, "fail")
          \/ Goto(w, AfterError(w))        \* no answer, or asset deleted
    /\ UNCHANGED <<cms, public, outbox, remote, faults>>

\* CreatePublicGrant is idempotent for its key.  Every error, and an answer
\* that got lost, is retried without limit.
CreatePublicGrant(w) ==
    /\ work[w] # Idle /\ work[w].pc = "grant"
    /\ LET k == work[w].key
           a == outbox[k].asset
       IN \/ /\ assets[a] # "deleted"
             /\ grants' = grants \cup {<<a, k.issue, k.ver>>}
             /\ \E step \in {"complete", "retry"} : Goto(w, step)
          \/ Goto(w, "retry") /\ UNCHANGED grants
    /\ UNCHANGED <<cms, public, outbox, assets, faults>>

\* Mutant of AfterCompletionError: whether it was delivered is not asked.
CompensateUnconfirmed(w) == IF work[w].att < MaxAttempts THEN "retry" ELSE "compensate"

\* handlePublishFailure for an error of the completing transaction.
AfterCompletionError(w) == IF work[w].att < MaxAttempts THEN "retry" ELSE "confirm"

\* Mutant of Requeue: ON CONFLICT DO NOTHING.
RequeueNothing(box, k, e) == Insert(box, k, e)

\* INSERT ... ON CONFLICT DO UPDATE ... WHERE status='failed'
Requeue(box, k, e) ==
    IF k \notin DOMAIN box THEN Insert(box, k, e)
    ELSE IF box[k].status = "failed"
         THEN [box EXCEPT ![k].status = "pending", ![k].attempts = 0]
         ELSE box

\* Mutant of NewerLatest: an older issue replaces a newer one.
AlwaysLatest(l, row, n) ==
    [latest EXCEPT ![l] = [issue |-> row.issue, ver |-> row.ver, asset |-> row.asset,
                           number |-> n, listed |-> @.listed]]

\* The latest rows when an edition with number n becomes public: an older issue
\* does not replace a newer one.
NewerLatest(l, row, n) ==
    IF latest[l].number <= n
    THEN [latest EXCEPT ![l] = [issue |-> row.issue, ver |-> row.ver,
                                asset |-> row.asset, number |-> n,
                                listed |-> @.listed]]
    ELSE latest

\* The transaction of CompletePublish for an event that is not delivered and
\* still is the issue's current publication.
PublishEdition(k) ==
    LET i    == k.issue
        l    == k.locale
        e    == outbox[k]
        v    == version[i][l]
        row  == [issue |-> i, ver |-> k.ver, asset |-> e.asset]
        n    == issue[i].number
        ask  == e.notify /\ issue[i].notif \in {"not_requested", "failed"}
        done == [outbox EXCEPT ![k].status = "delivered"]
        told == IF ask THEN Requeue(done, NotifyKey(i), Event(None, 0, FALSE))
                ELSE done
    IN /\ issue' = [issue EXCEPT ![i].status = "published",
                                 ![i].notif = IF ask THEN "pending"
                                                ELSE issue[i].notif]
       /\ version' = [version EXCEPT ![i][l].status = "published",
                                     ![i][l].grant = k.ver,
                                     ![i][l].retAsset = None,
                                     ![i][l].retGrant = 0]
       /\ pub' = [pub EXCEPT ![l][n] = row]
       /\ latest' = NewerLatest(l, row, n)
       /\ outbox' = IF v.retAsset \notin {None, e.asset}
                    THEN Insert(told, RetireKey(i, l, v.retAsset),
                                Event(v.retAsset, v.retGrant, FALSE))
                    ELSE told

\* Mutant of Current: the versions are not compared.
CurrentAtAnyVersion(k) ==
    /\ issue[k.issue].status = "publishing"
    /\ version[k.issue][k.locale].status = "publishing"

Current(k) ==
    /\ issue[k.issue].version = k.ver
    /\ issue[k.issue].status = "publishing"
    /\ version[k.issue][k.locale].status = "publishing"

CompletePublish(w) ==
    /\ work[w] # Idle /\ work[w].pc = "complete"
    /\ LET k == work[w].key
           delivered == outbox[k].status = "delivered"
           rowsExist == version[k.issue][k.locale].status # "absent"
       IN \/ /\ delivered
             /\ Release(w)
             /\ UNCHANGED <<cms, public, outbox>>
          \/ /\ ~delivered /\ rowsExist /\ ~Current(k)      \* ErrStalePublication
             /\ Goto(w, "compensate")
             /\ UNCHANGED <<cms, public, outbox>>
          \/ /\ ~delivered /\ Current(k)
             /\ PublishEdition(k)
             /\ UNCHANGED revision
             /\ \/ Release(w)
                \/ Goto(w, AfterCompletionError(w))         \* commit answer lost
          \/ /\ Goto(w, AfterCompletionError(w))   \* rolled back, or no such row
             /\ UNCHANGED <<cms, public, outbox>>
    /\ UNCHANGED <<remote, faults>>

\* EventDelivered, read before the compensation, in a query of its own.
EventDelivered(w) ==
    /\ work[w] # Idle /\ work[w].pc = "confirm"
    /\ \/ outbox[work[w].key].status = "delivered" /\ Release(w)
       \/ outbox[work[w].key].status # "delivered" /\ Goto(w, "compensate")
       \/ Goto(w, "retry")
    /\ UNCHANGED <<cms, public, outbox, remote, faults>>

FailPublish(w) ==
    /\ work[w] # Idle /\ work[w].pc = "compensate"
    /\ \/ /\ LET k == work[w].key
             IN FailEvent(k, Insert(outbox, RevokeKey(k.issue, k.ver),
                                    Event(outbox[k].asset, k.ver, FALSE)))
          /\ Release(w)
       \/ Goto(w, "retry") /\ UNCHANGED <<cms, public, outbox, remote, faults>>

----------------------------------------------------------------------------
(* Handlers of the other events                                            *)

\* RevokeGrant; a grant that is not found counts as revoked.
RevokeGrant(w) ==
    /\ work[w] # Idle /\ work[w].pc = "revoke"
    /\ LET k == work[w].key
           e == outbox[k]
           next == IF k.kind = "retire" THEN "delete" ELSE "finish"
       IN \/ /\ grants' = grants \ {<<e.asset, k.issue, e.grant>>}
             /\ \E step \in {next, "retry"} : Goto(w, step)
          \/ Goto(w, "retry") /\ UNCHANGED grants
    /\ UNCHANGED <<cms, public, outbox, assets, faults>>

DeleteAsset(w) ==
    /\ work[w] # Idle /\ work[w].pc = "delete"
    /\ \/ /\ assets' = [assets EXCEPT ![outbox[work[w].key].asset] = "deleted"]
          /\ \E step \in {"finish", "retry"} : Goto(w, step)
       \/ Goto(w, "retry") /\ UNCHANGED assets
    /\ UNCHANGED <<cms, public, outbox, grants, faults>>

UnpublishEdition(k) ==
    LET i == k.issue
        l == k.locale
    IN /\ version' = [version EXCEPT ![i][l].status = "unpublished",
                                     ![i][l].grant = 0,
                                     ![i][l].retAsset = None,
                                     ![i][l].retGrant = 0]
       /\ issue' = [issue EXCEPT ![i].status =
                        IF \E x \in Locales : version'[i][x].status = "published"
                        THEN "published" ELSE "unpublished"]
       /\ outbox' = [outbox EXCEPT ![k].status = "delivered"]

CompleteUnpublish(w) ==
    /\ work[w] # Idle /\ work[w].pc = "finish" /\ work[w].key.kind = "unpublish"
    /\ LET k == work[w].key
           current == /\ issue[k.issue].version = k.ver
                      /\ version[k.issue][k.locale].status = "unpublishing"
       IN \/ /\ outbox[k].status = "delivered"
             /\ Release(w)
             /\ UNCHANGED <<cms, outbox>>
          \/ /\ outbox[k].status # "delivered" /\ current
             /\ UnpublishEdition(k)
             /\ UNCHANGED revision
             /\ \/ Release(w)
                \/ Goto(w, AfterError(w))                   \* commit answer lost
          \/ /\ Goto(w, AfterError(w))                      \* stale or rolled back
             /\ UNCHANGED <<cms, outbox>>
    /\ UNCHANGED <<public, remote, faults>>

\* Complete, for retire, delete and revoke events: whatever the status is.
Complete(w) ==
    /\ work[w] # Idle /\ work[w].pc = "finish"
    /\ work[w].key.kind \in {"retire", "delete", "revoke"}
    /\ \/ /\ outbox' = [outbox EXCEPT ![work[w].key].status = "delivered"]
          /\ Release(w)
       \/ Goto(w, AfterError(w)) /\ UNCHANGED outbox
    /\ UNCHANGED <<cms, public, remote, faults>>

\* QueueBulletinNotification at engagement-api, idempotent for the issue.
QueueNotification(w) ==
    /\ work[w] # Idle /\ work[w].pc = "send"
    /\ \E step \in {"finish", "fail", AfterError(w)} : Goto(w, step)
    /\ UNCHANGED <<cms, public, outbox, remote, faults>>

CompleteNotification(w) ==
    /\ work[w] # Idle /\ work[w].pc = "finish" /\ work[w].key.kind = "notify"
    /\ LET k == work[w].key
       IN \/ /\ outbox' = IF outbox[k].status = "processing"
                          THEN [outbox EXCEPT ![k].status = "delivered"] ELSE outbox
             /\ issue' = IF issue[k.issue].notif = "pending"
                         THEN [issue EXCEPT ![k.issue].notif = "queued"] ELSE issue
             /\ \E next \in {Idle, [work[w] EXCEPT !.pc = AfterError(w)]} :
                    work' = [work EXCEPT ![w] = next]       \* commit answer lost
          \/ Goto(w, AfterError(w)) /\ UNCHANGED <<issue, outbox>>
    /\ UNCHANGED <<version, revision, public, remote, faults>>

----------------------------------------------------------------------------
(* asset-api's scanner, and the specification                              *)

AssetScanned(a) ==
    /\ assets[a] = "pending"
    /\ \E result \in {"clean", "bad"} : assets' = [assets EXCEPT ![a] = result]
    /\ UNCHANGED <<cms, public, outbox, work, grants, faults>>

\* adminRetryAssetScan: an editor requeues a scan that failed.  A scan that
\* found an infection is 'bad' too, and is one nobody requeues.
RetryAssetScan(a) ==
    /\ assets[a] = "bad"
    /\ assets' = [assets EXCEPT ![a] = "pending"]
    /\ UNCHANGED <<cms, public, outbox, work, grants, faults>>

Init ==
    /\ issue = [i \in Issues |-> NoIssue]
    /\ version = [i \in Issues |-> [l \in Locales |-> NoVersion]]
    /\ revision = [i \in Issues |-> [r \in {} |-> None]]
    /\ pub = [l \in Locales |-> [n \in Numbers |-> NoPub]]
    /\ latest = [l \in Locales |-> NoLatest]
    /\ outbox = [k \in {} |-> None]
    /\ work = [w \in Workers |-> Idle]
    /\ assets = [a \in Assets |-> "pending"]
    /\ grants = {}
    /\ faults = 0

Edit(i) ==
    \/ \E n \in Numbers : CreateIssue(i, n) \/ UpdateIssue(i, n)
    \/ \E l \in Locales, a \in Assets : PutVersion(i, l, a)
    \/ \E l \in Locales : UpdateVersion(i, l) \/ DeleteVersion(i, l) \/ Unpublish(i, l)
    \/ \E l \in Locales, notify \in NotifyChoices : StartPublish(i, l, notify)
    \/ \E r \in Versions : RestoreIssueRevision(i, r)
    \/ DeleteIssue(i)

WorkerStep(w) ==
    \/ Retry(w) \/ Defer(w) \/ Fail(w)
    \/ GetAsset(w) \/ CreatePublicGrant(w) \/ CompletePublish(w)
    \/ EventDelivered(w) \/ FailPublish(w)
    \/ RevokeGrant(w) \/ DeleteAsset(w) \/ CompleteUnpublish(w) \/ Complete(w)
    \/ QueueNotification(w) \/ CompleteNotification(w)

Next ==
    \/ \E i \in Issues : Edit(i)
    \/ \E w \in Workers, k \in DOMAIN outbox : Claim(w, k)
    \/ \E w \in Workers : WorkerStep(w) \/ Crash(w)
    \/ \E a \in Assets : AssetScanned(a) \/ RetryAssetScan(a)

Spec == Init /\ [][Next]_vars
=============================================================================
