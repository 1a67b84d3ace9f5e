# A verification project for hhc-web-api

`hhc-web-api` is the CMS backend of a church web site: editors prepare weekly
bulletins, news and pages in several languages, and the program publishes them
asynchronously together with assets another service (`asset-api`) owns.  This
directory holds TLA+ models of the program, the TLC configurations that check
them on small instances, and theorems checked by the TLA+ proof system.

All line numbers refer to `src/internal/postgres/repository.go` unless a file
is named.

## 1. Inventory

The program is one Go binary (`cmd/server`), run in one to three replicas
(`infra/main.bicep`), on one Postgres database.  Each replica serves HTTP and
runs one publication worker loop.  Everything the replicas share is in
Postgres; a request or a worker step is a sequence of transactions and of calls
of other services.

| Component | State | Operations | What is hard | What makes it correct |
|---|---|---|---|---|
| Bulletin lifecycle (`bulletins`, `postgres/repository.go`) | `bulletin_issue`, `bulletin_version` (one edition per locale), `bulletin_revision`, `public_projection` | create, update, upload/put, edit, delete an edition, restore a revision, start publish, unpublish, delete | Editions of an issue share one aggregate version and one status; a draft of a published edition keeps the old one public | One publication of an issue at a time; what is public is recorded in the CMS; latest is the newest |
| Publication worker and outbox (`publication`, `Claim` ... `EventDelivered`) | `outbox_event`, `publication_workflow`, the handler's position | claim under a 30 s lease, retry with backoff, defer, fail, compensate, complete | Leases without fencing, crashes, lost answers, results that arrive late, unlimited retries of grant calls | Only the current request becomes public; every event ends; no grant is lost |
| Bulletin notifications (`engagementclient`) | `notification_status`, one event per issue | request on publish, queue, complete, fail | One key per issue, reused after a failure; stale handlers | A pending notification has an open event and settles |
| News publication (`postgres/content_repository.go`) | `content_entry`, locales, revisions, manifests | asynchronous publish and unpublish with several assets | A replaced publication stays live until the new grants exist; partial grants | As for bulletins, for a set of grants |
| Page groups: home and about (`postgres/page_group_repository.go`, `content/page_group.go`) | page entry, member entries, manifest | edit the group, publish it atomically (about) or with assets (home), restore | Aggregate version over members, lock order page/children | Members are published together; the group version covers every member change |
| Plain content: history, videos, locations, legal (`content_repository.go`) | as news | synchronous publish and unpublish | the service checks before the transaction, in a read of its own | what is public has all locales; no locale is lost |
| Operations (`operations`) | church units, resources, meetings | tree edits, meeting recurrence, occurrences, sync windows | pages put together from several queries; recurrence with daylight saving | an accepted edit was of what is there; lists are exact, windows are the union of the occurrences |
| Translation preview (`translation`) | counters, cooldowns | load, reserve, call, release | counters rise before acceptance is known; releases come late; the source is read in two statements | limits hold; previews are spaced; a failed call costs no waiting time |
| Site settings (`sitesettings`) | one versioned document, its revisions, a public layout per locale | save, publish, unpublish, restore | concurrent editors; row and texts are read in two statements | no lost update; the public layout is of one publication |
| Content seed (`contentseed`, `cmd/content-import`) | run rows, provenance, advisory locks | lock, plan, apply | two importers of one version, crash half way, lost commit answer | all of a manifest or nothing, once; a reported success is one |
| Home v2 migration (`homev2migration`) | the reviewed plan's hashes | plan, apply | editors change page and sources in between | only what was reviewed is replaced |
| HTTP API, identity (`httpapi`) | none | decode, authorise, call one operation | multi-call upload handlers | `If-Match` is required |
| Clients, configuration, migrations, telemetry, infrastructure | none of their own | | timeouts | |

Interaction: an editor's transaction changes CMS rows and inserts an outbox
event.  A worker claims the event, calls `asset-api` (or `engagement-api`) and
finishes the event in another transaction that changes CMS rows, public
projections and possibly inserts further events (retire, revoke, notify).
Readers only see public projections.

The hazards of this code, each at its line and with the properties aimed at it,
are listed in `PROJECT.json`.

## 2. Plan

What the project set out to state, in the order of its weight, and where it is:

1. **Bulletin publication**: editors, outbox, several workers, asset-api and
   the notification; invariants, action properties, liveness, and a proof of
   every safety property of it: `BulletinPublication`, `BulletinProofs`,
   `LifecycleProofs`.
2. **The abstract promise** of an edition (draft, requested, public,
   withdrawn), implemented by `BulletinPublication` under a refinement mapping,
   which is model-checked and proved: `EditionLifecycle`, `LifecycleProofs`.
   News implements it too, which is proved in `ContentProofs`.
3. **The content modules** on the same outbox: `ContentOutbox`,
   `NewsPublication`, `PageGroups` with `HomeMigration` on top, `PlainContent`,
   with `ContentProofs` and `PlainContentProofs`.
4. **The services** around them, one module each: `SiteSettings`,
   `TranslationPreview`, `ContentSeed`, `Meetings` over `Occurrences`, with
   `SiteSettingsProofs`, `PreviewProofs`, `SeedProofs`, `MeetingProofs`.
5. Left: the latest projection with transactions split into statements under
   READ COMMITTED, and row locks and their order.

Bounds are chosen so that each run ends in two to three minutes.  Modules meant
for proof use no `RECURSIVE` operator.

## 3. Modules

| Module | Content |
|---|---|
| `BulletinPublication` | the system: rows, editor transactions, worker, asset-api, `Spec` |
| `BulletinProperties` | type invariant, safety, action properties, claims, fairness, liveness |
| `MCBulletinPublication` | owners of assets and symmetry sets for the runs |
| `EditionLifecycle` | the abstract promise: editions and what readers see, without outbox, workers and asset-api |
| `BulletinProofs` | types; the notification and its event; the agreement of the CMS rows with the outbox |
| `LifecycleProofs` | public rows and the editions they belong to; the simulation of `EditionLifecycle`; the latest rows; why the grant of what becomes public is live, and stays live while leases are kept; extends `BulletinProofs` |
| `ContentOutbox` | the outbox, the workers and asset-api as the content modules use them |
| `NewsPublication` | one news entry with its two covers, and how it is an edition of `EditionLifecycle`; extends `ContentOutbox` |
| `PageGroups` | home with its videos or about with its history: manifests, publication as a whole; extends `ContentOutbox` |
| `HomeMigration` | the migration of home to `home.v2` beside its editors; extends `PageGroups` |
| `ContentProofs` | the groups with their manifests and the migration; the grants of news and of home; the types of both; news as an implementation of `EditionLifecycle` |
| `PlainContent` | a location or a legal page, published in the handler's transaction |
| `PlainContentProofs` | what a request knows between the service's read and its transaction |
| `MCContent` | extends the content modules and instantiates them with what differs, run one at a time |
| `SiteSettings` | the versioned document and the public layouts |
| `SiteSettingsProofs` | its inductive invariant and the theorems it yields |
| `TranslationPreview` | requests for previews, limits and cooldowns |
| `PreviewProofs` | counters, cooldown rows and the requests they belong to |
| `ContentSeed` | concurrent importers |
| `SeedProofs` | what an importer between two statements knows, and what is committed |
| `Occurrences` | recurrence, overrides, sync windows, as operators |
| `Meetings` | units, resources, meetings, their pages and lists; extends `Occurrences` |
| `MeetingProofs` | what a page in progress shows; the occurrences and media windows of a list |
| `MCServices` | extends the services and instantiates the meetings with plans, run one at a time |

### How the model corresponds to the code

| Variable | Code |
|---|---|
| `issue`, `version`, `revision` | the rows of `bulletin_issue`, `bulletin_version`, `bulletin_revision`; a deleted issue stays 'deleted' since ids are not reused |
| `pub`, `latest` | `public_projection` rows `bulletins:issue:<locale>:<date>` and `bulletins:latest:<locale>` |
| `outbox` | `outbox_event`, a function from idempotency keys to rows, which is the unique index (destination, key) |
| `work` | where each worker is in `processNext` and its handler: `pc`, the event, and `att`, the `event.Attempts` it read when it claimed |
| `assets`, `grants` | asset-api: scan state of each asset, live public grants |
| `faults` | crashes and lost leases so far, bounded by `MaxFaults` |

An editor's operation is one action because the code runs it in one transaction
that locks the issue row first.  The version an editor sends in `If-Match` is
not a parameter: a wrong one is refused and changes nothing, so only the right
one is a step.  The worker takes one step per remote call or transaction, and
between any two of them other workers and editors act.

- `Claim` takes any pending event or any event in processing whose lease may
  have run out.  If the worker that held it is still busy this is a fault, as
  it takes a handler of more than 30 seconds; if it crashed it is not.  Nothing
  is taken from the old worker: it continues with what it read.
- `Retry` and `Defer` act on a row in processing only (838-846); `Fail` and
  `Complete` act on any (924, 1211); `CompletePublish` and `CompleteUnpublish`
  check that the event is not delivered and that the request is current (1006,
  1025, 1170-1198).
- A remote call has three outcomes: it happened and was answered, it happened
  and the answer was lost, it did not happen.  A transaction has the same
  three where the code tells them apart.
- `AfterError`, `AfterCompletionError` are the decisions of `processNext` and
  `handlePublishFailure`; compensation errors are retried whatever the number of
  attempts.
- `failEvent` compares version and status; `FailIssue` and `FailVersion` do.

Abstractions: an issue's number and date are both unique and are one value.
A grant is named by the aggregate version in the idempotency key it was created
with, and two creations with one key give one grant.  Attempt counters saturate
at `MaxAttempts`, which is all the code compares them with.  `publication_workflow`
is written together with the event's status (`WorkflowStatus` says what it is).
Time is left out: a lease, a backoff and the readiness deadline may end at any
moment.  Legacy rows without a number are not modelled.  Because of
`MaxVersion` editors stop at some point; the outbox is then worked off and the
system rests, which is why runs switch off the deadlock check.

### The abstract specification

`EditionLifecycle` has two variables: the phase and the asset of each edition,
and the assets readers see of it.  `BulletinProperties` instantiates it with the
refinement mapping

    edition <- phase = version[i][l].status, asset = version[i][l].asset
    shown   <- the assets of the rows of pub[l] that belong to issue i

and `PublishesAsPromised` says that every behaviour of the outbox, the workers
and asset-api is one of it.  Claims, calls, retries, crashes and compensations
map to stuttering; an editor's transaction to `Edit`, `RequestPublish` or
`Withdraw`; the worker's transactions to `Publish`, `GiveUpPublish` and
`EndWithdraw`.  What it adds to the invariants: readers only ever see the asset
that was requested, at the moment its publication ends, and see nothing from
the moment a withdrawal starts, whatever editions of the same issue do.

### The content modules

| Variable | Code |
|---|---|
| `outbox`, `work`, `grants`, `faults` | as above; a key has its kind, version and image, an event the references of its payload; `faults` also tells whether a lease was lost and which grants no attempt knows of |
| `entry`, `revision`, `proj` | `content_entry` with `news_item`, `content_revision`, `public_projection` of one news entry |
| `page`, `child`, `pageRev`, `childRev` | the rows of a page and of its members, and their revisions |
| `manifest` | `page_publication_manifest`, by page version |
| `pageProj`, `childProj` | `public_projection` of the page and of its members |
| `seen` | what an editor read: first the page, then the members |
| `sources`, `plan` | site settings and locations as the migration reads them; the plan under review |
| `item`, `rev`, `proj`, `req` | an entry of `PlainContent`; requests between the service's read and their transaction |

- An image is named by the version of the entry that attached it, a grant by
  the version in its idempotency key, a text by the version that wrote it.
- A worker grants one image after the other, in the order of the payload; the
  transaction that completes gets all of them.  `ErrStalePublication` is
  compensated at once, another error is tried again until the last attempt.
- `LeaseLoss` lets another worker claim an event whose worker is still busy.
- A transaction compares the version of the request, so that only requests with
  the current one are steps.  In `PlainContent`, where the service decides on
  what an earlier read returned, the request keeps its version and the refusals
  are steps too.
- `TouchPageGroup` makes the page a draft of a new version in the transaction of
  a member; it is why the aggregate version of the page covers its members.

### The services

| Module | State | Steps |
|---|---|---|
| `SiteSettings` | `site_settings`, its texts and revisions, the public layout rows, what editors read | one per transaction; reading takes two |
| `TranslationPreview` | counters by scope and window, cooldown rows by key, requests, a clock | load (two statements), reserve, provider, release, finish; deadline and crash |
| `ContentSeed` | rows by natural key, run rows, provenance, advisory locks, importers | one per statement outside of the transaction, one per record in it, commit with or without its answer |
| `Meetings` | rows, overrides, bindings, audit, what a page shows, a list request | one per transaction and one per query of a page or list |

`Occurrences` computes on a calendar whose local days may be shorter or longer
than the ordinary one, as the changes of daylight saving make them; its
operators follow `ResolveOccurrences` and `unionWindows`, and are compared with
what the words mean: the occurrences that go on at some instant of the range,
the instants that some scheduled occurrence covers.  When a clock time comes
after the change of its day is the zone's (`Gap`), date by date; no day is cut
before as much of it has passed, which leaves out zones that skip their midnight.

## 4. Properties and runs

| Run | Constants | Properties |
|---|---|---|
| `race` | 1 edition, 2 uploads, 2 workers, 2 attempts, 4 versions, 1 fault | `TypeOK`, `InFlightHasEvent`, `OpenEventIsCurrent`, `EventsAreSerial`, `VisibilityChangesByWorkflow`, `FrozenInFlight`, `PublishesAsPromised` |
| `edition` | 1 edition, 2 uploads, 1 worker, 6 versions | `PublicIsRecorded`, `PublishedIsPublic`, `PublicIsGranted` |
| `locales` | 1 issue with 2 editions, 5 versions, 1 fault | `SingleFlight` |
| `latest` | 2 issues, 2 numbers, 4 versions each | `LatestIsNewest` |
| `notification_settles` | 1 edition, 2 workers, 4 versions, 1 attempt, 1 fault, notifications | `PendingNotificationHasEvent`, `NotificationSettles` |
| `settles` | 1 edition, 1 worker, 2 attempts, 4 versions, 1 fault | `PublicationSettles`, `EventsSettle` |
| `content` | see below | `ContentTypeOK`, `CoverGrantsFit`, `BannerGrantsFit`, `ManifestsMatchMembers`, `GroupPublishesWhatWasSeen`, `GroupRevisionsAreRestorable`, `PublicContentIsComplete`, `NothingIsOverwritten`, `ContentSettles` |
| `services` | see below | `ServicesTypeOK`, `ReadIsCurrent`, `LayoutIsOnePublication`, `StatusIsVisible`, `CallsWithinLimits`, `PreviewsAreSpaced`, `CooldownHasCause`, `TextNotOlder`, `AllOrNothing`, `ReportedIsApplied`, `LocksAreReleased`, `AcceptedEditsAreInformed`, `OverridesStayBehind`, `OccurrencesAreExact`, `WindowsAreExact` |

The components of `content` and of `services` share no row, so that the runs
choose one of them, the `subject`, in the initial state, and a property speaks of
the subjects it is about.  Checking them side by side would only multiply their
state spaces.

- `SingleFlight`, `InFlightHasEvent`, `OpenEventIsCurrent`, `EventsAreSerial`
  say how the CMS rows and the outbox agree.  Together they are why the checks
  in `CompletePublish` suffice without fencing: a second open publication of an
  issue does not exist, and a late worker holds a key of an older version.
- `PublicIsRecorded` and `PublishedIsPublic`: the grant of every public row
  is stored with its edition, through drafts, restores, failed publications and
  replacements, so that it can be withdrawn.
- `PublicIsGranted`: and no event revokes that grant, although editors and failed
  publications queue revocations that a worker carries out later.  It takes
  workers that keep their leases (`LeasesAreKept`); in this run, with one worker
  and no crash, none can lose its own.  What a lost lease does is the subject of
  `delivered`, below.  It says nothing of the file: a retirement deletes an asset
  even when it was published again meanwhile (`worker.go:363`).  What asset-api
  does with the grants of a deleted asset is outside this repository; the
  bulletin modules leave them alone, so that the property speaks of revocations
  only, and `ContentOutbox` drops them with the image, of which a deleted entry
  has no further use.
- `LatestIsNewest`: `/bulletins/latest` shows the greatest public number.
- `VisibilityChangesByWorkflow` is the sentence "public visibility changes only
  after the asset grant workflow completes" of the repository's README: the
  grant of a row is live when the row appears.
- `FrozenInFlight`: nothing a publication was started for changes under it.
- `PendingNotificationHasEvent` and the liveness properties: nothing an editor
  waits for is stuck.

Why the bounds are enough: one fault gives one lost lease or crash at every
point of every handler, which is what it takes for two workers to hold one
event; four versions admit upload, publish, and then either a second publish, an
unpublish, or a replacement, while the first worker still holds the old event;
six versions admit upload, publish, replacement, publish, unpublish, delete, or
a restore between them.  Two issues and two numbers give every order of
publication and withdrawal and renumbering, but never a choice among several
remaining rows.  The symmetry
sets exchange workers, which are alike, and issues with their assets; they are
used in runs of safety properties only.

The content modules:

- `CoverGrantsFit`, `BannerGrantsFit`: what is public shows its images under
  live grants that are recorded, through retries, crashes, late completions and
  compensations; and a live grant is recorded, or an open event is to revoke it,
  or its publication goes on, or its publication has failed with an attempt that
  did not know of it.  That last grant stays for good, and the code does leave
  such grants: the answer of asset-api is lost, or the worker crashes or tries
  again, and the attempt that then fails compensates only what it got itself.
  `faults.stray` is a history of them that no step reads: a grant is in it when
  its answer was lost or its attempt ended without ending the publication, and
  leaves it when an attempt learns of the grant.  What a failing attempt knows of
  is not excepted: without the compensation in `FailContentPublish`, for news or
  for home, both properties break.  Both are
  stated for workers that keep their lease: with a lost lease a late worker can
  grant again after the publication it works for was finished and withdrawn, and
  nothing records that grant.
- `ManifestsMatchMembers`: the public page and members are those of the latest
  manifest, with the texts of their revisions; a publication that runs still
  fits its members.  `GroupPublishesWhatWasSeen`: the version of the page is a
  version of the group, so that publishing with it publishes what an editor
  listed after reading it.
- `GroupRevisionsAreRestorable`: every listed revision of a group can be
  restored, but for those that removed a member: the removed member gets no
  revision at its target version, and such a revision of the group is refused
  for ever (page_group_repository.go:277, 654-680).
- `PublicContentIsComplete`, `NothingIsOverwritten`: what was checked before a
  transaction still holds in it, whatever commits in between.
- `ContentSettles`: from every state nothing stays in flight and no grant that
  is to be revoked stays live.  Editors stop at the version bound, so that the
  formula, an infinitely often, says that the workers finish what editors left.

Instances of `content`: news with two images, two workers, two attempts, one
fault and five versions, in which covers are attached and one is cleared; news
with one attempt and two faults; news with lost leases; home with its video in
the same three ways, with its migration and two versions of the sources (seven
versions of home, six where there are more faults); about with two history
entries, from scratch and as it was before there were manifests, with a reading
editor and six versions; a location and a legal page with two requests at once
and two locales.  Five versions admit create, attach, publish, edit or clear,
publish again; two members make one stay while the other changes.

The services:

- `ReadIsCurrent`: an editor who read the current version of the settings has
  its texts, although they are two statements.  `LayoutIsOnePublication`,
  `StatusIsVisible`: the public layouts of all locales are of one publication and
  agree with the status.  That every version can be restored
  (`EveryVersionIsRecorded`) is only proved.
- `CallsWithinLimits` counts the requests that reach the provider, by the window
  they started in.  `PreviewsAreSpaced` allows for the wait between the start
  of a request and its reservation, and that is the best the code gives.
  `CooldownHasCause`: a failed call costs no waiting time.  `TextNotOlder`: what
  was translated is at least as new as the version it is handed out with.
- `AllOrNothing`, `ReportedIsApplied`, `LocksAreReleased`: two
  importers of one seed version with different manifests hold different locks;
  one of them succeeds, whatever fails, crashes or is not answered.
- `AcceptedEditsAreInformed`: an editor of a meeting whose write is accepted has
  seen the overrides and bindings that are there, although the page is three
  queries.  `OverridesStayBehind`: the ETag an override is answered with is
  never a later version of the meeting.
- `OccurrencesAreExact` and `WindowsAreExact` compare the arithmetic with its
  meaning, on a week of two days with a short and a long day, for ranges that
  begin within, at the end of and around an occurrence; meetings longer than
  the shortest day can be missed and are left out.

Instances of `services`: two editors, two locales and four versions of the
settings; three requests of one key; three requests of two actors under tight
limits; two requests and a moving source with a fault; two importers, two
records and a fault; a unit and a resource; two editors of one meeting; lists
of one and of two meetings.

### Fairness

`settles` and `notification_settles` use `FairSpec`.

- Some claimable event is claimed, and each worker takes its steps: `Run` loops
  and polls every two seconds.  No order of claims is assumed, although the
  code claims the oldest.
- A remote call or a compensation that is tried again and again succeeds
  eventually (strong fairness on `GrantCreated`, `GrantRevoked`, `AssetDeleted`,
  `Confirmed`, `Compensated`): these are the calls the worker retries without
  limit, and it could not finish otherwise.
- The readiness deadline passes (`DeadlineExceeded`): it is measured from the
  event's creation.

`content` assumes that each worker goes on (a claim or a step of its handler),
which is what `Run` does; faults are bounded by `MaxFaults`, so that no strong
fairness is needed.  `services` assumes that an importer that runs goes on.

Not assumed: that a scan ends, that a call succeeds which the worker tries a
bounded number of times, that editors act.

### Disagreements with the repository's tests

Four runs look for a claim of the repository that the code does not keep; TLC
finds a behaviour that breaks each.

| Run | Claim | What happens |
|---|---|---|
| `delivered` | a delivered publication is not failed or revoked | a worker with a lost lease confirms "not delivered", another one delivers, the first then fails the event and queues the revocation of the live grant |
| `compensated` | a publish event that fails has its grant queued for revocation | the grant was created by an earlier attempt, the last attempt fails before it has one |
| `replaced` | a replaced public asset is retired | a publication of the published edition failed before, so that the edition is a draft when the new asset arrives |
| `listed` | the public list shows an edition once | withdrawing the newest issue makes the recreated latest row an issue row |

The consequences meet in one place: asset-api may keep grants that no row
records and nothing revokes.  News and home share the behaviour of
`compensated`, since `handleContentPublishFailure` compensates one attempt as
`handlePublishFailure` does; their tests (`worker_test.go:378` and `:400`) fail
with grants of the same attempt.  `CoverGrantsFit` and `BannerGrantsFit` name
these grants as their only exception while leases are kept.

## 5. Proofs

`BulletinProofs` proves

    THEOREM TypeCorrect == Spec => []TypeOK

for every value of the constants that satisfies `BulletinAssumption`; in
particular for any number of issues, locales, assets, workers, versions,
attempts and faults.  `TypeOK` is inductive as it stands, since it contains what
the steps need of each other: an existing version has an asset, every event
whose handler calls asset-api names one, every busy worker holds a key of the
outbox and is at a step of that key's handler.  The proof has a lemma for each
shape of update (rows of an issue, an outbox that grows, a worker that moves),
and one for each action; `TypeCorrect` combines them.

In the same module, over `TypeOK`:

    THEOREM PublicationsAreSingleFlight == Spec => []SingleFlight
    THEOREM FlightsHaveEvents           == Spec => []InFlightHasEvent
    THEOREM OpenEventsAreCurrent        == Spec => []OpenEventIsCurrent
    THEOREM PublicationsAreSerial       == Spec => []EventsAreSerial
    THEOREM FlightsAreFrozen            == Spec => FrozenInFlight

None of the four invariants is inductive alone.  A worker that fails an event
checks the issue's version and status but not which edition it is about: that
the failed edition is the one in flight needs `SingleFlight` (there is only
one), `InFlightHasEvent` (it has an event of the current version) and
`EventsAreSerial` (that event is this one).  That a completed or failed event
is not the open event of something newer needs `OpenEventIsCurrent`; that the
key of a new request is free, and so `ON CONFLICT DO NOTHING` inserts it, needs
`EventsAreSerial`.  The inductive invariant is `AgreementInv`, the conjunction
of the four with `TypeOK`.

The proof argues for one issue at a time (`AgreesAt`): a step leaves an issue's
publication alone (`Untouched`), edits it while nothing is in flight
(`Edited`), starts a publication (`Started`) or ends the one in flight
(`Finished`).  The lemmas of the actions then only say which of the four
applies.  `FrozenInFlight` needs `TypeOK` alone: editors are kept out by their
guard, and the worker's transactions write no version, number or asset.

`LifecycleProofs` proves

    THEOREM PublicRowsAreRecorded          == Spec => []PublicIsRecorded
    THEOREM PublishedEditionsArePublic     == Spec => []PublishedIsPublic
    THEOREM EditionsArePublishedAsPromised == Spec => PublishesAsPromised

The inductive invariant `PublicInv` adds two facts to `AgreementInv`: existing
issues have different numbers (`UniqueNumbers`), and for each edition the public
rows of its issue are those its CMS row accounts for (`AllRecorded`, which states
both invariants for one edition from its row: whether it is public, then with
which grant, and where).  An editor may change the row of a public edition in
three ways: keep it, draft it (the asset and grant move to the retiring columns),
or change it freely when it is not public.  What forbids the rest is the guard
`HasGrant` together with `AllRecorded`: an edition without a grant has no public
row.  The refinement then needs no history: an abstract edition is the status
and asset of the CMS row and what readers see is read off the projection, so that
each transaction is one step of `EditionLifecycle` and each claim, retry, remote
call and crash a stutter.  Its `Publish` needs that the event carries the
edition's asset (`OpenEventIsCurrent`), its `Withdraw` that no other row of the
edition is public (`AllRecorded`).

`BulletinProofs` also proves

    THEOREM PendingNotificationsHaveEvents == Spec => []PendingNotificationHasEvent

by the invariant `Notified` of the three states of a notification: pending means
an open event, failed means a failed one, and not requested means none, while
the issue is there.  The middle one is why `Requeue`, which reopens failed events
only, always leaves an open event behind.

`LifecycleProofs` also proves

    THEOREM LatestBulletinIsNewest         == Spec => []LatestIsNewest
    THEOREM BulletinsAppearByTheirWorkflow == Spec => VisibilityChangesByWorkflow

`LatestIsNewest` is inductive over `PublicInv`, column by column: a publication
offers its row to the latest one, a withdrawal removes a row only of the issue it
is about.  The second theorem says that the grant of a bulletin is live when the
bulletin appears, though workers revoke grants between the worker's call that
creates it and its transaction.  `GrantsHeld` (a worker at the completion of the
current publication has its grant) is kept because every revocation in the outbox
is of a grant older than the version being published (`RevokesBehind`): a
withdrawal and a retirement take the grant from the edition's row, which is of an
earlier version (`GrantsBehind`), and a compensation revokes its own version, but
in the transaction that ends its publication.

What is delivered stays so only while leases are kept:

    THEOREM DeliveriesAreFinal        == Spec /\ LeasesAreKept => DeliveredIsNotRevoked
    THEOREM PublicBulletinsAreGranted == Spec /\ LeasesAreKept => []PublicIsGranted

`LeasesAreKept` says of a step that a worker claims an event whose lease ran out
only when nobody holds it any more; crashes, lost answers, retries and requeued
events are all allowed.  The first theorem is the claim the run `delivered`
refutes, so that a lost lease is the only way to break it.  By `HeldInv` an event
has one worker, and a worker with a delivered publication in its hands is one
whose own commit was not answered: it retries, or confirms and lets go, and
never compensates.

For the second, `GrantedInv` names everything that may revoke a public row's
grant.  Grants are named by versions: no edition but its own records the grant of
a row (`Distinct`), and the version being published is recorded by none
(`Unused`).  A withdrawal takes the row away in the transaction that queues its
revocation and a replacement when it completes, while a retirement carries the
grant the edition had before its draft; a compensation is of a publication that
was not delivered, and a public row's was (`PublicIsDelivered`).  So no event in
the outbox, now or when a worker gets to it, revokes what is public
(`SparesPublic`).

`SiteSettingsProofs` proves

    THEOREM SettingsTypesHold == Spec => []TypeOK
    THEOREM NoLostUpdate      == Spec => []ReadIsCurrent
    THEOREM OnePublication    == Spec => []LayoutIsOnePublication
    THEOREM StatusTells       == Spec => []StatusIsVisible
    THEOREM RevisionsComplete == Spec => []EveryVersionIsRecorded

for any number of editors, locales and versions.  The inductive invariant
`SettingsInv` adds to the types and the four properties that no editor and no
layout holds a version from the future (`ReadersBehind`, `LayoutBehind`), and
that an editor between the two statements of a read has the links of the
version it holds: a save in between makes that version an old one, which is why
the read needs no transaction.

`PlainContentProofs` proves

    THEOREM PublicIsComplete == PlainSpec => []PublicContentIsComplete
    THEOREM LocalesRemain    == PlainSpec => [][LocalesAreKept]_plainVars
    THEOREM PlainTypesHold   == PlainSpec => []PlainTypeOK

for any number of requests and locales.  The
service decides on a read before the transaction, so the invariants are not
inductive without what such a request still knows (`CheckedOK`): either the row
has moved past the version it holds, or has been deleted, and the transaction
will refuse it, or the row is at that version and still as it was read.  The
rest of `PlainInv` says that what is public belongs to an existing entry and to
a recorded, complete version of it.

`SeedProofs` proves

    THEOREM SeedTypesHold  == SeedSpec => []SeedTypeOK
    THEOREM SeedsAreWhole  == SeedSpec => []AllOrNothing
    THEOREM ReportsAreTrue == SeedSpec => []ReportedIsApplied

for any number of importers, manifests and records.  What is committed is whole
because an open transaction has a row for each record it is done with
(`WrittenOK`), and it is marked only when none is left; a version is applied
once because two importers never both hold a success of it (`Apart`,
`OneSuccess`), which is the unique index of the run table and not the lock: the
lock is of a version and a manifest.

`PreviewProofs` proves

    THEOREM PreviewTypesHold    == PreviewSpec => []PreviewTypeOK
    THEOREM LimitsHold          == PreviewSpec => []CallsWithinLimits
    THEOREM PreviewsKeepDistance == PreviewSpec => []PreviewsAreSpaced
    THEOREM CooldownsHaveCauses == PreviewSpec => []CooldownHasCause
    THEOREM TextsAreNotOlder    == PreviewSpec => []TextNotOlder

A limit is a statement about a cardinality: the calls of a window are at most
what its counter says (`Counted`), as long as the counter may still be needed.
Old counters are deleted, and that is safe because a request reserves within
`MaxWait` of its start, which is at most a day.  Two previews of a key keep
their distance because a request that may still hand out its preview has its
cooldown row, or the time of the row is over (`Held`): a late release deletes
only the row its own request wrote.

`MeetingProofs` proves

    THEOREM MeetingTypesHold   == MeetingsSpec => []MeetingsTypeOK
    THEOREM EditorsAreInformed == MeetingsSpec => []AcceptedEditsAreInformed
    THEOREM OverridesAreBehind == MeetingsSpec => []OverridesStayBehind

`PageOK` says what a page in progress shows: a version that is not from the
future and, if it is still the current one, the overrides and bindings of now.
Every write of an override or a binding moves the version of the meeting, and
rows of other kinds have neither, which is why their pages need one statement.

    THEOREM OccurrenceListsAreExact == MeetingsSpec => []OccurrencesAreExact
    THEOREM MediaWindowsAreExact    == MeetingsSpec => []WindowsAreExact

hold for every calendar, schedule, set of overrides and range, and any number of
meetings.  `ListInv` says that a list is what `ResolveOccurrences` makes of the
rows and overrides it has read, each of them valid, although rows and overrides
change between its queries; the rest is arithmetic.

- The local days follow each other without a gap (`MidnightFacts`,
  `DaysInOrder`), and the clock of a weekly meeting falls within its own day,
  however the day is cut or stretched (`ClockInDay`).  A meeting of a date two
  days before the range, no longer than the shortest day, is then over before
  the range begins (`ReachingDatesAreScheduled`): this is what starting one date
  early is worth, and why it is not worth more.  An override that moves an
  occurrence is tried whatever its date.
- What is joined is one instant set more (`JoinedWindows`): the windows are in
  order and apart, and the new one starts no earlier than any before it, so that
  only the last can overlap it.  Which of the windows that start together comes
  first does not matter to the theorem, as the sort of `unionWindows` leaves it
  open.

Both are about recursive functions.  The library's induction theorems take an
operator as a parameter, which these provers cannot instantiate, but its
`WFMin`, that a set of numbers has a least element, takes sets: `InductiveSet`
is induction for a set given by a condition, and both `Midnight` and the union
are shown to satisfy their equations with it (`MidnightEquation`,
`UnionEquation`).

`ContentProofs` is about the page groups, with the migration of home beside
them, and about news:

    THEOREM GroupsPublishWhatWasSeen == GroupSpec \/ MigrationSpec => []GroupPublishesWhatWasSeen
    THEOREM GroupsAreRestorable      == GroupSpec \/ MigrationSpec => []GroupRevisionsAreRestorable
    THEOREM ManifestsAreTrue         == GroupSpec \/ MigrationSpec => []ManifestsMatchMembers
    THEOREM BannerGrantsAreFit       == GroupSpec \/ MigrationSpec => []BannerGrantsFit
    THEOREM CoverGrantsAreFit        == NewsSpec => []CoverGrantsFit
    THEOREM MigrationsAreReviewed    == MigrationSpec => [][MigrationIsReviewed]_migrationVars
    THEOREM NewsTypesHold            == NewsSpec => []NewsTypeOK
    THEOREM GroupTypesHold           == GroupSpec \/ MigrationSpec => []GroupTypeOK
    THEOREM NewsIsPublishedAsPromised == NewsSpec => NewsPublishesAsPromised

The first three follow from `GroupInv`.  A manifest in flight still fits its
members because nobody edits a member meanwhile (`FlightOK`), a finished one
because every later publication or removal leaves the revisions it names
(`ManifestsOK`), and an editor who holds the current version of the page holds
the current texts because each change of a member touches the page (`SeenOK`).
This part needs nothing of the workers: they may lose their leases and act
late, for the completion compares the manifest and the version.

The grants need the workers.  `FleetInv` is what holds of the outbox, asset-api
and the workers of any content module as long as no lease is lost: an event has
one worker and its position fits the event's status (`StepFits`), so that
grants are only created by a publication that is not finished; what is revoked
was granted by a publication that has ended (`RevocationsFollow`), delivered or,
for a compensation, failed; and a revocation ends when its grants are gone
(`RevocationsWork`).  On it, `CoverInv` and `BannerInv` say that a recorded grant
is of a delivered publication and no event has been written to revoke it
(`RecordedOK`), that a public image is recorded and live, and that the grants of
delivered publications are recorded or an open event revokes them
(`AccountedFor`).  `StrayInv` is about the other publications: a grant of one
that goes on is known to its worker or is one no attempt knows of, and a grant of
one that has failed is the latter or an open event revokes it.  A worker that
compensates queues an event for each grant it knows of, since none was written
before its publication ended, and one that fails without compensating has asked
for none (`StartsEmpty`); so the exception of both properties is as narrow as the
code allows.  The delicate step is the completion of a second publication:
it replaces the recorded grants and queues the revocation of the old ones in one
transaction, and a new grant has another name than the old one only because it
is of another version, which `RevocationsFollow` turns into the absence of
revocations of it.

The migration compares hashes of the plan in a serializable transaction.  That
the page it replaces is as public as it was reviewed needs `PublishedWhole`: a
published page has the body of its projection and no member with a draft of its
own, in spite of all edits of members between, since each makes the page a
draft.

The types hold with lost leases as well, so that they cannot rest on `FleetInv`.
`OutboxTyped` says instead what a worker brings to its transaction whatever
happened to its event meanwhile: a handler that publishes has an event with
references and grants it asked for, one that revokes has no publication.  Hence
a grant that an entry records has a version and its revocation a key.  In a
group, `GroupTyped` bounds every version, of members, manifests and projections,
by that of the page: a manifest in flight names targets no member has reached
yet, but the page has.

News keeps the promise bulletins keep: with the entry as the only edition and its
covers as the asset, each transaction of an editor or a worker is one step of
`EditionLifecycle` (`NewsChanges` lists them) and everything else is none, lost
leases included.  What it takes is `ShownOK`: a withdrawal must not start from a
status in which nothing is public, which the code decides by the projection and
not by the status.  No run checks this one; a failure that left the entry in a
status of its own, as that of home does, would break it.

Two definitions of the models were wrong and were found by these proofs, not by
TLC: the commit of a failed import was possible (`Commit` lacked the position of
the importer), and a request that crashed during the call of the translation
provider kept an open outcome, as if it might still hand its preview out.

Together the theorems state every safety property and every action property of
the passing runs but those that follow.  `NothingIsOverwritten` is the
conjunction of `MigrationsAreReviewed` and `LocalesRemain` for the instances of
its run.  So are `ServicesTypeOK` and `ContentTypeOK`, of the type theorems of
`SiteSettingsProofs`, `PreviewProofs`, `SeedProofs`, `MeetingProofs`,
`ContentProofs` and `PlainContentProofs`.  Liveness (`PublicationSettles`, `EventsSettle`,
`NotificationSettles`, `ContentSettles`, `LocksAreReleased`) and with it
`ENABLED` is outside of their reach.

The assumptions are those the modules name: `BulletinAssumption`,
`SettingsAssumption`, `SeedAssumption`, `MeetingsAssumption`,
`PreviewAssumption`, `OutboxAssumption`, `EditsAssumption` and `PlainAssumption`,
which give constants their types and say that a request waits less than a
cooldown and at most a day.  Of the content modules only the types need them.
The lists of meetings rest on `CalendarAssumption`, described with `Occurrences`,
and on `ValidInputs`, a part of `MeetingsAssumption`: a meeting lasts at least a
unit and starts at a time of the day or at an instant of the calendar
(`validMeeting`), an override has a date of the calendar and no empty duration
(`PutOverride`), and a range ends after it begins (`operationsRange`).  The
calendar of the code has no end; in the model it is as long as one likes.

## 6. Not modelled

Reading (lists, previews, pagination) has no state but where a page is put
together from several queries.  HTTP decoding, identity and formats, telemetry,
configuration, running the migrations and the release scripts are left out.
Transactions are atomic steps; what READ COMMITTED allows between transactions
that do not lock a common row (two issues of one locale and their latest
projection) is not modelled, nor are waits for row locks: where two
transactions take them in different orders (deleting a member, publishing its
group) Postgres ends one of them, which is a request that has no step here.
The check of an asset and the transaction that attaches it are one step of
`PutVersion`.  The tree of church units has no module: the statement that moves
a unit is refused by Postgres (operations_repository.go:107), so that no cycle
can be stored.  The payloads of pages (`content/page_payload.go`), the texts of
translations and the wording of titles are data the properties do not tell
apart.
