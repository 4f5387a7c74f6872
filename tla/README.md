# Verification of the feature-flag store

TLA+ models of the repository's packages, model-checked with TLC on small
instances and proved with TLAPS for all values of the constants. Source paths
below are relative to `src/`; `s3-*.ts` files are in
`packages/aws/src/infrastructure/`, `publishing.ts` in `packages/aws/src/domain/`.

## 1. The system

A *snapshot* is a JSON file with all flags of an environment. Publishers write
immutable snapshots `<env>/snapshots/<n>.json` to S3 and move a mutable
`<env>/current.json`, the *pointer*, to the one that is live. *Segments*, lists of
members that rules refer to, have objects and a pointer of their own. Every
application holds a client that loads the live snapshot, polls the pointer, and may
be nudged by an SNS/SQS *change notification*. Nothing coordinates publishers or
readers but S3's conditional requests.

| Component | State it keeps | Operations | What is hard | What makes it correct | Status |
|---|---|---|---|---|---|
| Snapshot publisher (`s3-snapshot-publisher.ts`, `publishing.ts`) | none between calls; the bucket | `publish`, `rollback` | read-probe-write-write with any other publisher between two requests; crashes; lost answers; resent and late writes; clock skew | versions form one line; snapshots are immutable; orphans never wedge; errors tell the truth | modelled, proved |
| Flag client (`core`: `flag-client.ts`, `snapshot-store.ts`) | active snapshot + segments, tickets | `refresh`, delivery, `close`, queries | answers to overlapping loads in any order; partial bundles | never goes back behind a delivery; members are not lost | modelled, proved |
| S3 snapshot source (`s3-snapshot-source.ts`) | `loaded`, segment map, job queue, timer | `load`, tick, push, unsubscribe | `load` runs beside the serial queue and shares its state; state read before an `await` and used after it; 304s | catches up with the bucket; nothing after unsubscribe | modelled, proved |
| Change notification (`sqs-notification-queue.ts`, `sns-change-notifier.ts`) | abort signal; the queue itself is SQS | receive, handle, delete, stop | duplicates, loss, reordering, redelivery; abort in the middle of a batch | an announcement is deleted only when the client was given its version; the queue drains | modelled, proved |
| Segment publisher (`s3-segment-publisher.ts`, `segment-csv.ts`; its pages and `segment upload`) | none; the bucket | parse, upload | as the snapshot publisher, but without probing | segment versions form a line; only valid lists go live; pages catch up | modelled, proved |
| File source (`core`: `file-snapshot-source.ts`) | `lastDelivered`, debounce timer | `load`, watch, unsubscribe | reloads overlap; half-written files | the client settles on the file; `close` winds down | modelled |
| Contracts and evaluation (`core`: `domain/`) | none | `parseSnapshot`, `evaluate` | first matching rule; missing segments; rounding of percentages | rollouts are exact; a review shows what evaluation can tell apart | modelled, proved |
| Dashboard editing (`dashboard`: `domain/`, `application/`) | the change set, carried by the browser | edit, stage, review, publish, replay, merge, restore | stale pages; replay on a newer version; field-wise merge; lost answers | no silent overwrite; staged changes survive; reports are true | modelled, proved |
| Dashboard pages (`http-server.ts`, `views/`, `app.js`) | the page in the browser | forms, polling for a new version, review and merge dialogs | the server keeps nothing between two requests; a read that fails after the write | every form carries what the next one needs | partly |
| NestJS module (`nestjs`) | one process-wide client | start, init, shutdown | several applications in one process; a failed start | the decorator's client is the newest one that serves | modelled, proved |
| CLI (`cli/src/main.ts`) | none | publish, rollback, pull, segment upload, validate | a pull that dies half-way | pulls are atomic | partly |
| Readers for tools, deployment stack | none | single reads, templates | – | – | not modelled (section 9) |

Interactions: dashboard and CLI call the snapshot and segment publishers. A dashboard
request reads the bucket several times, and other publishers get in between; the operator's
staged changes and the version a page was rendered from travel in its forms. The
snapshot publisher writes the bucket and,
after the pointer moved, publishes to SNS; SQS carries the message to each
application's queue, whose handler starts a *push* in the source; the source reads the
bucket and calls the client back; the client calls `load` of the source. The Nest module
owns the client and binds it to a process-wide variable for `@FeatureFlag`. The hazards at
their lines of code are listed in `PROJECT.json`.

## 2. Modules

| Module | Models | Role |
|---|---|---|
| `PublishedHistory` | what an environment promises its publishers | abstract specification |
| `SnapshotPublisher` | concurrent `publish` and `rollback` calls against one bucket | detailed specification, implements `PublishedHistory` |
| `MCSnapshotPublisher` | – | symmetry for TLC |
| `SnapshotPublisherProofs` | – | theorems about `SnapshotPublisher` |
| `FlagClient` | `createFeatureFlags` and `SnapshotStore` | actions without a specification of their own |
| `SnapshotDistribution` | `createS3SnapshotSource`; composes it with `FlagClient` and the bucket | detailed specification |
| `MCSnapshotDistribution` | – | symmetry for TLC |
| `SnapshotDistributionProofs` | – | theorems about `SnapshotDistribution` |
| `SegmentPublisher` | uploads of one segment by its publisher, pages, CLI and scripts | detailed specification, implements `PublishedHistory` |
| `SegmentPublisherProofs` | – | theorems about `SegmentPublisher` |
| `FileSource` | `createFileSnapshotSource`, an editor and `pull` | actions without a specification of their own |
| `NotificationQueue` | SNS, SQS, `createSqsNotificationQueue`, the source's jobs it waits for and the `load()` beside them | actions without a specification of their own |
| `Application` | the Nest module; composes `FlagClient` with `FileSource` and `NotificationQueue` | specification |
| `ApplicationProofs` | – | theorems about `Application` |
| `Evaluation` | the schema of snapshots, `evaluate`, rollouts | operators |
| `FlagEdit` | edits, the Save form, replay, the diff | operators |
| `FlagEditProofs` | – | lemmas about `Evaluation` and `FlagEdit` |
| `SnapshotMerge` | the three-way merge | operators |
| `SnapshotMergeProofs` | – | lemmas about `SnapshotMerge` |
| `FlagDrafts` | two people who edit one snapshot | specification that drives the operators |
| `FlagDraftsProofs` | – | theorems about `FlagDrafts` |
| `DashboardSessions` | an operator's page and requests among other publishers | specification, uses `SnapshotMerge` |
| `DashboardSessionsProofs` | – | theorems about `DashboardSessions` |
| `MCSegmentPublisher`, `MCFlagDrafts`, `MCDashboardSessions` | – | values for TLC |

### SnapshotPublisher

`stored` and `age` are the snapshot objects with their `LastModified`, `current` and
`currentAge` the pointer; `writer[w]` is one call in progress, whose `phase` is the
request it awaits; `wire` holds writes whose sender no longer waits for the answer, and
`history` records each version that went live.

| Action | Code |
|---|---|
| `StartPublish`, `StartRollback` (both `Call`) | `readPointer`, then `checkExpectedVersion` or `checkRollbackTarget` |
| `ReadTarget` | `readSnapshot` of the target, its validation, `buildRollbackSnapshot` |
| `Probe` | one `HeadObject` of `resolveNextVersion`; `Skippable` is `classifyOccupiedVersion`; a free version is stamped and validated |
| `PutSnapshot`, `PutPointer` | the two conditional writes of `writeNextVersion`, answered |
| `Notify` | `notify`, which never fails the call |
| `ReadFails` | a GET or HEAD rejects: `REQUEST_FAILED` |
| `Resend` | no answer, and the SDK sends the write again while the first is still on the wire |
| `GiveUp`, `Crash` | no answer and no attempts left, or the process dies; the write may still land |
| `Land` | a write nobody waits for reaches S3, at any time or never |
| `Tick` | time passes |

A body is one of `Contents`. Dates are kept as ages that saturate at `Grace + MaxSkew`,
where an object is past the grace period on every clock, so comparing ages decides
exactly what comparing dates decides. The pointer's ETag is its version: the body of
`current.json` is a function of the version, and the line of versions, which the model
checks, never repeats one. S3's 409 for a competing write is a loser whose request is
served after the winner's. Not modelled: checks on the arguments before the first
request, and objects edited by hand.

### FlagClient and SnapshotDistribution

A payload is the version of the snapshot and the version of the one segment it may
reference, 0 when the bundle leaves it out. A *flow* is one run of `load()` (an element
of `Loads`) or the job the subscription's queue runs at the moment (`Job`). Its `step`
is what it awaits and its other fields are the local variables that outlive the await,
such as `cached` of `refreshSegment`.

| Action | Code |
|---|---|
| `Publish`, `UploadSegment` | the bucket, seen from its readers: it only moves up |
| `Refresh` | `refresh` takes a ticket, `load` asks for the pointer |
| `Tick`, `Push` | a poll with `IfNoneMatch`, a reconciling one without, a notification |
| `PointerRead`, `PointerMissing` | S3 reads the pointer: 304, version, absent |
| `JobFollows`, `LoadFollows` | `deliver` and `load` act on that answer, comparing with `loaded` as it is now |
| `SnapshotRead` | the snapshot arrives; without segments `refreshSegments([])` empties the map and the payload is done |
| `SegmentRead`, `SegmentFails`, `SegmentFollows` | `refreshSegment` before and after its answer, then `payloadOf`, `loaded = …` and `emit`, or the return from `load` |
| `RequestFails` | a GET rejects; the job is logged, the refresh keeps the active snapshot |
| `Unsubscribe` | `close()` of the client |

S3's reading of a pointer and the program's acting on it are two steps, because other
flows run in between. A GET of an immutable object is one step. `HandOver` calls
`FlagClient`'s `Delivered` or `RefreshLoaded`, so a step of the source that emits is
one step of both.

### SegmentPublisher

`stored` and `pointer` are the bucket, `upload[u]` one call with the page it came from,
`wire` and `history` as in `SnapshotPublisher`.

| Action | Code |
|---|---|
| `OpenList`, `ShowVersion` | GET of the segment list and of a segment's page: `listSegmentKeys`, `readSegmentVersion` |
| `Create`, `Upload`, `UploadFile`, `UploadDraft` | the form of the list, of the segment's page, `segment upload` of the CLI, a script; `ParseCsv` is `parseSegmentCsv` |
| `Precheck` | the list form's look at the pointer |
| `ReadPointer` | `readPointer`, `checkExpectedVersion`, `parseSegment` |
| `PutObject`, `PutPointer` | the two conditional writes, answered |
| `RequestFails`, `Resend`, `Crash`, `Land` | faults, as for snapshots |

### Application, FileSource, NotificationQueue

`kind` chooses one of three sources for the application's client; `app` is the Nest
module's life, `bound` the decorator's `activeClient`, `other` a second application of
the process, of which only `bindFeatureFlagClient` and `unbindFeatureFlagClient` matter.

| Action | Code |
|---|---|
| `Start`, `Answer`, `StartFails` | `featureFlagsProvider`: `createFeatureFlags`, `ready()`, `close()` when it rejects |
| `ModuleInit`, `Shutdown`, `OtherInit`, `OtherShutdown` | `onModuleInit`, `onApplicationShutdown` |
| `EditorBegins`, `EditorEnds`, `PullBegins`, `PullEnds`, `WriterDies` | writers of the file; a pull is `runPull` with `writeAtomically` |
| `TimerFires`, `ReloadReads`, `ReloadEnds` | the watcher's debounced `reload`, up to and after its awaits |
| `LoadReads`, `LoadEnds` | `load` of a refresh |
| `Receive`, `Take`, `Delete`, `Aborted`, `SleepEnds` and their failures | `run` and `handle` |
| `StartJob`, `JobPointer`, `JobFollows`, `JobSnapshot`, `JobFails`, `PushSkipped` | the serial jobs of the S3 source: ticks and pushes |
| `LoadPointer`, `LoadFollows`, `LoadSnapshot`, `LoadFails` (with a queue, steps of `Answer`) | `load` of a refresh, which runs beside the jobs and writes the same `loaded` |

A text of the file is a version and whether it is whole; a missing, malformed or
half-written file ends a load or reload in the same way.

With a queue, S3's reading of the pointer and the source's acting on the answer are two
steps, of a job as of a load, and so another one may set `loaded` in between; the snapshot
of a version never changes, so its GET is one step. Segments are left to
`SnapshotDistribution`. `missed` is a history variable: the versions that the client was
given and does not serve, because it dropped them for their ticket or rejected them, or
that a slower refresh took back.

### Evaluation, FlagEdit, SnapshotMerge, FlagDrafts

A feature and a rule are records whose optional JSON fields may be missing.
`ValidSnapshot` is `parseSnapshot`; `Evaluate` is `evaluate`; `ApplyFlagEdit`,
`CanReplayEdit` and `DiffFlags` have the names of the code; `ParseSave` folds a form into
edits as `parseSave` does; `Merge` is `mergeFeatures` with `applyMergeChoices`.
`FlagDrafts` reaches pairs of drafts by Saves of one person (`SaveForm`, up to two
controls of the form changed) and single edits of another (`EditTheirs`). Its properties
compare the operators with reference definitions written independently of them.

### DashboardSessions

`versions` is the environment's line of versions, `page` what the operator's browser
shows, with the change set that every form carries (`pending`), the draft of the publish
dialog and what the page knows of newer versions; `request` is the one request under way.

| Action | Code |
|---|---|
| `SaveFlag`, `Stage`, `StageFails` | the `save` form: submitted, then `parseSave` and `stageFlagEdit` for each edit; the live version cannot be read |
| `SubmitEdit` | the new-flag and delete forms: `editFeature` |
| `Update`, `PublishAnyway`, `Discard` | the review dialog and the drift warning: `publishPendingChangeSet` |
| `Paste`, `Rollback`, `View` | the publish dialog, Restore, the filter form |
| `Publish`, `Conflict`, `PublishFails` | `publishExpecting`; `PublishFails` has the answer that was lost |
| `ReplayOnLatest`, `ReadLatestFails` | `replayOnLatest` |
| `Browse`, `DetectVersionDrift` | the reads that precede the page rendered as the answer |
| `AnswerFails` | one of them rejects, or the list of segments does: the error page of `dispatch` |
| `Poll`, `LoadLatest`, `OpenMerge`, `ApplyMerge` | `app.js` with the current-version and merge routes |
| `RivalPublishes` | anybody else, also between two steps of a request |

A publish is one step that lands or conflicts, which `SnapshotPublisher` shows it to be
up to lost answers; a lost one ends as `CONFLICT` or as another failure. An error page has
no forms, so whatever the request did, a change set that it carried is gone, and the
operator opens the environment anew. The browser's
Back button, which may show the page before, is not modelled. A link whose GET fails is
the same as the link followed later. A version remembers which parts of the flags its operator meant to
change (`own`), from which version they worked (`from`), and under which known exception
(`excuse`). These are for the properties only. `own` is the controls changed on a form, the
flag created or deleted, for a pasted draft the fields in which it differs from what the
dialog was filled with (`Changed`, which compares as the merge does: an absent list of
rules and an empty one are two things there and the same in a review), and after a merge
also the flags that were in conflict as a whole and taken from the own side
(`ChosenWhole`).

## 3. Runs

| Run | Configuration | Result |
|---|---|---|
| `publisher` | 2 publishers, 2 valid bodies and an invalid one, up to 2 leftover versions, grace 2 ticks, 1 fault, 2 live versions, 2 probes | all seven properties hold |
| `publisher_live` | 2 publishers, 1 body, no symmetry, fairness | `NeverWedged` holds |
| `publisher_failure` | 2 publishers, dateless objects and clock skew allowed, 2 faults | `FailureMovedNothing` is violated |
| `distribution` | 2 overlapping refreshes and the jobs, 3 versions of which 1 and 3 reference the segment and 2 is rejected, fallback start, 1 fault, 3 tickets | all four properties hold |
| `distribution_live` | 2 refreshes, 2 versions, the second with a segment, 1 fault, no symmetry, fairness | `SourceCatchesUp` and `ClientCatchesUp` hold |
| `distribution_stuck` | 1 refresh, 2 versions, no faults, fairness | `PollingSuffices` is violated |
| `distribution_older` | 1 refresh (used twice), 2 versions, 1 segment upload, no faults | `OlderNeverDelivered` is violated |
| `segments` | 2 uploaders, 1 good file and 5 bad ones, 2 member sets of scripts, lists of 1 member, 1 fault, 2 live versions, fairness | all seven properties hold |
| `application` | a plain file, a watched one or the queue; 1 refresh at a time, 2 tickets; 2 overlapping reloads, 2 versions of the file of which one references a segment, 2 saves or pulls, 1 death of a writer; 2 messages, foreign ones among them, 2 versions in the bucket, 1 failing request; fairness | all seven properties hold |
| `flags` | 2 published snapshots (one of each schemaVersion), 2 flags and one to be made, 2 Saves with up to 2 controls changed (a percentage out of range among them), 2 edits of the other side out of 14, floats off by up to a thousandth of a bucket | all eight properties hold |
| `dashboard` | an empty environment or one of 2 flags, 3 requests of the operator, 2 versions of rivals, 1 fault | all four properties hold |
| `dashboard_stale` | 2 requests, 1 version of a rival, no faults | `OnlyOwnChanges` is violated |

Why the bounds are enough. Every conflict between publishers is between two of them, a
third only repeats it; two live versions beyond a start with leftovers let a late write
meet a pointer that has moved twice. `MaxProbes = 2` reaches `VERSION_PROBE_LIMIT` with
two leftovers, and a grace of 2 separates "older than the pointer" from "past the grace
period". Clock skew and missing dates are exercised by `publisher_failure` and, for the
safety properties, covered by the proofs. For the source, two refreshes and a job are
the fewest that overlap in all ways: refresh with refresh, refresh with job, and two
against one. Three versions are needed to leave the segment and come back to it.
`MaxTickets` only bounds when a refresh may start; deliveries go on above it.

For segments, two uploads meet at each of the three requests, and one that died meets a
later one. For the file, two saves are needed for a change during a reload, and for a
return to an earlier text; two reloads for an overlap. Two messages make a batch and a
redelivery out of order. A load that read an old pointer, a push that loads the newer
version, the deletion of its message and the load that puts the old version back take
one refresh and two versions; refreshes that overlap each other are in `distribution`
and, for the queue, covered by the proofs. In `flags`, two controls per Save cover every pair of edits
that could disturb each other's positions, and two Saves the second form rendered from a
draft. In `dashboard`, three requests are the fewest for stage, stage again and publish,
or rejected, merged and rejected again; two rivals let one publish between the first
publish and its replay. The rivals change a default to a value the operator never types,
so that merges have a field to choose, or restore an older version; the operator creates
and deletes flags with the forms, and pastes a snapshot with a flag more, also into an
empty environment. The deadlock check is off because every model stops at its bounds: once
`MaxLive` versions were live, after `close()` with nothing in flight, or when the operator
and the rivals have used up theirs.

### What the properties say

- `PublishedSpec`: the abstract specification as a property. Each version that goes live
  says it replaced exactly the version that was live, numbers grow, a publish with
  `expectedCurrentVersion` replaces that version and no other, nothing invalid goes live.
- `PendingMovesFit`: no pointer write that may still land can make the pointer name a
  missing snapshot, or one that claims to replace another version.
- `RollbackRestores`, `ConflictMeansMoved`, `SnapshotsNeverChange`: what a rollback, an
  error and a stored object promise although other calls run in between.
- `SkipsNoLiveRival`: "older than the pointer" really is proof that the snapshot's owner
  has lost. Only the grace period may step over a live rival.
- `NeverBehindDelivery`: `active.version` is never below the last delivery (unless that
  was rejected), whatever refreshes were under way.
- `MembersKept`: the client's hold on members bridges the gaps an emptied segment map
  leaves in bundles.
- `ClosedStaysPut`: the job in flight at `close()` does not reach the client.
- `SourceCatchesUp`, `ClientCatchesUp`: section 4.
- `PendingPointerFits`, `PublishedSpec` (`segments`): as for snapshots, with
  `expectedCurrentVersion: null` meaning "none yet".
- `LateConflictIsOwn`: who reads "Someone else uploaded this segment meanwhile" after
  the pointer write is reading about their own upload.
- `WedgedForEver`, `StoredGoesLive`: an upload that died between its writes blocks its
  segment for good, and nothing but a fault can do that.
- `PageCatchesUp`: a segment page whose upload lost a race can simply upload again.
- `BoundIsServing`: the client of `@FeatureFlag` is the newest, in any order of starts,
  failed starts and shutdowns.
- `DeletedMeansGiven`: a message is deleted only when the client was given its version or
  a newer one. That the client serves it, or that the source holds it, does not hold: a
  slower `load()` may put an older version back (`distribution_older`).
- `QueueDrains`: no message stays for ever, also when receiving, handling or deleting it
  fails and it has to come again.
- `ClosedWindsDown`: after `close()` nothing starts; what is in flight ends.
- `PullIsAtomic`, `SettlesOnFile`: the file is never half a pull; the client ends up with
  what the file says.
- `SaveMeansWhatWasClicked`: the positions in a list of edits agree with the form. Each
  rule that was not ticked keeps all but its rollout, whose percentage, attribute and salt
  are those of its row, and stands where its place is without the ticked ones
  (`PlaceWithout`); a Save is refused only for text that is not
  JSON, a segment that cannot be attached, or a rollout out of range or of schema 1
  (`Refusable`).
- `BlankSaltsApart`, `RolloutExact`: rollouts are independent and exact to 0.01 %.
- `ReviewShowsAll`: flags that evaluate differently are listed in the review.
- `MergeKeepsBoth`, `MergedPublishable`, `ReplayAgreesWithMerge`: a merge keeps every
  one-sided change and asks exactly about the others; its result can be published; a
  replay is a merge in which nothing was left to choose.
- `NoLostUpdate`: what the operator publishes changes only what the operator changed,
  and only where nobody else did meanwhile.
- `DraftSurvives`: staged changes are in every form until they are published, discarded, or
  go with the page that carried them.
- `ReportsAreTrue`: a request publishes once at most; the page says "published" only of
  one that did, and one that knows it did is answered so or by an error page.

### Where the code and its documentation disagree

1. `publisher_failure`: a publish may fail with `CONFLICT` or `REQUEST_FAILED` after
   it moved the pointer, contrary to `s3-snapshot-publisher.ts:18`. S3 has no way to
   avoid the lost answer; the reader of the error should look at the pointer.
2. `distribution_stuck`: a refresh overtaken by a delivery sets `loaded` in the source
   and is dropped by the client. From then on polling finds nothing new, and the client
   stays on the older version until the next publish or refresh
   (`docs/spec/change-notification.md:20-21`).
3. `distribution_older`: because `load()` is outside the queue, a job can find an older
   version put back into `loaded` and deliver it after a newer one
   (`docs/spec/change-notification.md:92-93`, `s3-snapshot-source.ts:204`).

4. `dashboard_stale`: the first Save of a change set is staged on the live version, not on
   the page's, and re-sends every field of the form. On a stale page it so puts back
   what somebody else has changed, without a note or a conflict, contrary to
   `publish-snapshot.ts:64-65` and `docs/playbooks/local-qa.md:24-25`.

`SourceCatchesUp` speaks of the segment map, not of the payload built from it. With
overlapping loads, a check that captured `cached` before another flow overwrote the map
restores the map and reports no change, so `loaded.payload` keeps the older members.

## 4. Fairness

- Publisher: weak fairness of `Advance(w)`, for every promise of a running call settles;
  of the clock; and strong fairness of `TryPublish(w)`: someone who wants to publish
  tries again whenever a publisher is free. Nothing makes a late write land. The callers'
  patience is an assumption about people, and `NeverWedged` says what it earns them.
- Distribution: weak fairness of `Advance(f)`: requests are answered or fail. The source
  sets no timeout, so this rests on the AWS SDK and the network. Strong fairness of
  `Tick`: the timer is set again after each tick (`schedule`) and the queue is a promise
  chain, first in first out, so pushes cannot overtake a waiting tick for ever.
  Publishing, refreshing, pushing and faults are not fair; the number of faults is
  bounded, as "requests stop failing" has to be for anything to be caught up with.

- Segments: weak fairness of each running upload; nobody has to upload.
- Application: answers to reads, timers, the close of a failed start, an editor's second
  write, the consumer loop and the jobs are weakly fair; a push that waits gets its turn (the jobs are a promise
  chain); strong fairness of `Receive(i)`: SQS hands out a message that stays in the queue
  sometime, though not while the loop is busy. Pulls, publishes, refreshes, ticks and
  faults are not fair.
- The dashboard and the drafts have only safety properties: an operator may always leave.

`ClientCatchesUp` excludes histories in which a refresh was dropped for its ticket
(`overtaken`); `distribution_stuck` shows that it has to.

## 5. What is proved

Every theorem is `Spec => ...` for arbitrary constants under the assumptions named in
the modules, which TLC evaluates on the constants of its runs:

| Assumption | Says |
|---|---|
| `PublisherAssumption` | sizes are naturals, `NoBody` is not a body, some body is valid |
| `ClientAssumption`, `SourceAssumption`, `FileAssumption`, `QueueAssumption`, `ApplicationAssumption` | versions are positive, bounds are naturals, the job is not a load, there is a first load, version and message |
| `SegmentAssumption` | files are rows, scripts hand over sets of members, bounds are naturals, finitely many uploaders |
| `DriftAssumption` | the float `percentage * 100` is off by less than half a bucket |
| `DraftsAssumption`, `DashboardAssumption` | what is published at the start has been through `parseSnapshot`; edits have the fields of their kind; typed values are JSON |

The theorems about drafts and sessions have one hypothesis more, `Sentinels` (with
`None` in `DashboardSentinels`): `Undefined`, `Refused` and `None`, which stand for what
no JSON text says, are not objects, not words of the schema and not each other. TLC has
it from the model values. `BlankSaltsStayApart` also assumes `SaltsTyped`: nobody types the
address of another rule as a salt, into a form or into what is published at the start
(somebody who did would put two rules in lockstep by hand).

**Snapshot publisher** (`SnapshotPublisherProofs`): `Spec => []IInv`, and from it
`TypeCorrect`, `PendingMovesAlwaysFit`, `RollbackAlwaysRestores`,
`ConflictAlwaysMeansMoved`, `SnapshotsNeverEverChange`, `SkipsNeverALiveRival` and
`Refinement` (`Spec => PublishedSpec`).

The properties are not inductive: that a pointer write fits depends on what its
publisher knew when it stored the snapshot. `IInv` adds, for each call (`CallOK`) and
each write on the wire (`Sound`), that its base is not above the pointer, its version is
above its base, and, once its snapshot is written, that the snapshot says it replaces
the base (`Replaces`). Because the pointer only grows, a write whose base has been
passed can never be admitted again, which settles every late arrival. For
`SkipsNoLiveRival`, `Replaces` also keeps the ages: a stored snapshot whose base is
still live is no older than the pointer, so one that is older has lost.

**Source and client** (`SnapshotDistributionProofs`): `Spec => []DInv`, and from it
`DistributionTypeCorrect` and `NeverBehind`; and the action properties
`MembersAlwaysKept` and `ClosedAlwaysStaysPut`, which need little more than that the
active snapshot changes only when a flow hands a payload over (`ActiveStep`). `DInv` adds
to `NeverBehindDelivery` that nothing read is above the pointer, and that a load that has
begun and can still win by its ticket read a version no lower than the last delivery. A
delivery takes the newest ticket: if its version is accepted, every load in flight has
lost; if it is rejected, `NeverBehindDelivery` asks nothing. `Progress` states what a step
of one flow has to establish, `HandOverStep` that handing over a payload does, and each
action is a lemma on top of these.

**Segment publisher** (`SegmentPublisherProofs`): `SegmentInvariance`, and from it
`SegmentTypeCorrect`, `PendingPointerAlwaysFits`, `LateConflictIsAlwaysOwn`,
`PageAlwaysCatchesUp`, `WedgedStaysWedged` and `SegmentRefinement`. Without probing every
write is for the successor of the version its call read (`Sound`), versions are stored and
go live one by one (`LineOK`), and a call knows no version above the pointer and is told
of a conflict at its pointer write only when its own object went live (`CallOK`).
`FaultlessOK` says why that takes a fault: without one, at most one upload is between its
two writes. `BoundOK` counts the calls that started before the bound, so that the bound of
the model is no hypothesis of the theorems. `WedgedStaysWedged` is an action property: a
dead upload's object stays in the way whatever anybody does.

**Application** (`ApplicationProofs`): `ApplicationInvariance`, and from it
`ApplicationTypeCorrect`, `DecoratorAlwaysServed`, `NoAnnouncementLost`, `NothingStartsAfterClose` and `PullNeverTears`. The invariant has a
part for each actor: what a reload or load has read (`FileOK`), that nobody is ahead of the bucket
(`QueueOK`), that the client was given what the source holds and what was announced by
messages that were handled, and that a running job which has its answer brings no less
(`HandledOK`), and how the phases
of the Nest module, of the client and of the binding belong together (`LifeOK`).
`DeletedMeansGiven` needs `HandledOK`: a push may find its version held already, loaded by
a job or a load() before it, and a message is deleted some requests after its push. Once
given, a version stays so: where a load() takes the client back, `missed` keeps it
(`Misses`).

**Editing and merging** (`FlagEditProofs`, `SnapshotMergeProofs`, `FlagDraftsProofs`):
every draft that Saves and edits lead to is valid (`DraftsAlwaysValid`), and from that
alone, for any valid drafts, `RolloutAlwaysExact`, `ReviewAlwaysShowsAll`,
`MergeAlwaysKeepsBoth`, `MergeAlwaysPublishable` and `ReplayAlwaysAgrees`. A list of
edits is staged by a recursive function; what holds after every edit of it is shown by a
least counterexample (`Least`, `StepByStep`), since the library's induction theorems take
an operator as a parameter. The lemmas about `Merge` go flag by flag and field by field,
those about a replay compare the edited field on both sides (`SameFieldEdited`) and find
all others untouched (`OtherFieldsKept`).

`SaveAlwaysMeansWhatWasClicked` follows the list that a Save becomes, part by part: first
the flag's fields (`SaveSets`), then `RowsSoFar`, after each edit, says which rules there are
and which rows they show. Setting rollouts moves nothing. Detaching goes from the last
rule to the first, so the next one to go still stands where the page showed it
(`NextGoneInPlace`), and those behind it move up by one (`NextGone`); the attached
segment comes last (`SaveRules`). That a Save is refused only when `Refusable` takes the
converse, that each edit of the list is accepted (`RowAccepted`, `DetachAccepted`, ...).
`BlankSaltsStayApart` rests on a stronger invariant, that every salt which is the address
of a rule stands at that rule, in every draft, until the first detachment
(`SaltsInPlace`).

**Dashboard** (`DashboardSessionsProofs`): `DashboardInvariance`, and from it
`DashboardTypeCorrect`, `DashboardReportsTruly` and `StagedChangesSurvive`; and, with a
second invariant, `NothingOfOthersLost`. `IInv` says what a page and a request know: every
version and change set is valid, every draft has the shape of a snapshot (`VersionsOK`,
`PageOK`); what a request expects and reviews are
versions there are, and what it publishes shows its edit (`RequestOK`); what it has landed
without an answer shows the edit too, so that its replay is refused unless somebody undid
it, and it says "published" when it has an answer (`LandedOK`), until an error page takes
its place; a Save sends a form of the page (`FormSent`); and the flags that were
staged are in the change set (`WantsOK`). Each action is a lemma (`...Keeps`) on top of a
few that say what a submission, a publish and an answer do (`Submitted`, `Lands`,
`Answered`).

`NothingOfOthersLost` (`NoLostUpdate`) is about versions that may have been worked out
many steps and several publishes before they land. `OwnInv`, proved inductive together with
`IInv`, follows what is the operator's on each of the ways there:

- a change set that is not `mixed` differs from its base only in `staged.own`
  (`StagedIsOwn`). A Save keeps it because a form whose rows were not touched leaves the
  rules as they are (`SaveKeepsRules`), so that all it changes are controls that the
  operator changed (`SaveIsOwn`), as long as the page showed what the change set has;
- a draft differs from the version it is lined up with only in its `own` (`DraftsAreOwn`).
  A merge lines it up with another version, and what it then differs in was its own before,
  or is a flag whose own side was taken as a whole (`MergeKeepsOwn`, from `MergeSide`);
- an edit touches one flag (`EditChangesKey`), and is replayed only on a version that says
  of this flag what the form's version said (`ReplayFindsSame`);
- so a publish that is due, with the version it expects live, changes only what is the
  operator's and what nobody changed since (`PublishIsOwn`). What others publish keeps
  this, as that version is not the live one any more; and a version that lands was the
  one expected (`LandsOwn`).

Each action is again a lemma (`...Own`).

## 6. What is only model-checked

The liveness properties (`NeverWedged`, `SourceCatchesUp`, `ClientCatchesUp`,
`StoredGoesLive`, `SettlesOnFile`, `QueueDrains`), as liveness under fairness and `ENABLED`
are out of the prover's reach. All safety and action properties of the passing runs are
also proved.

## 7. Known behaviours the properties leave room for

Each of these was met as a counterexample to a stronger property, or explains an
exception in one. Paths are in `packages/dashboard/src/` unless they say otherwise.

Overwriting (`excuse` of a version in `DashboardSessions`):

- `mixed`: besides run `dashboard_stale`, a second Save on the same flag reverts what the
  first one staged, since the page shows the published version, not the change set, and
  re-sends every field. Merging a rejected draft once more, from the version of its first
  rejection, re-asserts what an earlier merge had taken over.
- `baseless`: the publish of a first version has no base version and overwrites another
  one silently (`application/publish-snapshot.ts:102`, `views/environment-page.ts:125`).
- `returned`: a pasted snapshot handed back because it was invalid or the bucket failed
  sits on a page with the newer base version, so publishing it again replaces what was
  published in between (`http-server.ts:537-545`).
- `forced`, `told`, `rollback`: the operator was warned, or asked for it.

Losing a change set (`DraftSurvives`): `http-server.ts:382` says "The draft is only cleared
by a publish that succeeded or by Discard". But the draft lives in the forms of the page.
When a read for the page that answers a form fails, also one right after a change was
staged or a publish failed, the error page (`http-server.ts:656-663`) has no form and the
change set is gone (`AnswerFails`). "Load latest" and "Keep my edits" navigate to the
environment without it (`views/scripts/app.js:310`), and the Restore form of the version
history has no pending inputs (`views/version-list-page.ts:28-31`). A change set above
256 KiB reads as none (`domain/pending-change-set.ts:45`; not modelled).

Reports (`ReportsAreTrue`): a publish that went live is answered by an error page when a
read for the page fails (`http-server.ts:428`, `:536`, `:554`, `:571`). An edit that landed
without an answer is reported as a conflict with "someone else", or as an existing flag.
When somebody undid it in between, its replay publishes it a second time. With a change
set, new-flag and delete forms use its base version, so deleting a flag made since is
refused as unknown, and a conflict may be with the operator's own later version.

Editing and merging: after a rule was detached, a blank salt can repeat that of another
rule, `<key>-rule-<index>` (`domain/flag-edit.ts:154`). One Save that adds a rollout and
attaches the first segment is refused on a version-1 snapshot, because the upgrade comes
last. A merged draft keeps its schemaVersion and may so be invalid
(`application/merge-draft.ts:82`). An edit of `enabled` is replayed on a flag that was
deleted and made again with another type.

Evaluation: a rule that denies a segment and stands before one that grants widens the
flag while the segment is missing; `docs/spec/evaluation-semantics.md:127` says that a
segment problem never does.

Notifications (`missed` in `DeletedMeansGiven`): a message may be deleted although the
client dropped its version for a ticket, or although a load() that read the pointer before
it puts the older version back, into `loaded` and, with a newer ticket, into the client
(`s3-snapshot-source.ts:187`); the next poll then brings the newer one, unless it was
dropped for its ticket (`distribution_stuck`).

Sources: overlapping reloads of the file may deliver the older text last
(`packages/core/src/infrastructure/file-snapshot-source.ts:120`); a text equal to the one
the watcher delivered last is ignored, also when a refresh brought another one since
(`:110`); segment files are not watched; a reload in flight delivers after unsubscribe
(`:113`). A segment wedged by a dead upload stays so until its object is removed by hand.

## 8. Plan

Modelled and proved in this order: publishers and their abstract history, readers,
segments, the application around a client, the editing algorithms, the dashboard's
sessions. Nothing of the plan remains; parts that could be modelled next are those that
section 9 names.

No module declares a RECURSIVE operator, so that every module can be proved about.
Recursion is a fold, a library operator or, for a staged list of edits, a recursive
function, about which an induction is written out in `FlagEditProofs`.

## 9. Not modelled

The deployment stack (CloudFormation); rendering, styles, filters and URL state
of the dashboard, the browser's Back button, edits carried in `sessionStorage`, its pages without scripts; argument
parsing, `validate` and exit codes of the CLI; logging; names, dates, authors and reasons
in snapshots; `murmur3_32` (a bucket is any number below 10000); gaps in the version
numbers a dashboard sees (they are in `SnapshotPublisher`); environment names; the
readers for tools as components, whose single stateless reads are steps of
`SegmentPublisher`, `FileSource` and `DashboardSessions`.
