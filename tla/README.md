# Specifications of the video manager's backend

TLA+ models of the Python backend (`src/src/`), the TLC configurations that
check them on small instances, and TLAPS proofs about them.  The backend is one
asyncio process (FastAPI, Strawberry GraphQL) over MongoDB, an optional Redis
cache, and storage that is either a local disk or an S3 bucket.  What makes it
hard is not parallel threads but everything that can happen at an `await`:
another request, another worker, a failing call, a client that leaves, or the
end of the process.

Contents: [inventory](#1-inventory), [plan](#2-plan),
[modules](#3-modules-and-how-they-map-to-the-code), [runs](#4-runs),
[fairness](#5-fairness), [proofs](#6-proofs),
[disagreements](#7-where-the-code-and-its-documentation-disagree),
[limits](#8-what-is-only-model-checked-and-what-is-not-modelled).

## 1. Inventory

| component (source under `src/src/`) | state it keeps | operations | talks to | hard behaviour | correct when |
|---|---|---|---|---|---|
| task lifecycle, state machine (`platform/jobs/task_model.py`, `state_machine.py`) | task documents (status, failed step), `_cancel_requested` | `run_task`, `request_cancel`, `plan_recovery`, `build_snapshot` | a feature's three phases, the runner | whole-document saves between awaits, exceptions at every save, recovery after a crash | every task settles; a run resumes where it broke; what is settled stays settled |
| task runner, scheduling (`platform/jobs/task_runner.py`) | job queue, ids waiting, ids running, workers | `submit`, `recover`, `start`, `shutdown`, `_worker` | executors | the same task submitted by create, retry and recovery | a task is queued or run at most once |
| task runner, observation (same file) | latest frame per task, one bounded channel per watcher | `observe`, `_broadcast`, `_end_observer_streams` | GraphQL subscriptions | channels that are full, tasks that settle while a watcher attaches | the last frame arrives, nobody waits for ever |
| migration (`features/migration/`, `resolvers/migration_resolver.py`) | documents with two partial unique indexes; it writes files and video records | `preflight`, `create_task`, `cancel_task`, `prepare_retry`, three phases | storage, catalogue, runner, locks | overwriting, conflicts, half-done copies, a record repointed in several calls | no video's bytes are lost; an unlocked record plays |
| path locks (`platform/jobs/path_locks.py`) | none of its own: the providers' unfinished tasks | `locked_paths`, `is_file_locked` | catalogue, browsing, batch | checked once, used after further awaits | nobody else writes a path a task holds |
| catalogue (`features/catalog/catalog_service.py`, `video.py`) | video records | `record_view`, `update_metadata`, `delete_video`, backfill of durations | series, tags, locks, storage | a whole document saved over a path repointed meanwhile | a record is never put back to an old path |
| series (`features/catalog/series_service.py`) | membership on both the series and the video | assign, clear, detach | catalogue | several writes without a transaction | both sides agree |
| tags (`features/catalog/tag_operation_service.py`) | a reference count per tag | attach, detach | catalogue | counts moved beside the lists they count | the count is the number of videos with the tag |
| directory browsing (`features/browsing/browse_file_service.py`) | records created and removed to match a listing | `browse` | storage, catalogue, locks, metadata | a listing older than the records it is compared with | no record of a moving file is dropped or doubled |
| batch operations, directory deletion (`features/browsing/batch_operation_service.py`, `directory_deletion.py`) | none; a report per item | delete and update many videos, delete a directory | catalogue, storage, locks | one of several fails | the report is what happened |
| directory metadata (`features/browsing/dir_metadata_service.py`) | aggregates in the database and the cache | get, single and bulk writes, forward updates up to the root, flags, forget | cache, database | a reader that writes back what was just invalidated | a stale aggregate does not outlive a recursive count |
| cache (`platform/cache/`) | entries with a time to live | get, set, delete | metadata, browsing | expiry, an unreachable Redis | a miss is only ever slow |
| storage handlers (`platform/storage/`) | files and objects | streamed write, delete, list, path resolution | migration, browsing, playback | partial files, multipart uploads | a failed write is reported |
| media processing (`platform/media/ffmpeg_service.py`) | one semaphore, running processes | transcode, probe, thumbnail | playback | a client that leaves in mid-stream | every permit is given back |
| playback (`features/playback/`) | thumbnail keys | range requests, thumbnails | storage, media | range boundaries | the bytes asked for are the bytes sent |
| application, context (`app.py`, `context.py`) | singletons | lifespan | all | boot and stop order | recovery is over before the first request |
| GraphQL schema, configuration, logging, database set-up | none that changes | mapping and validation | services | none | not modelled |
| web front end (`front-end/`) | browser state | display | the API | another program | not modelled |

How a migration goes through them: a resolver calls `create_task`, which chooses
a target and inserts a PENDING document, then `runner.submit`.  A worker takes
the job, loads the document and runs PROCESSING (copy), UPDATING_DB (point the
record at the target) and DELETING_SOURCE, saving the status around each.
Every frame the run yields is broadcast to the watchers' channels.  All other
features learn from `locked_paths` which paths unfinished tasks hold.  At boot
`plan_recovery` puts every unfinished task back to PENDING, removing a half
copy, and hands the runner a plan that says at which phase each resumes.

The code's hazards, each at its line, are listed in `PROJECT.json`.

## 2. Plan

Done, in this order: `TaskLifecycle`, `JobQueue`, `Placement`, `Migration`,
`Observers`; then `SeriesOrder` and `Catalogue` (records, series, tags, batches,
listings), `DirMetadata` with its cache, `Transfer` and `Media`; then the proofs
about all of them, the last that `Migration` implements `Placement`, those of
`DirMetadata` and those of the series and the tag counters of `Catalogue`.

Next, by importance:

1. Failing database and cache calls in `Catalogue` and `DirMetadata`, where each
   leaves what the calls before it have written.
2. The order of the later frames of a stream: a snapshot read from the database
   may be newer than the frames already in the channel.

Modules keep to what the proofs need: constants with named assumptions, one
action per operation, invariants that are conjunctions of named parts, no
RECURSIVE operator.

## 3. Modules and how they map to the code

| module | models | extends |
|---|---|---|
| `TaskLifecycle` | statuses, phase order, resume table, `failed_step` | |
| `JobQueue` | the runner's queue, id sets and worker pool; `JobSpec` is its abstract specification: any jobs, any time | `TaskLifecycle` |
| `Migration` | requests, documents, files, records, workers, recovery | `JobQueue` |
| `Placement` | the abstract specification: a video's record always points at its whole bytes; copies are added, pointed at, dropped | |
| `Observers` | frames, channels, watchers, shutdown | `JobQueue` |
| `SeriesOrder` | `_place`: what becomes of a list when a selection is put into it | |
| `Catalogue` | video records, series, tag counters and files under the requests that edit, delete and list them, beside one migration | `SeriesOrder` |
| `DirMetadata` | aggregates and flags of directories in the database and the cache, the listing's rows, what is done to a directory | |
| `Transfer` | range responses and multipart copies of one file, piece by piece | |
| `Media` | the ffmpeg semaphore, the processes, the thumbnail of a video | `Transfer` |
| `MCMigration`, `MCObservers`, `MCCatalogue`, `MCDirMetadata`, `MCMedia` | the instances TLC checks | |
| `JobQueue_proofs`, `Migration_proofs`, `MigrationPlacement_proofs`, `Observers_proofs`, `Catalogue_proofs` (with `SeriesOrder`), `CatalogueCounts_proofs`, `DirMetadata_proofs`, `Media_proofs` (with `Transfer`) | the proofs | the module they are about |

`Migration` and `Observers` share `JobQueue` and are separate otherwise: what
watchers see never steers a task.  `Catalogue` does not repeat `Migration`: its
migration is what other requests can see of one, five phases and two locked
paths.  `DirMetadata` begins where a deletion or a move has changed the storage.

**Granularity.**  A step is what a coroutine does between two awaits.  A
database read and the code after its reply are one step, because that code acts
on the reply before anybody else runs.  Where the action on it is another call
(`create_task`'s check and insert, `cancel_task`'s read and save,
`prepare_retry`'s read, cleanup and save) each call is a step.  A write takes
effect in a step of its own and the code after its reply is the next: others
may see what was saved before the writer goes on, which is how a retry comes to
be dropped as a duplicate (section 7).  In `Catalogue` and `DirMetadata` a step
is one database or cache call with the code that runs until the next one: `pc`
names the call that is about to be made, and what a request has read stays in
its own copies, however old they get.

**State of `Migration`.**  `doc` holds the fields of `MigrationTaskModel` that
steer the code (status, failed step, source, target, overwrite).  `save()`
replaces the whole document, hence `Persist`.  `file` maps a path to the video
whose bytes it holds, to `Partial`, or to `None`; `rec` maps a video to the path
in its record.  `wk[w].pc` names the call the run of worker `w` waits for,
`wk[w].status` the status its own copy of the task has in memory.
`client[c].op` does the same for a GraphQL request.  `booting`, `orphans` and
`plan` are the local state of `plan_recovery` and `recover`.  `flags` is
`_cancel_requested`.

**Actions.**  Each method of `migration_service.py` and of the template is the
actions its awaits cut it into: `create_task` is `CreateTask` and `InsertTask`,
`_execute_processing` is `SaveProcessing`, `CopyOpen`, `CopyRead`, `CopyWrite`,
`CopyCancelled`, `CopyFails`, `FlushProgress`, `FlushRaises` and
`SaveProcessDone`, and so on; the `map` in `PROJECT.json` gives the lines of
each.  A copy is a truncating open (nothing shows in a bucket), the last chunk
delivered by the reader, and the writer's return: cancels and failures can hit
each of the three.  Bytes read while somebody else rewrote the source become
`Partial`.

**The environment.**  `Events` says what may happen from outside: `cancel`,
`retry`, `hangup` (a subscription's client leaves while its retry is being
prepared), `io fault` (a storage call fails, including the best-effort
cleanups), `db fault` (a database call raises, at every call of the model).
Restarts are counted by `restarts`.

**`Catalogue`.**  `doc[i]` is a record (path, tags, back-reference), `alive` and
`list` the collection of series, `count` the tag counters, `files` the storage,
`move` the migration under way.  `req[r].seen` are the records a request has
read; `back`, `order`, `target`, `members`, `placed`, `ids` and `affected` are
what `SeriesService` holds between its calls (what an edit may ask it is `Input`: an
order has the video that is edited, or the request is refused before it begins); `delta` is what
`track_tag_change` has collected; `found` and `held` are a walk's files and those of
them that were locked.  `save()` writes every field of the copy and makes the
record again if it is gone.  A single edit, a batch update and a batch delete
share the series and tag calls, as they share the services in the code.
`contended` is a history variable: two actors worked on one video, or on
series, at once.  The properties that need it say so, and section 7 says what
happens without.

**`SeriesOrder`.**  `Place` is `_place`: the selection takes the places its members
have in the list, and new places at its end for those that join.  It is written
with rank and place operators over positions rather than with `SelectSeq`, which
is recursive, so that it can be proved about.

**`DirMetadata`.**  `own` is the storage, `meta` the documents, `cache` the cache.
The tree is given by `Up`, the way from each directory up to its configured root,
as the code walks it with `dirname`.  What is under a directory is
the set of the ways that lead through it, and its videos are counted as a set of
numbered videos, so that neither needs a recursion.
A forward update is a route of directories, the deepest first, each of which
asks for its sub-directories through the cache; `routes`, `left`, `total` and
`values` are the locals of that loop.
A listing is one of three requests, by the two flags the clients send with it.
`list` (the default) takes a row from the cache or its record, and counts what has
neither.  `refresh` is what the user interface sends when a user refreshes
(`file-browser.ts:238`, `:251`): `skipCache` without `recursiveCalculation`, which
counts the files of each row and asks the cache and the records for its
sub-directories, as a forward update does.  `recount`, both flags set, counts
everything under the rows on the storage; `measure` (`directoryMetadata`) does the
same for one directory.  No client sends neither flag, and that request is not
modelled.  A recursive count awaits nothing but itself and is one step.  The count
that is not recursive awaits `get_metadata` in the middle of a directory it reads
entry by entry; the model reads the entries in one step, before it asks, so that a
change of the storage between two entries of one directory is left out, which only
requests that overlap can tell.  On a bucket a prefix without a marker goes with its
last object (`s3_handler.py:137-168`); here an emptied directory stays (`Clear`,
`Unlink`, `Total`), as on a disk, and so a kept folder is always met by the next
scan, which in a bucket it need not be (section 7).  An entry of the cache may vanish at any read (`GetCached`), which is its time to
live.  Histories: `decided` (what a user last said about a directory),
`disputed` (two did at once), `overlap` (two requests at once), `neglected`
(videos went from directories nobody counts again).

**`Media` and `Transfer`.**  `free` and `queue` are asyncio's semaphore; `job[r].pc`
is where the coroutine of a thumbnail, a duration or a transcoded stream waits,
`job[r].proc` whether its process runs, is stuck on a full error pipe, or has
exited.  `Leave` cancels the coroutine where it waits.  `thumb` has the key in
the video's record and the object in the store; a stored picture that cannot be
read is made again, like one that is not there.  `xfer[r]` holds the locals of
the generator behind a range response or a copy into a bucket, while the file may
be replaced or removed between reads.  A request is one transfer or one job.

**Left out of these modules**: timestamps, byte counts, percentages and
messages; `preflight`, `list_tasks`, searches and suggestions, which only read.

Operators whose comment begins with "Bug:" are deliberate defects.  Nothing in
the specifications uses them; each stands for a plausible mistake in the
definition that follows it, and replacing that definition by it makes TLC find
the property named in `PROJECT.json` violated.

## 4. Runs

Every configuration sets `CHECK_DEADLOCK FALSE`: once all tasks have settled
and the bounds are used up, or the runner has been shut down, the system is
rightly quiet; the requests of `Catalogue`, `DirMetadata` and `Media` are finite
in number.  That nothing stops *before* that is `EveryTaskSettles`,
`NobodyStranded`, `StreamsEnd`, `NeverLeftWaiting`, `WaitersServed` and
`CopyEnds`.

| run | instance | shows |
|---|---|---|
| `move` | two videos to two free paths, one in a bucket; two workers, cancels, retries, failing storage, one restart | `NeverRecopied`, `CompletedMeansMoved`; `KeepsPlacement`: the system implements `Placement` |
| `settles` | two videos to two free paths, one worker, cancels, failing storage, one restart | `NobodyStranded`; under `FairSpec`, `EveryTaskSettles` |
| `replace` | one video over another in a bucket, and the same video to a free path; two workers, cancels, failing storage, one restart | `BytesKept`, `RecordPlayable` |
| `faults` | two videos for one free name (`rename`), two workers, retries, hang-ups, database faults, one restart | `TypeOK`, `ExclusiveRun`, `WorksUnderLock`, `SettledIsFinal`; `JobSpec`: the system uses its scheduler as it allows |
| `watch_lagging` | two watchers, channels of two entries, four steps, crashes of the run, shutdown | `ObserversTypeOK`, `LastFrameDelivered`, `LostOnlyWhenFull` |
| `watch_end` | one watcher, a channel of six, four steps, retries, shutdown | `NeverLeftWaiting`; under `ObserversFairSpec`, `StreamsEnd` |
| `catalogue` | two requests out of 13 kinds on two videos, beside a migration of one of them; four paths, one tag, three series two of which share a name, four states of the series to start from | `CatalogueTypeOK`, `ListsVideosOnce`, `EmptySeriesIsSwept`, `OrderAsAsked`, `MembershipAgrees`, `CountsAgree`, `RowsHaveFiles`, `MoveIsNotBlocked` |
| `dirmeta` | a root with two directories, one with a third inside, one with a stray file; two requests out of 14 kinds, side by side or one after the other | `DirMetadataTypeOK`, `ListingHonours`, `AggregatesExact`, `CacheAgrees`, `RecountRepairs`, `RefreshRepairs` |
| `media` | two requests and one permit; a file of 0, 1, 5 or 6 bytes read two at a time, parts of three, one change of the file | `MediaTypeOK`, `PermitsKept`, `ProcessesBounded`, `RangeDelivered`, `PartsMakeFile`; under `FairMediaSpec`, `WaitersServed`, `CopyEnds` |
| `second_restart` | as `settles`, no faults, two restarts | `NeverRecopied` is violated |
| `overwrite_moving` | one video over another that is moving away | `LockedIsRefused` is violated |
| `lost_end` | one watcher, a channel of two | `NeverLeftWaiting` is violated |

**Bounds.**  Two tasks are what every clash in this code takes: the unique
indexes, the locks and the conflict strategies each relate one task to another.
Two videos and four paths give each task a source of its own, a shared or a
separate target, and a free variant for `rename`.  `max_concurrent` is 2 by
default, and so are the workers of `move`, `replace` and `faults`; `settles` has
one because its two tasks share no path, and liveness multiplies the states
(with two workers the same properties hold too, in some three minutes).  One
request at a time (`Clients`) is enough for a request to race with both workers
and with a restart; what two concurrent requests add is in section 7.
`MaxRestarts = 1` lets a restart hit every step; a second one breaks
`NeverRecopied`, which is the run `second_restart`.  `MaxSteps = 4` of a task
with `Cap = 2` overflows a channel twice over, and with `Cap = 6` never fills
it: four frames and the end marker fit.  The real channel has 64 entries and a
run of several hours yields many more frames than that.

`catalogue` has 372,127 distinct states, `dirmeta` 1,327,503 and `media` 387,314, each
checked in one to three minutes.  Two requests are what a race takes, and every pair of
kinds meets; two videos let a request have one to itself, share one, or select
both.  `n1` and `n2` are the `_id`s a listing or a batch update gives to files
without a record, of which `d` is one and the target `c` of the migration,
half-written, another.  Two series of one name are a series that
dies and is made again.  Four directories make a route of three with a branch.
`MaxAsks = 2` requests make four directories wrong in every way a single change can;
`RecountRepairs` and `RefreshRepairs` start from any of them.  Two bytes a read and
parts of three give a file of five bytes three reads and two parts, put a part's end
inside a read, and cut a file of six into two full parts, with nothing left for the
upload's end.  `catalogue` and `dirmeta` use symmetry in the requests, which differ in
nothing but their name, and check safety only.

**Why the properties are restricted as they are.**  `SettledIsFinal` is checked
without cancels, `NobodyStranded`, `EveryTaskSettles` and `RecordPlayable`
without retries and database faults, `NeverRecopied` and `KeepsPlacement`
without overwriting and database faults, `BytesKept` without database faults,
`LastFrameDelivered` within one run of a task.  Outside these
limits the code does not keep them; section 7 says how.  `BytesKept` and
`RecordPlayable` speak of the videos no request asked to overwrite.
`MembershipAgrees`, `CountsAgree`, `RowsHaveFiles` and `MoveIsNotBlocked` hold
unless two actors worked on one video, or on series, at once; requests on
different videos, and requests that come upon a migration under way and respect its
locks, are all inside.  A migration that begins in the middle of a request on its
video (between a listing's walk, lookup of the locks and write, or between the check
and the write of an edit) counts as contended, and so does a request on a whole
directory, which asks for no locks.  `AggregatesExact` and `CacheAgrees` hold of
requests that did not overlap, `RecountRepairs` and `RefreshRepairs` of a count
nobody disturbed, after whatever did overlap before; `ListingHonours` holds throughout, but for a directory two users
decided about at once.  `PermitsKept` counts the permits that clients lost by
leaving at the three places named; `WaitersServed` ends where one is lost or a
process is stuck that is fed through its input; `CopyEnds` speaks of a source
that does not change.  `ListsVideosOnce`, `EmptySeriesIsSwept`, `OrderAsAsked`,
`LostOnlyWhenFull`, `ProcessesBounded` and the order of `RangeDelivered` have no condition.

## 5. Fairness

`FairSpec` has weak fairness on the next step of each worker, on the steps a
begun request still has to take, and on the boot sequence.  The code's
justification: the event loop runs every coroutine that is ready, `get()` on a
queue that is not empty returns, and every database or storage call is awaited
to its reply or its exception, which the drivers' timeouts guarantee.  Nothing
is assumed of users (who need not create, cancel or retry), of failures, of
restarts, or of the periodic progress save.  Workers need no strong fairness:
none of their steps is disabled by another actor once it is ready, save for
taking a job, where another worker took it.

`ObserversFairSpec` has weak fairness on taking and ending a job and on each
step of a watcher: a client that stays reads on.  That a job ends is the other
run's `EveryTaskSettles`; here it is an assumption.  A client need not leave.

`MediaFairness` has weak fairness on every step a coroutine can take without its
client, on the end of a process (a killed one ends, and so does one that has work
and whose pipes are read), and on the steps of a copy.  Of a client it
assumes that a stream which waits for it is read on or left some time, and that
it leaves some time when nothing comes from a stuck process.  Without the
first, a paused player would hold its permit for ever, which the code allows.

## 6. Proofs

All proofs hold for every value of the constants that meets the named
assumptions: `NoneAssumption` (`None` is no task), `MigrationAssumption` (the
videos lie at different paths, requests and events are well formed, `Partial`
and `None` are no videos), `ObserversAssumption` (a channel has room for one
entry), `CatalogueAssumption` (finitely many ids, paths, series and tags, of which
`None` is none, nor a number; well-formed inputs, lists that are in order at the
start), `DirMetadataAssumption`
(finitely many directories, each with a way up that agrees with its parent's, and
a start in which no directory lacks its parent), `TransferAssumption` (reads and
parts are not empty) and `MediaAssumption` (at least one permit, finitely many
requests).  Tasks, workers, clients, watchers, videos, requests and restarts are
unbounded, unless a theorem names a further assumption:

- `MovesApart`, of the five theorems of `MigrationPlacement_proofs`: each video is
  asked to move at most once, to a path that was no video's and is no other
  task's, nobody overwrites, no write of the database fails, retries come one at a
  time, and the process restarts at most once.  The instance of `move` meets it,
  that of `replace` does not.  None of its parts can be dropped: for each,
  section 7 has the behaviour that loses a video without it.
- `OneRetry`, of `SettledStays`: retries come one at a time.
- `NothingIsReplaced`, of `RecordsHaveFiles`, `MembershipsAgree` and `CountersAgree`:
  no migration is asked to overwrite.  It is needed: a failed overwriting copy removes
  the file of the video it was to replace and leaves its record (section 7), and a batch
  delete that misses that file ends before it comes to the series and the counters; nor
  does a migration that replaces a record count its tags down.  `SparedRecordsHaveFiles` says
  without the assumption that no other record is without its file.

| theorem | module | says |
|---|---|---|
| `JobQueueCorrect` | `JobQueue_proofs` | `JobSpec` keeps `JobTypeOK` and `ExclusiveRun` |
| `TypesKept` | `Migration_proofs` | `Spec => []TypeOK` |
| `DrivesScheduler` | `Migration_proofs` | `Spec => JobSpec`: `Migration` implements the abstract scheduler |
| `NoTaskRunsTwice` | `Migration_proofs` | `Spec => []ExclusiveRun`, from the two theorems above |
| `LocksHeld` | `Migration_proofs` | without cancels, `Spec => []WorksUnderLock` |
| `SettledStays` | `Migration_proofs` | without cancels, with retries one at a time, `SettledIsFinal` |
| `NobodyIsStranded` | `Migration_proofs` | without retries and failing database calls, `NobodyStranded`, for any number of restarts |
| `ImplementsPlacement` | `MigrationPlacement_proofs` | under `MovesApart`, `Spec => KeepsPlacement`: `Migration` implements `Placement` |
| `BytesAreKept`, `RecordsArePlayable`, `NothingRecopied`, `CompletedIsMoved` | `MigrationPlacement_proofs` | under `MovesApart`, `BytesKept`, `RecordPlayable`, `NeverRecopied` and `CompletedMeansMoved` |
| `WatchedRunnerSchedules` | `Observers_proofs` | `ObserversSpec => JobSpec` |
| `WatcherTypes` | `Observers_proofs` | `ObserversSpec => []ObserversTypeOK` |
| `LeftWaitingOnlyWhenFull` | `Observers_proofs` | for any channel size, number of frames and retries, `LostOnlyWhenFull` |
| `LastFrameArrives` | `Observers_proofs` | without retries, for any channel size, `LastFrameDelivered` |
| `CatalogueTypes` | `Catalogue_proofs` | `CatalogueSpec => []CatalogueTypeOK` |
| `SeriesListVideosOnce` | `Catalogue_proofs` | `CatalogueSpec => []ListsVideosOnce` |
| `OrderIsAsAsked` | `Catalogue_proofs` | `CatalogueSpec => []OrderAsAsked` |
| `EmptySeriesGo` | `Catalogue_proofs` | `CatalogueSpec => []EmptySeriesIsSwept` |
| `MovesAreNotBlocked` | `Catalogue_proofs` | `CatalogueSpec => []MoveIsNotBlocked` |
| `SparedRecordsHaveFiles` | `Catalogue_proofs` | uncontended, every record but one a migration may overwrite has its file, while requests are at work as well |
| `RecordsHaveFiles` | `Catalogue_proofs` | under `NothingIsReplaced`, `CatalogueSpec => []RowsHaveFiles` |
| `MembershipsAgree` | `Catalogue_proofs` | under `NothingIsReplaced`, `CatalogueSpec => []MembershipAgrees` |
| `CountersAgree` | `CatalogueCounts_proofs` | under `NothingIsReplaced`, `CatalogueSpec => []CountsAgree` |
| `MediaTypes` | `Media_proofs` | `MediaSpec => []MediaTypeOK` |
| `PermitsAreKept` | `Media_proofs` | `MediaSpec => []PermitsKept` |
| `ProcessesAreBounded` | `Media_proofs` | `MediaSpec => []ProcessesBounded` |
| `DirectoriesStand` | `DirMetadata_proofs` | `DirMetadataSpec => []DirMetadataTypeOK` |
| `ListingsHonour` | `DirMetadata_proofs` | `DirMetadataSpec => []ListingHonours` |
| `CachesAgree` | `DirMetadata_proofs` | `DirMetadataSpec => []CacheAgrees` |
| `RecountsRepair` | `DirMetadata_proofs` | `DirMetadataSpec => []RecountRepairs` |
| `RefreshesRepair` | `DirMetadata_proofs` | `DirMetadataSpec => []RefreshRepairs` |
| `AggregatesAreExact` | `DirMetadata_proofs` | `DirMetadataSpec => []AggregatesExact` |
| `RangesAreDelivered` | `Media_proofs` | `MediaSpec => []RangeDelivered` |
| `PartsAreTheFile` | `Media_proofs` | `MediaSpec => []PartsMakeFile` |

*JobQueue.*  `ExclusiveRun` with the types is inductive as it stands.  The one
delicate step is the recovery's: a whole plan enters the queue, which keeps the
invariant because the runner is empty and the plan names each task once.

*Migration.*  That the plan is so is not the scheduler's doing; it is what
`DrivesScheduler` has to show.  `IInv` adds to the scheduler's invariant: a
document that exists has its paths, and a FAILED one its failed step (`DocInv`);
a worker is idle exactly when it has no job, its task has a document, and a run
past its load has a status (`RunInv`); a request under way works on a task, on a
document unless it is about to insert it (`CallInv`); and while the application
boots there is no job, no run and no request, what recovery has yet to handle is
unfinished, and what it has planned is planned once (`BootInv`).  Without
`BootInv` the plan might repeat a task; without `RunInv` a worker might finish
without a job, and the lookup in the resume table might leave its domain.  The
step proof has a lemma for each kind of step (a save, a run's next call, a
request's next call, boot) and cites it once per action.

*Locks.*  `WorksUnderLock` is proved with `NobodySettles`: no request is about to
settle a cancelled task.  Two steps are delicate.  A worker that saves a settled
status unlocks only its own task, which no other worker runs (`ExclusiveRun`,
from `IInv`); and a task put back by a retry or found by recovery is locked by
that, never unlocked.  The assumption that nobody cancels is needed:
`SettleCancel` saves CANCELLED under a running task (section 7), which takes its
locks away.

*Settled tasks.*  Of the steps that save a document, `SettledStays` has to show that
each finds an unfinished one or a FAILED one.  A run saves under its lock
(`WorksUnderLock`), an insert finds no document of its task (`InsertInv`), and a
retry that is about to reset still finds the task FAILED (`FinalInv`), since only
one retry is under way and no run of the task is.
`NobodyIsStranded` rests on `CareInv`, which says of every unfinished task who will
see to it: the queue or a run that has not ended (`InHand`), the request that
inserted it and has yet to submit it, recovery (`orphans`, `plan`), or the next boot.
The delicate step is the end of a run, which takes its task out of the scheduler's
hand: the run's last save must have settled it.

*Placement.*  What makes it hard is that a task's phase is known in many places at
once (its document, its queued job, the plan, the run, the copy a request holds),
while its files and its record change under all of them.  `TaskInv` gives each
place what it may rely on: `Ready` for a job by its first phase and for a document
by the phase recovery would resume at (before the only restart), `Knows` for a run
by its `pc`, `CallAt` for a request.  Each is one of three milestones: the record
is at home (`AtHome`), the target holds the whole bytes (`Copied`), the record is at
the target (`Arrived`).  `StoreInv` ties them to the storage: every record points
at its own bytes, and a target holds nothing, a part, or its own video.  The first
lemmas show that a step on one task leaves the milestones of every other alone, which is
where `MovesApart` is used; then each step moves its own task from one milestone to
the next.  A FAILED task is at home because only a copy can fail where database
calls do not.  For the refinement each step of `Migration` is mapped: a finished copy
adds one, the repointing points, cleanups and the last phase drop a copy nobody
points at, and everything else stutters.

`IInv` was checked by TLC on the instances of `move`, `replace` and `faults`
before it was proved.

*Observers.*  `ObsInv` adds to the types that no frame or end marker is newer than
what is saved, that a task the runner cares for has been saved since its last
run ended, and that who does not watch has an empty channel.  Two invariants
rest on it.  `EndInv`: after shutdown() a watcher that has registered and does not
follow yet has its end marker, or had no room for it.  This is what the check in
`observe` needs, which may find a task that is only queued, and that no worker will
take any more.  The rest of `LostOnlyWhenFull` is a matter of single steps: a frame
may push an end marker out, but only of a task that runs, and whatever takes a
task out of the runner's care ends its streams in the same step; the two find a
channel full or leave a marker in it.  Nothing is assumed of the size of a channel or
the number of frames.  `LastInv`: a
channel holds frames in rising order and then end markers, which come only when
the task is over; dropping the oldest leaves the newest, so whoever takes an end
marker has the last frame.  Retries are excluded: a lagging watcher may then be
ended by the marker of the run before.

*Catalogue.*  What makes `ListsVideosOnce` hard is that an assign writes a list it
computed from members that may have changed since.  The first part of the module shows
that `Place` is right for *any* members free of repeats: the places divide into
as many slots as there are selected videos and as many free places as there are
others (`PlacesDivide`), ranks are injective and reach every number up to the size (`RankInjective`,
`NthThere`), so every member and every selected video is listed exactly once
(`PlaceLists`).  Ranks follow the order of the places (`RankOrders`): of two slots the
earlier has the earlier of the selection, of two other places the earlier has the
member that stood first, and a place of the old list is a slot exactly if a selected
video held it (`PlaceInLine`).  `OrderIsAsAsked` needs of a request about to store no
more than that its list is `Place` of the two it holds (`Planned`).  `CatalogueInv`
says that every list, and every request's stale
copy about to be stored, is free of repeats and not empty; that an empty series
has its witness, a request at the sweep that will delete it; and that an unused
`_id` has no record and is in nobody's copies.  The witness
is the delicate part of `EmptySeriesGo`: no other request's step may move it on,
and every pull that empties a list leaves one.

`RowsHaveFiles` and `MoveIsNotBlocked` speak of a quiet catalogue and of a migration;
what makes them true is what the requests in the middle know, which `RowsInv` says.
`OnePath`: no path has two records, contended or not.  `Knows`: at each of its calls
a request is at a call of its operation, the record it will save is where its copy
says, what it will delete was found unlocked and still is, the files it found are
still there, what a listing believes locked is locked, and the paths whose records
it has deleted and whose files it has not (`Doomed`) have their file, no record, and
are no end of a migration.  `KeepApart`: no path is doomed by two requests.
`Ground`: every record has its file, and the ends of a migration are as its phase
says.  All of it but `OnePath` is conditional on the history being uncontended, and
the history is what makes it inductive: a request, or a migration, that begins at a
video somebody is at work on ends the case.  A path a migration may overwrite is
left out of all of it (`Spared`).  Most calls only go on to another one with the
same copies (`GoesAhead`), and are dealt with at once; those that write are the
bulk writes, the deletes and the migration's five steps.

`MembershipAgrees` relates the two halves of a membership, the list of a series and the
back-reference of a record, which no request writes in one step.  `SeriesInv` says,
of an uncontended history: a record that is gone refers to no series; the two halves
agree unless some active request is between them (`Owing`: from its `_pull` to its
back-references, and for a delete from its first record on); and of each active
request what it recalls (`Recalls`).  One between the halves has its remainder on
record (`Owed`): every series but its target lists who refers to it apart from the ids
still to be taken out, its target lists who refers to it and the records still to be
pointed at it, and nobody it has to point is gone; `Pulled` says how far the `_pull`
has come and that every list emptied is one it will sweep.  A request yet to write
recalls that its copies are the truth: a `save` writes back the very back-reference
the record has, and an assign's list is its target's plus its order.  An edit saves its
own record at the end, with the target as its back-reference; that this is right needs
the rule that an order has its own video (`_validated_series_sequence`), without which
the record would name a series that does not list it.
What makes the step of one request harmless to the others
is that uncontended at most one is at work on series at a time, and that the others'
videos are not its own.  That a batch delete finds every file it looks for, and so
comes to the series, is where the row invariant and `NothingIsReplaced` are used.

`CountsAgree` compares each counter with the records, which are written one call
before it, and no request reads a counter.  `CountInv` says, of an uncontended history:
there are tags `c`, one set for each record, with which the counters are exact
(`Tallied`); they are a record's own tags unless a request that touches it has written
it and has its counters still to come (`Due`: from its write on, for a delete through the
series it is taken out of); and what such a request will send is, tag for tag, the way
from `c` to the records (`Shift`).  When it sends it, `c` becomes the tags of its records
and stays what it was for all others, which is why increments of several requests commute;
nothing falls below zero, for the counter was exact with `c` before and is with the new
`c` after (`NeverNegative`).  `Bill` also says, of each request yet to write, that what it
read is still so and that the difference it worked out is the one its write will make:
for an edit, between the record and the copy to be saved; for a batch, between the
records as read and as retagged, plus a new record for each file without one (`BulkShift`,
where `NothingIsReplaced` and unique paths are not enough: each upsert makes exactly one
record, `UpsertTags`); for a batch delete, which learns only afterwards what is gone, all
that it had read.  A counter that stands at zero has a request about to delete it, and
deleting it changes nothing, because a missing counter counts as zero (`Value`) and the
next increment makes it again.

*Directory metadata.*  The types need an invariant on each request (`QueryOK`): where it
stands decides which of its locals mean anything, its routes are never empty, and
every directory above one that stands, stands.  The steps are first described by what they
do to the request and to the stores (`OnList` for the reading and refreshing ones,
`OnOwn` for those that change the directory), once for the five theorems.
`ListingsHonour` adds (`HonourInv`) that what users decided is on record in the
flags, save where two decided at once or a removed directory waits to be
forgotten; that the copies a listing made of both agree; and that each row left out
or shown so far follows them.  It holds beside anything, because flags and
aggregates are written by different updates of one document.  `CachesAgree` needs
that only one request is active and that its own copy matches what it has read or
written (`Matches`): what it will fill the cache with is what the record says,
and a disagreement is always about to be resolved by that very request
(`Pending`).  `RecountsRepair` says what is true of every row already shown, and,
for the row at hand, that the collected values are the true ones; the storage
cannot change meanwhile because nobody else is active.  `RefreshesRepair` carries
(`RefreshInv`), through the calls of a row, what is right *if* its sub-directories are on record
rightly: what has been summed is what they hold, what is yet to be written is
what is already there, and the writes for one row leave the records under
every other row as they are, since the rows are brothers.

`AggregatesAreExact` is about the incremental updates.  `AggregateInv` says which
records may be wrong while a request is at work (`Stale`): those on the way up from
what it changed, and of a forward update those it has yet to pass; every other
record is the number of videos under its directory.  The sum of a forward update
(`SoundSum`) is the number of videos in its directory and under the sub-directories it has
asked about, unless it will come to the same directory again: the second way of a
migration may pass a directory whose child the first way has made right and the second
has yet to count.  That every way is in order (`Tidy`: whoever has a parent
meets it later on the same way) is what makes this inductive; it holds of the way up
and of the deepest-first order of a batch update (`DeepestIsTidy`).  The
arithmetic is that of the tree: what is under a directory is its own videos and, apart
from each other, what is under each sub-directory (`PartIs`).

*Media.*  The books balance: free permits and holders never exceed `Limit`, and
with the streams that lost one they cover it; the queue holds the waiters, each
once.  A release passes the permit to the first waiter, so nobody waits beside a
free one.  `JobOK` ties the place of a coroutine to the state of its process.

*Transfer.*  `BodyOK`: what a response has sent is the interval from the first
byte asked for to its position, which never passes the end it promised.  `CopyOK`:
the parts of an upload are all full while it copies, and with what is buffered they
are what was read (`Partway`); the last part takes the rest, so that what is about to
be completed is all of it (`AllSent`).  That only the last part differs is what makes
the sum a product, and `PartsMakeFile` provable.

## 7. Where the code and its documentation disagree

Three disagreements have a run of their own:

- **`second_restart`.**  `plan_recovery` saves every orphan as PENDING and keeps
  the phase to resume at only in the queue (`state_machine.py:175`).  A second
  restart before the task runs reads PENDING as "copy again" and removes the
  target, although the record may point at it and the source may be gone.
  `README.md:115`: "resumes from the phase a restart interrupted rather than
  starting over".
- **`overwrite_moving`.**  `create_task` asks nobody for locked paths: with the
  overwrite strategy it accepts a target that another task is moving away.
  `README.md:117`: "Each mutation re-checks independently".
- **`lost_end`.**  `_end_observer_streams` suppresses `QueueFull`: on a full
  channel the end marker is lost and `observe()` waits for ever.
  `task_runner.py:349`: "an observer must never be left waiting on a stream that
  has stopped producing".

Others were met, and confirmed with TLC, while the limits of the properties were
being found.  Each is a behaviour of the present model; the constants that show
it are given.

- *A cancel that is late* (`Events = {"cancel"}`, `SettledIsFinal`).
  `cancel_task` saves the copy it read as PENDING; a worker that loaded the task
  in between saves PROCESSING over CANCELLED, or goes on under a document that
  is CANCELLED and holds no locks.
- *A cancel of a recovered task* (`{"cancel"}`, one restart: CANCELLED with the
  record at the target).  Recovery puts a task whose record has moved back to
  PENDING; `cancel_task` settles it at once (`migration_service.py:303`) and the
  source is never deleted.  Line 282: "since nothing has happened yet".
- *Half a copy* (`{"db fault"}`: FAILED, its run over, with a `Partial` target).
  A progress save that raises leaves the copy loop past the cleanup
  (`migration_service.py:563`).  Line 528: "On cancellation or failure the
  partial target file is removed".
- *A retry whose client leaves* (`{"retry", "hangup", "io fault"}`,
  `NobodyStranded`).  Between the save of PENDING and the submit nothing holds
  the task; it waits for the next restart (`migration_resolver.py:231`).
  `README.md:116`: "unsubscribing never stops one".
- *The failed step* (`{"db fault"}`).  The status is set in memory before it is
  saved; when the COMPLETED save raises, `failed_step` becomes PROCESSING
  (`state_machine.py:238`) and a retry starts by removing the target.
- *A retry that comes early* (`{"retry", "io fault"}`, `NobodyStranded`).  FAILED
  is in the database before the worker's `finally` clause has run; a retry
  submitted in between is dropped as a duplicate (`task_runner.py:171`).
- *A move onto itself.*  `preflight` refuses it; `create_task` accepts it under
  the overwrite strategy (`migration_service.py:239`), and a failed copy of
  a file onto itself removes the file.
- *The opening frame of a retry* (`Retries = TRUE`).  `_latest_progress` is
  never cleared, so the stream of a retry opens with the FAILED frame of the
  run before (`task_runner.py:238`); a lagging watcher of that earlier run may
  be ended by its marker after the retry has begun.
- *Two requests at once* (two `Clients`).  Two retries of one task: the second
  resets, with the document it read, a task the first has already brought to
  its end.  Two creates, the first with an insert slower than the whole second
  migration: its target, free when it was checked, holds a video by then.
- *Recovery that fails* (`{"db fault"}`, one restart, `NobodyStranded`).  One
  failing save drops the plan; the tasks already back at PENDING are not queued.
- *A target that was given away* (two tasks that name one target, `{"retry",
  "io fault"}`).  Of a FAILED task the retry removes the file at its target
  (`migration_service.py:105`, `:351`), also when another video has been moved
  there since: its bytes are lost.
- *Swapped homes* (a target that was another video's home, one restart).  A task
  recovered at DELETING_SOURCE deletes its source once more, and with it the video
  that has moved in meanwhile.
- *One video asked to move twice* (`{"cancel", "retry"}`, one restart).  A late cancel
  unlocks a running task, the index refuses its save after the record has been
  repointed, and it is FAILED; a retry puts it back to PENDING, a restart forgets
  the phase, and recovery removes the target the record points at.
- *A cancelled overwrite.*  The cleanup removes the file of the video that was to
  be replaced while its record stays.

In the catalogue (drop `~contended` from the property):

- *A whole directory* (one `directory delete`, `MoveIsNotBlocked`) is deleted, or
  updated, without asking for locks (`subscription_resolver.py:88-124`), also
  where a migration is reading from it.  `README.md:117`: "Each mutation
  re-checks independently".
- *A view beside a change of series* (a `view` and an `edit` that clears the
  series, `MembershipAgrees`).  `record_view` saves the whole record it read,
  with its old `seriesId` (`catalog_service.py:555-559`), over what the series
  service wrote.  `series_service.py:38`: "the two are only ever written
  together, here".
- *Whole-document saves.*  A view, a thumbnail or a backfilled duration puts back
  an old path or old tags, or makes a record again that was deleted.
- *A listing beside a deletion.*  `delete_video` removes the record some awaits
  before the file; a listing in between gives the file a new record, which then
  has none.  The same between the walk and the write of a listing and the steps
  of a migration that begins there: the listing looked up the locks before.
- *Two assigns to one series.*  Each writes the list it computed; the members the
  other added are lost from the list while their back-references stay.
- *An overwritten video.*  The migration deletes its record without giving back its
  tags (`migration_service.py:623-627`).
- *A batch that meets a missing file.*  `_remove_videos_and_update_tags` ends before
  the series and the counters of records it has deleted
  (`batch_operation_service.py:557`).
- *A batch update by paths.*  The counters move although the record may have left
  the path since it was read.

In the directory metadata (drop `~overlap` or `~neglected`):

- *"Delete all".*  The aggregates of sub-directories whose videos went with the
  walk are not counted again; one that is only hidden is not counted either.
- *An unknown sub-directory.*  A forward update takes a sub-directory without a document for
  empty and saves that: a folder that holds videos is hidden until it is counted.
- *A kept folder in a bucket.*  `KeepFolder` records the mark and nothing else
  (`batch_operation_service.py:253-257`); where no marker object stands for the
  folder, its prefix is gone with its last object and no listing comes upon it
  (`s3_handler.py:137-168`).  `README.md:97`: "folders you created or chose to keep
  stay listed even when empty".  Read in the code, not modelled.
- *The refresh of the user interface* (`RefreshRepairs` without its condition on
  the sub-directories).  It sends `skipCache` without
  `recursiveCalculation`, and each sub-directory of a row is taken from the cache or
  the database, an unknown one for 0 (`dir_metadata_service.py:343-344`).  A wrong
  number below a row survives it, goes into the row, and is written to the cache
  again.  `fileBrowe_type.py:11`: "bypass any caching and get the latest info from
  disk".  Only `recount` and `measure` do.
- *Two forward updates at once.*  The later write may be the older sum.
- *A reader that fills the cache* after an update has replaced the entry leaves the
  old value until it expires.
- *A directory that cannot be read* is recorded as -1, ends the forward update, and is
  summed into its parents by the next.
- *A forgotten directory.*  A forward update that was on its way makes its document
  again; a folder created anew may lose its own to a `forget` still under way.
- *Errors that are swallowed.*  `bulk_set_metadata` fills the cache also when the
  database refused; a failed write to Redis leaves the old entry.  Read in the
  code, not modelled.

In media and playback (all in the present model but for the last):

- *A lost permit* (`PermitsKept` with `Lost = 0`).
  When a client leaves while the server reads from ffmpeg, every await of the
  response is cancelled, also the `await process.wait()` of the finally clause,
  and `release()` is skipped (`ffmpeg_service.py:251-255`).  Line 229: "release
  semaphore when done".
- *Other lost permits.*  A cancelled start of a transcode is no `Exception`, and its
  permit is not given back (`ffmpeg_service.py:217`).
- *A full error pipe.*  While only stdout is read, or stdin fed, an ffmpeg that
  writes more errors than a pipe holds stops for good, with its permit.
- *A cancelled duration* leaves ffprobe running without a permit.
- *`bytes=-n`* (also in the property, which takes the range as the code does) is read as 0 to n, and an end before the start gives a
  Content-Length of zero or less (`video_stream_service.py:59`).
- *A source that shrinks* under a copy: the reader yields empty chunks without end
  (`base_resource_handler.py:183-187`).
- *A cancelled upload* is not aborted; its parts stay in the bucket
  (`s3_handler.py:332`).
- *A thumbnail that could not be stored* still has its key saved; a failed transcode is
  only logged and looks like the end of the video.

## 8. What is only model-checked, and what is not modelled

Every safety property of the passing runs but one is the subject of a theorem.  Of those proved
under an assumption, only TLC checks the instances outside it (`BytesKept` and
`RecordPlayable` with an overwrite, in `replace`).  `NeverLeftWaiting` has no theorem:
it holds where a channel never fills, which the code does not promise, and
`LostOnlyWhenFull` says what remains.  The liveness properties
(`EveryTaskSettles`, `StreamsEnd`, `WaitersServed`, `CopyEnds`) stay with TLC:
the provers handle neither fairness nor ENABLED.  What would need an induction over
data is stated so that it needs none: the order of a list by its places
(`OrderAsAsked`), the size of an upload by the number of its full parts
(`PartsMakeFile`), what is under a directory as a set.

Simplified, where no property can tell: `rename` has one free variant where the code
loops until it finds one (`Migration.TargetFor`); `Catalogue.RepointMove` is the
database phase of a migration in one step that changes the path, where the code reads
the record, removes and pulls a conflicting one, and saves the whole document
(`migration_service.py:590-633`; the instance has no overwrite, and a request on
the same video meanwhile counts as contended); `Catalogue.UnlinkMany` raises on any
missing file, where a bucket deletes a missing key without a word.

Modelled in part: path locks (one provider, whose registration is no action),
the cache (no Redis that fails in the middle of a call), the storage handlers (what
writes, deletes and reads do; names, paths and listings are computation), the
application (the order of boot and stop), the GraphQL layer (the resolvers
whose decisions change what is done).  Failing database and cache calls are in
`Migration`, not yet in `Catalogue` and `DirMetadata`.

Not modelled: configuration, logging, database set-up and the web front end, which
keep no state whose changes could go wrong in an interesting order.
