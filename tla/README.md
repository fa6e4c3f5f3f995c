# Verification of fedora-server-config

TLA+ models of the two programs this repository writes itself, TLC runs that check
them on small instances, and TLAPS proofs of their main properties for every value of
the constants. Everything is translated from the source; where code outside the
repository matters (WordPress, the browser), it is modelled from how the source uses
it and marked `external` in `PROJECT.json`.

## 1. The system

The repository configures one Fedora server. Most of it is declarative (nginx, Apache,
firewall, containers, themes). Two parts keep state and are concurrent:

* the **Ampache plugin** (`wordpress/plugins/jackson-brain-ampache`): PHP requests of a
  WordPress site, started by visitors, administrators and WP-Cron, that share rows of
  `wp_options`, an object cache and a directory of artwork;
* the **cube page** (`JS/cuber`): a drag-driven 3x3x3 cube with an "interaction study",
  one JavaScript thread in which pointer events, animations and Web Crypto promises
  interleave.

### Inventory

| Component | State | Operations | Talks to | Hard because | Correct when |
|---|---|---|---|---|---|
| Refresh lock (`class-snapshot-repository.php:148-223`) | row `jba_refresh_lock` (owner, expiry) | `acquire_lock`, `release_lock` | refresh runs | workers race statement by statement; crash with the lock; clock | one live owner; only the owner's row goes away; an abandoned lease is recovered |
| Snapshot repository (same file) | rows `jba_snapshot`, `jba_status`; each process's copies of them and its cache entry | `get_snapshot`, `write_section`, `record_status`, `invalidate`, `run_daily_cleanup` | object cache, lock by convention only | read-modify-write of whole rows from copies that outlive the lock: one process of wp-cron fires several hooks | a write replaces one section; status never claims what the snapshot lacks |
| Refresh service | locals of a run | `run`, `refresh_section`, fetches | lock, repository, client, artwork | partial failure; runs longer than the lease | failed sections keep their data |
| Admin page, plugin hooks | cooldown row, settings | Refresh now, Clear snapshot, Test connection, save key, origin change | repository, artwork, settings | act outside the lock | old server's data goes away |
| Settings | rows `jba_settings`, API key | sanitize, set/remove key, generation bump | everything | read-modify-write; a sanitize callback on every update | generation counts configuration changes |
| Scheduler, lifecycle | row `cron`, `jba_scheduled_intervals` | activate, deactivate, reconcile, uninstall | settings, wp-cron, refresh service | reconcile runs in every request; each writes the whole `cron` row from its own copy; the activating request knows no custom recurrence | no hook loses its event to another request's copy; in the end each at the interval of the settings |
| Artwork cache | files, temporary files | `store`, `get_url`, `serve`, cleanup, purge | refresh, REST, WordPress's image editor | rename, purge and store interleave; a run keeps the server its request began with | no half-written image is served; a purge misses nothing that was there |
| Ampache client, policy, normalizer, renderer, site health | none that outlives a request | HTTP, validation, markup | — | — | pure input-output |
| Entropy session (`entropy-session.js`) | generation, active flag, sequence, salt, digest, record queue, published state | `start`, `record`, `solve`, `reset` | transcript digest, estimator, page | every digest is awaited; calls arrive meanwhile | salt, digest and records shown are one session's; nothing lost, nothing foreign |
| Transcript digest | current hash, queue | `append`, `digestHex`, the encodings | Web Crypto | asynchronous; binary layout | appended in order; the bytes determine what they encode |
| Entropy estimator | score, counts, sets seen | `add`, `reset` | session, indicator | cap, orbits between moves | score = min(cap, discounted novelty) |
| Entropy indicator | Start/Reset buttons, announced milestone | clicks, `render`, `setAvailable` | session, main | buttons disabled across awaits | Start comes back; each milestone of a session is announced, once |
| Cube (`cube.js` and helpers) | 27 cubelets | `twist`, `shuffle`, `isSolved` | interaction, page | signs, permutations | stays a cube; solved means solved |
| Interaction (`interaction.js`) | drag, isSettling, enabled | pointer events | cube, session | signs of projection, axes, CSS and commands; a turn is applied at pointer-up and recorded 400 ms later | turns what was shown; recorded once, in order, as it was made |
| Page (`main.js`) | wiring; scramble on view | start, reset, record, solved, scramble | all of the above | `enabled` has several writers | the study's transcript explains the cube |
| Music cleanup, database backup scripts | files | sequential shell | — | an unchecked step that fails | an album keeps an image |
| Theme, server configuration, Ampache themes | — | — | — | — | no program state to model |

`PROJECT.json` lists the components with their status and, under `hazards`, every place
in this code that a test would hardly reach, each with the property that covers it or the
reason why none does yet.

## 2. Modules

| Module | Models |
|---|---|
| `LeaseLock` | abstract specification of a lease: grant, return, lapse |
| `RefreshLock` | `acquire_lock` / `release_lock`, one action per database statement, clock and crashes; implements `LeaseLock` |
| `SnapshotRefresh` | extends `RefreshLock`: the refresh run over snapshot, status, and each process's copies and cache; page views, the administrator |
| `MCSnapshotRefresh` | which calls share a process, cache layouts and symmetry for TLC |
| `SnapshotRefreshProofs` | theorems about `RefreshLock`, and about `SnapshotRefresh` over it |
| `ArtworkCache` | the artwork files: runs that store, views that link and serve, the daily cleanup, purges, one action per file system call |
| `MCArtworkCache` | symmetry for TLC |
| `ArtworkCacheProofs` | theorems about `ArtworkCache` |
| `Scheduler` | the scheduler's rows and each request's copies of them: reconcile, activate, deactivate, wp-cron, saves and crashes |
| `SchedulerProofs` | theorems about `Scheduler` |
| `StudySession` | abstract specification: what the page promises the visitor of a session |
| `EntropySession` | `createEntropySession` over `createTranscriptDigest`; implements `StudySession` |
| `EntropySessionProofs` | theorems about `EntropySession` |
| `Cube` | rotation, commands, twist, shuffle, `isSolved`, and what a committed drag makes of the cube |
| `Transcript` | extends `Cube`: the bytes of the initial state, of a record and of the hashed messages |
| `TranscriptProofs` | theorems about `Cube`, and about `Transcript`: what the bytes determine |
| `DragGesture` | extends `Transcript`: one pointer's drag before, amid or after the scramble, from pixels to the turn and its record |
| `MCDragGesture` | the page's tilt and the pointer's moves for TLC |
| `DragGestureProofs` | theorems about `DragGesture` |
| `CuberPage` | extends `EntropySession`: pointer, settle animation, scramble, buttons, session, as wired in `main.js` |
| `CuberPageProofs` | theorems about `CuberPage` |
| `EntropyEstimator` | the estimator and the milestone announcements |
| `EntropyMeasurement` | composes `EntropySession` and `EntropyEstimator`: the session feeds the estimator and publishes to the panel |
| `EntropyEstimatorProofs` | theorems about `EntropyEstimator` and the composition |

`PROJECT.json` maps every definition to the lines it stands for. In each module the
operators whose comment begins with *Slip:* are not part of the specification: they are
plausible bugs of the action that follows them, and substituting one for its action makes
TLC violate the property it is listed with. They show that every property can fail.

### How state and actions correspond to the code

**`RefreshLock`.** `lock` is the row, `entry[p]` the `$entry` a worker computed before it
touched the database, `raw[p]` the `$raw` it last selected, `pc[p]` the statement it is
at. The random token is the worker. `AddOption`, `SelectLock`, `CheckExpiry` (which reads
`time()` *after* the SELECT), `StealLock` (conditional UPDATE), `SelectOwn`, `DeleteOwn`
(conditional DELETE) are the statements in order; any other worker, a clock tick or a
crash may come between two of them.

**`SnapshotRefresh`.** A `Call` is a refresh run (`Worker`), a read of the snapshot
(`Visitor`: a page view, or the daily cleanup's look at its age) or an administrator's
clear or origin change. `RequestOf` says in which process it is made: most requests make
one call, `wp-cron.php` makes those of all hooks that are due, one after the other. What a
process keeps from one call to the next is in `copy`, `statusCopy` and `settings`, its
`get_option` copies of the three rows (`Unread` before the first read; its own writes keep
them in step, another request's do not), and in `cache`, where `CacheOf` gives each process
its own object cache (WordPress's default) or a persistent one common to all. `todo[p]` holds
the sections `run` has left, `stage[c]` where each call is; `got` and `snap` are the PHP
locals `$result` and `$snapshot`. `update_option` of a row that was read and has been
deleted since changes nothing (`PutSnapshot`). Data is reduced to who fetched it and from
which server; `refreshed_at` is the run. `outdated` is history: the runs whose process held
an old copy of a row when they took the lock (`UpToDate`).

**`ArtworkCache`.** `file[k]` is the file named by key `k`, with its contents reduced to
what they are (no byte, part of a body, or a body: `fit` within `MAX_DIMENSION`, `large`,
or `cut` at the client's length limit), the server and the time. `server[r]` is the origin
in the copy of the settings that run `r`'s request took when it began (`BeginRun`), which it
asks for artwork to its end. `image[r]` is what run `r` is storing, from the body of the
response to the temporary file; `stage[q]` where each request is and `at[q]` the key it is
about; `listing` what a sweep has left of `scandir`. Each look (`file_exists` with the
`filemtime` that follows it: PHP remembers the stat within a request), read, touch, rename
and unlink is an action of its own. `Resize` leaves the temporary file as it was fetched:
`WP_Image_Editor::save` gives what it saves the extension of its type, so the smaller image
lands beside it as `<key>.jpg` or `<key>.png`. That sibling is left out of the model: no
code reads it, and both sweeps remove it like any other file. `referenced` and `late` are
history.

**`Scheduler`.** WordPress keeps the cron events of all hooks in one autoloaded row; a
request loads it once, and `wp_schedule_event`, `wp_unschedule_event` and
`wp_reschedule_event` write the whole of it from that copy. So `Boot` copies `settings` and
`cron`; `ReadRemembered` reads the row that is not autoloaded; `ClearHook`, `ScheduleHook`
and `Remember` are `reconcile_one`, `schedule` and the end of `reconcile`, hook by hook
(`at`), one action per write. The page then does its work: it ends, saves the form, or
deactivates the plugin; the run of wp-cron fires what is due, each event by a `Reschedule`
and an `Unschedule` (the copy of the settings it took at its start decides the successor's
interval). The request that activates the plugin does not load it first: it does not
reconcile, and it never adds the plugin's `cron_schedules`, so it can schedule only the hooks
of WordPress's own recurrence (`Daily`, `KnowsRecurrence`), and yet remembers the intervals
of all (`Activate`). An event is its interval: a successor keeps the phase, so two events of
one hook with the same interval fall on the same time, where they are one entry. `writer`,
`overtaken` and `calm` are history: a request is overtaken by another's write of the events
or of what is remembered, and `calm` holds until an overtaken request writes or a request
dies.

**`EntropySession`.** JavaScript runs to completion, so an action is a task or a callback
between two awaits. Digest objects and record queues are named by the generation of the
`start()` that made them; `chain[d]` is what has been hashed into digest `d`, `queue[g]`
the callbacks chained on a queue, `inflight[g]` the `append` a queue awaits, `opening`
the starts that await their digest. `Quiescent` makes ready callbacks run before the next
task. `asked` and `solveCall` are history: what the visitor did.

**`Cube`.** A direction is its normal vector, so `getDirectionByNormal` is the identity
and a face array is a function on directions. `Turned` is `Cube.twist`. `CommitDrag` is the
end of `onPointerUp`: the command's case, the twist, the settled angle and the record.

**`Transcript`.** `EncodeRecord`, `EncodeInitialState` and the two messages byte for byte,
a byte being a number below `Base`. `Base` is 256; 32 keeps the products within TLC's
integers and is allowed for it, and the theorems are proved for both.

**`DragGesture`.** `Tilt` holds the images of the CSS unit vectors under the transform of
the group, as integers over `Scale`. `GrabFace` and `GrabSpace` are `onPointerDown` on a
face and beside the cube, `PointerMove` the first move past the threshold, which settles
the axis (`PickAxis`), the command and the cubelets; `ReleaseBack`, `ReleaseTurn` and
`PointerCancel` end the drag with `CommittedInteraction` for the session. A pointer may go
down before the scramble or after it (`Held`: `enabled` is false only while the scramble
runs), and one that is down when the scramble begins stays down: the twists of `Shuffle`
come between its steps, and `amid` remembers how many had come when its layer was settled.
Every cubelet has all six faces (`render.js:50-63`), so every face can be grabbed.
`gesture` is `drag`, `interaction` what `onCommitted` was given. The code picks axes and
measures drags with the group's computed transform alone; the perspective of its container
(`style.css:37`) is not in that computation, and where on the screen anything appears is
not modelled. A second pointer, the animation and `enabled` after a start are
`CuberPage`'s.

**`CuberPage`.** `drag`, `settling` (`isSettling` and what follows it) and `enabled` are
the variables of `attachInteraction`; `startDisabled` and `available` those of the
indicator. The action that commits a turn is split where the code awaits the animation:
`PointerUp` turns the cube, `SettleTurn` records, `Announce` raises `cubesolved` in the
same task. A drag that is down when the scramble or a start begins goes on through it, as
only `pointerdown` reads `enabled`. Whether a twist solves the cube is left open. `turned`,
`initial`, `hasty` and `solving` are history.

**`EntropyEstimator`, `EntropyMeasurement`.** `AddLayer` and `AddOrbit` are `add`, in
eighths of a demo bit, in which the 50% discount leaves whole numbers; `Restart`,
`Published` and `Cleared` are what the session makes of the estimator and of the panel's
milestone. `EntropyMeasurement` joins each to the action of `EntropySession` in which
`entropy-session.js` calls it: `reset` in `start` and `reset`, `add` after an append that
was not overtaken, a render on every publication. `made` is history, `estimate` what the
panel shows; the timing bin is computed from the times of the moves. `total` is history.

## 3. Runs

| Run | Checks | Bounds, and why they suffice |
|---|---|---|
| `refresh_lock` | type, one live owner, implements `LeaseLock`, an abandoned lease is recovered | 3 workers: one that crashed or overran, and two that race for its row. `LOCK_TTL` 2 and time to 3: leases taken at different times expire at different times, and there is time left to steal after expiry |
| `snapshot_refresh` | type, a run that took the lock without old copies leaves the other sections alone, status is backed by the snapshot | a wp-cron process with one run and one read of the snapshot, in either order; a run in a request of its own; one administrator, two servers. The read gives the process the old copies that the other run makes stale, and a second run may follow one that crashed. `LOCK_TTL` 1 and time to 1: a lease can expire after a crash; `Prompt`: a run ends or crashes before its lease does. A second run of that process is out of TLC's reach beside these; the theorems have any number |
| `snapshot_overrun` | *violated*: sections preserved | 2 runs, each in a request of its own, without `Prompt` |
| `snapshot_shared_cache` | *violated*: cache equals option | one cache for all |
| `snapshot_origin` | *violated*: snapshot is the current server's | one administrator, two servers |
| `entropy_session` | on `EntropyMeasurement`: types, own digest, linked transcript, solve loses nothing, the estimate shown is the one computed from the transcript shown, implements `StudySession`, moves are shown | 3 starts and resets, 3 moves: an old, a current and a next session, and a record in each of queue, digest and page. 2 tokens, 2 timing bins and orbits, over a cap that three moves pass: a repeated and a new transition, a contribution cut at the cap |
| `entropy_reordered` | *violated*: own digest | the same with digests out of order |
| `drag_gesture` | type, visible scramble, solved means solved, the record reads back, turns as shown, the record replays | scrambles of 5 twists, and of 2 for the drags: one drag that begins before the scramble, or after it, and may end before, amid or after it. From each face of a corner and of another cubelet and beside the cube, in 3 directions and 2 lengths, once below the threshold and not at all, by touch and by a pointer of no type, flicked and slow: less and more than a quarter turn. The page's own tilt within two degrees |
| `cuber_page` | type and buttons, order of turns, solving turn, replay, no drag or start begins while the scramble runs, input and Start come back | 4 starts and resets, 2 turns, a scramble of 2 twists (5 in the code: each is the same step) |
| `artwork_cache` | type, what is served is whole, a purge misses only what is stored after the change of origin, times keep up with references | 1 file, 2 runs, 2 views, a cleanup and an administrator: every pair of actors meets at the file. An hour is 1 and the retention 2 of 3 units of time, so files are fresh, to be touched and aged |
| `artwork_ghost` | *violated*: what is cached is artwork | 1 run, 1 view, 1 purge |
| `scheduler` | type, no hook is left without an event, what is remembered is what the events were built for, in the end the events follow the settings | a request and the run of wp-cron: each can overtake the other. 2 hooks, as writing one puts back the other, one of them daily, which is what activation schedules, the other not; 2 intervals; 2 saves, 1 crash, and activation, deactivation, activation. A third hook, or two requests beside wp-cron, are out of TLC's reach with fairness (the theorems have any number) |

`CHECK_DEADLOCK` is off in all of them: runs, sessions and scrambles end, a deactivated
plugin runs nothing, and the bounds on calls end every behaviour.

### What the violated runs show

1. **A late refresh writes over its successor** (`snapshot_overrun`,
   `class-snapshot-repository.php:100`). The lock hands out no fencing token and
   `write_section` does not look at it. A run may last longer than the 120 s of its lease:
   each request waits up to 8 s, cron retries once, and a refresh makes one request per
   count, song and cover.
2. **A persistent cache keeps the old snapshot** (`snapshot_shared_cache`, `:40`): a miss,
   a write, then the fill of the miss.
3. **An origin change is undone by a run under way** (`snapshot_origin`,
   `class-plugin.php:52`).
4. **A superseded start replaces the digest of the current session**
   (`entropy_reordered`, `entropy-session.js:47`), if digests become ready out of order.
5. **A touch brings a purged file back, empty** (`artwork_ghost`,
   `class-artwork-cache.php:203`): it counts as cached, is never fetched again, and the
   references to it keep the daily cleanup away.

### What the models let happen, and no run refutes

Five more behaviours contradict a comment or a plan and are possible in the models. They
are listed as hazards with a note; no property denies them:

* **A later run of the same wp-cron process writes old sections back**
  (`class-snapshot-repository.php:33`): its process keeps the snapshot and the status as it
  read them for an earlier hook, though another request has refreshed in between. No lease
  is outlived. `outdated` marks these runs; `CurrentRunPreserves` and `StatusIsBacked`
  speak of the others.
* **A drag that is down goes on through the scramble** (`interaction.js:278` reads no flag),
  although "Interaction is disabled while an automated scramble is running"
  (`interaction.js:163`), and through the opening of a session.
* **Activation schedules the daily hook only** (`class-scheduler.php:94`), although
  "Activation schedules one event per interval" (plan `06-validation-deployment`), and
  remembers the intervals of all; the next request's `reconcile` repairs it.
* **The resized artwork is saved under another name** (`class-artwork-cache.php:133`) and the
  original is published, above `MAX_DIMENSION`.
* **A body of more than `MAX_FETCH_BYTES` arrives cut to just that length**
  (`class-artwork-cache.php:73`, `class-ampache-client.php:39`) and is stored.

A session started over a solved one is silent until it passes the old one's milestone
(`entropy-indicator.js:104`); whether that is what "throttled" means is open.

### Fairness

* `LockFairSpec`: a worker that does not crash goes on, and time passes. PHP executes a
  request to its end unless it dies; a crash disables the worker's actions.
* `SessionFairSpec`: weak fairness on each session's own continuations. Web Crypto
  promises settle (resolve or reject), and the event loop runs ready callbacks.
* `MeasurementFairSpec`: `SessionFairSpec`'s, of the composed actions.
* `FairSpec` of `Scheduler`: a request that does not die goes on; a timer of the host
  requests `wp-cron.php` every minute (`wordpress-wp-cron.timer`); and every event, strongly
  fairly, is found by a run: once in the row it stays until it is due. Nothing is assumed of
  visitors and administrators but that a deactivation or activation under way ends.
* `PageFairSpec`: `SessionFairSpec`'s, and timers: an animation's promise settles, and a scramble
  once begun goes on. Nothing is assumed of the visitor, nor that the cube ever scrolls
  into view.

## 4. Proofs

TLAPS proves, for every value of the constants:

* `SnapshotRefreshProofs`, the lock: type correctness, `OneLiveOwner`, `OnlyOwnerReleases` and the
  refinement `ImplementsLease`. None is inductive by itself. `LockInv` adds that a
  worker's entry names it (`EntryIsOwn`), that the row and what workers have read of it
  are entries their owners have written (`RowsAreWritten`), that a worker about to
  update or delete has read a row for which its condition held (`ConditionIsRight`), and
  the core: **a holder within its lease is the one the row names** (`LiveHolderOwnsRow`).
  The value condition of the UPDATE then suffices, because an expired row equal to the one
  read is still expired.
* `SnapshotRefreshProofs`, the refresh: it implements the lock (`RefreshUsesLock`) and keeps
  its types, for any calls in any processes. `CurrentRunPreserves` and `StatusIsBacked` hold if
  no run outlives its lease (`Prompt`) and no two processes share an object cache
  (`OwnCaches`), for any number of runs, reads and administrators, however they are spread
  over processes. Both assumptions are needed: without the one `snapshot_overrun` refutes
  `SectionsPreserved`, without the other a stale entry of the cache (`snapshot_shared_cache`)
  is written back. `Leased` makes the lock a mutex (`OneHolder`), and a process makes one
  call at a time (`OneCall`), so nobody writes the rows while a holder's copies are in use but
  an administrator, who deletes. A process's cache is its copy of the row
  (`CacheMirrorsCopy`), what a run has in hand is that too (`SnapMirrorsCopy`), and the copies of
  a holder that was not outdated are the rows, or the row is gone (`CopiesCurrent`), in which
  case `update_option` changes nothing. `BackingInv` follows a section from its fetch
  (`GotIsOwn`) over its write (`Storing`) to the record of its success (`Backed`).
* `EntropySessionProofs`: type correctness without any assumption on digests, and, under
  `InOrder`, `RecordsEnterOwnDigest`, `TranscriptLinked`, `ShownIsOneSession` (salt, digest,
  records and count shown are one session's), `SolveLosesNothing` and the refinement
  `ImplementsStudy`. The invariant `SessionInv` has these parts: `DigestIsOwn` (the digest in
  use and every append in flight belong to their session), `Fresh` (a session that has not
  opened has hashed nothing), `Linked` (the session's counter and last time agree with its
  digest and the append in flight), `PageIsCurrent` (what is shown agrees with the session
  while it measures), `Unasked` (a session not yet open was asked nothing), and `Pending`:
  **the moves accepted before `solve()` are, in the order they were made, those in the
  digest, the one under way and those in the queue, and `solve()` waits behind the last**
  (`InLine`). The refinement maps the records shown to the times of the moves: each step of
  the session shows one more of the moves asked, ends the session, or is invisible.
  `SessionHoldsNothingBack` is what of `MovesAreShown` needs no fairness: a session with no
  call waiting and no digest under way shows every move it accepted and was not asked to
  solve, so whatever is not shown yet has a callback or a digest that brings it.
* `EntropyEstimatorProofs`: type correctness; the incremental score is the capped sum of
  what was seen; transitions link the moves seen, whatever orbits come between; for any token
  sets, cap and milestone. `StudyIsSession`
  shows that `EntropyMeasurement` implements `EntropySession`, and `StudyFeedsEstimator` that
  it implements the estimator's own specification, so the theorems of both hold of the
  composition. Under `InOrder`, `PanelCountsTranscript` relates the counts of the two, and
  `StudyEstimateOfTranscript` the estimates: the estimate on the
  panel, counted step by step, is the one `EstimateOf` computes from the transcript shown
  beside it. `FiguresDescribe` is the invariant: what the estimator keeps describes the
  records in the digest (`Told`), also between an append and the publication that follows.
  Its lemma (`LayerAppended`) is that one more layer move adds one token, one gesture, at
  most one bin and, unless it is the first, the transition from the last layer move before
  it; no induction over the transcript is needed, as `EstimateOf` is a set comprehension.
* `CuberPageProofs`: `PageSpec` implements `SessionSpec` (`PageRunsSession`): the page
  makes only calls the session's specification allows, so `SessionInv` holds on the
  page. Over it: `PageTypeOK` and `TurnsRecordedInOrder`, for any number of turns and
  starts; their invariant adds that a drag and a settle animation exclude one another
  and that no session was started before the scramble is over (`Ordered`), which also
  gives `ScrambleUndisturbed`: while the scramble runs no drag begins and no session is
  started. A drag that began before it is not excluded. Under `InOrder`:
  `SolvedEndsWithSolvingTurn`, from `SolvingIsLast` (while `cubesolved` is being
  announced, the turn that raised it is the last the session was asked, so `solve()`
  queues right behind it), and `CalmSessionsReplay`, from `CalmOpening` (**a start made
  on a still cube keeps the pointer dead until that very start returns**, so no turn
  comes between its initial state and its first record). The refinement carries
  `ImplementsStudy` to the page. `PageNobodyWaits` is what of `InputComesBack` and
  `StartComesBack` needs no fairness: **a dead pointer waits for a running scramble or
  an open start, a disabled Start button for the latest start or a session that
  measures**. It is inductive over the page's invariant: a start that was overtaken
  renders nothing, and leaves the later one opening.
* `SchedulerProofs`: `SchedulerTypeOK`, `HooksStayScheduled` and `RememberedIsTrue`, for
  any number of requests and hooks. The second excepts what a request leaves that died
  in its repairs, and what the activation leaves, until another request writes the row.
  It is not inductive: `SchedulerInv` adds that a request in its repairs has in its copy
  an event for every hook it has passed (`Kept`), and that the row is the last writer's
  copy while that one goes on (`WriterHasRow`). So it does not matter what is
  overwritten: whoever writes last finishes with a whole copy. The third speaks of the
  moment when no request is under way; `RememberedInv` says what holds before: the
  copies of a request nobody overtook are the rows (`Current`), and a hook whose events
  are not those of the remembered interval is answered for (`Excuse`) by a request that
  cannot end without writing what is remembered, by a deactivation, or by an activation
  that was overtaken, whose next write ends `calm`; while the plugin is not active, what
  events there are must be answered for before it is (`Answer`). It says that there are
  no events of another interval, not that there is one: after an activation there is
  none. The proof corrected the property: with two visitors and two saves, a request
  that read the remembered intervals before another one wrote them puts the old ones
  back, though it never writes old events. It is overtaken too, and `overtaken` now
  counts it.
* `TranscriptProofs`, the cube: type, distinct addresses, `LogoStays`, a drag settles where
  it was previewed, and `RecordReplays`, for scrambles of any length and drags of any number
  of quarter turns. The lemmas: a quarter turn is injective and has order four, so a turn
  permutes positions and directions, and a turn by n equals one by n modulo 4.
  `CubeSolvedIsSolved`: `isSolved` looks at colours and finds the solved cube in any
  orientation and no other. Invariant: each cubelet is the one made, turned by a rotation of
  its own (`Rotated`). If each side shows one colour, all cubelets made with a side show it
  on the same side (`SidesAgree`: the six centres occupy the six sides); four corners that
  share their sides make of that one rotation (`SidesAreRotated`), which every cubelet then
  follows (`OneRotation`), and each of the 24 rotations is an orientation (`FramesAreTurned`).
* `TranscriptProofs`, the scramble. `CubeOddScrambleIsTurned`, for every length: an odd
  scramble that looks solved is the solved cube turned a quarter about its front. Invariant
  `ScrambleParity`: the inversions in the order of the eight corners, plus the tilt of the
  top centre, have the parity of the number of twists; of the orientations that keep the
  logo up front only those two quarter turns are odd. `CubeScrambleIsVisible` excludes them
  for at most five twists. Invariant `ScrambleTally`: each of the letters U, R, D, L and S has
  a mark (an edge of the front, for S the top centre) that stays where it was made until its
  letter is drawn; and while B is not drawn, the turns of the eight corners weigh at most
  four per face twist, where a quarter turn about x or y weighs one. A quarter turn of the
  whole cube about its front moves all five marks, so all five twists are spent on those
  letters, four of them on faces; its corners weigh 24, and 16 is the most they can. The
  hypothesis, no scramble longer than five, is what `main.js` calls and is necessary: the
  faces the scramble uses generate the sixth, so a longer odd scramble can turn the whole
  cube.
* `DragGestureProofs`: `GestureTypeOK`, `TurnsAsShown` and `RecordReadsBack`, for every move of
  the pointer, every tilt that is a rotation and drags before, amid and after the scramble.
  `GestureKeepsCube` carries to the dragged cube what is proved of `Cube`, whose drags may fall
  anywhere in the scramble too: the logo stays until the first drag, addresses are distinct,
  `isSolved` holds of the solved cube alone, records replay. That a scramble is visible is said
  of one no drag has interfered with.
* `TranscriptProofs`, the bytes: a record's bytes determine the record, the initial state's bytes the
  cube, the first message of a session its salt and initial state, a later message the
  digest before it and its record; a first message is never a later one. With a hash that
  does not collide, a digest therefore names one transcript.
* `ArtworkCacheProofs`: all four invariants of the `artwork_cache` run. `ArtTypeOK` is
  inductive. The others rest on it and on `WholeFiles` (a temporary file holds a body when it
  is renamed, so the directory holds bodies, and the empty files `touch` makes), `Timely` (an
  image is renamed in the hour it was written, and a file an artwork request found young is
  replaced by younger ones only) and `Accounted` (a file of another server was stored since
  the origin changed, or a purge is to come for it, `PurgeToCome`).

Assumptions on constants are the named `ASSUME`s of each module (a positive `LOCK_TTL`,
`Null` outside the data, and the like); TLC evaluates them in every run.

Theorems without a run's property are as much a part of the result: `OnlyOwnerReleases`,
`ShownIsOneSession`, `ScoreIsCappedNovelty`, `TransitionsLinkMoves`, `CubeTypeOK`,
`AddressesDistinct`, `LogoStays` and `SettlesWherePreviewed` hold for every instance and are
not checked on a small one again.

Only model-checked: liveness (`AbandonedLeaseRecovered`, `CadenceFollowsSettings`,
`MovesAreShown`, `InputComesBack`, `StartComesBack`), which needs fairness and `ENABLED`.
`SessionHoldsNothingBack` and `PageNobodyWaits` prove what the last three rest on; that
what is waited for is served is TLC's part. Every invariant and every action property of a
passing run is proved.

## 5. Assumptions about code outside the repository

* `add_option` inserts if there is no row, in one step. WordPress checks its caches first
  and then issues an upsert, so two requests may both be told they inserted; listed as a
  hazard.
* `get_option` reads a row once per process and answers from that copy ever after; the
  process's own `update_option` and `delete_option` keep it in step. `jba_settings` is read
  when the request starts. `wp-cron.php` is one process for all the hooks that are due.
  Reading a row, or missing the cache and then reading the option, is one step. An update
  with an equal value, which WordPress leaves out, does not occur: data carry their time.
  That `add_option` looks at the process's copy of the lock row first is left out: it can
  only refuse a run a lock that is free.
* `WP_Image_Editor::save` gives the file the extension of the type it saves. The transport keeps
  the first `limit_response_size` bytes of a longer body.
* A call on a file (stat, read, touch, rename, unlink) is atomic, and PHP's stat cache makes
  `file_exists` and the `filemtime` after it one look. A sweep, a view and the storing of
  one image take less than the hour that is `ArtworkCache`'s unit of time.
* WordPress loads `cron` and the settings with a request's first option and reads them from
  that copy; it writes the whole `cron` row. `update_option` compares with what the request
  read, and changes nothing if the row is gone; of a row the request did not find it inserts
  or overwrites. wp-cron's own lock lets one run go at a time, and activation takes effect
  after `activate()`, deactivation after `deactivate()`. `wp_schedule_event` fails for a
  recurrence that no `cron_schedules` filter of the request announces, and `activate()` runs
  after `plugins_loaded`.
* `createSessionSalt` does not throw. `digestHex()` of a digest on which nothing was
  appended resolves within the task that created it.
* `InOrder`: digests of successive starts are ready in the order asked. It holds where the
  browser serves `crypto.subtle.digest` in order, which no standard promises; without it
  the `entropy_reordered` run applies.
* A drag of a full circle (four quarter turns) leaves the cube as it was and is not
  recorded; `CuberPage` treats it as one that settles back. `Cube` and `DragGesture` model it.
* The transform the browser reports for the group of cubelets is the one rotation the CSS
  asks for, and arithmetic on pixels is exact. The code measures drags with it alone; the
  perspective of the container (`style.css:37`) does not enter its computation, so it is not
  in the model, and nothing is claimed of where on the screen a cubelet appears.

## 6. Not modelled, and why

* **Ampache requests, method policy, normalization, markup, blocks, site health**: functions
  from input to output with no state; the refresh sees them as a fetch that succeeds or
  fails.
* **API key and configuration generation**: the generation is raised and copied into the
  snapshot, and nothing reads it back to decide anything. Its read-modify-write is a hazard
  on the list.
* **The manual cooldown** limits requests to Ampache and guards no state the models have.
* **`run_daily_cleanup` of the snapshot**: its read is a `View` of `SnapshotRefresh` (a call of
  the wp-cron process that fills its cache and copy) and its delete a `ClearSnapshot`. That the
  delete follows from the age read is not modelled: it needs a clock of days.
* **Perspective**: where the cube appears on the screen, and so whether a layer follows the
  finger as the eye sees it.
* **What the editor saves beside an artwork file**: nothing reads it, and every sweep removes
  it.
* **Uninstall**: runs when the plugin is no longer loaded.
* **SHA-256**: a digest names its inputs; `Transcript` shows that inputs determine the
  transcript.
* **Theme and block editor scripts** (`jbrain.js`, `editor.js`): page furniture; a busy flag
  at most. **`cuber.js`**: the bundle of an earlier cube that the page does not load.
* **Music cleanup and database backup**: sequential scripts run alone.
* **Server configuration, Ampache themes**: no program.

## 7. Plan

Done, in this order: the lock, the snapshot refresh, the entropy session, the cube, the
page, the estimator, the artwork cache; then the transcript's bytes, the drag gesture, the
study as a whole (`EntropyMeasurement`) and the scheduler.

What would add most next:

1. `CuberPage` over `DragGesture` in place of its open choice of whether a twist solves.
2. The age that `run_daily_cleanup` goes by, between the read of the snapshot and its delete.
3. A second run of the same wp-cron process in TLC's instance of `SnapshotRefresh`, which
   needs a smaller model of a run's three kinds.
