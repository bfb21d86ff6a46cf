# A verification of the hazard-detection pipeline

This directory holds TLA+ models of the service in `src/app`, the TLC
configurations that check them on small instances, and theorems about them that
TLAPS proves for every instance. The service takes frames by HTTP, lets SAM3
look for fire and smoke, lets a language model confirm what SAM3 found, keeps
the evidence of confirmed frames on disk and raises an alarm for them, with as
few repeated alarms as it can.

`PROJECT.json` ties everything to the code: which lines each definition models
(`map`), which properties each run checks (`runs`), for each property a
plausible bug of the code that breaks it (`mutants`), what is hard to test in
the code and which property watches it (`hazards`), where the code disagrees
with its documentation (`findings`), and the proved results (`theorems`).

## 1. The system

The service is one process with one asyncio event loop. Blocking work (SQLite,
files, Pillow) runs in threads that the loop awaits. A stream is a pair
`(machine_id, stream_id)`.

| Part | Code | State | Operations |
|---|---|---|---|
| Upload handler | `main.py` | none of its own | `submit_frame`: check, decode, check again, submit; lifespan start and stop |
| Upload limit | `main.py` | bytes of the request body so far | `UploadLimitMiddleware.__call__` |
| Frame pipeline | `pipeline.py` | two bounded queues, two pools of workers, counters, `accepting` | `submit`, `_detect`, `_confirm`, `_deliver_alarm`, `start`, `stop` |
| Stream gate | `dedup.py` `LLMStreamGate` | active streams, times of the last admissions, an operation counter | `admit`, `release`, `prune` |
| Alarm deduplicator | `dedup.py` `AlarmDeduplicator` | a lock, reservations, a SQLite table | `initialize`, `reserve`, `finish` |
| Evidence store | `storage.py` | directories below the data directory | `initialize`, `save`, `update_alarm`, `maintain`, `status` |
| Runtime monitor | `monitoring.py` | probe states, storage status, its loops | `start`, `stop`, the probe, maintenance and status-log loops |
| Upstream clients | `clients.py` | the cached model name and its lock | `detect`, `confirm`, probes, `parse_detections` |
| Daily logs | `logging_setup.py` | the open file and its day, the handler's lock, the retention thread | `emit`, `maintain`, pruning, `configured_logging` start and shutdown |
| Conversions | `images.py`, `domain.py`, `alarm.py`, `time_utils.py` | none | decoding, drawing, verdict schema, the alarm call (a placeholder that returns `False`) |
| Settings | `config.py` | constants | field bounds and validators |
| Smoke test | `scripts/smoke_test.py` | none | a manual client |

How they interact:

    HTTP --submit--> sam3_queue --> SAM3 workers --admit--> gate
                                        |  put (blocks when full)
                                        v
                                    llm_queue --> LLM workers --> EvidenceStore.save
                                                       |            (thread)
                                                       +--> AlarmDeduplicator.reserve
                                                       +--> send_alarm
                                                       +--> AlarmDeduplicator.finish
                                                       +--> EvidenceStore.update_alarm
                                                       +--> gate.release
    RuntimeMonitor: probes both upstreams, runs EvidenceStore.maintain in a
    thread next to the saves, and decides the readiness submit_frame asks for.

What is hard in it, and what makes each part correct:

- **Pipeline.** Every statement with an `await` is a place where a task can be
  suspended, fail or be cancelled. The SAM3 workers block on the queue the LLM
  workers empty. A gate slot is taken in one pool and given back in the other.
  Shutdown joins two queues under one deadline and then cancels. Correct means:
  no slot leaks or is given back twice, `task_done` is called once per item, a
  drain in time loses nothing, nothing is accepted after shutdown has begun, the
  counters add up, frames never get stuck, and shutdown always ends.
- **Gate.** It prunes its table every 256 operations, refusals included. Correct
  means that the pruning is never visible in an answer.
- **Alarm deduplicator.** `reserve` reads the row in a thread while it holds the
  lock; `send_alarm` happens outside the lock; rows survive restarts; the wall
  clock may jump; SQLite may fail or be corrupt. Correct means: one reservation
  per stream, no way out leaves the lock or a reservation behind, only alarms
  that were received suppress, and no alarm is repeated within the cooldown.
- **Evidence store.** `save`, `update_alarm` and `maintain` run in three threads
  without a lock, and the process may die between any two file operations.
  Correct means: a directory under a final name is complete, a pass never takes
  what is being written or was just saved, capacity cleanup takes the oldest
  first and stops at the target, and everything left behind is reclaimed.
- **Monitor.** Two loops publish samples of the disk of different age. Correct
  means that readiness follows the disk and the upstreams in the end.
- **LLM client.** Probe and workers share one name and one lock, each call with its
  own timeout. Correct means that only the holder gives the lock back and always does,
  that the name is found once and never replaced, and that a service which says it
  is ready knows it.
- **Upload limit.** A body comes in messages, with a declared length that may be
  wrong. Correct means that no more than the limit is held, that the application
  gets the whole body or nothing, and that only what is larger is refused.
- **Daily logs.** The day is read by `emit`, by `maintain` and at the creation of the
  record, and midnight may fall between. Correct means that a record of a retained
  day is in a file, that the open file is never pruned, that expired files go without
  requests and in spite of failures, and that shutdown ends with the file closed for good.
- **Images and detections.** The image may be turned; SAM3's boxes may be anything.
  Correct means that a box that was accepted lies in the image it is drawn on.
- **Storage thresholds.** `status` and the cleanup compare the same numbers in
  different functions. Correct means that uploads are refused exactly while the
  cleanup works, and accepted where it stops.

## 2. The modules

| Module | Models | Extends or instantiates |
|---|---|---|
| `StreamAdmission` | what the gate promises: an admission rule that forgets nothing | |
| `StreamGate` | `LLMStreamGate` with its pruned dict | |
| `StreamGateHistory` | `StreamGate` and two history variables, the refinement mapping | `StreamGate`, `StreamAdmission` |
| `Pipeline` | `pipeline.py`, `submit_frame` and the shutdown | `StreamGate` (its variables are part of the pipeline's) |
| `AtomicAlarms` | what the deduplicator promises: every call is one step on a memory it shares with nobody | |
| `AlarmDedup` | `AlarmDeduplicator`, driven as `_deliver_alarm` drives it | `AtomicAlarms` |
| `EvidenceVault` | what the store promises its reader: evidence appears whole, stays and goes once, when due | |
| `EvidenceStore` | `storage.py`, file operation by file operation | `EvidenceVault` |
| `ModelName` | what callers see of the model name: written once, from a list of one model, without a lock | |
| `LlmClient` | the model name of `LLMClient` and its lock | |
| `RuntimeMonitor` | the loops of `monitoring.py`, both probes and `ready` | `LlmClient` (its variables are part of the monitor's), `ModelName` |
| `LogJournal` | what the log directory shows: a journal that loses whole expired days and nothing else | |
| `DailyLog` | `DailyLogHandler` and `configured_logging` | `LogJournal` |
| `UploadLimit` | `UploadLimitMiddleware`, one request | |
| `StorageRules` | the comparisons of `status`, `_under_pressure`, `_at_cleanup_target` | |
| `Detections` | `prepare_image`, `parse_detections`, the clamping of `_annotate` | |
| `MC*` | instances for TLC: constants, symmetry sets | the module they are named for |
| `*Proofs` | theorems | the module they are about, `TLAPS` |

A mutant (a plausible bug of a definition) stands immediately before the
definition it would replace, with a name that says what is wrong with it. No
action refers to one.

### StreamAdmission, StreamGate, StreamGateHistory

`admit` awaits nothing, so each of its ways out is one action: `RefuseInflight`
(the first return, which neither prunes nor counts), `RefuseCooldown` and `Grant`.
Both of the latter prune first when the counter reaches `PruneEvery`: `Pruned` is
the table the decision is made on. `release` is `Release`; it discards, so it is
enabled for streams that are not active as well. `granted` and `answer` are history
variables: the true last admission of every stream, and the last answer given.
With them `ImplementsAdmission` is the refinement `StreamGate => StreamAdmission`.

### Pipeline

Everything runs on one event loop, so an action is the code between two awaits.
A worker has no name: `place[f]` is the await in which the task holding frame `f`
is suspended, and a pool has a free worker while fewer frames than its size are
in its places.

| `place` | Code |
|---|---|
| `client`, `decoding` | `submit_frame` before, and suspended in, the decoding |
| `sam3_queue`, `llm_queue` | the item is in the queue |
| `detecting` | in `sam3.detect` |
| `putting` | in `llm_queue.put` of a full queue, slot held |
| `confirming` | in `llm.confirm` |
| `saving`, `annotating` | in `evidence.save`, in the fallback annotation after it failed |
| `reserving`, `sending` | in `reserve`, in `send_alarm` |
| `declined`, `raised`, `sent` | in `finish`, after `send_alarm` returned not-True, raised, returned True |
| `updating` | in `update_alarm` |
| `rejected`, `done`, `dropped` | refused, dealt with, cancelled by shutdown |

`phase` is the progress of the lifespan's `finally`: `monitor.stop()` precedes
`pipeline.stop()` (`main.py:111`), so readiness is gone one phase before
`accepting`. `cancel()` makes the next resumption of every worker raise, so after
`cancelled` only the `Cancel*` actions, the code of the `finally` and
`except BaseException` blocks, are possible. The monitor's readiness is not part of
this module: an upload may be refused at any time, and is never accepted once
the monitor is stopping.

`MCPipelineLoad` is the instance for liveness. Its behaviours begin in one of two
states. `Quiet` is the idle service with three frames of three streams still to come.
`Jammed` is the state of the repository's backpressure test
(`tests/test_service.py:474`) with one more SAM3 worker: the LLM worker is busy, the
LLM queue is full, and both SAM3 workers are blocked in `put`. Starting there saves
the interleavings of four uploads on the way. `Jammed` is a reachable state of `Spec`:
with `INVARIANT NeverJammed` and `SPECIFICATION Spec`, TLC prints a way to it.

### AlarmDedup

`call[t].at` is the statement of a call and the other fields its local variables.
The lock is held across `ReadRow`, `DeleteRow` and `Write`, which are the thread's
work; other calls, ticks, clock steps and a crash come in between. The calls are
not assumed to be one per stream: in the service the gate guarantees that
(`ReservationIsFree` of `Pipeline`), but the class promises it by itself. `Crash`
also stands for the cancellation of a delivery at shutdown: both lose the call and
its reservation and keep the database. `NewCall` fixes the stream in the initial
state; `Call` chooses the hazards when the frame arrives.

`SilenceIsShort` says that a suppression is never stale: `finish` wrote a row of the
stream less than the cooldown ago by the clock of that moment (or with a stamp within
the tolerance of the future). A call whose write failed ends as `unrecorded` and does
not count. The property is about the row, and so it bounds the time since
*anything* was recorded for the stream: `reserve` merges the hazards of the row into
the new one and `finish` stamps them all, so a hazard of an earlier alarm is withheld
until a cooldown after the latest alarm of its stream.

`delivered` is a history variable: the alarms the receiver got. `excused` is one as
well: the streams whose memory of an alarm was lost in a way the design accepts (a
row that could not be read or written, an answer that was lost after the alarm
arrived, a quarantined database, a crash between the answer and the commit, a step
of the wall clock, an ignored row of the far future). `NoDuplicateAlarm` speaks
about the others. `SuppressedWasAlarmed` excuses nothing.

`ImplementsAtomic` is the refinement `AlarmDedup => AtomicAlarms`. The abstract
deduplicator has no lock and no threads: a call is refused, suppressed or granted in
one step, by the last alarm recorded for its stream and the reservations at that step,
and `finish` records in one. The mapping (`AlarmOf`, `Memory`) takes a call that reads,
decides or deletes for one that has not answered yet, and the row of a call that
holds the lock to write for the row the stream already has. An entry counts in the abstract
memory while it is younger than the cooldown, so pruning and deleting rows are
stuttering steps. Of the streams in `excused` only the reservations are promised:
their row may say anything.

### EvidenceStore

`job[e]` is the statement of the save or update of an event, `entry[e]` its
directory: absent, under its staging name or under its final name, with the files
in it and the mtime cleanup looks at. `sweep` is the one maintenance thread:
`maintain` takes its listing (`StartSweep`), handles the temporary paths, then the
expired events, then, above the threshold, the oldest. A removal is not atomic:
`BeginRemoval` makes `rmtree`'s listing, each `Unlink` is a step and so is the
`rmdir` with the removal of emptied parents. One stream is modelled: `parents` is
the set of days whose directories exist, which `parent.mkdir` creates and
`_remove_empty_parents` removes.

`ImplementsVault` is the refinement `EvidenceStore => EvidenceVault`, for a reader that
looks at final names (`Found`): an event is there with all its files or not at all, and
once it is given up, for its age or past its grace, it is not found again. What
`rmtree` has begun to take apart (`cut`) counts as given up: a crash there leaves a
rest under a final name, which is finding 2. Staging, failed saves, restarts and passes are
stuttering steps.

A save or an update that fails cleans up after itself as far as it can: `LeaveStaging`
and `LeaveUpdate` are what `rmtree(ignore_errors=True)` and the `finally` may leave.

`PassReclaims` is about a pass that ends and the crashes, failures and passes before
it. Three kinds of things that were stale when the pass began are gone when it ends:
staging directories, temporary alarm files and complete events past their retention,
save those whose removal the disk refused in this pass (`sweep.refused`, a history).
It does not cover the rest of a removal that was interrupted under a final name. No
pass sees that, which is finding 2.

Abstracted: the listing of `_owned_paths` is taken at once; bytes and inodes are
one measure, the number of directories (`StorageRules` has the comparisons of the
real ones); the `-NN` suffix for equal names is left
out because saves have distinct times; drawing and the contents of `metadata.json`
are left out. `Boot` followed by a sweep is `initialize`.

### LlmClient and RuntimeMonitor

`loop` is the await each loop is suspended in. `Refresh` samples the disk in a
thread and `Publish` assigns the status on the loop, so a sample can be published
after a newer one of the other loop. The initial states are all that `start()` can
end in. `alarm_required_for_readiness` (a constant of the settings), the status-log
loop (it keeps no state) and `pipeline.healthy` (it is constant while the service
runs) are left out.

`stage[c]` is the await a caller of `_model_name` is suspended in: `health` (the
probe's first request), `queued` (for the lock), `looking` (holds the lock, asks
`/models`), then `named` or `failed`. The two tests of the double-checked lock are in
`GetName` and `Enter`. `served` is what `/models` would list, and empty while the
service does not answer. Callers time out only while the service does not answer or
another caller holds the lock; who gets a free lock next is left open, which covers
asyncio's order. The monitor's probe of the LLM is `ProbeStarts` up to `Over("llm")`;
the workers are `confirm()` up to the name. What follows (the chat completion) is
`confirming` in `Pipeline`. `LLM_MODEL` may be set or empty.

`ImplementsModelName` is the refinement `RuntimeMonitor => ModelName`: a caller that
waits, for the lock or for an answer, is one that asks (`Asks`), and every step of the
client is a stutter, a failure, an answer with the name there is, or the one that
writes it.

### DailyLog

A thread's `at` is its statement: `handle` (waits for the handler's RLock), `roll` and
`write` (holds it), and for the retention thread `sleep` and `maintain`. `Midnight` may
come between any two of them, and each reads `today` anew, as the code calls
`beijing_today()` anew. A call of `maintain` is one step: it holds the lock, and the
day it reads is read once. Files are named by their day; others in the directory are
ignored by the code and left out. `main` is the progress of `configured_logging`.
`Exit` is the end of the process at any time, after which it may start again on the
files that are left.

`ImplementsJournal` is the refinement `DailyLog => LogJournal`, for a reader of the
directory (`Shown`): records are added under the day of their creation or a later one
while a handler is in use, whole days go when they have expired, a new
record brings none back, and a process that starts first drops all that has expired. Roll-overs and
the lock are stuttering steps.

### UploadLimit, StorageRules, Detections and MCRules

`UploadLimit` is one request: `Receive(m)` is an iteration of the loop for a body
message, `ClientGone` the iteration that gets a disconnect, `AppReceives` a call of
`replay()`. `sent` is a history variable. The other two modules are functions:
`IsReady`, `CapacityCleanup` and `AtTarget` of settings and a usage of the disk;
`Parsed` and `Drawn` of an image and an item of SAM3's answer. Their inputs are
variables that are chosen in the initial state and never change, so TLC judges
every input. `MCRules` puts the three side by side: an initial state is about one.
Percentages and coordinates are integers (in `Detections` halves of a pixel), where the
code has floats: it only compares them.

## 3. The runs

Cooldowns, ages and clocks count ticks: only their order matters, and every
comparison in the code is of a difference with one of these constants.

| Run | Instance | Shows |
|---|---|---|
| `stream_gate` | 3 streams, cooldown 2, prune every 3 operations, clock to 6 | pruning only drops expired entries (`HInv`), the gate implements the rule that forgets nothing (`ImplementsAdmission`) |
| `pipeline_safety` (`MCPipeline`) | 3 frames of 2 streams, queues of 1, pools of 2 | slots, `task_done`, drain, reservations, counters and late uploads, over every failure, verdict and moment of shutdown |
| `pipeline_liveness` (`MCPipelineLoad`) | 4 frames of 4 streams, queues of 1, 2 SAM3 workers, 1 LLM worker, from `Quiet` and from `Jammed`; no cooldown (0 is a legal setting), so that only slots, queues and workers hold a frame up | `FramesSettle`, `ShutdownEnds` |
| `dedup_safety` | 3 calls of one stream, 1 fault, 1 crash, 1 clock step | the lock, the reservations, no repeated alarm, no stale suppression, every call as if it were one step (`ImplementsAtomic`) |
| `dedup_liveness` | 2 calls of up to 2 streams, same faults | every delivery ends; nothing but a received alarm suppresses |
| `daily_log` | 2 logging threads, retention of 2 days, clock to day 2, 1 failing file operation, any restarts | kept records and the open file (`RecentKept`), the directory as a journal (`ImplementsJournal`), expiry, shutdown |
| `store_safety` | 2 events, 1 fault, 1 crash, thresholds 2 and 1 | evidence found whole or not at all (`ImplementsVault`), saves and fresh events safe from cleanup, oldest first, no stale staging directory, temporary file or complete event left by a pass |
| `rules` | limit 3, messages of at most 2, 3 messages; images to 2 by 2 pixels, boxes from half a pixel outside; 4 percentages, 4 sizes | the upload limit, boxes that fit, thresholds that agree |
| `store_race` | 2 events, no fault | a violation, see findings |
| `store_retention` | 1 event, 1 crash | a violation, see findings |
| `monitor_readiness` | the disk fills and drains, upstreams come and go, 2 model names, 1 worker next to the probe | readiness follows the environment in the end; the client's lock and name |
| `monitor_outage` | as above, and the data directory may vanish | a violation, see findings |

**Why the bounds are enough.** In `pipeline_safety` three frames of which two share a
stream are the smallest instance in which a second frame of a stream arrives at every
moment of the first while another stream goes its own way. The gate lets one candidate
per stream pass, so at most two frames are beyond it at a time: the queues fill and a
`put` blocks for a moment, but never while an LLM worker is busy. That takes three
streams (one candidate confirmed, one in the queue, one in `put`), and four for both
SAM3 workers to be blocked at once. So `pipeline_liveness` has four, and one LLM worker.
In `pipeline_safety` two LLM workers let two deliveries overlap. A cooldown of 1 with a clock
of 1 has the stream both cooling down and free again, and pruning every second
operation happens both in refusals and in grants. Three alarms are a first one, one
that merges with it, and one that is judged by the merged row; two of them overlap
in every order. One fault, one crash and one clock step each may come anywhere. In
the store two events are the smallest instance with an oldest one. In `store_safety` a
day of 4 under a clock of 4 leaves time 3 for both events to be past their grace and
within their retention, where the order of capacity cleanup matters, and time 4 for
them to expire; in the other store runs days are shorter, so that events of two days
exist side by side.

Two logging threads are the fewest that wait for the same lock at a roll-over while the
retention thread does too; a retention of 2 under a clock of 2 has files that are
kept, on the boundary and expired. Two names and one worker besides the probe are
enough for a caller to be overtaken in the look-up by another that got a different
answer. A limit of 3 with messages of up to 2 is met exactly, crossed by the last
message and crossed in the middle. In images of 1 and 2 pixels the sides differ, so a
turned one has another shape, and a box in units of half a pixel can lie within the
last pixel, where `_annotate` clamps once more.

The bounds themselves are `MaxClock`, `MaxTime` (clocks), `MaxFaults`, `MaxCrashes`,
`MaxSteps` (how often the environment misbehaves), `MaxDay`, `MaxChunk`, `MaxMessages`,
`MaxSide`, `MaxOffset` and `MaxStall`. `MaxStall` is an
assumption about the environment and not only a bound (`StallIsShort`): between two
file operations of a save less time passes than `evidence_tmp_max_age_seconds` (3600 s
by default), and in `store_safety` also less than `evidence_cleanup_grace_seconds`
(300 s). A save that stalls longer than the former between two writes can lose its
staging directory to a pass.

`CHECK_DEADLOCK FALSE` stands in the `Dedup*` and `Store*` configurations because
there the bounded clock and the finite calls really end. `Pipeline` has `Stopped`
as the only state without another step and is checked for deadlock, as are the gate
and the monitor. Symmetry is used for safety only: over the calls, the events and
the streams, which no definition tells apart.

**Fairness.** The event loop runs every ready task, so weak fairness of a task's
step is what asyncio provides, as long as the await ends:

- `WorkersRun`: SAM3 and LLM calls have timeouts (15 s and 60 s by default), file
  and database work returns, and `send_alarm`, which has no timeout in the code, is
  assumed to return. Weak fairness is enough for a worker blocked in `put` because
  the frames of an instance are finite; with an endless supply of frames it could
  lose the free place each time.
- `ShutdownRuns`: the deadline timer fires and cancellations are delivered. This is
  all `ShutdownEnds` assumes: no upstream, thread or alarm call has to answer.
- `AlarmDedup!FairSpec`: a thread ends (SQLite waits 5 s for its lock) and so does
  the alarm call. Nothing obliges the process to restart or the clock to advance.
- `EvidenceStore!FairSpec`: the process is restarted, passes are started and end,
  time goes on to its bound.
- `RuntimeMonitor!Spec`: each loop goes on, since sleeps end, probes have timeouts and a
  pass ends; a worker inside `confirm` goes on, for it has its own timeout. The environment is under no obligation: the properties say what
  follows when it stops changing.

- `DailyLog!Spec`: threads go on. The steps that need the handler's lock are strongly
  fair: the lock is held for single writes, and a thread that waits for it gets it some
  time. Nothing obliges anybody to log, midnight to come or shutdown to begin;
  `main # "on"` keeps fairness off the start of the shutdown.

## 4. Findings

Each is a run of the model that violates a sentence of the documentation or the
code's own comments. `PROJECT.json` quotes the lines.

1. `store_race`. `save` makes the stream directory and then the staging directory
   (`storage.py:192`, `201`). A pass that has just emptied the stream directory
   removes it in between; `FileNotFoundError` is not caught and a confirmed
   frame is not saved although the disk is healthy.
2. `store_retention`. A crash in the middle of `rmtree` leaves a directory under a
   final name with fewer than three files. `_owned_paths` takes it neither for an
   event nor for a temporary path (`storage.py:318`), so no pass ever removes it.
3. `monitor_outage`. `status()` catches a missing data directory and then calls
   `disk_usage`, which raises. Neither loop guards `refresh_storage`
   (`monitoring.py:187`), so its task ends and the service stays unready after the
   directory is back.

## 5. What is proved

TLAPS checks these for all values of the constants that satisfy the named
assumptions: any numbers of frames, streams, calls, faults and crashes, any queue
and pool sizes, any cooldowns.

**The gate** (`StreamGateProofs`; `GateAssumption`). `HInv` is inductive: types, no
time of the future, and `TableFaithful`, which says that the pruned table agrees with
`granted` where it has an entry and that what it lacks is past its cooldown. From it
`Cooling(s)` and the abstract `Waited(s)` are opposites in every reachable state, so
each action of the gate is the action of `StreamAdmission` of the same kind. This
gives `GateInvariant`, `GrantsAreSpaced` and `GateImplementsAdmission`.

**The pipeline** (`PipelineProofs`; `PipelineAssumption`). The invariants are counts
and sets over `place`, and a step moves at most one frame. The lemmas about `Shift`
(one frame moves from one set of places to another, a cardinality changes by one)
and `Stay` are therefore stated once, and every action is classified by them.
What a step does to the queues, the counters and the gate's table is classified
in the same way (`Bounded` for the steps that touch them, `Unbound` for the rest).
The strengthenings are small: `UInv` adds that every frame has a place,
`Covered` that a reservation belongs to a frame at `sending` or in `finish`,
`Drained` that no frame is left in the SAM3 places once the first join returned, and
`TInv` puts them together with the sizes of queues and pools (`PoolsOK`, `Bounds`). Results:
`PipelineTypes`; `PipelineDrivesGate` (every behaviour of the pipeline is one of
`StreamGate`, which connects the two modules); `GateIsExact`;
`ReservationsAreFree`, from `GateExact` and `Covered`: a held reservation would be
that of a second candidate of the stream; `UnfinishedIsExact`; and
`DrainIsLossless`, from `UnfinishedExact` and the fact that the join on the SAM3
queue precedes that on the LLM queue and nothing enters the first one any more.
`CountsAreBalanced` needs no strengthening but the types: each equation says that the
difference of two counters is the number of frames in a set of places (`Undetected`,
`Unput`, `Unconfirmed`, `Unsaved`), and a step that moves a frame into or out of the
set counts it. `NothingIsAcceptedLate` follows from the guards of the steps that
accept a frame and the order of `phase`.

**The deduplicator** (`DedupAssumption`), in two modules.
`AlarmDedupProofs`: `DedupTypes`, `LockIsExact` and `ReservationsAreExact`. The last
needs `Untaken`: a call that read the row under the lock has seen its stream
unreserved, and nobody else can have reserved it since.
`AlarmMemoryProofs`: `OnlyAlarmsSuppress`. The strengthening `Heard` says that every
hazard in a row, in a local copy of one or in a reservation was delivered, or
belongs to the alarm that the call is just sending. `SilenceEnds` rests on
`Recorded`: every row and every copy of one bears the stamp of a call that wrote it
and is done, and a call that is done does not change any more.
`NoAlarmRepeats`: the strengthening says, of a stream that is
not excused: the row holds every recent delivery (`Remembered`) unless a call is
between its delivery and the end of `finish` (`Settled` is false), and then its
reservation holds them; a call that decides has the current row (`Knows`); no time
lies in the future (`Past`); and a process that is down has no call half-way
(`DownIsIdle`). Pruning keeps it because `Retention >=
Cooldown`, which the field bounds of `config.py` imply (a day at most against a day at
least).
`DedupImplementsAtomic`: each action of `AlarmDedup` is one of `AtomicAlarms` or a
stutter. What makes it hold: a call that decides holds the lock, so no other call
writes its row or reserves its stream meanwhile (`DecidesUnbusy`), and the row it
has read is what the stream remembers now, or has lost (`Knows`); a row that is taken for
future or expired does not count in the memory either; `PruneRemains`, that pruning
keeps what counts.

**The evidence store** (`StoreProofs`; `StoreAssumption` and `StallIsShort`). The second
assumption is about the environment: a save that is alive takes less time between two
file operations than `evidence_tmp_max_age_seconds`. The invariant speaks of one event
at a time (`EventOK`) and of the pass (`SweepOK`). `SaveOK`: a living save has a young
staging directory with all it wrote so far, so no pass that looks at ages takes it.
`CutOK`: what was removed under a final name was expired or past its grace (`Due`) when
the removal began, and stays so. `SweepOK`: what the pass lists under a final name
stays complete until the pass itself removes it, and what it is just removing belongs
to no save. `EntryOK` adds what the directories of the days need: the day's
directory exists as long as an event of that day does. Results: `StoreTypes`,
`FinalStaysComplete`, `StoreImplementsVault`, `StagedSavesSucceed` and
`UpdatesAreGraced`. In the refinement an event is found when the rename gives it its
name, by `SaveOK` with all its files, and given up when a removal of it begins, by
`SweepOK` when it is due; every other step leaves what is found alone. `UpdatesAreGraced` has a
hypothesis of its own, `Grace <= TmpMaxAge`: a pass that takes the temporary file of an
update for a leftover would otherwise spoil an update within the grace. `config.py`
does not enforce it; its defaults (300 s and 3600 s) satisfy it.

Two more invariants serve the pass as a whole. `ListOK`: a complete event that the pass
has not listed, or no longer has, is in its grace; with `UsedOK` (between two removals
under pressure the disk is above the target) it gives `PressureIsOrderly`. Its hypothesis
`MaxStall < Grace` is about an event that gets its final name after the listing: a save
slower than the grace would bring it in old, unlisted and passed over. `ReclaimOK`: what
was stale when the pass began is still to be handled, or is just being removed and then
is as `rmtree` listed it, or its removal was refused. It gives `PassesReclaim`, for which
`StepTouches` is the key: a directory that changes during a pass is touched, renamed
while young, or gone, also when a save or an update fails.

**The monitor and the LLM client** (`MonitorProofs`; `MonitorAssumption`). One invariant
for both, as the probe is a caller of the client: the holder of the lock is the caller
in the look-up (`LockExact`), a caller that looks the name up finds it empty
(`Unnamed`, which is what the second test under the lock is for), a probe that
ended well leaves a name (`ProbeKnows`), and so does the state it publishes
(`StateKnows`). Results: `MonitorTypes`, `ClientLockIsExact`, `NameNeverChanges`,
`ReadyMeansNamed`; and `ClientImplementsName`, where `Unnamed` makes the look-up the step
that writes an empty name, and no other.

**The daily logs** (`DailyLogProofs`; `LogAssumption`). `ThreadsOK`: the lock is held by
exactly the thread inside `emit`, and a record about to be written is not of a day after
that of the open file. `MainOK`: a handler that is not yet made or closed for good is not
open and its lock is free. `FilesOK`: a record lies in a file of its own day or a
later one, so pruning by the file's day never takes a record that should be retained.
Results: `LogTypes`, `RecentLogsStay`, `ClosedStaysClosed`. `LogImplementsJournal`
needs two more invariants: a file that has not expired is there, with all that was
written to it (`FreshKept`), and so is the one a thread is about to open (`OpensFresh`:
it holds the lock since it compared the days, so nobody has pruned meanwhile). Without
them a thread could open a deleted file anew, and the records that were in it
would count as shown again, all at once.

**Rules without interleaving** (`RulesProofs`; `LimitAssumption`, `RulesAssumption`,
`DetectionAssumption`). `BufferIsBounded` and `BodiesAreWhole`: the invariant `UploadInv` says that while a body
is read, what came is buffered, counted and given to nobody (`Reading`), and else that
what was given and what is still buffered make up what was sent. `Total`, the size of a sequence of messages, is a
recursive function over the indices; what the proof needs of it (`TotalAppend`,
`TotalTail`) follows by induction, stated as a fact about sets of naturals
(`NatSetInduction`: the theorems of the library take an operator, which the provers
cannot instantiate). `RefusalsAreCleaned`: the thresholds of `status` and of the
cleanup agree for all settings and disks. `AnyBoxFits`: for every image and every box, whatever
its coordinates, what `parse_detections` accepts is within the image with an area, and
`_annotate` draws inside it; `AcceptedBoxesFit` is the invariant of the run, a consequence.

**Only model-checked.** Liveness: TLAPS has no support for the fairness arguments
(`ENABLED`), so `FramesSettle`, `DeliveryEnds`, `ExpiredGo`, both `ShutdownEnds`,
`UnreadyWhenFull` and `ReadyWhenWell` are checked by TLC alone. Every safety property
of a passing run is a theorem.

## 6. What is not modelled, and why

- `clients.py`: the bodies of the requests and the schema of the verdict. The pipeline
  models the outcomes of both calls: an answer, a rejection, an error.
- `images.py`: decoding itself, which is Pillow's. Its limit on decompression bombs is
  one more way to be too large. `domain.py`, `time_utils.py`: records and time zones.
  `alarm.py`: a placeholder; the models cover every result its callers handle.
- `config.py` beyond the storage watermarks: its bounds appear as the modules'
  assumptions.
- `logging_setup.py`: line formats and the access filter, which keep no state.
- In the deduplicator, the deletion of old quarantined database files, which nothing
  reads. In the store, two saves with equal names and more than one stream; the label
  texts of the annotation. In the pipeline, threads of a save that go on after their
  task was cancelled at shutdown.
- Counters of the pipeline that no equation needs: `rejected_full` and
  `capture_clock_skew_warning` (`main.py:145`, `161`, `176`), `alarm_after_save_failure`,
  `alarm_state_failed` and `alarm_metadata_failed` (`pipeline.py:196`, `252`, `272`). The
  model has one `llm_suppressed` for `llm_suppressed_stream_inflight` and
  `llm_suppressed_cooldown`, and one `llm_rejected` for the counters of the verdicts that
  do not confirm. An alarm that is declined (`send_alarm` returns not-True) has no
  counter in the code, so `CountsBalance` stops at `confirmed`.
- In `Detections`, an answer that has no `results` array: it raises `UpstreamError` as a
  malformed item does, before there is anything to clamp.
- `scripts/smoke_test.py` is a client for manual use.

## 7. Plan

1. *(done)* Gate and its abstract rule; pipeline; deduplicator and its abstract
   specification; store and its reader's view; monitor with the LLM client; upload
   limit, log files, storage thresholds and detections; every safety property proved.
2. An abstract specification still worth stating: `Pipeline` as a user of
   `AtomicAlarms`.
