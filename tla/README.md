# FrameFleet: specifications, model checking and proofs

FrameFleet turns videos into edge-detected GIFs on a fleet of workers. A *source worker* splits a
video, asks the *Entry server* for a job, processes the segments it has engines for and uploads
the others to peers; Entry keeps the jobs, the tasks and the reservations; the worker Entry picks
last assembles the GIF and reports it. This directory holds TLA+ modules for the concurrent core of
that program, TLC configurations that check them on small instances, and TLAPS proofs for every
size. Line references are to files under `src/`.

## 1. The system

| Part | State it keeps | Operations | Hard behaviour | What makes it correct |
|---|---|---|---|---|
| Worker registry (`entry-server/internal/service/worker_registry.go`) | workers by ID and address, online flag, slots, disk, Entry's reservations, backpressure | register, heartbeat, expire, refresh backpressure, choose and reserve, release | reservations of many request goroutines; Go map order; clamped counters | reserved = what tasks hold; the choice does not depend on the map order |
| Job manager (`.../service/job_manager.go`) | jobs, tasks, identity index | create, accept, complete, fail, start assembly, assembled report, query | every handler drops its mutex between sections and posts HTTP while holding none | one job per video, one assembly per job, final tasks stay, nothing leaks, every job ends |
| Entry HTTP layer (`.../handlers`, `.../server`) | none | routes; expiry and backpressure tickers | one goroutine per request, two RWMutexes | no wait cycle, no lock over HTTP |
| Worker handlers (`worker-node/go/internal/handlers`) | files | take a segment, process it, assemble, report | background goroutines with `context.Background()`; reports sent once | a task taken is reported |
| Engine pool (`.../enginepool`) | idle channel, slot table, children | start, acquire, try, call, release, stop | three kinds of synchronisation (pool mutex, channel, engine mutex) that do not nest | an engine has one user; no stale response; Stop ends |
| Source runner (`.../sourceworker/runner.go`) | pending and done videos, leases | scan, split, plan, create with retries, dispatch | leases held over HTTP calls and early returns; scan and processing race | each video once; leases come back |
| Heartbeat, agent, worker state | worker ID, backpressure, running tasks | register, heartbeat, shut down | stale answers, restarts, a stopped process that still listens | a live worker stays online, a silent one is found; a source is paused and resumed in time |
| C++ engine | none between requests | split, process, assemble | files written in place, rounded boundaries, wrong frame counts | segments cover the video; a completed artifact and GIF are whole |

Workers call Entry (`POST /workers/register`, `/workers/heartbeat`, `/jobs`,
`/tasks/:id/accepted|completed|failed`, `/jobs/:id/assembled`), Entry calls workers
(`/tasks/assemble_gif`, `/jobs/result`), and workers call each other (segment upload, artifact
download). There is no persistence: a restart forgets everything.

`PROJECT.json` lists the components with their status, the runs, the mutants, the lines each
definition stands for, the findings and the hazards the properties were written for.

## 2. Modules

```
SlotPool <-(refines)- EnginePool <--- SourceRunner <--- SourceRunnerProofs

VideoResults <-(refines)- JobManager
WorkerRegistry <--- JobManager <--- JobManagerProofs <--- JobManagerReservations
      ^                 ^                                            ^
      |               Fleet <----------------------------------- FleetProofs
      |--- WorkerSelection <--- WorkerSelectionProofs
      '--- WorkerAgent <--- WorkerAgentProofs

EntryLocks <--- EntryLocksProofs                 MediaEngine <--- MediaEngineProofs
```

`A <--- B`: module B extends module A. Each module that is checked with definitions or
symmetry for its constants has a module `MC...` beside it.

### WorkerRegistry and JobManager: the Entry server

A registry method is one critical section, so it is one action or a helper used inside one. A
manager's handler is several sections, so it is several actions, and a program counter says where
its goroutine stands: `call[j]` for the `CreateJob` call that generated job ID `j`, `post[t]` for
the goroutine that moved segment task `t` to a final status (the one that runs `startAssembleGIF`
when `t` was last), `report[t]` for the handler of the assembled report. Two elements of `Jobs`
with the same source and video are two concurrent calls for one video.

| Code | Actions |
|---|---|
| `CreateJob`, `createJobWithTaskPlan` | `CreateJob`, `ReserveSegment` (one per segment, in order), `GiveUpReserving`, `RejectJob`, `CommitJob`, `CommitFindsJob` |
| `AcceptSegmentTask`, `CompleteSegmentTask`, `FailSegmentTask` | the same names, then `ReleaseSegmentSlot` after the unlock |
| `startAssembleGIF` | `SnapshotSegments`, `PickAssembleWorker` / `NoAssembleWorker`, `AssembleIDError`, `InsertAssembleTask`, `StartAccepted`, `StartRefused`, `StartRefusedForStorage`, `StartUndelivered`, `StartAnswerLost` |
| `markAssembleStartFailed`, `markJobFailed` | `MarkAssembleStartFailed` then `ReleaseAssembleStart`; `MarkJobFailed` |
| `AssembleJob` | `CompleteAssembleJob`, `FailAssembleJob`, `RejectAssembleReport`, then `ReleaseAssembleReport` |
| `QueryJob` | `QueryJob`, an operator: it changes nothing |
| worker's `StartAssembleGIF`, `runAssembleGIF` | `WorkerStartsAssemble`, `WorkerRefusesAssemble`, and the report actions |

The data of a video is one thing only: the disk an assembly needs, any member of `DiskNeeds`. Time
is abstracted: a worker may be found expired at any check. Worker IDs are positive integers in
place of strings, in the same kind of order. `LossyStart` says whether Entry may miss the answer
of a worker that did get the start request; the exact slot account and the agreement of job and
task are true without that fault and false with it (finding 2 below).

### VideoResults: what clients are told

The abstract specification of the job manager: for each video the answer a query gets, and whether
a segment of it failed. `JobManager` defines the refinement mapping (`Results == INSTANCE
VideoResults WITH ...`), and `ImplementsVideoResults` says that every run of Entry is one of
`VideoResults`. Two of its six steps are the findings 1 and 2; without either the refinement fails.

### WorkerSelection: the searches behind the atomic choices

`JobManager` takes a search of the registry as one step with the outcome `IsLeastBusy` or
`IsDiskChoice`. `WorkerSelection` runs the loops of `ReserveLeastBusyWorker` and
`PickWorkerForDiskReservation` entry by entry, in every order Go's map iteration can take, and
shows that the step that ends them is that atomic step. It also holds the two implementations of
`estimateAssembleDiskBytes`, Entry's and the worker's.

### EntryLocks: the two RWMutexes

The paths of every handler, reduced to lock operations and outgoing HTTP requests, and Go's
RWMutex as state: a writer that waits keeps new readers out, and the readers that queued behind a
writer come before the next one. `JobManager` treats a critical section as a step; that this
cannot hang is what `EntryLocks` adds. docs/architecture-distilled.md:226-230 forbids to hold the
manager's and the registry's lock together; job_manager.go:161 does (a second create finds the job
and releases its reservations). `NoWaitCycle` shows that this one nesting is harmless, because no
path takes the two locks in the other order.

### Fleet: Entry and the workers that hold its tasks

Extends `JobManager`. There a worker may report on its task at any time; here a report is sent by a
goroutine that came to it, once. `runner[j]` and `next[j]` follow `registerAndDispatch` over the
assignments, `work[t]` a segment task through `UploadSegment`, `processUploadedSegment` or
`processInternalSegment`, `gather[t]` and `got[t]` the downloads, the assembly and the report of
`runAssembleGIF`, and `artifact[t]` the file an engine writes. A worker may crash: its goroutines
are gone, its files and Entry's record of it stay, and it may register again under its address.
`Losses` says which messages may be lost: the create call, an upload or its answer, an accept, a
report, heartbeats. `cut` collects the tasks and assemblies such a fault, or the runner's own early
return after a failed upload, has cut off from Entry; the liveness properties are about the others.
When an uploader gives up, the request's context ends, and with it the accept call or the report of
the failure (segments.go:115): `UploaderGone`.

### WorkerAgent: heartbeats, backpressure, start and stop

Extends `WorkerRegistry`. Time is discrete. A process goes through `Agent.Run`: registration and
its answer, the heartbeat loop, `router.Run`, the probe of its own address, the source runner.
SIGTERM cancels the context but nothing shuts the HTTP server down: the process is a `zombie` that
goes on serving at its address while a new one cannot listen there.

A heartbeat takes time: sent, handled by Entry in one critical section, the status read in another,
and the answer on its way, up to `Patience` ticks in all (the HTTP client's timeout of 5 s,
entryclient/client.go:23). Entry notes the time at which it handles it (worker_registry.go:126). A
heartbeat may fail at each of these points, and one that the client has given up may be handled
later (`LateHeartbeat`). The loop makes its ticker only after the first send has returned
(loop.go:48-50: `due = 0` until then); a ticker keeps one tick for a loop that is still sending
(`fired`) and drops the others. Clock ticks wait for what is due and for requests at the end of the
client's patience, for nothing else.

What Entry does with jobs is left to `JobManager`: here it reserves and releases slots at any time,
as many as it likes (up to `MaxReserved`), which includes the segments of one job at once and the
assemblies it reserves while sources are paused. What the runner does with the flag (`processOne`
looks at it before it takes a video) is `SetBackpressure` and `PopPendingSplit` of `SourceRunner`.
Entry may restart and forget everything; a worker it does not know any more keeps its ID and its
last status, as in the code. `since` only records: for how long a worker has been live and known,
and the fleet full or not full.

### EnginePool: leases on the C++ children

`at[h]` is where a goroutine stands between two critical sections (the table at the head of the
module), `idle` the content of the channel, `slot` the table `Snapshot` returns, `pipe[e]` the
requests whose response was not read yet. Acquire is three steps (look at the pool under its
mutex, receive, mark leased), Release two (mark idle, send), Call three (mark executing, write the
request with the engine locked, read the response), as in the code. `Stop` keeps the pool's mutex
over all its steps. A child may die at any time and stays in the pool. A context that ends is the
early return of `EngineCall`, or `CancelAcquire`. The agent calls `Start` and `Stop` once each, in
this order; a `Start` that fails ends the process.

### SlotPool: what the pool promises

A set of free engines and, per holder, the engine it leases; an engine changes hands in one step.
`EnginePool` maps its channel to `free` and the span from the receive to the send to `lease`
(`Slotted == INSTANCE SlotPool WITH ...`); `ImplementsSlotPool` says that it is a refinement.
After `Stop` a waiter may still be served and a lease may be let go without the engine coming back.

### SourceRunner: the source worker on the pool

Extends `EnginePool`: the runner's and the handlers' leases are the holders. `pc` follows
`processOne` through `splitVideo`, the plan (`TryAcquire` for each segment), `createJobWithRetry`
and the loop over the assignments. Of Entry the module keeps what the runner can observe: which
videos have a job, how far each task got, and what the create call answered. `Faults` names which
calls may fail half way (`create_answer`: the job is created, the answer lost; `upload`;
`report`). A lease the runner holds is released by `ReleaseInternalSegment` or by the deferred
function, `DeferredRelease`. The branches of `registerAndDispatch` for an unregistered worker, an
unknown mode or a missing slot, segment or address are left out: the agent registers before it
starts the runner, and Entry's answers always carry them. `Stop` is not part of this module.

### MediaEngine: the C++ operations

One video through `split_video` (by windows, by ffmpeg's segment muxer, or by byte ranges in the
fake mode), `process_segment` and `assemble_gif`. Times are integers in units of the last digit
`std::to_string` prints, so that the rounding of segment boundaries is in the model. An artifact is
a header with a frame count and the frames written so far; a container may announce a wrong count,
and a child may die at any frame, leaving a prefix of what it wrote. Frames are the announced ones:
what a container holds beyond its count is dropped (engine.cpp:662). ffmpeg and OpenCV are external.

## 3. Runs

| Run | Instance | Checks |
|---|---|---|
| `entry_duplicate_create` | 2 workers, 2 calls for one video, 2 segments, `LossyStart` | `TypeOK`, `NoSlotLeaks`, `OneJobPerIdentity`, `OneAssembleTaskPerJob`, `AssembleAfterSegments`, `FinalTaskStays` |
| `entry_two_jobs` | 2 workers with different offers, 2 videos of 1 segment, 2 disk needs | `SlotsExact`, `DiskExact`, `NoOrphanJob`, `JobAgreesWithAssembleTask` |
| `entry_failed_segment` | 2 workers, 1 video of 2 segments, fair | `FailedSegmentFailsJob`: violated |
| `entry_overwritten_result` | 2 workers, 2 videos of 1 segment, `LossyStart` | `JobAgreesWithAssembleTask`: violated |
| `worker_selection` | 3 workers, every registry over small counts and disks, every request | `SegmentChoiceIsAtomic`, `AssemblyChoiceIsAtomic`, `ChosenWorkerAccepts` |
| `entry_locks` | 3 interchangeable goroutines, jobs of up to 2 segments, every path of every handler | `NoLockAcrossHttp`, `UnlocksOwnLock`, `NoWaitCycle` |
| `fleet` | a source and a peer, 1 video of 2 segments, 1 crash, all losses but heartbeats, fair | `ClaimsAreBacked`, `TaskIsReported`, `FleetJobSettles`, `OnlyCutTasksKeepSlots`, `ImplementsVideoResults` |
| `agent` | 1 worker with 1 slot, interval 1, requests of up to 2 ticks, check 1, timeout 8, 1 lost heartbeat in a row, up to 3 reservations; any number of stops, kills and restarts | `LiveWorkerStaysOnline`, `SilentWorkerIsFound`, `PauseFollowsLoad` |
| `engine_pool` | 2 engines, 3 goroutines, fair | `EngineInOnePlace`, `SlotTableIsTrue`, `NoStaleResponse`, `StopReturns`, `ImplementsSlotPool` |
| `source` | 1 engine, 1 video of 2 segments, 2 attempts, 1 handler goroutine, all faults, fair | `TypeOK`, `LeasesReturned`, `HandledOnce`, `WaiterIsServed`, `SplitVideoIsHandled` |
| `source_lost_answer` | 1 engine, 1 video of 2 segments, lost create answers, fair | `EverySegmentReports`: violated |
| `media_engine` | 456 split requests, 5 muxer outputs, 5 kinds of segment files, up to 2 segments processed | `WindowsTile`, `SplitFollowsPolicy`, `BytesPartitioned`, `CompletedArtifactIsWhole`, `GifIsWhole` |

`FleetTypeOK`, `AgentTypeOK` and `EngineTypeOK` state the ranges of the variables of their modules;
they are no property of a run.

Why these bounds are enough. Two calls and two segments are what every race in `job_manager.go` is
between: two creations of one video, two last completions, a report and an answer, two jobs on one
worker. Disk that falls below an assembly's need between two steps is left to `entry_two_jobs`; in
`entry_duplicate_create` it stays at 2. Two workers give the choice a tie, a preference and an exhausted worker. Three workers
distinguish "first", "better" and "the fallback" in every visiting order. Three goroutines on two
engines make one wait while two interleave their marks; one engine makes the runner compete with
itself and with a handler, and gives a plan with an internal and an external segment. Two attempts
of four have a first and a last one. In `fleet` two segments may both be internal, both external or
mixed, and the crash may hit the source, the peer, or the worker that assembles, and be followed by
a registration under the old address. Two jobs would add only races that `entry_two_jobs` has. In
`entry_locks` a nested holder, a waiting writer and a reader behind it need three goroutines; a
circle through two locks needs two. In `agent` a request may outlast the interval, so ticks are
kept and dropped, and the timeout is the smallest the module's assumption allows; the longest gap
does occur. One worker is enough for its own heartbeats, and as Entry reserves freely the fleet is
full and not full at every moment; what more workers add is that the fleet's state changes by what
others do, which the theorems cover for any number. By hand the run also passes for the intervals
`(Interval, Patience, CheckInterval, Timeout, MaxLost)` = (2,1,1,7,1), (2,2,1,9,1), (1,1,2,6,2) and
(3,1,2,9,1). In
`media_engine` durations, sizes and limits are chosen so that they do not divide, and segment files
announce too many, too few and no frames. Beyond the bounds the safety properties that the proofs
cover hold for all values.

Bounds that are no part of the code: `MaxCrashes` (crashes in one behaviour), `MaxLost` (heartbeats
lost in a row: without such a bound a live worker does go offline), `MaxReserved` (slots reserved on
one worker), `MaxSegments` in `EntryLocks`, `MaxProcessed` in `MediaEngine` (a video of more segments is split only), and
`AgeCap`, past which a heartbeat's age makes no difference (`since` has a cap of the same kind).

`engine_pool` is the only run without a deadlock check: after `Stop` everything may rest.

### Fairness

Entry (`Fairness`): a goroutine that can take its next step takes it (it waits only for a mutex,
or for an HTTP call with a timeout), and workers that hold a task report on it in the end. The
latter is an assumption on the environment, and only `entry_failed_segment` uses it: its violation
does not come from a silent worker.
Fleet (`FleetFairness`): goroutines of Entry and of live workers go on. Each waits for a mutex, for
an engine (which it gets, by `WaiterIsServed`), or for an HTTP call that ends; a download has an
idle timeout in place of an overall one. Workers need not start, restart or send heartbeats.
Pool: a goroutine that can go on does, and a child answers or dies. For `WaiterIsServed` the
channel is first come first served (strong fairness of `Receive`; Go queues waiting receivers) and
handlers release what they hold (a `defer` in the code). `StopReturns` needs none of these two.
`WorkerAgent` states no fairness: its properties are bounds in ticks, and that the clock waits for
what is overdue is part of `Tick`.
Nobody has to send, scan, pop, stop or split successfully, and backpressure need not end.

## 4. What the checks found

1. **A failed job is revived** (`job_manager.go:340`). `AcceptSegmentTask` sets the job to
   `segment_running` without looking at its status. Accepted after another segment failed, the job
   leaves `failed` and never ends, against docs/architecture-distilled.md:572. `FleetJobSettles` is
   therefore stated for jobs without a failed segment, and `VideoResults` has the step `Reopen`.
2. **A completed job is overwritten** (`job_manager.go:886`). When only the answer to the start
   request is lost, `markAssembleStartFailed` fails the job after its assembly completed and was
   reported, and releases the reservation a second time (`:891`). `SlotsExact` and
   `JobAgreesWithAssembleTask` hold without that fault; `NoSlotLeaks` and `FinalTaskStays` hold
   with it, and `VideoResults` has the step `Overturn`.
3. **A retried create loses the job** (`sourceworker/runner.go:458`). The retry is answered
   `already_exists` without assignments; nothing is dispatched, the video is marked done and the
   leases of its internal segments are never released. `LeasesReturned` names this case as its one
   exception.

Four more observations, which no document contradicts clearly enough to be findings:

- *Whatever is cut off stays so.* Reports are sent once, Entry has no timeout for a task, and a
  runner that fails to upload a segment forgets those after it. `TaskIsReported` and
  `OnlyCutTasksKeepSlots` say that this is the only way a task stays open and a slot stays reserved.
- *Backpressure needs every worker to be saturated* (docs/architecture-distilled.md:500). With one
  producing source and one peer the source's external segments all go to the peer, the source's own
  reservations never pass its slots, and so backpressure never begins, while the peer's
  reservations grow with every video. Even while all sources are paused, jobs being created and
  assemblies reserve more: no number bounds `ReservedSlots`. What the code does keep is
  `PauseFollowsLoad`: a full fleet pauses its sources, and one that is not full resumes them, within
  `Reaction` = one check interval and the longest gap between two heartbeats.
- *The default timeout leaves no room for a lost heartbeat at the start.* With the defaults (interval
  10 s, timeout 30 s, client timeout 5 s) `Gap` is 20 s when no heartbeat is lost and 30 s when one
  is: the first heartbeat handled at once and answered after 5 s, the ticker made then, the next
  heartbeat lost, the one after it handled 5 s after it was sent. The assumption `Gap < Timeout`
  holds with `MaxLost = 0` only. Once the ticker runs, one lost heartbeat makes it 25 s.
- *A worker Entry has forgotten* keeps sending heartbeats under its old ID and keeps the last
  status. If that was "active", its source runner is paused until the process is restarted.
  `PauseFollowsLoad` is about workers that Entry knows.

## 5. Proofs

All theorems are for every value of the constants: any finite sets of workers, calls, videos and
goroutines, any number of segments, slots and attempts, any request to the engine. The assumptions
are the named `ASSUME`s of the modules (finite sets, positive counts, and in `WorkerAgent` that the
timeout is longer than `Gap`, the longest time between two handled heartbeats), and for some theorems `~LossyStart`.

| Module | Theorems |
|---|---|
| `JobManagerProofs` | `TypeCorrect`, `StructureInvariant`, `FailedStartInvariant`, `AssembledOnce`, `AssembledAfterSegments`, `IdentityIsUnique`, `TasksStayFinal`, `NoJobIsOrphaned`, `CompletedJobsStay`, `OutcomesAgree`, `EntryImplementsVideoResults`, `JobsAreCarriedOn` |
| `JobManagerReservations` | `SlotsNeverLeak`, `SlotsAreExact`, `DiskNeverLeaks`, `DiskIsExact` |
| `FleetProofs` | `FleetImplementsEntry`, `FleetImplementsVideoResults`, `FleetTypeCorrect`, `ClaimsStayBacked`, `HandsAndRecordsAgree`, `TasksStayHeld`, `AssembliesStayHeld`, `ReportsStayWelcome`, `JobsAreSettledAtRest`, `SlotsAreReturnedAtRest`, `RestStaysQuiet`, `ArtifactsAreWrittenOnce` |
| `WorkerSelectionProofs` | `EstimatesAgree`, `SegmentSearchCorrect`, `AssemblySearchCorrect`, `ChosenWorkersAccept` |
| `EntryLocksProofs` | `LocksGivenBack`, `HttpWithoutLocks`, `NoDeadlock` |
| `SourceRunnerProofs` | of the pool: `PoolInvariant`, `EnginesStayInPlace`, `SlotTableStaysTrue`, `ResponsesAreFresh`, `ReleaseNeverBlocks`, `PoolImplementsSlotPool`; of the runner: `RunnerInvariant`, `RunnerImplementsPool`, `WorkerEnginesStayInPlace`, `VideosHandledOnce`, `LeasesComeBack`, `RunnerTypeCorrect`, `WorkerImplementsSlotPool`, `WorkerReleaseNeverBlocks`, `RunnerNeverWaitsOnItself` |
| `WorkerAgentProofs` | `AgentInvariant`, `LiveWorkersStayOnline`, `SilentWorkersAreFound`, `PausesFollowLoad` |
| `MediaEngineProofs` | `WindowsAlwaysTile`, `SplitsFollowPolicy`, `BytesArePartitioned`, `CompletedArtifactsAreWhole`, `GifsAreWhole` |

**Entry.** None of the properties is inductive: that a job gets one assemble task depends on where
the goroutines of its completed segments stand. `StructureInv` says it: jobs and tasks enter the
maps with their call (`JobsMatchCalls`); among the goroutines of a job at most one is a *starter*,
one that will insert or has inserted the assemble task, and then all segments are complete
(`OneStarter`); the points of the starter, the worker's run and the report agree
(`AssemblyStages`); a completed job has a completed assembly (`CompletedHasAssembly`). The key
step is that `AllSegmentTasksCompleted` can become true only in the step that completes the last
segment. `FailedStartIsFinal` adds that, with no answer lost, a start counted as failed never ran.

**What clients are told.** For the refinement to `VideoResults`, `ResultsInv` joins the structure
with `OneJobPerIdentity`: because one job at most answers for a video, a step that changes the
status of a job changes one answer (`OneAnswerMoves`), and each action is then matched with
one of the six steps or a stutter. The hard case is `Reopen`: a
segment is accepted only while it is not final, and `FailedHasCause` says that a job is failed
because a segment failed or after all were done, so here a segment has failed.

**Reservations.** `SegmentHolders(w)` and `AssembleHolders(w)` are sets of tasks, and the theorems
are about their cardinalities and about the sum of the disk promised to the second. Each step
changes the sets by at most one element, or by one call's reservations; `FiniteSetTheorems` turns
that into arithmetic for slots. For disk the sum is a fold; `DiskSumTake` says that taking any one
task out of the set takes its share out of the sum. With `LossyStart` a reservation can be given
back twice, so only the inequality is kept; without it the accounts are exact.

**Fleet.** Each step of the composition is a step of `JobManager` or leaves Entry alone, so
`FleetSpec => Spec`, and all that is proved of Entry, where workers report when they like, holds
with workers that crash. `BackedInv` adds what a worker's goroutine knows when it is about to
report: the artifact or the GIF it reports is there, and a completed segment is never touched again.

**Who holds a task.** Entry has no timeout for a task, so a task nobody holds stays open for ever.
`JobsAreCarriedOn` follows a job inside Entry: one that has not ended has an open segment or an
assembly on its way, and an assembly handed over runs on its worker or was reported, whatever start
answers get lost. `HandsAndRecordsAgree` is the other side: where a runner stands in its
assignments and which goroutine has which segment or GIF fit Entry's records, but for what is in
`cut`. Together they give `OpenTasksAreHeld` and `OpenAssembliesAreHeld`: whatever Entry waits for
was cut off or is in the hands of a live process. In the other direction `ReportsAreTaken` says that
a report finds its task open.

**At rest.** `Resting` is the state in which no `CreateJob` call, runner, goroutine with a segment
or GIF, or goroutine of Entry has a step left; on the instance of `fleet` TLC finds it to be exactly
the states in which no fair action is enabled. There `TasksStayHeld` leaves only `cut`, so every job
has ended, has a failed segment or was cut off (`JobsSettledAtRest`), and with `NoSlotLeaks`
only cut tasks keep slots (`SlotsReturnedAtRest`). This is the safety part of
`FleetJobSettles` and `OnlyCutTasksKeepSlots`, for any number of workers, jobs and segments: what
is left to fairness is that the fleet comes to rest. `RestIsQuiet` says that rest lasts until the
next job is asked for.

**Selection.** `LoopInv` says that the candidate is the right choice among the entries visited so
far; when none is left it is `IsLeastBusy` or `IsDiskChoice`. `ChosenWorkersAccept` also needs that
both programs' estimates are the same natural number for lists of any length.

**Locks.** A path is a sequence of lock operations. `Balanced` looks at neighbouring steps only, so
it passes from two paths to their concatenation (`BalancedConcat`) and to a loop of any length
(`BalancedReservations`). Being about neighbours, `Tidy` also passes to what is left of a path,
and `LocksInv` reads off the next steps of each goroutine which locks it holds. From there a circle is
impossible: who gives a lock back waits for nobody, an announced writer waits for readers and
these give back, the registry's holder gives back, and the manager's holder gives back or is at
the registry's lock. This is where the one nesting of the two locks enters.

**Pool.** `PoolInv` joins the three properties with what holds before `Start` and the fact that an
engine about to be sent is marked idle: without the latter the table could be wrong at the moment
the engine enters the channel. That an engine has one holder is what makes every mark and every
read of `pipe` a private matter of that holder. The refinement to `SlotPool` uses the same
invariant: the receive and the send are the visible steps, the marks, calls and the table are not.
For the channel (`ReleaseNeverBlocks`) its length, a fold, is shown to be the number of engines in
it (`ChannelCount`); an engine on its way back is not among them, so there is room for it.

**Runner.** Each step of `SourceRunner` is a step of the pool or leaves it alone, so
`Spec => PoolSpec` and the pool's theorems carry over, the refinement to `SlotPool` too.
`LeaseStages` says, for each point of `processOne`, how far the lease of each segment can be;
`LeasesReturned` is its case for a video that is not active, and `SplitStage`, which says that the
split's engine is on its way back when `splitVideo` has returned. `NoCircularWait` is the safety part of
`WaiterIsServed`: the runner waits at one point only (`WaitInv`), where `LeaseStages` says that it
has no engine for a segment, except those a job that Entry had already made it lose (finding 3).

**Heartbeats.** `Gap`, the longest time between two heartbeats Entry handles, is made of the rest of
the first request after its handling, the interval (from the end of the first send, when the ticker
is made then), one `Round` for each heartbeat lost in a row, and the time the last one takes to be
handled. `BeatsInTime` says it at each point of a request: the age of the last handled heartbeat and
the time until the next one is handled at the latest (`Coming`, or `Following` when the request under
way was handled already) are at most `Gap`. `TickersRun` is what this needs of the ticker: it was
made, or the first send is still to return, and a request under way was sent no earlier than its
tick. With `Gap < Timeout` the expiry check never finds a live worker too old. `Watched` is the same
for a silent worker and the time to the next check.

**Backpressure.** `PausesInTime` follows a change of the fleet's state to the worker. Until the next
refresh the status is wrong for at most a check interval (`RefreshedInTime`). Once it is right, the
worker is right, or will be when the next heartbeat gets through: `Coming`, or, when an answer that
was read before the refresh is still on its way, `Following` (`HeardInTime`). It does not matter
here why slots are reserved or released.

**Engine.** `SplitInv` says that the segments made so far are the first of the plan, so the
properties are arithmetic on `CeilDiv`, `Printed` (rounding to the last digit) and the byte ranges;
`RemainingShare` shows that dividing what remains among the segments that remain gives each its
even share, so that the last one ends at the last byte. `SegmentOK` says that an artifact is always a prefix of what its header announces, at
whatever frame a child dies. `GifInv` says that the frames read are those of the segments before
the current one and a prefix of the current one; `FlattenGrows` takes them segment by segment.

**Induction.** The library's induction theorems cannot be used here (they take an operator as
a parameter), so a fact about every list or every finite set is proved from a least
counterexample: `LeastNat` and `LeastSet` are the existence of a minimal element in a well-founded
order, for numbers and for the subsets of a finite set. `FlattenSeqIs`, `DiskSumIs`, `ChannelCount`
and `SizeSumNat` are proved that way; each rests on a lemma that the recursive function exists.

### What is only model-checked

Liveness (`StopReturns`, `WaiterIsServed`, `SplitVideoIsHandled`, `TaskIsReported`,
`FleetJobSettles`, `OnlyCutTasksKeepSlots`) is out of the prover's reach; of
four of them the state they rest on is proved, as said above. That `Resting` is where no fair action
is enabled speaks of `ENABLED` and is left to TLC as well. Every invariant and every action property
of a passing run has a proof. The three properties of the violation runs are false, and the runs
show how.

## 6. Not modelled

- Of the C++ engine: pixels and encoders, the text of requests and responses, the fake modes of
  processing and assembling, `process_internal_simple` and `ping`, which keep no state.
- Configuration and the wire types: what the binding rejects appears as assumptions on the
  constants. File paths, disk readings, logging and HTTP status codes.
- The handler that serves a result, and the notification of the source worker after an assembly:
  both read and log. `PickBestWorker` and `PickWorkersForReservation` have no caller.
- The running-task list and the metrics of a heartbeat: stored and shown only.
- The data race on the worker record `RegisterWorker` returns to its handler: only logged.
- A dead child's replacement: the code has none. That a failed video cannot be submitted again is
  in `VideoResults` (no step leads back to "not found"), and no property asks for more.

## 7. Plan

Done, in this order: the Entry server (registry and manager, section by section), the selection
loops, the engine pool, the source runner, with the proofs beside each; then the fleet with its
faults, heartbeats and backpressure, the locks, the C++ operations, and the two abstract
specifications with their refinements; then the proofs of both refinements, of the composition, of
the locks, the heartbeats, the disk account and the engine; last the delay of backpressure, who
holds a task, the fleet at rest, and the waits of the pool.

Next:
1. An abstract specification of the fleet, in which a video is handed in, settles or is cut off,
   with `FleetJobSettles` as its liveness.
2. Two full workers in the `agent` run: out of TLC's reach in its present form, for the request
   states of both multiply; a coarser clock for the second worker might do.
