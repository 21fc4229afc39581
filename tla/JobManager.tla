----------------------------- MODULE JobManager -----------------------------
(***************************************************************************)
(* The Entry server: the JobManager and the WorkerRegistry it reserves     *)
(* from, with every HTTP request handled by a goroutine of its own.        *)
(*                                                                         *)
(* A handler takes and drops the manager's mutex and the registry's mutex  *)
(* several times, and posts to a worker while it holds neither.  An action *)
(* below is one such critical section; where the goroutine stands between  *)
(* two of them is recorded in                                              *)
(*   call[j]     the CreateJob call that generated job ID j,               *)
(*   post[t]     the call that moved segment task t to a final status; if  *)
(*               t was the last segment to complete, this goroutine also   *)
(*               runs startAssembleGIF,                                    *)
(*   report[t]   the call that handles the assembled report of t's run.    *)
(* Requests that a guard turns away change nothing and are no steps here.  *)
(*                                                                         *)
(* Every CreateJob call generates a fresh job ID before it reserves        *)
(* anything, so Jobs is the set of calls and two calls of one video are    *)
(* two elements of Jobs.  The assemble task created by the goroutine that  *)
(* completed segment task t has t as its key: nothing in the state keeps a *)
(* job from having two assemble tasks.                                     *)
(***************************************************************************)
EXTENDS WorkerRegistry, FiniteSetsExt

CONSTANTS
  Jobs,            \* CreateJob calls, each with the job ID it generates
  SegmentCount,    \* segments of a video
  SourceOf,        \* the worker that sends the call
  VideoOf,         \* the video the call is about
  DiskNeeds,       \* possible results of estimateAssembleDiskBytes
  LossyStart       \* may Entry miss the answer of a worker that did start?

Segments == 0 .. SegmentCount - 1
Tasks == Jobs \X Segments          \* a segment task: its job and its segment index
TasksOf(j) == {t \in Tasks : t[1] = j}
Modes == {"internal", "external"}

ASSUME JobManagerAssumption ==
  /\ IsFiniteSet(Jobs)
  /\ SegmentCount \in Nat \ {0}
  /\ SourceOf \in [Jobs -> Workers]
  /\ DOMAIN VideoOf = Jobs
  /\ DiskNeeds \subseteq Nat \ {0}
  /\ LossyStart \in BOOLEAN

VARIABLES
  call,            \* [Jobs -> CallPoints]
  jobStatus,       \* [Jobs -> JobStatuses]; "none" is a job not in the map
  taskStatus,      \* [Tasks -> TaskStatuses]; "none" is a task not in the map
  taskWorker,      \* [Tasks -> Workers or NoWorker]: AssignedWorkerID
  post,            \* [Tasks -> PostPoints]
  asmStatus,       \* [Tasks -> TaskStatuses] of the assemble task keyed by t
  asmWorker,       \* [Tasks -> Workers or NoWorker]: its AssignedWorkerID
  asmDisk,         \* [Tasks -> Nat]: its RequiredDiskBytes
  asmRun,          \* [Tasks -> RunPoints]: what became of it on the worker
  report           \* [Tasks -> ReportPoints]

segmentVars == <<taskStatus, taskWorker>>
assembleVars == <<asmStatus, asmWorker, asmDisk, asmRun, report>>
managerVars == <<call, jobStatus, segmentVars, post, assembleVars>>
vars == <<registryVars, managerVars>>

CallPoints == {"idle", "reserving", "rejecting", "rejected", "exists", "created"}
JobStatuses == {"none", "segment_assigned", "segment_running", "segment_completed",
                "assemble_assigned", "assemble_running", "completed", "failed"}
TaskStatuses == {"none", "assigned", "running", "completed", "failed"}
PostPoints == {"idle", "release", "release_last", "snapshot", "pick", "fail_job", "insert",
               "await", "start_failed", "unreserve", "unreserved", "done"}
RunPoints == {"none", "sent", "running", "refused", "dropped", "reported"}
ReportPoints == {"none", "release", "released"}

TypeOK ==
  /\ RegistryTypeOK
  /\ call \in [Jobs -> CallPoints]
  /\ jobStatus \in [Jobs -> JobStatuses]
  /\ taskStatus \in [Tasks -> TaskStatuses]
  /\ taskWorker \in [Tasks -> Workers \cup {NoWorker}]
  /\ post \in [Tasks -> PostPoints]
  /\ asmStatus \in [Tasks -> TaskStatuses]
  /\ asmWorker \in [Tasks -> Workers \cup {NoWorker}]
  /\ asmDisk \in [Tasks -> Nat]
  /\ asmRun \in [Tasks -> RunPoints]
  /\ report \in [Tasks -> ReportPoints]

Init ==
  /\ RegistryInit
  /\ call = [j \in Jobs |-> "idle"]
  /\ jobStatus = [j \in Jobs |-> "none"]
  /\ taskStatus = [t \in Tasks |-> "none"]
  /\ taskWorker = [t \in Tasks |-> NoWorker]
  /\ post = [t \in Tasks |-> "idle"]
  /\ asmStatus = [t \in Tasks |-> "none"]
  /\ asmWorker = [t \in Tasks |-> NoWorker]
  /\ asmDisk = [t \in Tasks |-> 0]
  /\ asmRun = [t \in Tasks |-> "none"]
  /\ report = [t \in Tasks |-> "none"]

-----------------------------------------------------------------------------
(* CreateJob.  The caller's plan says for each segment, in order, whether   *)
(* it runs on the caller (internal) or on another worker (external).        *)

SameIdentity(j, k) == SourceOf[j] = SourceOf[k] /\ VideoOf[j] = VideoOf[k]

FindJobByIdentity(j) == {k \in Jobs : jobStatus[k] # "none" /\ SameIdentity(j, k)}

CreateJob(j) ==
  /\ call[j] = "idle"
  /\ SourceOf[j] \in registered
  /\ call' = [call EXCEPT ![j] = IF FindJobByIdentity(j) # {} THEN "exists" ELSE "reserving"]
  /\ UNCHANGED <<registryVars, jobStatus, segmentVars, post, assembleVars>>

AssignSegmentWorker(j, mode, w) ==
  \/ mode = "internal" /\ w = SourceOf[j] /\ w \in Candidates("process_segment")
  \/ mode = "external" /\ IsLeastBusy(w, SourceOf[j])

IsNextSegment(t) ==
  \A u \in TasksOf(t[1]) : taskWorker[u] = NoWorker <=> u[2] >= t[2]

ReserveSegment(t, mode, w) ==
  /\ call[t[1]] = "reserving"
  /\ IsNextSegment(t)
  /\ AssignSegmentWorker(t[1], mode, w)
  /\ ReserveSlot(w)
  /\ taskWorker' = [taskWorker EXCEPT ![t] = w]
  /\ UNCHANGED <<call, jobStatus, taskStatus, post, assembleVars>>

\* No worker for the next segment, or no ID for a task just reserved: give up.
GiveUpReserving(j) ==
  /\ call[j] = "reserving"
  /\ \/ \E t \in TasksOf(j), mode \in Modes :
          IsNextSegment(t) /\ \A w \in Workers : ~AssignSegmentWorker(j, mode, w)
     \/ \E t \in TasksOf(j) : taskWorker[t] # NoWorker
  /\ call' = [call EXCEPT ![j] = "rejecting"]
  /\ UNCHANGED <<registryVars, jobStatus, segmentVars, post, assembleVars>>

\* The reservations of the call, counted per worker, and their release.
ReservedBy(j, w) == {t \in TasksOf(j) : taskWorker[t] = w}

\* A slip in the release: the reservations are forgotten, not given back.
ReleaseAllForgotten(j) ==
  /\ UNCHANGED registryVars
  /\ taskWorker' = [t \in Tasks |-> IF t[1] = j THEN NoWorker ELSE taskWorker[t]]

ReleaseAll(j) ==
  /\ ReleaseReservations([w \in Workers |-> Cardinality(ReservedBy(j, w))])
  /\ taskWorker' = [t \in Tasks |-> IF t[1] = j THEN NoWorker ELSE taskWorker[t]]

RejectJob(j) ==
  /\ call[j] = "rejecting"
  /\ ReleaseAll(j)
  /\ call' = [call EXCEPT ![j] = "rejected"]
  /\ UNCHANGED <<jobStatus, taskStatus, post, assembleVars>>

AllReserved(j) == \A t \in TasksOf(j) : taskWorker[t] # NoWorker

\* A slip in the commit: only the first lookup, before the reservations, counts.
CommitJobUnchecked(j) ==
  /\ call[j] = "reserving"
  /\ AllReserved(j)
  /\ call' = [call EXCEPT ![j] = "created"]
  /\ jobStatus' = [jobStatus EXCEPT ![j] = "segment_assigned"]
  /\ taskStatus' = [t \in Tasks |-> IF t[1] = j THEN "assigned" ELSE taskStatus[t]]
  /\ UNCHANGED <<registryVars, taskWorker, post, assembleVars>>

\* Under the manager's lock the identity is looked up a second time.
CommitJob(j) ==
  /\ call[j] = "reserving"
  /\ AllReserved(j)
  /\ FindJobByIdentity(j) = {}
  /\ call' = [call EXCEPT ![j] = "created"]
  /\ jobStatus' = [jobStatus EXCEPT ![j] = "segment_assigned"]
  /\ taskStatus' = [t \in Tasks |-> IF t[1] = j THEN "assigned" ELSE taskStatus[t]]
  /\ UNCHANGED <<registryVars, taskWorker, post, assembleVars>>

CommitFindsJob(j) ==
  /\ call[j] = "reserving"
  /\ AllReserved(j)
  /\ FindJobByIdentity(j) # {}
  /\ ReleaseAll(j)
  /\ call' = [call EXCEPT ![j] = "exists"]
  /\ UNCHANGED <<jobStatus, taskStatus, post, assembleVars>>

-----------------------------------------------------------------------------
(* Reports on segment tasks.  The worker the task is assigned to may send   *)
(* any of them at any time, more than once and in any order.                *)

AcceptSegmentTask(t) ==
  /\ taskStatus[t] = "assigned"
  /\ taskStatus' = [taskStatus EXCEPT ![t] = "running"]
  /\ jobStatus' = [jobStatus EXCEPT ![t[1]] = "segment_running"]
  /\ UNCHANGED <<registryVars, call, taskWorker, post, assembleVars>>

AssembleTasksOf(j) == {t \in TasksOf(j) : asmStatus[t] # "none"}

\* A slip in the completion test: one completed segment is enough.
AnySegmentTaskCompleted(j, status) == \E t \in TasksOf(j) : status[t] = "completed"

AllSegmentTasksCompleted(j, status) ==
  /\ AssembleTasksOf(j) = {}
  /\ \A t \in TasksOf(j) : status[t] = "completed"

CompleteSegmentTask(t) ==
  /\ taskStatus[t] \in {"assigned", "running"}
  /\ taskStatus' = [taskStatus EXCEPT ![t] = "completed"]
  /\ IF AllSegmentTasksCompleted(t[1], taskStatus')
     THEN /\ jobStatus' = [jobStatus EXCEPT ![t[1]] = "segment_completed"]
          /\ post' = [post EXCEPT ![t] = "release_last"]
     ELSE /\ post' = [post EXCEPT ![t] = "release"]
          /\ UNCHANGED jobStatus
  /\ UNCHANGED <<registryVars, call, taskWorker, assembleVars>>

\* A slip in the failure path: the worker's slot is not given back.
FailSegmentTaskKeepsSlot(t) ==
  /\ taskStatus[t] \in {"assigned", "running"}
  /\ taskStatus' = [taskStatus EXCEPT ![t] = "failed"]
  /\ jobStatus' = [jobStatus EXCEPT ![t[1]] = "failed"]
  /\ post' = [post EXCEPT ![t] = "done"]
  /\ UNCHANGED <<registryVars, call, taskWorker, assembleVars>>

FailSegmentTask(t) ==
  /\ taskStatus[t] \in {"assigned", "running"}
  /\ taskStatus' = [taskStatus EXCEPT ![t] = "failed"]
  /\ jobStatus' = [jobStatus EXCEPT ![t[1]] = "failed"]
  /\ post' = [post EXCEPT ![t] = "release"]
  /\ UNCHANGED <<registryVars, call, taskWorker, assembleVars>>

ReleaseSegmentSlot(t) ==
  /\ post[t] \in {"release", "release_last"}
  /\ ReleaseReservations([w \in Workers |-> IF w = taskWorker[t] THEN 1 ELSE 0])
  /\ post' = [post EXCEPT ![t] = IF @ = "release_last" THEN "snapshot" ELSE "done"]
  /\ UNCHANGED <<call, jobStatus, segmentVars, assembleVars>>

-----------------------------------------------------------------------------
(* startAssembleGIF, run by the goroutine that completed the last segment.  *)

\* The read-locked snapshot of the completed segments.
SnapshotSegments(t) ==
  /\ post[t] = "snapshot"
  /\ post' = [post EXCEPT ![t] =
       IF AllSegmentTasksCompleted(t[1], taskStatus) THEN "pick" ELSE "done"]
  /\ UNCHANGED <<registryVars, call, jobStatus, segmentVars, assembleVars>>

PickAssembleWorker(t, need, w) ==
  /\ post[t] = "pick"
  /\ IsDiskChoice(w, need)
  /\ ReserveSlotAndDisk(w, need)
  /\ asmWorker' = [asmWorker EXCEPT ![t] = w]
  /\ asmDisk' = [asmDisk EXCEPT ![t] = need]
  /\ post' = [post EXCEPT ![t] = "insert"]
  /\ UNCHANGED <<call, jobStatus, segmentVars, asmStatus, asmRun, report>>

\* A slip in the error path: the goroutine returns without failing the job.
NoAssembleWorkerReturns(t, need) ==
  /\ post[t] = "pick"
  /\ HasRoom(need) = {}
  /\ post' = [post EXCEPT ![t] = "done"]
  /\ UNCHANGED <<registryVars, call, jobStatus, segmentVars, assembleVars>>

NoAssembleWorker(t, need) ==
  /\ post[t] = "pick"
  /\ HasRoom(need) = {}
  /\ post' = [post EXCEPT ![t] = "fail_job"]
  /\ UNCHANGED <<registryVars, call, jobStatus, segmentVars, assembleVars>>

\* No ID for the assemble task: the reservation goes back, then the job fails.
AssembleIDError(t) ==
  /\ post[t] = "insert"
  /\ ReleaseReservation(asmWorker[t], asmDisk[t])
  /\ asmWorker' = [asmWorker EXCEPT ![t] = NoWorker]
  /\ asmDisk' = [asmDisk EXCEPT ![t] = 0]
  /\ post' = [post EXCEPT ![t] = "fail_job"]
  /\ UNCHANGED <<call, jobStatus, segmentVars, asmStatus, asmRun, report>>

MarkJobFailed(t) ==
  /\ post[t] = "fail_job"
  /\ jobStatus' = [jobStatus EXCEPT ![t[1]] = "failed"]
  /\ post' = [post EXCEPT ![t] = "done"]
  /\ UNCHANGED <<registryVars, call, segmentVars, assembleVars>>

\* The job is looked at again under the lock; the request is posted after it.
InsertAssembleTask(t) ==
  /\ post[t] = "insert"
  /\ IF jobStatus[t[1]] = "segment_completed"
     THEN /\ asmStatus' = [asmStatus EXCEPT ![t] = "assigned"]
          /\ jobStatus' = [jobStatus EXCEPT ![t[1]] = "assemble_assigned"]
          /\ asmRun' = [asmRun EXCEPT ![t] = "sent"]
          /\ post' = [post EXCEPT ![t] = "await"]
     ELSE /\ post' = [post EXCEPT ![t] = "unreserve"]
          /\ UNCHANGED <<asmStatus, jobStatus, asmRun>>
  /\ UNCHANGED <<registryVars, call, segmentVars, asmWorker, asmDisk, report>>

-----------------------------------------------------------------------------
(* The assemble worker, as far as Entry can tell.  It answers the request   *)
(* and, when it accepted, runs the assembly in a goroutine that reports     *)
(* once; that report may overtake the answer.                               *)

WorkerStartsAssemble(t) ==
  /\ asmRun[t] = "sent"
  /\ asmRun' = [asmRun EXCEPT ![t] = "running"]
  /\ UNCHANGED <<registryVars, call, jobStatus, segmentVars, post, asmStatus, asmWorker,
                 asmDisk, report>>

WorkerRefusesAssemble(t) ==
  /\ asmRun[t] = "sent"
  /\ asmRun' = [asmRun EXCEPT ![t] = "refused"]
  /\ UNCHANGED <<registryVars, call, jobStatus, segmentVars, post, asmStatus, asmWorker,
                 asmDisk, report>>

-----------------------------------------------------------------------------
(* What the posting goroutine makes of the answer. *)

\* A slip in the answer's handling: the task's status is looked at and the job's is not.
StartAcceptedForJob(t) ==
  /\ post[t] = "await"
  /\ asmRun[t] \in {"running", "reported"}
  /\ asmStatus' = [asmStatus EXCEPT ![t] = IF @ = "assigned" THEN "running" ELSE @]
  /\ jobStatus' = [jobStatus EXCEPT ![t[1]] = "assemble_running"]
  /\ post' = [post EXCEPT ![t] = "done"]
  /\ UNCHANGED <<registryVars, call, segmentVars, asmWorker, asmDisk, asmRun, report>>

StartAccepted(t) ==
  /\ post[t] = "await"
  /\ asmRun[t] \in {"running", "reported"}
  /\ asmStatus' = [asmStatus EXCEPT ![t] = IF @ = "assigned" THEN "running" ELSE @]
  /\ jobStatus' = [jobStatus EXCEPT ![t[1]] =
       IF @ = "assemble_assigned" THEN "assemble_running" ELSE @]
  /\ post' = [post EXCEPT ![t] = "done"]
  /\ UNCHANGED <<registryVars, call, segmentVars, asmWorker, asmDisk, asmRun, report>>

StartRefused(t) ==
  /\ post[t] = "await"
  /\ asmRun[t] = "refused"
  /\ post' = [post EXCEPT ![t] = "start_failed"]
  /\ UNCHANGED <<registryVars, call, jobStatus, segmentVars, assembleVars>>

\* A refusal for lack of storage carries the free disk the worker saw.
StartRefusedForStorage(t, disk) ==
  /\ post[t] = "await"
  /\ asmRun[t] = "refused"
  /\ UpdateWorkerObservedDiskFree(asmWorker[t], disk)
  /\ post' = [post EXCEPT ![t] = "start_failed"]
  /\ UNCHANGED <<call, jobStatus, segmentVars, assembleVars>>

\* The request never reached the worker.
StartUndelivered(t) ==
  /\ post[t] = "await"
  /\ asmRun[t] = "sent"
  /\ asmRun' = [asmRun EXCEPT ![t] = "dropped"]
  /\ post' = [post EXCEPT ![t] = "start_failed"]
  /\ UNCHANGED <<registryVars, call, jobStatus, segmentVars, asmStatus, asmWorker, asmDisk,
                 report>>

\* The client times out, or the answer is lost, with the request still on its
\* way to the worker or already served by it.
StartAnswerLost(t) ==
  /\ LossyStart
  /\ post[t] = "await"
  /\ asmRun[t] \in {"sent", "running", "reported"}
  /\ post' = [post EXCEPT ![t] = "start_failed"]
  /\ UNCHANGED <<registryVars, call, jobStatus, segmentVars, assembleVars>>

\* A slip in the failure path: the task is failed whatever its status.
MarkAssembleStartFailedBlindly(t) ==
  /\ post[t] = "start_failed"
  /\ asmStatus' = [asmStatus EXCEPT ![t] = "failed"]
  /\ jobStatus' = [jobStatus EXCEPT ![t[1]] = "failed"]
  /\ post' = [post EXCEPT ![t] = "unreserve"]
  /\ UNCHANGED <<registryVars, call, segmentVars, asmWorker, asmDisk, asmRun, report>>

\* The job is failed whatever its status, the task only when it is not final.
MarkAssembleStartFailed(t) ==
  /\ post[t] = "start_failed"
  /\ asmStatus' = [asmStatus EXCEPT ![t] = IF @ \in {"completed", "failed"} THEN @ ELSE "failed"]
  /\ jobStatus' = [jobStatus EXCEPT ![t[1]] = "failed"]
  /\ post' = [post EXCEPT ![t] = "unreserve"]
  /\ UNCHANGED <<registryVars, call, segmentVars, asmWorker, asmDisk, asmRun, report>>

ReleaseAssembleStart(t) ==
  /\ post[t] = "unreserve"
  /\ ReleaseReservation(asmWorker[t], asmDisk[t])
  /\ post' = [post EXCEPT ![t] = "unreserved"]
  /\ UNCHANGED <<call, jobStatus, segmentVars, assembleVars>>

-----------------------------------------------------------------------------
(* AssembleJob: the worker's report on the run of t. *)

\* The job's assemble task, if it may still be finished by that worker.
AssembleCompletionTarget(j, w, u) ==
  /\ jobStatus[j] \in {"assemble_assigned", "assemble_running", "segment_completed"}
  /\ u \in AssembleTasksOf(j)
  /\ asmWorker[u] = w
  /\ asmStatus[u] \in {"assigned", "running"}

FinishAssemble(t, u, outcome) ==
  /\ asmRun[t] = "running"
  /\ AssembleCompletionTarget(t[1], asmWorker[t], u)
  /\ asmStatus' = [asmStatus EXCEPT ![u] = outcome]
  /\ jobStatus' = [jobStatus EXCEPT ![t[1]] = outcome]
  /\ asmRun' = [asmRun EXCEPT ![t] = "reported"]
  /\ report' = [report EXCEPT ![u] = "release"]
  /\ UNCHANGED <<registryVars, call, segmentVars, post, asmWorker, asmDisk>>

CompleteAssembleJob(t, u) ==
  asmWorker[t] \in registered /\ FinishAssemble(t, u, "completed")

FailAssembleJob(t, u) ==
  FinishAssemble(t, u, "failed")

\* No such target: the report is answered with an error and never repeated.
RejectAssembleReport(t) ==
  /\ asmRun[t] = "running"
  /\ \A u \in Tasks : ~AssembleCompletionTarget(t[1], asmWorker[t], u)
  /\ asmRun' = [asmRun EXCEPT ![t] = "reported"]
  /\ UNCHANGED <<registryVars, call, jobStatus, segmentVars, post, asmStatus, asmWorker,
                 asmDisk, report>>

ReleaseAssembleReport(t) ==
  /\ report[t] = "release"
  /\ ReleaseReservation(asmWorker[t], asmDisk[t])
  /\ report' = [report EXCEPT ![t] = "released"]
  /\ UNCHANGED <<call, jobStatus, segmentVars, post, asmStatus, asmWorker, asmDisk, asmRun>>

-----------------------------------------------------------------------------
(* The goroutine of CreateJob call j. *)
CreateStep(j) ==
  \/ CreateJob(j)
  \/ \E t \in TasksOf(j), mode \in Modes, w \in Workers : ReserveSegment(t, mode, w)
  \/ GiveUpReserving(j)
  \/ RejectJob(j)
  \/ CommitJob(j)
  \/ CommitFindsJob(j)

(* Requests about segment task t. *)
SegmentReport(t) ==
  \/ AcceptSegmentTask(t)
  \/ CompleteSegmentTask(t)
  \/ FailSegmentTask(t)

(* The goroutine that took t to a final status. *)
PostStep(t) ==
  \/ ReleaseSegmentSlot(t)
  \/ SnapshotSegments(t)
  \/ \E need \in DiskNeeds, w \in Workers : PickAssembleWorker(t, need, w)
  \/ \E need \in DiskNeeds : NoAssembleWorker(t, need)
  \/ AssembleIDError(t)
  \/ MarkJobFailed(t)
  \/ InsertAssembleTask(t)
  \/ StartAccepted(t)
  \/ StartRefused(t)
  \/ \E disk \in HeartbeatDisks : StartRefusedForStorage(t, disk)
  \/ StartUndelivered(t)
  \/ StartAnswerLost(t)
  \/ MarkAssembleStartFailed(t)
  \/ ReleaseAssembleStart(t)

(* The worker that runs t's assemble task, and its report. *)
AssembleRun(t) ==
  \/ WorkerStartsAssemble(t)
  \/ WorkerRefusesAssemble(t)
  \/ \E u \in Tasks : CompleteAssembleJob(t, u)
  \/ \E u \in Tasks : FailAssembleJob(t, u)
  \/ RejectAssembleReport(t)

Next ==
  \/ \E w \in Workers, offer \in Offers : RegisterWorker(w, offer) /\ UNCHANGED managerVars
  \/ \E w \in Workers, disk \in HeartbeatDisks :
       HeartbeatWorker(w, disk) /\ UNCHANGED managerVars
  \/ \E stale \in SUBSET online : MarkExpiredWorkers(stale) /\ UNCHANGED managerVars
  \/ RefreshBackpressureStatus /\ UNCHANGED managerVars
  \/ \E j \in Jobs : CreateStep(j)
  \/ \E t \in Tasks : SegmentReport(t)
  \/ \E t \in Tasks : PostStep(t)
  \/ \E t \in Tasks : AssembleRun(t)
  \/ \E t \in Tasks : ReleaseAssembleReport(t)

Spec == Init /\ [][Next]_vars

(***************************************************************************)
(* Fairness.  A goroutine of Entry that can take its next step takes it:   *)
(* it waits for nothing but a mutex or an HTTP call with a timeout.  Of    *)
(* the workers it is assumed that every task they hold is reported in the  *)
(* end, one way or the other; this is what a worker that is neither killed *)
(* nor cut off does.  Nobody has to create jobs, accept tasks, register or *)
(* send heartbeats.                                                        *)
(***************************************************************************)
Fairness ==
  /\ \A j \in Jobs : WF_vars(call[j] # "idle" /\ CreateStep(j))
  /\ \A t \in Tasks :
       /\ WF_vars(CompleteSegmentTask(t) \/ FailSegmentTask(t))
       /\ WF_vars(PostStep(t))
       /\ WF_vars(AssembleRun(t))
       /\ WF_vars(ReleaseAssembleReport(t))

FairSpec == Spec /\ Fairness

-----------------------------------------------------------------------------
(* Safety.  Reservations first: the tasks that hold a slot on w.  A segment *)
(* task holds one from its reservation until the goroutine that finished it *)
(* has given it back, an assemble task until either of the two goroutines   *)
(* that may end it has.                                                     *)

SegmentHolds(t) == taskWorker[t] # NoWorker /\ post[t] \in {"idle", "release", "release_last"}

AssembleHolds(t) ==
  asmWorker[t] # NoWorker /\ post[t] # "unreserved" /\ report[t] # "released"

SegmentHolders(w) == {t \in Tasks : SegmentHolds(t) /\ taskWorker[t] = w}
AssembleHolders(w) == {t \in Tasks : AssembleHolds(t) /\ asmWorker[t] = w}

Owed(w) == Cardinality(SegmentHolders(w)) + Cardinality(AssembleHolders(w))
OwedDisk(w) == MapThenSumSet(LAMBDA t : asmDisk[t], AssembleHolders(w))

\* No slot stays reserved for a task that is over: whatever order the goroutines
\* of create, complete, fail, start and report run in, and even when a start
\* request is answered with an error after the worker took it.
NoSlotLeaks == \A w \in Workers : reservedSlots[w] <= Owed(w)

\* Entry's slot count of a worker is the number of tasks that hold a slot there:
\* no reservation is lost, leaked or given back twice.
SlotsExact == \A w \in Workers : reservedSlots[w] = Owed(w)

\* The disk Entry holds back on a worker is what its unfinished assemble tasks
\* were promised.
DiskExact == \A w \in Workers : reservedDisk[w] = OwedDisk(w)

\* Two CreateJob calls for one video of one source worker never both create a
\* job, however their reservations interleave.
OneJobPerIdentity ==
  \A j, k \in Jobs : call[j] = "created" /\ call[k] = "created" /\ SameIdentity(j, k) => j = k

\* Concurrent completions of the last segments start the assembly of a job once.
OneAssembleTaskPerJob ==
  \A t, u \in Tasks :
    t[1] = u[1] /\ asmStatus[t] # "none" /\ asmStatus[u] # "none" => t = u

\* When an assemble task is handed to a worker every segment it will download
\* is complete.
AssembleAfterSegments ==
  \A t \in Tasks : asmRun[t] # "none" =>
    \A u \in TasksOf(t[1]) : taskStatus[u] = "completed"

\* A job whose segments are done, or whose assembly is not yet acknowledged,
\* is still in the hands of one goroutine: it cannot be forgotten half way.
NoOrphanJob ==
  \A j \in Jobs :
    /\ jobStatus[j] = "segment_completed" =>
         \E t \in TasksOf(j) : post[t] \in
           {"release_last", "snapshot", "pick", "fail_job", "insert"}
    /\ jobStatus[j] = "assemble_assigned" =>
         \E t \in TasksOf(j) : post[t] \in {"await", "start_failed"}

\* Entry never tells two stories about the end of an assembly: the job is
\* completed exactly when its assemble task is.
JobAgreesWithAssembleTask ==
  \A t \in Tasks : asmStatus[t] # "none" =>
    (jobStatus[t[1]] = "completed" <=> asmStatus[t] = "completed")

\* A result that can be queried stays available: a completed job is never
\* moved to another status, by a late answer or a late report.
CompletedJobStays ==
  [][\A j \in Jobs : jobStatus[j] = "completed" => jobStatus'[j] = "completed"]_vars

\* A task that is completed or failed is never reopened, segment or assembly.
FinalTaskStays ==
  [][\A t \in Tasks :
       /\ taskStatus[t] \in {"completed", "failed"} => taskStatus'[t] = taskStatus[t]
       /\ asmStatus[t] \in {"completed", "failed"} => asmStatus'[t] = asmStatus[t]]_vars

-----------------------------------------------------------------------------
(* The inductive invariant behind the properties above.                     *)

\* A job and its tasks enter the maps together, by the call that made them.
JobsMatchCalls ==
  /\ \A j \in Jobs : call[j] = "created" <=> jobStatus[j] # "none"
  /\ \A t \in Tasks : call[t[1]] = "created" <=> taskStatus[t] # "none"
  /\ \A t \in Tasks : taskStatus[t] # "none" => taskWorker[t] # NoWorker

\* The goroutine that started, or is about to start, the assembly of t's job.
Starting == {"release_last", "snapshot", "pick", "fail_job", "insert"}
Starter(t) == post[t] \in Starting \/ asmStatus[t] # "none"

\* A final segment task has its goroutine; one of them starts the assembly, and
\* only when all segments are complete.
OneStarter ==
  /\ \A t \in Tasks : post[t] = "idle" <=> taskStatus[t] \notin {"completed", "failed"}
  /\ \A t \in Tasks : Starter(t) => \A u \in TasksOf(t[1]) : taskStatus[u] = "completed"
  /\ \A t, u \in Tasks : t[1] = u[1] /\ Starter(t) /\ Starter(u) => t = u

\* Where the starting goroutine stands, what it has reserved and inserted, and
\* what the worker and the report handler know agree.
AssemblyStages ==
  \A t \in Tasks :
    /\ asmStatus[t] # "none" <=> asmRun[t] # "none"
    /\ asmStatus[t] # "none" =>
         post[t] \in {"await", "start_failed", "unreserve", "unreserved", "done"}
    /\ post[t] \in {"await", "start_failed"} => asmStatus[t] # "none"
    /\ post[t] \in {"idle", "release", "release_last", "snapshot", "pick", "fail_job"} =>
         asmWorker[t] = NoWorker
    /\ post[t] \in {"insert", "await", "start_failed", "unreserve"} => asmWorker[t] # NoWorker
    /\ report[t] # "none" => asmRun[t] = "reported" /\ asmStatus[t] \in {"completed", "failed"}
    /\ asmStatus[t] # "none" => asmWorker[t] # NoWorker
    /\ asmStatus[t] = "completed" => report[t] # "none"

\* A completed job got there through its assemble task.
CompletedHasAssembly ==
  \A j \in Jobs : jobStatus[j] = "completed" =>
    \E t \in TasksOf(j) : asmStatus[t] = "completed"

StructureInv == JobsMatchCalls /\ OneStarter /\ AssemblyStages /\ CompletedHasAssembly

\* Without a lost answer a start that Entry counts as failed did not happen.
FailedStartIsFinal ==
  ~LossyStart => \A t \in Tasks :
    post[t] \in {"start_failed", "unreserve", "unreserved"} =>
      asmRun[t] \in {"none", "refused", "dropped"}

-----------------------------------------------------------------------------
(* Liveness, under FairSpec. *)

SegmentFailed(j) == \E t \in TasksOf(j) : taskStatus[t] = "failed"

\* docs/architecture-distilled.md:572: "If any segment task fails, the job is
\* marked failed in the current implementation."  Read here as weakly as it can
\* be: whenever a segment has failed, the job is failed now or later.
FailedSegmentFailsJob ==
  \A j \in Jobs : SegmentFailed(j) ~> jobStatus[j] = "failed"

-----------------------------------------------------------------------------
(* What a client sees: the queried answer for each source worker and video. *)

Identity(j) == <<SourceOf[j], VideoOf[j]>>

Answer(status) ==
  CASE status \in {"completed", "failed"} -> status
    [] OTHER -> "working"

\* What QueryJob says of the job of this identity.
QueryJob(v) ==
  LET found == {j \in Jobs : jobStatus[j] # "none" /\ Identity(j) = v}
  IN  IF found = {} THEN "not_found" ELSE Answer(jobStatus[CHOOSE j \in found : TRUE])

Results == INSTANCE VideoResults WITH
  Videos <- {Identity(j) : j \in Jobs},
  result <- [v \in {Identity(j) : j \in Jobs} |-> QueryJob(v)],
  spoiled <- {Identity(j) : j \in {k \in Jobs : SegmentFailed(k)}}

\* What clients are told about a video changes only as VideoResults says: a
\* video goes from unknown to working to its end, it is completed only if none
\* of its segments failed, and its end is taken back only in the two ways the
\* findings are about.
ImplementsVideoResults == Results!ResultsSpec
=============================================================================
