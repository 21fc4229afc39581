------------------------------- MODULE Fleet -------------------------------
(***************************************************************************)
(* The Entry server and the worker processes that hold its tasks: the      *)
(* source worker's loop over the assignments, the handler that takes an    *)
(* uploaded segment, the goroutine that processes it, the goroutine that   *)
(* downloads the artifacts and assembles the GIF, and what is left of all  *)
(* of them when a process dies, a message is lost or an uploader gives up. *)
(*                                                                         *)
(* JobManager lets a worker report on its task at any time; here a report  *)
(* is sent by a goroutine that came to it, once.  Every step is a step of  *)
(* JobManager or leaves Entry alone.                                       *)
(*                                                                         *)
(* Engines are not counted: a goroutine that waits for one gets it in the  *)
(* end (module SourceRunner).  Files survive the process that wrote them.  *)
(***************************************************************************)
EXTENDS JobManager

CONSTANTS
  MaxCrashes,      \* bound on worker processes that die
  Losses           \* which messages may be lost

LossKinds == {"create", "upload", "accept", "report", "heartbeat"}

ASSUME FleetAssumption == MaxCrashes \in Nat /\ Losses \subseteq LossKinds

VARIABLES
  up,              \* workers whose process runs
  crashes,         \* processes that died so far
  runner,          \* [Jobs -> RunnerPoints]: registerAndDispatch
  next,            \* [Jobs -> 0 .. SegmentCount]: the assignment it is at
  mode,            \* [Tasks -> Modes or "none"]: the assignment's mode
  work,            \* [Tasks -> WorkPoints]: whoever holds the segment
  artifact,        \* [Tasks -> {"none", "partial", "complete"}]: the file it writes
  gather,          \* [Tasks -> GatherPoints]: runAssembleGIF for the run of t
  got,             \* [Tasks -> 0 .. SegmentCount]: artifacts it has downloaded
  result,          \* jobs whose GIF is in the assemble worker's results
  cut              \* tasks and assemblies a fault has cut off from Entry

runnerVars == <<runner, next, mode>>
segmentWorkVars == <<work, artifact>>
assembleWorkVars == <<gather, got, result>>
processVars == <<up, crashes>>
workerVars == <<processVars, runnerVars, segmentWorkVars, assembleWorkVars, cut>>
fleetVars == <<vars, workerVars>>

RunnerPoints == {"idle", "asking", "dispatching", "over"}
Taken == {"queued", "processing", "completing", "failing", "over"}
WorkPoints == {"none", "storing", "accepting", "refusing"} \cup Taken
GatherPoints == {"none", "fetching", "assembling", "completing", "failing", "over"}

Segment(t) == <<"segment", t>>
Assembly(t) == <<"assembly", t>>

FleetTypeOK ==
  /\ TypeOK
  /\ up \subseteq Workers
  /\ crashes \in 0 .. MaxCrashes
  /\ runner \in [Jobs -> RunnerPoints]
  /\ next \in [Jobs -> 0 .. SegmentCount]
  /\ mode \in [Tasks -> Modes \cup {"none"}]
  /\ work \in [Tasks -> WorkPoints]
  /\ artifact \in [Tasks -> {"none", "partial", "complete"}]
  /\ gather \in [Tasks -> GatherPoints]
  /\ got \in [Tasks -> 0 .. SegmentCount]
  /\ result \subseteq Jobs
  /\ cut \subseteq {Segment(t) : t \in Tasks} \cup {Assembly(t) : t \in Tasks}

FleetInit ==
  /\ Init
  /\ up = {} /\ crashes = 0
  /\ runner = [j \in Jobs |-> "idle"]
  /\ next = [j \in Jobs |-> 0]
  /\ mode = [t \in Tasks |-> "none"]
  /\ work = [t \in Tasks |-> "none"]
  /\ artifact = [t \in Tasks |-> "none"]
  /\ gather = [t \in Tasks |-> "none"]
  /\ got = [t \in Tasks |-> 0]
  /\ result = {}
  /\ cut = {}

-----------------------------------------------------------------------------
(* Processes. *)

StartWorker(w, offer) ==
  /\ w \notin up
  /\ up' = up \cup {w}
  /\ RegisterWorker(w, offer)
  /\ UNCHANGED <<managerVars, crashes, runnerVars, segmentWorkVars, assembleWorkVars, cut>>

SendHeartbeat(w, disk) ==
  /\ w \in up
  /\ HeartbeatWorker(w, disk)
  /\ UNCHANGED <<managerVars, workerVars>>

\* A live worker is found silent only when its heartbeats get lost (module WorkerAgent).
ExpireWorkers(stale) ==
  /\ "heartbeat" \in Losses \/ stale \cap up = {}
  /\ MarkExpiredWorkers(stale)
  /\ UNCHANGED <<managerVars, workerVars>>

InHand(t) == work[t] \notin {"none", "over"}
Gathering(t) == gather[t] \notin {"none", "over"}

\* The segments of j that its runner has not handed to anybody yet.
Undispatched(j) == {Segment(t) : t \in {u \in TasksOf(j) : work[u] = "none"}}

\* The process is gone with all its goroutines; its files and Entry's record of
\* it are not.
Crash(w) ==
  LET sources == {j \in Jobs : SourceOf[j] = w /\ runner[j] \in {"asking", "dispatching"}}
      tasks == {t \in Tasks : InHand(t) /\ taskWorker[t] = w}
      runs == {t \in Tasks : Gathering(t) /\ asmWorker[t] = w}
  IN
  /\ w \in up
  /\ crashes < MaxCrashes
  /\ up' = up \ {w}
  /\ crashes' = crashes + 1
  /\ runner' = [j \in Jobs |-> IF j \in sources THEN "over" ELSE runner[j]]
  /\ work' = [t \in Tasks |-> IF t \in tasks THEN "over" ELSE work[t]]
  /\ gather' = [t \in Tasks |-> IF t \in runs THEN "over" ELSE gather[t]]
  /\ cut' = cut \cup (UNION {Undispatched(j) : j \in sources})
                \cup {Segment(t) : t \in tasks} \cup {Assembly(t) : t \in runs}
  /\ UNCHANGED <<vars, next, mode, artifact, got, result>>

-----------------------------------------------------------------------------
(* The source worker: it asks for a job and goes through the assignments.   *)

\* One video at a time: a runner that waits for Entry or dispatches does no other.
AskForJob(j) ==
  /\ SourceOf[j] \in up
  /\ runner[j] = "idle"
  /\ \A k \in Jobs : SourceOf[k] = SourceOf[j] => runner[k] \notin {"asking", "dispatching"}
  /\ CreateJob(j)
  /\ runner' = [runner EXCEPT ![j] = "asking"]
  /\ UNCHANGED <<processVars, next, mode, segmentWorkVars, assembleWorkVars, cut>>

\* The mode of the request comes back with the assignment.
ReserveInMode(t, m, w) ==
  /\ ReserveSegment(t, m, w)
  /\ mode' = [mode EXCEPT ![t] = m]
  /\ UNCHANGED <<processVars, runner, next, segmentWorkVars, assembleWorkVars, cut>>

EntryCreates(j) ==
  /\ GiveUpReserving(j) \/ RejectJob(j) \/ CommitJob(j) \/ CommitFindsJob(j)
  /\ UNCHANGED workerVars

JobAnswered(j) ==
  /\ runner[j] = "asking"
  /\ call[j] \in {"created", "exists", "rejected"}
  /\ runner' = [runner EXCEPT ![j] = IF call[j] = "created" THEN "dispatching" ELSE "over"]
  /\ UNCHANGED <<vars, processVars, next, mode, segmentWorkVars, assembleWorkVars, cut>>

\* The last attempt ends without an answer, whatever Entry makes of the request.
JobAnswerLost(j) ==
  /\ "create" \in Losses
  /\ runner[j] = "asking"
  /\ runner' = [runner EXCEPT ![j] = "over"]
  /\ cut' = cut \cup Undispatched(j)
  /\ UNCHANGED <<vars, processVars, next, mode, segmentWorkVars, assembleWorkVars>>

AtAssignment(t) == runner[t[1]] = "dispatching" /\ next[t[1]] = t[2]

\* An early return of the loop: nobody takes care of the assignments that follow.
RunnerReturns(j, lost) ==
  /\ runner' = [runner EXCEPT ![j] = "over"]
  /\ cut' = cut \cup lost \cup (IF runner[j] = "dispatching" THEN Undispatched(j) ELSE {})

ProcessInternal(t) ==
  /\ AtAssignment(t)
  /\ mode[t] = "internal"
  /\ work[t] = "none"
  /\ work' = [work EXCEPT ![t] = "processing"]
  /\ artifact' = [artifact EXCEPT ![t] = "partial"]
  /\ UNCHANGED <<vars, processVars, runnerVars, assembleWorkVars, cut>>

BeginUpload(t) ==
  /\ AtAssignment(t)
  /\ mode[t] = "external"
  /\ work[t] = "none"
  /\ taskWorker[t] \in up
  /\ work' = [work EXCEPT ![t] = "storing"]
  /\ UNCHANGED <<vars, processVars, runnerVars, artifact, assembleWorkVars, cut>>

\* The peer is down, or nothing of the request gets there.
UploadUnreachable(t) ==
  /\ AtAssignment(t)
  /\ mode[t] = "external"
  /\ work[t] = "none"
  /\ taskWorker[t] \notin up \/ "upload" \in Losses
  /\ RunnerReturns(t[1], {Segment(t)})
  /\ UNCHANGED <<vars, processVars, next, mode, segmentWorkVars, assembleWorkVars>>

\* An internal segment was processed and reported, or an upload answered with
\* success; after the last assignment the runner is done.
NextAssignment(t) ==
  /\ AtAssignment(t)
  /\ work[t] \in (IF mode[t] = "internal" THEN {"over"} ELSE Taken)
  /\ next' = [next EXCEPT ![t[1]] = @ + 1]
  /\ runner' = [runner EXCEPT ![t[1]] = IF next[t[1]] + 1 = SegmentCount THEN "over" ELSE @]
  /\ UNCHANGED <<vars, processVars, mode, segmentWorkVars, assembleWorkVars, cut>>

\* The peer has taken the segment, and the uploader does not hear of it.
UploadAnswerLost(t) ==
  /\ "upload" \in Losses
  /\ AtAssignment(t)
  /\ mode[t] = "external"
  /\ work[t] \in Taken
  /\ RunnerReturns(t[1], {})
  /\ UNCHANGED <<vars, processVars, next, mode, segmentWorkVars, assembleWorkVars>>

-----------------------------------------------------------------------------
(* UploadSegment: store, accept, answer.                                    *)

StoreBody(t) ==
  /\ work[t] = "storing"
  /\ work' = [work EXCEPT ![t] = "accepting"]
  /\ UNCHANGED <<vars, processVars, runnerVars, artifact, assembleWorkVars, cut>>

StoreFails(t) ==
  /\ work[t] = "storing"
  /\ work' = [work EXCEPT ![t] = "refusing"]
  /\ UNCHANGED <<vars, processVars, runnerVars, artifact, assembleWorkVars, cut>>

AcceptTask(t) ==
  /\ work[t] = "accepting"
  /\ AcceptSegmentTask(t)
  /\ work' = [work EXCEPT ![t] = "queued"]
  /\ UNCHANGED <<processVars, runnerVars, artifact, assembleWorkVars, cut>>

\* Entry did not get the request, or the worker not the answer.
AcceptFails(t) ==
  /\ "accept" \in Losses
  /\ work[t] = "accepting"
  /\ AcceptSegmentTask(t) \/ UNCHANGED vars
  /\ work' = [work EXCEPT ![t] = "refusing"]
  /\ UNCHANGED <<processVars, runnerVars, artifact, assembleWorkVars, cut>>

\* A slip in respondSegmentFailure: the uploader is told and Entry is not.
RespondSegmentFailureSilently(t) ==
  /\ work[t] = "refusing"
  /\ work' = [work EXCEPT ![t] = "over"]
  /\ RunnerReturns(t[1], {})
  /\ UNCHANGED <<vars, processVars, next, mode, artifact, assembleWorkVars>>

\* Entry is told that the task failed, then the uploader that it may stop.
RespondSegmentFailure(t) ==
  /\ work[t] = "refusing"
  /\ FailSegmentTask(t)
  /\ work' = [work EXCEPT ![t] = "over"]
  /\ RunnerReturns(t[1], {})
  /\ UNCHANGED <<processVars, next, mode, artifact, assembleWorkVars>>

\* The uploader's client times out, or its process is gone.  While the body is
\* being read this is a read error like any other.  After that it ends the
\* request's context, and with it the accept call (which Entry may have served)
\* and the report of the failure.
UploaderGone(t) ==
  /\ "upload" \in Losses \/ SourceOf[t[1]] \notin up
  /\ \/ /\ work[t] = "storing"
        /\ work' = [work EXCEPT ![t] = "refusing"]
        /\ RunnerReturns(t[1], {})
        /\ UNCHANGED vars
     \/ /\ work[t] = "accepting"
        /\ work' = [work EXCEPT ![t] = "over"]
        /\ RunnerReturns(t[1], {Segment(t)})
        /\ AcceptSegmentTask(t) \/ UNCHANGED vars
  /\ UNCHANGED <<processVars, next, mode, artifact, assembleWorkVars>>

-----------------------------------------------------------------------------
(* processUploadedSegment and processInternalSegment. *)

StartProcessing(t) ==
  /\ work[t] = "queued"
  /\ work' = [work EXCEPT ![t] = "processing"]
  /\ artifact' = [artifact EXCEPT ![t] = "partial"]
  /\ UNCHANGED <<vars, processVars, runnerVars, assembleWorkVars, cut>>

ProcessSucceeds(t) ==
  /\ work[t] = "processing"
  /\ work' = [work EXCEPT ![t] = "completing"]
  /\ artifact' = [artifact EXCEPT ![t] = "complete"]
  /\ UNCHANGED <<vars, processVars, runnerVars, assembleWorkVars, cut>>

\* A slip after the call: the type of the engine's response is not looked at.
ProcessFailsUnseen(t) ==
  /\ work[t] = "processing"
  /\ work' = [work EXCEPT ![t] = "completing"]
  /\ UNCHANGED <<vars, processVars, runnerVars, artifact, assembleWorkVars, cut>>

\* The engine says so, or it died; what it wrote so far stays in the file.
ProcessFails(t) ==
  /\ work[t] = "processing"
  /\ work' = [work EXCEPT ![t] = "failing"]
  /\ UNCHANGED <<vars, processVars, runnerVars, artifact, assembleWorkVars, cut>>

ReportSegment(t) ==
  /\ \/ work[t] = "completing" /\ CompleteSegmentTask(t)
     \/ work[t] = "failing" /\ FailSegmentTask(t)
  /\ work' = [work EXCEPT ![t] = "over"]
  /\ UNCHANGED <<processVars, runnerVars, artifact, assembleWorkVars, cut>>

\* The report does not get there; it is logged and not repeated.
ReportSegmentLost(t) ==
  /\ "report" \in Losses
  /\ work[t] \in {"refusing", "completing", "failing"}
  /\ work' = [work EXCEPT ![t] = "over"]
  /\ IF work[t] = "refusing"
     THEN RunnerReturns(t[1], {Segment(t)})
     ELSE cut' = cut \cup {Segment(t)} /\ UNCHANGED runner
  /\ UNCHANGED <<vars, processVars, next, mode, artifact, assembleWorkVars>>

-----------------------------------------------------------------------------
(* StartAssembleGIF and runAssembleGIF. *)

StartAssembleGIF(t) ==
  /\ asmWorker[t] \in up
  /\ \/ /\ WorkerStartsAssemble(t)
        /\ gather' = [gather EXCEPT ![t] = "fetching"]
     \/ WorkerRefusesAssemble(t) /\ UNCHANGED gather
  /\ UNCHANGED <<processVars, runnerVars, segmentWorkVars, got, result, cut>>

\* The segment's worker serves whatever file it finds.
GetArtifact(u) == taskWorker[u] \in up /\ artifact[u] # "none"

\* The artifacts are fetched one after the other, in the order of the segments.
DownloadArtifact(t) ==
  /\ gather[t] = "fetching"
  /\ got[t] < SegmentCount
  /\ GetArtifact(<<t[1], got[t]>>)
  /\ got' = [got EXCEPT ![t] = @ + 1]
  /\ UNCHANGED <<vars, processVars, runnerVars, segmentWorkVars, gather, result, cut>>

\* A slip in the download's error path: the goroutine returns and tells nobody.
DownloadFailsSilently(t) ==
  /\ gather[t] = "fetching"
  /\ got[t] < SegmentCount
  /\ gather' = [gather EXCEPT ![t] = "over"]
  /\ UNCHANGED <<vars, processVars, runnerVars, segmentWorkVars, got, result, cut>>

\* The peer is down or refuses, or sends nothing for the idle timeout.
DownloadFails(t) ==
  /\ gather[t] = "fetching"
  /\ got[t] < SegmentCount
  /\ gather' = [gather EXCEPT ![t] = "failing"]
  /\ UNCHANGED <<vars, processVars, runnerVars, segmentWorkVars, got, result, cut>>

CallAssemble(t) ==
  /\ gather[t] = "fetching"
  /\ got[t] = SegmentCount
  /\ gather' = [gather EXCEPT ![t] = "assembling"]
  /\ UNCHANGED <<vars, processVars, runnerVars, segmentWorkVars, got, result, cut>>

AssembleEnds(t) ==
  /\ gather[t] = "assembling"
  /\ \/ /\ gather' = [gather EXCEPT ![t] = "completing"]
        /\ result' = result \cup {t[1]}
     \/ /\ gather' = [gather EXCEPT ![t] = "failing"]
        /\ UNCHANGED result
  /\ UNCHANGED <<vars, processVars, runnerVars, segmentWorkVars, got, cut>>

ReportAssembled(t) ==
  /\ \/ gather[t] = "completing" /\ \E u \in Tasks : CompleteAssembleJob(t, u)
     \/ gather[t] = "failing" /\ \E u \in Tasks : FailAssembleJob(t, u)
     \/ gather[t] \in {"completing", "failing"} /\ RejectAssembleReport(t)
  /\ gather' = [gather EXCEPT ![t] = "over"]
  /\ UNCHANGED <<processVars, runnerVars, segmentWorkVars, got, result, cut>>

ReportAssembledLost(t) ==
  /\ "report" \in Losses
  /\ gather[t] \in {"completing", "failing"}
  /\ gather' = [gather EXCEPT ![t] = "over"]
  /\ cut' = cut \cup {Assembly(t)}
  /\ UNCHANGED <<vars, processVars, runnerVars, segmentWorkVars, got, result>>

-----------------------------------------------------------------------------
RunnerStep(j) ==
  \/ JobAnswered(j)
  \/ JobAnswerLost(j)
  \/ \E t \in TasksOf(j) :
       \/ ProcessInternal(t)
       \/ BeginUpload(t)
       \/ UploadUnreachable(t)
       \/ NextAssignment(t)
       \/ UploadAnswerLost(t)

UploadStep(t) ==
  \/ StoreBody(t)
  \/ StoreFails(t)
  \/ AcceptTask(t)
  \/ AcceptFails(t)
  \/ UploaderGone(t)
  \/ RespondSegmentFailure(t)

ProcessStep(t) ==
  \/ StartProcessing(t)
  \/ ProcessSucceeds(t)
  \/ ProcessFails(t)
  \/ ReportSegment(t)
  \/ ReportSegmentLost(t)

GatherStep(t) ==
  \/ DownloadArtifact(t)
  \/ DownloadFails(t)
  \/ CallAssemble(t)
  \/ AssembleEnds(t)
  \/ ReportAssembled(t)
  \/ ReportAssembledLost(t)

EntryCreateStep(j) ==
  \/ \E t \in TasksOf(j), m \in Modes, w \in Workers : ReserveInMode(t, m, w)
  \/ EntryCreates(j)

EntryPostStep(t) == PostStep(t) /\ UNCHANGED workerVars
EntryReportStep(t) == ReleaseAssembleReport(t) /\ UNCHANGED workerVars

FleetNext ==
  \/ \E w \in Workers, offer \in Offers : StartWorker(w, offer)
  \/ \E w \in Workers, disk \in HeartbeatDisks : SendHeartbeat(w, disk)
  \/ \E w \in Workers : Crash(w)
  \/ \E stale \in SUBSET online : ExpireWorkers(stale)
  \/ \E j \in Jobs : AskForJob(j) \/ EntryCreateStep(j) \/ RunnerStep(j)
  \/ \E t \in Tasks : UploadStep(t) \/ ProcessStep(t) \/ StartAssembleGIF(t) \/ GatherStep(t)
  \/ \E t \in Tasks : EntryPostStep(t) \/ EntryReportStep(t)

FleetSpec == FleetInit /\ [][FleetNext]_fleetVars

(***************************************************************************)
(* Fairness.  Goroutines of Entry and of live workers go on: each waits    *)
(* for a mutex, for an engine, or for an HTTP call that ends (the download *)
(* has no overall timeout but an idle one).  Processes need not start,     *)
(* restart or send heartbeats, and jobs need not be asked for.             *)
(***************************************************************************)
FleetFairness ==
  /\ \A j \in Jobs : WF_fleetVars(EntryCreateStep(j)) /\ WF_fleetVars(RunnerStep(j))
  /\ \A t \in Tasks :
       /\ WF_fleetVars(UploadStep(t) \/ ProcessStep(t))
       /\ WF_fleetVars(GatherStep(t))
       /\ WF_fleetVars(EntryPostStep(t))
       /\ WF_fleetVars(EntryReportStep(t))

FairFleetSpec == FleetSpec /\ FleetFairness

-----------------------------------------------------------------------------
(* Properties. *)

\* What Entry believes is backed by files: a completed segment has a whole
\* artifact on the worker it is assigned to, so an assembly never downloads one
\* an engine was still writing or left unfinished; a completed job has its GIF.
ClaimsAreBacked ==
  /\ \A t \in Tasks : taskStatus[t] = "completed" => artifact[t] = "complete"
  /\ \A t \in Tasks : gather[t] # "none" =>
       \A u \in TasksOf(t[1]) : artifact[u] = "complete"
  /\ \A j \in Jobs : jobStatus[j] = "completed" => j \in result

\* Each assigned segment is reported to Entry as completed or failed, on every
\* path of the runner, of the upload handler and of the processing goroutine,
\* unless a crash, a lost message or an early return of the runner cut it off.
TaskIsReported ==
  \A t \in Tasks :
    taskStatus[t] = "assigned" ~> taskStatus[t] \in {"completed", "failed"} \/ Segment(t) \in cut

\* A job ends when no segment of it fails and nothing about it is cut off.
FleetJobSettles ==
  \A j \in Jobs :
    call[j] = "created" ~>
      \/ jobStatus[j] \in {"completed", "failed"}
      \/ SegmentFailed(j)
      \/ \E t \in TasksOf(j) : Segment(t) \in cut \/ Assembly(t) \in cut

CutHolders(w) ==
  {t \in SegmentHolders(w) : Segment(t) \in cut} \cup {t \in AssembleHolders(w) : Assembly(t) \in cut}

\* In the end the slots Entry holds on a worker are at most those of tasks that
\* were cut off: worker restarts, refusals and failures leak nothing else.
OnlyCutTasksKeepSlots ==
  <>[](\A w \in Workers : reservedSlots[w] <= Cardinality(CutHolders(w)))
=============================================================================
