----------------------------- MODULE FleetProofs -----------------------------
(***************************************************************************)
(* Entry together with the worker processes: the composition implements    *)
(* Entry's own specification, so what is proved of Entry alone, where a    *)
(* worker may report at any time, holds with real workers; and what Entry  *)
(* believes of segments and jobs is backed by files on the workers.  Then  *)
(* who holds a task: the goroutines' and Entry's sides agree but for what  *)
(* a fault has cut off, so when no step is left every job has settled and  *)
(* every slot has been given back, but for those.                          *)
(***************************************************************************)
EXTENDS Fleet, JobManagerReservations

\* A step of the composition is a step of Entry or leaves Entry alone.
LEMMA StepsOfEntry == [FleetNext]_fleetVars => [Next]_vars
<1> SUFFICES ASSUME [FleetNext]_fleetVars PROVE [Next]_vars
  OBVIOUS
<1>1. ASSUME NEW w \in Workers, NEW offer \in Offers, StartWorker(w, offer) PROVE Next
  BY <1>1 DEF StartWorker, Next
<1>2. ASSUME NEW w \in Workers, NEW disk \in HeartbeatDisks, SendHeartbeat(w, disk) PROVE Next
  BY <1>2 DEF SendHeartbeat, Next
<1>3. ASSUME NEW w \in Workers, Crash(w) PROVE UNCHANGED vars
  BY <1>3 DEF Crash
<1>4. ASSUME NEW stale \in SUBSET online, ExpireWorkers(stale) PROVE Next
  BY <1>4 DEF ExpireWorkers, Next
<1>5. ASSUME NEW j \in Jobs, AskForJob(j) \/ EntryCreateStep(j) PROVE Next
  <2>1. CreateStep(j)
    BY <1>5 DEF AskForJob, EntryCreateStep, EntryCreates, ReserveInMode, CreateStep
  <2> QED
    BY <2>1 DEF Next
<1>6. ASSUME NEW j \in Jobs, RunnerStep(j) PROVE UNCHANGED vars
  BY <1>6 DEF RunnerStep, JobAnswered, JobAnswerLost, ProcessInternal, BeginUpload,
     UploadUnreachable, NextAssignment, UploadAnswerLost
<1>7. ASSUME NEW t \in Tasks, UploadStep(t) \/ ProcessStep(t) PROVE Next \/ UNCHANGED vars
  <2>1. SegmentReport(t) \/ UNCHANGED vars
    BY <1>7 DEF UploadStep, StoreBody, StoreFails, AcceptTask, AcceptFails, UploaderGone,
       RespondSegmentFailure, ProcessStep, StartProcessing, ProcessSucceeds, ProcessFails,
       ReportSegment, ReportSegmentLost, SegmentReport
  <2> QED
    BY <2>1 DEF Next
<1>8. ASSUME NEW t \in Tasks, StartAssembleGIF(t) \/ GatherStep(t) PROVE Next \/ UNCHANGED vars
  <2>1. AssembleRun(t) \/ UNCHANGED vars
    BY <1>8 DEF StartAssembleGIF, GatherStep, DownloadArtifact, DownloadFails, CallAssemble,
       AssembleEnds, ReportAssembled, ReportAssembledLost, AssembleRun
  <2> QED
    BY <2>1 DEF Next
<1>9. ASSUME NEW t \in Tasks, EntryPostStep(t) \/ EntryReportStep(t) PROVE Next
  BY <1>9 DEF EntryPostStep, EntryReportStep, Next
<1>10. CASE UNCHANGED fleetVars
  BY <1>10 DEF fleetVars
<1> QED
  BY <1>1, <1>2, <1>3, <1>4, <1>5, <1>6, <1>7, <1>8, <1>9, <1>10 DEF FleetNext

\* With its workers as processes that crash, lose messages and give up, Entry still
\* behaves as JobManager says, so every theorem about Spec holds of the fleet.
THEOREM FleetImplementsEntry == FleetSpec => Spec
<1>1. FleetInit => Init
  BY DEF FleetInit
<1> QED
  BY <1>1, StepsOfEntry, PTL DEF FleetSpec, Spec

\* What clients are told follows VideoResults in the whole fleet.
THEOREM FleetImplementsVideoResults == FleetSpec => ImplementsVideoResults
  BY FleetImplementsEntry, EntryImplementsVideoResults

-----------------------------------------------------------------------------
(* Type correctness of the worker side. *)

SegmentOrAssembly == {Segment(t) : t \in Tasks} \cup {Assembly(t) : t \in Tasks}

WorkersTypeOK ==
  /\ up \subseteq Workers
  /\ crashes \in 0 .. MaxCrashes
  /\ runner \in [Jobs -> RunnerPoints]
  /\ next \in [Jobs -> 0 .. SegmentCount]
  /\ mode \in [Tasks -> Modes \cup {"none"}]
  /\ work \in [Tasks -> WorkPoints]
  /\ artifact \in [Tasks -> {"none", "partial", "complete"}]
  /\ gather \in [Tasks -> GatherPoints]
  /\ got \in [Tasks -> 0 .. SegmentCount]
  /\ result \subseteq Jobs
  /\ cut \subseteq SegmentOrAssembly

\* What a runner leaves behind are segments of its job.
LEMMA UndispatchedType ==
  ASSUME NEW j \in Jobs
  PROVE  Undispatched(j) \subseteq SegmentOrAssembly
BY TaskFacts DEF Undispatched, SegmentOrAssembly

\* A runner that returns moves to one of its points and cuts off tasks only.
LEMMA RunnerReturnsType ==
  ASSUME WorkersTypeOK, NEW j \in Jobs, NEW lost \in SUBSET SegmentOrAssembly,
         RunnerReturns(j, lost)
  PROVE  runner' \in [Jobs -> RunnerPoints] /\ cut' \subseteq SegmentOrAssembly
<1>1. cut' \subseteq SegmentOrAssembly
  BY UndispatchedType DEF RunnerReturns, WorkersTypeOK
<1> QED
  BY <1>1 DEF RunnerReturns, WorkersTypeOK, RunnerPoints

\* A step of Entry alone leaves the types of the worker processes as they are.
LEMMA WorkersTypeFrame ==
  ASSUME WorkersTypeOK, UNCHANGED workerVars
  PROVE  WorkersTypeOK'
BY DEF WorkersTypeOK, workerVars, processVars, runnerVars, segmentWorkVars, assembleWorkVars,
   SegmentOrAssembly

\* The end of a process.
LEMMA CrashType ==
  ASSUME WorkersTypeOK, NEW w \in Workers, Crash(w)
  PROVE  WorkersTypeOK'
<1> DEFINE sources == {j \in Jobs : SourceOf[j] = w /\ runner[j] \in {"asking", "dispatching"}}
           tasks == {t \in Tasks : InHand(t) /\ taskWorker[t] = w}
           runs == {t \in Tasks : Gathering(t) /\ asmWorker[t] = w}
<1>1. cut' \subseteq SegmentOrAssembly
  <2> DEFINE a == UNION {Undispatched(j) : j \in sources}
             b == {Segment(t) : t \in tasks}
             c == {Assembly(t) : t \in runs}
  <2>1. a \subseteq SegmentOrAssembly
    BY UndispatchedType
  <2>2. b \subseteq SegmentOrAssembly /\ c \subseteq SegmentOrAssembly
    BY DEF SegmentOrAssembly
  <2>3. cut' = cut \cup a \cup b \cup c
    BY DEF Crash
  <2> HIDE DEF a, b, c
  <2> QED
    BY <2>1, <2>2, <2>3 DEF WorkersTypeOK
<1>2. runner' = [j \in Jobs |-> IF j \in sources THEN "over" ELSE runner[j]]
  BY DEF Crash
<1>3. work' = [t \in Tasks |-> IF t \in tasks THEN "over" ELSE work[t]]
  BY DEF Crash
<1>4. gather' = [t \in Tasks |-> IF t \in runs THEN "over" ELSE gather[t]]
  BY DEF Crash
<1>5. up' \subseteq Workers /\ crashes' \in 0 .. MaxCrashes
  BY FleetAssumption DEF Crash, WorkersTypeOK
<1>6. UNCHANGED <<next, mode, artifact, got, result>>
  BY DEF Crash
<1> HIDE DEF sources, tasks, runs
<1>7. runner' \in [Jobs -> RunnerPoints] /\ work' \in [Tasks -> WorkPoints]
        /\ gather' \in [Tasks -> GatherPoints]
  BY <1>2, <1>3, <1>4 DEF WorkersTypeOK, RunnerPoints, WorkPoints, Taken, GatherPoints
<1> QED
  BY <1>1, <1>5, <1>6, <1>7 DEF WorkersTypeOK, SegmentOrAssembly

\* Every step of the composition keeps the workers' variables in their types.
LEMMA WorkersTypeStep ==
  TypeOK /\ WorkersTypeOK /\ [FleetNext]_fleetVars => WorkersTypeOK'
<1> SUFFICES ASSUME TypeOK, WorkersTypeOK, [FleetNext]_fleetVars PROVE WorkersTypeOK'
  OBVIOUS
<1> USE TaskFacts
<1>1. CASE UNCHANGED workerVars
  BY <1>1, WorkersTypeFrame
<1>2. ASSUME NEW w \in Workers, NEW offer \in Offers, StartWorker(w, offer) PROVE WorkersTypeOK'
  BY <1>2 DEF StartWorker, WorkersTypeOK, runnerVars, segmentWorkVars, assembleWorkVars,
     SegmentOrAssembly
<1>3. ASSUME NEW w \in Workers, Crash(w) PROVE WorkersTypeOK'
  BY <1>3, CrashType
<1>4. ASSUME NEW j \in Jobs, AskForJob(j) PROVE WorkersTypeOK'
  BY <1>4 DEF AskForJob, WorkersTypeOK, RunnerPoints, processVars, segmentWorkVars,
     assembleWorkVars, SegmentOrAssembly
<1>5. ASSUME NEW j \in Jobs, NEW t \in TasksOf(j), NEW m \in Modes, NEW w \in Workers,
             ReserveInMode(t, m, w)
      PROVE  WorkersTypeOK'
  BY <1>5 DEF ReserveInMode, WorkersTypeOK, processVars, segmentWorkVars, assembleWorkVars,
     SegmentOrAssembly
<1>6. \A t \in Tasks : {Segment(t)} \subseteq SegmentOrAssembly
                        /\ {Assembly(t)} \subseteq SegmentOrAssembly
  BY DEF SegmentOrAssembly
<1>7. {} \subseteq SegmentOrAssembly /\ SegmentOrAssembly' = SegmentOrAssembly
  BY DEF SegmentOrAssembly
<1>8. ASSUME NEW j \in Jobs, RunnerStep(j) PROVE WorkersTypeOK'
  <2>1. CASE JobAnswered(j)
    BY <1>7, <2>1 DEF JobAnswered, WorkersTypeOK, RunnerPoints, processVars, segmentWorkVars,
       assembleWorkVars
  <2>2. CASE JobAnswerLost(j)
    BY <1>7, <2>2, UndispatchedType DEF JobAnswerLost, WorkersTypeOK, RunnerPoints, processVars,
       segmentWorkVars, assembleWorkVars
  <2>3. ASSUME NEW t \in TasksOf(j), ProcessInternal(t) PROVE WorkersTypeOK'
    BY <1>7, <2>3 DEF ProcessInternal, WorkersTypeOK, WorkPoints, Taken, processVars,
       runnerVars, assembleWorkVars
  <2>4. ASSUME NEW t \in TasksOf(j), BeginUpload(t) PROVE WorkersTypeOK'
    BY <1>7, <2>4 DEF BeginUpload, WorkersTypeOK, WorkPoints, processVars, runnerVars,
       assembleWorkVars
  <2>5. ASSUME NEW t \in TasksOf(j), UploadUnreachable(t) \/ UploadAnswerLost(t)
        PROVE  WorkersTypeOK'
    <3>1. runner' \in [Jobs -> RunnerPoints] /\ cut' \subseteq SegmentOrAssembly
      BY <1>6, <1>7, <2>5, RunnerReturnsType DEF UploadUnreachable, UploadAnswerLost
    <3> QED
      BY <1>7, <2>5, <3>1 DEF UploadUnreachable, UploadAnswerLost, WorkersTypeOK, processVars,
         segmentWorkVars, assembleWorkVars
  <2>6. ASSUME NEW t \in TasksOf(j), NextAssignment(t) PROVE WorkersTypeOK'
    <3>1. t[2] \in 0 .. SegmentCount - 1 /\ SegmentCount \in Nat
      BY JobManagerAssumption DEF TasksOf, Tasks, Segments
    <3>2. next[j] + 1 \in 0 .. SegmentCount
      BY <2>6, <3>1 DEF NextAssignment, AtAssignment, WorkersTypeOK
    <3> QED
      BY <1>7, <2>6, <3>2 DEF NextAssignment, WorkersTypeOK, RunnerPoints, processVars,
         segmentWorkVars, assembleWorkVars
  <2> QED
    BY <1>8, <2>1, <2>2, <2>3, <2>4, <2>5, <2>6 DEF RunnerStep
<1>9. ASSUME NEW t \in Tasks, UploadStep(t) \/ ProcessStep(t) PROVE WorkersTypeOK'
  <2>1. work' \in [Tasks -> WorkPoints] /\ artifact' \in [Tasks -> {"none", "partial", "complete"}]
    BY <1>9, SMTT(30) DEF UploadStep, StoreBody, StoreFails, AcceptTask, AcceptFails, UploaderGone,
       RespondSegmentFailure, ProcessStep, StartProcessing, ProcessSucceeds, ProcessFails,
       ReportSegment, ReportSegmentLost, WorkersTypeOK, WorkPoints, Taken
  <2>2. UNCHANGED <<up, crashes, next, mode, gather, got, result>>
    BY <1>9 DEF UploadStep, StoreBody, StoreFails, AcceptTask, AcceptFails, UploaderGone,
       RespondSegmentFailure, ProcessStep, StartProcessing, ProcessSucceeds, ProcessFails,
       ReportSegment, ReportSegmentLost, processVars, runnerVars, assembleWorkVars
  <2>3. \/ UNCHANGED <<runner, cut>>
        \/ UNCHANGED runner /\ cut' = cut \cup {Segment(t)}
        \/ RunnerReturns(t[1], {}) \/ RunnerReturns(t[1], {Segment(t)})
    BY <1>9 DEF UploadStep, StoreBody, StoreFails, AcceptTask, AcceptFails, UploaderGone,
       RespondSegmentFailure, ProcessStep, StartProcessing, ProcessSucceeds, ProcessFails,
       ReportSegment, ReportSegmentLost, runnerVars
  <2>4. runner' \in [Jobs -> RunnerPoints] /\ cut' \subseteq SegmentOrAssembly
    <3>1. CASE RunnerReturns(t[1], {}) \/ RunnerReturns(t[1], {Segment(t)})
      BY <1>6, <1>7, <3>1, RunnerReturnsType
    <3> QED
      BY <1>6, <2>3, <3>1 DEF WorkersTypeOK
  <2> QED
    BY <1>7, <2>1, <2>2, <2>4 DEF WorkersTypeOK
<1>10. ASSUME NEW t \in Tasks, StartAssembleGIF(t) \/ GatherStep(t) PROVE WorkersTypeOK'
  <2>1. gather' \in [Tasks -> GatherPoints] /\ got' \in [Tasks -> 0 .. SegmentCount]
    <3>1. CASE DownloadArtifact(t)
      BY <3>1, JobManagerAssumption DEF DownloadArtifact, WorkersTypeOK
    <3>2. CASE ~DownloadArtifact(t)
      BY <1>10, <3>2 DEF StartAssembleGIF, GatherStep, DownloadFails, CallAssemble,
         AssembleEnds, ReportAssembled, ReportAssembledLost, WorkersTypeOK, GatherPoints
    <3> QED
      BY <3>1, <3>2
  <2>2. result' \subseteq Jobs /\ cut' \subseteq SegmentOrAssembly
    BY <1>6, <1>10 DEF StartAssembleGIF, GatherStep, DownloadArtifact, DownloadFails,
       CallAssemble, AssembleEnds, ReportAssembled, ReportAssembledLost, WorkersTypeOK
  <2>3. UNCHANGED <<up, crashes, runner, next, mode, work, artifact>>
    BY <1>10 DEF StartAssembleGIF, GatherStep, DownloadArtifact, DownloadFails, CallAssemble,
       AssembleEnds, ReportAssembled, ReportAssembledLost, processVars, runnerVars,
       segmentWorkVars
  <2> QED
    BY <1>7, <2>1, <2>2, <2>3 DEF WorkersTypeOK
<1>11. CASE UNCHANGED fleetVars
  BY <1>1, <1>11 DEF fleetVars
<1> QED
  BY <1>1, <1>2, <1>3, <1>4, <1>5, <1>8, <1>9, <1>10, <1>11 DEF FleetNext, SendHeartbeat,
     ExpireWorkers, EntryCreateStep, EntryCreates, EntryPostStep, EntryReportStep

\* Type correctness of Entry and its workers.
THEOREM FleetTypeCorrect == FleetSpec => []FleetTypeOK
<1>1. FleetInit => WorkersTypeOK
  BY JobManagerAssumption, FleetAssumption DEF FleetInit, WorkersTypeOK, RunnerPoints,
     WorkPoints, GatherPoints
<1>2. FleetSpec => []TypeOK
  BY FleetImplementsEntry, TypeCorrect
<1>3. TypeOK /\ WorkersTypeOK => FleetTypeOK
  BY DEF WorkersTypeOK, FleetTypeOK, SegmentOrAssembly
<1> QED
  BY <1>1, <1>2, <1>3, WorkersTypeStep, PTL DEF FleetSpec

-----------------------------------------------------------------------------
(* Entry's claims and the workers' files. *)

\* A worker reports a segment only with its artifact whole, and nobody touches
\* the artifact after the report; an assembly was sent by Entry, and it is
\* reported only with the GIF in place.
BackedInv ==
  /\ \A t \in Tasks : work[t] = "completing" => artifact[t] = "complete"
  /\ \A t \in Tasks : taskStatus[t] = "completed" => artifact[t] = "complete" /\ work[t] = "over"
  /\ \A t \in Tasks : gather[t] # "none" => asmRun[t] # "none"
  /\ \A t \in Tasks : gather[t] = "completing" => t[1] \in result
  /\ \A j \in Jobs : jobStatus[j] = "completed" => j \in result

\* A step by which no segment and no job becomes completed; an assembly that was
\* sent stays sent.
Quiet ==
  /\ \A t \in Tasks : asmRun[t] # "none" => asmRun'[t] # "none"
  /\ \A t \in Tasks : taskStatus'[t] = "completed" => taskStatus[t] = "completed"
  /\ \A j \in Jobs : jobStatus'[j] = "completed" => jobStatus[j] = "completed"

\* Entry's own steps, and all reports but the two completing ones, are quiet.
LEMMA QuietEntryStep ==
  ASSUME TypeOK,
         \/ UNCHANGED managerVars \/ UNCHANGED vars
         \/ \E j \in Jobs : CreateStep(j)
         \/ \E t \in Tasks : AcceptSegmentTask(t) \/ FailSegmentTask(t)
         \/ \E t \in Tasks : PostStep(t) \/ ReleaseAssembleReport(t)
         \/ \E t \in Tasks : WorkerStartsAssemble(t) \/ WorkerRefusesAssemble(t)
         \/ \E t \in Tasks : RejectAssembleReport(t) \/ \E u \in Tasks : FailAssembleJob(t, u)
  PROVE  Quiet
<1>1. CASE UNCHANGED <<asmRun, taskStatus, jobStatus>>
  BY <1>1 DEF Quiet
<1>2. CASE UNCHANGED managerVars \/ UNCHANGED vars
  BY <1>1, <1>2 DEF managerVars, vars, segmentVars, assembleVars
<1>3. ASSUME NEW j \in Jobs, CreateStep(j) PROVE Quiet
  <2>1. CASE CommitJob(j)
    BY <2>1 DEF CommitJob, assembleVars, TypeOK, Quiet
  <2>2. CASE ~CommitJob(j)
    BY <1>1, <1>3, <2>2 DEF CreateStep, CreateJob, ReserveSegment, GiveUpReserving, RejectJob,
       CommitFindsJob, segmentVars, assembleVars
  <2> QED
    BY <2>1, <2>2
<1>4. ASSUME NEW t \in Tasks, AcceptSegmentTask(t) \/ FailSegmentTask(t) PROVE Quiet
  BY <1>4 DEF AcceptSegmentTask, FailSegmentTask, assembleVars, TypeOK, Quiet
<1>5. ASSUME NEW t \in Tasks, PostStep(t) PROVE Quiet
  <2>1. UNCHANGED taskStatus
    BY <1>5 DEF PostStep, ReleaseSegmentSlot, SnapshotSegments, PickAssembleWorker,
       NoAssembleWorker, AssembleIDError, MarkJobFailed, InsertAssembleTask, StartAccepted,
       StartRefused, StartRefusedForStorage, StartUndelivered, StartAnswerLost,
       MarkAssembleStartFailed, ReleaseAssembleStart, segmentVars
  <2>2. asmRun' = asmRun \/ \E s \in {"sent", "dropped"} : asmRun' = [asmRun EXCEPT ![t] = s]
    BY <1>5 DEF PostStep, ReleaseSegmentSlot, SnapshotSegments, PickAssembleWorker,
       NoAssembleWorker, AssembleIDError, MarkJobFailed, InsertAssembleTask, StartAccepted,
       StartRefused, StartRefusedForStorage, StartUndelivered, StartAnswerLost,
       MarkAssembleStartFailed, ReleaseAssembleStart, assembleVars
  <2>3. jobStatus' = jobStatus \/ \E s \in {"assemble_assigned", "assemble_running", "failed"} :
                                    jobStatus' = [jobStatus EXCEPT ![t[1]] = s]
    BY <1>5 DEF PostStep, ReleaseSegmentSlot, SnapshotSegments, PickAssembleWorker,
       NoAssembleWorker, AssembleIDError, MarkJobFailed, InsertAssembleTask, StartAccepted,
       StartRefused, StartRefusedForStorage, StartUndelivered, StartAnswerLost,
       MarkAssembleStartFailed, ReleaseAssembleStart, TypeOK
  <2> QED
    BY <2>1, <2>2, <2>3 DEF TypeOK, Quiet
<1>6. ASSUME NEW t \in Tasks, \/ WorkerStartsAssemble(t) \/ WorkerRefusesAssemble(t)
                              \/ RejectAssembleReport(t) \/ ReleaseAssembleReport(t)
      PROVE  Quiet
  BY <1>6 DEF WorkerStartsAssemble, WorkerRefusesAssemble, RejectAssembleReport,
     ReleaseAssembleReport, segmentVars, TypeOK, Quiet
<1>7. ASSUME NEW t \in Tasks, NEW u \in Tasks, FailAssembleJob(t, u) PROVE Quiet
  BY <1>7 DEF FailAssembleJob, FinishAssemble, segmentVars, TypeOK, Quiet
<1> QED
  BY <1>2, <1>3, <1>4, <1>5, <1>6, <1>7

\* Every step of the composition keeps BackedInv.
LEMMA BackedStep ==
  TypeOK /\ WorkersTypeOK /\ BackedInv /\ [FleetNext]_fleetVars => BackedInv'
<1> SUFFICES ASSUME TypeOK, WorkersTypeOK, BackedInv, [FleetNext]_fleetVars PROVE BackedInv'
  OBVIOUS
<1>1. CASE Quiet /\ UNCHANGED <<work, artifact, gather, result>>
  BY <1>1 DEF Quiet, BackedInv
<1>2. ASSUME NEW w \in Workers, Crash(w) PROVE BackedInv'
  <2>1. UNCHANGED <<artifact, result>> /\ Quiet
    BY <1>2, QuietEntryStep DEF Crash
  <2>2. \A t \in Tasks : work'[t] = work[t] \/ work'[t] = "over"
    BY <1>2 DEF Crash
  <2>3. \A t \in Tasks : work[t] = "over" => work'[t] = "over"
    BY <1>2 DEF Crash, InHand
  <2>4. \A t \in Tasks : gather'[t] = gather[t] \/ (gather[t] # "none" /\ gather'[t] = "over")
    BY <1>2 DEF Crash, Gathering
  <2> QED
    BY <2>1, <2>2, <2>3, <2>4 DEF BackedInv, Quiet
<1>3. ASSUME NEW j \in Jobs, RunnerStep(j) PROVE BackedInv'
  <2>1. Quiet
    BY <1>3, QuietEntryStep DEF RunnerStep, JobAnswered, JobAnswerLost, ProcessInternal,
       BeginUpload, UploadUnreachable, NextAssignment, UploadAnswerLost
  <2>2. ASSUME NEW t \in TasksOf(j), ProcessInternal(t) \/ BeginUpload(t) PROVE BackedInv'
    <3>1. t \in Tasks /\ taskStatus[t] # "completed"
      BY <2>2, TaskFacts DEF ProcessInternal, BeginUpload, BackedInv
    <3> QED
      BY <2>1, <2>2, <3>1 DEF ProcessInternal, BeginUpload, BackedInv, WorkersTypeOK,
         assembleWorkVars, Quiet
  <2>3. CASE ~\E t \in TasksOf(j) : ProcessInternal(t) \/ BeginUpload(t)
    BY <1>1, <1>3, <2>1, <2>3 DEF RunnerStep, JobAnswered, JobAnswerLost, UploadUnreachable,
       NextAssignment, UploadAnswerLost, segmentWorkVars, assembleWorkVars
  <2> QED
    BY <2>2, <2>3
<1>4. ASSUME NEW t \in Tasks, UploadStep(t) \/ ProcessStep(t) PROVE BackedInv'
  <2>1. work[t] # "over" /\ UNCHANGED <<gather, result>>
    BY <1>4 DEF UploadStep, StoreBody, StoreFails, AcceptTask, AcceptFails, UploaderGone,
       RespondSegmentFailure, ProcessStep, StartProcessing, ProcessSucceeds, ProcessFails,
       ReportSegment, ReportSegmentLost, assembleWorkVars
  <2>2. taskStatus[t] # "completed"
    BY <2>1 DEF BackedInv
  <2>3. CASE work[t] = "completing" /\ CompleteSegmentTask(t)
    <3>1. artifact' = artifact /\ work' = [work EXCEPT ![t] = "over"]
      BY <1>4, <2>3 DEF UploadStep, StoreBody, StoreFails, AcceptTask, AcceptFails,
         UploaderGone, RespondSegmentFailure, ProcessStep, StartProcessing, ProcessSucceeds,
         ProcessFails, ReportSegment, ReportSegmentLost
    <3>2. taskStatus' = [taskStatus EXCEPT ![t] = "completed"] /\ UNCHANGED asmRun
      BY <2>3 DEF CompleteSegmentTask, assembleVars
    <3>3. jobStatus' = jobStatus \/ jobStatus' = [jobStatus EXCEPT ![t[1]] = "segment_completed"]
      BY <2>3 DEF CompleteSegmentTask
    <3> QED
      BY <2>1, <2>3, <3>1, <3>2, <3>3 DEF BackedInv, WorkersTypeOK, TypeOK
  <2>4. CASE ~(work[t] = "completing" /\ CompleteSegmentTask(t))
    <3>1. AcceptSegmentTask(t) \/ FailSegmentTask(t) \/ UNCHANGED vars
      BY <1>4, <2>4 DEF UploadStep, StoreBody, StoreFails, AcceptTask, AcceptFails,
         UploaderGone, RespondSegmentFailure, ProcessStep, StartProcessing, ProcessSucceeds,
         ProcessFails, ReportSegment, ReportSegmentLost
    <3>2. Quiet
      BY <3>1, QuietEntryStep
    <3>3. \/ /\ artifact' = artifact
             /\ \E p \in WorkPoints \ {"completing"} : work' = [work EXCEPT ![t] = p]
          \/ /\ artifact' = [artifact EXCEPT ![t] = "partial"]
             /\ work' = [work EXCEPT ![t] = "processing"]
          \/ /\ artifact' = [artifact EXCEPT ![t] = "complete"]
             /\ work' = [work EXCEPT ![t] = "completing"]
      BY <1>4 DEF UploadStep, StoreBody, StoreFails, AcceptTask, AcceptFails, UploaderGone,
         RespondSegmentFailure, ProcessStep, StartProcessing, ProcessSucceeds, ProcessFails,
         ReportSegment, ReportSegmentLost, WorkPoints, Taken
    <3> QED
      BY <2>1, <2>2, <3>2, <3>3 DEF BackedInv, WorkersTypeOK, Quiet
  <2> QED
    BY <2>3, <2>4
<1>5. ASSUME NEW t \in Tasks, StartAssembleGIF(t) PROVE BackedInv'
  <2>1. Quiet /\ UNCHANGED <<work, artifact, result>>
    BY <1>5, QuietEntryStep DEF StartAssembleGIF, segmentWorkVars
  <2>2. \/ gather' = gather
        \/ gather' = [gather EXCEPT ![t] = "fetching"] /\ asmRun' = [asmRun EXCEPT ![t] = "running"]
    BY <1>5 DEF StartAssembleGIF, WorkerStartsAssemble
  <2> QED
    BY <2>1, <2>2 DEF BackedInv, WorkersTypeOK, TypeOK, Quiet
<1>6. ASSUME NEW t \in Tasks, GatherStep(t), ~ReportAssembled(t) PROVE BackedInv'
  <2>1. gather[t] # "none" /\ UNCHANGED <<work, artifact>> /\ Quiet
    BY <1>6, QuietEntryStep DEF GatherStep, DownloadArtifact, DownloadFails, CallAssemble,
       AssembleEnds, ReportAssembledLost, segmentWorkVars
  <2>2. \/ UNCHANGED <<gather, result>>
        \/ /\ UNCHANGED result
           /\ \E p \in {"failing", "assembling", "over"} : gather' = [gather EXCEPT ![t] = p]
        \/ result' = result \cup {t[1]} /\ gather' = [gather EXCEPT ![t] = "completing"]
    BY <1>6 DEF GatherStep, DownloadArtifact, DownloadFails, CallAssemble, AssembleEnds,
       ReportAssembledLost
  <2> QED
    BY <2>1, <2>2 DEF BackedInv, WorkersTypeOK, Quiet
<1>7. ASSUME NEW t \in Tasks, ReportAssembled(t) PROVE BackedInv'
  <2>1. /\ gather[t] # "none" /\ gather' = [gather EXCEPT ![t] = "over"]
        /\ UNCHANGED <<work, artifact, result>>
    BY <1>7 DEF ReportAssembled, segmentWorkVars
  <2>2. ASSUME NEW u \in Tasks, gather[t] = "completing", CompleteAssembleJob(t, u)
        PROVE  BackedInv'
    <3>1. /\ jobStatus' = [jobStatus EXCEPT ![t[1]] = "completed"]
          /\ asmRun' = [asmRun EXCEPT ![t] = "reported"] /\ UNCHANGED taskStatus
      BY <2>2 DEF CompleteAssembleJob, FinishAssemble, segmentVars
    <3>2. t[1] \in result
      BY <2>2 DEF BackedInv
    <3> QED
      BY <2>1, <3>1, <3>2 DEF BackedInv, WorkersTypeOK, TypeOK
  <2>3. CASE RejectAssembleReport(t) \/ \E u \in Tasks : FailAssembleJob(t, u)
    <3>1. Quiet
      BY <2>3, QuietEntryStep
    <3> QED
      BY <2>1, <3>1 DEF BackedInv, WorkersTypeOK, Quiet
  <2> QED
    BY <1>7, <2>2, <2>3 DEF ReportAssembled
<1>8. ASSUME NEW j \in Jobs, AskForJob(j) \/ EntryCreateStep(j) PROVE BackedInv'
  <2>1. CreateStep(j)
    BY <1>8 DEF AskForJob, EntryCreateStep, EntryCreates, ReserveInMode, CreateStep
  <2>2. Quiet
    BY <2>1, QuietEntryStep
  <2> QED
    BY <1>1, <1>8, <2>2 DEF AskForJob, EntryCreateStep, EntryCreates, ReserveInMode, workerVars,
       segmentWorkVars, assembleWorkVars
<1>9. ASSUME NEW t \in Tasks, EntryPostStep(t) \/ EntryReportStep(t) PROVE BackedInv'
  <2>1. Quiet
    BY <1>9, QuietEntryStep DEF EntryPostStep, EntryReportStep
  <2> QED
    BY <1>1, <1>9, <2>1 DEF EntryPostStep, EntryReportStep, workerVars, segmentWorkVars,
       assembleWorkVars
<1>10. CASE \/ \E w \in Workers, offer \in Offers : StartWorker(w, offer)
            \/ \E w \in Workers, disk \in HeartbeatDisks : SendHeartbeat(w, disk)
            \/ \E stale \in SUBSET online : ExpireWorkers(stale)
            \/ UNCHANGED fleetVars
  <2>1. Quiet
    BY <1>10, QuietEntryStep DEF StartWorker, SendHeartbeat, ExpireWorkers, fleetVars
  <2> QED
    BY <1>1, <1>10, <2>1 DEF StartWorker, SendHeartbeat, ExpireWorkers, fleetVars, workerVars,
       segmentWorkVars, assembleWorkVars
<1> QED
  BY <1>2, <1>3, <1>4, <1>5, <1>6, <1>7, <1>8, <1>9, <1>10 DEF FleetNext

\* What Entry believes of segments and jobs is backed by files on the workers,
\* whatever crashes, gets lost or gives up, for every fleet and every number of
\* jobs and segments.
THEOREM ClaimsStayBacked == FleetSpec => []ClaimsAreBacked
<1>1. FleetInit => BackedInv
  BY DEF FleetInit, Init, BackedInv
<1>2. FleetSpec => [](TypeOK /\ StructureInv)
  BY FleetImplementsEntry, StructureInvariant
<1>3. FleetTypeOK => WorkersTypeOK
  BY DEF FleetTypeOK, WorkersTypeOK, SegmentOrAssembly
<1>4. StructureInv /\ BackedInv => ClaimsAreBacked
  <2> SUFFICES ASSUME StructureInv, BackedInv, NEW t \in Tasks, gather[t] # "none",
                      NEW u \in TasksOf(t[1])
               PROVE  artifact[u] = "complete"
    BY DEF BackedInv, ClaimsAreBacked
  <2>1. Starter(t)
    BY DEF BackedInv, StructureInv, AssemblyStages, Starter
  <2> QED
    BY <2>1, StartedJobIsWhole, TaskFacts DEF SegmentsDone, BackedInv
<1> QED
  BY <1>1, <1>2, <1>3, <1>4, BackedStep, FleetTypeCorrect, PTL DEF FleetSpec

-----------------------------------------------------------------------------
(***************************************************************************)
(* Who holds a task.  Entry has no timeout on a task: one that nobody      *)
(* holds any more stays open, and so does its slot.  The facts below say   *)
(* where the runner, the goroutine with the segment and the run of an      *)
(* assembly stand relative to Entry's records, and what has been cut off.  *)
(***************************************************************************)
Open(t) == taskStatus[t] \in {"assigned", "running"}

RunnerAgrees(j) ==
  /\ runner[j] \in {"asking", "dispatching"} => SourceOf[j] \in up
  /\ runner[j] = "idle" => call[j] = "idle"
  /\ runner[j] = "dispatching" => call[j] = "created" /\ next[j] < SegmentCount
  /\ runner[j] \in {"idle", "asking"} => next[j] = 0
  /\ runner[j] = "dispatching" => \A t \in TasksOf(j) : t[2] < next[j] => work[t] # "none"
  /\ runner[j] = "over" => \A t \in TasksOf(j) :
       work[t] = "none" => Segment(t) \in cut \/ call[j] \in {"exists", "rejected"}

HandsAgree(t) ==
  /\ work[t] # "none" => call[t[1]] = "created" /\ runner[t[1]] \in {"dispatching", "over"}
  /\ mode[t] = "internal" => taskWorker[t] \in {SourceOf[t[1]], NoWorker}
  /\ InHand(t) => taskWorker[t] \in up /\ Open(t)
  /\ work[t] \in {"none", "storing", "accepting"} => taskStatus[t] \in {"none", "assigned"}
  /\ work[t] = "over" => Segment(t) \in cut \/ taskStatus[t] \in {"completed", "failed"}
  /\ artifact[t] # "none" => work[t] \in {"processing", "completing", "failing", "over"}

RunAgrees(t) ==
  /\ Gathering(t) => asmRun[t] = "running" /\ asmWorker[t] \in up
  /\ asmRun[t] = "running" => Gathering(t) \/ Assembly(t) \in cut

SegmentsHeld == (\A j \in Jobs : RunnerAgrees(j)) /\ (\A t \in Tasks : HandsAgree(t))
RunsHeld == \A t \in Tasks : RunAgrees(t)

\* A step that leaves the assemblies alone, though a worker may start and more may be cut off.
LEMMA RunsFrame ==
  ASSUME RunsHeld, UNCHANGED <<gather, asmRun, asmWorker>>, up \subseteq up', cut \subseteq cut'
  PROVE  RunsHeld'
BY DEF RunsHeld, RunAgrees, Gathering

\* A run lives on a live worker; what ends without a report is cut off.
LEMMA RunsStep ==
  TypeOK /\ WorkersTypeOK /\ StructureInv /\ RunsHeld /\ [FleetNext]_fleetVars => RunsHeld'
<1> SUFFICES ASSUME TypeOK, WorkersTypeOK, StructureInv, RunsHeld, [FleetNext]_fleetVars
             PROVE  RunsHeld'
  OBVIOUS
<1>t. DOMAIN gather = Tasks /\ DOMAIN asmRun = Tasks /\ DOMAIN asmWorker = Tasks
  BY DEF TypeOK, WorkersTypeOK
<1>1. CASE \/ \E w \in Workers, offer \in Offers : StartWorker(w, offer)
           \/ \E w \in Workers, disk \in HeartbeatDisks : SendHeartbeat(w, disk)
           \/ \E stale \in SUBSET online : ExpireWorkers(stale)
           \/ \E j \in Jobs : AskForJob(j) \/ EntryCreateStep(j) \/ RunnerStep(j)
           \/ UNCHANGED fleetVars
  <2>1. up \subseteq up' /\ UNCHANGED gather
    BY <1>1
    DEF StartWorker, SendHeartbeat, ExpireWorkers, AskForJob, EntryCreateStep, ReserveInMode, EntryCreates,
        RunnerStep, JobAnswered, JobAnswerLost, ProcessInternal, BeginUpload, UploadUnreachable,
        NextAssignment, UploadAnswerLost, fleetVars, workerVars, processVars, assembleWorkVars
  <2>2. cut \subseteq cut'
    BY <1>1
    DEF StartWorker, SendHeartbeat, ExpireWorkers, AskForJob, EntryCreateStep, ReserveInMode, EntryCreates,
        RunnerStep, JobAnswered, JobAnswerLost, ProcessInternal, BeginUpload, UploadUnreachable,
        NextAssignment, UploadAnswerLost, RunnerReturns, fleetVars, workerVars
  <2>3. UNCHANGED <<asmRun, asmWorker>>
    <3>1. CASE \E j \in Jobs : CreateStep(j)
      BY <3>1
      DEF CreateStep, CreateJob, ReserveSegment, GiveUpReserving, RejectJob, CommitJob, CommitFindsJob,
          assembleVars
    <3>2. CASE UNCHANGED managerVars \/ UNCHANGED vars
      BY <3>2 DEF vars, managerVars, assembleVars
    <3> QED
      BY <1>1, <3>1, <3>2
      DEF StartWorker, SendHeartbeat, ExpireWorkers, AskForJob, EntryCreateStep, ReserveInMode, EntryCreates,
          CreateStep, RunnerStep, JobAnswered, JobAnswerLost, ProcessInternal, BeginUpload, UploadUnreachable,
          NextAssignment, UploadAnswerLost, fleetVars
  <2> QED
    BY <2>1, <2>2, <2>3, RunsFrame
<1>2. ASSUME NEW t \in Tasks, UploadStep(t) \/ ProcessStep(t) PROVE RunsHeld'
  <2>1. UNCHANGED <<up, gather>> /\ cut \subseteq cut'
    BY <1>2
    DEF UploadStep, StoreBody, StoreFails, AcceptTask, AcceptFails, UploaderGone, RespondSegmentFailure,
        ProcessStep, StartProcessing, ProcessSucceeds, ProcessFails, ReportSegment, ReportSegmentLost,
        RunnerReturns, processVars, assembleWorkVars
  <2>2. SegmentReport(t) \/ UNCHANGED vars
    BY <1>2
    DEF UploadStep, StoreBody, StoreFails, AcceptTask, AcceptFails, UploaderGone, RespondSegmentFailure,
        ProcessStep, StartProcessing, ProcessSucceeds, ProcessFails, ReportSegment, ReportSegmentLost,
        SegmentReport
  <2>3. UNCHANGED <<asmRun, asmWorker>>
    BY <2>2
    DEF SegmentReport, AcceptSegmentTask, CompleteSegmentTask, FailSegmentTask, vars, managerVars, assembleVars
  <2> QED
    BY <2>1, <2>3, RunsFrame
<1>3. ASSUME NEW w \in Workers, Crash(w) PROVE RunsHeld'
  <2>1. /\ \A t \in Tasks : gather'[t] = IF Gathering(t) /\ asmWorker[t] = w THEN "over" ELSE gather[t]
        /\ \A t \in Tasks : Gathering(t) /\ asmWorker[t] = w => Assembly(t) \in cut'
        /\ cut \subseteq cut' /\ up' = up \ {w} /\ UNCHANGED <<asmRun, asmWorker>>
    BY <1>3 DEF Crash, vars, managerVars, assembleVars
  <2> QED
    BY <2>1 DEF RunsHeld, RunAgrees, Gathering
<1>4. ASSUME NEW t \in Tasks, StartAssembleGIF(t) PROVE RunsHeld'
  <2>1. /\ asmRun[t] = "sent" /\ asmWorker[t] \in up
        /\ \/ gather' = [gather EXCEPT ![t] = "fetching"] /\ asmRun' = [asmRun EXCEPT ![t] = "running"]
           \/ gather' = gather /\ asmRun' = [asmRun EXCEPT ![t] = "refused"]
        /\ UNCHANGED <<up, cut, asmWorker>>
    BY <1>4 DEF StartAssembleGIF, WorkerStartsAssemble, WorkerRefusesAssemble, processVars
  <2> QED
    BY <1>t, <2>1 DEF RunsHeld, RunAgrees, Gathering
<1>5. ASSUME NEW t \in Tasks, GatherStep(t) PROVE RunsHeld'
  <2>1. CASE ReportAssembled(t)
    <3>1. /\ gather' = [gather EXCEPT ![t] = "over"] /\ asmRun' = [asmRun EXCEPT ![t] = "reported"]
          /\ UNCHANGED <<up, cut, asmWorker>>
      BY <2>1
      DEF ReportAssembled, CompleteAssembleJob, FailAssembleJob, FinishAssemble, RejectAssembleReport,
          processVars
    <3> QED
      BY <1>t, <3>1 DEF RunsHeld, RunAgrees, Gathering
  <2>2. CASE ~ReportAssembled(t)
    <3>1. /\ Gathering(t) /\ UNCHANGED <<up, asmWorker, asmRun>> /\ cut \subseteq cut'
          /\ \/ gather' = gather
             \/ \E p \in {"failing", "assembling", "completing"} : gather' = [gather EXCEPT ![t] = p]
             \/ gather' = [gather EXCEPT ![t] = "over"] /\ Assembly(t) \in cut'
      BY <1>5, <2>2
      DEF GatherStep, DownloadArtifact, DownloadFails, CallAssemble, AssembleEnds, ReportAssembledLost,
          Gathering, processVars, vars, managerVars, assembleVars
    <3> QED
      BY <1>t, <3>1 DEF RunsHeld, RunAgrees, Gathering
  <2> QED
    BY <2>1, <2>2
<1>6. ASSUME NEW t \in Tasks, EntryPostStep(t) \/ EntryReportStep(t) PROVE RunsHeld'
  <2>1. UNCHANGED <<up, gather, cut>>
    BY <1>6 DEF EntryPostStep, EntryReportStep, workerVars, processVars, assembleWorkVars
  <2>2. \/ UNCHANGED <<asmRun, asmWorker>>
        \/ /\ asmRun' = asmRun /\ asmRun[t] = "none"
           /\ \E w \in Workers \cup {NoWorker} : asmWorker' = [asmWorker EXCEPT ![t] = w]
        \/ /\ asmWorker' = asmWorker /\ asmRun[t] \in {"none", "sent"}
           /\ \E s \in {"sent", "dropped"} : asmRun' = [asmRun EXCEPT ![t] = s]
    <3>1. post[t] \in {"pick", "insert"} => asmRun[t] = "none"
      BY DEF StructureInv, AssemblyStages
    <3> QED
      BY <1>6, <3>1
      DEF EntryPostStep, EntryReportStep, ReleaseAssembleReport, PostStep, ReleaseSegmentSlot,
          SnapshotSegments, PickAssembleWorker, NoAssembleWorker, AssembleIDError, MarkJobFailed,
          InsertAssembleTask, StartAccepted, StartRefused, StartRefusedForStorage, StartUndelivered,
          StartAnswerLost, MarkAssembleStartFailed, ReleaseAssembleStart, assembleVars
  <2> QED
    BY <1>t, <2>1, <2>2 DEF RunsHeld, RunAgrees, Gathering
<1> QED
  BY <1>1, <1>2, <1>3, <1>4, <1>5, <1>6 DEF FleetNext

\* A step that leaves the segments alone, though a worker may start and more may be cut off.
LEMMA SegmentsFrame ==
  ASSUME SegmentsHeld, UNCHANGED <<runner, next, mode, work, artifact, call, taskStatus, taskWorker>>,
         up \subseteq up', cut \subseteq cut'
  PROVE  SegmentsHeld'
BY DEF SegmentsHeld, RunnerAgrees, HandsAgree, InHand, Open

\* Entry's CreateJob handler touches only segments nobody has begun to work on.
LEMMA SegmentsCreate ==
  ASSUME TypeOK, WorkersTypeOK, StructureInv, SegmentsHeld, NEW j \in Jobs,
         AskForJob(j) \/ EntryCreateStep(j)
  PROVE  SegmentsHeld'
<1> USE TaskFacts
<1>t. DOMAIN call = Jobs /\ DOMAIN runner = Jobs /\ DOMAIN mode = Tasks /\ DOMAIN taskWorker = Tasks
  BY DEF TypeOK, WorkersTypeOK
<1>f. /\ \A k \in Jobs : RunnerAgrees(k)
      /\ \A u \in Tasks : HandsAgree(u)
  BY DEF SegmentsHeld
<1>1. CASE AskForJob(j)
  <2>1. /\ runner' = [runner EXCEPT ![j] = "asking"] /\ runner[j] = "idle" /\ SourceOf[j] \in up
        /\ \E c \in {"exists", "reserving"} : call' = [call EXCEPT ![j] = c]
        /\ UNCHANGED <<up, cut, next, mode, work, artifact, taskStatus, taskWorker>>
    BY <1>1 DEF AskForJob, CreateJob, processVars, segmentWorkVars, segmentVars
  <2>2. \A u \in TasksOf(j) : work[u] = "none"
    BY <1>f, <2>1 DEF HandsAgree
  <2>3. \A k \in Jobs : RunnerAgrees(k)'
    BY <1>f, <1>t, <2>1, <2>2 DEF RunnerAgrees
  <2>4. \A u \in Tasks : HandsAgree(u)'
    BY <1>f, <1>t, <2>1, <2>2 DEF HandsAgree, InHand, Open
  <2> QED
    BY <2>3, <2>4 DEF SegmentsHeld
<1>2. ASSUME NEW t \in TasksOf(j), NEW m \in Modes, NEW w \in Workers, ReserveInMode(t, m, w)
      PROVE  SegmentsHeld'
  <2>1. /\ call[j] = "reserving" /\ (m = "internal" => w = SourceOf[j])
        /\ taskWorker' = [taskWorker EXCEPT ![t] = w] /\ mode' = [mode EXCEPT ![t] = m]
        /\ UNCHANGED <<up, cut, runner, next, work, artifact, call, taskStatus>>
    BY <1>2 DEF ReserveInMode, ReserveSegment, AssignSegmentWorker, processVars, segmentWorkVars, Modes
  <2>2. work[t] = "none"
    BY <1>f, <2>1 DEF HandsAgree
  <2>3. \A k \in Jobs : RunnerAgrees(k)'
    BY <1>f, <2>1 DEF RunnerAgrees
  <2>4. \A u \in Tasks : HandsAgree(u)'
    BY <1>f, <1>t, <2>1, <2>2 DEF HandsAgree, InHand, Open
  <2> QED
    BY <2>3, <2>4 DEF SegmentsHeld
<1>3. CASE EntryCreates(j)
  <2>1. /\ call[j] \in {"reserving", "rejecting"}
        /\ \E c \in {"rejecting", "rejected", "created", "exists"} : call' = [call EXCEPT ![j] = c]
        /\ UNCHANGED <<up, cut, runner, next, mode, work, artifact>>
    BY <1>3
    DEF EntryCreates, GiveUpReserving, RejectJob, CommitJob, CommitFindsJob, workerVars, processVars,
        runnerVars, segmentWorkVars
  <2>2. /\ \A u \in Tasks : u[1] # j => taskStatus'[u] = taskStatus[u] /\ taskWorker'[u] = taskWorker[u]
        /\ \A u \in TasksOf(j) : taskStatus'[u] \in {taskStatus[u], "assigned"}
                                 /\ taskWorker'[u] \in {taskWorker[u], NoWorker}
    BY <1>3
    DEF EntryCreates, GiveUpReserving, RejectJob, CommitJob, CommitFindsJob, ReleaseAll, segmentVars
  <2>3. \A u \in TasksOf(j) : work[u] = "none"
    BY <1>f, <2>1 DEF HandsAgree
  <2>4. runner[j] \in {"asking", "over"}
    BY <1>f, <2>1 DEF RunnerAgrees, WorkersTypeOK, RunnerPoints
  <2>5. \A k \in Jobs : RunnerAgrees(k)'
    BY <1>f, <1>t, <2>1, <2>4 DEF RunnerAgrees
  <2>6. \A u \in Tasks : HandsAgree(u)'
    <3> SUFFICES ASSUME NEW u \in Tasks PROVE HandsAgree(u)'
      OBVIOUS
    <3>1. CASE u[1] = j
      BY <1>f, <1>t, <2>1, <2>2, <2>3, <3>1 DEF HandsAgree, InHand, Open
    <3>2. CASE u[1] # j
      BY <1>f, <1>t, <2>1, <2>2, <3>2 DEF HandsAgree, InHand, Open
    <3> QED
      BY <3>1, <3>2
  <2> QED
    BY <2>5, <2>6 DEF SegmentsHeld
<1> QED
  BY <1>1, <1>2, <1>3 DEF EntryCreateStep

\* The end of a process: its segments and those its runner still had are cut off.
LEMMA SegmentsCrash ==
  ASSUME TypeOK, WorkersTypeOK, SegmentsHeld, NEW w \in Workers, Crash(w)
  PROVE  SegmentsHeld'
<1> USE TaskFacts
<1> DEFINE gone(j) == SourceOf[j] = w /\ runner[j] \in {"asking", "dispatching"}
           dropped(t) == InHand(t) /\ taskWorker[t] = w
<1>f. /\ \A k \in Jobs : RunnerAgrees(k)
      /\ \A u \in Tasks : HandsAgree(u)
  BY DEF SegmentsHeld
<1>1. /\ \A j \in Jobs : runner'[j] = IF gone(j) THEN "over" ELSE runner[j]
      /\ \A t \in Tasks : work'[t] = IF dropped(t) THEN "over" ELSE work[t]
      /\ \A t \in Tasks : dropped(t) => Segment(t) \in cut'
      /\ cut \subseteq cut' /\ up' = up \ {w}
      /\ UNCHANGED <<call, taskStatus, taskWorker, next, mode, artifact>>
  BY DEF Crash, vars, managerVars, segmentVars
<1>2. \A j \in Jobs : gone(j) => Undispatched(j) \subseteq cut'
  BY DEF Crash
<1>3. \A j \in Jobs : gone(j) => \A t \in TasksOf(j) : work[t] = "none" => Segment(t) \in cut'
  BY <1>2 DEF Undispatched
<1>4. \A t \in Tasks : work'[t] = "none" <=> work[t] = "none"
  BY <1>1 DEF InHand
<1>5. \A j \in Jobs : RunnerAgrees(j)'
  BY <1>f, <1>1, <1>3, <1>4 DEF RunnerAgrees
<1>6. \A t \in Tasks : HandsAgree(t)'
  <2> SUFFICES ASSUME NEW t \in Tasks PROVE HandsAgree(t)'
    OBVIOUS
  <2>1. CASE dropped(t)
    BY <1>f, <1>1, <2>1 DEF HandsAgree, InHand, Open
  <2>2. CASE ~dropped(t)
    <3>1. work'[t] = work[t] /\ (InHand(t) => taskWorker[t] # w)
      BY <1>1, <2>2
    <3>2. runner[t[1]] \in {"dispatching", "over"} => runner'[t[1]] \in {"dispatching", "over"}
      BY <1>1
    <3> QED
      BY <1>f, <1>1, <3>1, <3>2 DEF HandsAgree, InHand, Open
  <2> QED
    BY <2>1, <2>2
<1> QED
  BY <1>5, <1>6 DEF SegmentsHeld

\* A runner that returns while it dispatches has cut off all it did not hand on.
LEMMA ReturnedRunner ==
  ASSUME TypeOK, WorkersTypeOK, SegmentsHeld, NEW j \in Jobs, NEW lost,
         runner[j] \in {"dispatching", "over"},
         RunnerReturns(j, lost), UNCHANGED <<call, next, up>>,
         \A t \in Tasks : work'[t] = "none" => work[t] = "none"
  PROVE  /\ \A k \in Jobs : RunnerAgrees(k)'
         /\ cut \subseteq cut' /\ lost \subseteq cut'
         /\ runner'[j] = "over" /\ \A k \in Jobs : k # j => runner'[k] = runner[k]
<1> USE TaskFacts
<1>1. /\ runner'[j] = "over" /\ \A k \in Jobs : k # j => runner'[k] = runner[k]
      /\ cut \subseteq cut' /\ lost \subseteq cut'
  BY DEF RunnerReturns, WorkersTypeOK
<1>2. runner[j] = "dispatching" => \A t \in TasksOf(j) : work[t] = "none" => Segment(t) \in cut'
  BY DEF RunnerReturns, Undispatched
<1>3. \A k \in Jobs : RunnerAgrees(k)
  BY DEF SegmentsHeld
<1>4. \A k \in Jobs : RunnerAgrees(k)'
  <2> SUFFICES ASSUME NEW k \in Jobs PROVE RunnerAgrees(k)'
    OBVIOUS
  <2>1. CASE k = j
    BY <1>1, <1>2, <1>3, <2>1 DEF RunnerAgrees
  <2>2. CASE k # j
    BY <1>1, <1>3, <2>2 DEF RunnerAgrees
  <2> QED
    BY <2>1, <2>2
<1> QED
  BY <1>1, <1>4

\* Whoever has the segment moves on with it: the rest of the fleet sees at most
\* that the runner returned, the report arrived, or the segment was cut off.
LEMMA SegmentMoves ==
  ASSUME TypeOK, WorkersTypeOK, SegmentsHeld, NEW t \in Tasks, NEW p \in WorkPoints \ {"none"},
         work[t] # "none", work' = [work EXCEPT ![t] = p],
         UNCHANGED <<up, next, mode, call, taskWorker>>,
         \A u \in Tasks \ {t} : taskStatus'[u] = taskStatus[u] /\ artifact'[u] = artifact[u],
         \/ runner' = runner /\ cut \subseteq cut'
         \/ \E lost \in SUBSET SegmentOrAssembly : RunnerReturns(t[1], lost),
         p # "over" => InHand(t) /\ taskStatus'[t] \in {"assigned", "running"},
         p \in {"storing", "accepting"} => taskStatus'[t] = "assigned",
         p = "over" => Segment(t) \in cut' \/ taskStatus'[t] \in {"completed", "failed"},
         artifact'[t] # "none" => p \in {"processing", "completing", "failing", "over"}
  PROVE  SegmentsHeld'
<1> USE TaskFacts
<1>f. /\ \A k \in Jobs : RunnerAgrees(k)
      /\ \A u \in Tasks : HandsAgree(u)
  BY DEF SegmentsHeld
<1>1. /\ DOMAIN work = Tasks /\ work'[t] = p /\ p # "none"
      /\ \A u \in Tasks : u # t => work'[u] = work[u]
  BY DEF WorkersTypeOK
<1>2. runner[t[1]] \in {"dispatching", "over"} /\ call[t[1]] = "created"
  BY <1>f DEF HandsAgree
<1>3. /\ \A k \in Jobs : RunnerAgrees(k)'
      /\ cut \subseteq cut' /\ runner'[t[1]] \in {"dispatching", "over"}
      /\ \A k \in Jobs : k # t[1] => runner'[k] = runner[k]
  <2>1. CASE runner' = runner /\ cut \subseteq cut'
    BY <1>f, <1>1, <1>2, <2>1 DEF RunnerAgrees
  <2>2. ASSUME NEW lost \in SUBSET SegmentOrAssembly, RunnerReturns(t[1], lost)
        PROVE  /\ \A k \in Jobs : RunnerAgrees(k)'
               /\ cut \subseteq cut' /\ runner'[t[1]] = "over"
               /\ \A k \in Jobs : k # t[1] => runner'[k] = runner[k]
    <3>1. \A u \in Tasks : work'[u] = "none" => work[u] = "none"
      BY <1>1
    <3> QED
      BY <1>2, <2>2, <3>1, ReturnedRunner
  <2> QED
    BY <2>1, <2>2
<1>4. \A u \in Tasks : HandsAgree(u)'
  <2> SUFFICES ASSUME NEW u \in Tasks PROVE HandsAgree(u)'
    OBVIOUS
  <2>1. CASE u = t
    BY <1>f, <1>1, <1>2, <1>3, <2>1 DEF HandsAgree, InHand, Open
  <2>2. CASE u # t
    <3>1. runner[u[1]] \in {"dispatching", "over"} => runner'[u[1]] \in {"dispatching", "over"}
      BY <1>3
    <3> QED
      BY <1>f, <1>1, <1>3, <2>2, <3>1 DEF HandsAgree, InHand, Open
  <2> QED
    BY <2>1, <2>2
<1> QED
  BY <1>3, <1>4 DEF SegmentsHeld

\* A segment of a created job is Entry's, and it has a worker.
LEMMA CreatedTask ==
  ASSUME StructureInv, NEW t \in Tasks, call[t[1]] = "created"
  PROVE  taskStatus[t] # "none" /\ taskWorker[t] # NoWorker
BY DEF StructureInv, JobsMatchCalls

\* The runner: it hands each segment on, to its own engine or to the worker that
\* Entry chose, and returns only with the rest cut off.
LEMMA SegmentsRunner ==
  ASSUME TypeOK, WorkersTypeOK, StructureInv, SegmentsHeld, NEW j \in Jobs, RunnerStep(j)
  PROVE  SegmentsHeld'
<1> USE TaskFacts
<1>t. DOMAIN runner = Jobs /\ DOMAIN next = Jobs /\ DOMAIN work = Tasks /\ DOMAIN artifact = Tasks
  BY DEF WorkersTypeOK
<1>f. /\ \A k \in Jobs : RunnerAgrees(k)
      /\ \A u \in Tasks : HandsAgree(u)
  BY DEF SegmentsHeld
<1>n. SegmentCount \in Nat \ {0} /\ \A t \in Tasks : t[2] \in 0 .. SegmentCount - 1
  BY JobManagerAssumption DEF Tasks, Segments
<1>1. CASE JobAnswered(j) \/ JobAnswerLost(j)
  <2>1. /\ runner[j] = "asking" /\ cut \subseteq cut'
        /\ UNCHANGED <<call, taskStatus, taskWorker, up, next, mode, work, artifact>>
        /\ \/ runner' = [runner EXCEPT ![j] = "dispatching"] /\ call[j] = "created"
           \/ runner' = [runner EXCEPT ![j] = "over"] /\ call[j] \in {"exists", "rejected"}
           \/ /\ runner' = [runner EXCEPT ![j] = "over"]
              /\ \A t \in TasksOf(j) : work[t] = "none" => Segment(t) \in cut'
    BY <1>1
    DEF JobAnswered, JobAnswerLost, Undispatched, vars, managerVars, segmentVars, processVars, segmentWorkVars
  <2>2. \A u \in TasksOf(j) : work[u] = "none"
    BY <1>f, <2>1 DEF HandsAgree
  <2>3. next[j] = 0 /\ SourceOf[j] \in up
    BY <1>f, <2>1 DEF RunnerAgrees
  <2>4. \A k \in Jobs : RunnerAgrees(k)'
    <3> SUFFICES ASSUME NEW k \in Jobs PROVE RunnerAgrees(k)'
      OBVIOUS
    <3>1. CASE k = j
      BY <1>n, <1>t, <2>1, <2>2, <2>3, <3>1 DEF RunnerAgrees
    <3>2. CASE k # j
      BY <1>f, <1>t, <2>1, <3>2 DEF RunnerAgrees
    <3> QED
      BY <3>1, <3>2
  <2>5. \A u \in Tasks : HandsAgree(u)'
    BY <1>f, <1>t, <2>1, <2>2 DEF HandsAgree, InHand, Open
  <2> QED
    BY <2>4, <2>5 DEF SegmentsHeld
<1>2. ASSUME NEW t \in TasksOf(j), ProcessInternal(t) \/ BeginUpload(t) PROVE SegmentsHeld'
  <2>1. /\ runner[j] = "dispatching" /\ work[t] = "none"
        /\ \/ work' = [work EXCEPT ![t] = "processing"] /\ mode[t] = "internal"
              /\ artifact' = [artifact EXCEPT ![t] = "partial"]
           \/ work' = [work EXCEPT ![t] = "storing"] /\ taskWorker[t] \in up /\ UNCHANGED artifact
        /\ UNCHANGED <<call, taskStatus, taskWorker, up, cut, runner, next, mode>>
    BY <1>2
    DEF ProcessInternal, BeginUpload, AtAssignment, vars, managerVars, segmentVars, processVars, runnerVars
  <2>2. call[j] = "created" /\ SourceOf[j] \in up
    BY <1>f, <2>1 DEF RunnerAgrees
  <2>3. taskStatus[t] = "assigned" /\ taskWorker[t] # NoWorker
    BY <1>f, <2>1, <2>2, CreatedTask DEF HandsAgree
  <2>4. artifact[t] = "none" /\ taskWorker[t] \in up
    BY <1>f, <2>1, <2>2, <2>3 DEF HandsAgree
  <2>5. \A k \in Jobs : RunnerAgrees(k)'
    BY <1>f, <1>t, <2>1 DEF RunnerAgrees
  <2>6. \A u \in Tasks : HandsAgree(u)'
    <3> SUFFICES ASSUME NEW u \in Tasks PROVE HandsAgree(u)'
      OBVIOUS
    <3>1. CASE u = t
      BY <1>f, <1>t, <2>1, <2>2, <2>3, <2>4, <3>1 DEF HandsAgree, InHand, Open
    <3>2. CASE u # t
      BY <1>f, <1>t, <2>1, <3>2 DEF HandsAgree, InHand, Open
    <3> QED
      BY <3>1, <3>2
  <2> QED
    BY <2>5, <2>6 DEF SegmentsHeld
<1>3. ASSUME NEW t \in TasksOf(j), UploadUnreachable(t) \/ UploadAnswerLost(t) PROVE SegmentsHeld'
  <2>1. /\ runner[j] = "dispatching" /\ \E lost : RunnerReturns(j, lost)
        /\ UNCHANGED <<call, taskStatus, taskWorker, up, next, mode, work, artifact>>
    BY <1>3
    DEF UploadUnreachable, UploadAnswerLost, AtAssignment, vars, managerVars, segmentVars, processVars,
        segmentWorkVars
  <2>2. /\ \A k \in Jobs : RunnerAgrees(k)'
        /\ cut \subseteq cut' /\ runner'[j] = "over" /\ \A k \in Jobs : k # j => runner'[k] = runner[k]
    BY <2>1, ReturnedRunner
  <2>3. \A u \in Tasks : HandsAgree(u)'
    BY <1>f, <2>1, <2>2 DEF HandsAgree, InHand, Open
  <2> QED
    BY <2>2, <2>3 DEF SegmentsHeld
<1>4. ASSUME NEW t \in TasksOf(j), NextAssignment(t) PROVE SegmentsHeld'
  <2>1. /\ runner[j] = "dispatching" /\ next[j] = t[2] /\ work[t] # "none"
        /\ next' = [next EXCEPT ![j] = @ + 1]
        /\ runner' = [runner EXCEPT ![j] = IF next[j] + 1 = SegmentCount THEN "over" ELSE @]
        /\ UNCHANGED <<call, taskStatus, taskWorker, up, cut, mode, work, artifact>>
    BY <1>4
    DEF NextAssignment, AtAssignment, Taken, vars, managerVars, segmentVars, processVars, segmentWorkVars
  <2>2. next[j] \in 0 .. SegmentCount - 1 /\ next'[j] = next[j] + 1
    BY <1>n, <1>t, <2>1
  <2>3. \A u \in TasksOf(j) : u[2] < next[j] + 1 => work[u] # "none"
    <3>1. \A u \in TasksOf(j) : u[2] = t[2] => u = t
      BY DEF TasksOf, Tasks
    <3> QED
      BY <1>f, <1>n, <2>1, <2>2, <3>1 DEF RunnerAgrees
  <2>4. \A k \in Jobs : RunnerAgrees(k)'
    <3> SUFFICES ASSUME NEW k \in Jobs PROVE RunnerAgrees(k)'
      OBVIOUS
    <3>1. CASE k # j
      BY <1>f, <1>t, <2>1, <3>1 DEF RunnerAgrees
    <3>2. CASE k = j /\ next[j] + 1 = SegmentCount
      <4>1. \A u \in TasksOf(j) : work[u] # "none"
        BY <1>n, <2>3, <3>2
      <4> QED
        BY <1>t, <2>1, <3>2, <4>1 DEF RunnerAgrees
    <3>3. CASE k = j /\ next[j] + 1 # SegmentCount
      <4>1. next'[j] < SegmentCount /\ runner'[j] = "dispatching"
        BY <1>n, <1>t, <2>1, <2>2, <3>3
      <4> QED
        BY <1>f, <2>1, <2>2, <2>3, <3>3, <4>1 DEF RunnerAgrees
    <3> QED
      BY <3>1, <3>2, <3>3
  <2>5. \A u \in Tasks : HandsAgree(u)'
    BY <1>f, <1>t, <2>1 DEF HandsAgree, InHand, Open
  <2> QED
    BY <2>4, <2>5 DEF SegmentsHeld
<1> QED
  BY <1>1, <1>2, <1>3, <1>4 DEF RunnerStep

\* The upload handler and the processing goroutine.
LEMMA SegmentsWork ==
  ASSUME TypeOK, WorkersTypeOK, SegmentsHeld, NEW t \in Tasks, UploadStep(t) \/ ProcessStep(t)
  PROVE  SegmentsHeld'
<1> USE TaskFacts
<1>t. /\ DOMAIN work = Tasks /\ DOMAIN artifact = Tasks /\ DOMAIN taskStatus = Tasks
      /\ {} \in SUBSET SegmentOrAssembly /\ {Segment(t)} \in SUBSET SegmentOrAssembly
  BY DEF TypeOK, WorkersTypeOK, SegmentOrAssembly
<1>f. HandsAgree(t)
  BY DEF SegmentsHeld
<1>v. UNCHANGED vars => UNCHANGED <<call, taskStatus, taskWorker>>
  BY DEF vars, managerVars, segmentVars
<1>p. /\ UNCHANGED processVars => UNCHANGED up
      /\ UNCHANGED runnerVars => UNCHANGED <<runner, next, mode>>
  BY DEF processVars, runnerVars
<1> DEFINE moves(p) ==
             /\ p \in WorkPoints \ {"none"} /\ work[t] # "none" /\ work' = [work EXCEPT ![t] = p]
             /\ UNCHANGED <<up, next, mode, call, taskWorker>>
             /\ \A u \in Tasks \ {t} : taskStatus'[u] = taskStatus[u] /\ artifact'[u] = artifact[u]
             /\ \/ runner' = runner /\ cut \subseteq cut'
                \/ \E lost \in SUBSET SegmentOrAssembly : RunnerReturns(t[1], lost)
             /\ p # "over" => InHand(t) /\ taskStatus'[t] \in {"assigned", "running"}
             /\ p \in {"storing", "accepting"} => taskStatus'[t] = "assigned"
             /\ p = "over" => Segment(t) \in cut' \/ taskStatus'[t] \in {"completed", "failed"}
             /\ artifact'[t] # "none" => p \in {"processing", "completing", "failing", "over"}
<1>m. ASSUME NEW p, moves(p) PROVE SegmentsHeld'
  BY <1>m, SegmentMoves
<1>a. AcceptSegmentTask(t) =>
        /\ UNCHANGED <<call, taskWorker>> /\ taskStatus' = [taskStatus EXCEPT ![t] = "running"]
  BY DEF AcceptSegmentTask
<1>1. CASE StoreBody(t) \/ StoreFails(t)
  <2>1. moves("accepting") \/ moves("refusing")
    BY <1>1, <1>f, <1>p, <1>v DEF StoreBody, StoreFails, HandsAgree, InHand, Open, WorkPoints
  <2> QED
    BY <1>m, <2>1
<1>2. CASE AcceptTask(t)
  <2>1. moves("queued")
    BY <1>2, <1>a, <1>f, <1>p, <1>t DEF AcceptTask, HandsAgree, InHand, Open, WorkPoints, Taken
  <2> QED
    BY <1>m, <2>1
<1>3. CASE AcceptFails(t)
  <2>1. moves("refusing")
    BY <1>3, <1>a, <1>f, <1>p, <1>t, <1>v DEF AcceptFails, HandsAgree, InHand, Open, WorkPoints
  <2> QED
    BY <1>m, <2>1
<1>4. CASE UploaderGone(t)
  <2>1. CASE work[t] = "storing"
    <3>1. moves("refusing")
      BY <1>4, <1>f, <1>p, <1>t, <1>v, <2>1 DEF UploaderGone, HandsAgree, InHand, Open, WorkPoints
    <3> QED
      BY <1>m, <3>1
  <2>2. CASE work[t] = "accepting"
    <3>1. RunnerReturns(t[1], {Segment(t)}) /\ Segment(t) \in cut'
      BY <1>4, <2>2 DEF UploaderGone, RunnerReturns
    <3>2. moves("over")
      BY <1>4, <1>a, <1>f, <1>p, <1>t, <1>v, <2>2, <3>1
      DEF UploaderGone, HandsAgree, InHand, Open, WorkPoints, Taken
    <3> QED
      BY <1>m, <3>2
  <2> QED
    BY <1>4, <2>1, <2>2 DEF UploaderGone
<1>5. CASE RespondSegmentFailure(t)
  <2>1. moves("over")
    BY <1>5, <1>f, <1>p, <1>t DEF RespondSegmentFailure, FailSegmentTask, WorkPoints, Taken
  <2> QED
    BY <1>m, <2>1
<1>6. CASE StartProcessing(t)
  <2>1. moves("processing")
    BY <1>6, <1>f, <1>p, <1>t, <1>v DEF StartProcessing, HandsAgree, InHand, Open, WorkPoints, Taken
  <2> QED
    BY <1>m, <2>1
<1>7. CASE ProcessSucceeds(t)
  <2>1. moves("completing")
    BY <1>7, <1>f, <1>p, <1>t, <1>v DEF ProcessSucceeds, HandsAgree, InHand, Open, WorkPoints, Taken
  <2> QED
    BY <1>m, <2>1
<1>8. CASE ProcessFails(t)
  <2>1. moves("failing")
    BY <1>8, <1>f, <1>p, <1>t, <1>v DEF ProcessFails, HandsAgree, InHand, Open, WorkPoints, Taken
  <2> QED
    BY <1>m, <2>1
<1>9. CASE ReportSegment(t)
  <2>1. moves("over")
    BY <1>9, <1>f, <1>p, <1>t
    DEF ReportSegment, CompleteSegmentTask, FailSegmentTask, WorkPoints, Taken
  <2> QED
    BY <1>m, <2>1
<1>10. CASE ReportSegmentLost(t)
  <2>1. /\ Segment(t) \in cut'
        /\ RunnerReturns(t[1], {Segment(t)}) \/ (runner' = runner /\ cut \subseteq cut')
    BY <1>10 DEF ReportSegmentLost, RunnerReturns
  <2>2. moves("over")
    BY <1>10, <1>f, <1>p, <1>t, <1>v, <2>1 DEF ReportSegmentLost, WorkPoints, Taken
  <2> QED
    BY <1>m, <2>2
<1> QED
  BY <1>1, <1>2, <1>3, <1>4, <1>5, <1>6, <1>7, <1>8, <1>9, <1>10 DEF UploadStep, ProcessStep

\* Every step of the composition keeps the segments held.
LEMMA SegmentsStep ==
  TypeOK /\ WorkersTypeOK /\ StructureInv /\ SegmentsHeld /\ [FleetNext]_fleetVars => SegmentsHeld'
<1> SUFFICES ASSUME TypeOK, WorkersTypeOK, StructureInv, SegmentsHeld, [FleetNext]_fleetVars
             PROVE  SegmentsHeld'
  OBVIOUS
<1>1. CASE \/ \E w \in Workers, offer \in Offers : StartWorker(w, offer)
           \/ \E w \in Workers, disk \in HeartbeatDisks : SendHeartbeat(w, disk)
           \/ \E stale \in SUBSET online : ExpireWorkers(stale)
           \/ \E t \in Tasks : StartAssembleGIF(t) \/ GatherStep(t)
           \/ \E t \in Tasks : EntryPostStep(t) \/ EntryReportStep(t)
           \/ UNCHANGED fleetVars
  <2>1. /\ up \subseteq up' /\ cut \subseteq cut'
        /\ UNCHANGED <<runner, next, mode, work, artifact>>
    BY <1>1
    DEF StartWorker, SendHeartbeat, ExpireWorkers, StartAssembleGIF, GatherStep, DownloadArtifact,
        DownloadFails, CallAssemble, AssembleEnds, ReportAssembled, ReportAssembledLost, EntryPostStep,
        EntryReportStep, fleetVars, workerVars, processVars, runnerVars, segmentWorkVars
  <2>2. UNCHANGED <<call, taskStatus, taskWorker>>
    <3>1. ASSUME NEW t \in Tasks, PostStep(t) PROVE UNCHANGED <<call, taskStatus, taskWorker>>
      BY <3>1
      DEF PostStep, ReleaseSegmentSlot, SnapshotSegments, PickAssembleWorker, NoAssembleWorker,
          AssembleIDError, MarkJobFailed, InsertAssembleTask, StartAccepted, StartRefused,
          StartRefusedForStorage, StartUndelivered, StartAnswerLost, MarkAssembleStartFailed,
          ReleaseAssembleStart, segmentVars
    <3>2. ASSUME NEW t \in Tasks, AssembleRun(t) \/ ReleaseAssembleReport(t)
          PROVE  UNCHANGED <<call, taskStatus, taskWorker>>
      BY <3>2
      DEF AssembleRun, WorkerStartsAssemble, WorkerRefusesAssemble, CompleteAssembleJob, FailAssembleJob,
          FinishAssemble, RejectAssembleReport, ReleaseAssembleReport, segmentVars
    <3>3. CASE UNCHANGED managerVars \/ UNCHANGED vars
      BY <3>3 DEF vars, managerVars, segmentVars
    <3> QED
      BY <1>1, <3>1, <3>2, <3>3
      DEF StartWorker, SendHeartbeat, ExpireWorkers, StartAssembleGIF, GatherStep, DownloadArtifact,
          DownloadFails, CallAssemble, AssembleEnds, ReportAssembled, ReportAssembledLost, EntryPostStep,
          EntryReportStep, AssembleRun, fleetVars
  <2> QED
    BY <2>1, <2>2, SegmentsFrame
<1> QED
  BY <1>1, SegmentsCrash, SegmentsCreate, SegmentsRunner, SegmentsWork DEF FleetNext

\* In every state of the fleet the runners, the goroutines and the runs agree with
\* Entry's records, up to what has been cut off.
THEOREM HandsAndRecordsAgree == FleetSpec => [](SegmentsHeld /\ RunsHeld)
<1>1. FleetInit => SegmentsHeld /\ RunsHeld
  BY TaskFacts, JobManagerAssumption
  DEF FleetInit, Init, SegmentsHeld, RunsHeld, RunnerAgrees, HandsAgree, RunAgrees, InHand, Gathering
<1>2. FleetSpec => [](TypeOK /\ StructureInv)
  BY FleetImplementsEntry, StructureInvariant
<1>3. FleetTypeOK => WorkersTypeOK
  BY DEF FleetTypeOK, WorkersTypeOK, SegmentOrAssembly
<1> QED
  BY <1>1, <1>2, <1>3, SegmentsStep, RunsStep, FleetTypeCorrect, PTL DEF FleetSpec

-----------------------------------------------------------------------------
(* What follows from the agreement. *)

FleetInv ==
  /\ TypeOK /\ WorkersTypeOK /\ StructureInv /\ NoOrphanJob /\ NoSlotLeaks /\ FailedStartIsFinal
  /\ AssemblyFacts /\ JobFacts /\ SegmentsHeld /\ RunsHeld

\* The invariants of Entry and of the fleet, together.
LEMMA FleetInvariant == FleetSpec => []FleetInv
<1>1. FleetTypeOK /\ TypeOK /\ StructureInv /\ NoOrphanJob /\ NoSlotLeaks /\ FailedStartIsFinal
        /\ (AssemblyFacts /\ JobFacts) /\ (SegmentsHeld /\ RunsHeld) => FleetInv
  BY DEF FleetInv, FleetTypeOK, WorkersTypeOK, SegmentOrAssembly
<1> QED
  BY <1>1, FleetTypeCorrect, FleetImplementsEntry, StructureInvariant, NoJobIsOrphaned,
     SlotsNeverLeak, FailedStartInvariant, JobsAreCarriedOn, HandsAndRecordsAgree, PTL

\* A segment that Entry waits for is cut off, in the hands of a goroutine of the live worker
\* it is assigned to, or still to be handed on by the live runner of its job.
OpenTasksAreHeld ==
  \A t \in Tasks : taskStatus[t] \in {"assigned", "running"} =>
    \/ Segment(t) \in cut
    \/ InHand(t) /\ taskWorker[t] \in up
    \/ work[t] = "none" /\ runner[t[1]] \in {"asking", "dispatching"} /\ SourceOf[t[1]] \in up

\* An assembly that Entry waits for is cut off, still being started by a goroutine of Entry,
\* or running on the live worker it is assigned to.
OpenAssembliesAreHeld ==
  \A t \in Tasks : asmStatus[t] \in {"assigned", "running"} =>
    \/ Assembly(t) \in cut
    \/ post[t] \in {"await", "start_failed"}
    \/ Gathering(t) /\ asmWorker[t] \in up

\* In every state of the invariant each open segment has somebody to report on it.
LEMMA HeldTasks == FleetInv => OpenTasksAreHeld
<1> SUFFICES ASSUME FleetInv, NEW t \in Tasks, taskStatus[t] \in {"assigned", "running"}
             PROVE  \/ Segment(t) \in cut
                    \/ InHand(t) /\ taskWorker[t] \in up
                    \/ /\ work[t] = "none" /\ runner[t[1]] \in {"asking", "dispatching"}
                       /\ SourceOf[t[1]] \in up
  BY DEF OpenTasksAreHeld
<1>1. HandsAgree(t) /\ RunnerAgrees(t[1]) /\ t[1] \in Jobs /\ t \in TasksOf(t[1])
  BY TaskFacts DEF FleetInv, SegmentsHeld
<1>2. call[t[1]] = "created"
  BY DEF FleetInv, StructureInv, JobsMatchCalls
<1>3. CASE work[t] = "none"
  <2>1. runner[t[1]] # "idle" /\ (runner[t[1]] = "over" => Segment(t) \in cut)
    BY <1>1, <1>2, <1>3 DEF RunnerAgrees
  <2>2. runner[t[1]] \in {"asking", "dispatching"} => SourceOf[t[1]] \in up
    BY <1>1 DEF RunnerAgrees
  <2>3. runner[t[1]] \in RunnerPoints
    BY <1>1 DEF FleetInv, WorkersTypeOK
  <2> QED
    BY <1>3, <2>1, <2>2, <2>3 DEF RunnerPoints
<1>4. CASE work[t] # "none"
  BY <1>1, <1>4 DEF HandsAgree, InHand
<1> QED
  BY <1>3, <1>4

\* In every state of the invariant each open assembly has somebody to report on it.
LEMMA HeldAssemblies == FleetInv => OpenAssembliesAreHeld
<1> SUFFICES ASSUME FleetInv, NEW t \in Tasks, asmStatus[t] \in {"assigned", "running"}
             PROVE  \/ Assembly(t) \in cut
                    \/ post[t] \in {"await", "start_failed"}
                    \/ Gathering(t) /\ asmWorker[t] \in up
  BY DEF OpenAssembliesAreHeld
<1>1. post[t] \in {"await", "start_failed", "done"} /\ asmWorker[t] # NoWorker
  BY DEF FleetInv, StructureInv, AssemblyStages, AssemblyFacts
<1>2. report[t] = "none"
  BY DEF FleetInv, StructureInv, AssemblyStages
<1>3. post[t] = "done" => asmRun[t] = "running"
  BY <1>1, <1>2 DEF FleetInv, AssemblyFacts
<1> QED
  BY <1>1, <1>3 DEF FleetInv, RunsHeld, RunAgrees

\* Entry never waits for a segment that nobody can report on any more, except after a fault:
\* the state behind TaskIsReported.
THEOREM TasksStayHeld == FleetSpec => []OpenTasksAreHeld
  BY FleetInvariant, HeldTasks, PTL

\* Entry never waits for an assembly that nobody can report on any more, except after a fault.
THEOREM AssembliesStayHeld == FleetSpec => []OpenAssembliesAreHeld
  BY FleetInvariant, HeldAssemblies, PTL

\* A worker's report is never too late: while a goroutine works on a segment Entry has the task
\* open, so the report passes the guards of CompleteSegmentTask and FailSegmentTask; and the
\* report on an assembly finds its task, unless Entry has given the start up.
ReportsAreTaken ==
  \A t \in Tasks :
    /\ InHand(t) => taskStatus[t] \in {"assigned", "running"}
    /\ Gathering(t) =>
         \/ asmWorker[t] \in registered /\ AssembleCompletionTarget(t[1], asmWorker[t], t)
         \/ LossyStart /\ post[t] \in {"start_failed", "unreserve", "unreserved"}

\* Reports of workers are accepted; only a start request whose answer was lost makes Entry turn
\* the report on an assembly away.
THEOREM ReportsStayWelcome == FleetSpec => []ReportsAreTaken
<1>1. FleetInv => ReportsAreTaken
  <2> SUFFICES ASSUME FleetInv, NEW t \in Tasks
               PROVE  /\ InHand(t) => taskStatus[t] \in {"assigned", "running"}
                      /\ Gathering(t) =>
                           \/ /\ asmWorker[t] \in registered
                              /\ AssembleCompletionTarget(t[1], asmWorker[t], t)
                           \/ LossyStart /\ post[t] \in {"start_failed", "unreserve", "unreserved"}
    BY DEF ReportsAreTaken
  <2>1. InHand(t) => taskStatus[t] \in {"assigned", "running"}
    BY DEF FleetInv, SegmentsHeld, HandsAgree, Open
  <2>2. ASSUME Gathering(t)
        PROVE  \/ asmWorker[t] \in registered /\ AssembleCompletionTarget(t[1], asmWorker[t], t)
               \/ LossyStart /\ post[t] \in {"start_failed", "unreserve", "unreserved"}
    <3>1. asmRun[t] = "running"
      BY <2>2 DEF FleetInv, RunsHeld, RunAgrees
    <3>2. /\ asmStatus[t] # "none" /\ asmWorker[t] # NoWorker
          /\ post[t] \in {"await", "start_failed", "unreserve", "unreserved", "done"}
      BY <3>1 DEF FleetInv, StructureInv, AssemblyStages
    <3>3. CASE post[t] \in {"await", "done"}
      <4>1. /\ jobStatus[t[1]] \in {"assemble_assigned", "assemble_running"}
            /\ asmStatus[t] \in {"assigned", "running"} /\ asmWorker[t] \in registered
        BY <3>1, <3>2, <3>3 DEF FleetInv, AssemblyFacts
      <4> QED
        BY <3>2, <4>1, TaskFacts DEF AssembleCompletionTarget, AssembleTasksOf
    <3>4. CASE post[t] \in {"start_failed", "unreserve", "unreserved"}
      BY <3>1, <3>4, JobManagerAssumption DEF FleetInv, FailedStartIsFinal
    <3> QED
      BY <3>2, <3>3, <3>4
  <2> QED
    BY <2>1, <2>2
<1> QED
  BY <1>1, FleetInvariant, PTL

-----------------------------------------------------------------------------
(***************************************************************************)
(* The fleet at rest.  OnlyCutTasksKeepSlots and FleetJobSettles say what  *)
(* is true in the end, and TLC checks that the end comes.  What must hold  *)
(* once nobody has a step left to take is safety, and is proved here.      *)
(***************************************************************************)

\* No CreateJob call is half way, no runner is at work, no goroutine has a segment or a GIF in
\* hand, and no goroutine of Entry has a slot to release or a start to settle.
Resting ==
  /\ \A j \in Jobs : call[j] \notin {"reserving", "rejecting"} /\ runner[j] \in {"idle", "over"}
  /\ \A t \in Tasks :
       /\ ~InHand(t) /\ ~Gathering(t)
       /\ post[t] \in {"idle", "unreserved", "done"} /\ report[t] # "release"

\* At rest a job that was created has ended, or one of its segments failed (a late accept or
\* completion may then have hidden the failure), or a fault has cut something of it off.
JobsSettledAtRest ==
  Resting => \A j \in Jobs : call[j] = "created" =>
    \/ jobStatus[j] \in {"completed", "failed"}
    \/ SegmentFailed(j)
    \/ \E t \in TasksOf(j) : Segment(t) \in cut \/ Assembly(t) \in cut

\* At rest the slots Entry holds on a worker are at most those of tasks that were cut off.
SlotsReturnedAtRest ==
  Resting => \A w \in Workers : reservedSlots[w] <= Cardinality(CutHolders(w))

\* What OpenTasksAreHeld leaves when nobody is at work.
LEMMA OpenAtRest ==
  ASSUME FleetInv, Resting, NEW t \in Tasks
  PROVE  /\ taskStatus[t] \in {"assigned", "running"} => Segment(t) \in cut
         /\ asmRun[t] = "running" => Assembly(t) \in cut
<1>1. runner[t[1]] \notin {"asking", "dispatching"} /\ ~InHand(t) /\ ~Gathering(t)
  BY TaskFacts DEF Resting
<1>2. taskStatus[t] \in {"assigned", "running"} => Segment(t) \in cut
  BY <1>1, HeldTasks DEF OpenTasksAreHeld
<1>3. asmRun[t] = "running" => Assembly(t) \in cut
  BY <1>1 DEF FleetInv, RunsHeld, RunAgrees
<1> QED
  BY <1>2, <1>3

\* A fleet without a step left has settled its jobs, for every number of workers, jobs and
\* segments, whatever crashed or got lost: the safety part of FleetJobSettles.
THEOREM JobsAreSettledAtRest == FleetSpec => []JobsSettledAtRest
<1>1. FleetInv => JobsSettledAtRest
  <2> SUFFICES ASSUME FleetInv, Resting, NEW j \in Jobs, call[j] = "created"
               PROVE  \/ jobStatus[j] \in {"completed", "failed"}
                      \/ SegmentFailed(j)
                      \/ \E t \in TasksOf(j) : Segment(t) \in cut \/ Assembly(t) \in cut
    BY DEF JobsSettledAtRest
  <2>1. jobStatus[j] # "none" /\ jobStatus[j] \in JobStatuses
    BY DEF FleetInv, TypeOK, StructureInv, JobsMatchCalls
  <2>2. ASSUME jobStatus[j] \in {"segment_assigned", "segment_running"}
        PROVE  SegmentFailed(j) \/ \E t \in TasksOf(j) : Segment(t) \in cut
    <3>1. PICK t \in TasksOf(j) : taskStatus[t] # "completed"
      BY <2>2 DEF FleetInv, JobFacts
    <3>2. t \in Tasks /\ taskStatus[t] \in {"assigned", "running", "failed"}
      BY <3>1, TaskFacts DEF FleetInv, TypeOK, TaskStatuses, StructureInv, JobsMatchCalls
    <3> QED
      BY <3>2, OpenAtRest DEF SegmentFailed
  <2>3. jobStatus[j] \notin {"segment_completed", "assemble_assigned"}
    BY TaskFacts DEF FleetInv, NoOrphanJob, Resting
  <2>4. ASSUME jobStatus[j] = "assemble_running"
        PROVE  \E t \in TasksOf(j) : Assembly(t) \in cut
    <3>1. PICK t \in TasksOf(j) : asmRun[t] = "running"
      BY <2>4 DEF FleetInv, JobFacts
    <3> QED
      BY <3>1, OpenAtRest, TaskFacts
  <2> QED
    BY <2>1, <2>2, <2>3, <2>4 DEF JobStatuses
<1> QED
  BY <1>1, FleetInvariant, PTL

\* A fleet without a step left holds no slot for a task that was not cut off: the safety part
\* of OnlyCutTasksKeepSlots.
THEOREM SlotsAreReturnedAtRest == FleetSpec => []SlotsReturnedAtRest
<1>1. FleetInv => SlotsReturnedAtRest
  <2> SUFFICES ASSUME FleetInv, Resting, NEW w \in Workers
               PROVE  reservedSlots[w] <= Cardinality(CutHolders(w))
    BY DEF SlotsReturnedAtRest
  <2>1. \A t \in SegmentHolders(w) : t \in Tasks /\ post[t] = "idle" /\ Segment(t) \in cut
    <3> SUFFICES ASSUME NEW t \in SegmentHolders(w)
                 PROVE  t \in Tasks /\ post[t] = "idle" /\ Segment(t) \in cut
      OBVIOUS
    <3>1. t \in Tasks /\ taskWorker[t] # NoWorker /\ post[t] = "idle"
      BY DEF SegmentHolders, SegmentHolds, Resting
    <3>2. call[t[1]] = "created"
      BY <3>1, TaskFacts DEF FleetInv, JobFacts, TypeOK, CallPoints, Resting
    <3>3. taskStatus[t] \in {"assigned", "running"}
      BY <3>1, <3>2
      DEF FleetInv, TypeOK, TaskStatuses, StructureInv, JobsMatchCalls, OneStarter
    <3> QED
      BY <3>1, <3>3, OpenAtRest
  <2>2. \A t \in AssembleHolders(w) : t \in Tasks /\ post[t] = "done" /\ Assembly(t) \in cut
    <3> SUFFICES ASSUME NEW t \in AssembleHolders(w)
                 PROVE  t \in Tasks /\ post[t] = "done" /\ Assembly(t) \in cut
      OBVIOUS
    <3>1. /\ t \in Tasks /\ asmWorker[t] # NoWorker /\ post[t] \in {"idle", "done"}
          /\ report[t] \notin {"released", "release"}
      BY DEF AssembleHolders, AssembleHolds, Resting
    <3>2. post[t] = "done" /\ report[t] = "none"
      BY <3>1 DEF FleetInv, StructureInv, AssemblyStages, TypeOK, ReportPoints
    <3>3. asmRun[t] = "running"
      BY <3>1, <3>2 DEF FleetInv, AssemblyFacts
    <3> QED
      BY <3>1, <3>2, <3>3, OpenAtRest
  <2>3. CutHolders(w) = SegmentHolders(w) \cup AssembleHolders(w)
    BY <2>1, <2>2 DEF CutHolders
  <2>4. SegmentHolders(w) \cap AssembleHolders(w) = {}
    BY <2>1, <2>2
  <2>5. Cardinality(CutHolders(w)) =
          Cardinality(SegmentHolders(w)) + Cardinality(AssembleHolders(w))
    <3>1. Cardinality(CutHolders(w)) =
            Cardinality(SegmentHolders(w)) + Cardinality(AssembleHolders(w))
              - Cardinality(SegmentHolders(w) \cap AssembleHolders(w))
      BY <2>3, HoldersFinite, FS_Union
    <3>2. Cardinality(SegmentHolders(w) \cap AssembleHolders(w)) = 0
      BY <2>4, FS_EmptySet
    <3> QED
      BY <3>1, <3>2, HoldersFinite
  <2> QED
    BY <2>5 DEF FleetInv, NoSlotLeaks, Owed
<1> QED
  BY <1>1, FleetInvariant, PTL

\* Rest lasts until somebody asks for a job: processes that start, die, report alive or are found
\* silent, and even a start request served long after Entry gave it up, move no slot, no status
\* and no file.
RestIsQuiet ==
  [][Resting => UNCHANGED <<reserved, jobStatus, segmentVars, asmStatus, asmWorker, post, report,
                            artifact, result>>]_fleetVars

\* What the jobs and the slots are at rest, they stay until the next job is asked for.
THEOREM RestStaysQuiet == FleetSpec => RestIsQuiet
<1>1. Resting /\ [FleetNext]_fleetVars =>
        UNCHANGED <<reserved, jobStatus, segmentVars, asmStatus, asmWorker, post, report, artifact, result>>
  <2> SUFFICES ASSUME Resting, [FleetNext]_fleetVars
               PROVE  UNCHANGED <<reserved, jobStatus, segmentVars, asmStatus, asmWorker, post, report,
                                  artifact, result>>
    OBVIOUS
  <2> USE TaskFacts
  <2>1. ASSUME NEW j \in Jobs PROVE ~EntryCreateStep(j) /\ ~RunnerStep(j)
    <3>1. call[j] \notin {"reserving", "rejecting"} /\ runner[j] \notin {"asking", "dispatching"}
      BY DEF Resting
    <3>2. ~EntryCreateStep(j)
      BY <3>1
      DEF EntryCreateStep, ReserveInMode, ReserveSegment, EntryCreates, GiveUpReserving, RejectJob, CommitJob,
          CommitFindsJob
    <3>3. ~RunnerStep(j)
      BY <3>1
      DEF RunnerStep, JobAnswered, JobAnswerLost, ProcessInternal, BeginUpload, UploadUnreachable,
          NextAssignment, UploadAnswerLost, AtAssignment
    <3> QED
      BY <3>2, <3>3
  <2>2. ASSUME NEW t \in Tasks PROVE ~UploadStep(t) /\ ~ProcessStep(t) /\ ~GatherStep(t)
    <3>1. work[t] \in {"none", "over"} /\ gather[t] \in {"none", "over"}
      BY DEF Resting, InHand, Gathering
    <3>2. ~UploadStep(t) /\ ~ProcessStep(t)
      BY <3>1
      DEF UploadStep, StoreBody, StoreFails, AcceptTask, AcceptFails, UploaderGone, RespondSegmentFailure,
          ProcessStep, StartProcessing, ProcessSucceeds, ProcessFails, ReportSegment, ReportSegmentLost
    <3>3. ~GatherStep(t)
      BY <3>1
      DEF GatherStep, DownloadArtifact, DownloadFails, CallAssemble, AssembleEnds, ReportAssembled,
          ReportAssembledLost
    <3> QED
      BY <3>2, <3>3
  <2>3. ASSUME NEW t \in Tasks PROVE ~EntryPostStep(t) /\ ~EntryReportStep(t)
    <3>1. post[t] \in {"idle", "unreserved", "done"} /\ report[t] # "release"
      BY DEF Resting
    <3> QED
      BY <3>1
      DEF EntryPostStep, EntryReportStep, ReleaseAssembleReport, PostStep, ReleaseSegmentSlot,
          SnapshotSegments, PickAssembleWorker, NoAssembleWorker, AssembleIDError, MarkJobFailed,
          InsertAssembleTask, StartAccepted, StartRefused, StartRefusedForStorage, StartUndelivered,
          StartAnswerLost, MarkAssembleStartFailed, ReleaseAssembleStart
  <2>4. ASSUME \/ \E w \in Workers, offer \in Offers : StartWorker(w, offer)
               \/ \E w \in Workers, disk \in HeartbeatDisks : SendHeartbeat(w, disk)
               \/ \E stale \in SUBSET online : ExpireWorkers(stale)
        PROVE  UNCHANGED <<reserved, managerVars, artifact, result>>
    BY <2>4
    DEF StartWorker, RegisterWorker, SendHeartbeat, HeartbeatWorker, ExpireWorkers, MarkExpiredWorkers,
        workerVars, segmentWorkVars, assembleWorkVars
  <2>5. ASSUME (\E w \in Workers : Crash(w)) \/ UNCHANGED fleetVars
        PROVE  UNCHANGED <<reserved, managerVars, artifact, result>>
    BY <2>5
    DEF Crash, fleetVars, workerVars, segmentWorkVars, assembleWorkVars, vars, registryVars, reserved
  <2>6. ASSUME NEW j \in Jobs, AskForJob(j)
        PROVE  UNCHANGED <<reserved, jobStatus, segmentVars, asmStatus, asmWorker, post, report, artifact, result>>
    BY <2>6 DEF AskForJob, CreateJob, registryVars, reserved, assembleVars, segmentWorkVars, assembleWorkVars
  <2>7. ASSUME NEW t \in Tasks, StartAssembleGIF(t)
        PROVE  UNCHANGED <<reserved, jobStatus, segmentVars, asmStatus, asmWorker, post, report, artifact, result>>
    BY <2>7
    DEF StartAssembleGIF, WorkerStartsAssemble, WorkerRefusesAssemble, registryVars, reserved,
        segmentWorkVars
  <2>8. UNCHANGED managerVars =>
          UNCHANGED <<jobStatus, segmentVars, asmStatus, asmWorker, post, report>>
    BY DEF managerVars, assembleVars
  <2> QED
    BY <2>1, <2>2, <2>3, <2>4, <2>5, <2>6, <2>7, <2>8 DEF FleetNext
<1> QED
  BY <1>1, PTL DEF FleetSpec, RestIsQuiet

\* An artifact that is whole stays as it is: no second attempt writes into a file that Entry may
\* already have been told about.
CompleteArtifactStays ==
  [][\A t \in Tasks : artifact[t] = "complete" => artifact'[t] = "complete"]_fleetVars

\* A segment is processed once, however its worker crashes and registers again.
THEOREM ArtifactsAreWrittenOnce == FleetSpec => CompleteArtifactStays
<1>1. FleetInv /\ [FleetNext]_fleetVars =>
        \A t \in Tasks : artifact[t] = "complete" => artifact'[t] = "complete"
  <2> SUFFICES ASSUME FleetInv, [FleetNext]_fleetVars
               PROVE  \A t \in Tasks : artifact[t] = "complete" => artifact'[t] = "complete"
    OBVIOUS
  <2>t. DOMAIN artifact = Tasks /\ \A t \in Tasks : HandsAgree(t)
    BY DEF FleetInv, WorkersTypeOK, SegmentsHeld
  <2>1. ASSUME NEW u \in Tasks, ProcessInternal(u) \/ StartProcessing(u)
        PROVE  \A t \in Tasks : artifact[t] = "complete" => artifact'[t] = "complete"
    <3>1. artifact[u] = "none" /\ artifact' = [artifact EXCEPT ![u] = "partial"]
      BY <2>1, <2>t DEF ProcessInternal, StartProcessing, HandsAgree
    <3> QED
      BY <2>t, <3>1
  <2>2. ASSUME NEW u \in Tasks, ProcessSucceeds(u)
        PROVE  \A t \in Tasks : artifact[t] = "complete" => artifact'[t] = "complete"
    BY <2>2, <2>t DEF ProcessSucceeds
  <2>3. ASSUME NEW j \in Jobs, RunnerStep(j)
        PROVE  artifact' = artifact \/ \E u \in Tasks : ProcessInternal(u)
    BY <2>3, TaskFacts
    DEF RunnerStep, JobAnswered, JobAnswerLost, BeginUpload, UploadUnreachable, NextAssignment,
        UploadAnswerLost, segmentWorkVars
  <2>4. ASSUME NEW t \in Tasks, UploadStep(t) \/ ProcessStep(t)
        PROVE  artifact' = artifact \/ StartProcessing(t) \/ ProcessSucceeds(t)
    BY <2>4
    DEF UploadStep, StoreBody, StoreFails, AcceptTask, AcceptFails, UploaderGone, RespondSegmentFailure,
        ProcessStep, ProcessFails, ReportSegment, ReportSegmentLost
  <2>5. ASSUME \/ \E w \in Workers, offer \in Offers : StartWorker(w, offer)
               \/ \E w \in Workers, disk \in HeartbeatDisks : SendHeartbeat(w, disk)
               \/ \E w \in Workers : Crash(w)
               \/ \E stale \in SUBSET online : ExpireWorkers(stale)
               \/ \E j \in Jobs : AskForJob(j) \/ EntryCreateStep(j)
               \/ \E t \in Tasks : StartAssembleGIF(t) \/ GatherStep(t)
               \/ \E t \in Tasks : EntryPostStep(t) \/ EntryReportStep(t)
               \/ UNCHANGED fleetVars
        PROVE  artifact' = artifact
    BY <2>5
    DEF StartWorker, SendHeartbeat, Crash, ExpireWorkers, AskForJob, EntryCreateStep, ReserveInMode,
        EntryCreates, StartAssembleGIF, GatherStep, DownloadArtifact, DownloadFails, CallAssemble,
        AssembleEnds, ReportAssembled, ReportAssembledLost, EntryPostStep, EntryReportStep, fleetVars,
        workerVars, segmentWorkVars
  <2> QED
    BY <2>1, <2>2, <2>3, <2>4, <2>5 DEF FleetNext
<1> QED
  BY <1>1, FleetInvariant, PTL DEF FleetSpec, CompleteArtifactStays
=============================================================================
