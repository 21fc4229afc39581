-------------------------- MODULE JobManagerProofs --------------------------
(***************************************************************************)
(* Proofs about the Entry server for every set of workers, jobs and        *)
(* segments: type correctness, the uniqueness of jobs and assemble tasks,  *)
(* the finality of statuses, what clients are told, and who carries a job  *)
(* on.  The reservations have their proofs in JobManagerReservations.      *)
(***************************************************************************)
EXTENDS JobManager, FiniteSetTheorems, TLAPS

\* The task set is finite, so the reservations of a call can be counted.
LEMMA TasksFinite == IsFiniteSet(Tasks)
<1>1. IsFiniteSet(Segments)
  BY FS_Interval, JobManagerAssumption DEF Segments
<1> QED
  BY <1>1, FS_Product, JobManagerAssumption DEF Tasks

\* The job of a task, and the tasks of a job.
LEMMA TaskFacts ==
  /\ \A t \in Tasks : t[1] \in Jobs
  /\ \A j \in Jobs : \A t \in TasksOf(j) : t \in Tasks /\ t[1] = j
  /\ \A t \in Tasks : t \in TasksOf(t[1])
  /\ \A j \in Jobs : TasksOf(j) \subseteq Tasks
BY DEF Tasks, TasksOf

\* Releasing never takes a count below zero.
LEMMA MinusNat ==
  ASSUME NEW a \in Nat, NEW b \in Nat
  PROVE  Minus(a, b) \in Nat /\ Minus(a, b) <= a
BY DEF Minus

\* The reservations a call holds on one worker can be counted.
LEMMA CountNat ==
  ASSUME NEW j \in Jobs, NEW w
  PROVE  Cardinality(ReservedBy(j, w)) \in Nat /\ IsFiniteSet(ReservedBy(j, w))
<1>1. ReservedBy(j, w) \in SUBSET Tasks
  BY TaskFacts DEF ReservedBy
<1> QED
  BY <1>1, TasksFinite, FS_Subset, FS_CardinalityType

-----------------------------------------------------------------------------
(* Type correctness. *)

\* The release of all reservations of a call keeps the types.
LEMMA ReleaseAllType ==
  ASSUME TypeOK, NEW j \in Jobs, ReleaseAll(j)
  PROVE  RegistryTypeOK' /\ taskWorker' \in [Tasks -> Workers \cup {NoWorker}]
<1>1. \A w \in Workers : Cardinality(ReservedBy(j, w)) \in Nat
  BY CountNat
<1>2. reservedSlots' \in [Workers -> Nat]
  BY <1>1, MinusNat DEF ReleaseAll, ReleaseReservations, TypeOK, RegistryTypeOK
<1> QED
  BY <1>2 DEF ReleaseAll, ReleaseReservations, observed, TypeOK, RegistryTypeOK

\* The release of one reservation keeps the registry's types.
LEMMA ReleaseReservationType ==
  ASSUME TypeOK, NEW t \in Tasks, ReleaseReservation(asmWorker[t], asmDisk[t])
  PROVE  RegistryTypeOK'
<1>1. reservedSlots' \in [Workers -> Nat]
  BY MinusNat DEF ReleaseReservation, TypeOK, RegistryTypeOK
<1>2. reservedDisk' \in [Workers -> Nat]
  BY MinusNat DEF ReleaseReservation, TypeOK, RegistryTypeOK
<1> QED
  BY <1>1, <1>2 DEF ReleaseReservation, observed, TypeOK, RegistryTypeOK

\* Every step of the Entry server keeps every variable in its type.
LEMMA TypeOKStep == TypeOK /\ [Next]_vars => TypeOK'
<1> SUFFICES ASSUME TypeOK, [Next]_vars PROVE TypeOK'
  OBVIOUS
<1> USE TaskFacts, RegistryAssumption, JobManagerAssumption
<1>1. ASSUME NEW w \in Workers, NEW offer \in Offers, RegisterWorker(w, offer),
             UNCHANGED managerVars
      PROVE  TypeOK'
  BY <1>1 DEF TypeOK, RegistryTypeOK, RegisterWorker, managerVars, segmentVars, assembleVars,
     reserved
<1>2. ASSUME NEW w \in Workers, NEW disk \in HeartbeatDisks, HeartbeatWorker(w, disk),
             UNCHANGED managerVars
      PROVE  TypeOK'
  BY <1>2 DEF TypeOK, RegistryTypeOK, HeartbeatWorker, managerVars, segmentVars, assembleVars,
     reserved
<1>3. ASSUME NEW stale \in SUBSET online, MarkExpiredWorkers(stale), UNCHANGED managerVars
      PROVE  TypeOK'
  BY <1>3 DEF TypeOK, RegistryTypeOK, MarkExpiredWorkers, managerVars, segmentVars,
     assembleVars, reserved
<1>4. ASSUME RefreshBackpressureStatus, UNCHANGED managerVars PROVE TypeOK'
  <2>1. backpressure' \in BOOLEAN
    BY <1>4 DEF RefreshBackpressureStatus
  <2> QED
    BY <1>4, <2>1 DEF TypeOK, RegistryTypeOK, RefreshBackpressureStatus, managerVars,
       segmentVars, assembleVars, observed, reserved
<1>5. ASSUME NEW j \in Jobs, CreateStep(j) PROVE TypeOK'
  <2>1. CASE CreateJob(j)
    BY <2>1 DEF TypeOK, RegistryTypeOK, CreateJob, registryVars, segmentVars, assembleVars,
       CallPoints
  <2>2. ASSUME NEW t \in TasksOf(j), NEW mode \in Modes, NEW w \in Workers,
               ReserveSegment(t, mode, w)
        PROVE  TypeOK'
    BY <2>2 DEF TypeOK, RegistryTypeOK, ReserveSegment, ReserveSlot, observed, assembleVars
  <2>3. CASE GiveUpReserving(j)
    BY <2>3 DEF TypeOK, RegistryTypeOK, GiveUpReserving, registryVars, segmentVars,
       assembleVars, CallPoints
  <2>4. CASE RejectJob(j)
    <3>1. RegistryTypeOK' /\ taskWorker' \in [Tasks -> Workers \cup {NoWorker}]
      BY <2>4, ReleaseAllType DEF RejectJob
    <3> QED
      BY <2>4, <3>1 DEF TypeOK, RejectJob, assembleVars, CallPoints
  <2>5. CASE CommitJob(j)
    BY <2>5 DEF TypeOK, RegistryTypeOK, CommitJob, registryVars, assembleVars, CallPoints,
       JobStatuses, TaskStatuses
  <2>6. CASE CommitFindsJob(j)
    <3>1. RegistryTypeOK' /\ taskWorker' \in [Tasks -> Workers \cup {NoWorker}]
      BY <2>6, ReleaseAllType DEF CommitFindsJob
    <3> QED
      BY <2>6, <3>1 DEF TypeOK, CommitFindsJob, assembleVars, CallPoints
  <2> QED
    BY <1>5, <2>1, <2>2, <2>3, <2>4, <2>5, <2>6 DEF CreateStep
<1>6. ASSUME NEW t \in Tasks, SegmentReport(t) PROVE TypeOK'
  <2>1. CASE AcceptSegmentTask(t)
    BY <2>1 DEF TypeOK, RegistryTypeOK, AcceptSegmentTask, registryVars, assembleVars,
       TaskStatuses, JobStatuses
  <2>2. CASE CompleteSegmentTask(t)
    <3>1. jobStatus' \in [Jobs -> JobStatuses] /\ post' \in [Tasks -> PostPoints]
      <4>1. CASE AllSegmentTasksCompleted(t[1], taskStatus')
        BY <2>2, <4>1, SMTT(30) DEF TypeOK, CompleteSegmentTask, JobStatuses, PostPoints
      <4>2. CASE ~AllSegmentTasksCompleted(t[1], taskStatus')
        BY <2>2, <4>2 DEF TypeOK, CompleteSegmentTask, PostPoints
      <4> QED
        BY <4>1, <4>2
    <3>2. taskStatus' \in [Tasks -> TaskStatuses]
      BY <2>2 DEF TypeOK, CompleteSegmentTask, TaskStatuses
    <3> QED
      BY <2>2, <3>1, <3>2 DEF TypeOK, RegistryTypeOK, CompleteSegmentTask, registryVars,
         assembleVars
  <2>3. CASE FailSegmentTask(t)
    BY <2>3 DEF TypeOK, RegistryTypeOK, FailSegmentTask, registryVars, assembleVars,
       TaskStatuses, JobStatuses, PostPoints
  <2> QED
    BY <1>6, <2>1, <2>2, <2>3 DEF SegmentReport
<1>7. ASSUME NEW t \in Tasks, PostStep(t) PROVE TypeOK'
  <2> USE DEF TypeOK, assembleVars, segmentVars, PostPoints
  <2>1. CASE ReleaseSegmentSlot(t)
    <3>1. reservedSlots' \in [Workers -> Nat]
      <4>1. \A w \in Workers : (IF w = taskWorker[t] THEN 1 ELSE 0) \in Nat
        OBVIOUS
      <4>2. reservedSlots' = [w \in Workers |->
              Minus(reservedSlots[w], IF w = taskWorker[t] THEN 1 ELSE 0)]
        BY <2>1 DEF ReleaseSegmentSlot, ReleaseReservations
      <4> QED
        BY <4>1, <4>2, MinusNat DEF RegistryTypeOK
    <3>2. RegistryTypeOK'
      BY <2>1, <3>1 DEF ReleaseSegmentSlot, ReleaseReservations, RegistryTypeOK, observed
    <3>3. post' \in [Tasks -> PostPoints]
      BY <2>1 DEF ReleaseSegmentSlot
    <3> QED
      BY <2>1, <3>2, <3>3 DEF ReleaseSegmentSlot
  <2>2. CASE SnapshotSegments(t)
    BY <2>2 DEF SnapshotSegments, RegistryTypeOK, registryVars
  <2>3. ASSUME NEW need \in DiskNeeds, NEW w \in Workers, PickAssembleWorker(t, need, w)
        PROVE  TypeOK'
    BY <2>3 DEF PickAssembleWorker, ReserveSlotAndDisk, RegistryTypeOK, observed
  <2>4. ASSUME NEW need \in DiskNeeds, NoAssembleWorker(t, need) PROVE TypeOK'
    BY <2>4 DEF NoAssembleWorker, RegistryTypeOK, registryVars
  <2>5. CASE AssembleIDError(t)
    BY <2>5, ReleaseReservationType DEF AssembleIDError
  <2>6. CASE MarkJobFailed(t)
    BY <2>6 DEF MarkJobFailed, RegistryTypeOK, registryVars, JobStatuses
  <2>7. CASE InsertAssembleTask(t)
    <3>1. CASE jobStatus[t[1]] = "segment_completed"
      <4>1. /\ asmStatus' = [asmStatus EXCEPT ![t] = "assigned"]
            /\ jobStatus' = [jobStatus EXCEPT ![t[1]] = "assemble_assigned"]
            /\ asmRun' = [asmRun EXCEPT ![t] = "sent"]
            /\ post' = [post EXCEPT ![t] = "await"]
        BY <2>7, <3>1 DEF InsertAssembleTask
      <4> QED
        BY <2>7, <4>1 DEF InsertAssembleTask, RegistryTypeOK, registryVars, JobStatuses,
           TaskStatuses, RunPoints
    <3>2. CASE jobStatus[t[1]] # "segment_completed"
      <4>1. post' = [post EXCEPT ![t] = "unreserve"] /\ UNCHANGED <<asmStatus, jobStatus, asmRun>>
        BY <2>7, <3>2 DEF InsertAssembleTask
      <4> QED
        BY <2>7, <4>1 DEF InsertAssembleTask, RegistryTypeOK, registryVars
    <3> QED
      BY <3>1, <3>2
  <2>8. CASE StartAccepted(t)
    BY <2>8 DEF StartAccepted, RegistryTypeOK, registryVars, JobStatuses, TaskStatuses
  <2>9. CASE StartRefused(t)
    BY <2>9 DEF StartRefused, RegistryTypeOK, registryVars
  <2>10. ASSUME NEW disk \in HeartbeatDisks, StartRefusedForStorage(t, disk) PROVE TypeOK'
    BY <2>10 DEF StartRefusedForStorage, UpdateWorkerObservedDiskFree, RegistryTypeOK, reserved
  <2>11. CASE StartUndelivered(t)
    BY <2>11 DEF StartUndelivered, RegistryTypeOK, registryVars, RunPoints
  <2>12. CASE StartAnswerLost(t)
    BY <2>12 DEF StartAnswerLost, RegistryTypeOK, registryVars
  <2>13. CASE MarkAssembleStartFailed(t)
    BY <2>13 DEF MarkAssembleStartFailed, RegistryTypeOK, registryVars, JobStatuses,
       TaskStatuses
  <2>14. CASE ReleaseAssembleStart(t)
    BY <2>14, ReleaseReservationType DEF ReleaseAssembleStart
  <2> HIDE DEF TypeOK, assembleVars, segmentVars, PostPoints
  <2> QED
    BY <1>7, <2>1, <2>2, <2>3, <2>4, <2>5, <2>6, <2>7, <2>8, <2>9, <2>10, <2>11, <2>12, <2>13,
       <2>14 DEF PostStep
<1>8. ASSUME NEW t \in Tasks, AssembleRun(t) PROVE TypeOK'
  <2> USE DEF TypeOK, RegistryTypeOK, registryVars, segmentVars, RunPoints
  <2>1. CASE WorkerStartsAssemble(t)
    BY <2>1 DEF WorkerStartsAssemble
  <2>2. CASE WorkerRefusesAssemble(t)
    BY <2>2 DEF WorkerRefusesAssemble
  <2>3. ASSUME NEW u \in Tasks, CompleteAssembleJob(t, u) PROVE TypeOK'
    BY <2>3 DEF CompleteAssembleJob, FinishAssemble, TaskStatuses, JobStatuses, ReportPoints
  <2>4. ASSUME NEW u \in Tasks, FailAssembleJob(t, u) PROVE TypeOK'
    BY <2>4 DEF FailAssembleJob, FinishAssemble, TaskStatuses, JobStatuses, ReportPoints
  <2>5. CASE RejectAssembleReport(t)
    BY <2>5 DEF RejectAssembleReport
  <2> QED
    BY <1>8, <2>1, <2>2, <2>3, <2>4, <2>5 DEF AssembleRun
<1>9. ASSUME NEW t \in Tasks, ReleaseAssembleReport(t) PROVE TypeOK'
  BY <1>9, ReleaseReservationType DEF ReleaseAssembleReport, TypeOK, segmentVars, ReportPoints
<1>10. CASE UNCHANGED vars
  BY <1>10 DEF vars, registryVars, managerVars, segmentVars, assembleVars, TypeOK,
     RegistryTypeOK
<1> QED
  BY <1>1, <1>2, <1>3, <1>4, <1>5, <1>6, <1>7, <1>8, <1>9, <1>10 DEF Next

\* Type correctness of the Entry server.
THEOREM TypeCorrect == Spec => []TypeOK
<1>1. Init => TypeOK
  <2>1. Init => RegistryTypeOK
    <3> SUFFICES ASSUME RegistryInit PROVE RegistryTypeOK
      BY DEF Init
    <3>1. registered \in SUBSET Workers /\ online \in SUBSET registered
      BY DEF RegistryInit
    <3>2. backpressure \in BOOLEAN
      BY DEF RegistryInit
    <3> QED
      BY <3>1, <3>2 DEF RegistryInit, RegistryTypeOK
  <2> QED
    BY <2>1 DEF Init, TypeOK, CallPoints, JobStatuses, TaskStatuses, PostPoints, RunPoints,
       ReportPoints
<1> QED
  BY <1>1, TypeOKStep, PTL DEF Spec

-----------------------------------------------------------------------------
(***************************************************************************)
(* Structure.  StructureInv is the inductive invariant: it ties the        *)
(* position of every handler goroutine to the maps.  From it follow that   *)
(* a job has one assemble task, that it starts after all segments and      *)
(* that a video has one job.                                               *)
(***************************************************************************)

\* A step of the registry alone leaves the job manager's invariant true.
LEMMA StructureFrame ==
  ASSUME StructureInv, UNCHANGED managerVars
  PROVE  StructureInv'
BY DEF StructureInv, JobsMatchCalls, OneStarter, Starter, AssemblyStages, CompletedHasAssembly,
   managerVars, segmentVars, assembleVars

\* A step of a CreateJob call keeps the invariant.
LEMMA StructureCreate ==
  ASSUME TypeOK, StructureInv, NEW j \in Jobs, CreateStep(j)
  PROVE  StructureInv'
<1> USE TaskFacts DEF TypeOK, StructureInv, JobsMatchCalls, OneStarter, Starter, Starting,
      AssemblyStages, CompletedHasAssembly, segmentVars, assembleVars
<1>1. CASE CreateJob(j)
  BY <1>1 DEF CreateJob
<1>2. ASSUME NEW t \in TasksOf(j), NEW mode \in Modes, NEW w \in Workers,
             ReserveSegment(t, mode, w)
      PROVE  StructureInv'
  BY <1>2, RegistryAssumption DEF ReserveSegment, NoWorker
<1>3. CASE GiveUpReserving(j)
  BY <1>3 DEF GiveUpReserving
<1>4. CASE RejectJob(j)
  BY <1>4 DEF RejectJob, ReleaseAll
<1>5. CASE CommitJob(j)
  BY <1>5 DEF CommitJob, AllReserved
<1>6. CASE CommitFindsJob(j)
  BY <1>6 DEF CommitFindsJob, ReleaseAll
<1> HIDE DEF TypeOK, StructureInv
<1> QED
  BY <1>1, <1>2, <1>3, <1>4, <1>5, <1>6 DEF CreateStep

\* A report on a segment task keeps the invariant: the goroutine that sees the
\* last segment complete is the only one that can start the assembly.
LEMMA StructureReport ==
  ASSUME TypeOK, StructureInv, NEW t \in Tasks, SegmentReport(t)
  PROVE  StructureInv'
<1> USE TaskFacts DEF TypeOK, StructureInv, JobsMatchCalls, OneStarter, Starter, Starting,
      AssemblyStages, CompletedHasAssembly, assembleVars
<1>1. CASE AcceptSegmentTask(t)
  BY <1>1 DEF AcceptSegmentTask
<1>2. CASE CompleteSegmentTask(t)
  <2>1. JobsMatchCalls'
    BY <1>2 DEF CompleteSegmentTask
  <2>2. OneStarter'
    BY <1>2 DEF CompleteSegmentTask, AllSegmentTasksCompleted, AssembleTasksOf
  <2>3. AssemblyStages'
    BY <1>2 DEF CompleteSegmentTask
  <2>4. CompletedHasAssembly'
    BY <1>2 DEF CompleteSegmentTask
  <2> QED
    BY <2>1, <2>2, <2>3, <2>4
<1>3. CASE FailSegmentTask(t)
  BY <1>3 DEF FailSegmentTask
<1> HIDE DEF TypeOK, StructureInv
<1> QED
  BY <1>1, <1>2, <1>3 DEF SegmentReport

\* A step of the goroutine that finished a segment keeps the invariant.
LEMMA StructurePost ==
  ASSUME TypeOK, StructureInv, NEW t \in Tasks, PostStep(t)
  PROVE  StructureInv'
<1> USE TaskFacts DEF TypeOK, StructureInv, JobsMatchCalls, OneStarter, Starter, Starting,
      AssemblyStages, CompletedHasAssembly, segmentVars, assembleVars
<1>1. CASE ReleaseSegmentSlot(t)
  BY <1>1 DEF ReleaseSegmentSlot
<1>2. CASE SnapshotSegments(t)
  BY <1>2 DEF SnapshotSegments
<1>3. ASSUME NEW need \in DiskNeeds, NEW w \in Workers, PickAssembleWorker(t, need, w)
      PROVE  StructureInv'
  BY <1>3, RegistryAssumption DEF PickAssembleWorker, NoWorker
<1>4. ASSUME NEW need \in DiskNeeds, NoAssembleWorker(t, need) PROVE StructureInv'
  BY <1>4 DEF NoAssembleWorker
<1>5. CASE AssembleIDError(t)
  BY <1>5 DEF AssembleIDError
<1>6. CASE MarkJobFailed(t)
  BY <1>6 DEF MarkJobFailed
<1>7. CASE InsertAssembleTask(t)
  <2>1. JobsMatchCalls'
    BY <1>7 DEF InsertAssembleTask
  <2>2. OneStarter'
    BY <1>7, SMTT(30) DEF InsertAssembleTask
  <2>3. AssemblyStages'
    BY <1>7 DEF InsertAssembleTask
  <2>4. CompletedHasAssembly'
    BY <1>7 DEF InsertAssembleTask
  <2> QED
    BY <2>1, <2>2, <2>3, <2>4
<1>8. CASE StartAccepted(t)
  BY <1>8 DEF StartAccepted
<1>9. CASE StartRefused(t)
  BY <1>9 DEF StartRefused
<1>10. ASSUME NEW disk \in HeartbeatDisks, StartRefusedForStorage(t, disk) PROVE StructureInv'
  BY <1>10 DEF StartRefusedForStorage
<1>11. CASE StartUndelivered(t)
  BY <1>11 DEF StartUndelivered
<1>12. CASE StartAnswerLost(t)
  BY <1>12 DEF StartAnswerLost
<1>13. CASE MarkAssembleStartFailed(t)
  BY <1>13 DEF MarkAssembleStartFailed
<1>14. CASE ReleaseAssembleStart(t)
  BY <1>14 DEF ReleaseAssembleStart
<1> HIDE DEF TypeOK, StructureInv
<1> QED
  BY <1>1, <1>2, <1>3, <1>4, <1>5, <1>6, <1>7, <1>8, <1>9, <1>10, <1>11, <1>12, <1>13, <1>14
  DEF PostStep

\* The report of a running assembly is about that very assemble task.
LEMMA FinishTarget ==
  ASSUME TypeOK, StructureInv, NEW t \in Tasks, NEW u \in Tasks, asmRun[t] = "running",
         AssembleCompletionTarget(t[1], asmWorker[t], u)
  PROVE  u = t
BY TaskFacts DEF TypeOK, StructureInv, OneStarter, Starter, AssemblyStages,
   AssembleCompletionTarget, AssembleTasksOf

\* A step of the assemble worker, and its report, keep the invariant.
LEMMA StructureRun ==
  ASSUME TypeOK, StructureInv, NEW t \in Tasks, AssembleRun(t) \/ ReleaseAssembleReport(t)
  PROVE  StructureInv'
<1>1. ASSUME NEW u \in Tasks, NEW outcome \in {"completed", "failed"},
             FinishAssemble(t, u, outcome)
      PROVE  StructureInv'
  <2>1. u = t
    BY <1>1, FinishTarget DEF FinishAssemble
  <2> QED
    BY <1>1, <2>1, TaskFacts DEF FinishAssemble, TypeOK, StructureInv, JobsMatchCalls, OneStarter,
       Starter, Starting, AssemblyStages, CompletedHasAssembly, segmentVars,
       AssembleCompletionTarget
<1> USE TaskFacts DEF TypeOK, StructureInv, JobsMatchCalls, OneStarter, Starter, Starting,
      AssemblyStages, CompletedHasAssembly, segmentVars
<1>2. CASE WorkerStartsAssemble(t)
  BY <1>2 DEF WorkerStartsAssemble
<1>3. CASE WorkerRefusesAssemble(t)
  BY <1>3 DEF WorkerRefusesAssemble
<1>4. CASE RejectAssembleReport(t)
  BY <1>4 DEF RejectAssembleReport
<1>5. CASE ReleaseAssembleReport(t)
  BY <1>5 DEF ReleaseAssembleReport
<1> HIDE DEF TypeOK, StructureInv
<1> QED
  BY <1>1, <1>2, <1>3, <1>4, <1>5 DEF AssembleRun, CompleteAssembleJob, FailAssembleJob

\* Every step keeps the invariant.
LEMMA StructureStep == TypeOK /\ StructureInv /\ [Next]_vars => StructureInv'
<1> SUFFICES ASSUME TypeOK, StructureInv, [Next]_vars PROVE StructureInv'
  OBVIOUS
<1>1. CASE UNCHANGED managerVars
  BY <1>1, StructureFrame
<1>2. CASE UNCHANGED vars
  BY <1>1, <1>2 DEF vars
<1> QED
  BY <1>1, <1>2, StructureCreate, StructureReport, StructurePost, StructureRun DEF Next

\* At the start there are no calls, jobs or tasks to relate.
LEMMA StructureInit == Init => StructureInv
<1> SUFFICES ASSUME Init PROVE StructureInv
  OBVIOUS
<1>1. JobsMatchCalls /\ CompletedHasAssembly
  BY TaskFacts DEF Init, JobsMatchCalls, CompletedHasAssembly
<1>2. OneStarter
  BY TaskFacts DEF Init, OneStarter, Starter, Starting
<1>3. AssemblyStages
  BY DEF Init, AssemblyStages
<1> QED
  BY <1>1, <1>2, <1>3 DEF StructureInv

\* The positions of the handler goroutines and the job and task maps always agree.
THEOREM StructureInvariant == Spec => [](TypeOK /\ StructureInv)
<1>1. Init => StructureInv
  BY StructureInit
<1> QED
  BY <1>1, TypeCorrect, StructureStep, PTL DEF Spec

-----------------------------------------------------------------------------
(* What follows from the structure. *)

\* The assembly of a job is started once, by whichever goroutine completes its
\* last segment, for any number of segments and workers.
THEOREM AssembledOnce == Spec => []OneAssembleTaskPerJob
<1>1. StructureInv => OneAssembleTaskPerJob
  BY DEF StructureInv, OneStarter, Starter, OneAssembleTaskPerJob
<1> QED
  BY <1>1, StructureInvariant, PTL

\* No worker is asked to assemble a job with an unfinished segment.
THEOREM AssembledAfterSegments == Spec => []AssembleAfterSegments
<1>1. StructureInv => AssembleAfterSegments
  BY DEF StructureInv, OneStarter, Starter, AssemblyStages, AssembleAfterSegments
<1> QED
  BY <1>1, StructureInvariant, PTL

\* Only CommitJob adds a job, and it finds none of that identity.
LEMMA IdentityStep ==
  TypeOK /\ StructureInv /\ OneJobPerIdentity /\ [Next]_vars => OneJobPerIdentity'
<1> SUFFICES ASSUME TypeOK, StructureInv, OneJobPerIdentity, [Next]_vars
             PROVE  OneJobPerIdentity'
  OBVIOUS
<1>1. ASSUME NEW j \in Jobs, CommitJob(j) PROVE OneJobPerIdentity'
  BY <1>1 DEF CommitJob, FindJobByIdentity, TypeOK, StructureInv, JobsMatchCalls, SameIdentity,
     OneJobPerIdentity
<1>2. ASSUME NEW j \in Jobs, CreateStep(j), ~CommitJob(j) PROVE OneJobPerIdentity'
  BY <1>2 DEF CreateStep, CreateJob, ReserveSegment, GiveUpReserving, RejectJob,
     CommitFindsJob, TypeOK, SameIdentity, OneJobPerIdentity
<1>3. CASE UNCHANGED call
  BY <1>3 DEF OneJobPerIdentity, SameIdentity
<1>4. CASE UNCHANGED managerVars \/ UNCHANGED vars
  BY <1>3, <1>4 DEF managerVars, vars
<1>5. ASSUME NEW t \in Tasks, SegmentReport(t) PROVE UNCHANGED call
  BY <1>5 DEF SegmentReport, AcceptSegmentTask, CompleteSegmentTask, FailSegmentTask
<1>6. ASSUME NEW t \in Tasks, PostStep(t) PROVE UNCHANGED call
  BY <1>6 DEF PostStep, ReleaseSegmentSlot, SnapshotSegments, PickAssembleWorker,
     NoAssembleWorker, AssembleIDError, MarkJobFailed, InsertAssembleTask, StartAccepted,
     StartRefused, StartRefusedForStorage, StartUndelivered, StartAnswerLost,
     MarkAssembleStartFailed, ReleaseAssembleStart
<1>7. ASSUME NEW t \in Tasks, AssembleRun(t) \/ ReleaseAssembleReport(t) PROVE UNCHANGED call
  BY <1>7 DEF AssembleRun, WorkerStartsAssemble, WorkerRefusesAssemble, CompleteAssembleJob,
     FailAssembleJob, FinishAssemble, RejectAssembleReport, ReleaseAssembleReport
<1> QED
  BY <1>1, <1>2, <1>3, <1>4, <1>5, <1>6, <1>7 DEF Next

\* However many CreateJob calls race, a video of a source worker gets one job.
THEOREM IdentityIsUnique == Spec => []OneJobPerIdentity
<1>1. Init => OneJobPerIdentity
  BY DEF Init, OneJobPerIdentity
<1> QED
  BY <1>1, IdentityStep, StructureInvariant, PTL DEF Spec

-----------------------------------------------------------------------------
(* Final statuses. *)

\* Only a goroutine that awaits an answer decides that a start has failed.
LEMMA FailedStartStep ==
  TypeOK /\ StructureInv /\ FailedStartIsFinal /\ [Next]_vars => FailedStartIsFinal'
<1> SUFFICES ASSUME TypeOK, StructureInv, FailedStartIsFinal, ~LossyStart, [Next]_vars
             PROVE  FailedStartIsFinal'
  BY DEF FailedStartIsFinal
<1>1. CASE UNCHANGED <<post, asmRun>>
  BY <1>1 DEF FailedStartIsFinal
<1>2. CASE UNCHANGED managerVars \/ UNCHANGED vars
  BY <1>1, <1>2 DEF managerVars, vars, assembleVars
<1>3. ASSUME NEW j \in Jobs, CreateStep(j) PROVE UNCHANGED <<post, asmRun>>
  BY <1>3 DEF CreateStep, CreateJob, ReserveSegment, GiveUpReserving, RejectJob, CommitJob,
     CommitFindsJob, assembleVars
<1>4. ASSUME NEW t \in Tasks, SegmentReport(t) PROVE FailedStartIsFinal'
  <2>1. UNCHANGED asmRun /\ (post' = post \/ \E p \in {"release", "release_last"} :
                                                post' = [post EXCEPT ![t] = p])
    BY <1>4 DEF SegmentReport, AcceptSegmentTask, CompleteSegmentTask, FailSegmentTask,
       assembleVars
  <2> QED
    BY <2>1 DEF FailedStartIsFinal, TypeOK
<1>5. ASSUME NEW t \in Tasks, InsertAssembleTask(t) PROVE FailedStartIsFinal'
  <2>1. post[t] = "insert" /\ asmRun[t] = "none"
    BY <1>5 DEF InsertAssembleTask, StructureInv, AssemblyStages
  <2>2. \/ asmRun' = [asmRun EXCEPT ![t] = "sent"] /\ post' = [post EXCEPT ![t] = "await"]
        \/ asmRun' = asmRun /\ post' = [post EXCEPT ![t] = "unreserve"]
    BY <1>5 DEF InsertAssembleTask
  <2> QED
    BY <2>1, <2>2 DEF FailedStartIsFinal, TypeOK
<1>6. ASSUME NEW t \in Tasks, PostStep(t), ~InsertAssembleTask(t) PROVE FailedStartIsFinal'
  BY <1>6 DEF PostStep, ReleaseSegmentSlot, SnapshotSegments, PickAssembleWorker,
     NoAssembleWorker, AssembleIDError, MarkJobFailed, StartAccepted, StartRefused,
     StartRefusedForStorage, StartUndelivered, StartAnswerLost, MarkAssembleStartFailed,
     ReleaseAssembleStart, assembleVars, FailedStartIsFinal, TypeOK
<1>7. ASSUME NEW t \in Tasks, AssembleRun(t) \/ ReleaseAssembleReport(t)
      PROVE  FailedStartIsFinal'
  BY <1>7 DEF AssembleRun, WorkerStartsAssemble, WorkerRefusesAssemble, CompleteAssembleJob,
     FailAssembleJob, FinishAssemble, RejectAssembleReport, ReleaseAssembleReport,
     FailedStartIsFinal, TypeOK
<1> QED
  BY <1>1, <1>2, <1>3, <1>4, <1>5, <1>6, <1>7 DEF Next

\* Without a lost answer, a start that Entry counts as failed has no run.
THEOREM FailedStartInvariant == Spec => []FailedStartIsFinal
<1>1. Init => FailedStartIsFinal
  BY DEF Init, FailedStartIsFinal
<1> QED
  BY <1>1, FailedStartStep, StructureInvariant, PTL DEF Spec

-----------------------------------------------------------------------------
(***************************************************************************)
(* Finality.  A final task stays final; a job on its way to an assembly is *)
(* always in somebody's hands; and, when no answer to a start request is   *)
(* lost, the job and its assemble task agree on the outcome and a          *)
(* completed job stays completed.                                          *)
(***************************************************************************)

\* No step reopens a task that is completed or failed.
LEMMA FinalTaskStep ==
  ASSUME TypeOK, StructureInv, [Next]_vars, NEW t \in Tasks
  PROVE  /\ taskStatus[t] \in {"completed", "failed"} => taskStatus'[t] = taskStatus[t]
         /\ asmStatus[t] \in {"completed", "failed"} => asmStatus'[t] = asmStatus[t]
<1> DEFINE Goal == /\ taskStatus[t] \in {"completed", "failed"} => taskStatus'[t] = taskStatus[t]
                   /\ asmStatus[t] \in {"completed", "failed"} => asmStatus'[t] = asmStatus[t]
<1>1. CASE UNCHANGED <<taskStatus, asmStatus>>
  BY <1>1
<1>2. CASE UNCHANGED managerVars \/ UNCHANGED vars
  BY <1>1, <1>2 DEF managerVars, vars, segmentVars, assembleVars
<1>3. ASSUME NEW j \in Jobs, CreateStep(j) PROVE Goal
  <2>1. CASE CommitJob(j)
    BY <2>1, TaskFacts DEF CommitJob, StructureInv, JobsMatchCalls, assembleVars
  <2>2. CASE ~CommitJob(j)
    BY <1>3, <2>2 DEF CreateStep, CreateJob, ReserveSegment, GiveUpReserving, RejectJob,
       CommitFindsJob, segmentVars, assembleVars
  <2> QED
    BY <2>1, <2>2
<1>4. ASSUME NEW u \in Tasks, SegmentReport(u) PROVE Goal
  BY <1>4 DEF SegmentReport, AcceptSegmentTask, CompleteSegmentTask, FailSegmentTask,
     assembleVars, TypeOK
<1>5. ASSUME NEW u \in Tasks, InsertAssembleTask(u) PROVE Goal
  <2>1. asmStatus[u] = "none"
    BY <1>5 DEF InsertAssembleTask, StructureInv, AssemblyStages
  <2>2. UNCHANGED taskStatus /\ (asmStatus' = asmStatus
                                  \/ asmStatus' = [asmStatus EXCEPT ![u] = "assigned"])
    BY <1>5 DEF InsertAssembleTask, segmentVars
  <2> QED
    BY <2>1, <2>2 DEF TypeOK
<1>6. ASSUME NEW u \in Tasks, PostStep(u), ~InsertAssembleTask(u) PROVE Goal
  BY <1>6 DEF PostStep, ReleaseSegmentSlot, SnapshotSegments, PickAssembleWorker,
     NoAssembleWorker, AssembleIDError, MarkJobFailed, StartAccepted, StartRefused,
     StartRefusedForStorage, StartUndelivered, StartAnswerLost, MarkAssembleStartFailed,
     ReleaseAssembleStart, segmentVars, assembleVars, TypeOK
<1>7. ASSUME NEW u \in Tasks, AssembleRun(u) \/ ReleaseAssembleReport(u) PROVE Goal
  BY <1>7 DEF AssembleRun, WorkerStartsAssemble, WorkerRefusesAssemble, CompleteAssembleJob,
     FailAssembleJob, FinishAssemble, AssembleCompletionTarget, RejectAssembleReport,
     ReleaseAssembleReport, segmentVars, TypeOK
<1> QED
  BY <1>1, <1>2, <1>3, <1>4, <1>5, <1>6, <1>7 DEF Next

\* FinalTaskStays, whether or not answers are lost.
THEOREM TasksStayFinal == Spec => FinalTaskStays
<1>1. TypeOK /\ StructureInv /\ [Next]_vars =>
        \A t \in Tasks :
          /\ taskStatus[t] \in {"completed", "failed"} => taskStatus'[t] = taskStatus[t]
          /\ asmStatus[t] \in {"completed", "failed"} => asmStatus'[t] = asmStatus[t]
  BY FinalTaskStep
<1> QED
  BY <1>1, StructureInvariant, PTL DEF Spec, FinalTaskStays

-----------------------------------------------------------------------------
(* Nobody forgets a job half way. *)

\* The starter of an assembly finds its snapshot complete.
LEMMA SnapshotFinds ==
  ASSUME TypeOK, StructureInv, NEW t \in Tasks, post[t] = "snapshot"
  PROVE  AllSegmentTasksCompleted(t[1], taskStatus)
BY TaskFacts DEF StructureInv, OneStarter, Starter, Starting, AssemblyStages,
   AllSegmentTasksCompleted, AssembleTasksOf

\* No step takes a job from the goroutine that has to carry it on.
LEMMA OrphanStep ==
  TypeOK /\ StructureInv /\ NoOrphanJob /\ [Next]_vars => NoOrphanJob'
<1> SUFFICES ASSUME TypeOK, StructureInv, NoOrphanJob, [Next]_vars PROVE NoOrphanJob'
  OBVIOUS
<1>1. CASE UNCHANGED <<jobStatus, post>>
  BY <1>1 DEF NoOrphanJob
<1>2. CASE UNCHANGED managerVars \/ UNCHANGED vars
  BY <1>1, <1>2 DEF managerVars, vars
<1>3. ASSUME NEW j \in Jobs, CreateStep(j) PROVE NoOrphanJob'
  <2>1. CASE CommitJob(j)
    BY <2>1 DEF CommitJob, NoOrphanJob, TypeOK
  <2>2. CASE ~CommitJob(j)
    BY <1>1, <1>3, <2>2 DEF CreateStep, CreateJob, ReserveSegment, GiveUpReserving, RejectJob,
       CommitFindsJob
  <2> QED
    BY <2>1, <2>2
<1>4. ASSUME NEW t \in Tasks, SegmentReport(t) PROVE NoOrphanJob'
  <2>1. CASE AcceptSegmentTask(t)
    BY <2>1 DEF AcceptSegmentTask, NoOrphanJob, TypeOK
  <2>2. CASE CompleteSegmentTask(t)
    <3>1. post[t] = "idle"
      BY <2>2 DEF CompleteSegmentTask, StructureInv, OneStarter
    <3>2. \/ /\ jobStatus' = [jobStatus EXCEPT ![t[1]] = "segment_completed"]
             /\ post' = [post EXCEPT ![t] = "release_last"]
          \/ jobStatus' = jobStatus /\ post' = [post EXCEPT ![t] = "release"]
      BY <2>2 DEF CompleteSegmentTask
    <3> QED
      BY <3>1, <3>2, TaskFacts DEF NoOrphanJob, TypeOK
  <2>3. CASE FailSegmentTask(t)
    <3>1. post[t] = "idle"
      BY <2>3 DEF FailSegmentTask, StructureInv, OneStarter
    <3> QED
      BY <2>3, <3>1, TaskFacts DEF FailSegmentTask, NoOrphanJob, TypeOK
  <2> QED
    BY <1>4, <2>1, <2>2, <2>3 DEF SegmentReport
<1>5. ASSUME NEW t \in Tasks, SnapshotSegments(t) PROVE NoOrphanJob'
  <2>1. post' = [post EXCEPT ![t] = "pick"] /\ post[t] = "snapshot" /\ UNCHANGED jobStatus
    BY <1>5, SnapshotFinds DEF SnapshotSegments
  <2> QED
    BY <2>1, TaskFacts DEF NoOrphanJob, TypeOK
<1>6. ASSUME NEW t \in Tasks, InsertAssembleTask(t) PROVE NoOrphanJob'
  <2>1. post[t] = "insert"
    BY <1>6 DEF InsertAssembleTask
  <2>2. \/ /\ jobStatus' = [jobStatus EXCEPT ![t[1]] = "assemble_assigned"]
           /\ post' = [post EXCEPT ![t] = "await"]
        \/ /\ jobStatus[t[1]] # "segment_completed"
           /\ jobStatus' = jobStatus /\ post' = [post EXCEPT ![t] = "unreserve"]
    BY <1>6 DEF InsertAssembleTask
  <2> QED
    BY <2>1, <2>2, TaskFacts DEF NoOrphanJob, TypeOK
<1>7. ASSUME NEW t \in Tasks, PostStep(t), ~SnapshotSegments(t), ~InsertAssembleTask(t)
      PROVE  NoOrphanJob'
  <2> USE TaskFacts DEF NoOrphanJob, TypeOK
  <2>1. CASE ReleaseSegmentSlot(t)
    BY <2>1 DEF ReleaseSegmentSlot
  <2>2. ASSUME NEW need \in DiskNeeds, NEW w \in Workers, PickAssembleWorker(t, need, w)
        PROVE  NoOrphanJob'
    BY <2>2 DEF PickAssembleWorker
  <2>3. ASSUME NEW need \in DiskNeeds, NoAssembleWorker(t, need) PROVE NoOrphanJob'
    BY <2>3 DEF NoAssembleWorker
  <2>4. CASE AssembleIDError(t)
    BY <2>4 DEF AssembleIDError
  <2>5. CASE MarkJobFailed(t)
    BY <2>5 DEF MarkJobFailed
  <2>6. CASE StartAccepted(t)
    BY <2>6 DEF StartAccepted
  <2>7. CASE StartRefused(t)
    BY <2>7 DEF StartRefused
  <2>8. ASSUME NEW disk \in HeartbeatDisks, StartRefusedForStorage(t, disk) PROVE NoOrphanJob'
    BY <2>8 DEF StartRefusedForStorage
  <2>9. CASE StartUndelivered(t) \/ StartAnswerLost(t)
    BY <2>9 DEF StartUndelivered, StartAnswerLost
  <2>10. CASE MarkAssembleStartFailed(t)
    BY <2>10 DEF MarkAssembleStartFailed
  <2>11. CASE ReleaseAssembleStart(t)
    BY <2>11 DEF ReleaseAssembleStart
  <2> HIDE DEF NoOrphanJob, TypeOK
  <2> QED
    BY <1>7, <2>1, <2>2, <2>3, <2>4, <2>5, <2>6, <2>7, <2>8, <2>9, <2>10, <2>11 DEF PostStep
<1>8. ASSUME NEW t \in Tasks, AssembleRun(t) \/ ReleaseAssembleReport(t) PROVE NoOrphanJob'
  BY <1>8, TaskFacts DEF AssembleRun, WorkerStartsAssemble, WorkerRefusesAssemble,
     CompleteAssembleJob, FailAssembleJob, FinishAssemble, RejectAssembleReport,
     ReleaseAssembleReport, NoOrphanJob, TypeOK
<1> QED
  BY <1>1, <1>2, <1>3, <1>4, <1>5, <1>6, <1>7, <1>8 DEF Next

\* A job with all segments done, or an unanswered start, has its goroutine.
THEOREM NoJobIsOrphaned == Spec => []NoOrphanJob
<1>1. Init => NoOrphanJob
  BY DEF Init, NoOrphanJob
<1> QED
  BY <1>1, OrphanStep, StructureInvariant, PTL DEF Spec

-----------------------------------------------------------------------------
(* One story about the outcome, when no answer is lost. *)

\* A completed job is left alone by every goroutine that is still about.
LEMMA CompletedJobStep ==
  ASSUME TypeOK, StructureInv, FailedStartIsFinal, ~LossyStart, [Next]_vars,
         NEW j \in Jobs, jobStatus[j] = "completed"
  PROVE  jobStatus'[j] = "completed"
<1>1. PICK t \in TasksOf(j) : asmStatus[t] = "completed"
  BY DEF StructureInv, CompletedHasAssembly
<1>2. t \in Tasks /\ t[1] = j /\ Starter(t)
  BY <1>1, TaskFacts DEF Starter
<1>3. \A u \in TasksOf(j) : taskStatus[u] = "completed"
  BY <1>2 DEF StructureInv, OneStarter
<1>4. \A u \in Tasks : u[1] = j /\ Starter(u) => u = t
  BY <1>2 DEF StructureInv, OneStarter
<1>5. post[t] \notin Starting /\ asmRun[t] = "reported"
  BY <1>1, <1>2 DEF StructureInv, AssemblyStages, Starting
<1>6. post[t] # "start_failed"
  BY <1>2, <1>5 DEF FailedStartIsFinal
<1>7. \A u \in Tasks : u[1] = j => post[u] \notin Starting \cup {"start_failed"}
  BY <1>4, <1>5, <1>6 DEF Starter, StructureInv, AssemblyStages
<1>8. CASE UNCHANGED jobStatus
  BY <1>8
<1>9. CASE UNCHANGED managerVars \/ UNCHANGED vars
  BY <1>8, <1>9 DEF managerVars, vars
<1>10. ASSUME NEW k \in Jobs, CreateStep(k) PROVE jobStatus'[j] = "completed"
  <2>1. CASE CommitJob(k)
    BY <2>1 DEF CommitJob, StructureInv, JobsMatchCalls, TypeOK
  <2>2. CASE ~CommitJob(k)
    BY <1>8, <1>10, <2>2 DEF CreateStep, CreateJob, ReserveSegment, GiveUpReserving, RejectJob,
       CommitFindsJob
  <2> QED
    BY <2>1, <2>2
<1>11. ASSUME NEW u \in Tasks, SegmentReport(u) PROVE jobStatus'[j] = "completed"
  <2>1. u[1] # j
    BY <1>3, <1>11, TaskFacts DEF SegmentReport, AcceptSegmentTask, CompleteSegmentTask,
       FailSegmentTask
  <2>2. jobStatus' = jobStatus \/ \E st \in JobStatuses : jobStatus' = [jobStatus EXCEPT ![u[1]] = st]
    BY <1>11 DEF SegmentReport, AcceptSegmentTask, CompleteSegmentTask, FailSegmentTask,
       JobStatuses
  <2> QED
    BY <2>1, <2>2, TaskFacts DEF TypeOK
<1>12. ASSUME NEW u \in Tasks, PostStep(u) PROVE jobStatus'[j] = "completed"
  <2>1. CASE MarkJobFailed(u)
    BY <1>7, <2>1 DEF MarkJobFailed, Starting, TypeOK
  <2>2. CASE InsertAssembleTask(u)
    BY <1>7, <2>2 DEF InsertAssembleTask, Starting, TypeOK
  <2>3. CASE StartAccepted(u)
    BY <2>3, TaskFacts DEF StartAccepted, TypeOK
  <2>4. CASE MarkAssembleStartFailed(u)
    BY <1>7, <2>4 DEF MarkAssembleStartFailed, TypeOK
  <2>5. CASE /\ ~MarkJobFailed(u) /\ ~InsertAssembleTask(u) /\ ~StartAccepted(u)
             /\ ~MarkAssembleStartFailed(u)
    BY <1>8, <1>12, <2>5 DEF PostStep, ReleaseSegmentSlot, SnapshotSegments,
       PickAssembleWorker, NoAssembleWorker, AssembleIDError, StartRefused,
       StartRefusedForStorage, StartUndelivered, StartAnswerLost, ReleaseAssembleStart
  <2> QED
    BY <2>1, <2>2, <2>3, <2>4, <2>5
<1>13. ASSUME NEW u \in Tasks, AssembleRun(u) \/ ReleaseAssembleReport(u)
       PROVE  jobStatus'[j] = "completed"
  BY <1>13 DEF AssembleRun, WorkerStartsAssemble, WorkerRefusesAssemble, CompleteAssembleJob,
     FailAssembleJob, FinishAssemble, AssembleCompletionTarget, RejectAssembleReport,
     ReleaseAssembleReport, TypeOK
<1> QED
  BY <1>9, <1>10, <1>11, <1>12, <1>13 DEF Next

\* CompletedJobStays, when no answer to a start request is lost.
THEOREM CompletedJobsStay == ~LossyStart => (Spec => CompletedJobStays)
<1> SUFFICES ASSUME ~LossyStart PROVE Spec => CompletedJobStays
  OBVIOUS
<1>1. TypeOK /\ StructureInv /\ FailedStartIsFinal /\ [Next]_vars =>
        \A j \in Jobs : jobStatus[j] = "completed" => jobStatus'[j] = "completed"
  BY CompletedJobStep
<1> QED
  BY <1>1, StructureInvariant, FailedStartInvariant, PTL DEF Spec, CompletedJobStays

\* A step that completes an assemble task completes its job.
LEMMA CompletionStep ==
  ASSUME TypeOK, StructureInv, [Next]_vars, NEW t \in Tasks,
         asmStatus[t] # "completed", asmStatus'[t] = "completed"
  PROVE  jobStatus'[t[1]] = "completed"
<1>1. ASSUME NEW u \in Tasks, NEW r \in Tasks, FinishAssemble(r, u, "completed")
      PROVE  jobStatus'[t[1]] = "completed"
  <2>1. u = r
    BY <1>1, FinishTarget DEF FinishAssemble
  <2>2. u = t
    BY <1>1 DEF FinishAssemble, TypeOK
  <2> QED
    BY <1>1, <2>1, <2>2, TaskFacts DEF FinishAssemble, TypeOK
<1>2. ASSUME NEW u \in Tasks, NEW r \in Tasks, FinishAssemble(r, u, "failed") PROVE FALSE
  BY <1>2 DEF FinishAssemble, TypeOK
<1>3. CASE UNCHANGED asmStatus
  BY <1>3
<1>4. CASE UNCHANGED managerVars \/ UNCHANGED vars
  BY <1>3, <1>4 DEF managerVars, vars, assembleVars
<1>5. ASSUME NEW j \in Jobs, CreateStep(j) PROVE UNCHANGED asmStatus
  BY <1>5 DEF CreateStep, CreateJob, ReserveSegment, GiveUpReserving, RejectJob, CommitJob,
     CommitFindsJob, assembleVars
<1>6. ASSUME NEW u \in Tasks, SegmentReport(u) PROVE UNCHANGED asmStatus
  BY <1>6 DEF SegmentReport, AcceptSegmentTask, CompleteSegmentTask, FailSegmentTask,
     assembleVars
<1>7. ASSUME NEW u \in Tasks, PostStep(u) PROVE asmStatus'[t] # "completed"
  <2>1. CASE InsertAssembleTask(u)
    <3>1. asmStatus' = asmStatus \/ asmStatus' = [asmStatus EXCEPT ![u] = "assigned"]
      BY <2>1 DEF InsertAssembleTask
    <3> QED
      BY <3>1 DEF TypeOK
  <2>2. CASE ~InsertAssembleTask(u)
    BY <1>7, <2>2 DEF PostStep, ReleaseSegmentSlot, SnapshotSegments, PickAssembleWorker,
       NoAssembleWorker, AssembleIDError, MarkJobFailed, StartAccepted, StartRefused,
       StartRefusedForStorage, StartUndelivered, StartAnswerLost, MarkAssembleStartFailed,
       ReleaseAssembleStart, assembleVars, TypeOK
  <2> QED
    BY <2>1, <2>2
<1>8. ASSUME NEW u \in Tasks, AssembleRun(u) \/ ReleaseAssembleReport(u)
      PROVE  jobStatus'[t[1]] = "completed"
  BY <1>1, <1>2, <1>3, <1>8 DEF AssembleRun, WorkerStartsAssemble, WorkerRefusesAssemble,
     CompleteAssembleJob, FailAssembleJob, RejectAssembleReport, ReleaseAssembleReport
<1> QED
  BY <1>3, <1>4, <1>5, <1>6, <1>7, <1>8 DEF Next

\* The inductive half of the agreement; the other half is CompletedHasAssembly.
AssembledJobCompleted ==
  \A t \in Tasks : asmStatus[t] = "completed" => jobStatus[t[1]] = "completed"

\* With a reliable answer, only the report of the assembly completes the
\* assemble task, and the job with it.
LEMMA AgreementStep ==
  ASSUME ~LossyStart
  PROVE  TypeOK /\ StructureInv /\ FailedStartIsFinal /\ AssembledJobCompleted /\ [Next]_vars
         => AssembledJobCompleted'
<1> SUFFICES ASSUME TypeOK, StructureInv, FailedStartIsFinal, AssembledJobCompleted,
                    [Next]_vars, NEW t \in Tasks, asmStatus'[t] = "completed"
             PROVE  jobStatus'[t[1]] = "completed"
  BY DEF AssembledJobCompleted
<1>1. t[1] \in Jobs
  BY TaskFacts
<1>2. CASE asmStatus[t] = "completed"
  BY <1>1, <1>2, CompletedJobStep DEF AssembledJobCompleted
<1>3. CASE asmStatus[t] # "completed"
  BY <1>3, CompletionStep
<1> QED
  BY <1>2, <1>3

\* JobAgreesWithAssembleTask, when no answer to a start request is lost.
THEOREM OutcomesAgree == ~LossyStart => (Spec => []JobAgreesWithAssembleTask)
<1> SUFFICES ASSUME ~LossyStart PROVE Spec => []JobAgreesWithAssembleTask
  OBVIOUS
<1>1. Init => AssembledJobCompleted
  BY DEF Init, AssembledJobCompleted
<1>2. StructureInv /\ AssembledJobCompleted => JobAgreesWithAssembleTask
  BY TaskFacts DEF StructureInv, OneStarter, Starter, CompletedHasAssembly,
     AssembledJobCompleted, JobAgreesWithAssembleTask
<1> QED
  BY <1>1, <1>2, AgreementStep, StructureInvariant, FailedStartInvariant, PTL DEF Spec

-----------------------------------------------------------------------------
(***************************************************************************)
(* Results.  What clients are told: the Entry server implements            *)
(* VideoResults.                                                           *)
(***************************************************************************)

\* A job is failed because a segment failed, or after all of them were done.
SegmentsDone(j) == \A t \in TasksOf(j) : taskStatus[t] = "completed"
FailedHasCause ==
  \A j \in Jobs : jobStatus[j] = "failed" => SegmentFailed(j) \/ SegmentsDone(j)

\* A goroutine on its way to the assembly, or an assemble task, means that all
\* segments of the job are completed, so none of them failed.
LEMMA StartedJobIsWhole ==
  ASSUME StructureInv, NEW t \in Tasks, Starter(t)
  PROVE  SegmentsDone(t[1]) /\ ~SegmentFailed(t[1])
BY TaskFacts DEF StructureInv, OneStarter, SegmentsDone, SegmentFailed

\* Every status change of a job keeps FailedHasCause.
LEMMA FailedCauseStep ==
  TypeOK /\ StructureInv /\ FailedHasCause /\ [Next]_vars => FailedHasCause'
<1> SUFFICES ASSUME TypeOK, StructureInv, FailedHasCause, [Next]_vars,
                    NEW j \in Jobs, jobStatus'[j] = "failed"
             PROVE  SegmentFailed(j)' \/ SegmentsDone(j)'
  BY DEF FailedHasCause
<1>1. CASE jobStatus[j] = "failed"
  <2>1. \A t \in Tasks : taskStatus[t] \in {"completed", "failed"} => taskStatus'[t] = taskStatus[t]
    BY FinalTaskStep
  <2> QED
    BY <1>1, <2>1, TaskFacts DEF FailedHasCause, SegmentFailed, SegmentsDone
<1>2. CASE jobStatus[j] # "failed"
  <2>1. ASSUME NEW t \in Tasks, FailSegmentTask(t) PROVE SegmentFailed(j)'
    BY <1>2, <2>1, TaskFacts DEF FailSegmentTask, TypeOK, SegmentFailed
  <2>2. ASSUME NEW t \in Tasks, Starter(t), UNCHANGED taskStatus,
               \A k \in Jobs : k # t[1] => jobStatus'[k] = jobStatus[k]
        PROVE  SegmentsDone(j)'
    BY <1>2, <2>2, StartedJobIsWhole DEF SegmentsDone
  <2>3. CASE UNCHANGED managerVars \/ UNCHANGED vars
    BY <1>2, <2>3 DEF managerVars, vars
  <2>4. ASSUME NEW k \in Jobs, CreateStep(k) PROVE FALSE
    BY <1>2, <2>4 DEF CreateStep, CreateJob, ReserveSegment, GiveUpReserving, RejectJob,
       CommitJob, CommitFindsJob, TypeOK
  <2>5. ASSUME NEW t \in Tasks, SegmentReport(t), ~FailSegmentTask(t) PROVE FALSE
    <3>1. jobStatus' = jobStatus \/ \E s \in {"segment_running", "segment_completed"} :
                                      jobStatus' = [jobStatus EXCEPT ![t[1]] = s]
      BY <2>5 DEF SegmentReport, AcceptSegmentTask, CompleteSegmentTask
    <3> QED
      BY <1>2, <3>1 DEF TypeOK
  <2>6. ASSUME NEW t \in Tasks, MarkJobFailed(t) \/ MarkAssembleStartFailed(t)
        PROVE  SegmentsDone(j)'
    <3>1. Starter(t)
      BY <2>6 DEF MarkJobFailed, MarkAssembleStartFailed, Starter, Starting, StructureInv,
         AssemblyStages
    <3>2. UNCHANGED taskStatus /\ jobStatus' = [jobStatus EXCEPT ![t[1]] = "failed"]
      BY <2>6 DEF MarkJobFailed, MarkAssembleStartFailed, segmentVars
    <3> QED
      BY <2>2, <3>1, <3>2, TaskFacts DEF TypeOK
  <2>7. ASSUME NEW t \in Tasks, PostStep(t), ~MarkJobFailed(t), ~MarkAssembleStartFailed(t)
        PROVE  FALSE
    <3>1. CASE InsertAssembleTask(t)
      BY <1>2, <3>1 DEF InsertAssembleTask, TypeOK
    <3>2. CASE ~InsertAssembleTask(t)
      BY <1>2, <2>7, <3>2 DEF PostStep, ReleaseSegmentSlot, SnapshotSegments,
         PickAssembleWorker, NoAssembleWorker, AssembleIDError, StartAccepted, StartRefused,
         StartRefusedForStorage, StartUndelivered, StartAnswerLost, ReleaseAssembleStart, TypeOK
    <3> QED
      BY <3>1, <3>2
  <2>8. ASSUME NEW t \in Tasks, NEW u \in Tasks, FailAssembleJob(t, u) PROVE SegmentsDone(j)'
    <3>1. Starter(t)
      BY <2>8 DEF FailAssembleJob, FinishAssemble, Starter, StructureInv, AssemblyStages
    <3>2. UNCHANGED taskStatus /\ jobStatus' = [jobStatus EXCEPT ![t[1]] = "failed"]
      BY <2>8 DEF FailAssembleJob, FinishAssemble, segmentVars
    <3> QED
      BY <2>2, <3>1, <3>2, TaskFacts DEF TypeOK
  <2>9. ASSUME NEW t \in Tasks, AssembleRun(t) \/ ReleaseAssembleReport(t),
               \A u \in Tasks : ~FailAssembleJob(t, u)
        PROVE  FALSE
    BY <1>2, <2>9 DEF AssembleRun, WorkerStartsAssemble, WorkerRefusesAssemble,
       CompleteAssembleJob, FinishAssemble, RejectAssembleReport, ReleaseAssembleReport, TypeOK
  <2> QED
    BY <2>1, <2>3, <2>4, <2>5, <2>6, <2>7, <2>8, <2>9 DEF Next, SegmentReport, AssembleRun
<1> QED
  BY <1>1, <1>2

-----------------------------------------------------------------------------
(* The answers to queries, by the job they are about. *)

Identities == {Identity(j) : j \in Jobs}
MappedResult == [v \in Identities |-> QueryJob(v)]
MappedSpoiled == {Identity(j) : j \in {k \in Jobs : SegmentFailed(k)}}

\* At most one job answers for a video, and a spoiled video has one.
ResultsInv ==
  /\ \A j, k \in Jobs : jobStatus[j] # "none" /\ jobStatus[k] # "none"
                          /\ Identity(j) = Identity(k) => j = k
  /\ \A j \in Jobs : SegmentFailed(j) => jobStatus[j] # "none"
  /\ \A j \in Jobs : jobStatus[j] # "none" => QueryJob(Identity(j)) = Answer(jobStatus[j])
  /\ \A v \in Identities : (\A j \in Jobs : Identity(j) = v => jobStatus[j] = "none")
                             => QueryJob(v) = "not_found"

\* With one job per video, the answer to a query is the one of that job.
LEMMA ResultsFacts == StructureInv /\ OneJobPerIdentity => ResultsInv
<1> SUFFICES ASSUME StructureInv, OneJobPerIdentity PROVE ResultsInv
  OBVIOUS
<1>1. ASSUME NEW j \in Jobs, NEW k \in Jobs, jobStatus[j] # "none", jobStatus[k] # "none",
             Identity(j) = Identity(k)
      PROVE  j = k
  BY <1>1 DEF StructureInv, JobsMatchCalls, OneJobPerIdentity, SameIdentity, Identity
<1>2. ASSUME NEW j \in Jobs, SegmentFailed(j) PROVE jobStatus[j] # "none"
  BY <1>2, TaskFacts DEF SegmentFailed, StructureInv, JobsMatchCalls
<1>3. ASSUME NEW j \in Jobs, jobStatus[j] # "none"
      PROVE  QueryJob(Identity(j)) = Answer(jobStatus[j])
  <2>1. {k \in Jobs : jobStatus[k] # "none" /\ Identity(k) = Identity(j)} = {j}
    BY <1>1, <1>3
  <2>2. (CHOOSE k \in {j} : TRUE) = j
    OBVIOUS
  <2>3. {j} # {}
    OBVIOUS
  <2> HIDE DEF Identity
  <2> QED
    BY <2>1, <2>2, <2>3 DEF QueryJob
<1>4. ASSUME NEW v \in Identities, \A j \in Jobs : Identity(j) = v => jobStatus[j] = "none"
      PROVE  QueryJob(v) = "not_found"
  <2>1. {k \in Jobs : jobStatus[k] # "none" /\ Identity(k) = v} = {}
    BY <1>4
  <2> QED
    BY <2>1 DEF QueryJob
<1> QED
  BY <1>1, <1>2, <1>3, <1>4 DEF ResultsInv

\* The answers: a final status as it is, every other one as "working".
LEMMA AnswerFacts ==
  /\ Answer("completed") = "completed"
  /\ Answer("failed") = "failed"
  /\ \A s \in JobStatuses \ {"none", "completed", "failed"} : Answer(s) = "working"
<1>1. Answer("completed") = "completed" /\ Answer("failed") = "failed"
  BY DEF Answer
<1>2. ASSUME NEW s \in JobStatuses \ {"none", "completed", "failed"} PROVE Answer(s) = "working"
  <2>1. s \notin {"completed", "failed"}
    OBVIOUS
  <2> QED
    BY <2>1 DEF Answer
<1> QED
  BY <1>1, <1>2

\* A step that gives one job of the map another status changes one answer.
LEMMA OneAnswerMoves ==
  ASSUME TypeOK, ResultsInv, ResultsInv', NEW j \in Jobs, NEW s, s # "none",
         jobStatus' = [jobStatus EXCEPT ![j] = s],
         \A k \in Jobs : jobStatus[k] # "none" /\ Identity(k) = Identity(j) => k = j
  PROVE  /\ Identity(j) \in Identities
         /\ MappedResult' = [MappedResult EXCEPT ![Identity(j)] = Answer(s)]
         /\ jobStatus[j] # "none" => MappedResult[Identity(j)] = Answer(jobStatus[j])
         /\ jobStatus[j] = "none" => MappedResult[Identity(j)] = "not_found"
<1>1. Identity(j) \in Identities /\ Identities' = Identities
  BY DEF Identities, Identity
<1>2. \A k \in Jobs : Identity(k)' = Identity(k)
  BY DEF Identity
<1>3. jobStatus'[j] = s /\ \A k \in Jobs : k # j => jobStatus'[k] = jobStatus[k]
  BY DEF TypeOK
<1>4. QueryJob(Identity(j))' = Answer(s)
  BY <1>2, <1>3 DEF ResultsInv, Answer
<1>5. ASSUME NEW v \in Identities, v # Identity(j) PROVE QueryJob(v)' = QueryJob(v)
  <2>1. CASE \E k \in Jobs : Identity(k) = v /\ jobStatus[k] # "none"
    <3>1. PICK k \in Jobs : Identity(k) = v /\ jobStatus[k] # "none"
      BY <2>1
    <3>2. k # j
      BY <1>5, <3>1
    <3>3. QueryJob(Identity(k)) = Answer(jobStatus[k])
      BY <3>1 DEF ResultsInv
    <3>4. QueryJob(Identity(k))' = Answer(jobStatus[k])
      BY <1>2, <1>3, <3>1, <3>2 DEF ResultsInv, Answer
    <3> QED
      BY <1>2, <3>1, <3>3, <3>4
  <2>2. CASE \A k \in Jobs : Identity(k) = v => jobStatus[k] = "none"
    <3>1. \A k \in Jobs : Identity(k) = v => jobStatus'[k] = "none"
      BY <1>3, <1>5, <2>2
    <3>2. QueryJob(v) = "not_found"
      BY <2>2 DEF ResultsInv
    <3>3. QueryJob(v)' = "not_found"
      BY <1>1, <1>2, <3>1 DEF ResultsInv
    <3> QED
      BY <3>2, <3>3
  <2> QED
    BY <2>1, <2>2
<1> QED
  BY <1>1, <1>4, <1>5 DEF MappedResult, ResultsInv

\* A job that is known and changes its status changes the answer for its video
\* and no other.
LEMMA KnownAnswerMoves ==
  ASSUME TypeOK, ResultsInv, ResultsInv', NEW j \in Jobs, NEW s, s # "none",
         jobStatus[j] # "none", jobStatus' = [jobStatus EXCEPT ![j] = s]
  PROVE  /\ Identity(j) \in Identities
         /\ MappedResult' = [MappedResult EXCEPT ![Identity(j)] = Answer(s)]
         /\ MappedResult[Identity(j)] = Answer(jobStatus[j])
<1>1. \A k \in Jobs : jobStatus[k] # "none" /\ Identity(k) = Identity(j) => k = j
  BY DEF ResultsInv
<1> QED
  BY <1>1, OneAnswerMoves

\* A step that changes no status between final ones and fails no segment is invisible.
LEMMA SilentAnswer ==
  ASSUME TypeOK, ResultsInv, ResultsInv', NEW j \in Jobs, NEW s \in JobStatuses,
         jobStatus[j] # "none", s # "none", Answer(s) = Answer(jobStatus[j]),
         jobStatus' = [jobStatus EXCEPT ![j] = s], MappedSpoiled' = MappedSpoiled
  PROVE  UNCHANGED Results!resultVars
<1>1. /\ MappedResult' = [MappedResult EXCEPT ![Identity(j)] = Answer(s)]
      /\ MappedResult[Identity(j)] = Answer(jobStatus[j])
  BY KnownAnswerMoves
<1>2. MappedResult' = MappedResult
  BY <1>1 DEF MappedResult
<1> QED
  BY <1>2 DEF Results!resultVars, MappedResult, MappedSpoiled, Identities

\* A step that changes no status and fails no segment is invisible.
LEMMA SilentStep ==
  ASSUME UNCHANGED jobStatus, MappedSpoiled' = MappedSpoiled
  PROVE  UNCHANGED Results!resultVars
<1>1. \A v : QueryJob(v)' = QueryJob(v)
  BY DEF QueryJob, Identity, Answer
<1>2. MappedResult' = MappedResult
  BY <1>1 DEF MappedResult, Identities, Identity
<1> QED
  BY <1>2 DEF Results!resultVars, MappedResult, MappedSpoiled, Identities

\* The spoiled videos stay the same when the same segment tasks are failed.
LEMMA SpoiledFrame ==
  ASSUME \A t \in Tasks : taskStatus'[t] = "failed" <=> taskStatus[t] = "failed"
  PROVE  MappedSpoiled' = MappedSpoiled
BY TaskFacts DEF MappedSpoiled, SegmentFailed, Identity

\* A job without a failed segment has no spoiled video.
LEMMA NotSpoiled ==
  ASSUME ResultsInv, NEW j \in Jobs, jobStatus[j] # "none", ~SegmentFailed(j)
  PROVE  Identity(j) \notin MappedSpoiled
BY DEF ResultsInv, MappedSpoiled

\* The job that is failed because its assembly cannot start had all its segments;
\* it was completed before only if an answer was lost.
LEMMA FailStep ==
  ASSUME TypeOK, StructureInv, FailedStartIsFinal, ResultsInv, ResultsInv',
         NEW t \in Tasks, MarkJobFailed(t) \/ MarkAssembleStartFailed(t)
  PROVE  Results!ResultsNext \/ UNCHANGED Results!resultVars
<1> DEFINE j == t[1]
           v == Identity(j)
<1>1. Starter(t) /\ j \in Jobs
  BY TaskFacts DEF MarkJobFailed, MarkAssembleStartFailed, Starter, Starting, StructureInv,
     AssemblyStages
<1>2. ~SegmentFailed(j) /\ jobStatus[j] # "none"
  BY <1>1, StartedJobIsWhole, TaskFacts DEF SegmentsDone, StructureInv, JobsMatchCalls
<1>3. jobStatus' = [jobStatus EXCEPT ![j] = "failed"] /\ UNCHANGED taskStatus
  BY DEF MarkJobFailed, MarkAssembleStartFailed, segmentVars
<1>4. MappedSpoiled' = MappedSpoiled /\ v \notin MappedSpoiled
  BY <1>1, <1>2, <1>3, SpoiledFrame, NotSpoiled
<1>5. /\ v \in Identities
      /\ MappedResult' = [MappedResult EXCEPT ![v] = "failed"]
      /\ MappedResult[v] = Answer(jobStatus[j])
  <2>1. Answer("failed") = "failed"
    BY AnswerFacts
  <2>2. MappedResult' = [MappedResult EXCEPT ![v] = Answer("failed")]
    BY <1>1, <1>2, <1>3, KnownAnswerMoves
  <2>3. v \in Identities /\ MappedResult[v] = Answer(jobStatus[j])
    BY <1>1, <1>2, <1>3, KnownAnswerMoves
  <2> QED
    BY <2>1, <2>2, <2>3
<1>6. CASE jobStatus[j] = "failed"
  BY <1>1, <1>3, <1>4, <1>6, SilentAnswer DEF JobStatuses
<1>7. CASE jobStatus[j] = "completed"
  <2>1. PICK u \in TasksOf(j) : asmStatus[u] = "completed"
    BY <1>1, <1>7 DEF StructureInv, CompletedHasAssembly
  <2>2. u = t
    BY <1>1, <2>1, TaskFacts DEF StructureInv, OneStarter, Starter
  <2>3. asmStatus[t] = "completed" /\ asmRun[t] = "reported" /\ post[t] # "fail_job"
    BY <2>1, <2>2 DEF StructureInv, AssemblyStages
  <2>4. LossyStart
    BY <2>3 DEF FailedStartIsFinal, MarkJobFailed, MarkAssembleStartFailed
  <2>5. MappedResult[v] = "completed"
    BY <1>5, <1>7, AnswerFacts
  <2>6. Results!Overturn(v)
    BY <1>4, <1>5, <2>4, <2>5
    DEF Results!Overturn, Results!Move, MappedResult, MappedSpoiled, Identities
  <2> QED
    BY <1>5, <2>6 DEF Results!ResultsNext, Identities
<1>8. CASE jobStatus[j] \notin {"completed", "failed"}
  <2>1. MappedResult[v] = "working"
    BY <1>1, <1>2, <1>5, <1>8, AnswerFacts DEF TypeOK
  <2>2. Results!Fail(v)
    BY <1>4, <1>5, <2>1
    DEF Results!Fail, Results!Move, MappedResult, MappedSpoiled, Identities
  <2> QED
    BY <1>5, <2>2 DEF Results!ResultsNext, Identities
<1> QED
  BY <1>6, <1>7, <1>8

\* The report on an assembly gives its job the result, which had none so far.
LEMMA FinishStep ==
  ASSUME TypeOK, StructureInv, ResultsInv, ResultsInv', NEW t \in Tasks, NEW u \in Tasks,
         NEW outcome \in {"completed", "failed"}, FinishAssemble(t, u, outcome)
  PROVE  Results!ResultsNext
<1> DEFINE j == t[1]
           v == Identity(j)
<1>1. Starter(t) /\ j \in Jobs
  BY TaskFacts DEF FinishAssemble, Starter, StructureInv, AssemblyStages
<1>2. ~SegmentFailed(j) /\ jobStatus[j] \in JobStatuses \ {"none", "completed", "failed"}
  BY <1>1, StartedJobIsWhole DEF FinishAssemble, AssembleCompletionTarget, JobStatuses
<1>3. jobStatus' = [jobStatus EXCEPT ![j] = outcome] /\ UNCHANGED taskStatus
  BY DEF FinishAssemble, segmentVars
<1>4. MappedSpoiled' = MappedSpoiled /\ v \notin MappedSpoiled
  BY <1>1, <1>2, <1>3, SpoiledFrame, NotSpoiled
<1>5. Answer(outcome) = outcome /\ Answer(jobStatus[j]) = "working"
  BY <1>2, AnswerFacts
<1>6. /\ v \in Identities
      /\ MappedResult' = [MappedResult EXCEPT ![v] = outcome]
      /\ MappedResult[v] = "working"
  <2>1. jobStatus[j] # "none" /\ outcome # "none"
    BY <1>2
  <2> QED
    BY <1>1, <1>3, <1>5, <2>1, KnownAnswerMoves, ZenonT(30)
<1>7. Results!Complete(v) \/ Results!Fail(v)
  BY <1>4, <1>6
  DEF Results!Complete, Results!Fail, Results!Move, MappedResult, MappedSpoiled, Identities
<1> QED
  BY <1>6, <1>7 DEF Results!ResultsNext, Identities

\* A report on a segment: an accept may reopen a failed job, but only a job that
\* is spoiled; the last completion finds its job neither failed nor completed.
LEMMA ReportStep ==
  ASSUME TypeOK, StructureInv, FailedHasCause, ResultsInv, ResultsInv', NEW t \in Tasks,
         SegmentReport(t)
  PROVE  Results!ResultsNext \/ UNCHANGED Results!resultVars
<1> DEFINE j == t[1]
           v == Identity(j)
<1>1. j \in Jobs /\ t \in TasksOf(j) /\ taskStatus[t] \in {"assigned", "running"}
  BY TaskFacts DEF SegmentReport, AcceptSegmentTask, CompleteSegmentTask, FailSegmentTask
<1>2. ~SegmentsDone(j) /\ jobStatus[j] # "none"
  BY <1>1 DEF SegmentsDone, StructureInv, JobsMatchCalls
<1>3. jobStatus[j] # "completed"
  <2>1. \A u \in TasksOf(j) : ~Starter(u)
    BY <1>1, <1>2, StartedJobIsWhole, TaskFacts
  <2> QED
    BY <1>1, <2>1 DEF StructureInv, CompletedHasAssembly, Starter
<1>4. jobStatus[j] = "failed" \/ Answer(jobStatus[j]) = "working"
  BY <1>1, <1>2, <1>3, AnswerFacts DEF TypeOK
<1>5. CASE AcceptSegmentTask(t)
  <2>1. MappedSpoiled' = MappedSpoiled
    BY <1>5, SpoiledFrame DEF AcceptSegmentTask, TypeOK
  <2>2. /\ jobStatus' = [jobStatus EXCEPT ![j] = "segment_running"]
        /\ Answer("segment_running") = "working" /\ "segment_running" \in JobStatuses
    BY <1>5, AnswerFacts DEF AcceptSegmentTask, JobStatuses
  <2>3. CASE jobStatus[j] # "failed"
    BY <1>1, <1>2, <1>4, <2>1, <2>2, <2>3, SilentAnswer
  <2>4. CASE jobStatus[j] = "failed"
    <3>1. SegmentFailed(j)
      BY <1>1, <1>2, <2>4 DEF FailedHasCause
    <3>2. v \in MappedSpoiled
      BY <1>1, <3>1 DEF MappedSpoiled
    <3>3. /\ v \in Identities
          /\ MappedResult' = [MappedResult EXCEPT ![v] = Answer("segment_running")]
          /\ MappedResult[v] = Answer(jobStatus[j])
      BY <1>1, <1>2, <2>2, KnownAnswerMoves
    <3>4. MappedResult[v] = "failed" /\ MappedResult' = [MappedResult EXCEPT ![v] = "working"]
      BY <2>2, <2>4, <3>3, AnswerFacts
    <3>5. Results!Reopen(v)
      BY <2>1, <3>2, <3>4
      DEF Results!Reopen, Results!Move, MappedResult, MappedSpoiled, Identities
    <3> QED
      BY <3>3, <3>5 DEF Results!ResultsNext, Identities
  <2> QED
    BY <2>3, <2>4
<1>6. CASE CompleteSegmentTask(t)
  <2>1. MappedSpoiled' = MappedSpoiled
    BY <1>6, SpoiledFrame DEF CompleteSegmentTask, TypeOK
  <2>2. CASE AllSegmentTasksCompleted(j, taskStatus')
    <3>1. /\ jobStatus' = [jobStatus EXCEPT ![j] = "segment_completed"]
          /\ Answer("segment_completed") = "working" /\ "segment_completed" \in JobStatuses
      BY <1>6, <2>2, AnswerFacts DEF CompleteSegmentTask, JobStatuses
    <3>2. ~SegmentFailed(j)
      BY <1>1, <1>6, <2>2, TaskFacts DEF CompleteSegmentTask, AllSegmentTasksCompleted,
         SegmentFailed, TypeOK
    <3>3. jobStatus[j] # "failed"
      BY <1>1, <1>2, <3>2 DEF FailedHasCause
    <3> QED
      BY <1>1, <1>2, <1>4, <2>1, <3>1, <3>3, SilentAnswer
  <2>3. CASE ~AllSegmentTasksCompleted(j, taskStatus')
    BY <1>6, <2>1, <2>3, SilentStep DEF CompleteSegmentTask
  <2> QED
    BY <2>2, <2>3
<1>7. CASE FailSegmentTask(t)
  <2>1. MappedSpoiled' = MappedSpoiled \cup {v}
    <3>1. \A k \in Jobs : SegmentFailed(k)' <=> SegmentFailed(k) \/ k = j
      BY <1>1, <1>7, TaskFacts DEF FailSegmentTask, SegmentFailed, TypeOK
    <3> QED
      BY <1>1, <3>1 DEF MappedSpoiled, Identity
  <2>2. jobStatus' = [jobStatus EXCEPT ![j] = "failed"]
    BY <1>7 DEF FailSegmentTask
  <2>3. /\ v \in Identities
        /\ MappedResult' = [MappedResult EXCEPT ![v] = Answer("failed")]
        /\ MappedResult[v] = Answer(jobStatus[j])
    BY <1>1, <1>2, <2>2, KnownAnswerMoves
  <2>4. MappedResult[v] \in {"working", "failed"} /\ Answer("failed") = "failed"
    BY <1>4, <2>3, AnswerFacts
  <2>5. Results!Spoil(v)
    BY <2>1, <2>3, <2>4
    DEF Results!Spoil, Results!Move, MappedResult, MappedSpoiled, Identities
  <2> QED
    BY <2>3, <2>5 DEF Results!ResultsNext, Identities
<1> QED
  BY <1>5, <1>6, <1>7 DEF SegmentReport

\* The commit of a job: the first answer about its video.
LEMMA SubmitStep ==
  ASSUME TypeOK, StructureInv, ResultsInv, ResultsInv', NEW j \in Jobs, CommitJob(j)
  PROVE  Results!ResultsNext
<1> DEFINE v == Identity(j)
<1>1. \A k \in Jobs : Identity(k) = v => jobStatus[k] = "none"
  BY DEF CommitJob, FindJobByIdentity, SameIdentity, Identity
<1>2. jobStatus' = [jobStatus EXCEPT ![j] = "segment_assigned"] /\ jobStatus[j] = "none"
  BY <1>1 DEF CommitJob
<1>3. /\ v \in Identities
      /\ MappedResult' = [MappedResult EXCEPT ![v] = Answer("segment_assigned")]
      /\ MappedResult[v] = "not_found"
  BY <1>1, <1>2, OneAnswerMoves
<1>4. Answer("segment_assigned") = "working"
  BY AnswerFacts DEF JobStatuses
<1>5. MappedSpoiled' = MappedSpoiled
  <2>1. \A t \in Tasks : taskStatus'[t] = "failed" <=> taskStatus[t] = "failed"
    BY <1>2, TaskFacts DEF CommitJob, StructureInv, JobsMatchCalls
  <2> QED
    BY <2>1, SpoiledFrame
<1>6. Results!Submit(v)
  BY <1>3, <1>4, <1>5
  DEF Results!Submit, Results!Move, MappedResult, MappedSpoiled, Identities
<1> QED
  BY <1>3, <1>6 DEF Results!ResultsNext, Identities

\* The steps of the goroutine that starts the assembly.
LEMMA PostResultStep ==
  ASSUME TypeOK, StructureInv, FailedStartIsFinal, ResultsInv, ResultsInv', NEW t \in Tasks,
         PostStep(t)
  PROVE  Results!ResultsNext \/ UNCHANGED Results!resultVars
<1>1. CASE MarkJobFailed(t) \/ MarkAssembleStartFailed(t)
  BY <1>1, FailStep
<1>2. UNCHANGED taskStatus /\ t[1] \in Jobs
  BY TaskFacts DEF PostStep, ReleaseSegmentSlot, SnapshotSegments, PickAssembleWorker,
     NoAssembleWorker, AssembleIDError, MarkJobFailed, InsertAssembleTask, StartAccepted,
     StartRefused, StartRefusedForStorage, StartUndelivered, StartAnswerLost,
     MarkAssembleStartFailed, ReleaseAssembleStart, segmentVars
<1>3. MappedSpoiled' = MappedSpoiled
  BY <1>2, SpoiledFrame
<1>4. ASSUME NEW s \in {"assemble_assigned", "assemble_running"}, NEW r \in JobStatuses,
             jobStatus[t[1]] = r, r \in {"segment_completed", "assemble_assigned"},
             jobStatus' = [jobStatus EXCEPT ![t[1]] = s]
      PROVE  UNCHANGED Results!resultVars
  <2>1. Answer(s) = Answer(r) /\ s \in JobStatuses /\ s # "none" /\ r # "none"
    BY <1>4, AnswerFacts DEF JobStatuses
  <2> QED
    BY <1>2, <1>3, <1>4, <2>1, SilentAnswer
<1>5. CASE UNCHANGED jobStatus
  BY <1>3, <1>5, SilentStep
<1>6. CASE InsertAssembleTask(t)
  <2>1. \/ /\ jobStatus[t[1]] = "segment_completed"
           /\ jobStatus' = [jobStatus EXCEPT ![t[1]] = "assemble_assigned"]
        \/ UNCHANGED jobStatus
    BY <1>6 DEF InsertAssembleTask
  <2> QED
    BY <1>4, <1>5, <2>1 DEF JobStatuses
<1>7. CASE StartAccepted(t)
  <2>1. \/ /\ jobStatus[t[1]] = "assemble_assigned"
           /\ jobStatus' = [jobStatus EXCEPT ![t[1]] = "assemble_running"]
        \/ UNCHANGED jobStatus
    BY <1>7 DEF StartAccepted, TypeOK
  <2> QED
    BY <1>4, <1>5, <2>1 DEF JobStatuses
<1>8. CASE /\ ~MarkJobFailed(t) /\ ~MarkAssembleStartFailed(t)
           /\ ~InsertAssembleTask(t) /\ ~StartAccepted(t)
  BY <1>5, <1>8 DEF PostStep, ReleaseSegmentSlot, SnapshotSegments, PickAssembleWorker,
     NoAssembleWorker, AssembleIDError, StartRefused, StartRefusedForStorage,
     StartUndelivered, StartAnswerLost, ReleaseAssembleStart
<1> QED
  BY <1>1, <1>6, <1>7, <1>8

\* Every step of the Entry server is a step of VideoResults or leaves it alone.
LEMMA VideoResultsStep ==
  ASSUME TypeOK, StructureInv, FailedStartIsFinal, FailedHasCause, ResultsInv, ResultsInv',
         [Next]_vars
  PROVE  Results!ResultsNext \/ UNCHANGED Results!resultVars
<1>1. CASE UNCHANGED <<jobStatus, taskStatus>>
  BY <1>1, SilentStep, SpoiledFrame
<1>2. CASE UNCHANGED managerVars \/ UNCHANGED vars
  BY <1>1, <1>2 DEF managerVars, vars, segmentVars
<1>3. ASSUME NEW j \in Jobs, CreateStep(j)
      PROVE  Results!ResultsNext \/ UNCHANGED Results!resultVars
  <2>1. CASE CommitJob(j)
    BY <2>1, SubmitStep
  <2>2. CASE ~CommitJob(j)
    BY <1>1, <1>3, <2>2 DEF CreateStep, CreateJob, ReserveSegment, GiveUpReserving, RejectJob,
       CommitFindsJob, segmentVars
  <2> QED
    BY <2>1, <2>2
<1>4. ASSUME NEW t \in Tasks, SegmentReport(t)
      PROVE  Results!ResultsNext \/ UNCHANGED Results!resultVars
  BY <1>4, ReportStep
<1>5. ASSUME NEW t \in Tasks, PostStep(t)
      PROVE  Results!ResultsNext \/ UNCHANGED Results!resultVars
  BY <1>5, PostResultStep
<1>6. ASSUME NEW t \in Tasks, AssembleRun(t) \/ ReleaseAssembleReport(t)
      PROVE  Results!ResultsNext \/ UNCHANGED Results!resultVars
  <2>1. CASE \E u \in Tasks : CompleteAssembleJob(t, u) \/ FailAssembleJob(t, u)
    BY <2>1, FinishStep DEF CompleteAssembleJob, FailAssembleJob
  <2>2. CASE ~\E u \in Tasks : CompleteAssembleJob(t, u) \/ FailAssembleJob(t, u)
    BY <1>1, <1>6, <2>2 DEF AssembleRun, WorkerStartsAssemble, WorkerRefusesAssemble,
       RejectAssembleReport, ReleaseAssembleReport, segmentVars
  <2> QED
    BY <2>1, <2>2
<1> QED
  BY <1>2, <1>3, <1>4, <1>5, <1>6 DEF Next

\* What clients are told about a video changes only as VideoResults allows, for any
\* number of workers, jobs and segments, and whether or not answers are lost.
THEOREM EntryImplementsVideoResults == Spec => ImplementsVideoResults
<1>1. Init => Results!ResultsInit
  <2> SUFFICES ASSUME Init PROVE Results!ResultsInit
    OBVIOUS
  <2>1. \A v : QueryJob(v) = "not_found"
    BY DEF Init, QueryJob
  <2>2. {k \in Jobs : SegmentFailed(k)} = {}
    BY TaskFacts DEF Init, SegmentFailed
  <2> QED
    BY <2>1, <2>2 DEF Results!ResultsInit
<1>2. Init => FailedHasCause
  BY DEF Init, FailedHasCause
<1>3. Spec => []FailedHasCause
  BY <1>2, FailedCauseStep, StructureInvariant, PTL DEF Spec
<1>4. Spec => []ResultsInv
  BY ResultsFacts, StructureInvariant, IdentityIsUnique, PTL
<1>5. TypeOK /\ StructureInv /\ FailedStartIsFinal /\ FailedHasCause /\ ResultsInv
        /\ ResultsInv' /\ [Next]_vars => [Results!ResultsNext]_(Results!resultVars)
  BY VideoResultsStep
<1> QED
  BY <1>1, <1>3, <1>4, <1>5, StructureInvariant, FailedStartInvariant, PTL
  DEF Spec, ImplementsVideoResults, Results!ResultsSpec

-----------------------------------------------------------------------------
(***************************************************************************)
(* Who carries a job and its assembly on.  Where NoOrphanJob speaks of the *)
(* goroutines of Entry alone, these facts follow the assembly to the run   *)
(* on the worker and to the report, whatever answers get lost.             *)
(***************************************************************************)
AssemblyFacts ==
  \A t \in Tasks :
    /\ post[t] = "await" => asmRun[t] \in {"sent", "running", "refused", "reported"}
    /\ post[t] = "await" /\ asmRun[t] # "reported" =>
         jobStatus[t[1]] = "assemble_assigned" /\ asmStatus[t] = "assigned"
    /\ post[t] = "done" /\ asmWorker[t] # NoWorker => asmRun[t] \in {"running", "reported"}
    /\ post[t] = "done" /\ asmRun[t] = "running" =>
         jobStatus[t[1]] = "assemble_running" /\ asmStatus[t] = "running"
    /\ post[t] \in {"await", "done"} /\ asmRun[t] = "reported" => report[t] # "none"
    /\ report[t] # "none" => jobStatus[t[1]] \in {"completed", "failed"}
    /\ post[t] \in {"unreserve", "unreserved"} => asmStatus[t] \notin {"assigned", "running"}
    /\ asmWorker[t] \in registered \cup {NoWorker}

JobFacts ==
  \A j \in Jobs :
    /\ call[j] \in {"idle", "exists", "rejected"} => \A t \in TasksOf(j) : taskWorker[t] = NoWorker
    /\ jobStatus[j] \in {"segment_assigned", "segment_running"} =>
         \E t \in TasksOf(j) : taskStatus[t] # "completed"
    /\ jobStatus[j] = "assemble_running" =>
         \E t \in TasksOf(j) : post[t] = "done" /\ asmRun[t] = "running"

\* A job has a segment.
LEMMA JobHasTask == \A j \in Jobs : TasksOf(j) # {}
<1> SUFFICES ASSUME NEW j \in Jobs PROVE <<j, 0>> \in TasksOf(j)
  OBVIOUS
<1> QED
  BY JobManagerAssumption DEF TasksOf, Tasks, Segments

\* Steps that touch neither jobs nor assemblies.
LEMMA FactsFrame ==
  ASSUME AssemblyFacts, JobFacts, UNCHANGED managerVars, registered \subseteq registered'
  PROVE  AssemblyFacts' /\ JobFacts'
BY DEF AssemblyFacts, JobFacts, managerVars, segmentVars, assembleVars

\* A CreateJob call.
LEMMA FactsCreate ==
  ASSUME TypeOK, StructureInv, AssemblyFacts, JobFacts, NEW j \in Jobs, CreateStep(j)
  PROVE  AssemblyFacts' /\ JobFacts'
<1> USE TaskFacts
<1>1. CASE CommitJob(j)
  <2>1. AssemblyFacts'
    <3>1. \A t \in TasksOf(j) : asmStatus[t] = "none" /\ asmWorker[t] = NoWorker /\ report[t] = "none"
                                /\ asmRun[t] = "none" /\ post[t] = "idle"
      BY <1>1 DEF CommitJob, StructureInv, JobsMatchCalls, OneStarter, AssemblyStages, TypeOK
    <3>2. \A t \in Tasks : t \notin TasksOf(j) => jobStatus'[t[1]] = jobStatus[t[1]]
      BY <1>1 DEF CommitJob, TypeOK
    <3>3. UNCHANGED <<post, asmStatus, asmWorker, asmRun, report, registered>>
      BY <1>1 DEF CommitJob, assembleVars, registryVars
    <3> QED
      BY <3>1, <3>2, <3>3 DEF AssemblyFacts
  <2>2. JobFacts'
    BY <1>1, JobHasTask DEF CommitJob, assembleVars, JobFacts, TypeOK
  <2> QED
    BY <2>1, <2>2
<1>2. CASE ~CommitJob(j)
  <2>1. UNCHANGED <<jobStatus, taskStatus, post, asmStatus, asmWorker, asmRun, report, registered>>
    BY <1>2
    DEF CreateStep, CreateJob, ReserveSegment, GiveUpReserving, RejectJob, CommitFindsJob, ReserveSlot,
        ReleaseAll, ReleaseReservations, observed, registryVars, segmentVars, assembleVars
  <2>2. \A k \in Jobs : call'[k] \in {"idle", "exists", "rejected"} =>
          \A t \in TasksOf(k) : taskWorker'[t] = NoWorker
    <3>1. CASE CreateJob(j)
      BY <3>1 DEF CreateJob, segmentVars, JobFacts, TypeOK
    <3>2. CASE GiveUpReserving(j)
      BY <3>2 DEF GiveUpReserving, segmentVars, JobFacts, TypeOK
    <3>3. CASE RejectJob(j) \/ CommitFindsJob(j)
      BY <3>3 DEF RejectJob, CommitFindsJob, ReleaseAll, JobFacts, TypeOK
    <3>4. ASSUME NEW t \in TasksOf(j), NEW mode \in Modes, NEW w \in Workers, ReserveSegment(t, mode, w)
          PROVE  \A k \in Jobs : call'[k] \in {"idle", "exists", "rejected"} =>
                   \A u \in TasksOf(k) : taskWorker'[u] = NoWorker
      BY <3>4 DEF ReserveSegment, JobFacts, TypeOK
    <3> QED
      BY <1>2, <3>1, <3>2, <3>3, <3>4 DEF CreateStep
  <2> QED
    BY <2>1, <2>2 DEF AssemblyFacts, JobFacts
<1> QED
  BY <1>1, <1>2

\* A report on a segment: nothing of an assembly exists while a segment is open.
LEMMA FactsReport ==
  ASSUME TypeOK, StructureInv, AssemblyFacts, JobFacts, NEW t \in Tasks, SegmentReport(t)
  PROVE  AssemblyFacts' /\ JobFacts'
<1> USE TaskFacts
<1>1. \A u \in TasksOf(t[1]) : /\ asmStatus[u] = "none" /\ asmRun[u] = "none" /\ report[u] = "none"
                               /\ post[u] \notin {"await", "start_failed"} \cup Starting
  BY DEF SegmentReport, AcceptSegmentTask, CompleteSegmentTask, FailSegmentTask, StructureInv, OneStarter,
         Starter, AssemblyStages
<1>2. /\ UNCHANGED <<call, taskWorker, asmStatus, asmWorker, asmRun, report, registered>>
      /\ \A j \in Jobs : j # t[1] => jobStatus'[j] = jobStatus[j]
      /\ \A u \in Tasks : u # t => taskStatus'[u] = taskStatus[u] /\ post'[u] = post[u]
  BY DEF SegmentReport, AcceptSegmentTask, CompleteSegmentTask, FailSegmentTask, assembleVars, registryVars,
         TypeOK
<1>3. post'[t] \in {"idle", "release", "release_last"}
  BY DEF SegmentReport, AcceptSegmentTask, CompleteSegmentTask, FailSegmentTask, StructureInv, OneStarter,
         TypeOK
<1>4. AssemblyFacts'
  <2> SUFFICES ASSUME NEW u \in Tasks
               PROVE  /\ post'[u] = "await" => asmRun'[u] \in {"sent", "running", "refused", "reported"}
                      /\ post'[u] = "await" /\ asmRun'[u] # "reported" =>
                           jobStatus'[u[1]] = "assemble_assigned" /\ asmStatus'[u] = "assigned"
                      /\ post'[u] = "done" /\ asmWorker'[u] # NoWorker => asmRun'[u] \in {"running", "reported"}
                      /\ post'[u] = "done" /\ asmRun'[u] = "running" =>
                           jobStatus'[u[1]] = "assemble_running" /\ asmStatus'[u] = "running"
                      /\ post'[u] \in {"await", "done"} /\ asmRun'[u] = "reported" => report'[u] # "none"
                      /\ report'[u] # "none" => jobStatus'[u[1]] \in {"completed", "failed"}
                      /\ post'[u] \in {"unreserve", "unreserved"} => asmStatus'[u] \notin {"assigned", "running"}
                      /\ asmWorker'[u] \in registered' \cup {NoWorker}
    BY DEF AssemblyFacts
  <2>1. CASE u \in TasksOf(t[1])
    BY <1>1, <1>2, <1>3, <2>1 DEF AssemblyFacts
  <2>2. CASE u \notin TasksOf(t[1])
    BY <1>2, <2>2 DEF AssemblyFacts
  <2> QED
    BY <2>1, <2>2
<1>5. jobStatus[t[1]] # "assemble_running"
  BY <1>1 DEF JobFacts
<1>6. jobStatus'[t[1]] # "assemble_running"
  BY <1>5 DEF SegmentReport, AcceptSegmentTask, CompleteSegmentTask, FailSegmentTask, TypeOK
<1>7. jobStatus'[t[1]] \in {"segment_assigned", "segment_running"} =>
        \E u \in TasksOf(t[1]) : taskStatus'[u] # "completed"
  <2>1. CASE AcceptSegmentTask(t)
    BY <2>1 DEF AcceptSegmentTask, TypeOK
  <2>2. CASE CompleteSegmentTask(t)
    <3>1. AssembleTasksOf(t[1]) = {}
      BY <1>1 DEF AssembleTasksOf
    <3> QED
      BY <2>2, <3>1 DEF CompleteSegmentTask, AllSegmentTasksCompleted, TypeOK
  <2>3. CASE FailSegmentTask(t)
    BY <2>3 DEF FailSegmentTask, TypeOK
  <2> QED
    BY <2>1, <2>2, <2>3 DEF SegmentReport
<1>8. JobFacts'
  <2> SUFFICES ASSUME NEW j \in Jobs
               PROVE  /\ call'[j] \in {"idle", "exists", "rejected"} =>
                           \A u \in TasksOf(j) : taskWorker'[u] = NoWorker
                      /\ jobStatus'[j] \in {"segment_assigned", "segment_running"} =>
                           \E u \in TasksOf(j) : taskStatus'[u] # "completed"
                      /\ jobStatus'[j] = "assemble_running" =>
                           \E u \in TasksOf(j) : post'[u] = "done" /\ asmRun'[u] = "running"
    BY DEF JobFacts
  <2>1. CASE j = t[1]
    BY <1>2, <1>6, <1>7, <2>1 DEF JobFacts
  <2>2. CASE j # t[1]
    BY <1>2, <2>2 DEF JobFacts
  <2> QED
    BY <2>1, <2>2
<1> QED
  BY <1>4, <1>8

\* The starter of an assembly is alone with it.
LEMMA StarterAlone ==
  ASSUME TypeOK, StructureInv, NEW t \in Tasks, Starter(t), NEW u \in TasksOf(t[1]), u # t
  PROVE  /\ asmStatus[u] = "none" /\ asmRun[u] = "none" /\ report[u] = "none"
         /\ post[u] \notin {"await", "start_failed"} \cup Starting
BY TaskFacts DEF StructureInv, OneStarter, Starter, AssemblyStages

\* A job in the hands of a starter has no open segment, and an assembly runs only
\* if it is the starter's.
LEMMA StarterJob ==
  ASSUME TypeOK, StructureInv, JobFacts, NEW t \in Tasks, Starter(t)
  PROVE  /\ jobStatus[t[1]] \notin {"segment_assigned", "segment_running"}
         /\ jobStatus[t[1]] = "assemble_running" => post[t] = "done" /\ asmRun[t] = "running"
BY TaskFacts, StarterAlone DEF StructureInv, OneStarter, JobFacts

\* Steps of the goroutine of t that leave its job alone.
LEMMA FactsQuietPost ==
  ASSUME TypeOK, AssemblyFacts, JobFacts, NEW t \in Tasks, NEW p,
         UNCHANGED <<jobStatus, call, taskStatus, taskWorker, asmStatus, asmRun, report, registered>>,
         post' = [post EXCEPT ![t] = p],
         \A u \in Tasks \ {t} : asmWorker'[u] = asmWorker[u],
         asmWorker'[t] \in registered \cup {NoWorker},
         post[t] # "done", p # "await",
         p = "done" => asmWorker'[t] = NoWorker /\ asmRun[t] = "none",
         p \in {"unreserve", "unreserved"} => asmStatus[t] \notin {"assigned", "running"}
  PROVE  AssemblyFacts' /\ JobFacts'
<1>1. /\ DOMAIN post = Tasks /\ post'[t] = p
      /\ \A u \in Tasks : u # t => post'[u] = post[u] /\ asmWorker'[u] = asmWorker[u]
  BY DEF TypeOK
<1>2. AssemblyFacts'
  BY <1>1 DEF AssemblyFacts
<1>3. JobFacts'
  BY <1>1, TaskFacts DEF JobFacts
<1> QED
  BY <1>2, <1>3

\* The goroutine that finished a segment and may start the assembly.
LEMMA FactsPost ==
  ASSUME TypeOK, StructureInv, AssemblyFacts, JobFacts, NEW t \in Tasks, PostStep(t)
  PROVE  AssemblyFacts' /\ JobFacts'
<1> USE TaskFacts
<1>t. /\ DOMAIN post = Tasks /\ DOMAIN asmWorker = Tasks /\ DOMAIN asmStatus = Tasks /\ DOMAIN asmRun = Tasks
      /\ DOMAIN jobStatus = Jobs /\ t[1] \in Jobs /\ asmWorker[t] \in registered \cup {NoWorker}
  BY DEF TypeOK, AssemblyFacts
<1>1. CASE ReleaseSegmentSlot(t)
  <2>1. asmWorker[t] = NoWorker /\ asmRun[t] = "none"
    BY <1>1 DEF ReleaseSegmentSlot, StructureInv, AssemblyStages
  <2> QED
    BY <1>1, <1>t, <2>1, FactsQuietPost
    DEF ReleaseSegmentSlot, ReleaseReservations, observed, segmentVars, assembleVars
<1>2. CASE SnapshotSegments(t)
  <2>1. asmWorker[t] = NoWorker /\ asmRun[t] = "none"
    BY <1>2 DEF SnapshotSegments, StructureInv, AssemblyStages
  <2> QED
    BY <1>2, <1>t, <2>1, FactsQuietPost DEF SnapshotSegments, registryVars, segmentVars, assembleVars
<1>3. ASSUME NEW need \in DiskNeeds, NEW w \in Workers, PickAssembleWorker(t, need, w)
      PROVE  AssemblyFacts' /\ JobFacts'
  <2>1. w \in registered
    BY <1>3 DEF PickAssembleWorker, IsDiskChoice, HasRoom, Candidates, TypeOK, RegistryTypeOK
  <2>2. /\ UNCHANGED <<jobStatus, call, taskStatus, taskWorker, asmStatus, asmRun, report, registered>>
        /\ post' = [post EXCEPT ![t] = "insert"] /\ asmWorker' = [asmWorker EXCEPT ![t] = w]
        /\ post[t] = "pick"
    BY <1>3 DEF PickAssembleWorker, ReserveSlotAndDisk, observed, segmentVars
  <2> QED
    BY <1>t, <2>1, <2>2, FactsQuietPost
<1>4. ASSUME NEW need \in DiskNeeds, NoAssembleWorker(t, need) PROVE AssemblyFacts' /\ JobFacts'
  BY <1>4, <1>t, FactsQuietPost DEF NoAssembleWorker, registryVars, segmentVars, assembleVars
<1>5. CASE AssembleIDError(t)
  <2>1. /\ UNCHANGED <<jobStatus, call, taskStatus, taskWorker, asmStatus, asmRun, report, registered>>
        /\ post' = [post EXCEPT ![t] = "fail_job"] /\ asmWorker' = [asmWorker EXCEPT ![t] = NoWorker]
        /\ post[t] = "insert"
    BY <1>5 DEF AssembleIDError, ReleaseReservation, observed, segmentVars
  <2> QED
    BY <1>t, <2>1, FactsQuietPost
<1>6. CASE StartRefused(t) \/ \E disk \in HeartbeatDisks : StartRefusedForStorage(t, disk)
  <2>1. /\ UNCHANGED <<jobStatus, call, taskStatus, taskWorker, asmStatus, asmWorker, asmRun, report, registered>>
        /\ post' = [post EXCEPT ![t] = "start_failed"] /\ post[t] = "await"
    BY <1>6
    DEF StartRefused, StartRefusedForStorage, UpdateWorkerObservedDiskFree, registryVars, segmentVars,
        assembleVars
  <2> QED
    BY <1>t, <2>1, FactsQuietPost
<1>7. CASE StartAnswerLost(t)
  BY <1>7, <1>t, FactsQuietPost DEF StartAnswerLost, registryVars, segmentVars, assembleVars
<1>8. CASE ReleaseAssembleStart(t)
  <2>1. /\ UNCHANGED <<jobStatus, call, taskStatus, taskWorker, asmStatus, asmWorker, asmRun, report, registered>>
        /\ post' = [post EXCEPT ![t] = "unreserved"] /\ post[t] = "unreserve"
    BY <1>8 DEF ReleaseAssembleStart, ReleaseReservation, observed, segmentVars, assembleVars
  <2>2. asmStatus[t] \notin {"assigned", "running"}
    BY <2>1 DEF AssemblyFacts
  <2> QED
    BY <1>t, <2>1, <2>2, FactsQuietPost
<1>9. CASE StartUndelivered(t)
  <2>1. /\ UNCHANGED <<jobStatus, call, taskStatus, taskWorker, asmStatus, asmWorker, report, registered>>
        /\ post' = [post EXCEPT ![t] = "start_failed"] /\ asmRun' = [asmRun EXCEPT ![t] = "dropped"]
        /\ post[t] = "await"
    BY <1>9 DEF StartUndelivered, registryVars, segmentVars
  <2>2. AssemblyFacts'
    BY <1>t, <2>1 DEF AssemblyFacts
  <2>3. JobFacts'
    BY <1>t, <2>1 DEF JobFacts
  <2> QED
    BY <2>2, <2>3
<1>10. ASSUME NEW s, NEW p, Starter(t),
              UNCHANGED <<call, taskStatus, taskWorker, asmWorker, report, registered>>,
              jobStatus' = [jobStatus EXCEPT ![t[1]] = s], post' = [post EXCEPT ![t] = p],
              \A u \in Tasks \ {t} : asmStatus'[u] = asmStatus[u] /\ asmRun'[u] = asmRun[u],
              /\ p = "await" => asmRun'[t] \in {"sent", "running", "refused", "reported"}
              /\ p = "await" /\ asmRun'[t] # "reported" => s = "assemble_assigned" /\ asmStatus'[t] = "assigned"
              /\ p = "done" /\ asmWorker[t] # NoWorker => asmRun'[t] \in {"running", "reported"}
              /\ p = "done" /\ asmRun'[t] = "running" => s = "assemble_running" /\ asmStatus'[t] = "running"
              /\ p \in {"await", "done"} /\ asmRun'[t] = "reported" => report[t] # "none"
              /\ report[t] # "none" => s \in {"completed", "failed"}
              /\ p \in {"unreserve", "unreserved"} => asmStatus'[t] \notin {"assigned", "running"}
              /\ s \notin {"segment_assigned", "segment_running"}
              /\ s = "assemble_running" => p = "done" /\ asmRun'[t] = "running"
       PROVE  AssemblyFacts' /\ JobFacts'
  <2>1. /\ post'[t] = p /\ jobStatus'[t[1]] = s
        /\ \A u \in Tasks : u # t => post'[u] = post[u]
        /\ \A j \in Jobs : j # t[1] => jobStatus'[j] = jobStatus[j]
    BY <1>10, <1>t
  <2>2. ASSUME NEW u \in Tasks, u # t, u[1] = t[1]
        PROVE  /\ asmStatus[u] = "none" /\ asmRun[u] = "none" /\ report[u] = "none"
               /\ post[u] \notin {"await", "start_failed"}
    BY <1>10, <2>2, StarterAlone
  <2>3. AssemblyFacts'
    <3> SUFFICES ASSUME NEW u \in Tasks
                 PROVE  /\ post'[u] = "await" => asmRun'[u] \in {"sent", "running", "refused", "reported"}
                        /\ post'[u] = "await" /\ asmRun'[u] # "reported" =>
                             jobStatus'[u[1]] = "assemble_assigned" /\ asmStatus'[u] = "assigned"
                        /\ post'[u] = "done" /\ asmWorker'[u] # NoWorker =>
                             asmRun'[u] \in {"running", "reported"}
                        /\ post'[u] = "done" /\ asmRun'[u] = "running" =>
                             jobStatus'[u[1]] = "assemble_running" /\ asmStatus'[u] = "running"
                        /\ post'[u] \in {"await", "done"} /\ asmRun'[u] = "reported" => report'[u] # "none"
                        /\ report'[u] # "none" => jobStatus'[u[1]] \in {"completed", "failed"}
                        /\ post'[u] \in {"unreserve", "unreserved"} =>
                             asmStatus'[u] \notin {"assigned", "running"}
                        /\ asmWorker'[u] \in registered' \cup {NoWorker}
      BY DEF AssemblyFacts
    <3>1. CASE u = t
      BY <1>10, <1>t, <2>1, <3>1
    <3>2. CASE u # t /\ u[1] = t[1]
      BY <1>10, <2>1, <2>2, <3>2 DEF AssemblyFacts
    <3>3. CASE u[1] # t[1]
      BY <1>10, <2>1, <3>3 DEF AssemblyFacts
    <3> QED
      BY <3>1, <3>2, <3>3
  <2>4. JobFacts'
    <3> SUFFICES ASSUME NEW j \in Jobs
                 PROVE  /\ call'[j] \in {"idle", "exists", "rejected"} =>
                             \A u \in TasksOf(j) : taskWorker'[u] = NoWorker
                        /\ jobStatus'[j] \in {"segment_assigned", "segment_running"} =>
                             \E u \in TasksOf(j) : taskStatus'[u] # "completed"
                        /\ jobStatus'[j] = "assemble_running" =>
                             \E u \in TasksOf(j) : post'[u] = "done" /\ asmRun'[u] = "running"
      BY DEF JobFacts
    <3>1. CASE j = t[1]
      BY <1>10, <2>1, <3>1 DEF JobFacts
    <3>2. CASE j # t[1]
      <4>1. \A u \in TasksOf(j) : u \in Tasks \ {t}
        BY <3>2
      <4> QED
        BY <1>10, <2>1, <3>2, <4>1 DEF JobFacts
    <3> QED
      BY <3>1, <3>2
  <2> QED
    BY <2>3, <2>4
<1>11. CASE MarkJobFailed(t)
  <2>1. Starter(t) /\ asmWorker[t] = NoWorker /\ asmRun[t] = "none" /\ report[t] = "none"
    BY <1>11 DEF MarkJobFailed, Starter, Starting, StructureInv, AssemblyStages
  <2> QED
    BY <1>10, <1>11, <2>1 DEF MarkJobFailed, registryVars, segmentVars, assembleVars
<1>12. CASE InsertAssembleTask(t)
  <2>1. Starter(t) /\ asmStatus[t] = "none" /\ report[t] = "none"
    BY <1>12 DEF InsertAssembleTask, Starter, Starting, StructureInv, AssemblyStages
  <2>2. CASE jobStatus[t[1]] = "segment_completed"
    <3>1. /\ UNCHANGED <<call, taskStatus, taskWorker, asmWorker, report, registered>>
          /\ asmStatus' = [asmStatus EXCEPT ![t] = "assigned"] /\ asmRun' = [asmRun EXCEPT ![t] = "sent"]
          /\ jobStatus' = [jobStatus EXCEPT ![t[1]] = "assemble_assigned"]
          /\ post' = [post EXCEPT ![t] = "await"]
      BY <1>12, <2>2 DEF InsertAssembleTask, registryVars, segmentVars
    <3> QED
      BY <1>10, <1>t, <2>1, <3>1
  <2>3. CASE jobStatus[t[1]] # "segment_completed"
    <3>1. /\ UNCHANGED <<jobStatus, call, taskStatus, taskWorker, asmStatus, asmWorker, asmRun, report, registered>>
          /\ post' = [post EXCEPT ![t] = "unreserve"] /\ post[t] = "insert"
      BY <1>12, <2>3 DEF InsertAssembleTask, registryVars, segmentVars
    <3> QED
      BY <1>t, <2>1, <3>1, FactsQuietPost
  <2> QED
    BY <2>2, <2>3
<1>13. CASE StartAccepted(t)
  <2> DEFINE s == IF jobStatus[t[1]] = "assemble_assigned" THEN "assemble_running" ELSE jobStatus[t[1]]
  <2>1. /\ UNCHANGED <<call, taskStatus, taskWorker, asmWorker, asmRun, report, registered>>
        /\ asmStatus' = [asmStatus EXCEPT ![t] = IF @ = "assigned" THEN "running" ELSE @]
        /\ jobStatus' = [jobStatus EXCEPT ![t[1]] = s]
        /\ post' = [post EXCEPT ![t] = "done"] /\ post[t] = "await" /\ asmRun[t] \in {"running", "reported"}
    BY <1>13, <1>t DEF StartAccepted, registryVars, segmentVars
  <2>2. Starter(t)
    BY <2>1 DEF Starter, StructureInv, AssemblyStages
  <2>3. /\ asmRun[t] = "running" => s = "assemble_running" /\ asmStatus'[t] = "running"
        /\ asmRun[t] = "reported" => report[t] # "none"
        /\ report[t] # "none" => s \in {"completed", "failed"}
    BY <1>t, <2>1 DEF AssemblyFacts
  <2>4. /\ s \notin {"segment_assigned", "segment_running"}
        /\ s = "assemble_running" => asmRun[t] = "running"
    <3>1. /\ jobStatus[t[1]] \notin {"segment_assigned", "segment_running"}
          /\ jobStatus[t[1]] = "assemble_running" => post[t] = "done" /\ asmRun[t] = "running"
      BY <2>2, StarterJob
    <3> QED
      BY <2>1, <2>3, <3>1
  <2> HIDE DEF s
  <2> QED
    BY <1>10, <1>t, <2>1, <2>2, <2>3, <2>4
<1>14. CASE MarkAssembleStartFailed(t)
  <2>1. Starter(t)
    BY <1>14 DEF MarkAssembleStartFailed, Starter, StructureInv, AssemblyStages
  <2>2. /\ UNCHANGED <<call, taskStatus, taskWorker, asmWorker, asmRun, report, registered>>
        /\ jobStatus' = [jobStatus EXCEPT ![t[1]] = "failed"]
        /\ post' = [post EXCEPT ![t] = "unreserve"]
        /\ asmStatus'[t] \notin {"assigned", "running"}
        /\ \A u \in Tasks \ {t} : asmStatus'[u] = asmStatus[u] /\ asmRun'[u] = asmRun[u]
    BY <1>14, <1>t DEF MarkAssembleStartFailed, registryVars, segmentVars
  <2> DEFINE s == "failed"
             p == "unreserve"
  <2>3. /\ jobStatus' = [jobStatus EXCEPT ![t[1]] = s] /\ post' = [post EXCEPT ![t] = p]
        /\ s \notin {"segment_assigned", "segment_running", "assemble_running"}
        /\ s \in {"completed", "failed"} /\ p \notin {"await", "done"}
    BY <2>2
  <2> HIDE DEF s, p
  <2> QED
    BY <1>10, <2>1, <2>2, <2>3
<1> QED
  BY <1>1, <1>2, <1>3, <1>4, <1>5, <1>6, <1>7, <1>8, <1>9, <1>11, <1>12, <1>13, <1>14 DEF PostStep

\* The run on the worker and its report.
LEMMA FactsRun ==
  ASSUME TypeOK, StructureInv, AssemblyFacts, JobFacts, NEW t \in Tasks,
         AssembleRun(t) \/ ReleaseAssembleReport(t)
  PROVE  AssemblyFacts' /\ JobFacts'
<1> USE TaskFacts
<1>t. /\ DOMAIN asmStatus = Tasks /\ DOMAIN asmRun = Tasks /\ DOMAIN report = Tasks
      /\ DOMAIN jobStatus = Jobs /\ t[1] \in Jobs
  BY DEF TypeOK
<1>1. CASE WorkerStartsAssemble(t) \/ WorkerRefusesAssemble(t)
  <2>1. PICK r \in {"running", "refused"} : asmRun' = [asmRun EXCEPT ![t] = r]
    BY <1>1 DEF WorkerStartsAssemble, WorkerRefusesAssemble
  <2>2. /\ UNCHANGED <<jobStatus, call, taskStatus, taskWorker, post, asmStatus, asmWorker, report, registered>>
        /\ asmRun[t] = "sent"
    BY <1>1 DEF WorkerStartsAssemble, WorkerRefusesAssemble, registryVars, segmentVars
  <2>3. post[t] # "done"
    BY <2>2, RegistryAssumption DEF AssemblyFacts, StructureInv, AssemblyStages
  <2>4. AssemblyFacts'
    BY <1>t, <2>1, <2>2, <2>3 DEF AssemblyFacts
  <2>5. JobFacts'
    BY <1>t, <2>1, <2>2 DEF JobFacts
  <2> QED
    BY <2>4, <2>5
<1>2. ASSUME NEW u \in Tasks, NEW outcome \in {"completed", "failed"}, FinishAssemble(t, u, outcome)
      PROVE  AssemblyFacts' /\ JobFacts'
  <2>1. u = t
    BY <1>2, FinishTarget DEF FinishAssemble
  <2>2. /\ asmStatus' = [asmStatus EXCEPT ![t] = outcome] /\ asmRun' = [asmRun EXCEPT ![t] = "reported"]
        /\ jobStatus' = [jobStatus EXCEPT ![t[1]] = outcome] /\ report' = [report EXCEPT ![t] = "release"]
        /\ UNCHANGED <<call, taskStatus, taskWorker, post, asmWorker, registered>>
    BY <1>2, <2>1 DEF FinishAssemble, registryVars, segmentVars
  <2>3. Starter(t)
    BY <1>2 DEF FinishAssemble, Starter, StructureInv, AssemblyStages
  <2>4. ASSUME NEW v \in Tasks, v # t, v[1] = t[1]
        PROVE  /\ asmStatus[v] = "none" /\ asmRun[v] = "none" /\ report[v] = "none"
               /\ post[v] \notin {"await", "start_failed"}
    BY <2>3, <2>4, StarterAlone
  <2>5. AssemblyFacts'
    BY <1>t, <2>2, <2>4 DEF AssemblyFacts
  <2>6. JobFacts'
    <3>1. \A j \in Jobs : j # t[1] => t \notin TasksOf(j) /\ jobStatus'[j] = jobStatus[j]
      BY <1>t, <2>2
    <3>2. jobStatus'[t[1]] = outcome /\ \A v \in Tasks : v # t => asmRun'[v] = asmRun[v]
      BY <1>t, <2>2
    <3> QED
      BY <2>2, <3>1, <3>2 DEF JobFacts
  <2> QED
    BY <2>5, <2>6
<1>3. CASE RejectAssembleReport(t)
  <2>1. /\ UNCHANGED <<jobStatus, call, taskStatus, taskWorker, post, asmStatus, asmWorker, report, registered>>
        /\ asmRun' = [asmRun EXCEPT ![t] = "reported"] /\ asmRun[t] = "running"
    BY <1>3 DEF RejectAssembleReport, registryVars, segmentVars
  <2>2. ~AssembleCompletionTarget(t[1], asmWorker[t], t)
    BY <1>3 DEF RejectAssembleReport
  <2>3. post[t] \notin {"await", "done"}
    BY <2>1, <2>2 DEF AssemblyFacts, AssembleCompletionTarget, AssembleTasksOf
  <2>4. AssemblyFacts'
    BY <1>t, <2>1, <2>3 DEF AssemblyFacts
  <2>5. JobFacts'
    BY <1>t, <2>1, <2>3 DEF JobFacts
  <2> QED
    BY <2>4, <2>5
<1>4. CASE ReleaseAssembleReport(t)
  <2>1. /\ UNCHANGED <<jobStatus, call, taskStatus, taskWorker, post, asmStatus, asmWorker, asmRun, registered>>
        /\ report' = [report EXCEPT ![t] = "released"] /\ report[t] = "release"
    BY <1>4 DEF ReleaseAssembleReport, ReleaseReservation, observed, segmentVars
  <2> QED
    BY <1>t, <2>1 DEF AssemblyFacts, JobFacts
<1> QED
  BY <1>1, <1>2, <1>3, <1>4 DEF AssembleRun, CompleteAssembleJob, FailAssembleJob

\* In every state an unfinished job has an open segment or an assembly on its way, and an
\* assembly that was handed over runs on its worker or has been reported.
THEOREM JobsAreCarriedOn == Spec => [](AssemblyFacts /\ JobFacts)
<1>1. Init => AssemblyFacts /\ JobFacts
  BY TaskFacts DEF Init, RegistryInit, AssemblyFacts, JobFacts
<1>2. TypeOK /\ StructureInv /\ AssemblyFacts /\ JobFacts /\ [Next]_vars => AssemblyFacts' /\ JobFacts'
  <2> SUFFICES ASSUME TypeOK, StructureInv, AssemblyFacts, JobFacts, [Next]_vars
               PROVE  AssemblyFacts' /\ JobFacts'
    OBVIOUS
  <2>1. CASE \/ \E w \in Workers, offer \in Offers : RegisterWorker(w, offer) /\ UNCHANGED managerVars
             \/ \E w \in Workers, disk \in HeartbeatDisks : HeartbeatWorker(w, disk) /\ UNCHANGED managerVars
             \/ \E stale \in SUBSET online : MarkExpiredWorkers(stale) /\ UNCHANGED managerVars
             \/ RefreshBackpressureStatus /\ UNCHANGED managerVars
             \/ UNCHANGED vars
    <3>1. registered \subseteq registered' /\ UNCHANGED managerVars
      BY <2>1
      DEF vars, registryVars, RegisterWorker, HeartbeatWorker, MarkExpiredWorkers, RefreshBackpressureStatus,
          observed
    <3> QED
      BY <3>1, FactsFrame
  <2> QED
    BY <2>1, FactsCreate, FactsReport, FactsPost, FactsRun DEF Next
<1> QED
  BY <1>1, <1>2, StructureInvariant, PTL DEF Spec
=============================================================================
