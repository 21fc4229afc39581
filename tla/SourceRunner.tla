---------------------------- MODULE SourceRunner ----------------------------
(***************************************************************************)
(* The source side of a worker on top of its engine pool: a goroutine that *)
(* scans the input directory and one that takes a video, splits it on an   *)
(* engine, tries to lease an engine for each segment, creates the job at   *)
(* Entry and dispatches the segments.  Handlers of segments and assemblies *)
(* that other workers sent to this one compete for the same engines.       *)
(*                                                                         *)
(* Of Entry the model keeps which videos it has a job for, and how far     *)
(* their tasks got.  HTTP calls fail in the ways Faults allows.            *)
(***************************************************************************)
EXTENDS EnginePool

CONSTANTS
  Videos,          \* files of the input directory
  SegmentCount,    \* segments C++ splits a video into
  Attempts,        \* len(createJobRetryDelays) + 1
  Uploads,         \* background goroutines of the worker's own handlers
  Faults           \* which calls may fail half way

NoVideo == 0
Segments == 0 .. SegmentCount - 1
Split == <<"split", 0, 0>>                      \* splitVideo's lease
Segment(v, i) == <<"segment", v, i>>            \* internalWork[i].lease
Upload(k) == <<"upload", k, 0>>
SegmentLeases == {Segment(v, i) : v \in Videos, i \in Segments}
UploadLeases == {Upload(k) : k \in Uploads}
FaultKinds == {"create_answer", "upload", "report"}

ASSUME RunnerAssumption ==
  /\ IsFiniteSet(Videos) /\ NoVideo \notin Videos
  /\ SegmentCount \in Nat \ {0}
  /\ Attempts \in Nat \ {0}
  /\ Faults \subseteq FaultKinds
  /\ Holders = {Split} \cup SegmentLeases \cup UploadLeases

VARIABLES
  pendingSplit,    \* SUBSET Videos
  done,            \* SUBSET Videos
  active,          \* the video processOne works on, or NoVideo
  pc,              \* where processOne is
  seg,             \* the segment its loop is at
  attempt,         \* the attempt createJobWithRetry is at
  backpressure,    \* what the last heartbeat brought
  known,           \* videos Entry has a job for
  task,            \* [Videos -> [Segments -> TaskPoints]], as Entry knows them
  answer           \* [Videos -> Answers]: what createJobWithRetry returned

queueVars == <<pendingSplit, done, backpressure>>
entryVars == <<known, task>>
runnerVars == <<queueVars, active, pc, seg, attempt, entryVars, answer>>
vars == <<poolVars, runnerVars>>

PCs == {"idle", "split_ask", "split_wait", "splitting", "requeue", "plan", "try_slot", "create",
        "dispatch", "processing", "reported", "finish", "return"}
TaskPoints == {"none", "assigned", "uploaded", "reported"}
Answers == {"none", "created", "exists", "abandoned"}

RunnerTypeOK ==
  /\ pendingSplit \subseteq Videos
  /\ done \subseteq Videos
  /\ active \in Videos \cup {NoVideo}
  /\ pc \in PCs
  /\ pc # "idle" => active \in Videos
  /\ seg \in 0 .. SegmentCount
  /\ pc \in {"try_slot", "processing", "reported"} => seg \in Segments
  /\ attempt \in 1 .. Attempts
  /\ backpressure \in BOOLEAN
  /\ known \subseteq Videos
  /\ task \in [Videos -> [Segments -> TaskPoints]]
  /\ answer \in [Videos -> Answers]

TypeOK == PoolTypeOK /\ RunnerTypeOK

Init ==
  /\ PoolInit
  /\ pendingSplit = {} /\ done = {}
  /\ active = NoVideo /\ pc = "idle" /\ seg = 0 /\ attempt = 1
  /\ backpressure = FALSE
  /\ known = {}
  /\ task = [v \in Videos |-> [i \in Segments |-> "none"]]
  /\ answer = [v \in Videos |-> "none"]

\* The runner is between two calls into the pool, not in one.
Settled == \A h \in {Split} \cup SegmentLeases : at[h] \in {"none", "held", "released"}

Current == Segment(active, seg)
HeldFor(v) == {i \in Segments : at[Segment(v, i)] = "held"}

\* The runner goes from one point to another and touches nothing else of its own.
Goto(from, to) ==
  /\ pc = from
  /\ Settled
  /\ pc' = to
  /\ UNCHANGED <<queueVars, active, attempt, entryVars, answer>>

-----------------------------------------------------------------------------
(* The queue. *)

\* scan calls enqueueSourceVideo for one file after the other, every interval;
\* the agent starts the pool long before the runner.
EnqueueSourceVideo(v) ==
  /\ pool = "started"
  /\ v \notin done
  /\ v \notin pendingSplit
  /\ pendingSplit' = pendingSplit \cup {v}
  /\ UNCHANGED <<poolVars, done, backpressure, active, pc, seg, attempt, entryVars, answer>>

\* The heartbeat loop stores what Entry answered.
SetBackpressure ==
  /\ backpressure' = ~backpressure
  /\ UNCHANGED <<poolVars, pendingSplit, done, active, pc, seg, attempt, entryVars, answer>>

PopPendingSplit(v) ==
  /\ pc = "idle"
  /\ ~backpressure
  /\ v \in pendingSplit
  /\ pendingSplit' = pendingSplit \ {v}
  /\ active' = v
  /\ pc' = "split_ask"
  /\ UNCHANGED <<poolVars, done, backpressure, seg, attempt, entryVars, answer>>

RequeuePendingSplit ==
  /\ pc = "requeue"
  /\ Settled
  /\ pendingSplit' = IF active \in done THEN pendingSplit ELSE pendingSplit \cup {active}
  /\ active' = NoVideo
  /\ pc' = "idle"
  /\ UNCHANGED <<poolVars, done, backpressure, seg, attempt, entryVars, answer>>

\* A slip: the video a scan queued again meanwhile stays queued.
MarkDoneKeepsPending ==
  /\ pc = "finish" \/ (pc = "return" /\ HeldFor(active) = {})
  /\ Settled
  /\ done' = done \cup {active}
  /\ active' = NoVideo
  /\ pc' = "idle"
  /\ UNCHANGED <<poolVars, pendingSplit, backpressure, seg, attempt, entryVars, answer>>

\* registerAndDispatch has returned, the deferred releases included.
MarkDone ==
  /\ pc = "finish" \/ (pc = "return" /\ HeldFor(active) = {})
  /\ Settled
  /\ pendingSplit' = pendingSplit \ {active}
  /\ done' = done \cup {active}
  /\ active' = NoVideo
  /\ pc' = "idle"
  /\ UNCHANGED <<poolVars, backpressure, seg, attempt, entryVars, answer>>

-----------------------------------------------------------------------------
(* splitVideo. *)

AcquireForSplit == Goto("split_ask", "split_wait") /\ Acquire(Split) /\ UNCHANGED seg

SplitSlotRefused ==
  /\ pc = "split_wait"
  /\ CancelAcquire(Split)
  /\ pc' = "requeue"
  /\ UNCHANGED <<queueVars, active, seg, attempt, entryVars, answer>>

CallSplit ==
  /\ Goto("split_wait", "splitting")
  /\ at[Split] = "held"
  /\ MarkExecuting(Split)
  /\ UNCHANGED seg

\* Segments, or an error; the lease is released either way.
EndSplit(to) ==
  /\ to \in {"plan", "requeue"}
  /\ Goto("splitting", to)
  /\ Release(Split)
  /\ seg' = 0

-----------------------------------------------------------------------------
(* registerAndDispatch: the plan. *)

\* A slip in the plan: the runner waits for an engine for each segment.
PlanSegmentWaits ==
  /\ seg \in Segments
  /\ Goto("plan", "try_slot")
  /\ Acquire(Current)
  /\ UNCHANGED seg

PlanSegment ==
  /\ seg \in Segments
  /\ Goto("plan", "try_slot")
  /\ TryAcquire(Current)
  /\ UNCHANGED seg

\* With a lease the segment is internal, without one external.
SegmentPlanned ==
  /\ Goto("try_slot", "plan")
  /\ seg' = seg + 1
  /\ UNCHANGED poolVars

PlanCompleted ==
  /\ pc = "plan" /\ seg = SegmentCount
  /\ Settled
  /\ pc' = "create"
  /\ attempt' = 1
  /\ UNCHANGED <<poolVars, queueVars, active, seg, entryVars, answer>>

-----------------------------------------------------------------------------
(* createJobWithRetry. *)

\* Entry's part: a job it has is not created a second time.
EntryCreates ==
  /\ known' = known \cup {active}
  /\ task' = [task EXCEPT ![active] =
       IF active \in known THEN @ ELSE [i \in Segments |-> "assigned"]]

\* The answer lists the assignments only when this call created the job.
CreateAnswered ==
  /\ pc = "create"
  /\ EntryCreates
  /\ answer' = [answer EXCEPT ![active] = IF active \in known THEN "exists" ELSE "created"]
  /\ seg' = IF active \in known THEN SegmentCount ELSE 0
  /\ pc' = "dispatch"
  /\ UNCHANGED <<poolVars, queueVars, active, attempt>>

\* A slip in the loop's bound: one attempt too many.
RetryOnceMore ==
  \/ /\ attempt <= Attempts
     /\ attempt' = attempt + 1
     /\ UNCHANGED <<pc, answer>>
  \/ /\ pc' = "return"
     /\ answer' = [answer EXCEPT ![active] = "abandoned"]
     /\ UNCHANGED attempt

\* The next attempt, or none any more: the last one failed or the context ended.
RetryOrAbandon ==
  \/ /\ attempt < Attempts
     /\ attempt' = attempt + 1
     /\ UNCHANGED <<pc, answer>>
  \/ /\ pc' = "return"
     /\ answer' = [answer EXCEPT ![active] = "abandoned"]
     /\ UNCHANGED attempt

CreateAnswerLost ==
  /\ "create_answer" \in Faults
  /\ pc = "create"
  /\ EntryCreates
  /\ RetryOrAbandon
  /\ UNCHANGED <<poolVars, queueVars, active, seg>>

CreateFails ==
  /\ pc = "create"
  /\ RetryOrAbandon
  /\ UNCHANGED <<poolVars, queueVars, active, seg, entryVars>>

-----------------------------------------------------------------------------
(* registerAndDispatch: the assignments, in order. *)

TaskBecomes(point) ==
  /\ task' = [task EXCEPT ![active][seg] = point]
  /\ UNCHANGED known

ProcessInternalSegment ==
  /\ seg \in Segments
  /\ Goto("dispatch", "processing")
  /\ at[Current] = "held"
  /\ MarkExecuting(Current)
  /\ UNCHANGED seg

\* Completed or failed; a report that does not arrive is not repeated.
ReportInternalSegment ==
  /\ pc = "processing"
  /\ Settled
  /\ \/ TaskBecomes("reported")
     \/ "report" \in Faults /\ UNCHANGED entryVars
  /\ pc' = "reported"
  /\ UNCHANGED <<poolVars, queueVars, active, seg, attempt, answer>>

ReleaseInternalSegment ==
  /\ Goto("reported", "dispatch")
  /\ Release(Current)
  /\ seg' = seg + 1

UploadSegment(point, next) ==
  /\ pc = "dispatch" /\ seg \in Segments
  /\ Settled
  /\ at[Current] # "held"
  /\ TaskBecomes(point)
  /\ pc' = next
  /\ seg' = IF next = "dispatch" THEN seg + 1 ELSE seg
  /\ UNCHANGED <<poolVars, queueVars, active, attempt, answer>>

\* The peer accepted the segment; or it refused it and told Entry; or it cannot
\* be reached, or the answer is lost: the runner returns, and the assignments
\* that follow are not dispatched.
UploadAccepted == UploadSegment("uploaded", "dispatch")
UploadRefused == UploadSegment("reported", "return")
UploadFails == "upload" \in Faults /\ UploadSegment("assigned", "return")
UploadAnswerLost == "upload" \in Faults /\ UploadSegment("uploaded", "return")

\* releaseInternalWork = false: the deferred release finds nothing to do.
DispatchCompleted ==
  /\ seg = SegmentCount
  /\ Goto("dispatch", "finish")
  /\ UNCHANGED <<poolVars, seg>>

\* A slip: an early return keeps the leases of the segments not dispatched.
DeferredReleaseSkipped(i) ==
  /\ pc = "return"
  /\ Settled
  /\ i \in HeldFor(active)
  /\ pc' = "finish"
  /\ UNCHANGED <<poolVars, queueVars, active, seg, attempt, entryVars, answer>>

DeferredRelease(i) ==
  /\ pc = "return"
  /\ Settled
  /\ i \in HeldFor(active)
  /\ Release(Segment(active, i))
  /\ UNCHANGED runnerVars

-----------------------------------------------------------------------------
(* The rest of the world. *)

\* A peer that took a segment processes it and reports, if the report arrives.
PeerReports(v, i) ==
  /\ task[v][i] = "uploaded"
  /\ task' = [task EXCEPT ![v][i] = "reported"]
  /\ UNCHANGED <<poolVars, queueVars, active, pc, seg, attempt, known, answer>>

\* processUploadedSegment and runAssembleGIF: lease, call, release.
UploadedSegment(h) ==
  /\ Acquire(h) \/ (at[h] = "held" /\ MarkExecuting(h)) \/ Release(h)
  /\ UNCHANGED runnerVars

SplitStep ==
  \/ AcquireForSplit
  \/ SplitSlotRefused
  \/ CallSplit
  \/ \E to \in {"plan", "requeue"} : EndSplit(to)
  \/ RequeuePendingSplit

DispatchStep ==
  \/ PlanSegment
  \/ SegmentPlanned
  \/ PlanCompleted
  \/ CreateAnswered
  \/ CreateAnswerLost
  \/ CreateFails
  \/ ProcessInternalSegment
  \/ ReportInternalSegment
  \/ ReleaseInternalSegment
  \/ UploadAccepted
  \/ UploadRefused
  \/ UploadFails
  \/ UploadAnswerLost
  \/ DispatchCompleted
  \/ \E i \in Segments : DeferredRelease(i)
  \/ MarkDone

Next ==
  \/ StartPool /\ UNCHANGED runnerVars
  \/ \E h \in Holders : HolderStep(h) /\ UNCHANGED runnerVars
  \/ \E e \in Engines : ChildDies(e) /\ UNCHANGED runnerVars
  \/ \E h \in UploadLeases : UploadedSegment(h)
  \/ \E v \in Videos : EnqueueSourceVideo(v)
  \/ SetBackpressure
  \/ \E v \in Videos : PopPendingSplit(v)
  \/ SplitStep
  \/ DispatchStep
  \/ \E v \in Videos, i \in Segments : PeerReports(v, i)

Spec == Init /\ [][Next]_vars

(***************************************************************************)
(* Fairness, as in the pool: goroutines go on, HTTP calls have a timeout   *)
(* of their own, a channel is first come first served, a handler that has  *)
(* a lease gives it back, a peer that took a segment reports on it.        *)
(* Nothing says that a split succeeds, that a scan or a pop happens, or    *)
(* that backpressure ends.                                                 *)
(***************************************************************************)
Fairness ==
  /\ \A h \in Holders : SF_vars(Receive(h) /\ UNCHANGED runnerVars)
  /\ \A h \in Holders : WF_vars(HolderStep(h) /\ UNCHANGED runnerVars)
  /\ \A h \in UploadLeases : SF_vars(Release(h) /\ UNCHANGED runnerVars)
  /\ WF_vars(SplitStep)
  /\ WF_vars(DispatchStep)
  /\ \A v \in Videos, i \in Segments : WF_vars(PeerReports(v, i))

FairSpec == Spec /\ Fairness

-----------------------------------------------------------------------------
(* Properties. *)

\* A video that was handled is never taken up again, although scans keep finding
\* its file and queue it again while it is being processed.
HandledOnce == [][\A v \in Videos : v \in done => active' # v]_vars

\* Between two videos the runner holds no engine, whatever way processOne ended:
\* a refused slot, a failed split, a refused plan, an upload error half way.  The
\* split's engine is on its way back as soon as splitVideo has returned, so the
\* plan can lease it.  The one exception is a job Entry had already: its answer
\* has no assignments, and the engines leased for them are never released.
LeasesReturned ==
  /\ \A v \in Videos :
       HeldFor(v) # {} /\ (active # v) => answer[v] = "exists" /\ v \in done
  /\ pc \notin {"split_wait", "splitting"} => at[Split] \in {"none", "sending", "released"}
  /\ active = NoVideo => at[Split] # "sending"

-----------------------------------------------------------------------------
(* The invariants behind the two: where a video is, and how far the leases  *)
(* for its segments and for the split can be at each point of processOne.   *)

QueueInv == \A v \in done : v \notin pendingSplit /\ active # v

Over == {"none", "released"}

LeaseStage(v, p, i) ==
  /\ active # v /\ v \notin done => p = "none"
  /\ active # v => p \in Over \/ (p = "held" /\ answer[v] = "exists" /\ v \in done)
  /\ active = v /\ pc \in {"split_ask", "split_wait", "splitting", "requeue"} => p = "none"
  /\ active = v /\ pc = "plan" /\ i >= seg => p = "none"
  /\ active = v /\ pc = "try_slot" /\ i > seg => p = "none"
  /\ active = v /\ pc \in {"dispatch", "processing", "reported"} /\ answer[v] = "created" /\ i < seg
       => p \in Over \cup {"sending"}
  /\ active = v /\ pc = "finish" => p \in Over \/ (p = "held" /\ answer[v] = "exists")

\* The engine of a split is asked for, used and released within splitVideo.
SplitStage ==
  /\ pc \notin {"split_wait", "splitting"} => at[Split] \in Over \cup {"sending"}
  /\ pc = "idle" => at[Split] \in Over

LeaseStages == \A v \in Videos, i \in Segments : LeaseStage(v, at[Segment(v, i)], i)

\* What the answer says about the loop over the assignments.
AssignmentsInv ==
  /\ pc \in {"dispatch", "processing", "reported"} =>
       \/ answer[active] = "created"
       \/ answer[active] = "exists" /\ seg = SegmentCount
  /\ pc = "idle" => active = NoVideo

-----------------------------------------------------------------------------
\* A goroutine that waits for an engine, without a timeout in the handlers, gets
\* one: all paths of the runner and of the handlers give theirs back.  The one
\* exception is again a job Entry had already, whose leases are kept for good.
WaiterIsServed ==
  \A h \in Holders :
    at[h] = "waiting" ~> at[h] # "waiting" \/ \E v \in Videos : answer[v] = "exists"

\* The runner leases engines while it holds others and never waits for one then,
\* nor for anything else that waits for it: a video that was split is handled to
\* the end.
SplitVideoIsHandled ==
  \A v \in Videos : active = v /\ pc = "plan" ~> v \in done

\* docs/architecture-distilled.md:99: "Every segment task, internal or external,
\* reports completion or failure to Entry".  Read for the jobs whose creation
\* Entry confirmed to the source worker, by the first answer or by a later one.
EverySegmentReports ==
  \A v \in Videos : answer[v] \in {"created", "exists"} ~>
    \A i \in Segments : task[v][i] = "reported"
=============================================================================
