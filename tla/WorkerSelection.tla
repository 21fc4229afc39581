-------------------------- MODULE WorkerSelection --------------------------
(***************************************************************************)
(* The two loops with which the registry chooses a worker, one map entry   *)
(* per step: ReserveLeastBusyWorker for a segment and                      *)
(* PickWorkerForDiskReservation for an assembly.  Go visits a map in a     *)
(* random order, so a step takes any entry not yet visited.  The registry  *)
(* is locked from the first step to the last: nobody else changes it.      *)
(*                                                                         *)
(* JobManager takes the whole search as one step that picks the worker of  *)
(* IsLeastBusy or IsDiskChoice; the properties below say it may.           *)
(***************************************************************************)
EXTENDS WorkerRegistry, Sequences

CONSTANTS
  SlotCounts,      \* ReservedSlots a worker may start with
  FreeDisks,       \* DiskFreeBytes a worker may start with
  HeldDisks,       \* ReservedDiskBytes a worker may start with
  TotalSizes,      \* TotalSizeBytes of a job
  SizeLists        \* OutputSizeBytes of a job's segments, as reported

ASSUME SelectionAssumption ==
  /\ SlotCounts \subseteq Nat
  /\ FreeDisks \subseteq Nat
  /\ HeldDisks \subseteq Nat
  /\ TotalSizes \subseteq Nat \ {0}
  /\ SizeLists \subseteq Seq(Nat) \ {<<>>}

VARIABLES
  request,         \* what the caller asked for
  todo,            \* entries of byID the loop has not visited
  best,            \* the loop's candidate so far, NoWorker for nil
  bestDisk,        \* bestSchedulableDisk
  pc               \* "loop" or "done"

loopVars == <<request, todo, best, bestDisk, pc>>
selectionVars == <<registryVars, loopVars>>

-----------------------------------------------------------------------------
(* The disk an assembly needs is estimated twice: by Entry when it looks    *)
(* for a worker and by the worker that got the request.                     *)

SizeSum(sizes) ==
  LET upTo[i \in 0 .. Len(sizes)] == IF i = 0 THEN 0 ELSE upTo[i - 1] + sizes[i]
  IN  upTo[Len(sizes)]

\* The formula both share, once the outputs are known to be `known` and sum to `sum`.
DiskFor(total, known, sum) ==
  LET base == IF known /\ sum > 0 THEN sum * 2 ELSE total IN
  ((IF base < 1 THEN 1 ELSE base) * 12) \div 10

\* A slip in Entry's estimate: a missing size counts as nothing.
EntryEstimateOfKnown(total, sizes) == DiskFor(total, TRUE, SizeSum(sizes))

EntryEstimate(total, sizes) ==
  DiskFor(total, \A i \in DOMAIN sizes : sizes[i] > 0, SizeSum(sizes))

\* The worker stops adding at the first unknown size, and then ignores the sum.
WorkerEstimate(total, sizes) ==
  LET known == sizes # <<>> /\ \A i \in DOMAIN sizes : sizes[i] > 0 IN
  DiskFor(total, known, IF known THEN SizeSum(sizes) ELSE 0)

Need == EntryEstimate(request.total, request.sizes)

-----------------------------------------------------------------------------
Requests ==
  [kind : {"segment"}, fallback : Workers, total : {0}, sizes : {<<>>}]
    \cup [kind : {"assemble"}, fallback : {NoWorker}, total : TotalSizes, sizes : SizeLists]

SelectionTypeOK ==
  /\ RegistryTypeOK
  /\ request \in Requests
  /\ registered = Workers
  /\ todo \subseteq registered
  /\ best \in Workers \cup {NoWorker}
  /\ bestDisk \in Int
  /\ pc \in {"loop", "done"}

\* Any registry of these workers the other requests may have left behind.
SelectionInit ==
  /\ registered = Workers
  /\ online \in SUBSET registered
  /\ totalSlots = [w \in Workers |-> 1]
  /\ supports \in [Workers -> {{"process_segment"}, TaskTypes}]
  /\ reservedSlots \in [Workers -> SlotCounts]
  /\ diskFree \in [Workers -> FreeDisks]
  /\ reservedDisk \in [Workers -> HeldDisks]
  /\ backpressure = FALSE
  /\ request \in Requests
  /\ todo = registered
  /\ best = NoWorker
  /\ bestDisk = 0
  /\ pc = "loop"

-----------------------------------------------------------------------------
(* ReserveLeastBusyWorker. *)

\* A slip in the loop: the caller's own worker is kept when it is less busy.
BetterForSegmentKeepsFallback(w) ==
  /\ w \in Candidates("process_segment")
  /\ w = request.fallback => best = NoWorker
  /\ best = NoWorker \/ LessBusy(w, best)

\* Is w taken instead of the candidate so far?
BetterForSegment(w) ==
  /\ w \in Candidates("process_segment")
  /\ w = request.fallback => best = NoWorker
  /\ \/ best = NoWorker
     \/ best = request.fallback /\ w # request.fallback
     \/ LessBusy(w, best)

VisitForSegment(w) ==
  /\ pc = "loop"
  /\ request.kind = "segment"
  /\ w \in todo
  /\ todo' = todo \ {w}
  /\ best' = IF BetterForSegment(w) THEN w ELSE best
  /\ UNCHANGED <<registryVars, request, bestDisk, pc>>

\* The fallback once more, then the reservation if there is anybody.
FinishForSegment ==
  /\ pc = "loop"
  /\ request.kind = "segment"
  /\ todo = {}
  /\ best' = IF best = NoWorker /\ request.fallback \in Candidates("process_segment")
             THEN request.fallback ELSE best
  /\ IF best' = NoWorker THEN UNCHANGED registryVars ELSE ReserveSlot(best')
  /\ pc' = "done"
  /\ UNCHANGED <<request, todo, bestDisk>>

-----------------------------------------------------------------------------
(* PickWorkerForDiskReservation. *)

BetterForAssembly(w) ==
  /\ w \in HasRoom(Need)
  /\ \/ best = NoWorker
     \/ reservedSlots[w] < reservedSlots[best]
     \/ reservedSlots[w] = reservedSlots[best] /\ Schedulable(w) > bestDisk
     \/ reservedSlots[w] = reservedSlots[best] /\ Schedulable(w) = bestDisk /\ w < best

\* A slip in the loop: the disk of the new candidate is not remembered.
VisitForAssemblyForgetsDisk(w) ==
  /\ pc = "loop"
  /\ request.kind = "assemble"
  /\ w \in todo
  /\ todo' = todo \ {w}
  /\ best' = IF BetterForAssembly(w) THEN w ELSE best
  /\ UNCHANGED <<registryVars, request, bestDisk, pc>>

VisitForAssembly(w) ==
  /\ pc = "loop"
  /\ request.kind = "assemble"
  /\ w \in todo
  /\ todo' = todo \ {w}
  /\ best' = IF BetterForAssembly(w) THEN w ELSE best
  /\ bestDisk' = IF BetterForAssembly(w) THEN Schedulable(w) ELSE bestDisk
  /\ UNCHANGED <<registryVars, request, pc>>

FinishForAssembly ==
  /\ pc = "loop"
  /\ request.kind = "assemble"
  /\ todo = {}
  /\ IF best = NoWorker THEN UNCHANGED registryVars ELSE ReserveSlotAndDisk(best, Need)
  /\ pc' = "done"
  /\ UNCHANGED <<request, todo, best, bestDisk>>

Done == pc = "done" /\ UNCHANGED selectionVars

SelectionNext ==
  \/ \E w \in Workers : VisitForSegment(w)
  \/ FinishForSegment
  \/ \E w \in Workers : VisitForAssembly(w)
  \/ FinishForAssembly
  \/ Done

SelectionSpec == SelectionInit /\ [][SelectionNext]_selectionVars

-----------------------------------------------------------------------------
(* What the searches promise their caller, in every order of the map. *)

\* The step that ends a search for a segment's worker is the atomic choice of
\* ReserveSegment: the least busy worker other than the caller, the caller when
\* it is alone, and no reservation only when nobody can take the segment.
SegmentChoiceIsAtomic ==
  [][pc = "loop" /\ pc' = "done" /\ request.kind = "segment" =>
       \/ Candidates("process_segment") = {} /\ UNCHANGED registryVars
       \/ \E w \in Workers : IsLeastBusy(w, request.fallback) /\ ReserveSlot(w)]_selectionVars

\* The step that ends a search for an assemble worker is the atomic choice of
\* PickAssembleWorker, with the slot and the disk reserved on the same worker.
AssemblyChoiceIsAtomic ==
  [][pc = "loop" /\ pc' = "done" /\ request.kind = "assemble" =>
       \/ HasRoom(Need) = {} /\ UNCHANGED registryVars
       \/ \E w \in Workers : IsDiskChoice(w, Need) /\ ReserveSlotAndDisk(w, Need)]_selectionVars

\* The worker an assembly was reserved on does not refuse it for lack of storage
\* while its free disk is what Entry saw, and the disk promised on it fits: the
\* two estimates of the two programs agree.
ChosenWorkerAccepts ==
  pc = "done" /\ request.kind = "assemble" /\ best # NoWorker =>
    /\ reservedDisk[best] <= diskFree[best]
    /\ diskFree[best] >= WorkerEstimate(request.total, request.sizes)

-----------------------------------------------------------------------------
(* The loop invariant: the candidate is the right choice of the entries     *)
(* visited so far.                                                          *)

Visited == registered \ todo

SegmentLoopInv ==
  LET seen == Visited \cap Candidates("process_segment")
      others == seen \ {request.fallback}
  IN  /\ best = NoWorker <=> seen = {}
      /\ best # NoWorker =>
           \/ best \in others /\ \A v \in others \ {best} : LessBusy(best, v)
           \/ best = request.fallback /\ best \in seen /\ others = {}

AssemblyLoopInv ==
  LET seen == Visited \cap HasRoom(Need) IN
  /\ best = NoWorker <=> seen = {}
  /\ best # NoWorker =>
       /\ best \in seen
       /\ bestDisk = Schedulable(best)
       /\ \A v \in seen \ {best} : Preferred(best, v)

LoopInv ==
  pc = "loop" => IF request.kind = "segment" THEN SegmentLoopInv ELSE AssemblyLoopInv
=============================================================================
