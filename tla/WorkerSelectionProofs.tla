----------------------- MODULE WorkerSelectionProofs -----------------------
(***************************************************************************)
(* The searches of WorkerSelection choose what the atomic steps of         *)
(* JobManager choose, for every registry and every order of the map.       *)
(***************************************************************************)
EXTENDS WorkerSelection, WellFoundedInduction, TLAPS

\* Entry and the worker compute the same estimate for every list of sizes that
\* is not empty, whichever sizes are missing.
THEOREM EstimatesAgree ==
  ASSUME NEW total \in TotalSizes, NEW sizes \in SizeLists
  PROVE  EntryEstimate(total, sizes) = WorkerEstimate(total, sizes)
<1>1. sizes # <<>>
  BY SelectionAssumption
<1> DEFINE known == \A i \in DOMAIN sizes : sizes[i] > 0
<1>2. CASE known
  BY <1>1, <1>2 DEF EntryEstimate, WorkerEstimate
<1>3. CASE ~known
  BY <1>1, <1>3 DEF EntryEstimate, WorkerEstimate, DiskFor
<1> QED
  BY <1>2, <1>3

\* While the loop runs the registry stands still; the loop invariant with types.
LoopState == pc = "loop" => SelectionTypeOK /\ LoopInv

\* Visiting one more worker keeps the best segment worker so far: the entries
\* are totally ordered by reserved slots and ID.
LEMMA SegmentVisit ==
  ASSUME NEW w \in Workers, SelectionTypeOK, SegmentLoopInv, VisitForSegment(w)
  PROVE  SegmentLoopInv'
<1> USE RegistryAssumption
<1> DEFINE cand == Candidates("process_segment")
           seen == Visited \cap cand
           fb == request.fallback
<1>1. /\ cand \subseteq Workers
      /\ reservedSlots \in [Workers -> Nat]
      /\ \A v \in Workers : v \in Nat /\ v # NoWorker
      /\ best \in Workers \cup {NoWorker}
  BY DEF Candidates, SelectionTypeOK, RegistryTypeOK, NoWorker
<1>2. /\ cand' = cand
      /\ request' = request
      /\ Visited' = Visited \cup {w}
      /\ reservedSlots' = reservedSlots
  BY DEF VisitForSegment, registryVars, Candidates, Visited, SelectionTypeOK, RegistryTypeOK
<1>3. seen' = IF w \in cand THEN seen \cup {w} ELSE seen
  BY <1>2
<1>4. best' = IF BetterForSegment(w) THEN w ELSE best
  BY DEF VisitForSegment
<1>5. /\ best = NoWorker <=> seen = {}
      /\ best # NoWorker =>
           \/ best \in seen \ {fb} /\ \A v \in (seen \ {fb}) \ {best} : LessBusy(best, v)
           \/ best = fb /\ best \in seen /\ seen \ {fb} = {}
  BY DEF SegmentLoopInv
<1>6. SUFFICES /\ best' = NoWorker <=> seen' = {}
               /\ best' # NoWorker =>
                    \/ /\ best' \in seen' \ {fb}
                       /\ \A v \in (seen' \ {fb}) \ {best'} : LessBusy(best', v)
                    \/ best' = fb /\ best' \in seen' /\ seen' \ {fb} = {}
  BY <1>2 DEF SegmentLoopInv, LessBusy
<1> HIDE DEF cand, seen, fb
<1>7. seen \subseteq Workers
  BY <1>1 DEF seen
<1>8. CASE w \notin cand
  BY <1>3, <1>4, <1>5, <1>8 DEF BetterForSegment, cand
<1>9. CASE w \in cand
  <2>1. seen' = seen \cup {w}
    BY <1>3, <1>9
  <2>2. w \notin seen
    BY <1>2 DEF seen, Visited, VisitForSegment
  <2>3. CASE best = NoWorker
    BY <1>1, <1>4, <1>5, <1>9, <2>1, <2>3 DEF BetterForSegment, cand, fb
  <2>4. CASE best # NoWorker /\ best = fb
    BY <1>1, <1>4, <1>5, <1>9, <2>1, <2>2, <2>4 DEF BetterForSegment, cand, fb
  <2>5. CASE best # NoWorker /\ best # fb
    <3>1. best \in seen \ {fb} /\ \A v \in (seen \ {fb}) \ {best} : LessBusy(best, v)
      BY <1>5, <2>5
    <3>2. CASE w = fb
      BY <1>4, <2>1, <2>5, <3>1, <3>2 DEF BetterForSegment, fb
    <3>3. CASE w # fb /\ LessBusy(w, best)
      <4>1. best' = w
        BY <1>4, <1>9, <3>3 DEF BetterForSegment, cand, fb
      <4>2. \A v \in (seen \ {fb}) \ {w} : LessBusy(w, v)
        BY <1>1, <1>7, <3>1, <3>3 DEF LessBusy
      <4> QED
        BY <1>1, <2>1, <3>3, <4>1, <4>2
    <3>4. CASE w # fb /\ ~LessBusy(w, best)
      <4>1. best' = best
        BY <1>4, <2>5, <3>4 DEF BetterForSegment, fb
      <4>2. LessBusy(best, w)
        BY <1>1, <1>7, <2>2, <3>1, <3>4 DEF LessBusy
      <4> QED
        BY <2>1, <2>5, <3>1, <4>1, <4>2
    <3> QED
      BY <3>2, <3>3, <3>4
  <2> QED
    BY <2>3, <2>4, <2>5
<1> QED
  BY <1>8, <1>9

\* The same for the assemble worker, ordered by reserved slots, then by the disk
\* that is left, then by ID; the remembered disk is the candidate's.
LEMMA AssemblyVisit ==
  ASSUME NEW w \in Workers, SelectionTypeOK, AssemblyLoopInv, VisitForAssembly(w)
  PROVE  AssemblyLoopInv'
<1> USE RegistryAssumption
<1> DEFINE cand == HasRoom(Need)
           seen == Visited \cap cand
<1>1. /\ cand \subseteq Workers
      /\ reservedSlots \in [Workers -> Nat]
      /\ \A v \in Workers : v \in Nat /\ v # NoWorker /\ Schedulable(v) \in Int
      /\ best \in Workers \cup {NoWorker}
      /\ bestDisk \in Int
  <2>1. /\ reservedSlots \in [Workers -> Nat]
        /\ diskFree \in [Workers -> Nat]
        /\ reservedDisk \in [Workers -> Nat]
        /\ online \subseteq Workers
        /\ best \in Workers \cup {NoWorker}
        /\ bestDisk \in Int
    BY DEF SelectionTypeOK, RegistryTypeOK
  <2>2. cand \subseteq Workers
    BY <2>1 DEF HasRoom, Candidates
  <2>3. ASSUME NEW v \in Workers PROVE Schedulable(v) \in Int
    BY <2>1 DEF Schedulable
  <2> QED
    BY <2>1, <2>2, <2>3 DEF NoWorker
<1>2. /\ cand' = cand
      /\ Visited' = Visited \cup {w}
      /\ reservedSlots' = reservedSlots
      /\ \A v \in Workers : Schedulable(v)' = Schedulable(v)
  <2>1. registryVars' = registryVars /\ request' = request /\ todo' = todo \ {w} /\ w \in todo
    BY DEF VisitForAssembly
  <2>2. cand' = cand
    BY <2>1 DEF registryVars, HasRoom, Need, Candidates, Schedulable
  <2>3. Visited' = Visited \cup {w}
    BY <2>1 DEF registryVars, Visited, SelectionTypeOK
  <2> QED
    BY <2>1, <2>2, <2>3 DEF registryVars, Schedulable
<1>3. seen' = IF w \in cand THEN seen \cup {w} ELSE seen
  BY <1>2
<1>4. /\ best' = IF BetterForAssembly(w) THEN w ELSE best
      /\ bestDisk' = IF BetterForAssembly(w) THEN Schedulable(w) ELSE bestDisk
  BY DEF VisitForAssembly
<1>5. /\ best = NoWorker <=> seen = {}
      /\ best # NoWorker =>
           /\ best \in seen
           /\ bestDisk = Schedulable(best)
           /\ \A v \in seen \ {best} : Preferred(best, v)
  BY DEF AssemblyLoopInv
<1>6. SUFFICES /\ best' = NoWorker <=> seen' = {}
               /\ best' # NoWorker =>
                    /\ best' \in seen'
                    /\ bestDisk' = Schedulable(best')
                    /\ \A v \in seen' \ {best'} : Preferred(best', v)
  <2>1. best' \in Workers \cup {NoWorker}
    BY <1>1, <1>4
  <2>2. seen' \subseteq Workers
    BY <1>1, <1>2
  <2> QED
    BY <1>2, <2>1, <2>2 DEF AssemblyLoopInv, Preferred, Schedulable
<1>7. seen \subseteq Workers
  BY <1>1
<1> HIDE DEF cand, seen
<1>8. CASE w \notin cand
  BY <1>3, <1>4, <1>5, <1>8 DEF BetterForAssembly, cand
<1>9. CASE w \in cand
  BY <1>1, <1>3, <1>4, <1>5, <1>7, <1>9 DEF BetterForAssembly, Preferred, cand
<1> QED
  BY <1>8, <1>9

\* The loop invariant holds as long as the loop runs.
LEMMA LoopStateStep ==
  LoopState /\ [SelectionNext]_selectionVars => LoopState'
<1> SUFFICES ASSUME LoopState, [SelectionNext]_selectionVars, pc' = "loop"
             PROVE  (SelectionTypeOK /\ LoopInv)'
  BY DEF LoopState
<1>1. CASE UNCHANGED selectionVars
  <2>1. SelectionTypeOK /\ LoopInv
    BY <1>1 DEF LoopState, selectionVars, loopVars
  <2>2. SelectionTypeOK'
    BY <1>1, <2>1 DEF SelectionTypeOK, RegistryTypeOK, selectionVars, loopVars, registryVars
  <2>3. LoopInv'
    BY <1>1, <2>1 DEF LoopInv, SegmentLoopInv, AssemblyLoopInv, Visited, Candidates, HasRoom,
       Need, LessBusy, Preferred, Schedulable, selectionVars, loopVars, registryVars
  <2> QED
    BY <2>2, <2>3
<1>2. ASSUME NEW w \in Workers, VisitForSegment(w) PROVE (SelectionTypeOK /\ LoopInv)'
  <2>1. SelectionTypeOK /\ SegmentLoopInv
    BY <1>2 DEF LoopState, LoopInv, VisitForSegment
  <2>2. SelectionTypeOK'
    BY <1>2, <2>1 DEF SelectionTypeOK, RegistryTypeOK, VisitForSegment, registryVars
  <2>3. request'.kind = "segment"
    BY <1>2 DEF VisitForSegment
  <2> QED
    BY <1>2, <2>1, <2>2, <2>3, SegmentVisit DEF LoopInv
<1>3. ASSUME NEW w \in Workers, VisitForAssembly(w) PROVE (SelectionTypeOK /\ LoopInv)'
  <2>1. SelectionTypeOK /\ AssemblyLoopInv
    BY <1>3 DEF LoopState, LoopInv, VisitForAssembly
  <2>2. Schedulable(w) \in Int
    BY <2>1 DEF SelectionTypeOK, RegistryTypeOK, Schedulable
  <2>3. SelectionTypeOK'
    BY <1>3, <2>1, <2>2 DEF SelectionTypeOK, RegistryTypeOK, VisitForAssembly, registryVars
  <2>4. request'.kind = "assemble"
    BY <1>3 DEF VisitForAssembly
  <2> QED
    BY <1>3, <2>1, <2>3, <2>4, AssemblyVisit DEF LoopInv
<1> QED
  BY <1>1, <1>2, <1>3 DEF SelectionNext, FinishForSegment, FinishForAssembly, Done

\* Before the first entry is visited there is no candidate.
LEMMA LoopStateInit == SelectionInit => LoopState
<1> SUFFICES ASSUME SelectionInit PROVE SelectionTypeOK /\ LoopInv
  BY DEF LoopState
<1>1. SelectionTypeOK
  <2>1. supports \in [Workers -> SUBSET TaskTypes]
    BY DEF SelectionInit, TaskTypes
  <2>2. /\ reservedSlots \in [Workers -> Nat]
        /\ diskFree \in [Workers -> Nat]
        /\ reservedDisk \in [Workers -> Nat]
    BY SelectionAssumption DEF SelectionInit
  <2>3. registered = Workers /\ online \in SUBSET Workers /\ totalSlots \in [Workers -> Nat]
    BY DEF SelectionInit
  <2>4. RegistryTypeOK
    BY <2>1, <2>2, <2>3 DEF SelectionInit, RegistryTypeOK
  <2>5. /\ request \in Requests
        /\ todo \subseteq registered
        /\ best \in Workers \cup {NoWorker}
        /\ bestDisk \in Int
        /\ pc \in {"loop", "done"}
    BY DEF SelectionInit
  <2> QED
    BY <2>3, <2>4, <2>5 DEF SelectionTypeOK
<1>2. Visited = {} /\ best = NoWorker
  BY DEF SelectionInit, Visited
<1> QED
  BY <1>1, <1>2 DEF LoopInv, SegmentLoopInv, AssemblyLoopInv

\* SegmentChoiceIsAtomic, for every registry and every order of the map.
THEOREM SegmentSearchCorrect == SelectionSpec => SegmentChoiceIsAtomic
<1> DEFINE Chosen ==
      pc = "loop" /\ pc' = "done" /\ request.kind = "segment" =>
        \/ Candidates("process_segment") = {} /\ UNCHANGED registryVars
        \/ \E w \in Workers : IsLeastBusy(w, request.fallback) /\ ReserveSlot(w)
<1>1. ASSUME LoopState, [SelectionNext]_selectionVars PROVE Chosen
  <2> SUFFICES ASSUME pc = "loop", pc' = "done", request.kind = "segment" PROVE Chosen
    OBVIOUS
  <2>1. FinishForSegment
    BY <1>1 DEF SelectionNext, VisitForSegment, VisitForAssembly, FinishForAssembly, Done,
       selectionVars, loopVars
  <2>2. SelectionTypeOK /\ SegmentLoopInv
    BY <1>1 DEF LoopState, LoopInv
  <2>3. Visited \cap Candidates("process_segment") = Candidates("process_segment")
    BY <2>1, <2>2 DEF Visited, Candidates, FinishForSegment, SelectionTypeOK, RegistryTypeOK
  <2>4. best' = best
    BY <2>1, <2>2, <2>3 DEF FinishForSegment, SegmentLoopInv
  <2>5. CASE best = NoWorker
    BY <2>1, <2>2, <2>3, <2>4, <2>5 DEF FinishForSegment, SegmentLoopInv
  <2>6. CASE best # NoWorker
    <3>1. ReserveSlot(best)
      BY <2>1, <2>4, <2>6 DEF FinishForSegment
    <3>2. IsLeastBusy(best, request.fallback) /\ best \in Workers
      BY <2>2, <2>3, <2>6 DEF SegmentLoopInv, IsLeastBusy, SelectionTypeOK
    <3> QED
      BY <3>1, <3>2
  <2> QED
    BY <2>5, <2>6
<1> QED
  BY <1>1, LoopStateInit, LoopStateStep, PTL DEF SelectionSpec, SegmentChoiceIsAtomic

\* AssemblyChoiceIsAtomic, for every registry and every order of the map.
THEOREM AssemblySearchCorrect == SelectionSpec => AssemblyChoiceIsAtomic
<1> DEFINE Chosen ==
      pc = "loop" /\ pc' = "done" /\ request.kind = "assemble" =>
        \/ HasRoom(Need) = {} /\ UNCHANGED registryVars
        \/ \E w \in Workers : IsDiskChoice(w, Need) /\ ReserveSlotAndDisk(w, Need)
<1>1. ASSUME LoopState, [SelectionNext]_selectionVars PROVE Chosen
  <2> SUFFICES ASSUME pc = "loop", pc' = "done", request.kind = "assemble" PROVE Chosen
    OBVIOUS
  <2>1. FinishForAssembly
    BY <1>1 DEF SelectionNext, VisitForSegment, VisitForAssembly, FinishForSegment, Done,
       selectionVars, loopVars
  <2>2. SelectionTypeOK /\ AssemblyLoopInv
    BY <1>1 DEF LoopState, LoopInv
  <2>3. Visited \cap HasRoom(Need) = HasRoom(Need)
    BY <2>1, <2>2 DEF Visited, HasRoom, Candidates, FinishForAssembly, SelectionTypeOK,
       RegistryTypeOK
  <2>4. CASE best = NoWorker
    BY <2>1, <2>2, <2>3, <2>4 DEF FinishForAssembly, AssemblyLoopInv
  <2>5. CASE best # NoWorker
    <3>1. ReserveSlotAndDisk(best, Need)
      BY <2>1, <2>5 DEF FinishForAssembly
    <3>2. IsDiskChoice(best, Need) /\ best \in Workers
      BY <2>2, <2>3, <2>5 DEF AssemblyLoopInv, IsDiskChoice, SelectionTypeOK
    <3> QED
      BY <3>1, <3>2
  <2> QED
    BY <2>4, <2>5
<1> QED
  BY <1>1, LoopStateInit, LoopStateStep, PTL DEF SelectionSpec, AssemblyChoiceIsAtomic

-----------------------------------------------------------------------------
(* The chosen worker has the disk.  The estimate is a number because the    *)
(* sum of the sizes is one, and that is an induction over the list, made by *)
(* a least counterexample.                                                  *)

\* A set of natural numbers has a least element.
LEMMA LeastNat ==
  ASSUME NEW S \in SUBSET Nat, S # {}
  PROVE  \E m \in S : \A k \in S : m <= k
<1> DEFINE R == {ss \in Nat \X Nat : ss[1] < ss[2]}
<1>1. IsWellFoundedOn(R, Nat)
  BY NatLessThanWellFounded DEF OpToRel
<1>2. \A k, m \in Nat : k < m => <<k, m>> \in R
  OBVIOUS
<1> HIDE DEF R
<1>3. PICK m \in S : \A k \in S : ~(<<k, m>> \in R)
  BY <1>1, WFMin
<1>4. \A k \in S : ~(k < m)
  BY <1>2, <1>3
<1>5. \A k \in S : m <= k
  BY <1>4
<1> QED
  BY <1>5

\* g has the sums of the first sizes, up to the n-th.
Sums(sizes, n, g) == g = [i \in 0 .. n |-> IF i = 0 THEN 0 ELSE g[i - 1] + sizes[i]]

\* There is such a g.
LEMMA SumsExist ==
  ASSUME NEW sizes, NEW n \in Nat
  PROVE  \E g : Sums(sizes, n, g)
<1> DEFINE Bad == {m \in Nat : ~\E g : Sums(sizes, m, g)}
<1> SUFFICES ASSUME Bad # {} PROVE FALSE
  OBVIOUS
<1>1. PICK m \in Bad : \A k \in Bad : m <= k
  BY LeastNat
<1>2. m \in Nat /\ ~\E g : Sums(sizes, m, g)
  OBVIOUS
<1>3. CASE m = 0
  <2> DEFINE zero == [i \in 0 .. 0 |-> 0]
  <2>1. zero = [i \in 0 .. 0 |-> IF i = 0 THEN 0 ELSE zero[i - 1] + sizes[i]]
    OBVIOUS
  <2> HIDE DEF zero
  <2>2. Sums(sizes, 0, zero)
    BY <2>1 DEF Sums
  <2> QED
    BY <1>2, <1>3, <2>2
<1>4. CASE m > 0
  <2>1. m - 1 \in Nat /\ m - 1 \notin Bad
    BY <1>1, <1>2, <1>4
  <2>2. PICK g : Sums(sizes, m - 1, g)
    BY <2>1
  <2> DEFINE h == [i \in 0 .. m |-> IF i = m THEN g[m - 1] + sizes[m] ELSE g[i]]
  <2>3. g = [i \in 0 .. m - 1 |-> IF i = 0 THEN 0 ELSE g[i - 1] + sizes[i]]
    BY <2>2 DEF Sums
  <2>4. \A i \in 0 .. m : h[i] = IF i = 0 THEN 0 ELSE h[i - 1] + sizes[i]
    <3> SUFFICES ASSUME NEW i \in 0 .. m
                 PROVE  h[i] = IF i = 0 THEN 0 ELSE h[i - 1] + sizes[i]
      OBVIOUS
    <3>1. CASE i = m
      <4>1. m - 1 \in 0 .. m /\ m - 1 # m /\ m # 0 /\ m \in 0 .. m
        BY <1>2, <1>4
      <4>2. h[m] = g[m - 1] + sizes[m] /\ h[m - 1] = g[m - 1]
        BY <4>1, Zenon
      <4> QED
        BY <3>1, <4>1, <4>2, Zenon
    <3>2. CASE i # m
      <4>1. i \in 0 .. m - 1 /\ (i # 0 => i - 1 \in 0 .. m /\ i - 1 # m)
        BY <1>2, <3>2
      <4>2. g[i] = IF i = 0 THEN 0 ELSE g[i - 1] + sizes[i]
        BY <2>3, <4>1, Zenon
      <4>3. h[i] = g[i]
        BY <3>2, Zenon
      <4>4. i # 0 => h[i - 1] = g[i - 1]
        BY <4>1, Zenon
      <4> QED
        BY <4>2, <4>3, <4>4, Zenon
    <3> QED
      BY <3>1, <3>2
  <2>5. h = [i \in 0 .. m |-> h[i]]
    OBVIOUS
  <2> HIDE DEF h
  <2>6. Sums(sizes, m, h)
    BY <2>4, <2>5 DEF Sums
  <2> QED
    BY <1>2, <2>6
<1> QED
  BY <1>2, <1>3, <1>4

\* The sums of natural numbers are natural numbers.
LEMMA SumsNat ==
  ASSUME NEW sizes, NEW n \in Nat, \A i \in 1 .. n : sizes[i] \in Nat, NEW g, Sums(sizes, n, g)
  PROVE  g[n] \in Nat
<1> DEFINE Bad == {k \in 0 .. n : g[k] \notin Nat}
<1> SUFFICES ASSUME Bad # {} PROVE FALSE
  OBVIOUS
<1>1. PICK k \in Bad : \A l \in Bad : k <= l
  <2>1. Bad \in SUBSET Nat
    OBVIOUS
  <2> QED
    BY <2>1, LeastNat
<1>2. k \in 0 .. n /\ g[k] \notin Nat
  OBVIOUS
<1>3. g[k] = IF k = 0 THEN 0 ELSE g[k - 1] + sizes[k]
  BY <1>2, Zenon DEF Sums
<1>4. k # 0 => g[k - 1] \in Nat
  BY <1>1, <1>2
<1>5. k # 0 => sizes[k] \in Nat
  BY <1>2
<1> QED
  BY <1>2, <1>3, <1>4, <1>5

\* SizeSum of a list of sizes.
LEMMA SizeSumNat ==
  ASSUME NEW sizes \in Seq(Nat)
  PROVE  SizeSum(sizes) \in Nat
<1> DEFINE G == CHOOSE g : g = [i \in 0 .. Len(sizes) |-> IF i = 0 THEN 0 ELSE g[i - 1] + sizes[i]]
<1>1. Len(sizes) \in Nat /\ \A i \in 1 .. Len(sizes) : sizes[i] \in Nat
  OBVIOUS
<1>2. \E g : Sums(sizes, Len(sizes), g)
  BY <1>1, SumsExist
<1>3. G = [i \in 0 .. Len(sizes) |-> IF i = 0 THEN 0 ELSE G[i - 1] + sizes[i]]
  BY <1>2, Zenon DEF Sums
<1>4. SizeSum(sizes) = G[Len(sizes)]
  BY Zenon DEF SizeSum
<1> HIDE DEF G
<1>5. Sums(sizes, Len(sizes), G)
  BY <1>3 DEF Sums
<1>6. G[Len(sizes)] \in Nat
  BY <1>1, <1>5, SumsNat
<1> QED
  BY <1>4, <1>6

\* The estimate of an assembly, as Entry makes it.
LEMMA EstimateNat ==
  ASSUME NEW total \in TotalSizes, NEW sizes \in SizeLists
  PROVE  EntryEstimate(total, sizes) \in Nat
<1>1. total \in Nat /\ sizes \in Seq(Nat)
  BY SelectionAssumption
<1>2. SizeSum(sizes) \in Nat
  BY <1>1, SizeSumNat
<1>3. \A known \in BOOLEAN, sum \in Nat : DiskFor(total, known, sum) \in Nat
  BY <1>1 DEF DiskFor
<1> QED
  BY <1>2, <1>3 DEF EntryEstimate

\* The worker an assembly was reserved on has the disk by its own estimate too,
\* and Entry has not promised more than it saw: for every registry, every list of
\* sizes, known or not, and every order of the map.
THEOREM ChosenWorkersAccept == SelectionSpec => []ChosenWorkerAccepts
<1>1. SelectionInit => ChosenWorkerAccepts
  BY DEF SelectionInit, ChosenWorkerAccepts
<1>2. LoopState /\ ChosenWorkerAccepts /\ [SelectionNext]_selectionVars => ChosenWorkerAccepts'
  <2> SUFFICES ASSUME LoopState, ChosenWorkerAccepts, [SelectionNext]_selectionVars
               PROVE  ChosenWorkerAccepts'
    OBVIOUS
  <2>1. CASE UNCHANGED selectionVars
    BY <2>1 DEF ChosenWorkerAccepts, selectionVars, loopVars, registryVars
  <2>2. CASE FinishForSegment
    BY <2>2 DEF FinishForSegment, ChosenWorkerAccepts
  <2>3. ASSUME NEW w \in Workers, VisitForSegment(w) \/ VisitForAssembly(w) PROVE ChosenWorkerAccepts'
    BY <2>3 DEF VisitForSegment, VisitForAssembly, ChosenWorkerAccepts
  <2>4. CASE FinishForAssembly
    <3> SUFFICES ASSUME best # NoWorker
                 PROVE  /\ reservedDisk'[best] <= diskFree'[best]
                        /\ diskFree'[best] >= WorkerEstimate(request.total, request.sizes)
      BY <2>4 DEF FinishForAssembly, ChosenWorkerAccepts
    <3>1. SelectionTypeOK /\ AssemblyLoopInv /\ request.kind = "assemble"
      BY <2>4 DEF LoopState, LoopInv, FinishForAssembly
    <3>2. request.total \in TotalSizes /\ request.sizes \in SizeLists
      BY <3>1 DEF SelectionTypeOK, Requests
    <3>3. Need \in Nat /\ Need = WorkerEstimate(request.total, request.sizes)
      BY <3>2, EstimateNat, EstimatesAgree DEF Need
    <3>4. best \in Workers /\ diskFree[best] \in Nat /\ reservedDisk[best] \in Nat
      BY <3>1 DEF SelectionTypeOK, RegistryTypeOK
    <3>5. diskFree[best] - reservedDisk[best] >= Need
      BY <3>1 DEF AssemblyLoopInv, HasRoom, Schedulable
    <3>6. reservedDisk'[best] = reservedDisk[best] + Need /\ diskFree' = diskFree
      BY <2>4, <3>1, <3>4 DEF FinishForAssembly, ReserveSlotAndDisk, observed, SelectionTypeOK, RegistryTypeOK
    <3> QED
      BY <3>3, <3>4, <3>5, <3>6
  <2> QED
    BY <2>1, <2>2, <2>3, <2>4 DEF SelectionNext, Done
<1> QED
  BY <1>1, <1>2, LoopStateInit, LoopStateStep, PTL DEF SelectionSpec
=============================================================================
