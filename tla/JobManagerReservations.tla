----------------------- MODULE JobManagerReservations -----------------------
(***************************************************************************)
(* The reservation accounting of the Entry server, proved.  Entry keeps    *)
(* two numbers for each worker and does not remember who they are for;     *)
(* Owed(w) counts the tasks that hold a slot of w and OwedDisk(w) sums the *)
(* disk that was promised to them.  With a reliable answer to the start    *)
(* request the numbers agree; when the answer may be lost a reservation    *)
(* can be given back twice, and then Entry's number can only be too small, *)
(* never too large.                                                        *)
(***************************************************************************)
EXTENDS JobManagerProofs

SlotsInv == NoSlotLeaks /\ (~LossyStart => SlotsExact)

\* The holders of a worker's slots are finitely many, so they can be counted.
LEMMA HoldersFinite ==
  ASSUME NEW w
  PROVE  /\ IsFiniteSet(SegmentHolders(w)) /\ Cardinality(SegmentHolders(w)) \in Nat
         /\ IsFiniteSet(AssembleHolders(w)) /\ Cardinality(AssembleHolders(w)) \in Nat
<1>1. SegmentHolders(w) \in SUBSET Tasks /\ AssembleHolders(w) \in SUBSET Tasks
  BY DEF SegmentHolders, AssembleHolders
<1> QED
  BY <1>1, TasksFinite, FS_Subset, FS_CardinalityType

\* The same after a step.
LEMMA HoldersFiniteNext ==
  ASSUME NEW w
  PROVE  /\ IsFiniteSet(SegmentHolders(w)') /\ Cardinality(SegmentHolders(w)') \in Nat
         /\ IsFiniteSet(AssembleHolders(w)') /\ Cardinality(AssembleHolders(w)') \in Nat
<1>1. SegmentHolders(w)' \in SUBSET Tasks /\ AssembleHolders(w)' \in SUBSET Tasks
  BY DEF SegmentHolders, AssembleHolders
<1> QED
  BY <1>1, TasksFinite, FS_Subset, FS_CardinalityType

\* A step that moves no slot and no holder.
LEMMA SlotsSame ==
  ASSUME SlotsInv, UNCHANGED reservedSlots,
         \A w \in Workers : SegmentHolders(w)' = SegmentHolders(w)
                            /\ AssembleHolders(w)' = AssembleHolders(w)
  PROVE  SlotsInv'
BY DEF SlotsInv, NoSlotLeaks, SlotsExact, Owed

\* A step that reserves one slot for one new holder.
LEMMA SlotsGrow ==
  ASSUME TypeOK, SlotsInv, NEW v \in Workers,
         reservedSlots' = [reservedSlots EXCEPT ![v] = @ + 1],
         \A w \in Workers : Owed(w)' = IF w = v THEN Owed(w) + 1 ELSE Owed(w)
  PROVE  SlotsInv'
<1>1. \A w \in Workers : Owed(w) \in Nat
  BY HoldersFinite DEF Owed
<1>2. \A w \in Workers : reservedSlots[w] \in Nat /\ reservedSlots'[w] =
                           IF w = v THEN reservedSlots[w] + 1 ELSE reservedSlots[w]
  BY DEF TypeOK, RegistryTypeOK
<1>3. NoSlotLeaks'
  BY <1>1, <1>2 DEF SlotsInv, NoSlotLeaks
<1>4. ~LossyStart => SlotsExact'
  BY <1>1, <1>2 DEF SlotsInv, SlotsExact
<1> QED
  BY <1>3, <1>4 DEF SlotsInv

\* A step that gives back as many slots as there are holders fewer.  Where the
\* start's answer may be lost there may be fewer holders than slots given back.
LEMMA SlotsShrink ==
  ASSUME TypeOK, SlotsInv, NEW count \in [Workers -> Nat], NEW gone \in [Workers -> Nat],
         reservedSlots' = [w \in Workers |-> Minus(reservedSlots[w], count[w])],
         \A w \in Workers : gone[w] <= count[w] /\ Owed(w)' = Owed(w) - gone[w]
                            /\ Owed(w)' \in Nat,
         ~LossyStart => \A w \in Workers : gone[w] = count[w]
  PROVE  SlotsInv'
<1>1. \A w \in Workers : Owed(w) \in Nat
  BY HoldersFinite DEF Owed
<1>2. \A w \in Workers : /\ reservedSlots[w] \in Nat /\ count[w] \in Nat /\ gone[w] \in Nat
                         /\ reservedSlots'[w] = Minus(reservedSlots[w], count[w])
  BY DEF TypeOK, RegistryTypeOK
<1>3. NoSlotLeaks'
  BY <1>1, <1>2 DEF SlotsInv, NoSlotLeaks, Minus
<1>4. ~LossyStart => SlotsExact'
  BY <1>1, <1>2 DEF SlotsInv, SlotsExact, Minus
<1> QED
  BY <1>3, <1>4 DEF SlotsInv

\* A step after which the same tasks hold their slots.
LEMMA SlotsQuiet ==
  ASSUME SlotsInv, UNCHANGED <<reservedSlots, taskWorker, asmWorker>>,
         \A t \in Tasks :
           /\ post'[t] \in {"idle", "release", "release_last"} <=>
                post[t] \in {"idle", "release", "release_last"}
           /\ post'[t] = "unreserved" <=> post[t] = "unreserved"
           /\ report'[t] = "released" <=> report[t] = "released"
  PROVE  SlotsInv'
<1>1. \A w \in Workers : SegmentHolders(w)' = SegmentHolders(w)
  BY DEF SegmentHolders, SegmentHolds
<1>2. \A w \in Workers : AssembleHolders(w)' = AssembleHolders(w)
  BY DEF AssembleHolders, AssembleHolds
<1> QED
  BY <1>1, <1>2, SlotsSame

-----------------------------------------------------------------------------
(* CreateJob. *)

\* Nothing of a call that has not committed has been given back yet.
LEMMA Uncommitted ==
  ASSUME TypeOK, StructureInv, NEW j \in Jobs, call[j] # "created"
  PROVE  \A t \in TasksOf(j) : post[t] = "idle"
BY TaskFacts DEF StructureInv, JobsMatchCalls, OneStarter

\* Reserving a segment adds one slot and one holder.
LEMMA ReserveSlots ==
  ASSUME TypeOK, StructureInv, SlotsInv, NEW j \in Jobs, NEW t \in TasksOf(j),
         NEW mode \in Modes, NEW v \in Workers, ReserveSegment(t, mode, v)
  PROVE  SlotsInv'
<1>1. t \in Tasks /\ t[1] = j /\ post[t] = "idle"
  BY TaskFacts, Uncommitted DEF ReserveSegment
<1>2. taskWorker[t] = NoWorker
  <2>1. t[2] \in Int
    BY <1>1, JobManagerAssumption DEF Tasks, Segments
  <2> QED
    BY <1>1, <2>1 DEF ReserveSegment, IsNextSegment
<1>3. v # NoWorker
  BY RegistryAssumption DEF NoWorker
<1>4. \A w \in Workers :
        SegmentHolders(w)' = IF w = v THEN SegmentHolders(w) \cup {t} ELSE SegmentHolders(w)
  BY <1>1, <1>2, <1>3 DEF ReserveSegment, SegmentHolders, SegmentHolds, TypeOK
<1>5. \A w \in Workers : AssembleHolders(w)' = AssembleHolders(w)
  BY DEF ReserveSegment, AssembleHolders, AssembleHolds, assembleVars
<1>6. t \notin SegmentHolders(v)
  BY <1>2 DEF SegmentHolders, SegmentHolds
<1>7. \A w \in Workers : Owed(w)' = IF w = v THEN Owed(w) + 1 ELSE Owed(w)
  <2>1. Cardinality(SegmentHolders(v) \cup {t}) = Cardinality(SegmentHolders(v)) + 1
    BY <1>6, HoldersFinite, FS_AddElement
  <2>2. \A w \in Workers : /\ Cardinality(SegmentHolders(w)) \in Nat
                           /\ Cardinality(AssembleHolders(w)) \in Nat
    BY HoldersFinite
  <2>3. Owed(v)' = Owed(v) + 1
    <3>1. Cardinality(SegmentHolders(v)') = Cardinality(SegmentHolders(v)) + 1
      <4>1. SegmentHolders(v)' = SegmentHolders(v) \cup {t}
        BY <1>4
      <4> QED
        BY <2>1, <4>1, Zenon
    <3>2. Cardinality(AssembleHolders(v)') = Cardinality(AssembleHolders(v))
      BY <1>5
    <3>3. Owed(v)' = Cardinality(SegmentHolders(v)') + Cardinality(AssembleHolders(v)')
      BY DEF Owed
    <3> QED
      BY <2>2, <3>1, <3>2, <3>3 DEF Owed
  <2>4. \A w \in Workers \ {v} : Owed(w)' = Owed(w)
    BY <1>4, <1>5 DEF Owed
  <2> QED
    BY <2>3, <2>4
<1>8. reservedSlots' = [reservedSlots EXCEPT ![v] = @ + 1]
  BY DEF ReserveSegment, ReserveSlot
<1> QED
  BY <1>7, <1>8, SlotsGrow

\* Giving up, or finding the job created meanwhile, gives back what was reserved.
LEMMA ReleaseAllSlots ==
  ASSUME TypeOK, StructureInv, SlotsInv, NEW j \in Jobs, call[j] # "created",
         ReleaseAll(j), UNCHANGED <<post, assembleVars>>
  PROVE  SlotsInv'
<1> DEFINE count == [w \in Workers |-> Cardinality(ReservedBy(j, w))]
<1>1. count \in [Workers -> Nat]
  BY CountNat
<1>2. \A w \in Workers : /\ ReservedBy(j, w) \subseteq SegmentHolders(w)
                         /\ SegmentHolders(w)' = SegmentHolders(w) \ ReservedBy(j, w)
  <2>1. \A t \in TasksOf(j) : post[t] = "idle"
    BY Uncommitted
  <2>2. \A w \in Workers : w # NoWorker
    BY RegistryAssumption DEF NoWorker
  <2>3. \A t \in Tasks : taskWorker'[t] = IF t[1] = j THEN NoWorker ELSE taskWorker[t]
    BY DEF ReleaseAll
  <2>4. \A t \in Tasks : t \in TasksOf(j) <=> t[1] = j
    BY TaskFacts
  <2> QED
    BY <2>1, <2>2, <2>3, <2>4, TaskFacts DEF SegmentHolders, SegmentHolds, ReservedBy
<1>3. \A w \in Workers : AssembleHolders(w)' = AssembleHolders(w)
  BY DEF AssembleHolders, AssembleHolds, assembleVars
<1>4. ASSUME NEW w \in Workers PROVE Owed(w)' = Owed(w) - count[w] /\ Owed(w)' \in Nat
  <2>1. SegmentHolders(w) \cap ReservedBy(j, w) = ReservedBy(j, w)
    BY <1>2
  <2>2. Cardinality(SegmentHolders(w)') = Cardinality(SegmentHolders(w)) - count[w]
    BY <1>2, <2>1, HoldersFinite, FS_Difference, ZenonT(30)
  <2>3. /\ Cardinality(SegmentHolders(w)) \in Nat /\ Cardinality(AssembleHolders(w)) \in Nat
        /\ Cardinality(SegmentHolders(w)') \in Nat /\ count[w] \in Nat
    BY <1>1, HoldersFinite, HoldersFiniteNext
  <2> HIDE DEF count
  <2> QED
    BY <1>3, <2>2, <2>3 DEF Owed
<1>5. reservedSlots' = [w \in Workers |-> Minus(reservedSlots[w], count[w])]
  BY DEF ReleaseAll, ReleaseReservations
<1>6. \A w \in Workers : count[w] <= count[w]
  BY <1>1
<1> HIDE DEF count
<1> QED
  BY <1>1, <1>4, <1>5, <1>6, SlotsShrink

\* Every step of a CreateJob call keeps the account.
LEMMA SlotsCreate ==
  ASSUME TypeOK, StructureInv, SlotsInv, NEW j \in Jobs, CreateStep(j)
  PROVE  SlotsInv'
<1>1. CASE CreateJob(j) \/ GiveUpReserving(j) \/ CommitJob(j)
  BY <1>1, SlotsQuiet DEF CreateJob, GiveUpReserving, CommitJob, segmentVars, assembleVars,
     registryVars
<1>2. CASE RejectJob(j)
  BY <1>2, ReleaseAllSlots DEF RejectJob
<1>3. CASE CommitFindsJob(j)
  BY <1>3, ReleaseAllSlots DEF CommitFindsJob
<1> QED
  BY <1>1, <1>2, <1>3, ReserveSlots DEF CreateStep

\* A report leaves the slot with the task; its goroutine gives it back later.
LEMMA SlotsReport ==
  ASSUME TypeOK, StructureInv, SlotsInv, NEW t \in Tasks, SegmentReport(t)
  PROVE  SlotsInv'
<1>1. UNCHANGED <<reservedSlots, taskWorker, asmWorker, report>>
  BY DEF SegmentReport, AcceptSegmentTask, CompleteSegmentTask, FailSegmentTask, registryVars,
     assembleVars
<1>2. /\ post' = post \/ (taskStatus[t] \in {"assigned", "running"} /\
           \E p \in {"release", "release_last"} : post' = [post EXCEPT ![t] = p])
  BY DEF SegmentReport, AcceptSegmentTask, CompleteSegmentTask, FailSegmentTask
<1>3. taskStatus[t] \in {"assigned", "running"} => post[t] = "idle"
  BY DEF StructureInv, OneStarter
<1> QED
  BY <1>1, <1>2, <1>3, SlotsQuiet DEF TypeOK

-----------------------------------------------------------------------------
(* Releases by the goroutines of a segment report. *)

\* One slot of v goes back with the holder t, if t still held one.
LEMMA ReleaseOne ==
  ASSUME TypeOK, SlotsInv, NEW v \in Workers, NEW t \in Tasks,
         reservedSlots' = [reservedSlots EXCEPT ![v] = Minus(@, 1)],
         \/ /\ SegmentHolders(v)' = SegmentHolders(v) \ {t}
            /\ AssembleHolders(v)' = AssembleHolders(v)
            /\ t \in SegmentHolders(v)
         \/ /\ AssembleHolders(v)' = AssembleHolders(v) \ {t}
            /\ SegmentHolders(v)' = SegmentHolders(v)
            /\ ~LossyStart => t \in AssembleHolders(v),
         \A w \in Workers \ {v} : SegmentHolders(w)' = SegmentHolders(w)
                                  /\ AssembleHolders(w)' = AssembleHolders(w)
  PROVE  SlotsInv'
<1> DEFINE count == [w \in Workers |-> IF w = v THEN 1 ELSE 0]
           gone == [w \in Workers |-> IF w = v /\ Owed(v)' # Owed(v) THEN 1 ELSE 0]
<1>1. count \in [Workers -> Nat] /\ gone \in [Workers -> Nat]
  OBVIOUS
<1>2. \A w \in Workers :
        /\ Cardinality(SegmentHolders(w)) \in Nat /\ Cardinality(AssembleHolders(w)) \in Nat
        /\ Cardinality(SegmentHolders(w)') \in Nat /\ Cardinality(AssembleHolders(w)') \in Nat
  BY HoldersFinite, HoldersFiniteNext
<1>3. \A w \in Workers : Owed(w) \in Nat /\ Owed(w)' \in Nat
  BY <1>2 DEF Owed
<1>4. \A w \in Workers \ {v} : Owed(w)' = Owed(w)
  BY DEF Owed
<1>5. /\ Owed(v)' = Owed(v) \/ Owed(v)' = Owed(v) - 1
      /\ ~LossyStart => Owed(v)' = Owed(v) - 1
  <2>1. Cardinality(SegmentHolders(v) \ {t}) =
          IF t \in SegmentHolders(v) THEN Cardinality(SegmentHolders(v)) - 1
                                     ELSE Cardinality(SegmentHolders(v))
    BY HoldersFinite, FS_RemoveElement
  <2>2. Cardinality(AssembleHolders(v) \ {t}) =
          IF t \in AssembleHolders(v) THEN Cardinality(AssembleHolders(v)) - 1
                                      ELSE Cardinality(AssembleHolders(v))
    BY HoldersFinite, FS_RemoveElement
  <2>3. Owed(v)' = Cardinality(SegmentHolders(v)') + Cardinality(AssembleHolders(v)')
    BY DEF Owed
  <2>4. CASE /\ SegmentHolders(v)' = SegmentHolders(v) \ {t}
             /\ AssembleHolders(v)' = AssembleHolders(v)
             /\ t \in SegmentHolders(v)
    <3>1. /\ Cardinality(SegmentHolders(v)') = Cardinality(SegmentHolders(v) \ {t})
          /\ Cardinality(AssembleHolders(v)') = Cardinality(AssembleHolders(v))
      BY <2>4, Zenon
    <3> QED
      BY <1>2, <2>1, <2>3, <2>4, <3>1 DEF Owed
  <2>5. CASE /\ AssembleHolders(v)' = AssembleHolders(v) \ {t}
             /\ SegmentHolders(v)' = SegmentHolders(v)
             /\ ~LossyStart => t \in AssembleHolders(v)
    <3>1. /\ Cardinality(AssembleHolders(v)') = Cardinality(AssembleHolders(v) \ {t})
          /\ Cardinality(SegmentHolders(v)') = Cardinality(SegmentHolders(v))
      BY <2>5, Zenon
    <3> QED
      BY <1>2, <2>2, <2>3, <2>5, <3>1 DEF Owed
  <2> QED
    BY <2>4, <2>5
<1>6. \A w \in Workers : gone[w] <= count[w] /\ Owed(w)' = Owed(w) - gone[w]
  BY <1>3, <1>4, <1>5
<1>7. ~LossyStart => \A w \in Workers : gone[w] = count[w]
  BY <1>3, <1>5
<1>8. reservedSlots' = [w \in Workers |-> Minus(reservedSlots[w], count[w])]
  <2>1. \A w \in Workers : reservedSlots[w] \in Nat
    BY DEF TypeOK, RegistryTypeOK
  <2>2. \A w \in Workers : reservedSlots'[w] = Minus(reservedSlots[w], count[w])
    BY <2>1 DEF Minus, TypeOK, RegistryTypeOK
  <2> QED
    BY <2>2 DEF TypeOK, RegistryTypeOK
<1> HIDE DEF count, gone
<1> QED
  BY <1>1, <1>3, <1>6, <1>7, <1>8, SlotsShrink

\* The goroutine of a finished segment: what it reserves and gives back.
LEMMA SlotsPost ==
  ASSUME TypeOK, StructureInv, FailedStartIsFinal, SlotsInv, NEW t \in Tasks, PostStep(t)
  PROVE  SlotsInv'
<1>1. CASE ReleaseSegmentSlot(t)
  <2> DEFINE v == taskWorker[t]
  <2>1. post[t] \in {"release", "release_last"} /\ v \in Workers /\ v # NoWorker
    BY <1>1 DEF ReleaseSegmentSlot, StructureInv, JobsMatchCalls, OneStarter, TypeOK
  <2>2. reservedSlots' = [reservedSlots EXCEPT ![v] = Minus(@, 1)]
    <3>1. \A w \in Workers :
            reservedSlots'[w] = Minus(reservedSlots[w], IF w = v THEN 1 ELSE 0)
      BY <1>1 DEF ReleaseSegmentSlot, ReleaseReservations
    <3>2. \A w \in Workers : reservedSlots[w] \in Nat /\ Minus(reservedSlots[w], 0) = reservedSlots[w]
      BY DEF TypeOK, RegistryTypeOK, Minus
    <3>3. DOMAIN reservedSlots' = Workers /\ reservedSlots' = [w \in Workers |-> reservedSlots'[w]]
      BY <1>1 DEF ReleaseSegmentSlot, ReleaseReservations
    <3> QED
      BY <2>1, <3>1, <3>2, <3>3 DEF TypeOK, RegistryTypeOK
  <2>3. \A w \in Workers : SegmentHolders(w)' =
                            IF w = v THEN SegmentHolders(w) \ {t} ELSE SegmentHolders(w)
    BY <1>1, <2>1 DEF ReleaseSegmentSlot, SegmentHolders, SegmentHolds, segmentVars, TypeOK
  <2>4. \A w \in Workers : AssembleHolders(w)' = AssembleHolders(w)
    BY <1>1, <2>1 DEF ReleaseSegmentSlot, AssembleHolders, AssembleHolds, assembleVars, TypeOK
  <2>5. t \in SegmentHolders(v)
    BY <2>1 DEF SegmentHolders, SegmentHolds
  <2> HIDE DEF v
  <2> QED
    BY <2>1, <2>2, <2>3, <2>4, <2>5, ReleaseOne
<1>2. ASSUME NEW need \in DiskNeeds, NEW v \in Workers, PickAssembleWorker(t, need, v)
      PROVE  SlotsInv'
  <2>1. /\ post[t] = "pick" /\ asmWorker[t] = NoWorker /\ v # NoWorker
        /\ report[t] # "released"
    BY <1>2, RegistryAssumption DEF PickAssembleWorker, StructureInv, AssemblyStages, NoWorker
  <2>2. \A w \in Workers : SegmentHolders(w)' = SegmentHolders(w)
    BY <1>2, <2>1 DEF PickAssembleWorker, SegmentHolders, SegmentHolds, segmentVars, TypeOK
  <2>3. \A w \in Workers : AssembleHolders(w)' =
                            IF w = v THEN AssembleHolders(w) \cup {t} ELSE AssembleHolders(w)
    BY <1>2, <2>1 DEF PickAssembleWorker, AssembleHolders, AssembleHolds, TypeOK
  <2>4. t \notin AssembleHolders(v)
    BY <2>1 DEF AssembleHolders, AssembleHolds
  <2>5. \A w \in Workers \ {v} : Owed(w)' = Owed(w)
    BY <2>2, <2>3 DEF Owed
  <2>6. Owed(v)' = Owed(v) + 1
    <3>1. Cardinality(AssembleHolders(v) \cup {t}) = Cardinality(AssembleHolders(v)) + 1
      BY <2>4, HoldersFinite, FS_AddElement
    <3>2. AssembleHolders(v)' = AssembleHolders(v) \cup {t}
      BY <2>3
    <3>3. /\ Cardinality(AssembleHolders(v)') = Cardinality(AssembleHolders(v)) + 1
          /\ Cardinality(SegmentHolders(v)') = Cardinality(SegmentHolders(v))
      BY <2>2, <3>1, <3>2, Zenon
    <3>4. Owed(v)' = Cardinality(SegmentHolders(v)') + Cardinality(AssembleHolders(v)')
      BY DEF Owed
    <3> QED
      BY <3>3, <3>4, HoldersFinite DEF Owed
  <2>7. reservedSlots' = [reservedSlots EXCEPT ![v] = @ + 1]
    BY <1>2 DEF PickAssembleWorker, ReserveSlotAndDisk
  <2> QED
    BY <2>5, <2>6, <2>7, SlotsGrow
<1>3. CASE AssembleIDError(t)
  <2> DEFINE v == asmWorker[t]
  <2>1. /\ post[t] = "insert" /\ v \in Workers /\ v # NoWorker
        /\ report[t] # "released"
    BY <1>3 DEF AssembleIDError, StructureInv, AssemblyStages, TypeOK
  <2>2. reservedSlots' = [reservedSlots EXCEPT ![v] = Minus(@, 1)]
    BY <1>3 DEF AssembleIDError, ReleaseReservation
  <2>3. \A w \in Workers : SegmentHolders(w)' = SegmentHolders(w)
    BY <1>3, <2>1 DEF AssembleIDError, SegmentHolders, SegmentHolds, segmentVars, TypeOK
  <2>4. \A w \in Workers : AssembleHolders(w)' =
                            IF w = v THEN AssembleHolders(w) \ {t} ELSE AssembleHolders(w)
    <3>1. \A w \in Workers : w # NoWorker
      BY RegistryAssumption DEF NoWorker
    <3> QED
      BY <1>3, <2>1, <3>1 DEF AssembleIDError, AssembleHolders, AssembleHolds, TypeOK
  <2>5. t \in AssembleHolders(v)
    BY <2>1 DEF AssembleHolders, AssembleHolds
  <2> HIDE DEF v
  <2> QED
    BY <2>1, <2>2, <2>3, <2>4, <2>5, ReleaseOne
<1>4. CASE ReleaseAssembleStart(t)
  <2> DEFINE v == asmWorker[t]
  <2>1. post[t] = "unreserve" /\ v \in Workers /\ v # NoWorker
    BY <1>4 DEF ReleaseAssembleStart, StructureInv, AssemblyStages, TypeOK
  <2>2. reservedSlots' = [reservedSlots EXCEPT ![v] = Minus(@, 1)]
    BY <1>4 DEF ReleaseAssembleStart, ReleaseReservation
  <2>3. \A w \in Workers : SegmentHolders(w)' = SegmentHolders(w)
    BY <1>4, <2>1 DEF ReleaseAssembleStart, SegmentHolders, SegmentHolds, segmentVars, TypeOK
  <2>4. \A w \in Workers : AssembleHolders(w)' =
                            IF w = v THEN AssembleHolders(w) \ {t} ELSE AssembleHolders(w)
    BY <1>4, <2>1 DEF ReleaseAssembleStart, AssembleHolders, AssembleHolds, assembleVars, TypeOK
  <2>5. ~LossyStart => t \in AssembleHolders(v)
    BY <2>1 DEF AssembleHolders, AssembleHolds, FailedStartIsFinal, StructureInv, AssemblyStages
  <2> HIDE DEF v
  <2> QED
    BY <2>1, <2>2, <2>3, <2>4, <2>5, ReleaseOne
<1>5. CASE \/ SnapshotSegments(t) \/ (\E need \in DiskNeeds : NoAssembleWorker(t, need))
           \/ MarkJobFailed(t) \/ StartAccepted(t) \/ StartRefused(t) \/ StartUndelivered(t)
           \/ StartAnswerLost(t) \/ MarkAssembleStartFailed(t)
  BY <1>5, SlotsQuiet DEF SnapshotSegments, NoAssembleWorker, MarkJobFailed, StartAccepted,
     StartRefused, StartUndelivered, StartAnswerLost, MarkAssembleStartFailed, TypeOK,
     registryVars, segmentVars, assembleVars
<1>6. ASSUME NEW disk \in HeartbeatDisks, StartRefusedForStorage(t, disk) PROVE SlotsInv'
  BY <1>6, SlotsQuiet DEF StartRefusedForStorage, UpdateWorkerObservedDiskFree, reserved, TypeOK,
     segmentVars, assembleVars
<1>7. CASE InsertAssembleTask(t)
  <2>1. UNCHANGED <<reservedSlots, taskWorker, asmWorker, report>> /\ post[t] = "insert"
    BY <1>7 DEF InsertAssembleTask, registryVars, segmentVars
  <2>2. \E p \in {"await", "unreserve"} : post' = [post EXCEPT ![t] = p]
    BY <1>7 DEF InsertAssembleTask
  <2> QED
    BY <2>1, <2>2, SlotsQuiet DEF TypeOK
<1> QED
  BY <1>1, <1>2, <1>3, <1>4, <1>5, <1>6, <1>7 DEF PostStep

\* The assemble worker's report gives its slot back.
LEMMA SlotsRun ==
  ASSUME TypeOK, StructureInv, FailedStartIsFinal, SlotsInv, NEW t \in Tasks,
         AssembleRun(t) \/ ReleaseAssembleReport(t)
  PROVE  SlotsInv'
<1>1. CASE WorkerStartsAssemble(t) \/ WorkerRefusesAssemble(t) \/ RejectAssembleReport(t)
  BY <1>1, SlotsQuiet DEF WorkerStartsAssemble, WorkerRefusesAssemble, RejectAssembleReport,
     registryVars, segmentVars
<1>2. ASSUME NEW u \in Tasks, NEW outcome \in {"completed", "failed"},
             FinishAssemble(t, u, outcome)
      PROVE  SlotsInv'
  <2>1. u = t /\ report[t] # "released"
    BY <1>2, FinishTarget DEF FinishAssemble, StructureInv, AssemblyStages
  <2> QED
    BY <1>2, <2>1, SlotsQuiet DEF FinishAssemble, registryVars, segmentVars, TypeOK
<1>3. CASE ReleaseAssembleReport(t)
  <2> DEFINE v == asmWorker[t]
  <2>1. report[t] = "release" /\ asmRun[t] = "reported" /\ v \in Workers /\ v # NoWorker
    BY <1>3 DEF ReleaseAssembleReport, StructureInv, AssemblyStages, TypeOK
  <2>2. reservedSlots' = [reservedSlots EXCEPT ![v] = Minus(@, 1)]
    BY <1>3 DEF ReleaseAssembleReport, ReleaseReservation
  <2>3. \A w \in Workers : SegmentHolders(w)' = SegmentHolders(w)
    BY <1>3 DEF ReleaseAssembleReport, SegmentHolders, SegmentHolds, segmentVars
  <2>4. \A w \in Workers : AssembleHolders(w)' =
                            IF w = v THEN AssembleHolders(w) \ {t} ELSE AssembleHolders(w)
    BY <1>3, <2>1 DEF ReleaseAssembleReport, AssembleHolders, AssembleHolds, TypeOK
  <2>5. ~LossyStart => t \in AssembleHolders(v)
    BY <2>1 DEF AssembleHolders, AssembleHolds, FailedStartIsFinal
  <2> HIDE DEF v
  <2> QED
    BY <2>1, <2>2, <2>3, <2>4, <2>5, ReleaseOne
<1> QED
  BY <1>1, <1>2, <1>3 DEF AssembleRun, CompleteAssembleJob, FailAssembleJob

\* Each step keeps the account of slots.
LEMMA SlotsStep ==
  TypeOK /\ StructureInv /\ FailedStartIsFinal /\ SlotsInv /\ [Next]_vars => SlotsInv'
<1> SUFFICES ASSUME TypeOK, StructureInv, FailedStartIsFinal, SlotsInv, [Next]_vars
             PROVE  SlotsInv'
  OBVIOUS
<1>1. CASE UNCHANGED <<reservedSlots, managerVars>>
  BY <1>1, SlotsQuiet DEF managerVars, segmentVars, assembleVars
<1>2. CASE UNCHANGED vars
  BY <1>1, <1>2 DEF vars, registryVars
<1>3. ASSUME NEW w \in Workers, NEW offer \in Offers, RegisterWorker(w, offer)
      PROVE  UNCHANGED reservedSlots
  BY <1>3 DEF RegisterWorker, reserved
<1>4. ASSUME NEW w \in Workers, NEW disk \in HeartbeatDisks, HeartbeatWorker(w, disk)
      PROVE  UNCHANGED reservedSlots
  BY <1>4 DEF HeartbeatWorker, reserved
<1>5. ASSUME NEW stale \in SUBSET online, MarkExpiredWorkers(stale) PROVE UNCHANGED reservedSlots
  BY <1>5 DEF MarkExpiredWorkers, reserved
<1>6. ASSUME RefreshBackpressureStatus PROVE UNCHANGED reservedSlots
  BY <1>6 DEF RefreshBackpressureStatus, reserved
<1> QED
  BY <1>1, <1>2, <1>3, <1>4, <1>5, <1>6, SlotsCreate, SlotsReport, SlotsPost, SlotsRun DEF Next

\* At the start no slot is reserved and no task holds one.
LEMMA SlotsInit == Init => SlotsInv
<1> SUFFICES ASSUME Init PROVE SlotsInv
  OBVIOUS
<1>1. ASSUME NEW w \in Workers PROVE reservedSlots[w] = 0 /\ Owed(w) = 0
  <2>1. SegmentHolders(w) = {} /\ AssembleHolders(w) = {}
    BY DEF Init, SegmentHolders, AssembleHolders, SegmentHolds, AssembleHolds
  <2>2. Cardinality(SegmentHolders(w)) = 0 /\ Cardinality(AssembleHolders(w)) = 0
    BY <2>1, FS_EmptySet, Zenon
  <2> QED
    BY <2>2 DEF Init, RegistryInit, Owed
<1> QED
  BY <1>1 DEF SlotsInv, NoSlotLeaks, SlotsExact

\* For any number of workers, jobs and segments: no slot stays reserved for a
\* task that is over, even when the answer of a start request is lost.
THEOREM SlotsNeverLeak == Spec => []NoSlotLeaks
<1>1. SlotsInv => NoSlotLeaks
  BY DEF SlotsInv
<1> QED
  BY <1>1, SlotsInit, SlotsStep, StructureInvariant, FailedStartInvariant, PTL DEF Spec

\* When no answer is lost, Entry's slot counts are exact.
THEOREM SlotsAreExact == ~LossyStart => (Spec => []SlotsExact)
<1> SUFFICES ASSUME ~LossyStart PROVE Spec => []SlotsExact
  OBVIOUS
<1>1. SlotsInv => SlotsExact
  BY DEF SlotsInv
<1> QED
  BY <1>1, SlotsInit, SlotsStep, StructureInvariant, FailedStartInvariant, PTL DEF Spec

-----------------------------------------------------------------------------
(***************************************************************************)
(* Disk.  OwedDisk is a fold over a set of tasks.  The inductions over     *)
(* sets are by a least counterexample, because the induction theorems of   *)
(* the library take an operator.                                           *)
(***************************************************************************)

\* The disk that f gives to the tasks of S.
DiskSum(f, S) == MapThenSumSet(LAMBDA t : f[t], S)

\* The element a fold takes next.
Pick(s) == CHOOSE x \in s : TRUE

\* g has the sums of all subsets of S.
Folds(f, S, g) ==
  g = [s \in SUBSET S |-> IF s = {} THEN 0 ELSE f[Pick(s)] + g[s \ {Pick(s)}]]

\* What is owed is such a sum, before a step and after it.
LEMMA OwedDiskIs ==
  \A w : /\ OwedDisk(w) = DiskSum(asmDisk, AssembleHolders(w))
         /\ OwedDisk(w)' = DiskSum(asmDisk', AssembleHolders(w)')
<1>1. \A w : OwedDisk(w) = DiskSum(asmDisk, AssembleHolders(w))
  BY Zenon DEF OwedDisk, DiskSum, MapThenSumSet, MapThenFoldSet
<1>2. \A w : OwedDisk(w)' = DiskSum(asmDisk', AssembleHolders(w)')
  BY Zenon DEF OwedDisk, DiskSum, MapThenSumSet, MapThenFoldSet
<1> QED
  BY <1>1, <1>2

\* The subsets of a finite set have a least counterexample.
LEMMA LeastSet ==
  ASSUME NEW S, IsFiniteSet(S), NEW C \in SUBSET (SUBSET S), C # {}
  PROVE  \E m \in C : \A k \in C : k \subseteq m => k = m
<1>1. IsWellFoundedOn(StrictSubsetOrdering(S), SUBSET S)
  BY FS_StrictSubsetOrderingWellFounded, FS_FiniteSubsetsOfFinite
<1>2. PICK m \in C : \A k \in C : ~(<<k, m>> \in StrictSubsetOrdering(S))
  BY <1>1, WFMin
<1>3. \A k \in C : k \subseteq m /\ k # m => <<k, m>> \in StrictSubsetOrdering(S)
  BY DEF StrictSubsetOrdering
<1>4. \A k \in C : k \subseteq m => k = m
  BY <1>2, <1>3, Zenon
<1> QED
  BY <1>4

\* The two give the same disk to the tasks of S.
SameOn(f, h, S) == \A t \in S : f[t] = h[t]

\* The next element is one of the set.
LEMMA PickIn == ASSUME NEW s, s # {} PROVE Pick(s) \in s
BY DEF Pick

\* The sums of the subsets do not depend on the set they are subsets of.
LEMMA FoldUnique ==
  ASSUME NEW S, NEW T, IsFiniteSet(T), T \subseteq S, NEW f, NEW e, SameOn(f, e, T),
         NEW g, NEW h, Folds(f, S, g), Folds(e, T, h)
  PROVE  SameOn(g, h, SUBSET T)
<1> DEFINE Bad == {s \in SUBSET T : g[s] # h[s]}
<1> SUFFICES ASSUME Bad # {} PROVE FALSE
  BY DEF SameOn
<1>1. PICK s \in Bad : \A k \in Bad : k \subseteq s => k = s
  <2>1. Bad \in SUBSET (SUBSET T)
    OBVIOUS
  <2> HIDE DEF Bad
  <2> QED
    BY <2>1, LeastSet
<1>2. s \in SUBSET T /\ s \in SUBSET S /\ g[s] # h[s]
  OBVIOUS
<1>3. g[s] = IF s = {} THEN 0 ELSE f[Pick(s)] + g[s \ {Pick(s)}]
  BY <1>2, Zenon DEF Folds
<1>4. h[s] = IF s = {} THEN 0 ELSE e[Pick(s)] + h[s \ {Pick(s)}]
  BY <1>2, Zenon DEF Folds
<1>5. CASE s = {}
  BY <1>2, <1>3, <1>4, <1>5
<1>6. CASE s # {}
  <2>1. Pick(s) \in s /\ Pick(s) \in T
    BY <1>2, <1>6, PickIn
  <2>2. f[Pick(s)] = e[Pick(s)]
    BY <2>1 DEF SameOn
  <2>3. g[s \ {Pick(s)}] = h[s \ {Pick(s)}]
    <3>1. s \ {Pick(s)} \in SUBSET T /\ s \ {Pick(s)} \subseteq s /\ s \ {Pick(s)} # s
      BY <1>2, <2>1
    <3>2. s \ {Pick(s)} \notin Bad
      BY <1>1, <3>1
    <3> QED
      BY <3>1, <3>2
  <2> QED
    BY <1>2, <1>3, <1>4, <1>6, <2>2, <2>3
<1> QED
  BY <1>5, <1>6

\* The value a fold over s has.
Value(f, s) == (CHOOSE g : Folds(f, s, g))[s]

\* There is such a g.
LEMMA FoldExists ==
  ASSUME NEW S, IsFiniteSet(S), NEW f
  PROVE  \E g : Folds(f, S, g)
<1> DEFINE Bad == {m \in SUBSET S : ~\E g : Folds(f, m, g)}
<1> SUFFICES ASSUME Bad # {} PROVE FALSE
  OBVIOUS
<1>1. PICK m \in Bad : \A k \in Bad : k \subseteq m => k = m
  <2>1. Bad \in SUBSET (SUBSET S)
    OBVIOUS
  <2> HIDE DEF Bad
  <2> QED
    BY <2>1, LeastSet
<1>2. m \in SUBSET S /\ ~\E g : Folds(f, m, g)
  OBVIOUS
<1>3. \A s \in SUBSET m : s # m => Folds(f, s, CHOOSE g : Folds(f, s, g))
  <2> SUFFICES ASSUME NEW s \in SUBSET m, s # m PROVE \E g : Folds(f, s, g)
    BY Zenon
  <2>1. s \in SUBSET S /\ s \notin Bad
    BY <1>1, <1>2
  <2> QED
    BY <2>1
<1>4. ASSUME NEW s \in SUBSET m, s # m
      PROVE  Value(f, s) = IF s = {} THEN 0 ELSE f[Pick(s)] + Value(f, s \ {Pick(s)})
  <2> DEFINE G == CHOOSE g : Folds(f, s, g)
             r == s \ {Pick(s)}
             H == CHOOSE g : Folds(f, r, g)
  <2>1. Folds(f, s, G)
    BY <1>3, <1>4
  <2>2. Value(f, s) = G[s] /\ Value(f, r) = H[r]
    BY Zenon DEF Value
  <2>3. s # {} => Folds(f, r, H)
    <3> SUFFICES ASSUME s # {} PROVE r \in SUBSET m /\ r # m
      BY <1>3, Zenon
    <3> QED
      BY <1>4, PickIn
  <2> HIDE DEF G, H
  <2>4. G[s] = IF s = {} THEN 0 ELSE f[Pick(s)] + G[r]
    <3>1. s \in SUBSET s
      OBVIOUS
    <3>2. G = [k \in SUBSET s |-> IF k = {} THEN 0 ELSE f[Pick(k)] + G[k \ {Pick(k)}]]
      BY <2>1 DEF Folds
    <3> QED
      BY <3>1, <3>2, Zenon
  <2>5. s # {} => G[r] = H[r]
    <3> SUFFICES ASSUME s # {} PROVE G[r] = H[r]
      OBVIOUS
    <3>1. r \subseteq s /\ IsFiniteSet(r)
      BY <1>2, FS_Subset
    <3>2. SameOn(f, f, r)
      BY DEF SameOn
    <3> HIDE DEF r
    <3>3. SameOn(G, H, SUBSET r)
      BY <2>1, <2>3, <3>1, <3>2, FoldUnique
    <3> QED
      BY <3>3 DEF SameOn
  <2> QED
    BY <2>2, <2>4, <2>5, Zenon
<1> DEFINE last == IF m = {} THEN 0 ELSE f[Pick(m)] + Value(f, m \ {Pick(m)})
           h == [s \in SUBSET m |-> IF s = m THEN last ELSE Value(f, s)]
<1>5. h[m] = last /\ \A s \in SUBSET m : s # m => h[s] = Value(f, s)
  OBVIOUS
<1>6. \A s \in SUBSET m : h[s] = IF s = {} THEN 0 ELSE f[Pick(s)] + h[s \ {Pick(s)}]
  <2> SUFFICES ASSUME NEW s \in SUBSET m
               PROVE  h[s] = IF s = {} THEN 0 ELSE f[Pick(s)] + h[s \ {Pick(s)}]
    OBVIOUS
  <2>1. s # {} => s \ {Pick(s)} \in SUBSET m /\ s \ {Pick(s)} # m
    BY PickIn
  <2>2. s # {} => h[s \ {Pick(s)}] = Value(f, s \ {Pick(s)})
    BY <1>5, <2>1
  <2> HIDE DEF h
  <2>3. CASE s = m
    BY <1>5, <2>2, <2>3, Zenon
  <2>4. CASE s # m
    BY <1>4, <1>5, <2>2, <2>4, Zenon
  <2> QED
    BY <2>3, <2>4
<1>7. h = [s \in SUBSET m |-> h[s]]
  OBVIOUS
<1> HIDE DEF h
<1>8. Folds(f, m, h)
  BY <1>6, <1>7, Zenon DEF Folds
<1> QED
  BY <1>2, <1>8

\* DiskSum is the sum of the whole set.
LEMMA DiskSumIs ==
  ASSUME NEW S, IsFiniteSet(S), NEW f
  PROVE  \E g : Folds(f, S, g) /\ DiskSum(f, S) = g[S]
<1> DEFINE G == CHOOSE g : g = [s \in SUBSET S |->
                  IF s = {} THEN 0 ELSE f[CHOOSE x \in s : TRUE] + g[s \ {CHOOSE x \in s : TRUE}]]
<1>1. \E g : Folds(f, S, g)
  BY FoldExists
<1>2. Folds(f, S, G)
  BY <1>1, Zenon DEF Folds, Pick
<1>3. DiskSum(f, S) = G[S]
  BY Zenon DEF DiskSum, MapThenSumSet, MapThenFoldSet
<1> QED
  BY <1>2, <1>3, Zenon

\* The sum of a set, element by element as the fold takes them.
LEMMA DiskSumPick ==
  ASSUME NEW S, IsFiniteSet(S), NEW f
  PROVE  DiskSum(f, S) = IF S = {} THEN 0 ELSE f[Pick(S)] + DiskSum(f, S \ {Pick(S)})
<1>1. PICK g : Folds(f, S, g) /\ DiskSum(f, S) = g[S]
  BY DiskSumIs
<1>2. g[S] = IF S = {} THEN 0 ELSE f[Pick(S)] + g[S \ {Pick(S)}]
  <2>1. S \in SUBSET S
    OBVIOUS
  <2> QED
    BY <1>1, <2>1, Zenon DEF Folds
<1> DEFINE T == S \ {Pick(S)}
<1>3. T \subseteq S /\ IsFiniteSet(T) /\ SameOn(f, f, T)
  BY FS_Subset DEF SameOn
<1> HIDE DEF T
<1>4. PICK h : Folds(f, T, h) /\ DiskSum(f, T) = h[T]
  BY <1>3, DiskSumIs
<1>5. SameOn(g, h, SUBSET T)
  BY <1>1, <1>3, <1>4, FoldUnique
<1>6. g[T] = h[T]
  BY <1>5 DEF SameOn
<1> QED
  BY <1>1, <1>2, <1>4, <1>6, Zenon DEF T

\* Only the disks of its elements matter.
LEMMA DiskSumSame ==
  ASSUME NEW S, IsFiniteSet(S), NEW f, NEW e, SameOn(f, e, S)
  PROVE  DiskSum(f, S) = DiskSum(e, S)
<1>1. PICK g : Folds(f, S, g) /\ DiskSum(f, S) = g[S]
  BY DiskSumIs
<1>2. PICK h : Folds(e, S, h) /\ DiskSum(e, S) = h[S]
  BY DiskSumIs
<1>3. S \subseteq S
  OBVIOUS
<1>4. SameOn(g, h, SUBSET S)
  BY <1>1, <1>2, <1>3, FoldUnique
<1> QED
  BY <1>1, <1>2, <1>4 DEF SameOn

\* The sum is a number, and any element may be taken out first.
LEMMA DiskSumTake ==
  ASSUME NEW S, IsFiniteSet(S), NEW f, \A t \in S : f[t] \in Nat
  PROVE  DiskSum(f, S) \in Nat /\ \A t \in S : DiskSum(f, S) = f[t] + DiskSum(f, S \ {t})
<1> DEFINE Good(s) == DiskSum(f, s) \in Nat /\ \A t \in s : DiskSum(f, s) = f[t] + DiskSum(f, s \ {t})
           Bad == {s \in SUBSET S : ~Good(s)}
<1> SUFFICES ASSUME Bad # {} PROVE FALSE
  OBVIOUS
<1>1. PICK s \in Bad : \A k \in Bad : k \subseteq s => k = s
  <2>1. Bad \in SUBSET (SUBSET S)
    OBVIOUS
  <2> HIDE DEF Bad
  <2> QED
    BY <2>1, LeastSet
<1>2. s \in SUBSET S /\ ~Good(s) /\ IsFiniteSet(s)
  BY FS_Subset
<1>3. \A k \in SUBSET s : k # s => Good(k)
  BY <1>1, <1>2
<1>4. DiskSum(f, s) = IF s = {} THEN 0 ELSE f[Pick(s)] + DiskSum(f, s \ {Pick(s)})
  BY <1>2, DiskSumPick
<1>5. CASE s = {}
  BY <1>2, <1>4, <1>5
<1>6. CASE s # {}
  <2> DEFINE c == Pick(s)
  <2>1. c \in s /\ f[c] \in Nat /\ s \ {c} \in SUBSET s /\ s \ {c} # s
    BY <1>2, <1>6, PickIn
  <2>2. Good(s \ {c})
    BY <1>3, <2>1
  <2>3. DiskSum(f, s) = f[c] + DiskSum(f, s \ {c}) /\ DiskSum(f, s) \in Nat
    BY <1>4, <1>6, <2>1, <2>2
  <2> HIDE DEF c
  <2>4. ASSUME NEW t \in s, t # c PROVE DiskSum(f, s) = f[t] + DiskSum(f, s \ {t})
    <3>1. DiskSum(f, s \ {c}) = f[t] + DiskSum(f, (s \ {c}) \ {t})
      BY <2>2, <2>4
    <3>2. DiskSum(f, s \ {t}) = f[c] + DiskSum(f, (s \ {t}) \ {c})
      <4>1. s \ {t} \in SUBSET s /\ s \ {t} # s /\ c \in s \ {t}
        BY <2>1, <2>4
      <4> QED
        BY <1>3, <4>1
    <3>3. (s \ {t}) \ {c} = (s \ {c}) \ {t}
      OBVIOUS
    <3>4. DiskSum(f, (s \ {c}) \ {t}) \in Nat
      <4>1. (s \ {c}) \ {t} \in SUBSET s /\ (s \ {c}) \ {t} # s
        BY <2>1
      <4> QED
        BY <1>3, <4>1
    <3>5. f[t] \in Nat
      BY <1>2
    <3>6. DiskSum(f, s \ {t}) = f[c] + DiskSum(f, (s \ {c}) \ {t})
      BY <3>2, <3>3, Zenon
    <3> QED
      BY <2>1, <2>3, <3>1, <3>4, <3>5, <3>6
  <2>5. Good(s)
    BY <2>3, <2>4
  <2> QED
    BY <1>2, <2>5
<1> QED
  BY <1>5, <1>6

-----------------------------------------------------------------------------
(* The account of the disk. *)

\* No disk stays promised to an assembly that is over.
NoDiskLeaks == \A w \in Workers : reservedDisk[w] <= OwedDisk(w)

DiskInv == NoDiskLeaks /\ (~LossyStart => DiskExact)

\* What is owed is a number.
LEMMA OwedDiskNat ==
  ASSUME TypeOK, NEW w
  PROVE  /\ OwedDisk(w) \in Nat
         /\ \A t \in AssembleHolders(w) :
              OwedDisk(w) = asmDisk[t] + DiskSum(asmDisk, AssembleHolders(w) \ {t})
<1>1. \A t \in AssembleHolders(w) : asmDisk[t] \in Nat
  BY DEF AssembleHolders, TypeOK
<1> QED
  BY <1>1, HoldersFinite, DiskSumTake, OwedDiskIs

\* A step after which the same tasks hold the same disk.
LEMMA DiskQuiet ==
  ASSUME DiskInv, UNCHANGED <<reservedDisk, asmWorker, asmDisk>>,
         \A t \in Tasks :
           /\ post'[t] = "unreserved" <=> post[t] = "unreserved"
           /\ report'[t] = "released" <=> report[t] = "released"
  PROVE  DiskInv'
<1>1. \A w \in Workers : AssembleHolders(w)' = AssembleHolders(w)
  BY DEF AssembleHolders, AssembleHolds
<1>2. \A w \in Workers : OwedDisk(w)' = OwedDisk(w)
  BY <1>1, OwedDiskIs, Zenon
<1> QED
  BY <1>2 DEF DiskInv, NoDiskLeaks, DiskExact

\* The disk of t goes back on v, if t still held it.
LEMMA DiskRelease ==
  ASSUME TypeOK, DiskInv, NEW v \in Workers, NEW t \in Tasks,
         reservedDisk' = [reservedDisk EXCEPT ![v] = Minus(@, asmDisk[t])],
         \A u \in Tasks \ {t} : asmDisk'[u] = asmDisk[u],
         \A w \in Workers : AssembleHolders(w)' =
                              IF w = v THEN AssembleHolders(w) \ {t} ELSE AssembleHolders(w),
         \A w \in Workers \ {v} : t \notin AssembleHolders(w),
         ~LossyStart => t \in AssembleHolders(v)
  PROVE  DiskInv'
<1>1. \A w \in Workers : OwedDisk(w)' = DiskSum(asmDisk, AssembleHolders(w)')
  <2> SUFFICES ASSUME NEW w \in Workers
               PROVE  OwedDisk(w)' = DiskSum(asmDisk, AssembleHolders(w)')
    OBVIOUS
  <2>1. AssembleHolders(w)' \subseteq Tasks \ {t}
    BY DEF AssembleHolders
  <2>2. SameOn(asmDisk', asmDisk, AssembleHolders(w)')
    BY <2>1 DEF SameOn
  <2>3. IsFiniteSet(AssembleHolders(w)')
    BY HoldersFiniteNext
  <2>4. DiskSum(asmDisk', AssembleHolders(w)') = DiskSum(asmDisk, AssembleHolders(w)')
    BY <2>2, <2>3, DiskSumSame
  <2> QED
    BY <2>4, OwedDiskIs, Zenon
<1>2. ASSUME NEW w \in Workers \ {v} PROVE OwedDisk(w)' = OwedDisk(w) /\ reservedDisk'[w] = reservedDisk[w]
  <2>1. AssembleHolders(w)' = AssembleHolders(w)
    OBVIOUS
  <2>2. OwedDisk(w)' = OwedDisk(w)
    BY <1>1, <2>1, OwedDiskIs, Zenon
  <2> QED
    BY <2>2 DEF TypeOK, RegistryTypeOK
<1>3. /\ reservedDisk[v] \in Nat /\ asmDisk[t] \in Nat /\ OwedDisk(v) \in Nat
      /\ reservedDisk'[v] = Minus(reservedDisk[v], asmDisk[t])
  BY OwedDiskNat DEF TypeOK, RegistryTypeOK
<1>4. /\ OwedDisk(v)' = IF t \in AssembleHolders(v) THEN OwedDisk(v) - asmDisk[t] ELSE OwedDisk(v)
      /\ OwedDisk(v)' \in Nat
  <2>1. AssembleHolders(v)' = AssembleHolders(v) \ {t}
    OBVIOUS
  <2>2. OwedDisk(v)' = DiskSum(asmDisk, AssembleHolders(v) \ {t})
    BY <1>1, <2>1, Zenon
  <2>3. CASE t \in AssembleHolders(v)
    <3>1. OwedDisk(v) = asmDisk[t] + DiskSum(asmDisk, AssembleHolders(v) \ {t})
      BY <2>3, OwedDiskNat
    <3>2. DiskSum(asmDisk, AssembleHolders(v) \ {t}) \in Nat
      <4>1. IsFiniteSet(AssembleHolders(v) \ {t})
        BY HoldersFinite, FS_Subset
      <4>2. \A u \in AssembleHolders(v) \ {t} : asmDisk[u] \in Nat
        BY DEF AssembleHolders, TypeOK
      <4> QED
        BY <4>1, <4>2, DiskSumTake
    <3> QED
      BY <1>3, <2>2, <2>3, <3>1, <3>2
  <2>4. CASE t \notin AssembleHolders(v)
    <3>1. AssembleHolders(v) \ {t} = AssembleHolders(v)
      BY <2>4
    <3>2. OwedDisk(v)' = OwedDisk(v)
      BY <2>2, <3>1, OwedDiskIs, Zenon
    <3> QED
      BY <1>3, <2>4, <3>2
  <2> QED
    BY <2>3, <2>4
<1>5. reservedDisk'[v] <= OwedDisk(v)'
  BY <1>3, <1>4 DEF DiskInv, NoDiskLeaks, Minus
<1>6. ~LossyStart => reservedDisk'[v] = OwedDisk(v)'
  BY <1>3, <1>4 DEF DiskInv, DiskExact, Minus
<1>7. NoDiskLeaks'
  BY <1>2, <1>5 DEF DiskInv, NoDiskLeaks
<1>8. ~LossyStart => DiskExact'
  BY <1>2, <1>6 DEF DiskInv, DiskExact
<1> QED
  BY <1>7, <1>8 DEF DiskInv

\* The goroutine of a finished segment: the disk it reserves and gives back.
LEMMA DiskPost ==
  ASSUME TypeOK, StructureInv, FailedStartIsFinal, DiskInv, NEW t \in Tasks, PostStep(t)
  PROVE  DiskInv'
<1>0. \A w \in Workers : w # NoWorker
  BY RegistryAssumption DEF NoWorker
<1>1. ASSUME NEW need \in DiskNeeds, NEW v \in Workers, PickAssembleWorker(t, need, v)
      PROVE  DiskInv'
  <2>1. /\ post[t] = "pick" /\ asmWorker[t] = NoWorker /\ report[t] # "released"
        /\ need \in Nat
    BY <1>1, JobManagerAssumption DEF PickAssembleWorker, StructureInv, AssemblyStages
  <2>2. \A w \in Workers : AssembleHolders(w)' =
                            IF w = v THEN AssembleHolders(w) \cup {t} ELSE AssembleHolders(w)
    BY <1>0, <1>1, <2>1 DEF PickAssembleWorker, AssembleHolders, AssembleHolds, TypeOK
  <2>3. \A w \in Workers : t \notin AssembleHolders(w) /\ AssembleHolders(w) \subseteq Tasks
    BY <1>0, <2>1 DEF AssembleHolders, AssembleHolds
  <2>4. asmDisk' = [asmDisk EXCEPT ![t] = need] /\ asmDisk \in [Tasks -> Nat] /\ asmDisk'[t] = need
    BY <1>1 DEF PickAssembleWorker, TypeOK
  <2>5. \A w \in Workers : DiskSum(asmDisk', AssembleHolders(w)) = OwedDisk(w)
    <3> SUFFICES ASSUME NEW w \in Workers
                 PROVE  DiskSum(asmDisk', AssembleHolders(w)) = OwedDisk(w)
      OBVIOUS
    <3>1. SameOn(asmDisk', asmDisk, AssembleHolders(w))
      BY <2>3, <2>4 DEF SameOn
    <3> QED
      BY <3>1, HoldersFinite, DiskSumSame, OwedDiskIs
  <2>6. \A w \in Workers \ {v} : OwedDisk(w)' = OwedDisk(w)
    BY <2>2, <2>5, OwedDiskIs
  <2>7. OwedDisk(v)' = OwedDisk(v) + need
    <3> DEFINE S == AssembleHolders(v)'
    <3>1. S = AssembleHolders(v) \cup {t} /\ S \ {t} = AssembleHolders(v) /\ t \in S
      BY <2>2, <2>3
    <3>2. IsFiniteSet(S)
      BY HoldersFiniteNext
    <3>3. \A u \in S : asmDisk'[u] \in Nat
      BY <2>1, <2>3, <2>4, <3>1
    <3>4. OwedDisk(v)' = DiskSum(asmDisk', S)
      BY OwedDiskIs
    <3> HIDE DEF S
    <3>5. DiskSum(asmDisk', S) = asmDisk'[t] + DiskSum(asmDisk', S \ {t})
      BY <3>1, <3>2, <3>3, DiskSumTake
    <3>6. DiskSum(asmDisk', S \ {t}) = OwedDisk(v)
      BY <2>5, <3>1, Zenon
    <3> QED
      BY <2>1, <2>4, <3>4, <3>5, <3>6, OwedDiskNat
  <2>8. \A w \in Workers : /\ reservedDisk[w] \in Nat /\ OwedDisk(w) \in Nat
                           /\ reservedDisk'[w] = IF w = v THEN reservedDisk[w] + need ELSE reservedDisk[w]
    BY <1>1, OwedDiskNat DEF PickAssembleWorker, ReserveSlotAndDisk, TypeOK, RegistryTypeOK
  <2>9. NoDiskLeaks'
    BY <2>1, <2>6, <2>7, <2>8 DEF DiskInv, NoDiskLeaks
  <2>10. ~LossyStart => DiskExact'
    BY <2>1, <2>6, <2>7, <2>8 DEF DiskInv, DiskExact
  <2> QED
    BY <2>9, <2>10 DEF DiskInv
<1>2. CASE AssembleIDError(t)
  <2> DEFINE v == asmWorker[t]
  <2>1. post[t] = "insert" /\ v \in Workers /\ v # NoWorker /\ report[t] # "released"
    BY <1>2 DEF AssembleIDError, StructureInv, AssemblyStages, TypeOK
  <2>2. /\ reservedDisk' = [reservedDisk EXCEPT ![v] = Minus(@, asmDisk[t])]
        /\ \A u \in Tasks \ {t} : asmDisk'[u] = asmDisk[u]
    BY <1>2 DEF AssembleIDError, ReleaseReservation, TypeOK
  <2>3. \A w \in Workers : AssembleHolders(w)' =
                            IF w = v THEN AssembleHolders(w) \ {t} ELSE AssembleHolders(w)
    BY <1>0, <1>2, <2>1 DEF AssembleIDError, AssembleHolders, AssembleHolds, TypeOK
  <2>4. t \in AssembleHolders(v) /\ \A w \in Workers \ {v} : t \notin AssembleHolders(w)
    BY <2>1 DEF AssembleHolders, AssembleHolds
  <2> HIDE DEF v
  <2> QED
    BY <2>1, <2>2, <2>3, <2>4, DiskRelease
<1>3. CASE ReleaseAssembleStart(t)
  <2> DEFINE v == asmWorker[t]
  <2>1. post[t] = "unreserve" /\ v \in Workers /\ v # NoWorker
    BY <1>3 DEF ReleaseAssembleStart, StructureInv, AssemblyStages, TypeOK
  <2>2. /\ reservedDisk' = [reservedDisk EXCEPT ![v] = Minus(@, asmDisk[t])]
        /\ \A u \in Tasks \ {t} : asmDisk'[u] = asmDisk[u]
    BY <1>3 DEF ReleaseAssembleStart, ReleaseReservation, assembleVars
  <2>3. \A w \in Workers : AssembleHolders(w)' =
                            IF w = v THEN AssembleHolders(w) \ {t} ELSE AssembleHolders(w)
    BY <1>3, <2>1 DEF ReleaseAssembleStart, AssembleHolders, AssembleHolds, assembleVars, TypeOK
  <2>4. ~LossyStart => t \in AssembleHolders(v)
    BY <2>1 DEF AssembleHolders, AssembleHolds, FailedStartIsFinal, StructureInv, AssemblyStages
  <2>5. \A w \in Workers \ {v} : t \notin AssembleHolders(w)
    BY DEF AssembleHolders
  <2> HIDE DEF v
  <2> QED
    BY <2>1, <2>2, <2>3, <2>4, <2>5, DiskRelease
<1>4. CASE ReleaseSegmentSlot(t)
  BY <1>4, DiskQuiet DEF ReleaseSegmentSlot, ReleaseReservations, assembleVars, TypeOK
<1>5. CASE \/ SnapshotSegments(t) \/ (\E need \in DiskNeeds : NoAssembleWorker(t, need))
           \/ MarkJobFailed(t) \/ StartAccepted(t) \/ StartRefused(t) \/ StartUndelivered(t)
           \/ StartAnswerLost(t) \/ MarkAssembleStartFailed(t)
  BY <1>5, DiskQuiet DEF SnapshotSegments, NoAssembleWorker, MarkJobFailed, StartAccepted,
     StartRefused, StartUndelivered, StartAnswerLost, MarkAssembleStartFailed, TypeOK,
     registryVars, segmentVars, assembleVars
<1>6. ASSUME NEW disk \in HeartbeatDisks, StartRefusedForStorage(t, disk) PROVE DiskInv'
  BY <1>6, DiskQuiet DEF StartRefusedForStorage, UpdateWorkerObservedDiskFree, reserved, TypeOK,
     segmentVars, assembleVars
<1>7. CASE InsertAssembleTask(t)
  <2>1. UNCHANGED <<reservedDisk, asmWorker, asmDisk, report>> /\ post[t] = "insert"
    BY <1>7 DEF InsertAssembleTask, registryVars, segmentVars
  <2>2. \E p \in {"await", "unreserve"} : post' = [post EXCEPT ![t] = p]
    BY <1>7 DEF InsertAssembleTask
  <2> QED
    BY <2>1, <2>2, DiskQuiet DEF TypeOK
<1> QED
  BY <1>1, <1>2, <1>3, <1>4, <1>5, <1>6, <1>7 DEF PostStep

\* The assemble worker's report gives its disk back.
LEMMA DiskRun ==
  ASSUME TypeOK, StructureInv, FailedStartIsFinal, DiskInv, NEW t \in Tasks,
         AssembleRun(t) \/ ReleaseAssembleReport(t)
  PROVE  DiskInv'
<1>1. CASE WorkerStartsAssemble(t) \/ WorkerRefusesAssemble(t) \/ RejectAssembleReport(t)
  BY <1>1, DiskQuiet DEF WorkerStartsAssemble, WorkerRefusesAssemble, RejectAssembleReport,
     registryVars, segmentVars
<1>2. ASSUME NEW u \in Tasks, NEW outcome \in {"completed", "failed"},
             FinishAssemble(t, u, outcome)
      PROVE  DiskInv'
  <2>1. u = t /\ report[t] # "released"
    BY <1>2, FinishTarget DEF FinishAssemble, StructureInv, AssemblyStages
  <2> QED
    BY <1>2, <2>1, DiskQuiet DEF FinishAssemble, registryVars, segmentVars, TypeOK
<1>3. CASE ReleaseAssembleReport(t)
  <2> DEFINE v == asmWorker[t]
  <2>1. report[t] = "release" /\ asmRun[t] = "reported" /\ v \in Workers /\ v # NoWorker
    BY <1>3 DEF ReleaseAssembleReport, StructureInv, AssemblyStages, TypeOK
  <2>2. /\ reservedDisk' = [reservedDisk EXCEPT ![v] = Minus(@, asmDisk[t])]
        /\ \A u \in Tasks \ {t} : asmDisk'[u] = asmDisk[u]
    BY <1>3 DEF ReleaseAssembleReport, ReleaseReservation
  <2>3. \A w \in Workers : AssembleHolders(w)' =
                            IF w = v THEN AssembleHolders(w) \ {t} ELSE AssembleHolders(w)
    BY <1>3, <2>1 DEF ReleaseAssembleReport, AssembleHolders, AssembleHolds, TypeOK
  <2>4. ~LossyStart => t \in AssembleHolders(v)
    BY <2>1 DEF AssembleHolders, AssembleHolds, FailedStartIsFinal
  <2>5. \A w \in Workers \ {v} : t \notin AssembleHolders(w)
    BY DEF AssembleHolders
  <2> HIDE DEF v
  <2> QED
    BY <2>1, <2>2, <2>3, <2>4, <2>5, DiskRelease
<1> QED
  BY <1>1, <1>2, <1>3 DEF AssembleRun, CompleteAssembleJob, FailAssembleJob

\* Every step keeps the account of the disk.
LEMMA DiskStep ==
  TypeOK /\ StructureInv /\ FailedStartIsFinal /\ DiskInv /\ [Next]_vars => DiskInv'
<1> SUFFICES ASSUME TypeOK, StructureInv, FailedStartIsFinal, DiskInv, [Next]_vars
             PROVE  DiskInv'
  OBVIOUS
<1>1. CASE UNCHANGED <<reservedDisk, managerVars>>
  BY <1>1, DiskQuiet DEF managerVars, segmentVars, assembleVars
<1>2. CASE UNCHANGED vars
  BY <1>1, <1>2 DEF vars, registryVars
<1>3. ASSUME NEW w \in Workers, NEW offer \in Offers, RegisterWorker(w, offer)
      PROVE  UNCHANGED reservedDisk
  BY <1>3 DEF RegisterWorker, reserved
<1>4. ASSUME NEW w \in Workers, NEW disk \in HeartbeatDisks, HeartbeatWorker(w, disk)
      PROVE  UNCHANGED reservedDisk
  BY <1>4 DEF HeartbeatWorker, reserved
<1>5. ASSUME NEW stale \in SUBSET online, MarkExpiredWorkers(stale) PROVE UNCHANGED reservedDisk
  BY <1>5 DEF MarkExpiredWorkers, reserved
<1>6. ASSUME RefreshBackpressureStatus PROVE UNCHANGED reservedDisk
  BY <1>6 DEF RefreshBackpressureStatus, reserved
<1>7. ASSUME NEW j \in Jobs, CreateStep(j) PROVE DiskInv'
  <2>1. UNCHANGED <<reservedDisk, post, asmWorker, asmDisk, report>>
    BY <1>7 DEF CreateStep, CreateJob, ReserveSegment, ReserveSlot, GiveUpReserving, RejectJob,
       CommitJob, CommitFindsJob, ReleaseAll, ReleaseReservations, registryVars, assembleVars
  <2> QED
    BY <2>1, DiskQuiet
<1>8. ASSUME NEW t \in Tasks, SegmentReport(t) PROVE DiskInv'
  <2>1. UNCHANGED <<reservedDisk, asmWorker, asmDisk, report>>
    BY <1>8 DEF SegmentReport, AcceptSegmentTask, CompleteSegmentTask, FailSegmentTask,
       registryVars, assembleVars
  <2>2. post' = post \/ (taskStatus[t] \in {"assigned", "running"} /\
           \E p \in {"release", "release_last"} : post' = [post EXCEPT ![t] = p])
    BY <1>8 DEF SegmentReport, AcceptSegmentTask, CompleteSegmentTask, FailSegmentTask
  <2>3. taskStatus[t] \in {"assigned", "running"} => post[t] = "idle"
    BY DEF StructureInv, OneStarter
  <2> QED
    BY <2>1, <2>2, <2>3, DiskQuiet DEF TypeOK
<1> QED
  BY <1>1, <1>2, <1>3, <1>4, <1>5, <1>6, <1>7, <1>8, DiskPost, DiskRun DEF Next

\* At the start no disk is promised.
LEMMA DiskInit == Init => DiskInv
<1> SUFFICES ASSUME Init PROVE DiskInv
  OBVIOUS
<1>1. ASSUME NEW w \in Workers PROVE reservedDisk[w] = 0 /\ OwedDisk(w) = 0
  <2>1. AssembleHolders(w) = {} /\ reservedDisk[w] = 0
    BY DEF Init, RegistryInit, AssembleHolders, AssembleHolds
  <2>2. DiskSum(asmDisk, {}) = 0
    BY FS_EmptySet, DiskSumPick
  <2> QED
    BY <2>1, <2>2, OwedDiskIs, Zenon
<1> QED
  BY <1>1 DEF DiskInv, NoDiskLeaks, DiskExact

\* No disk stays promised to an assembly that is over, even when the answer of a
\* start request is lost.
THEOREM DiskNeverLeaks == Spec => []NoDiskLeaks
<1>1. DiskInv => NoDiskLeaks
  BY DEF DiskInv
<1> QED
  BY <1>1, DiskInit, DiskStep, StructureInvariant, FailedStartInvariant, PTL DEF Spec

\* When no answer is lost, the disk Entry holds back on a worker is exactly what
\* its unfinished assemble tasks were promised.
THEOREM DiskIsExact == ~LossyStart => (Spec => []DiskExact)
<1> SUFFICES ASSUME ~LossyStart PROVE Spec => []DiskExact
  OBVIOUS
<1>1. DiskInv => DiskExact
  BY DEF DiskInv
<1> QED
  BY <1>1, DiskInit, DiskStep, StructureInvariant, FailedStartInvariant, PTL DEF Spec
=============================================================================
