------------------------- MODULE SourceRunnerProofs -------------------------
(***************************************************************************)
(* The worker's engine pool and source runner, for any number of engines,  *)
(* any input directory and segment count, and whatever calls fail.  The    *)
(* pool comes first, for any goroutines; the runner and the upload         *)
(* handlers are then shown to be such goroutines, so that what is proved   *)
(* of the pool is proved of the worker.  Last come the two ways a          *)
(* goroutine could hang for good: Release on a full channel, and the       *)
(* runner waiting for an engine that it holds itself.                      *)
(***************************************************************************)
EXTENDS SourceRunner, FiniteSetTheorems, WellFoundedInduction, TLAPS

\* The slot of an engine on its way back to the channel is marked already.
SendingIsMarked ==
  pool \in {"started", "stopping"} =>
    \A h \in Holders : at[h] = "sending" => slot[with[h]] = "idle"

\* Before Start there is no engine anywhere and nobody asks for one.
NothingBeforeStart ==
  pool = "new" =>
    /\ \A e \in Engines : idle[e] = 0
    /\ \A h \in Holders : at[h] = "none"

PoolInv ==
  /\ PoolTypeOK
  /\ EngineInOnePlace
  /\ SlotTableIsTrue
  /\ SendingIsMarked
  /\ NothingBeforeStart
  /\ NoStaleResponse

-----------------------------------------------------------------------------
\* A pool that was not started satisfies the invariant.
LEMMA PoolInitOK == PoolInit => PoolInv
<1> SUFFICES ASSUME PoolInit PROVE PoolInv
  OBVIOUS
<1> USE PoolAssumption
<1>1. PoolTypeOK
  BY DEF PoolInit, PoolTypeOK, Engines, Points, Holding
<1>2. EngineInOnePlace
  BY DEF PoolInit, EngineInOnePlace, HoldersOf, Holding
<1>3. SlotTableIsTrue /\ SendingIsMarked /\ NothingBeforeStart
  BY DEF PoolInit, SlotTableIsTrue, SendingIsMarked, NothingBeforeStart
<1>4. NoStaleResponse
  BY DEF PoolInit, NoStaleResponse, EngineLocked
<1> QED
  BY <1>1, <1>2, <1>3, <1>4 DEF PoolInv

\* Whoever holds an engine holds it alone.
LEMMA HeldAlone ==
  ASSUME PoolTypeOK, EngineInOnePlace, NEW h \in Holders, at[h] \in Holding
  PROVE  /\ with[h] \in Engines
         /\ idle[with[h]] = 0
         /\ \A g \in Holders : at[g] \in Holding /\ with[g] = with[h] => g = h
<1>1. with[h] \in Engines /\ h \in HoldersOf(with[h])
  BY DEF PoolTypeOK, HoldersOf
<1>2. idle[with[h]] = 0
  BY <1>1 DEF EngineInOnePlace
<1>3. ASSUME NEW g \in Holders, at[g] \in Holding, with[g] = with[h] PROVE g = h
  BY <1>1, <1>3 DEF EngineInOnePlace, HoldersOf
<1> QED
  BY <1>1, <1>2, <1>3

\* Every step keeps the types.
LEMMA TypeStep ==
  PoolTypeOK /\ [PoolNext]_poolVars => PoolTypeOK'
<1> SUFFICES ASSUME PoolTypeOK, [PoolNext]_poolVars PROVE PoolTypeOK'
  OBVIOUS
<1> USE PoolAssumption DEF PoolTypeOK, Points, Holding
<1>1. CASE StartPool
  BY <1>1 DEF StartPool
<1>2. ASSUME NEW h \in Holders, Acquire(h) \/ TryAcquire(h) PROVE PoolTypeOK'
  BY <1>2 DEF Acquire, TryAcquire, Ask
<1>3. ASSUME NEW h \in Holders, CancelAcquire(h) PROVE PoolTypeOK'
  BY <1>3 DEF CancelAcquire
<1>4. ASSUME NEW h \in Holders, MarkExecuting(h) PROVE PoolTypeOK'
  BY <1>4 DEF MarkExecuting, Unlocked
<1>5. ASSUME NEW h \in Holders, Release(h) PROVE PoolTypeOK'
  BY <1>5 DEF Release, Unlocked
<1>6. ASSUME NEW h \in Holders, HolderStep(h) PROVE PoolTypeOK'
  <2>1. CASE Receive(h)
    BY <2>1 DEF Receive
  <2>2. CASE NoIdleEngine(h)
    BY <2>2 DEF NoIdleEngine
  <2>3. CASE MarkLeased(h)
    BY <2>3 DEF MarkLeased, Unlocked
  <2>4. CASE EngineCall(h)
    <3>1. with[h] \in Engines /\ Append(pipe[with[h]], h) \in Seq(Holders)
      BY <2>4 DEF EngineCall
    <3>2. pipe' \in [Engines -> Seq(Holders)]
      BY <2>4, <3>1 DEF EngineCall
    <3> QED
      BY <2>4, <3>2 DEF EngineCall
  <2>5. CASE EngineReturns(h)
    BY <2>5 DEF EngineReturns
  <2>6. CASE Send(h)
    BY <2>6 DEF Send
  <2> QED
    BY <1>6, <2>1, <2>2, <2>3, <2>4, <2>5, <2>6 DEF HolderStep
<1>7. ASSUME NEW e \in Engines, ChildDies(e) PROVE PoolTypeOK'
  BY <1>7 DEF ChildDies
<1>8. ASSUME NEW e \in Engines, StopEngine(e) PROVE PoolTypeOK'
  BY <1>8 DEF StopEngine
<1>9. CASE BeginStop
  BY <1>9 DEF BeginStop
<1>10. CASE EndStop
  BY <1>10 DEF EndStop
<1>11. CASE UNCHANGED poolVars
  BY <1>11 DEF poolVars
<1> QED
  BY <1>1, <1>2, <1>3, <1>4, <1>5, <1>6, <1>7, <1>8, <1>9, <1>10, <1>11
    DEF PoolNext, StopStep

\* Nothing happens before Start.
LEMMA StartStep ==
  PoolTypeOK /\ NothingBeforeStart /\ [PoolNext]_poolVars => NothingBeforeStart'
<1> SUFFICES ASSUME PoolTypeOK, NothingBeforeStart, [PoolNext]_poolVars PROVE NothingBeforeStart'
  OBVIOUS
<1> USE PoolAssumption DEF PoolTypeOK, NothingBeforeStart
<1>1. CASE StartPool
  BY <1>1 DEF StartPool
<1>2. ASSUME NEW h \in Holders, Acquire(h) \/ TryAcquire(h) PROVE NothingBeforeStart'
  BY <1>2 DEF Acquire, TryAcquire, Ask
<1>3. ASSUME NEW h \in Holders, CancelAcquire(h) PROVE NothingBeforeStart'
  BY <1>3 DEF CancelAcquire
<1>4. ASSUME NEW h \in Holders, MarkExecuting(h) PROVE NothingBeforeStart'
  BY <1>4 DEF MarkExecuting, Unlocked
<1>5. ASSUME NEW h \in Holders, Release(h) PROVE NothingBeforeStart'
  BY <1>5 DEF Release, Unlocked
<1>6. ASSUME NEW h \in Holders, HolderStep(h) PROVE NothingBeforeStart'
  <2>1. CASE Receive(h)
    BY <2>1 DEF Receive
  <2>2. CASE NoIdleEngine(h)
    BY <2>2 DEF NoIdleEngine
  <2>3. CASE MarkLeased(h)
    BY <2>3 DEF MarkLeased, Unlocked
  <2>4. CASE EngineCall(h)
    BY <2>4 DEF EngineCall
  <2>5. CASE EngineReturns(h)
    BY <2>5 DEF EngineReturns
  <2>6. CASE Send(h)
    BY <2>6 DEF Send
  <2> QED
    BY <1>6, <2>1, <2>2, <2>3, <2>4, <2>5, <2>6 DEF HolderStep
<1>7. ASSUME NEW e \in Engines, ChildDies(e) PROVE NothingBeforeStart'
  BY <1>7 DEF ChildDies
<1>8. ASSUME NEW e \in Engines, StopEngine(e) PROVE NothingBeforeStart'
  BY <1>8 DEF StopEngine
<1>9. CASE BeginStop
  BY <1>9 DEF BeginStop
<1>10. CASE EndStop
  BY <1>10 DEF EndStop
<1>11. CASE UNCHANGED poolVars
  BY <1>11 DEF poolVars
<1> QED
  BY <1>1, <1>2, <1>3, <1>4, <1>5, <1>6, <1>7, <1>8, <1>9, <1>10, <1>11
    DEF PoolNext, StopStep

\* Every step keeps each engine in one place.
LEMMA PlacesStep ==
  PoolTypeOK /\ NothingBeforeStart /\ EngineInOnePlace /\ [PoolNext]_poolVars => EngineInOnePlace'
<1> SUFFICES ASSUME PoolTypeOK, NothingBeforeStart, EngineInOnePlace, [PoolNext]_poolVars
             PROVE  EngineInOnePlace'
  OBVIOUS
<1> USE PoolAssumption DEF PoolTypeOK, NothingBeforeStart, EngineInOnePlace, HoldersOf, Holding
<1>1. CASE StartPool
  BY <1>1 DEF StartPool
<1>2. ASSUME NEW h \in Holders, Acquire(h) \/ TryAcquire(h) PROVE EngineInOnePlace'
  <2>1. \A e \in Engines : HoldersOf(e)' = HoldersOf(e)
    BY <1>2 DEF Acquire, TryAcquire, Ask
  <2>2. UNCHANGED <<idle, pool>>
    BY <1>2 DEF Acquire, TryAcquire, Ask
  <2> HIDE DEF HoldersOf, PoolTypeOK
  <2> QED
    BY <2>1, <2>2
<1>3. ASSUME NEW h \in Holders, CancelAcquire(h) PROVE EngineInOnePlace'
  BY <1>3 DEF CancelAcquire
<1>4. ASSUME NEW h \in Holders, MarkExecuting(h) PROVE EngineInOnePlace'
  BY <1>4 DEF MarkExecuting, Unlocked
<1>5. ASSUME NEW h \in Holders, Release(h) PROVE EngineInOnePlace'
  <2>1. CASE pool = "started"
    <3>1. \A e \in Engines : HoldersOf(e)' = HoldersOf(e)
      BY <1>5, <2>1 DEF Release
    <3>2. UNCHANGED <<idle, pool>>
      BY <1>5 DEF Release
    <3> HIDE DEF HoldersOf, PoolTypeOK
    <3> QED
      BY <3>1, <3>2
  <2>2. CASE pool # "started"
    <3>1. pool' = "stopped" /\ UNCHANGED idle
      BY <1>5, <2>2 DEF Release, Unlocked
    <3>2. \A e \in Engines : HoldersOf(e)' \subseteq HoldersOf(e)
      BY <1>5, <2>2 DEF Release
    <3> HIDE DEF HoldersOf, PoolTypeOK
    <3> QED
      BY <3>1, <3>2
  <2> QED
    BY <2>1, <2>2
<1>6. ASSUME NEW h \in Holders, HolderStep(h) PROVE EngineInOnePlace'
  <2>1. CASE Receive(h)
    BY <2>1 DEF Receive
  <2>2. CASE NoIdleEngine(h)
    BY <2>2, SMTT(30) DEF NoIdleEngine
  <2>3. CASE MarkLeased(h)
    BY <2>3 DEF MarkLeased, Unlocked
  <2>4. CASE EngineCall(h)
    <3>1. \A e \in Engines : HoldersOf(e)' = HoldersOf(e)
      BY <2>4 DEF EngineCall
    <3>2. UNCHANGED <<idle, pool>>
      BY <2>4 DEF EngineCall
    <3> HIDE DEF HoldersOf, PoolTypeOK
    <3> QED
      BY <3>1, <3>2
  <2>5. CASE EngineReturns(h)
    BY <2>5 DEF EngineReturns
  <2>6. CASE Send(h)
    BY <2>6 DEF Send
  <2> QED
    BY <1>6, <2>1, <2>2, <2>3, <2>4, <2>5, <2>6 DEF HolderStep
<1>7. ASSUME NEW e \in Engines, ChildDies(e) PROVE EngineInOnePlace'
  BY <1>7 DEF ChildDies
<1>8. ASSUME NEW e \in Engines, StopEngine(e) PROVE EngineInOnePlace'
  BY <1>8 DEF StopEngine
<1>9. CASE BeginStop
  BY <1>9 DEF BeginStop
<1>10. CASE EndStop
  BY <1>10 DEF EndStop
<1>11. CASE UNCHANGED poolVars
  BY <1>11 DEF poolVars
<1> QED
  BY <1>1, <1>2, <1>3, <1>4, <1>5, <1>6, <1>7, <1>8, <1>9, <1>10, <1>11
    DEF PoolNext, StopStep

\* Every step keeps the slot table true.
LEMMA TableStep ==
  PoolTypeOK /\ NothingBeforeStart /\ EngineInOnePlace /\ SlotTableIsTrue /\ SendingIsMarked
    /\ [PoolNext]_poolVars
  => (SlotTableIsTrue /\ SendingIsMarked)'
<1> SUFFICES ASSUME PoolTypeOK, NothingBeforeStart, EngineInOnePlace, SlotTableIsTrue,
                    SendingIsMarked, [PoolNext]_poolVars
             PROVE  (SlotTableIsTrue /\ SendingIsMarked)'
  OBVIOUS
<1> USE PoolAssumption DEF PoolTypeOK, NothingBeforeStart, EngineInOnePlace, HoldersOf,
    Holding, SlotTableIsTrue,
    SendingIsMarked
<1>1. CASE StartPool
  BY <1>1 DEF StartPool
<1>2. ASSUME NEW h \in Holders, Acquire(h) \/ TryAcquire(h)
      PROVE  (SlotTableIsTrue /\ SendingIsMarked)'
  BY <1>2 DEF Acquire, TryAcquire, Ask
<1>3. ASSUME NEW h \in Holders, CancelAcquire(h) PROVE (SlotTableIsTrue /\ SendingIsMarked)'
  BY <1>3 DEF CancelAcquire
<1>4. ASSUME NEW h \in Holders, MarkExecuting(h) PROVE (SlotTableIsTrue /\ SendingIsMarked)'
  <2>1. with[h] \in Engines /\ idle[with[h]] = 0
    BY <1>4, HeldAlone DEF MarkExecuting
  <2>2. \A g \in Holders : at[g] \in Holding /\ with[g] = with[h] => g = h
    BY <1>4, HeldAlone DEF MarkExecuting
  <2> HIDE DEF EngineInOnePlace
  <2>3. SlotTableIsTrue'
    BY <1>4, <2>1, <2>2 DEF MarkExecuting, Unlocked
  <2>4. SendingIsMarked'
    BY <1>4, <2>1, <2>2 DEF MarkExecuting, Unlocked
  <2> QED
    BY <2>3, <2>4
<1>5. ASSUME NEW h \in Holders, Release(h) PROVE (SlotTableIsTrue /\ SendingIsMarked)'
  BY <1>5 DEF Release, Unlocked
<1>6. ASSUME NEW h \in Holders, HolderStep(h) PROVE (SlotTableIsTrue /\ SendingIsMarked)'
  <2>1. CASE Receive(h)
    BY <2>1 DEF Receive
  <2>2. CASE NoIdleEngine(h)
    BY <2>2 DEF NoIdleEngine
  <2>3. CASE MarkLeased(h)
    <3>1. with[h] \in Engines /\ idle[with[h]] = 0
      BY <2>3, HeldAlone DEF MarkLeased
    <3>2. \A g \in Holders : at[g] \in Holding /\ with[g] = with[h] => g = h
      BY <2>3, HeldAlone DEF MarkLeased
    <3> HIDE DEF EngineInOnePlace
    <3>3. SlotTableIsTrue'
      BY <2>3, <3>1, <3>2 DEF MarkLeased, Unlocked
    <3>4. SendingIsMarked'
      BY <2>3, <3>1, <3>2 DEF MarkLeased, Unlocked
    <3> QED
      BY <3>3, <3>4
  <2>4. CASE EngineCall(h)
    BY <2>4 DEF EngineCall
  <2>5. CASE EngineReturns(h)
    BY <2>5 DEF EngineReturns
  <2>6. CASE Send(h)
    BY <2>6 DEF Send
  <2> QED
    BY <1>6, <2>1, <2>2, <2>3, <2>4, <2>5, <2>6 DEF HolderStep
<1>7. ASSUME NEW e \in Engines, ChildDies(e) PROVE (SlotTableIsTrue /\ SendingIsMarked)'
  BY <1>7 DEF ChildDies
<1>8. ASSUME NEW e \in Engines, StopEngine(e) PROVE (SlotTableIsTrue /\ SendingIsMarked)'
  BY <1>8 DEF StopEngine
<1>9. CASE BeginStop
  BY <1>9 DEF BeginStop
<1>10. CASE EndStop
  BY <1>10 DEF EndStop
<1>11. CASE UNCHANGED poolVars
  BY <1>11 DEF poolVars
<1> QED
  BY <1>1, <1>2, <1>3, <1>4, <1>5, <1>6, <1>7, <1>8, <1>9, <1>10, <1>11
    DEF PoolNext, StopStep

\* Every step leaves no response behind.
LEMMA ResponseStep ==
  PoolTypeOK /\ EngineInOnePlace /\ NoStaleResponse /\ [PoolNext]_poolVars => NoStaleResponse'
<1> SUFFICES ASSUME PoolTypeOK, EngineInOnePlace, NoStaleResponse, [PoolNext]_poolVars
             PROVE  NoStaleResponse'
  OBVIOUS
<1> USE PoolAssumption DEF PoolTypeOK, EngineInOnePlace, HoldersOf, Holding, NoStaleResponse,
    EngineLocked
<1>1. CASE StartPool
  BY <1>1 DEF StartPool
<1>2. ASSUME NEW h \in Holders, Acquire(h) \/ TryAcquire(h) PROVE NoStaleResponse'
  BY <1>2 DEF Acquire, TryAcquire, Ask
<1>3. ASSUME NEW h \in Holders, CancelAcquire(h) PROVE NoStaleResponse'
  BY <1>3 DEF CancelAcquire
<1>4. ASSUME NEW h \in Holders, MarkExecuting(h) PROVE NoStaleResponse'
  BY <1>4 DEF MarkExecuting, Unlocked
<1>5. ASSUME NEW h \in Holders, Release(h) PROVE NoStaleResponse'
  BY <1>5 DEF Release, Unlocked
<1>6. ASSUME NEW h \in Holders, HolderStep(h) PROVE NoStaleResponse'
  <2>1. CASE Receive(h)
    BY <2>1 DEF Receive
  <2>2. CASE NoIdleEngine(h)
    BY <2>2 DEF NoIdleEngine
  <2>3. CASE MarkLeased(h)
    BY <2>3 DEF MarkLeased, Unlocked
  <2>4. CASE EngineCall(h)
    <3>1. with[h] \in Engines /\ idle[with[h]] = 0
      BY <2>4, HeldAlone DEF EngineCall
    <3>2. \A g \in Holders : at[g] \in Holding /\ with[g] = with[h] => g = h
      BY <2>4, HeldAlone DEF EngineCall
    <3> HIDE DEF EngineInOnePlace
    <3>3. CASE /\ at' = [at EXCEPT ![h] = "in_engine"]
               /\ pipe' = [pipe EXCEPT ![with[h]] = Append(@, h)]
      <4>1. pipe' = [pipe EXCEPT ![with[h]] = <<h>>]
        <5>1. pipe[with[h]] = <<>>
          BY <2>4, <3>1 DEF EngineCall
        <5>2. Append(<<>>, h) = <<h>>
          OBVIOUS
        <5>3. pipe' = [pipe EXCEPT ![with[h]] = Append(pipe[with[h]], h)]
          BY <2>4, <3>3 DEF EngineCall
        <5> QED
          BY <5>1, <5>2, <5>3
      <4>2. at' = [at EXCEPT ![h] = "in_engine"] /\ with' = with
        BY <2>4, <3>3 DEF EngineCall
      <4>3. at'[h] = "in_engine" /\ with'[h] = with[h] /\ pipe'[with[h]] = <<h>>
        BY <4>1, <4>2, <3>1
      <4>4. ASSUME NEW g \in Holders, at'[g] = "in_engine", with'[g] = with[h] PROVE g = h
        BY <4>2, <4>4, <3>2
      <4>5. ASSUME NEW e \in Engines, e # with[h]
            PROVE  pipe'[e] = pipe[e] /\ (EngineLocked(e) => EngineLocked(e)')
        BY <4>1, <4>2, <4>5, <2>4 DEF EngineCall
      <4>6. ASSUME NEW e \in Engines, e # with[h], NEW g \in Holders,
                   at'[g] = "in_engine", with'[g] = e
            PROVE  at[g] = "in_engine" /\ with[g] = e
        BY <4>2, <4>6
      <4>7. ASSUME NEW e \in Engines
            PROVE  /\ ~EngineLocked(e)' => pipe'[e] = <<>>
                   /\ \A g \in Holders : at'[g] = "in_engine" /\ with'[g] = e =>
                        pipe'[e] = <<g>> \/ pipe'[e] = <<>>
        <5> HIDE DEF PoolTypeOK, HoldersOf
        <5>1. CASE e = with[h]
          <6>1. EngineLocked(e)'
            BY <5>1, <4>3
          <6> QED
            BY <5>1, <6>1, <4>3, <4>4
        <5>2. CASE e # with[h]
          <6>1. ~EngineLocked(e)' => pipe'[e] = <<>>
            BY <5>2, <4>5
          <6>2. ASSUME NEW g \in Holders, at'[g] = "in_engine", with'[g] = e
                PROVE  pipe'[e] = <<g>> \/ pipe'[e] = <<>>
            BY <5>2, <6>2, <4>5, <4>6
          <6> QED
            BY <6>1, <6>2
        <5> QED
          BY <5>1, <5>2
      <4> QED
        BY <4>7
    <3>4. CASE pipe' = pipe
      <4>1. pipe' = pipe /\ with' = with /\ pipe[with[h]] = <<>>
        BY <2>4, <3>1, <3>4 DEF EngineCall
      <4>2. ASSUME NEW g \in Holders, g # h PROVE at'[g] = at[g]
        BY <2>4, <4>2 DEF EngineCall
      <4>3. ASSUME NEW g \in Holders, at[g] = "in_engine" PROVE at'[g] = "in_engine"
        BY <2>4, <4>3, <4>2 DEF EngineCall
      <4>4. \A e \in Engines : ~EngineLocked(e)' => ~EngineLocked(e)
        BY <4>1, <4>3
      <4> QED
        BY <4>1, <4>2, <4>4
    <3> QED
      BY <2>4, <3>3, <3>4 DEF EngineCall
  <2>5. CASE EngineReturns(h)
    <3>1. with[h] \in Engines /\ idle[with[h]] = 0
      BY <2>5, HeldAlone DEF EngineReturns
    <3>2. \A g \in Holders : at[g] \in Holding /\ with[g] = with[h] => g = h
      BY <2>5, HeldAlone DEF EngineReturns
    <3> HIDE DEF EngineInOnePlace
    <3>3. pipe' = [pipe EXCEPT ![with[h]] = <<>>]
      <4>1. pipe[with[h]] = <<h>> \/ pipe[with[h]] = <<>>
        BY <2>5, <3>1 DEF EngineReturns
      <4>2. Tail(<<h>>) = <<>>
        OBVIOUS
      <4> QED
        BY <2>5, <4>1, <4>2, <3>1 DEF EngineReturns
    <3> QED
      BY <2>5, <3>1, <3>2, <3>3 DEF EngineReturns
  <2>6. CASE Send(h)
    BY <2>6 DEF Send
  <2> QED
    BY <1>6, <2>1, <2>2, <2>3, <2>4, <2>5, <2>6 DEF HolderStep
<1>7. ASSUME NEW e \in Engines, ChildDies(e) PROVE NoStaleResponse'
  BY <1>7 DEF ChildDies
<1>8. ASSUME NEW e \in Engines, StopEngine(e) PROVE NoStaleResponse'
  BY <1>8 DEF StopEngine
<1>9. CASE BeginStop
  BY <1>9 DEF BeginStop
<1>10. CASE EndStop
  BY <1>10 DEF EndStop
<1>11. CASE UNCHANGED poolVars
  BY <1>11 DEF poolVars
<1> QED
  BY <1>1, <1>2, <1>3, <1>4, <1>5, <1>6, <1>7, <1>8, <1>9, <1>10, <1>11
    DEF PoolNext, StopStep

\* The pool's invariant, in every behaviour.
THEOREM PoolInvariant == PoolSpec => []PoolInv
<1>1. PoolInv /\ [PoolNext]_poolVars => PoolInv'
  <2> SUFFICES ASSUME PoolInv, [PoolNext]_poolVars PROVE PoolInv'
    OBVIOUS
  <2>1. PoolTypeOK' /\ NothingBeforeStart'
    BY TypeStep, StartStep DEF PoolInv
  <2>2. EngineInOnePlace' /\ SlotTableIsTrue' /\ SendingIsMarked'
    BY PlacesStep, TableStep DEF PoolInv
  <2>3. NoStaleResponse'
    BY ResponseStep DEF PoolInv
  <2> QED
    BY <2>1, <2>2, <2>3 DEF PoolInv
<1> QED
  BY <1>1, PoolInitOK, PTL DEF PoolSpec

\* An engine is in the channel once or with one lease, never both, and none is
\* lost before Stop: for any number of slots and goroutines.
THEOREM EnginesStayInPlace == PoolSpec => []EngineInOnePlace
<1>1. PoolInv => EngineInOnePlace
  BY DEF PoolInv
<1> QED
  BY <1>1, PoolInvariant, PTL

\* The slot table behind the heartbeat's snapshot never contradicts the channel
\* and the leases.
THEOREM SlotTableStaysTrue == PoolSpec => []SlotTableIsTrue
<1>1. PoolInv => SlotTableIsTrue
  BY DEF PoolInv
<1> QED
  BY <1>1, PoolInvariant, PTL

\* No caller reads the response to another caller's request.
THEOREM ResponsesAreFresh == PoolSpec => []NoStaleResponse
<1>1. PoolInv => NoStaleResponse
  BY DEF PoolInv
<1> QED
  BY <1>1, PoolInvariant, PTL

-----------------------------------------------------------------------------
(* The channel.  Release sends the engine back with no lock held and no     *)
(* timeout: it would hang on a full channel.                                *)

\* The engines of s that are in the channel, when none is there twice.
InChannel(s) == {e \in s : idle[e] = 1}

\* The element a fold takes next.
NextOf(s) == CHOOSE e \in s : TRUE

\* g counts what is in the channel, subset by subset.
Counts(g) ==
  g = [s \in SUBSET Engines |-> IF s = {} THEN 0 ELSE idle[NextOf(s)] + g[s \ {NextOf(s)}]]

\* The number of engines in a set that are in the channel, one engine at a time.
LEMMA ChannelCountStep ==
  ASSUME \A e \in Engines : idle[e] \in {0, 1}, NEW s \in SUBSET Engines
  PROVE  /\ Cardinality(InChannel(s)) \in Nat
         /\ Cardinality(InChannel(s)) =
              IF s = {} THEN 0 ELSE idle[NextOf(s)] + Cardinality(InChannel(s \ {NextOf(s)}))
<1>1. IsFiniteSet(InChannel(s))
  <2>1. InChannel(s) \in SUBSET Engines
    BY DEF InChannel
  <2>2. IsFiniteSet(Engines)
    BY PoolAssumption, FS_Interval DEF Engines
  <2> QED
    BY <2>1, <2>2, FS_Subset
<1>2. Cardinality(InChannel(s)) \in Nat
  BY <1>1, FS_CardinalityType
<1>3. CASE s = {}
  BY <1>3, FS_EmptySet DEF InChannel
<1>4. CASE s # {}
  <2> DEFINE n == NextOf(s)
  <2>1. n \in s /\ n \in Engines
    BY <1>4 DEF NextOf
  <2> HIDE DEF n
  <2>2. ASSUME idle[n] = 1
        PROVE  Cardinality(InChannel(s)) = idle[n] + Cardinality(InChannel(s \ {n}))
    <3>1. n \in InChannel(s) /\ InChannel(s \ {n}) = InChannel(s) \ {n}
      BY <2>1, <2>2 DEF InChannel
    <3>2. Cardinality(InChannel(s) \ {n}) = Cardinality(InChannel(s)) - 1
      BY <1>1, <3>1, FS_RemoveElement
    <3>3. Cardinality(InChannel(s \ {n})) = Cardinality(InChannel(s)) - 1
      BY <3>1, <3>2, Zenon
    <3> QED
      BY <1>2, <2>2, <3>3
  <2>3. ASSUME idle[n] = 0
        PROVE  Cardinality(InChannel(s)) = idle[n] + Cardinality(InChannel(s \ {n}))
    <3>1. InChannel(s \ {n}) = InChannel(s)
      BY <2>1, <2>3 DEF InChannel
    <3> QED
      BY <1>2, <2>3, <3>1
  <2>4. Cardinality(InChannel(s)) = idle[n] + Cardinality(InChannel(s \ {n}))
    BY <2>1, <2>2, <2>3
  <2> QED
    BY <1>2, <1>4, <2>4 DEF n
<1> QED
  BY <1>2, <1>3, <1>4

\* The length of the channel is the number of engines in it.
LEMMA ChannelCount ==
  ASSUME \A e \in Engines : idle[e] \in {0, 1}
  PROVE  MapThenSumSet(LAMBDA e : idle[e], Engines) = Cardinality(InChannel(Engines))
<1> DEFINE C == [s \in SUBSET Engines |-> Cardinality(InChannel(s))]
           G == CHOOSE g : Counts(g)
<1>1. Counts(C)
  <2>1. \A s \in SUBSET Engines : s \ {NextOf(s)} \in SUBSET Engines
    OBVIOUS
  <2>2. \A s \in SUBSET Engines : C[s] = IF s = {} THEN 0 ELSE idle[NextOf(s)] + C[s \ {NextOf(s)}]
    BY <2>1, ChannelCountStep
  <2>3. C = [s \in SUBSET Engines |-> C[s]]
    OBVIOUS
  <2> HIDE DEF C
  <2> QED
    BY <2>2, <2>3, Zenon DEF Counts
<1>2. Counts(G)
  BY <1>1, Zenon
<1>3. MapThenSumSet(LAMBDA e : idle[e], Engines) = G[Engines]
  BY Zenon DEF MapThenSumSet, MapThenFoldSet, Counts, NextOf
<1> HIDE DEF G
<1>4. \A s \in SUBSET Engines : G[s] = Cardinality(InChannel(s))
  <2> DEFINE Bad == {s \in SUBSET Engines : G[s] # Cardinality(InChannel(s))}
  <2> SUFFICES ASSUME Bad # {} PROVE FALSE
    OBVIOUS
  <2>1. PICK m \in Bad : \A k \in Bad : ~(k \subseteq m /\ k # m)
    <3>1. IsFiniteSet(Engines)
      BY PoolAssumption, FS_Interval DEF Engines
    <3>2. IsWellFoundedOn(StrictSubsetOrdering(Engines), SUBSET Engines)
      BY <3>1, FS_StrictSubsetOrderingWellFounded, FS_FiniteSubsetsOfFinite
    <3>3. Bad \in SUBSET (SUBSET Engines)
      OBVIOUS
    <3> HIDE DEF Bad
    <3>4. PICK m \in Bad : \A k \in Bad : ~(<<k, m>> \in StrictSubsetOrdering(Engines))
      BY <3>2, <3>3, WFMin
    <3>5. \A k \in Bad : k \subseteq m /\ k # m => <<k, m>> \in StrictSubsetOrdering(Engines)
      BY <3>3 DEF StrictSubsetOrdering
    <3>6. ASSUME NEW k \in Bad PROVE ~(k \subseteq m /\ k # m)
      BY <3>4, <3>5
    <3> QED
      BY <3>6
  <2>2. m \in SUBSET Engines /\ G[m] # Cardinality(InChannel(m))
    OBVIOUS
  <2>3. G[m] = IF m = {} THEN 0 ELSE idle[NextOf(m)] + G[m \ {NextOf(m)}]
    BY <1>2, <2>2, Zenon DEF Counts
  <2>4. m # {} => m \ {NextOf(m)} \in SUBSET Engines /\ m \ {NextOf(m)} # m
    BY <2>2 DEF NextOf
  <2>5. m # {} => G[m \ {NextOf(m)}] = Cardinality(InChannel(m \ {NextOf(m)}))
    BY <2>1, <2>4
  <2> QED
    BY <2>2, <2>3, <2>5, ChannelCountStep
<1> QED
  BY <1>3, <1>4

\* The channel has room for every engine that is on its way back.
SendNeverBlocks == \A h \in Holders : at[h] = "sending" => ChannelHasRoom

\* No Release blocks on a full channel, for any number of slots and goroutines,
\* although the send comes after the mutex is given up and Stop may come between.
THEOREM ReleaseNeverBlocks == PoolSpec => []SendNeverBlocks
<1>1. PoolInv => SendNeverBlocks
  <2> SUFFICES ASSUME PoolInv, NEW h \in Holders, at[h] = "sending" PROVE ChannelHasRoom
    BY DEF SendNeverBlocks
  <2>1. \A e \in Engines : idle[e] \in {0, 1}
    BY DEF PoolInv, EngineInOnePlace
  <2>2. with[h] \in Engines /\ idle[with[h]] = 0
    BY HeldAlone DEF PoolInv, Holding
  <2>3. IsFiniteSet(Engines) /\ Cardinality(Engines) = Slots
    BY PoolAssumption, FS_Interval DEF Engines
  <2>4. /\ IsFiniteSet(Engines \ {with[h]})
        /\ Cardinality(Engines \ {with[h]}) = Slots - 1
    BY <2>2, <2>3, FS_RemoveElement
  <2>5. Cardinality(InChannel(Engines)) <= Slots - 1
    <3>1. InChannel(Engines) \in SUBSET (Engines \ {with[h]})
      BY <2>2 DEF InChannel
    <3> QED
      BY <2>4, <3>1, FS_Subset
  <2>6. Cardinality(InChannel(Engines)) \in Nat
    BY <2>1, ChannelCountStep
  <2> QED
    BY <2>1, <2>5, <2>6, ChannelCount, PoolAssumption DEF ChannelHasRoom
<1> QED
  BY <1>1, PoolInvariant, PTL

-----------------------------------------------------------------------------
(* The pool implements SlotPool. *)

\* The mapped state: what SlotPool calls open, free and lease.
MappedOpen == CASE pool = "new" -> "new" [] pool = "stopped" -> "closed" [] OTHER -> "open"
MappedFree == {e \in Engines : idle[e] > 0}
MappedLease == [h \in Holders |-> IF at[h] \in Holding THEN with[h] ELSE NoEngine]

\* A step that moves no engine and neither opens nor closes the pool is invisible.
LEMMA InvisibleStep ==
  ASSUME PoolTypeOK, UNCHANGED <<idle, with>>, MappedOpen' = MappedOpen,
         \A h \in Holders : at'[h] \in Holding <=> at[h] \in Holding
  PROVE  UNCHANGED Slotted!slotVars
<1>1. MappedFree' = MappedFree
  BY DEF MappedFree
<1>2. MappedLease' = MappedLease
  BY DEF MappedLease
<1> QED
  BY <1>1, <1>2 DEF Slotted!slotVars, MappedOpen, MappedFree, MappedLease

\* Every step of the pool is a step of SlotPool or leaves it alone.
LEMMA SlotPoolStep ==
  PoolInv /\ [PoolNext]_poolVars => [Slotted!SlotNext]_(Slotted!slotVars)
<1> SUFFICES ASSUME PoolInv, [PoolNext]_poolVars
             PROVE  Slotted!SlotNext \/ UNCHANGED Slotted!slotVars
  OBVIOUS
<1> USE PoolAssumption
<1>0. PoolTypeOK /\ EngineInOnePlace /\ NothingBeforeStart
  BY DEF PoolInv
<1>1. CASE StartPool
  <2>1. MappedOpen = "new" /\ MappedOpen' = "open"
    BY <1>1 DEF StartPool, MappedOpen
  <2>2. MappedFree' = Engines
    BY <1>1 DEF StartPool, MappedFree
  <2>3. MappedLease' = MappedLease
    BY <1>1 DEF StartPool, MappedLease
  <2>4. Slotted!Open
    BY <2>1, <2>2, <2>3 DEF Slotted!Open, MappedOpen, MappedFree, MappedLease
  <2> QED
    BY <2>4 DEF Slotted!SlotNext
<1>2. ASSUME NEW h \in Holders, Acquire(h) \/ TryAcquire(h) PROVE UNCHANGED Slotted!slotVars
  BY <1>0, <1>2, InvisibleStep DEF Acquire, TryAcquire, Ask, Holding, PoolTypeOK, MappedOpen
<1>3. ASSUME NEW h \in Holders, CancelAcquire(h) PROVE UNCHANGED Slotted!slotVars
  BY <1>0, <1>3, InvisibleStep DEF CancelAcquire, Holding, PoolTypeOK, MappedOpen
<1>4. ASSUME NEW h \in Holders, MarkExecuting(h) PROVE UNCHANGED Slotted!slotVars
  BY <1>0, <1>4, InvisibleStep DEF MarkExecuting, Holding, PoolTypeOK, MappedOpen
<1>5. ASSUME NEW h \in Holders, Release(h) PROVE Slotted!SlotNext \/ UNCHANGED Slotted!slotVars
  <2>1. CASE pool = "started"
    BY <1>0, <1>5, <2>1, InvisibleStep DEF Release, Holding, PoolTypeOK, MappedOpen
  <2>2. CASE pool # "started"
    <3>1. MappedOpen = "closed" /\ MappedOpen' = "closed"
      <4>1. pool = "stopped" /\ pool' = "stopped"
        BY <1>0, <1>5, <2>2 DEF Release, Unlocked, PoolTypeOK, NothingBeforeStart
      <4> QED
        BY <4>1 DEF MappedOpen
    <3>2. MappedFree' = MappedFree
      BY <1>5 DEF Release, MappedFree
    <3>3. MappedLease[h] # NoEngine
      BY <1>0, <1>5 DEF Release, MappedLease, PoolTypeOK, Holding, Engines, NoEngine
    <3>4. MappedLease' = [MappedLease EXCEPT ![h] = NoEngine]
      BY <1>0, <1>5, <2>2 DEF Release, MappedLease, PoolTypeOK, Holding
    <3>5. Slotted!Drop(h)
      BY <3>1, <3>2, <3>3, <3>4 DEF Slotted!Drop, MappedOpen, MappedFree, MappedLease
    <3> QED
      BY <3>5 DEF Slotted!SlotNext
  <2> QED
    BY <2>1, <2>2
<1>6. ASSUME NEW h \in Holders, HolderStep(h) PROVE Slotted!SlotNext \/ UNCHANGED Slotted!slotVars
  <2>1. CASE Receive(h)
    <3>1. PICK e \in Engines : idle[e] > 0 /\ idle' = [idle EXCEPT ![e] = @ - 1]
                               /\ with' = [with EXCEPT ![h] = e]
      BY <2>1 DEF Receive
    <3>2. e \in MappedFree /\ MappedFree' = MappedFree \ {e}
      <4>1. idle[e] = 1 /\ idle \in [Engines -> Nat]
        BY <1>0, <3>1 DEF PoolTypeOK, EngineInOnePlace
      <4>2. \A d \in Engines : idle'[d] > 0 <=> idle[d] > 0 /\ d # e
        BY <3>1, <4>1
      <4> QED
        BY <3>1, <4>2 DEF MappedFree
    <3>3. MappedLease[h] = NoEngine /\ MappedLease' = [MappedLease EXCEPT ![h] = e]
      BY <1>0, <2>1, <3>1 DEF Receive, MappedLease, PoolTypeOK, Holding
    <3>4. MappedOpen' = MappedOpen
      BY <2>1 DEF Receive, MappedOpen
    <3>5. Slotted!Take(h, e)
      BY <3>2, <3>3, <3>4 DEF Slotted!Take, MappedOpen, MappedFree, MappedLease
    <3> QED
      BY <3>5 DEF Slotted!SlotNext
  <2>2. CASE NoIdleEngine(h)
    BY <1>0, <2>2, InvisibleStep DEF NoIdleEngine, Holding, PoolTypeOK, MappedOpen
  <2>3. CASE MarkLeased(h)
    BY <1>0, <2>3, InvisibleStep DEF MarkLeased, Holding, PoolTypeOK, MappedOpen
  <2>4. CASE EngineCall(h)
    BY <1>0, <2>4, InvisibleStep DEF EngineCall, Holding, PoolTypeOK, MappedOpen
  <2>5. CASE EngineReturns(h)
    BY <1>0, <2>5, InvisibleStep DEF EngineReturns, Holding, PoolTypeOK, MappedOpen
  <2>6. CASE Send(h)
    <3>1. with[h] \in Engines /\ MappedLease[h] = with[h] /\ with[h] # NoEngine
      BY <1>0, <2>6 DEF Send, MappedLease, PoolTypeOK, Holding, Engines, NoEngine
    <3>2. MappedFree' = MappedFree \cup {with[h]}
      BY <1>0, <2>6, <3>1 DEF Send, MappedFree, PoolTypeOK
    <3>3. MappedLease' = [MappedLease EXCEPT ![h] = NoEngine]
      BY <1>0, <2>6 DEF Send, MappedLease, PoolTypeOK, Holding
    <3>4. MappedOpen' = MappedOpen
      BY <2>6 DEF Send, MappedOpen
    <3>5. Slotted!Give(h)
      BY <3>1, <3>2, <3>3, <3>4 DEF Slotted!Give, MappedOpen, MappedFree, MappedLease
    <3> QED
      BY <3>5 DEF Slotted!SlotNext
  <2> QED
    BY <1>6, <2>1, <2>2, <2>3, <2>4, <2>5, <2>6 DEF HolderStep
<1>7. ASSUME NEW e \in Engines, ChildDies(e) PROVE UNCHANGED Slotted!slotVars
  BY <1>0, <1>7, InvisibleStep DEF ChildDies, MappedOpen
<1>8. ASSUME NEW e \in Engines, StopEngine(e) PROVE UNCHANGED Slotted!slotVars
  BY <1>0, <1>8, InvisibleStep DEF StopEngine, MappedOpen
<1>9. CASE BeginStop
  BY <1>0, <1>9, InvisibleStep DEF BeginStop, MappedOpen
<1>10. CASE EndStop
  <2>1. MappedOpen = "open" /\ MappedOpen' = "closed"
    BY <1>10 DEF EndStop, MappedOpen
  <2>2. MappedFree' = MappedFree /\ MappedLease' = MappedLease
    BY <1>10 DEF EndStop, MappedFree, MappedLease
  <2>3. Slotted!Close
    BY <2>1, <2>2 DEF Slotted!Close, MappedOpen, MappedFree, MappedLease
  <2> QED
    BY <2>3 DEF Slotted!SlotNext
<1>11. CASE UNCHANGED poolVars
  BY <1>0, <1>11, InvisibleStep DEF poolVars, MappedOpen
<1> QED
  BY <1>1, <1>2, <1>3, <1>4, <1>5, <1>6, <1>7, <1>8, <1>9, <1>10, <1>11
    DEF PoolNext, StopStep

\* To its callers the pool with its mutexes, channel, slot table and dying children
\* is a set of engines handed out and taken back one at a time.
THEOREM PoolImplementsSlotPool == PoolSpec => ImplementsSlotPool
<1>1. PoolInit => Slotted!SlotInit
  <2> SUFFICES ASSUME PoolInit PROVE Slotted!SlotInit
    OBVIOUS
  <2>1. MappedOpen = "new" /\ MappedFree = {}
    BY DEF PoolInit, MappedOpen, MappedFree
  <2>2. MappedLease = [h \in Holders |-> NoEngine]
    BY DEF PoolInit, MappedLease, Holding
  <2> QED
    BY <2>1, <2>2 DEF Slotted!SlotInit, MappedOpen, MappedFree, MappedLease
<1> QED
  BY <1>1, SlotPoolStep, PoolInvariant, PTL DEF PoolSpec, ImplementsSlotPool, Slotted!SlotSpec

-----------------------------------------------------------------------------
(***************************************************************************)
(* The source runner.                                                      *)
(***************************************************************************)

\* The leases of the runner and of the handlers are the pool's holders.
LEMMA LeasesAreHolders ==
  /\ Split \in Holders
  /\ UploadLeases \subseteq Holders
  /\ \A v \in Videos, i \in Segments : Segment(v, i) \in Holders
  BY RunnerAssumption DEF SegmentLeases

\* A lease belongs to one segment of one video.
LEMMA LeasesDiffer ==
  /\ \A v, w \in Videos, i, j \in Segments : Segment(v, i) = Segment(w, j) => v = w /\ i = j
  /\ \A v \in Videos, i \in Segments : Segment(v, i) # Split
  /\ \A v \in Videos, i \in Segments : Segment(v, i) \notin UploadLeases
  BY DEF Segment, Split, UploadLeases, Upload

\* A task's progress keeps the type of the task table.
LEMMA TaskTypeKept ==
  ASSUME NEW v \in Videos, NEW i \in Segments, NEW point \in TaskPoints,
         task \in [Videos -> [Segments -> TaskPoints]],
         task' = [task EXCEPT ![v][i] = point]
  PROVE  task' \in [Videos -> [Segments -> TaskPoints]]
<1>1. [task[v] EXCEPT ![i] = point] \in [Segments -> TaskPoints]
  OBVIOUS
<1>2. task' = [task EXCEPT ![v] = [task[v] EXCEPT ![i] = point]]
  OBVIOUS
<1> QED
  BY <1>1, <1>2

-----------------------------------------------------------------------------
\* Whatever the runner and the handlers do to the pool is a step of the pool.
LEMMA StepsOfThePool ==
  TypeOK /\ [Next]_vars => [PoolNext]_poolVars
<1> SUFFICES ASSUME TypeOK, [Next]_vars PROVE [PoolNext]_poolVars
  OBVIOUS
<1> USE LeasesAreHolders DEF PoolNext
<1>1. CASE StartPool /\ UNCHANGED runnerVars
  BY <1>1
<1>2. ASSUME NEW h \in Holders, HolderStep(h) /\ UNCHANGED runnerVars PROVE [PoolNext]_poolVars
  BY <1>2
<1>3. ASSUME NEW e \in Engines, ChildDies(e) /\ UNCHANGED runnerVars PROVE [PoolNext]_poolVars
  BY <1>3
<1>4. ASSUME NEW h \in UploadLeases, UploadedSegment(h) PROVE [PoolNext]_poolVars
  BY <1>4 DEF UploadedSegment
<1>5. ASSUME NEW w \in Videos, EnqueueSourceVideo(w) PROVE [PoolNext]_poolVars
  BY <1>5 DEF EnqueueSourceVideo, entryVars
<1>6. CASE SetBackpressure
  BY <1>6 DEF SetBackpressure, entryVars
<1>7. ASSUME NEW w \in Videos, PopPendingSplit(w) PROVE [PoolNext]_poolVars
  BY <1>7 DEF PopPendingSplit, entryVars
<1>8. CASE SplitStep
  <2>1. CASE AcquireForSplit
    BY <2>1 DEF AcquireForSplit, Goto, queueVars, entryVars
  <2>2. CASE SplitSlotRefused
    BY <2>2 DEF SplitSlotRefused, queueVars, entryVars
  <2>3. CASE CallSplit
    BY <2>3 DEF CallSplit, Goto, queueVars, entryVars
  <2>4. CASE \E to \in {"plan", "requeue"} : EndSplit(to)
    BY <2>4 DEF EndSplit, Goto, queueVars, entryVars
  <2>5. CASE RequeuePendingSplit
    BY <2>5 DEF RequeuePendingSplit, queueVars, entryVars
  <2> QED
    BY <1>8, <2>1, <2>2, <2>3, <2>4, <2>5 DEF SplitStep
<1>9. CASE DispatchStep
  <2>1. CASE PlanSegment
    BY <2>1 DEF PlanSegment, Goto, TypeOK, RunnerTypeOK, Current
  <2>2. CASE SegmentPlanned
    BY <2>2 DEF SegmentPlanned, Goto, queueVars, entryVars
  <2>3. CASE PlanCompleted
    BY <2>3 DEF PlanCompleted, queueVars, entryVars
  <2>4. CASE CreateAnswered
    BY <2>4 DEF CreateAnswered, EntryCreates, queueVars, entryVars
  <2>5. CASE CreateAnswerLost
    BY <2>5 DEF CreateAnswerLost, EntryCreates, RetryOrAbandon, queueVars, entryVars
  <2>6. CASE CreateFails
    BY <2>6 DEF CreateFails, RetryOrAbandon, queueVars, entryVars
  <2>7. CASE ProcessInternalSegment
    <3>1. Current \in Holders
      BY <2>7 DEF ProcessInternalSegment, Goto, TypeOK, RunnerTypeOK, Current
    <3> QED
      BY <2>7, <3>1 DEF ProcessInternalSegment
  <2>8. CASE ReportInternalSegment
    BY <2>8 DEF ReportInternalSegment, TaskBecomes, queueVars, entryVars
  <2>9. CASE ReleaseInternalSegment
    <3>1. Current \in Holders
      BY <2>9 DEF ReleaseInternalSegment, Goto, TypeOK, RunnerTypeOK, Current
    <3> QED
      BY <2>9, <3>1 DEF ReleaseInternalSegment
  <2>10. CASE UploadAccepted \/ UploadRefused \/ UploadFails \/ UploadAnswerLost
    BY <2>10 DEF UploadAccepted, UploadRefused, UploadFails, UploadAnswerLost, UploadSegment,
      TaskBecomes, queueVars, entryVars
  <2>11. CASE DispatchCompleted
    BY <2>11 DEF DispatchCompleted, Goto, queueVars, entryVars
  <2>12. CASE \E j \in Segments : DeferredRelease(j)
    <3>1. active \in Videos
      BY <2>12 DEF DeferredRelease, TypeOK, RunnerTypeOK
    <3> QED
      BY <2>12, <3>1 DEF DeferredRelease
  <2>13. CASE MarkDone
    BY <2>13 DEF MarkDone, queueVars, entryVars
  <2> QED
    BY <1>9, <2>1, <2>2, <2>3, <2>4, <2>5, <2>6, <2>7, <2>8, <2>9, <2>10, <2>11, <2>12, <2>13
      DEF DispatchStep
<1>10. ASSUME NEW w \in Videos, NEW j \in Segments, PeerReports(w, j) PROVE [PoolNext]_poolVars
  BY <1>10 DEF PeerReports, queueVars
<1>11. CASE UNCHANGED vars
  BY <1>11 DEF vars
<1> QED
  BY <1>1, <1>2, <1>3, <1>4, <1>5, <1>6, <1>7, <1>8, <1>9, <1>10, <1>11 DEF Next

\* Every step keeps the types of the runner.
LEMMA RunnerTypesStep ==
  RunnerTypeOK /\ [Next]_vars => RunnerTypeOK'
<1> SUFFICES ASSUME RunnerTypeOK, [Next]_vars PROVE RunnerTypeOK'
  OBVIOUS
<1> USE RunnerAssumption DEF RunnerTypeOK, PCs, Answers, Segments, NoVideo
<1>1. CASE StartPool /\ UNCHANGED runnerVars
  BY <1>1 DEF StartPool, runnerVars, queueVars, entryVars
<1>2. ASSUME NEW h \in Holders, HolderStep(h) /\ UNCHANGED runnerVars PROVE RunnerTypeOK'
  BY <1>2 DEF HolderStep, runnerVars, queueVars, entryVars
<1>3. ASSUME NEW e \in Engines, ChildDies(e) /\ UNCHANGED runnerVars PROVE RunnerTypeOK'
  BY <1>3 DEF ChildDies, runnerVars, queueVars, entryVars
<1>4. ASSUME NEW h \in UploadLeases, UploadedSegment(h) PROVE RunnerTypeOK'
  BY <1>4 DEF UploadedSegment, runnerVars, queueVars, entryVars
<1>5. ASSUME NEW w \in Videos, EnqueueSourceVideo(w) PROVE RunnerTypeOK'
  BY <1>5 DEF EnqueueSourceVideo, entryVars
<1>6. CASE SetBackpressure
  BY <1>6 DEF SetBackpressure, entryVars
<1>7. ASSUME NEW w \in Videos, PopPendingSplit(w) PROVE RunnerTypeOK'
  BY <1>7 DEF PopPendingSplit, entryVars
<1>8. CASE SplitStep
  <2>1. CASE AcquireForSplit
    BY <2>1 DEF AcquireForSplit, Goto, queueVars, entryVars
  <2>2. CASE SplitSlotRefused
    BY <2>2 DEF SplitSlotRefused, queueVars, entryVars
  <2>3. CASE CallSplit
    BY <2>3 DEF CallSplit, Goto, queueVars, entryVars
  <2>4. CASE \E to \in {"plan", "requeue"} : EndSplit(to)
    BY <2>4 DEF EndSplit, Goto, queueVars, entryVars
  <2>5. CASE RequeuePendingSplit
    BY <2>5 DEF RequeuePendingSplit, queueVars, entryVars
  <2> QED
    BY <1>8, <2>1, <2>2, <2>3, <2>4, <2>5 DEF SplitStep
<1>9. CASE DispatchStep
  <2>1. CASE PlanSegment
    BY <2>1 DEF PlanSegment, Goto, queueVars, entryVars
  <2>2. CASE SegmentPlanned
    BY <2>2 DEF SegmentPlanned, Goto, queueVars, entryVars
  <2>3. CASE PlanCompleted
    BY <2>3 DEF PlanCompleted, queueVars, entryVars
  <2>4. CASE CreateAnswered
    BY <2>4 DEF CreateAnswered, EntryCreates, queueVars, TaskPoints
  <2>5. CASE CreateAnswerLost
    BY <2>5 DEF CreateAnswerLost, EntryCreates, RetryOrAbandon, queueVars, TaskPoints
  <2>6. CASE CreateFails
    BY <2>6 DEF CreateFails, RetryOrAbandon, queueVars, entryVars
  <2>7. CASE ProcessInternalSegment
    BY <2>7 DEF ProcessInternalSegment, Goto, queueVars, entryVars
  <2>8. CASE ReportInternalSegment
    <3>1. task' \in [Videos -> [Segments -> TaskPoints]] /\ known' \subseteq Videos
      <4>1. active \in Videos /\ seg \in Segments /\ "reported" \in TaskPoints
        BY <2>8 DEF ReportInternalSegment, TaskPoints
      <4> HIDE DEF Segments
      <4> QED
        BY <2>8, <4>1, TaskTypeKept DEF ReportInternalSegment, TaskBecomes, entryVars
    <3> QED
      BY <2>8, <3>1 DEF ReportInternalSegment, queueVars
  <2>9. CASE ReleaseInternalSegment
    BY <2>9 DEF ReleaseInternalSegment, Goto, queueVars, entryVars
  <2>10. CASE UploadAccepted \/ UploadRefused \/ UploadFails \/ UploadAnswerLost
    <3>1. PICK point \in {"uploaded", "reported", "assigned"}, next \in {"dispatch", "return"} :
            UploadSegment(point, next)
      BY <2>10 DEF UploadAccepted, UploadRefused, UploadFails, UploadAnswerLost
    <3>2. task' \in [Videos -> [Segments -> TaskPoints]] /\ known' \subseteq Videos
      <4>1. active \in Videos /\ seg \in Segments /\ point \in TaskPoints
        BY <3>1 DEF UploadSegment, TaskPoints
      <4> HIDE DEF Segments
      <4> QED
        BY <3>1, <4>1, TaskTypeKept DEF UploadSegment, TaskBecomes
    <3> QED
      BY <3>1, <3>2 DEF UploadSegment, queueVars
  <2>11. CASE DispatchCompleted
    BY <2>11 DEF DispatchCompleted, Goto, queueVars, entryVars
  <2>12. CASE \E j \in Segments : DeferredRelease(j)
    BY <2>12 DEF DeferredRelease, runnerVars, queueVars, entryVars
  <2>13. CASE MarkDone
    BY <2>13 DEF MarkDone, queueVars, entryVars
  <2> QED
    BY <1>9, <2>1, <2>2, <2>3, <2>4, <2>5, <2>6, <2>7, <2>8, <2>9, <2>10, <2>11, <2>12, <2>13
      DEF DispatchStep
<1>10. ASSUME NEW w \in Videos, NEW j \in Segments, PeerReports(w, j) PROVE RunnerTypeOK'
  <2>1. task' \in [Videos -> [Segments -> TaskPoints]]
    <3>1. "reported" \in TaskPoints
      BY DEF TaskPoints
    <3> HIDE DEF Segments
    <3> QED
      BY <1>10, <3>1, TaskTypeKept DEF PeerReports
  <2> QED
    BY <1>10, <2>1 DEF PeerReports, queueVars
<1>11. CASE UNCHANGED vars
  BY <1>11 DEF vars, runnerVars, queueVars, entryVars
<1> QED
  BY <1>1, <1>2, <1>3, <1>4, <1>5, <1>6, <1>7, <1>8, <1>9, <1>10, <1>11 DEF Next

\* Every step keeps handled videos out of the queue and of the runner's hands.
LEMMA QueueStep ==
  RunnerTypeOK /\ QueueInv /\ [Next]_vars => QueueInv' /\ (\A v \in done : active' # v)
<1> SUFFICES ASSUME RunnerTypeOK, QueueInv, [Next]_vars
             PROVE  QueueInv' /\ (\A v \in done : active' # v)
  OBVIOUS
<1> USE RunnerAssumption DEF RunnerTypeOK, QueueInv
<1>1. CASE StartPool /\ UNCHANGED runnerVars
  BY <1>1 DEF StartPool, runnerVars, queueVars, entryVars
<1>2. ASSUME NEW h \in Holders, HolderStep(h) /\ UNCHANGED runnerVars
      PROVE  QueueInv' /\ (\A v \in done : active' # v)
  BY <1>2 DEF HolderStep, runnerVars, queueVars, entryVars
<1>3. ASSUME NEW e \in Engines, ChildDies(e) /\ UNCHANGED runnerVars
      PROVE  QueueInv' /\ (\A v \in done : active' # v)
  BY <1>3 DEF ChildDies, runnerVars, queueVars, entryVars
<1>4. ASSUME NEW h \in UploadLeases, UploadedSegment(h)
      PROVE  QueueInv' /\ (\A v \in done : active' # v)
  BY <1>4 DEF UploadedSegment, runnerVars, queueVars, entryVars
<1>5. ASSUME NEW w \in Videos, EnqueueSourceVideo(w)
      PROVE  QueueInv' /\ (\A v \in done : active' # v)
  BY <1>5 DEF EnqueueSourceVideo, entryVars
<1>6. CASE SetBackpressure
  BY <1>6 DEF SetBackpressure, entryVars
<1>7. ASSUME NEW w \in Videos, PopPendingSplit(w) PROVE QueueInv' /\ (\A v \in done : active' # v)
  BY <1>7 DEF PopPendingSplit, entryVars
<1>8. CASE SplitStep
  <2>1. CASE AcquireForSplit
    BY <2>1 DEF AcquireForSplit, Goto, queueVars, entryVars
  <2>2. CASE SplitSlotRefused
    BY <2>2 DEF SplitSlotRefused, queueVars, entryVars
  <2>3. CASE CallSplit
    BY <2>3 DEF CallSplit, Goto, queueVars, entryVars
  <2>4. CASE \E to \in {"plan", "requeue"} : EndSplit(to)
    BY <2>4 DEF EndSplit, Goto, queueVars, entryVars
  <2>5. CASE RequeuePendingSplit
    BY <2>5 DEF RequeuePendingSplit, queueVars, entryVars
  <2> QED
    BY <1>8, <2>1, <2>2, <2>3, <2>4, <2>5 DEF SplitStep
<1>9. CASE DispatchStep
  <2>1. CASE PlanSegment
    BY <2>1 DEF PlanSegment, Goto, queueVars, entryVars
  <2>2. CASE SegmentPlanned
    BY <2>2 DEF SegmentPlanned, Goto, queueVars, entryVars
  <2>3. CASE PlanCompleted
    BY <2>3 DEF PlanCompleted, queueVars, entryVars
  <2>4. CASE CreateAnswered
    BY <2>4 DEF CreateAnswered, EntryCreates, queueVars, entryVars
  <2>5. CASE CreateAnswerLost
    BY <2>5 DEF CreateAnswerLost, EntryCreates, RetryOrAbandon, queueVars, entryVars
  <2>6. CASE CreateFails
    BY <2>6 DEF CreateFails, RetryOrAbandon, queueVars, entryVars
  <2>7. CASE ProcessInternalSegment
    BY <2>7 DEF ProcessInternalSegment, Goto, queueVars, entryVars
  <2>8. CASE ReportInternalSegment
    BY <2>8 DEF ReportInternalSegment, TaskBecomes, queueVars, entryVars
  <2>9. CASE ReleaseInternalSegment
    BY <2>9 DEF ReleaseInternalSegment, Goto, queueVars, entryVars
  <2>10. CASE UploadAccepted \/ UploadRefused \/ UploadFails \/ UploadAnswerLost
    BY <2>10 DEF UploadAccepted, UploadRefused, UploadFails, UploadAnswerLost, UploadSegment,
      TaskBecomes, queueVars, entryVars
  <2>11. CASE DispatchCompleted
    BY <2>11 DEF DispatchCompleted, Goto, queueVars, entryVars
  <2>12. CASE \E j \in Segments : DeferredRelease(j)
    BY <2>12 DEF DeferredRelease, runnerVars, queueVars, entryVars
  <2>13. CASE MarkDone
    BY <2>13 DEF MarkDone, queueVars, entryVars
  <2> QED
    BY <1>9, <2>1, <2>2, <2>3, <2>4, <2>5, <2>6, <2>7, <2>8, <2>9, <2>10, <2>11, <2>12, <2>13
      DEF DispatchStep
<1>10. ASSUME NEW w \in Videos, NEW j \in Segments, PeerReports(w, j)
       PROVE  QueueInv' /\ (\A v \in done : active' # v)
  BY <1>10 DEF PeerReports, queueVars
<1>11. CASE UNCHANGED vars
  BY <1>11 DEF vars, runnerVars, queueVars, entryVars
<1> QED
  BY <1>1, <1>2, <1>3, <1>4, <1>5, <1>6, <1>7, <1>8, <1>9, <1>10, <1>11 DEF Next

\* Every step keeps the loop over the assignments in line with the answer.
LEMMA AssignmentsStep ==
  RunnerTypeOK /\ AssignmentsInv /\ [Next]_vars => AssignmentsInv'
<1> SUFFICES ASSUME RunnerTypeOK, AssignmentsInv, [Next]_vars PROVE AssignmentsInv'
  OBVIOUS
<1> USE RunnerAssumption DEF RunnerTypeOK, AssignmentsInv, NoVideo, Segments
<1>1. CASE StartPool /\ UNCHANGED runnerVars
  BY <1>1 DEF StartPool, runnerVars, queueVars, entryVars
<1>2. ASSUME NEW h \in Holders, HolderStep(h) /\ UNCHANGED runnerVars PROVE AssignmentsInv'
  BY <1>2 DEF HolderStep, runnerVars, queueVars, entryVars
<1>3. ASSUME NEW e \in Engines, ChildDies(e) /\ UNCHANGED runnerVars PROVE AssignmentsInv'
  BY <1>3 DEF ChildDies, runnerVars, queueVars, entryVars
<1>4. ASSUME NEW h \in UploadLeases, UploadedSegment(h) PROVE AssignmentsInv'
  BY <1>4 DEF UploadedSegment, runnerVars, queueVars, entryVars
<1>5. ASSUME NEW w \in Videos, EnqueueSourceVideo(w) PROVE AssignmentsInv'
  BY <1>5 DEF EnqueueSourceVideo, entryVars
<1>6. CASE SetBackpressure
  BY <1>6 DEF SetBackpressure, entryVars
<1>7. ASSUME NEW w \in Videos, PopPendingSplit(w) PROVE AssignmentsInv'
  BY <1>7 DEF PopPendingSplit, entryVars
<1>8. CASE SplitStep
  <2>1. CASE AcquireForSplit
    BY <2>1 DEF AcquireForSplit, Goto, queueVars, entryVars
  <2>2. CASE SplitSlotRefused
    BY <2>2 DEF SplitSlotRefused, queueVars, entryVars
  <2>3. CASE CallSplit
    BY <2>3 DEF CallSplit, Goto, queueVars, entryVars
  <2>4. CASE \E to \in {"plan", "requeue"} : EndSplit(to)
    BY <2>4 DEF EndSplit, Goto, queueVars, entryVars
  <2>5. CASE RequeuePendingSplit
    BY <2>5 DEF RequeuePendingSplit, queueVars, entryVars
  <2> QED
    BY <1>8, <2>1, <2>2, <2>3, <2>4, <2>5 DEF SplitStep
<1>9. CASE DispatchStep
  <2>1. CASE PlanSegment
    BY <2>1 DEF PlanSegment, Goto, queueVars, entryVars
  <2>2. CASE SegmentPlanned
    BY <2>2 DEF SegmentPlanned, Goto, queueVars, entryVars
  <2>3. CASE PlanCompleted
    BY <2>3 DEF PlanCompleted, queueVars, entryVars
  <2>4. CASE CreateAnswered
    BY <2>4 DEF CreateAnswered, EntryCreates, queueVars, entryVars
  <2>5. CASE CreateAnswerLost
    BY <2>5 DEF CreateAnswerLost, EntryCreates, RetryOrAbandon, queueVars, entryVars
  <2>6. CASE CreateFails
    BY <2>6 DEF CreateFails, RetryOrAbandon, queueVars, entryVars
  <2>7. CASE ProcessInternalSegment
    BY <2>7 DEF ProcessInternalSegment, Goto, queueVars, entryVars
  <2>8. CASE ReportInternalSegment
    BY <2>8 DEF ReportInternalSegment, TaskBecomes, queueVars, entryVars
  <2>9. CASE ReleaseInternalSegment
    BY <2>9 DEF ReleaseInternalSegment, Goto, queueVars, entryVars
  <2>10. CASE UploadAccepted \/ UploadRefused \/ UploadFails \/ UploadAnswerLost
    BY <2>10 DEF UploadAccepted, UploadRefused, UploadFails, UploadAnswerLost, UploadSegment,
      TaskBecomes, queueVars, entryVars
  <2>11. CASE DispatchCompleted
    BY <2>11 DEF DispatchCompleted, Goto, queueVars, entryVars
  <2>12. CASE \E j \in Segments : DeferredRelease(j)
    BY <2>12 DEF DeferredRelease, runnerVars, queueVars, entryVars
  <2>13. CASE MarkDone
    BY <2>13 DEF MarkDone, queueVars, entryVars
  <2> QED
    BY <1>9, <2>1, <2>2, <2>3, <2>4, <2>5, <2>6, <2>7, <2>8, <2>9, <2>10, <2>11, <2>12, <2>13
      DEF DispatchStep
<1>10. ASSUME NEW w \in Videos, NEW j \in Segments, PeerReports(w, j) PROVE AssignmentsInv'
  BY <1>10 DEF PeerReports, queueVars
<1>11. CASE UNCHANGED vars
  BY <1>11 DEF vars, runnerVars, queueVars, entryVars
<1> QED
  BY <1>1, <1>2, <1>3, <1>4, <1>5, <1>6, <1>7, <1>8, <1>9, <1>10, <1>11 DEF Next

\* Every step keeps the leases at the stages the runner's point allows.
LEMMA LeasesStep ==
  TypeOK /\ QueueInv /\ AssignmentsInv /\ LeaseStages /\ [Next]_vars => LeaseStages'
<1> SUFFICES ASSUME TypeOK, QueueInv, AssignmentsInv, LeaseStages, [Next]_vars,
                NEW v \in Videos, NEW i \in Segments
             PROVE LeaseStage(v, at[Segment(v, i)], i)'
  BY DEF LeaseStages
<1> USE RunnerAssumption DEF RunnerTypeOK, AssignmentsInv, NoVideo, Segments, LeaseStage, Over
<1>1. RunnerTypeOK /\ at \in [Holders -> Points] /\ Segment(v, i) \in Holders
  BY LeasesAreHolders DEF TypeOK, PoolTypeOK
<1>2. LeaseStage(v, at[Segment(v, i)], i)
  BY DEF LeaseStages
<1>3. Split # Segment(v, i)
  BY LeasesDiffer
<1>4. \A w \in Videos, j \in Segments : Segment(w, j) = Segment(v, i) => w = v /\ j = i
  BY LeasesDiffer
<1>5. CASE StartPool /\ UNCHANGED runnerVars
  BY <1>5, <1>1, <1>2 DEF StartPool, runnerVars, queueVars, entryVars
<1>6. ASSUME NEW h \in Holders, HolderStep(h) /\ UNCHANGED runnerVars
      PROVE  LeaseStage(v, at[Segment(v, i)], i)'
  <2>1. \/ at'[Segment(v, i)] = at[Segment(v, i)]
        \/ at[Segment(v, i)] = "sending" /\ at'[Segment(v, i)] = "released"
        \/ at[Segment(v, i)] \notin {"none", "held", "sending", "released"}
    BY <1>6, <1>1, <1>2 DEF HolderStep, Receive, NoIdleEngine, MarkLeased, EngineCall,
        EngineReturns,
       Send, Points
  <2> QED
    BY <1>6, <1>1, <1>2, <2>1 DEF runnerVars, queueVars
<1>7. ASSUME NEW e \in Engines, ChildDies(e) /\ UNCHANGED runnerVars
      PROVE  LeaseStage(v, at[Segment(v, i)], i)'
  BY <1>7, <1>1, <1>2 DEF ChildDies, runnerVars, queueVars, entryVars
<1>8. ASSUME NEW h \in UploadLeases, UploadedSegment(h) PROVE LeaseStage(v, at[Segment(v, i)], i)'
  <2>1. at'[Segment(v, i)] = at[Segment(v, i)]
    <3>1. h # Segment(v, i)
      BY LeasesDiffer
    <3> QED
      BY <1>8, <1>1, <1>2, <3>1 DEF UploadedSegment, Acquire, Ask, MarkExecuting, Release
  <2> QED
    BY <1>8, <1>1, <1>2, <2>1 DEF UploadedSegment, runnerVars, queueVars
<1>9. ASSUME NEW w \in Videos, EnqueueSourceVideo(w) PROVE LeaseStage(v, at[Segment(v, i)], i)'
  BY <1>9, <1>1, <1>2 DEF EnqueueSourceVideo, entryVars, poolVars
<1>10. CASE SetBackpressure
  BY <1>10, <1>1, <1>2 DEF SetBackpressure, entryVars, poolVars
<1>11. ASSUME NEW w \in Videos, PopPendingSplit(w) PROVE LeaseStage(v, at[Segment(v, i)], i)'
  BY <1>11, <1>1, <1>2 DEF PopPendingSplit, entryVars, poolVars, QueueInv
<1>12. CASE SplitStep
  <2>1. CASE AcquireForSplit
    BY <2>1, <1>1, <1>2, <1>3 DEF AcquireForSplit, Goto, queueVars, entryVars, Acquire, Ask
  <2>2. CASE SplitSlotRefused
    BY <2>2, <1>1, <1>2, <1>3 DEF SplitSlotRefused, queueVars, entryVars, CancelAcquire
  <2>3. CASE CallSplit
    BY <2>3, <1>1, <1>2, <1>3 DEF CallSplit, Goto, queueVars, entryVars, MarkExecuting
  <2>4. CASE \E to \in {"plan", "requeue"} : EndSplit(to)
    BY <2>4, <1>1, <1>2, <1>3 DEF EndSplit, Goto, queueVars, entryVars, Release
  <2>5. CASE RequeuePendingSplit
    BY <2>5, <1>1, <1>2 DEF RequeuePendingSplit, queueVars, entryVars, poolVars
  <2> QED
    BY <1>12, <2>1, <2>2, <2>3, <2>4, <2>5 DEF SplitStep
<1>13. CASE DispatchStep
  <2>1. CASE PlanSegment
    <3>1. active \in Videos /\ seg \in Segments /\ Current \in Holders
      BY <2>1, <1>1, LeasesAreHolders DEF PlanSegment, Goto, Current
    <3>2. Current = Segment(v, i) => active = v /\ seg = i
      BY <3>1, <1>4 DEF Current
    <3>3. active = v /\ seg = i => Current = Segment(v, i)
      BY DEF Current
    <3>4. \/ at'[Segment(v, i)] = at[Segment(v, i)]
          \/ (active = v /\ seg = i /\ at'[Segment(v, i)] \in {"trying"})
      BY <2>1, <1>1, <3>1, <3>2 DEF PlanSegment, TryAcquire, Ask
    <3> QED
      BY <2>1, <1>1, <1>2, <3>1, <3>4 DEF PlanSegment, Goto, queueVars, entryVars
  <2>2. CASE SegmentPlanned
    BY <2>2, <1>1, <1>2 DEF SegmentPlanned, Goto, queueVars, entryVars, poolVars
  <2>3. CASE PlanCompleted
    BY <2>3, <1>1, <1>2 DEF PlanCompleted, queueVars, entryVars, poolVars
  <2>4. CASE CreateAnswered
    BY <2>4, <1>1, <1>2 DEF CreateAnswered, EntryCreates, queueVars, entryVars, poolVars
  <2>5. CASE CreateAnswerLost
    BY <2>5, <1>1, <1>2 DEF CreateAnswerLost, EntryCreates, RetryOrAbandon, queueVars,
        entryVars, poolVars
  <2>6. CASE CreateFails
    BY <2>6, <1>1, <1>2 DEF CreateFails, RetryOrAbandon, queueVars, entryVars, poolVars
  <2>7. CASE ProcessInternalSegment
    <3>1. active \in Videos /\ seg \in Segments /\ Current \in Holders
      BY <2>7, <1>1, LeasesAreHolders DEF ProcessInternalSegment, Goto, Current
    <3>2. Current = Segment(v, i) => active = v /\ seg = i
      BY <3>1, <1>4 DEF Current
    <3>3. active = v /\ seg = i => Current = Segment(v, i)
      BY DEF Current
    <3>4. \/ at'[Segment(v, i)] = at[Segment(v, i)]
          \/ (active = v /\ seg = i /\ at'[Segment(v, i)] \in {"calling"})
      BY <2>7, <1>1, <3>1, <3>2 DEF ProcessInternalSegment, MarkExecuting
    <3> QED
      BY <2>7, <1>1, <1>2, <3>1, <3>4 DEF ProcessInternalSegment, Goto, queueVars, entryVars
  <2>8. CASE ReportInternalSegment
    BY <2>8, <1>1, <1>2 DEF ReportInternalSegment, TaskBecomes, queueVars, entryVars, poolVars
  <2>9. CASE ReleaseInternalSegment
    <3>1. active \in Videos /\ seg \in Segments /\ Current \in Holders
      BY <2>9, <1>1, LeasesAreHolders DEF ReleaseInternalSegment, Goto, Current
    <3>2. Current = Segment(v, i) => active = v /\ seg = i
      BY <3>1, <1>4 DEF Current
    <3>3. active = v /\ seg = i => Current = Segment(v, i)
      BY DEF Current
    <3>4. at'[Segment(v, i)] = at[Segment(v, i)]
            \/ (active = v /\ seg = i /\ at'[Segment(v, i)] \in {"sending", "released"})
      BY <2>9, <1>1, <3>1, <3>2 DEF ReleaseInternalSegment, Release
    <3>5. active = v /\ seg = i => at'[Segment(v, i)] \in {"sending", "released"}
      BY <2>9, <1>1, <3>1, <3>3 DEF ReleaseInternalSegment, Release
    <3> QED
      BY <2>9, <1>1, <1>2, <3>1, <3>4, <3>5 DEF ReleaseInternalSegment, Goto, queueVars, entryVars
  <2>10. CASE UploadAccepted \/ UploadRefused \/ UploadFails \/ UploadAnswerLost
    <3>1. PICK point \in {"uploaded", "reported", "assigned"}, next \in {"dispatch", "return"} :
            UploadSegment(point, next)
      BY <2>10 DEF UploadAccepted, UploadRefused, UploadFails, UploadAnswerLost
    <3>2. at[Segment(v, i)] \in {"none", "held", "released"}
      BY <3>1 DEF UploadSegment, Settled, SegmentLeases
    <3>3. active = v /\ seg = i => at[Segment(v, i)] # "held"
      BY <3>1 DEF UploadSegment, Current
    <3>4. UNCHANGED <<at, active, answer, done>> /\ pc = "dispatch" /\ pc' = next
      BY <3>1 DEF UploadSegment, poolVars, queueVars
    <3>5. next = "dispatch" => seg' = seg + 1
      BY <3>1 DEF UploadSegment
    <3> QED
      BY <1>1, <1>2, <3>2, <3>3, <3>4, <3>5
  <2>11. CASE DispatchCompleted
    <3>1. at[Segment(v, i)] \in {"none", "held", "released"}
      BY <2>11 DEF DispatchCompleted, Goto, queueVars, entryVars, Settled, SegmentLeases
    <3> QED
      BY <2>11, <1>1, <1>2, <3>1 DEF DispatchCompleted, Goto, queueVars, entryVars, poolVars
  <2>12. CASE \E j \in Segments : DeferredRelease(j)
    <3>1. PICK j \in Segments : DeferredRelease(j)
      BY <2>12
    <3>2. UNCHANGED <<active, answer, done, pc, seg>> /\ pc = "return" /\ active \in Videos
      BY <3>1, <1>1 DEF DeferredRelease, runnerVars, queueVars
    <3>3. active # v => at'[Segment(v, i)] = at[Segment(v, i)]
      BY <3>1, <3>2, <1>1, <1>4 DEF DeferredRelease, Release
    <3> QED
      BY <1>2, <3>2, <3>3
  <2>13. CASE MarkDone
    <3>1. at[Segment(v, i)] \in {"none", "held", "released"}
      BY <2>13 DEF MarkDone, queueVars, entryVars, Settled, SegmentLeases
    <3>2. pc = "return" /\ active = v => at[Segment(v, i)] # "held"
      BY <2>13 DEF MarkDone, HeldFor
    <3> QED
      BY <2>13, <1>1, <1>2, <3>1, <3>2 DEF MarkDone, queueVars, entryVars, poolVars
  <2> QED
    BY <1>13, <2>1, <2>2, <2>3, <2>4, <2>5, <2>6, <2>7, <2>8, <2>9, <2>10, <2>11, <2>12, <2>13
      DEF DispatchStep
<1>14. ASSUME NEW w \in Videos, NEW j \in Segments, PeerReports(w, j)
       PROVE  LeaseStage(v, at[Segment(v, i)], i)'
  BY <1>14, <1>1, <1>2 DEF PeerReports, queueVars, poolVars
<1>15. CASE UNCHANGED vars
  BY <1>15, <1>1, <1>2 DEF vars, runnerVars, queueVars, entryVars, poolVars
<1> QED
  BY <1>5, <1>6, <1>7, <1>8, <1>9, <1>10, <1>11, <1>12, <1>13, <1>14, <1>15 DEF Next

\* Every step keeps the split's engine within splitVideo: the calls of the plan
\* and of the dispatch are on the segments' leases, and wait for the split's to
\* be back.
LEMMA SplitStageStep == TypeOK /\ SplitStage /\ [Next]_vars => SplitStage'
<1> SUFFICES ASSUME TypeOK, SplitStage, [Next]_vars PROVE SplitStage'
  OBVIOUS
<1> USE DEF SplitStage, Over
<1>1. /\ at \in [Holders -> Points]
      /\ Split \in Holders /\ SegmentLeases \subseteq Holders
      /\ Split \notin SegmentLeases /\ Split \notin UploadLeases
      /\ pc # "idle" => active \in Videos
  BY LeasesAreHolders, LeasesDiffer, RunnerAssumption
    DEF TypeOK, PoolTypeOK, RunnerTypeOK, SegmentLeases, Split, UploadLeases, Upload
<1>2. CASE StartPool /\ UNCHANGED runnerVars
  BY <1>2 DEF StartPool, runnerVars
<1>3. ASSUME NEW h \in Holders, HolderStep(h) /\ UNCHANGED runnerVars PROVE SplitStage'
  <2>1. UNCHANGED pc
    BY <1>3 DEF runnerVars
  <2>2. at[Split] \in {"none", "released"} => at'[Split] = at[Split]
    BY <1>3, <1>1 DEF HolderStep, Receive, NoIdleEngine, MarkLeased, EngineCall, EngineReturns,
      Send
  <2>3. at[Split] = "sending" => at'[Split] \in {"sending", "released"}
    BY <1>3, <1>1 DEF HolderStep, Receive, NoIdleEngine, MarkLeased, EngineCall, EngineReturns,
      Send
  <2> QED
    BY <2>1, <2>2, <2>3
<1>4. ASSUME NEW e \in Engines, ChildDies(e) /\ UNCHANGED runnerVars PROVE SplitStage'
  BY <1>4 DEF ChildDies, runnerVars
<1>5. ASSUME NEW h \in UploadLeases, UploadedSegment(h) PROVE SplitStage'
  <2>1. UNCHANGED pc
    BY <1>5 DEF UploadedSegment, runnerVars
  <2>2. at'[Split] = at[Split]
    BY <1>5, <1>1 DEF UploadedSegment, Acquire, Ask, MarkExecuting, Release
  <2> QED
    BY <2>1, <2>2
<1>6. ASSUME NEW w \in Videos, EnqueueSourceVideo(w) PROVE SplitStage'
  BY <1>6 DEF EnqueueSourceVideo, poolVars
<1>7. CASE SetBackpressure
  BY <1>7 DEF SetBackpressure, poolVars
<1>8. ASSUME NEW w \in Videos, PopPendingSplit(w) PROVE SplitStage'
  BY <1>8 DEF PopPendingSplit, poolVars
<1>9. CASE SplitStep
  <2>1. CASE AcquireForSplit
    BY <2>1, <1>1 DEF AcquireForSplit, Goto
  <2>2. CASE SplitSlotRefused
    BY <2>2, <1>1 DEF SplitSlotRefused, CancelAcquire
  <2>3. CASE CallSplit
    BY <2>3 DEF CallSplit, Goto
  <2>4. ASSUME NEW to \in {"plan", "requeue"}, EndSplit(to) PROVE SplitStage'
    BY <2>4, <1>1 DEF EndSplit, Goto, Release
  <2>5. CASE RequeuePendingSplit
    BY <2>5 DEF RequeuePendingSplit, Settled, poolVars
  <2> QED
    BY <1>9, <2>1, <2>2, <2>3, <2>4, <2>5 DEF SplitStep
<1>10. CASE DispatchStep
  <2>1. CASE PlanSegment \/ ProcessInternalSegment \/ ReleaseInternalSegment
    <3>1. /\ pc \in {"plan", "dispatch", "reported"}
          /\ pc' \in {"try_slot", "processing", "dispatch"}
      BY <2>1 DEF PlanSegment, ProcessInternalSegment, ReleaseInternalSegment, Goto
    <3>2. seg \in Segments
      BY <2>1 DEF PlanSegment, ProcessInternalSegment, ReleaseInternalSegment, Goto, TypeOK,
        RunnerTypeOK
    <3>3. Current \in SegmentLeases
      BY <1>1, <3>1, <3>2 DEF Current, SegmentLeases
    <3>4. at'[Split] = at[Split]
      BY <2>1, <1>1, <3>3 DEF PlanSegment, ProcessInternalSegment, ReleaseInternalSegment,
        TryAcquire, Ask, MarkExecuting, Release
    <3> QED
      BY <3>1, <3>4
  <2>2. ASSUME NEW j \in Segments, DeferredRelease(j) PROVE SplitStage'
    <3>1. pc = "return" /\ pc' = pc
      BY <2>2 DEF DeferredRelease, runnerVars
    <3>2. Segment(active, j) \in SegmentLeases
      BY <1>1, <3>1 DEF SegmentLeases
    <3>3. at'[Split] = at[Split]
      BY <2>2, <1>1, <3>2 DEF DeferredRelease, Release
    <3> QED
      BY <3>1, <3>3
  <2>3. CASE \/ SegmentPlanned \/ PlanCompleted \/ CreateAnswered \/ CreateAnswerLost
             \/ CreateFails \/ ReportInternalSegment \/ DispatchCompleted
    <3>1. pc \notin {"idle", "split_wait", "splitting"} /\ pc' # "idle" /\ UNCHANGED at
      BY <2>3 DEF SegmentPlanned, PlanCompleted, CreateAnswered, CreateAnswerLost, CreateFails,
        RetryOrAbandon, ReportInternalSegment, DispatchCompleted, Goto, poolVars
    <3> QED
      BY <3>1
  <2>4. CASE UploadAccepted \/ UploadRefused \/ UploadFails \/ UploadAnswerLost
    <3>1. pc = "dispatch" /\ pc' # "idle" /\ UNCHANGED at
      BY <2>4 DEF UploadAccepted, UploadRefused, UploadFails, UploadAnswerLost, UploadSegment,
        poolVars
    <3> QED
      BY <3>1
  <2>5. CASE MarkDone
    BY <2>5 DEF MarkDone, Settled, poolVars
  <2> QED
    BY <1>10, <2>1, <2>2, <2>3, <2>4, <2>5 DEF DispatchStep
<1>11. ASSUME NEW w \in Videos, NEW j \in Segments, PeerReports(w, j) PROVE SplitStage'
  BY <1>11 DEF PeerReports, poolVars
<1>12. CASE UNCHANGED vars
  BY <1>12 DEF vars, poolVars, runnerVars
<1> QED
  BY <1>2, <1>3, <1>4, <1>5, <1>6, <1>7, <1>8, <1>9, <1>10, <1>11, <1>12 DEF Next

-----------------------------------------------------------------------------
\* Everything the proofs know of a reachable state.
RunnerInv == TypeOK /\ QueueInv /\ AssignmentsInv /\ LeaseStages /\ SplitStage

\* The invariant holds in every reachable state.
THEOREM RunnerInvariant == Spec => []RunnerInv
<1>1. Init => RunnerInv
  <2> SUFFICES ASSUME Init PROVE RunnerInv
    OBVIOUS
  <2>1. PoolTypeOK
    BY PoolInitOK DEF Init, PoolInv
  <2>2. RunnerTypeOK
    <3>1. task \in [Videos -> [Segments -> TaskPoints]] /\ answer \in [Videos -> Answers]
      BY DEF Init, TaskPoints, Answers
    <3>2. seg \in 0 .. SegmentCount /\ attempt \in 1 .. Attempts
      BY RunnerAssumption DEF Init
    <3>3. active \in Videos \cup {NoVideo} /\ pc \in PCs /\ pc = "idle"
      BY DEF Init, PCs
    <3> QED
      BY <3>1, <3>2, <3>3 DEF Init, RunnerTypeOK
  <2>3. QueueInv /\ AssignmentsInv
    BY DEF Init, QueueInv, AssignmentsInv
  <2>4. LeaseStages
    BY LeasesAreHolders, RunnerAssumption
      DEF Init, PoolInit, LeaseStages, LeaseStage, Over, NoVideo
  <2>5. SplitStage
    BY LeasesAreHolders DEF Init, PoolInit, SplitStage, Over
  <2> QED
    BY <2>1, <2>2, <2>3, <2>4, <2>5 DEF RunnerInv, TypeOK
<1>2. RunnerInv /\ [Next]_vars => RunnerInv'
  <2> SUFFICES ASSUME RunnerInv, [Next]_vars PROVE RunnerInv'
    OBVIOUS
  <2>1. PoolTypeOK'
    BY StepsOfThePool, TypeStep DEF RunnerInv, TypeOK
  <2>2. RunnerTypeOK' /\ QueueInv'
    BY RunnerTypesStep, QueueStep DEF RunnerInv, TypeOK
  <2>3. AssignmentsInv' /\ LeaseStages'
    BY AssignmentsStep, LeasesStep DEF RunnerInv, TypeOK
  <2>4. SplitStage'
    BY SplitStageStep DEF RunnerInv, TypeOK
  <2> QED
    BY <2>1, <2>2, <2>3, <2>4 DEF RunnerInv, TypeOK
<1> QED
  BY <1>1, <1>2, PTL DEF Spec

\* The runner and the handlers use the pool only as the pool allows, so what is
\* proved of the pool holds of the worker: this composition implements it.
THEOREM RunnerImplementsPool == Spec => PoolSpec
<1>1. Init => PoolInit
  BY DEF Init
<1>2. RunnerInv /\ [Next]_vars => [PoolNext]_poolVars
  BY StepsOfThePool DEF RunnerInv
<1> QED
  BY <1>1, <1>2, RunnerInvariant, PTL DEF Spec, PoolSpec

\* In the whole worker no two goroutines ever have the same engine.
THEOREM WorkerEnginesStayInPlace == Spec => []EngineInOnePlace
  BY RunnerImplementsPool, EnginesStayInPlace, PTL

\* A video that was handled is never taken up again, whatever the scans queue.
THEOREM VideosHandledOnce == Spec => HandledOnce
<1>1. RunnerInv /\ [Next]_vars => [\A v \in Videos : v \in done => active' # v]_vars
  BY QueueStep DEF RunnerInv, TypeOK
<1> QED
  BY <1>1, RunnerInvariant, PTL DEF Spec, HandledOnce

\* Between two videos the runner holds no engine, with the one exception of a
\* job that Entry had already; the split's engine goes back with splitVideo.
THEOREM LeasesComeBack == Spec => []LeasesReturned
<1>1. RunnerInv => LeasesReturned
  <2> SUFFICES ASSUME RunnerInv PROVE LeasesReturned
    OBVIOUS
  <2>1. \A v \in Videos :
          HeldFor(v) # {} /\ (active # v) => answer[v] = "exists" /\ v \in done
    BY DEF RunnerInv, LeaseStages, LeaseStage, HeldFor, Over
  <2>2. pc \notin {"split_wait", "splitting"} => at[Split] \in {"none", "sending", "released"}
    BY DEF RunnerInv, SplitStage, Over
  <2>3. active = NoVideo => pc = "idle"
    BY RunnerAssumption DEF RunnerInv, TypeOK, RunnerTypeOK
  <2>4. active = NoVideo => at[Split] # "sending"
    BY <2>3 DEF RunnerInv, SplitStage, Over
  <2> QED
    BY <2>1, <2>2, <2>4 DEF LeasesReturned
<1> QED
  BY <1>1, RunnerInvariant, PTL

\* Type correctness of the worker: the conjunct of RunnerInv the run checks.
THEOREM RunnerTypeCorrect == Spec => []TypeOK
<1>1. RunnerInv => TypeOK
  BY DEF RunnerInv
<1> QED
  BY <1>1, RunnerInvariant, PTL

\* The whole worker, scans, retries and handlers included, hands engines out as
\* a plain pool of slots does: the pool's refinement carries over.
THEOREM WorkerImplementsSlotPool == Spec => ImplementsSlotPool
  BY RunnerImplementsPool, PoolImplementsSlotPool

\* In the whole worker no Release ever blocks on the channel.
THEOREM WorkerReleaseNeverBlocks == Spec => []SendNeverBlocks
  BY RunnerImplementsPool, ReleaseNeverBlocks, PTL

-----------------------------------------------------------------------------
(* Waiting for an engine.  One goroutine both waits for engines and holds    *)
(* them: it must not wait for what it holds itself.                          *)

\* The runner waits at one point only, and with one lease only.
WaitInv ==
  /\ pool \in {"new", "started"}
  /\ at[Split] = "waiting" => pc = "split_wait"
  /\ \A h \in SegmentLeases : at[h] # "waiting"

\* An engine that comes back, or that a video Entry already had a job for keeps.
NotHeldByTheWaiter(g) ==
  \/ g \in UploadLeases
  \/ \E v \in Videos, i \in Segments : g = Segment(v, i) /\ answer[v] = "exists" /\ v \in done

\* The runner never waits for an engine that it holds for a segment: segments
\* only try, and while it waits to split every engine is in the channel, with a
\* handler's goroutine, or lost to a job Entry already had.
NoCircularWait ==
  /\ \A h \in SegmentLeases : at[h] # "waiting"
  /\ at[Split] = "waiting" =>
       \A e \in Engines : idle[e] = 1 \/ \E g \in HoldersOf(e) : NotHeldByTheWaiter(g)

\* Every step of the worker keeps the runner from waiting anywhere else.
LEMMA WaitStep == TypeOK /\ WaitInv /\ [Next]_vars => WaitInv'
<1> SUFFICES ASSUME TypeOK, WaitInv, [Next]_vars PROVE WaitInv'
  OBVIOUS
<1> USE DEF WaitInv, Acquire, Ask
<1>1. /\ at \in [Holders -> Points]
      /\ Split \in Holders /\ SegmentLeases \subseteq Holders
      /\ Split \notin SegmentLeases /\ Split \notin UploadLeases
      /\ \A h \in SegmentLeases : h \notin UploadLeases
  BY LeasesAreHolders, LeasesDiffer, RunnerAssumption
    DEF TypeOK, PoolTypeOK, SegmentLeases, Split, UploadLeases, Upload
<1>2. CASE StartPool /\ UNCHANGED runnerVars
  BY <1>2 DEF StartPool, runnerVars
<1>3. ASSUME NEW h \in Holders, HolderStep(h) /\ UNCHANGED runnerVars PROVE WaitInv'
  <2>1. UNCHANGED <<pool, pc>>
    BY <1>3 DEF HolderStep, Receive, NoIdleEngine, MarkLeased, EngineCall, EngineReturns, Send,
      runnerVars
  <2>2. \A g \in Holders : at'[g] = "waiting" => at[g] = "waiting"
    BY <1>3, <1>1 DEF HolderStep, Receive, NoIdleEngine, MarkLeased, EngineCall, EngineReturns,
      Send
  <2> QED
    BY <1>1, <2>1, <2>2
<1>4. ASSUME NEW e \in Engines, ChildDies(e) /\ UNCHANGED runnerVars PROVE WaitInv'
  BY <1>4 DEF ChildDies, runnerVars
<1>5. ASSUME NEW h \in UploadLeases, UploadedSegment(h) PROVE WaitInv'
  <2>1. UNCHANGED <<pool, pc>>
    BY <1>5 DEF UploadedSegment, MarkExecuting, Release, runnerVars
  <2>2. \A g \in Holders : g # h => at'[g] = at[g]
    BY <1>5, <1>1 DEF UploadedSegment, MarkExecuting, Release
  <2> QED
    BY <1>1, <2>1, <2>2
<1>6. ASSUME NEW w \in Videos, EnqueueSourceVideo(w) PROVE WaitInv'
  BY <1>6 DEF EnqueueSourceVideo, poolVars
<1>7. CASE SetBackpressure
  BY <1>7 DEF SetBackpressure, poolVars
<1>8. ASSUME NEW w \in Videos, PopPendingSplit(w) PROVE WaitInv'
  BY <1>8 DEF PopPendingSplit, poolVars
<1>9. CASE SplitStep
  <2>1. CASE AcquireForSplit
    BY <2>1, <1>1 DEF AcquireForSplit, Goto
  <2>2. CASE SplitSlotRefused
    BY <2>2, <1>1 DEF SplitSlotRefused, CancelAcquire
  <2>3. CASE CallSplit
    BY <2>3, <1>1 DEF CallSplit, MarkExecuting
  <2>4. CASE \E to \in {"plan", "requeue"} : EndSplit(to)
    BY <2>4, <1>1 DEF EndSplit, Release
  <2>5. CASE RequeuePendingSplit
    BY <2>5 DEF RequeuePendingSplit, poolVars
  <2> QED
    BY <1>9, <2>1, <2>2, <2>3, <2>4, <2>5 DEF SplitStep
<1>10. CASE DispatchStep
  <2>0. pc # "split_wait" => at[Split] # "waiting"
    OBVIOUS
  <2>1. CASE PlanSegment \/ ProcessInternalSegment \/ ReleaseInternalSegment
    <3>1. pc # "split_wait" /\ UNCHANGED pool
      BY <2>1 DEF PlanSegment, ProcessInternalSegment, ReleaseInternalSegment, Goto,
        TryAcquire, MarkExecuting, Release
    <3>2. \A g \in Holders : at'[g] = "waiting" => at[g] = "waiting"
      BY <2>1, <1>1 DEF PlanSegment, ProcessInternalSegment, ReleaseInternalSegment,
        TryAcquire, MarkExecuting, Release
    <3> QED
      BY <1>1, <2>0, <3>1, <3>2
  <2>2. CASE \E j \in Segments : DeferredRelease(j)
    <3>1. pc # "split_wait" /\ UNCHANGED pool
      BY <2>2 DEF DeferredRelease, Release
    <3>2. \A g \in Holders : at'[g] = "waiting" => at[g] = "waiting"
      BY <2>2, <1>1 DEF DeferredRelease, Release
    <3> QED
      BY <1>1, <2>0, <3>1, <3>2
  <2>3. CASE \/ SegmentPlanned \/ PlanCompleted \/ CreateAnswered \/ CreateAnswerLost
             \/ CreateFails \/ ReportInternalSegment \/ DispatchCompleted \/ MarkDone
    <3>1. pc # "split_wait" /\ UNCHANGED <<pool, at>>
      BY <2>3 DEF SegmentPlanned, PlanCompleted, CreateAnswered, CreateAnswerLost, CreateFails,
        ReportInternalSegment, DispatchCompleted, MarkDone, Goto, poolVars
    <3> QED
      BY <2>0, <3>1
  <2>4. CASE UploadAccepted \/ UploadRefused \/ UploadFails \/ UploadAnswerLost
    <3>1. pc # "split_wait" /\ UNCHANGED <<pool, at>>
      BY <2>4 DEF UploadAccepted, UploadRefused, UploadFails, UploadAnswerLost, UploadSegment,
        poolVars
    <3> QED
      BY <2>0, <3>1
  <2> QED
    BY <1>10, <2>1, <2>2, <2>3, <2>4 DEF DispatchStep
<1>11. ASSUME NEW w \in Videos, NEW j \in Segments, PeerReports(w, j) PROVE WaitInv'
  BY <1>11 DEF PeerReports, poolVars
<1>12. CASE UNCHANGED vars
  BY <1>12 DEF vars, poolVars, runnerVars
<1> QED
  BY <1>2, <1>3, <1>4, <1>5, <1>6, <1>7, <1>8, <1>9, <1>10, <1>11, <1>12 DEF Next

\* While the runner waits to split, a segment's engine is one it lost.
LEMMA WaitsEmptyHanded ==
  ASSUME RunnerInv, WaitInv, at[Split] = "waiting",
         NEW v \in Videos, NEW i \in Segments, at[Segment(v, i)] \in Holding
  PROVE  answer[v] = "exists" /\ v \in done
<1>1. LeaseStage(v, at[Segment(v, i)], i)
  BY DEF RunnerInv, LeaseStages
<1>2. pc = "split_wait"
  BY DEF WaitInv
<1> QED
  BY <1>1, <1>2 DEF LeaseStage, Over, Holding

\* No circular wait, for any number of engines, videos, segments and handlers,
\* and whatever calls fail: the part of WaiterIsServed that is about the pool's
\* state and not about the scheduler.
THEOREM RunnerNeverWaitsOnItself == Spec => []NoCircularWait
<1>1. Init => WaitInv
  BY LeasesAreHolders, RunnerAssumption DEF Init, PoolInit, WaitInv
<1>2. RunnerInv /\ WaitInv /\ [Next]_vars => WaitInv'
  BY WaitStep DEF RunnerInv
<1>3. RunnerInv /\ WaitInv /\ PoolInv => NoCircularWait
  <2> SUFFICES ASSUME RunnerInv, WaitInv, PoolInv, at[Split] = "waiting", NEW e \in Engines,
                      idle[e] # 1
               PROVE  \E g \in HoldersOf(e) : NotHeldByTheWaiter(g)
    BY DEF NoCircularWait, WaitInv
  <2>1. pool = "started"
    BY LeasesAreHolders DEF WaitInv, PoolInv, NothingBeforeStart
  <2>2. PICK g \in Holders : at[g] \in Holding /\ with[g] = e
    BY <2>1 DEF PoolInv, EngineInOnePlace, HoldersOf
  <2>3. g \in HoldersOf(e) /\ g # Split
    BY <2>2 DEF HoldersOf, Holding
  <2>4. NotHeldByTheWaiter(g)
    <3>1. CASE g \in UploadLeases
      BY <3>1 DEF NotHeldByTheWaiter
    <3>2. CASE g \in SegmentLeases
      <4>1. PICK v \in Videos, i \in Segments : g = Segment(v, i)
        BY <3>2 DEF SegmentLeases
      <4>2. answer[v] = "exists" /\ v \in done
        BY <2>2, <4>1, WaitsEmptyHanded
      <4> QED
        BY <4>1, <4>2 DEF NotHeldByTheWaiter
    <3> QED
      BY <2>3, <3>1, <3>2, RunnerAssumption
  <2> QED
    BY <2>3, <2>4
<1>4. Spec => []PoolInv
  BY RunnerImplementsPool, PoolInvariant, PTL
<1> QED
  BY <1>1, <1>2, <1>3, <1>4, RunnerInvariant, PTL DEF Spec
=============================================================================
