------------------------- MODULE WorkerAgentProofs -------------------------
(***************************************************************************)
(* Failure detection and backpressure by heartbeats, for any number of     *)
(* workers and any intervals that satisfy AgentAssumption: a live worker   *)
(* is never taken for dead, a dead one is found, and a source is paused    *)
(* and resumed in time.  All three are arithmetic on ticks: what has       *)
(* passed since the last event, and what may pass at most until the next.  *)
(***************************************************************************)
EXTENDS WorkerAgent, TLAPS

\* What the loop's ticker and its request are like.  A worker whose loop runs has a
\* ticker or is about to send or waits for its first answer; a request was sent at a
\* tick of the ticker or later; nothing is left of a loop that does not run.
TickersRun ==
  \A w \in Workers :
    /\ Live(w) /\ beat[w] = "none" /\ due[w] = 0 => w \in fired
    /\ beat[w] # "none" /\ due[w] # 0 /\ w \notin fired => due[w] + wait[w] <= Interval
    /\ ~Live(w) => beat[w] = "none" /\ due[w] = 0 /\ missed[w] = 0
    /\ ~Waiting(w) => wait[w] = 0

\* The ticks that heartbeats which may still get lost take.
Losses(w) == (MaxLost - missed[w]) * Round

\* Ticks until the request under way, or the next one, has returned.
Until(w) ==
  IF beat[w] # "none" THEN Patience - wait[w]
  ELSE IF w \in fired THEN Patience
  ELSE due[w] + Patience

\* A ticker that is yet to be made fires an interval after the first send.
NewTicker(w) == IF due[w] = 0 THEN Interval ELSE 0

\* Ticks until a heartbeat has got through, the one under way included.
Coming(w) == Until(w) + NewTicker(w) + Losses(w)

\* The same when the one under way does not count any more.
Following(w) == (Patience - wait[w]) + Interval + Patience + MaxLost * Round

\* No heartbeat that Entry handles comes later than Gap after the one before.
BeatsInTime ==
  \A w \in registered :
    /\ phase[w] = "registering" => w \in online /\ age[w] <= wait[w]
    /\ Live(w) =>
         /\ w \in online
         /\ beat[w] \in {"none", "sent"} => age[w] + Coming(w) <= Gap
         /\ beat[w] \notin {"none", "sent"} => age[w] + Following(w) <= Gap

\* No worker is online that the next check would find too late.
Watched ==
  \A w \in online :
    age[w] + (IF "expiry" \in checks THEN 0 ELSE check) <= Timeout + CheckInterval

\* The status is wrong for no longer than until the next refresh.
RefreshedInTime(w) ==
  Known(w) /\ ~(backpressure <=> FleetFull) =>
    since[w] + (IF "backpressure" \in checks THEN 0 ELSE check) <= CheckInterval

\* The answer on its way says what is not so any more.
OldAnswer(w) == beat[w] = (IF backpressure THEN "clear" ELSE "active")

\* Once it is right, a worker that was told otherwise, or is about to be, has been so
\* for no longer than Reaction less what it takes to tell it.
HeardInTime(w) ==
  Known(w) /\ (backpressure <=> FleetFull) =>
    /\ OldAnswer(w) => since[w] + Following(w) <= Reaction
    /\ ~OldAnswer(w) /\ ~(w \in paused <=> backpressure) => since[w] + Coming(w) <= Reaction

PausesInTime == \A w \in Workers : RefreshedInTime(w) /\ HeardInTime(w)

AgentInv == AgentTypeOK /\ TickersRun /\ BeatsInTime /\ Watched /\ PausesInTime

-----------------------------------------------------------------------------
\* The subtraction of the release loops stays a natural number.
LEMMA MinusIsNat == \A a, b \in Nat : Minus(a, b) \in Nat
BY DEF Minus

\* A reservation keeps the registry's types.
LEMMA ReserveSlotType ==
  ASSUME RegistryTypeOK, NEW w \in Workers, ReserveSlot(w)
  PROVE  RegistryTypeOK'
<1>1. reservedSlots' \in [Workers -> Nat]
  BY DEF RegistryTypeOK, ReserveSlot
<1>2. UNCHANGED <<observed, reservedDisk, backpressure>>
  BY DEF ReserveSlot
<1> QED
  BY <1>1, <1>2 DEF RegistryTypeOK, observed

\* The intervals, as the arithmetic below needs them.
LEMMA Intervals ==
  /\ Interval \in Nat \ {0} /\ Patience \in Nat \ {0} /\ CheckInterval \in Nat \ {0}
  /\ Timeout \in Nat /\ MaxLost \in Nat
  /\ Round \in Nat /\ Interval <= Round /\ Patience <= Round
  /\ MaxLost * Round \in Nat
  /\ Gap = Interval + 2 * Patience + MaxLost * Round /\ Gap \in Nat /\ Gap < Timeout
  /\ Reaction = CheckInterval + Gap /\ Reaction \in Nat
  /\ \A m \in 0 .. MaxLost : (MaxLost - m) * Round \in 0 .. MaxLost * Round
  /\ \A m \in 0 .. MaxLost - 1 : (MaxLost - (m + 1)) * Round + Round = (MaxLost - m) * Round
  /\ (MaxLost - 0) * Round = MaxLost * Round
<1>1. /\ Interval \in Nat \ {0} /\ Patience \in Nat \ {0} /\ CheckInterval \in Nat \ {0}
      /\ Timeout \in Nat /\ MaxLost \in Nat /\ Gap < Timeout
  BY AgentAssumption
<1>2. Round \in Nat /\ Interval <= Round /\ Patience <= Round
  BY <1>1 DEF Round
<1>3. \A a, b \in Nat : a * b \in Nat
  OBVIOUS
<1>4. \A a, b, c \in Nat : a <= b => a * c <= b * c
  OBVIOUS
<1>5. MaxLost * Round \in Nat
  BY <1>1, <1>2, <1>3
<1>6. ASSUME NEW m \in 0 .. MaxLost PROVE (MaxLost - m) * Round \in 0 .. MaxLost * Round
  <2>1. MaxLost - m \in Nat /\ MaxLost - m <= MaxLost
    BY <1>1
  <2>2. (MaxLost - m) * Round \in Nat /\ (MaxLost - m) * Round <= MaxLost * Round
    BY <1>1, <1>2, <1>3, <1>4, <2>1
  <2> QED
    BY <1>5, <2>2
<1>7. ASSUME NEW m \in 0 .. MaxLost - 1
      PROVE  (MaxLost - (m + 1)) * Round + Round = (MaxLost - m) * Round
  <2>1. \A a \in Int, c \in Int : (a - 1) * c + c = a * c
    OBVIOUS
  <2>2. MaxLost - m \in Int /\ MaxLost - (m + 1) = (MaxLost - m) - 1 /\ Round \in Int
    BY <1>1, <1>2
  <2> QED
    BY <2>1, <2>2
<1>8. Gap = Interval + 2 * Patience + MaxLost * Round /\ Gap \in Nat
  BY <1>1, <1>5 DEF Gap
<1>9. Reaction = CheckInterval + Gap /\ Reaction \in Nat
  BY <1>1, <1>8 DEF Reaction
<1>10. MaxLost - 0 = MaxLost
  BY <1>1
<1> QED
  BY <1>1, <1>2, <1>5, <1>6, <1>7, <1>8, <1>9, <1>10

-----------------------------------------------------------------------------
(* Types. *)

\* A process that ends leaves typed variables.
LEMMA EndProcessType ==
  ASSUME AgentTypeOK, NEW w \in Workers, NEW left \in SUBSET Workers, EndProcess(w, left), Remember
  PROVE  AgentTypeOK'
<1>1. phase' \in [Workers -> Phases] /\ beat' \in [Workers -> BeatPoints]
  BY DEF EndProcess, AgentTypeOK, Enters, Beats, Phases, BeatPoints
<1>2. /\ zombie' \subseteq Workers /\ source' \subseteq Workers /\ paused' \subseteq Workers
      /\ fired' \subseteq Workers
  BY DEF EndProcess, AgentTypeOK
<1>3. late' \subseteq Workers
  BY DEF EndProcess, AgentTypeOK
<1>4. /\ due' \in [Workers -> 0 .. Interval] /\ wait' \in [Workers -> 0 .. Patience]
      /\ missed' \in [Workers -> 0 .. MaxLost]
  BY Intervals DEF EndProcess, AgentTypeOK, Waits
<1>5. RegistryTypeOK'
  BY DEF EndProcess, AgentTypeOK, registryVars, RegistryTypeOK
<1>6. since' \in [Workers -> 0 .. Reaction + 1]
  BY Intervals DEF AgentTypeOK, Remember
<1> QED
  BY <1>1, <1>2, <1>3, <1>4, <1>5, <1>6 DEF EndProcess, AgentTypeOK, clockVars, AgeCap

\* A send that returns does, too.
LEMMA SendReturnsType ==
  ASSUME AgentTypeOK, NEW w \in Workers, SendReturns(w), Remember,
         late' \subseteq Workers, paused' \subseteq Workers, missed' \in [Workers -> 0 .. MaxLost]
  PROVE  AgentTypeOK'
<1>1. beat' \in [Workers -> BeatPoints]
  BY DEF SendReturns, AgentTypeOK, Beats, BeatPoints
<1>2. due' \in [Workers -> 0 .. Interval] /\ wait' \in [Workers -> 0 .. Patience]
  BY Intervals DEF SendReturns, AgentTypeOK, Waits
<1>3. RegistryTypeOK'
  BY DEF SendReturns, AgentTypeOK, registryVars, RegistryTypeOK
<1>4. since' \in [Workers -> 0 .. Reaction + 1]
  BY Intervals DEF AgentTypeOK, Remember
<1> QED
  BY <1>1, <1>2, <1>3, <1>4 DEF SendReturns, AgentTypeOK, clockVars, processVars, AgeCap

\* Types are kept by each step of a process.
LEMMA ProcessTypeStep ==
  ASSUME AgentTypeOK, NEW w \in Workers, ProcessStep(w), Remember
  PROVE  AgentTypeOK'
<1>s. since' \in [Workers -> 0 .. Reaction + 1]
  BY Intervals DEF AgentTypeOK, Remember
<1>1. ASSUME NEW offer \in Offers, RunAgent(w, offer) PROVE AgentTypeOK'
  <2>1. RegistryTypeOK'
    BY <1>1, RegistryAssumption DEF RunAgent, AgentTypeOK, RegistryTypeOK, RegisterWorker, reserved
  <2>2. age' \in [Workers -> 0 .. AgeCap] /\ wait' \in [Workers -> 0 .. Patience]
    BY <1>1, Intervals DEF RunAgent, AgentTypeOK, AgeCap, Waits
  <2> QED
    BY <1>s, <1>1, <2>1, <2>2 DEF RunAgent, AgentTypeOK, Enters, Phases, tickerVars
<1>2. CASE RegisterAnswered(w) \/ RegisterLost(w)
  <2>1. RegistryTypeOK'
    BY <1>2 DEF RegisterAnswered, RegisterLost, AgentTypeOK, RegistryTypeOK, registryVars
  <2>2. wait' \in [Workers -> 0 .. Patience] /\ fired' \subseteq Workers
    BY <1>2, Intervals DEF RegisterAnswered, RegisterLost, AgentTypeOK, Waits, tickerVars
  <2> QED
    BY <1>s, <1>2, <2>1, <2>2
    DEF RegisterAnswered, RegisterLost, AgentTypeOK, AgeCap, Enters, Phases, tickerVars, clockVars
<1>3. CASE Listen(w) \/ StartSource(w)
  <2>1. RegistryTypeOK'
    BY <1>3 DEF Listen, StartSource, AgentTypeOK, RegistryTypeOK, registryVars
  <2> QED
    BY <1>s, <1>3, <2>1
    DEF Listen, StartSource, AgentTypeOK, AgeCap, Enters, Phases, clockVars, beatVars, tickerVars,
        requestVars
<1>4. CASE ListenFails(w) \/ Terminate(w) \/ Kill(w)
  BY <1>4, EndProcessType DEF ListenFails, Terminate, Kill
<1> QED
  BY <1>1, <1>2, <1>3, <1>4 DEF ProcessStep

\* The same for a heartbeat.
LEMMA HeartbeatTypeStep ==
  ASSUME AgentTypeOK, NEW w \in Workers, HeartbeatStep(w), Remember
  PROVE  AgentTypeOK'
<1>s. since' \in [Workers -> 0 .. Reaction + 1]
  BY Intervals DEF AgentTypeOK, Remember
<1>1. CASE SendHeartbeat(w) \/ ReadStatus(w)
  <2>1. RegistryTypeOK'
    BY <1>1 DEF SendHeartbeat, ReadStatus, AgentTypeOK, RegistryTypeOK, registryVars
  <2>2. beat' \in [Workers -> BeatPoints]
    BY <1>1 DEF SendHeartbeat, ReadStatus, AgentTypeOK, Beats, BeatPoints
  <2> QED
    BY <1>s, <1>1, <2>1, <2>2
    DEF SendHeartbeat, ReadStatus, AgentTypeOK, AgeCap, clockVars, processVars, tickerVars
<1>2. ASSUME NEW disk \in HeartbeatDisks, HandleHeartbeat(w, disk) \/ LateHeartbeat(w, disk)
      PROVE  AgentTypeOK'
  <2>1. RegistryTypeOK'
    <3>1. HeartbeatWorker(w, disk)
      BY <1>2 DEF HandleHeartbeat, LateHeartbeat
    <3> QED
      BY <3>1, RegistryAssumption DEF HeartbeatWorker, AgentTypeOK, RegistryTypeOK, reserved
  <2>2. age' \in [Workers -> 0 .. AgeCap] /\ beat' \in [Workers -> BeatPoints]
    BY <1>2, Intervals
    DEF HandleHeartbeat, LateHeartbeat, AgentTypeOK, AgeCap, Beats, BeatPoints, beatVars, requestVars
  <2> QED
    BY <1>s, <1>2, <2>1, <2>2
    DEF HandleHeartbeat, LateHeartbeat, AgentTypeOK, processVars, tickerVars, requestVars, beatVars
<1>3. CASE AnswerHeartbeat(w)
  <2>1. paused' \subseteq Workers
    <3>1. paused' = paused \cup {w} \/ paused' = paused \ {w}
      BY <1>3, Zenon DEF AnswerHeartbeat
    <3> QED
      BY <3>1 DEF AgentTypeOK
  <2> QED
    BY <1>3, <2>1, SendReturnsType, Intervals DEF AnswerHeartbeat, AgentTypeOK
<1>4. CASE HeartbeatLost(w)
  <2>1. late' \subseteq Workers
    BY <1>4 DEF HeartbeatLost, AgentTypeOK
  <2> QED
    BY <1>4, <2>1, SendReturnsType, Intervals DEF HeartbeatLost, AgentTypeOK
<1>5. CASE HeartbeatNotFound(w)
  BY <1>5, SendReturnsType DEF HeartbeatNotFound, AgentTypeOK
<1> QED
  BY <1>1, <1>2, <1>3, <1>4, <1>5 DEF HeartbeatStep

\* The same for Entry.
LEMMA EntryTypeStep ==
  ASSUME AgentTypeOK, EntryStep, Remember
  PROVE  AgentTypeOK'
<1>s. since' \in [Workers -> 0 .. Reaction + 1]
  BY Intervals DEF AgentTypeOK, Remember
<1>1. CASE CheckExpiry
  <2>1. RegistryTypeOK'
    BY <1>1 DEF CheckExpiry, AgentTypeOK, registryVars, RegistryTypeOK, MarkExpiredWorkers, reserved
  <2> QED
    BY <1>s, <1>1, <2>1
    DEF CheckExpiry, AgentTypeOK, AgeCap, processVars, beatVars, tickerVars, requestVars
<1>2. CASE CheckBackpressure
  <2>1. RegistryTypeOK'
    BY <1>2 DEF CheckBackpressure, AgentTypeOK, RegistryTypeOK, RefreshBackpressureStatus, observed, reserved
  <2> QED
    BY <1>s, <1>2, <2>1
    DEF CheckBackpressure, AgentTypeOK, AgeCap, processVars, beatVars, tickerVars, requestVars
<1>3. CASE RestartEntry
  <2>1. RegistryTypeOK'
    BY <1>3 DEF RestartEntry, RegistryTypeOK
  <2>2. beat' \in [Workers -> BeatPoints]
    BY <1>3 DEF RestartEntry, AgentTypeOK, BeatPoints
  <2>3. check' \in 1 .. CheckInterval /\ checks' \subseteq {"expiry", "backpressure"} /\ late' \subseteq Workers
    BY <1>3, Intervals DEF RestartEntry
  <2> QED
    BY <1>s, <1>3, <2>1, <2>2, <2>3 DEF RestartEntry, AgentTypeOK, AgeCap, processVars, tickerVars
<1>4. ASSUME NEW w \in Workers, EntryReserves(w) \/ EntryReleases(w) PROVE AgentTypeOK'
  <2>1. RegistryTypeOK'
    <3>1. CASE EntryReserves(w)
      BY <3>1, ReserveSlotType DEF EntryReserves, AgentTypeOK
    <3>2. CASE EntryReleases(w)
      <4>1. reservedSlots' \in [Workers -> Nat]
        BY <3>2, MinusIsNat DEF EntryReleases, ReleaseReservations, AgentTypeOK, RegistryTypeOK
      <4> QED
        BY <3>2, <4>1 DEF EntryReleases, ReleaseReservations, AgentTypeOK, RegistryTypeOK, observed
    <3> QED
      BY <1>4, <3>1, <3>2
  <2> QED
    BY <1>s, <1>4, <2>1
    DEF EntryReserves, EntryReleases, AgentTypeOK, AgeCap, clockVars, processVars, beatVars, tickerVars,
        requestVars
<1> QED
  BY <1>1, <1>2, <1>3, <1>4 DEF EntryStep

\* Types are kept by each step.
LEMMA AgentTypeStep ==
  ASSUME AgentTypeOK, [AgentNext]_agentVars
  PROVE  AgentTypeOK'
<1>1. CASE Tick
  <2>1. age' \in [Workers -> 0 .. AgeCap]
    BY <1>1, Intervals DEF Tick, AgentTypeOK, AgeCap, Capped
  <2>2. check' \in 1 .. CheckInterval /\ checks' \subseteq {"expiry", "backpressure"}
    BY <1>1, Intervals DEF Tick, AgentTypeOK
  <2>3. due' \in [Workers -> 0 .. Interval]
    <3>1. \A w \in Workers : due[w] \in 0 .. Interval
      BY DEF AgentTypeOK
    <3>2. due' = [w \in Workers |-> IF due[w] = 1 THEN Interval ELSE IF due[w] = 0 THEN 0 ELSE due[w] - 1]
      BY <1>1 DEF Tick
    <3>3. \A d \in 0 .. Interval : (IF d = 1 THEN Interval ELSE IF d = 0 THEN 0 ELSE d - 1) \in 0 .. Interval
      BY Intervals
    <3> QED
      BY <3>1, <3>2, <3>3
  <2>4. wait' \in [Workers -> 0 .. Patience]
    BY <1>1, Intervals DEF Tick, AgentTypeOK, Urgent
  <2>5. since' \in [Workers -> 0 .. Reaction + 1]
    BY <1>1, Intervals DEF Tick, AgentTypeOK, Capped
  <2>6. RegistryTypeOK'
    BY <1>1 DEF Tick, AgentTypeOK, registryVars, RegistryTypeOK
  <2> QED
    BY <1>1, <2>1, <2>2, <2>3, <2>4, <2>5, <2>6 DEF Tick, AgentTypeOK, processVars
<1>2. CASE UNCHANGED agentVars
  <2>1. RegistryTypeOK'
    BY <1>2 DEF agentVars, AgentTypeOK, RegistryTypeOK, registryVars
  <2> QED
    BY <1>2, <2>1
    DEF agentVars, AgentTypeOK, AgeCap, clockVars, processVars, beatVars, tickerVars, requestVars
<1> QED
  BY <1>1, <1>2, ProcessTypeStep, HeartbeatTypeStep, EntryTypeStep DEF AgentNext

-----------------------------------------------------------------------------
(* The ticks to come. *)

InBounds(w) ==
  /\ age[w] \in Nat /\ since[w] \in Nat /\ beat[w] \in BeatPoints
  /\ due[w] \in 0 .. Interval /\ wait[w] \in 0 .. Patience /\ missed[w] \in 0 .. MaxLost
  /\ Losses(w) \in 0 .. MaxLost * Round
  /\ (missed[w] = 0 => Losses(w) = MaxLost * Round)
  /\ Coming(w) \in 0 .. Gap - Patience
  /\ Following(w) \in 0 .. Gap

\* Whatever the loop is at, a heartbeat gets through within Gap.
LEMMA Bounds == AgentTypeOK => \A w \in Workers : InBounds(w)
<1> SUFFICES ASSUME AgentTypeOK, NEW w \in Workers PROVE InBounds(w)
  OBVIOUS
<1>1. /\ age[w] \in Nat /\ since[w] \in Nat /\ beat[w] \in BeatPoints
      /\ due[w] \in 0 .. Interval /\ wait[w] \in 0 .. Patience /\ missed[w] \in 0 .. MaxLost
  BY Intervals DEF AgentTypeOK, AgeCap
<1>2. Losses(w) \in 0 .. MaxLost * Round /\ (missed[w] = 0 => Losses(w) = MaxLost * Round)
  BY <1>1, Intervals DEF Losses
<1>3. Until(w) + NewTicker(w) \in 0 .. Interval + Patience
  BY <1>1, Intervals DEF Until, NewTicker
<1>4. Until(w) \in Int /\ NewTicker(w) \in Int
  BY <1>1, Intervals DEF Until, NewTicker
<1>5. Coming(w) \in 0 .. Gap - Patience
  BY <1>2, <1>3, <1>4, Intervals DEF Coming
<1>6. Following(w) \in 0 .. Gap
  BY <1>1, Intervals DEF Following
<1> QED
  BY <1>1, <1>2, <1>5, <1>6 DEF InBounds

\* The same in the next state.
LEMMA BoundsNext == AgentTypeOK' => \A w \in Workers : InBounds(w)'
<1>1. AgentTypeOK' => (\A w \in Workers : InBounds(w))'
  BY Bounds, PTL
<1> QED
  BY <1>1

\* When a send returns, the next heartbeat comes no later than it was due, whether
\* this one got through or was lost.
LEMMA ReturnsInTime ==
  ASSUME AgentTypeOK, AgentTypeOK', TickersRun, NEW w \in Workers, SendReturns(w), beat[w] # "none"
  PROVE  /\ Coming(w)' <= Following(w)
         /\ missed[w] < MaxLost /\ missed' = [missed EXCEPT ![w] = @ + 1] => Coming(w)' <= Coming(w)
<1>1. InBounds(w) /\ InBounds(w)'
  BY Bounds, BoundsNext
<1>2. /\ beat'[w] = "none" /\ wait'[w] = 0 /\ fired' = fired
      /\ due'[w] = IF due[w] = 0 THEN Interval ELSE due[w]
  BY DEF SendReturns, AgentTypeOK, Beats, Waits
<1>3. due[w] # 0 /\ w \notin fired => due[w] + wait[w] <= Interval
  BY DEF TickersRun
<1>4. Coming(w)' = (IF w \in fired THEN Patience ELSE due'[w] + Patience) + Losses(w)'
  BY <1>1, <1>2, Intervals DEF Coming, Until, NewTicker, InBounds
<1>5. Coming(w)' <= Following(w)
  BY <1>1, <1>2, <1>3, <1>4, Intervals DEF InBounds, Following
<1>6. ASSUME missed[w] < MaxLost, missed' = [missed EXCEPT ![w] = @ + 1]
      PROVE  Coming(w)' <= Coming(w)
  <2>1. missed[w] \in 0 .. MaxLost - 1 /\ missed'[w] = missed[w] + 1
    BY <1>1, <1>6, Intervals DEF InBounds, AgentTypeOK
  <2>2. Losses(w)' + Round = Losses(w)
    BY <2>1, Intervals DEF Losses
  <2>3. Coming(w) = (Patience - wait[w]) + (IF due[w] = 0 THEN Interval ELSE 0) + Losses(w)
    BY DEF Coming, Until, NewTicker
  <2> QED
    BY <1>1, <1>2, <1>3, <1>4, <2>2, <2>3, Intervals DEF InBounds
<1> QED
  BY <1>5, <1>6

\* A tick brings the next heartbeat of a live worker a tick nearer.
LEMMA TickInTime ==
  ASSUME AgentTypeOK, AgentTypeOK', TickersRun, Tick, NEW w \in Workers, Live(w)
  PROVE  /\ Coming(w)' + 1 <= Coming(w)
         /\ beat[w] # "none" => Following(w)' + 1 <= Following(w)
<1>1. InBounds(w) /\ InBounds(w)'
  BY Bounds, BoundsNext
<1>2. /\ beat' = beat /\ missed' = missed
      /\ wait'[w] = IF Waiting(w) THEN wait[w] + 1 ELSE wait[w]
      /\ due'[w] = IF due[w] = 1 THEN Interval ELSE IF due[w] = 0 THEN 0 ELSE due[w] - 1
      /\ (w \in fired' <=> w \in fired \/ due[w] = 1)
  BY DEF Tick
<1>3. ~(w \in fired /\ beat[w] = "none")
  BY DEF Tick, Urgent
<1>4. Losses(w)' = Losses(w)
  BY <1>2 DEF Losses
<1>5. CASE beat[w] # "none"
  <2>1. wait'[w] = wait[w] + 1
    BY <1>2, <1>5 DEF Waiting
  <2>2. Coming(w)' + 1 <= Coming(w)
    BY <1>1, <1>2, <1>4, <1>5, <2>1, Intervals DEF InBounds, Coming, Until, NewTicker
  <2>3. Following(w)' + 1 <= Following(w)
    BY <1>1, <2>1, Intervals DEF InBounds, Following
  <2> QED
    BY <2>2, <2>3
<1>6. CASE beat[w] = "none"
  <2>1. due[w] # 0 /\ w \notin fired
    BY <1>3, <1>6 DEF TickersRun
  <2> QED
    BY <1>1, <1>2, <1>4, <1>6, <2>1, Intervals DEF InBounds, Coming, Until, NewTicker
<1> QED
  BY <1>5, <1>6

-----------------------------------------------------------------------------
(* The ticker and the request of the heartbeat loop. *)

\* What has no part in the loop.
LEMMA TickersFrame ==
  ASSUME TickersRun, UNCHANGED <<phase, beat, due, fired, wait, missed>>
  PROVE  TickersRun'
BY DEF TickersRun, Live, Waiting

\* Each step keeps the loop in order.
LEMMA TickersStep ==
  ASSUME AgentTypeOK, AgentTypeOK', TickersRun, [AgentNext]_agentVars
  PROVE  TickersRun'
<1>t. /\ DOMAIN due = Workers /\ DOMAIN missed = Workers /\ DOMAIN wait = Workers
      /\ DOMAIN beat = Workers /\ DOMAIN phase = Workers
      /\ \A w \in Workers : InBounds(w)
  BY Bounds DEF AgentTypeOK
<1>1. CASE Tick
  <2> SUFFICES ASSUME NEW w \in Workers
               PROVE  (/\ Live(w) /\ beat[w] = "none" /\ due[w] = 0 => w \in fired
                       /\ beat[w] # "none" /\ due[w] # 0 /\ w \notin fired => due[w] + wait[w] <= Interval
                       /\ ~Live(w) => beat[w] = "none" /\ due[w] = 0 /\ missed[w] = 0
                       /\ ~Waiting(w) => wait[w] = 0)'
    BY DEF TickersRun
  <2>1. /\ UNCHANGED <<phase, beat, missed>>
        /\ wait'[w] = IF Waiting(w) THEN wait[w] + 1 ELSE wait[w]
        /\ due'[w] = IF due[w] = 1 THEN Interval ELSE IF due[w] = 0 THEN 0 ELSE due[w] - 1
        /\ (w \in fired' <=> w \in fired \/ due[w] = 1)
    BY <1>1 DEF Tick, processVars
  <2>2. InBounds(w)
    BY <1>t
  <2> QED
    BY <2>1, <2>2, Intervals DEF TickersRun, Live, Waiting, InBounds
<1>2. ASSUME NEW w \in Workers, NEW offer, RunAgent(w, offer) PROVE TickersRun'
  <2>1. /\ phase[w] = "down" /\ phase' = [phase EXCEPT ![w] = "registering"]
        /\ wait' = [wait EXCEPT ![w] = 0] /\ UNCHANGED <<due, fired, beat, missed>>
    BY <1>2 DEF RunAgent, Enters, Waits, tickerVars
  <2> QED
    BY <1>t, <2>1 DEF TickersRun, Live, Waiting
<1>3. ASSUME NEW w \in Workers, RegisterAnswered(w) PROVE TickersRun'
  <2>1. /\ phase[w] = "registering" /\ phase' = [phase EXCEPT ![w] = "registered"]
        /\ wait' = [wait EXCEPT ![w] = 0] /\ fired' = fired \cup {w} /\ UNCHANGED <<due, beat, missed>>
    BY <1>3 DEF RegisterAnswered, Enters, Waits
  <2> QED
    BY <1>t, <2>1 DEF TickersRun, Live, Waiting
<1>4. ASSUME NEW w \in Workers, RegisterLost(w) PROVE TickersRun'
  <2>1. /\ phase[w] = "registering" /\ phase' = [phase EXCEPT ![w] = "down"]
        /\ wait' = [wait EXCEPT ![w] = 0] /\ UNCHANGED <<due, fired, beat, missed>>
    BY <1>4 DEF RegisterLost, Enters, Waits, tickerVars
  <2> QED
    BY <1>t, <2>1 DEF TickersRun, Live, Waiting
<1>5. ASSUME NEW w \in Workers, Listen(w) PROVE TickersRun'
  <2>1. /\ phase[w] = "registered" /\ phase' = [phase EXCEPT ![w] = "listening"]
        /\ UNCHANGED <<due, fired, beat, wait, missed>>
    BY <1>5 DEF Listen, Enters, beatVars, tickerVars, requestVars
  <2> QED
    BY <1>t, <2>1 DEF TickersRun, Live, Waiting
<1>6. ASSUME NEW w \in Workers, NEW left, EndProcess(w, left) PROVE TickersRun'
  <2>1. /\ phase' = [phase EXCEPT ![w] = "down"] /\ due' = [due EXCEPT ![w] = 0] /\ fired' = fired \ {w}
        /\ beat' = [beat EXCEPT ![w] = "none"] /\ wait' = [wait EXCEPT ![w] = 0]
        /\ missed' = [missed EXCEPT ![w] = 0]
    BY <1>6 DEF EndProcess, Enters, Beats, Waits
  <2> QED
    BY <1>t, <2>1 DEF TickersRun, Live, Waiting
<1>7. ASSUME NEW w \in Workers, SendHeartbeat(w) PROVE TickersRun'
  <2>1. /\ Live(w) /\ beat[w] = "none" /\ beat' = [beat EXCEPT ![w] = "sent"] /\ fired' = fired \ {w}
        /\ UNCHANGED <<phase, due, wait, missed>>
    BY <1>7 DEF SendHeartbeat, Beats, processVars
  <2>2. wait[w] = 0 /\ due[w] \in Int /\ due[w] <= Interval
    BY <1>t, <2>1, Intervals DEF TickersRun, Live, Waiting, InBounds
  <2>3. due[w] + wait[w] <= Interval
    BY <2>2, Intervals
  <2> QED
    BY <1>t, <2>1, <2>3 DEF TickersRun, Live, Waiting
<1>8. ASSUME NEW w \in Workers, NEW point \in BeatPoints \ {"none"}, beat[w] # "none",
             beat' = [beat EXCEPT ![w] = point], UNCHANGED <<phase, due, fired, wait, missed>>
      PROVE  TickersRun'
  BY <1>t, <1>8 DEF TickersRun, Live, Waiting
<1>9. ASSUME NEW w \in Workers, SendReturns(w), beat[w] # "none",
             \A v \in Workers \ {w} : missed'[v] = missed[v]
      PROVE  TickersRun'
  <2>1. /\ UNCHANGED <<phase, fired>> /\ beat' = [beat EXCEPT ![w] = "none"] /\ wait' = [wait EXCEPT ![w] = 0]
        /\ due'[w] # 0 /\ \A v \in Workers \ {w} : due'[v] = due[v]
    BY <1>9, <1>t, Intervals DEF SendReturns, Beats, Waits, processVars
  <2>2. Live(w)
    BY <1>9 DEF TickersRun
  <2> QED
    BY <1>t, <1>9, <2>1, <2>2 DEF TickersRun, Live, Waiting
<1>10. CASE RestartEntry
  <2>1. /\ UNCHANGED <<phase, due, fired, wait, missed>>
        /\ \A w \in Workers : beat'[w] = "none" <=> beat[w] = "none"
    BY <1>10 DEF RestartEntry, processVars, tickerVars
  <2> QED
    BY <2>1 DEF TickersRun, Live, Waiting
<1>11. CASE UNCHANGED <<phase, beat, due, fired, wait, missed>>
  BY <1>11, TickersFrame
<1>12. ASSUME NEW w \in Workers, ProcessStep(w) PROVE TickersRun'
  <2>1. CASE StartSource(w)
    BY <2>1, <1>11 DEF StartSource, beatVars, tickerVars, requestVars
  <2> QED
    BY <1>12, <2>1, <1>2, <1>3, <1>4, <1>5, <1>6 DEF ProcessStep, ListenFails, Terminate, Kill
<1>13. ASSUME NEW w \in Workers, HeartbeatStep(w) PROVE TickersRun'
  <2>1. ASSUME NEW disk, HandleHeartbeat(w, disk) PROVE TickersRun'
    BY <2>1, <1>8 DEF HandleHeartbeat, Beats, BeatPoints, processVars, tickerVars
  <2>2. ASSUME NEW disk, LateHeartbeat(w, disk) PROVE TickersRun'
    BY <2>2, <1>11 DEF LateHeartbeat, processVars, beatVars, tickerVars, requestVars
  <2>3. CASE ReadStatus(w)
    BY <2>3, <1>8 DEF ReadStatus, Beats, BeatPoints, processVars, tickerVars
  <2>4. CASE AnswerHeartbeat(w)
    BY <1>t, <2>4, <1>9 DEF AnswerHeartbeat
  <2>5. CASE HeartbeatLost(w)
    BY <1>t, <2>5, <1>9 DEF HeartbeatLost
  <2>6. CASE HeartbeatNotFound(w)
    BY <1>t, <2>6, <1>9 DEF HeartbeatNotFound
  <2> QED
    BY <1>13, <1>7, <2>1, <2>2, <2>3, <2>4, <2>5, <2>6 DEF HeartbeatStep
<1>14. CASE EntryStep
  <2>1. CASE CheckExpiry \/ CheckBackpressure
    BY <2>1, <1>11 DEF CheckExpiry, CheckBackpressure, processVars, beatVars, tickerVars, requestVars
  <2>2. ASSUME NEW w \in Workers, EntryReserves(w) \/ EntryReleases(w) PROVE TickersRun'
    BY <2>2, <1>11 DEF EntryReserves, EntryReleases, processVars, beatVars, tickerVars, requestVars
  <2> QED
    BY <1>10, <1>14, <2>1, <2>2 DEF EntryStep
<1>15. CASE UNCHANGED agentVars
  BY <1>15, <1>11 DEF agentVars, processVars, beatVars, tickerVars, requestVars
<1> QED
  BY <1>1, <1>12, <1>13, <1>14, <1>15 DEF AgentNext

-----------------------------------------------------------------------------
(* The ages of the heartbeats. *)

\* The longest gap, and that between a registration and its answer, fit into the timeout.
LEMMA WithinTimeout ==
  ASSUME AgentTypeOK, BeatsInTime, NEW w \in registered, Live(w) \/ phase[w] = "registering"
  PROVE  w \in online /\ age[w] <= Timeout
<1>1. InBounds(w)
  BY Bounds DEF AgentTypeOK, RegistryTypeOK
<1>2. CASE Live(w)
  BY <1>1, <1>2, Intervals DEF BeatsInTime, InBounds
<1>3. CASE phase[w] = "registering"
  BY <1>1, <1>3, Intervals DEF BeatsInTime, InBounds
<1> QED
  BY <1>2, <1>3

\* What holds of one worker, as the steps of others leave it.
InTime(w) ==
  /\ phase[w] = "registering" => w \in online /\ age[w] <= wait[w]
  /\ Live(w) =>
       /\ w \in online
       /\ beat[w] \in {"none", "sent"} => age[w] + Coming(w) <= Gap
       /\ beat[w] \notin {"none", "sent"} => age[w] + Following(w) <= Gap

\* The loop of w does not move, and no heartbeat of it or one just now is handled.
Unmoved(w) ==
  /\ phase'[w] = phase[w] /\ beat'[w] = beat[w] /\ due'[w] = due[w] /\ wait'[w] = wait[w]
  /\ missed'[w] = missed[w] /\ (w \in fired' <=> w \in fired)

\* A worker whose loop does not move stays in time.
LEMMA UnmovedInTime ==
  ASSUME AgentTypeOK, NEW w \in Workers, InTime(w), Unmoved(w),
         w \in online => w \in online', age'[w] = age[w] \/ age'[w] = 0
  PROVE  InTime(w)'
<1>1. InBounds(w)
  BY Bounds
<1>2. Coming(w)' = Coming(w) /\ Following(w)' = Following(w)
  BY DEF Unmoved, Coming, Following, Until, NewTicker, Losses
<1> QED
  BY <1>1, <1>2, Intervals DEF InTime, Unmoved, Live, InBounds

\* Each step keeps the ages in their bounds.
LEMMA BeatsStep ==
  ASSUME AgentTypeOK, AgentTypeOK', TickersRun, BeatsInTime, [AgentNext]_agentVars
  PROVE  BeatsInTime'
<1>t. /\ DOMAIN age = Workers /\ DOMAIN due = Workers /\ DOMAIN missed = Workers /\ DOMAIN wait = Workers
      /\ DOMAIN beat = Workers /\ DOMAIN phase = Workers
      /\ online \subseteq Workers /\ registered \subseteq Workers /\ registered' \subseteq Workers
      /\ \A w \in Workers : InBounds(w) /\ InBounds(w)'
  BY Bounds, BoundsNext DEF AgentTypeOK, RegistryTypeOK
<1>i. \A w \in registered : InTime(w)
  BY DEF BeatsInTime, InTime
<1>g. (\A w \in registered' : InTime(w)') => BeatsInTime'
  BY DEF BeatsInTime, InTime
<1>f. ASSUME NEW w \in registered, Unmoved(w), online \subseteq online', age'[w] = age[w] \/ age'[w] = 0
      PROVE  InTime(w)'
  BY <1>t, <1>i, <1>f, UnmovedInTime
<1>1. CASE Tick
  <2> SUFFICES ASSUME NEW w \in registered PROVE InTime(w)'
    BY <1>1, <1>g DEF Tick, registryVars
  <2>1. /\ UNCHANGED <<online, phase, beat>> /\ age'[w] <= age[w] + 1
        /\ (phase[w] = "registering" => wait'[w] = wait[w] + 1)
    BY <1>1, <1>t, Intervals DEF Tick, registryVars, processVars, Capped, Waiting, AgentTypeOK, AgeCap
  <2>2. Live(w) => /\ Coming(w)' + 1 <= Coming(w)
                   /\ beat[w] # "none" => Following(w)' + 1 <= Following(w)
    BY <1>1, <1>t, TickInTime
  <2>3. InBounds(w) /\ InBounds(w)' /\ InTime(w)
    BY <1>t, <1>i
  <2> QED
    BY <2>1, <2>2, <2>3, Intervals DEF InTime, Live, InBounds
<1>2. ASSUME NEW w \in Workers, ProcessStep(w) PROVE BeatsInTime'
  <2>1. ASSUME NEW offer, RunAgent(w, offer) PROVE BeatsInTime'
    <3>1. /\ age' = [age EXCEPT ![w] = 0] /\ phase' = [phase EXCEPT ![w] = "registering"]
          /\ wait' = [wait EXCEPT ![w] = 0] /\ UNCHANGED <<due, fired, beat, missed>>
          /\ online' = online \cup {w} /\ registered' = registered \cup {w}
      BY <2>1 DEF RunAgent, Enters, Waits, tickerVars, RegisterWorker
    <3>2. InTime(w)'
      BY <1>t, <3>1 DEF InTime, Live
    <3>3. ASSUME NEW v \in registered, v # w PROVE InTime(v)'
      BY <1>t, <1>f, <3>1, <3>3 DEF Unmoved
    <3> QED
      BY <1>g, <3>1, <3>2, <3>3
  <2>2. CASE RegisterAnswered(w)
    <3>1. /\ phase[w] = "registering" /\ phase' = [phase EXCEPT ![w] = "registered"]
          /\ wait' = [wait EXCEPT ![w] = 0] /\ fired' = fired \cup {w}
          /\ UNCHANGED <<age, due, beat, missed, online, registered>>
      BY <2>2 DEF RegisterAnswered, Enters, Waits, registryVars, clockVars
    <3>2. ASSUME w \in registered PROVE InTime(w)'
      <4>1. beat[w] = "none" /\ due[w] = 0 /\ missed[w] = 0
        BY <3>1 DEF TickersRun, Live
      <4>2. w \in online /\ age[w] <= Patience /\ age[w] \in Nat
        BY <1>t, <1>i, <3>1, <3>2, Intervals DEF InTime, InBounds
      <4>3. Coming(w)' = Patience + Interval + MaxLost * Round
        <5>1. Losses(w)' = MaxLost * Round
          BY <3>1, <4>1, Intervals DEF Losses
        <5>2. beat'[w] = "none" /\ due'[w] = 0 /\ w \in fired'
          BY <3>1, <4>1
        <5> QED
          BY <5>1, <5>2, Intervals DEF Coming, Until, NewTicker
      <4>4. age'[w] + Coming(w)' <= Gap
        BY <3>1, <4>2, <4>3, Intervals
      <4> QED
        BY <1>t, <3>1, <4>1, <4>2, <4>4 DEF InTime, Live
    <3>3. ASSUME NEW v \in registered, v # w PROVE InTime(v)'
      BY <1>t, <1>f, <3>1, <3>3 DEF Unmoved
    <3> QED
      BY <1>g, <3>1, <3>2, <3>3
  <2>3. CASE RegisterLost(w)
    <3>1. /\ phase' = [phase EXCEPT ![w] = "down"] /\ wait' = [wait EXCEPT ![w] = 0]
          /\ UNCHANGED <<age, due, fired, beat, missed, online, registered>>
      BY <2>3 DEF RegisterLost, Enters, Waits, registryVars, clockVars, tickerVars
    <3>2. InTime(w)'
      BY <1>t, <3>1 DEF InTime, Live
    <3>3. ASSUME NEW v \in registered, v # w PROVE InTime(v)'
      BY <1>t, <1>f, <3>1, <3>3 DEF Unmoved
    <3> QED
      BY <1>g, <3>1, <3>2, <3>3
  <2>4. CASE Listen(w)
    <3>1. /\ phase[w] = "registered" /\ phase' = [phase EXCEPT ![w] = "listening"]
          /\ UNCHANGED <<age, due, fired, beat, wait, missed, online, registered>>
      BY <2>4 DEF Listen, Enters, registryVars, clockVars, beatVars, tickerVars, requestVars
    <3>2. ASSUME NEW v \in registered PROVE InTime(v)'
      <4>1. Coming(v)' = Coming(v) /\ Following(v)' = Following(v)
        BY <3>1 DEF Coming, Following, Until, NewTicker, Losses
      <4> QED
        BY <1>t, <1>i, <3>1, <4>1 DEF InTime, Live
    <3> QED
      BY <1>g, <3>1, <3>2
  <2>5. CASE StartSource(w)
    <3>1. UNCHANGED <<phase, age, due, fired, beat, wait, missed, online, registered>>
      BY <2>5 DEF StartSource, registryVars, clockVars, beatVars, tickerVars, requestVars
    <3> QED
      BY <1>f, <1>g, <3>1 DEF Unmoved
  <2>6. ASSUME NEW left, EndProcess(w, left) PROVE BeatsInTime'
    <3>1. /\ phase' = [phase EXCEPT ![w] = "down"] /\ due' = [due EXCEPT ![w] = 0] /\ fired' = fired \ {w}
          /\ beat' = [beat EXCEPT ![w] = "none"] /\ wait' = [wait EXCEPT ![w] = 0]
          /\ missed' = [missed EXCEPT ![w] = 0] /\ UNCHANGED <<age, online, registered>>
      BY <2>6 DEF EndProcess, Enters, Beats, Waits, registryVars, clockVars
    <3>2. InTime(w)'
      BY <1>t, <3>1 DEF InTime, Live
    <3>3. ASSUME NEW v \in registered, v # w PROVE InTime(v)'
      BY <1>t, <1>f, <3>1, <3>3 DEF Unmoved
    <3> QED
      BY <1>g, <3>1, <3>2, <3>3
  <2> QED
    BY <1>2, <2>1, <2>2, <2>3, <2>4, <2>5, <2>6 DEF ProcessStep, ListenFails, Terminate, Kill
<1>3. ASSUME NEW w \in Workers, HeartbeatStep(w) PROVE BeatsInTime'
  <2>1. CASE SendHeartbeat(w)
    <3>1. /\ Live(w) /\ beat[w] = "none" /\ w \in fired
          /\ beat' = [beat EXCEPT ![w] = "sent"] /\ fired' = fired \ {w}
          /\ UNCHANGED <<phase, age, due, wait, missed, online, registered>>
      BY <2>1 DEF SendHeartbeat, Beats, processVars, registryVars, clockVars
    <3>2. ASSUME w \in registered PROVE InTime(w)'
      <4>1. wait[w] = 0
        BY <3>1 DEF TickersRun, Live, Waiting
      <4>2. Coming(w)' = Coming(w)
        BY <1>t, <3>1, <4>1, Intervals DEF Coming, Until, NewTicker, Losses
      <4> QED
        BY <1>t, <1>i, <3>1, <3>2, <4>2 DEF InTime, Live
    <3>3. ASSUME NEW v \in registered, v # w PROVE InTime(v)'
      BY <1>t, <1>f, <3>1, <3>3 DEF Unmoved
    <3> QED
      BY <1>g, <3>1, <3>2, <3>3
  <2>2. ASSUME NEW disk, HandleHeartbeat(w, disk) PROVE BeatsInTime'
    <3>1. /\ beat[w] = "sent" /\ beat' = [beat EXCEPT ![w] = "handled"] /\ age' = [age EXCEPT ![w] = 0]
          /\ online' = online \cup {w}
          /\ UNCHANGED <<phase, fired, due, wait, missed, registered>>
      BY <2>2 DEF HandleHeartbeat, HeartbeatWorker, Beats, processVars, tickerVars
    <3>2. InTime(w)'
      <4>1. age'[w] = 0 /\ beat'[w] = "handled" /\ w \in online' /\ phase[w] # "registering"
        BY <1>t, <3>1 DEF TickersRun, Live
      <4>2. age'[w] + Following(w)' <= Gap
        BY <1>t, <4>1, Intervals DEF InBounds
      <4> QED
        BY <3>1, <4>1, <4>2 DEF InTime
    <3>3. ASSUME NEW v \in registered, v # w PROVE InTime(v)'
      BY <1>t, <1>f, <3>1, <3>3 DEF Unmoved
    <3> QED
      BY <1>g, <3>1, <3>2, <3>3
  <2>3. ASSUME NEW disk, LateHeartbeat(w, disk) PROVE BeatsInTime'
    <3>1. /\ age' = [age EXCEPT ![w] = 0] /\ online' = online \cup {w}
          /\ UNCHANGED <<phase, beat, fired, due, wait, missed, registered>>
      BY <2>3 DEF LateHeartbeat, HeartbeatWorker, processVars, beatVars, tickerVars, requestVars
    <3> QED
      BY <1>t, <1>f, <1>g, <3>1 DEF Unmoved
  <2>4. CASE ReadStatus(w)
    <3>1. /\ beat[w] = "handled" /\ beat'[w] \in {"active", "clear"}
          /\ \A v \in Workers \ {w} : beat'[v] = beat[v]
          /\ UNCHANGED <<phase, age, fired, due, wait, missed, online, registered>>
      BY <1>t, <2>4 DEF ReadStatus, Beats, processVars, registryVars, clockVars, tickerVars
    <3>2. ASSUME w \in registered PROVE InTime(w)'
      <4>1. Following(w)' = Following(w)
        BY <3>1 DEF Following
      <4> QED
        BY <1>i, <3>1, <3>2, <4>1 DEF InTime, Live
    <3>3. ASSUME NEW v \in registered, v # w PROVE InTime(v)'
      BY <1>t, <1>f, <3>1, <3>3 DEF Unmoved
    <3> QED
      BY <1>g, <3>1, <3>2, <3>3
  <2>5. ASSUME SendReturns(w), beat[w] # "none", \A v \in Workers \ {w} : missed'[v] = missed[v],
               \/ beat[w] # "sent"
               \/ missed[w] < MaxLost /\ missed' = [missed EXCEPT ![w] = @ + 1]
               \/ w \notin registered
        PROVE  BeatsInTime'
    <3>1. /\ UNCHANGED <<phase, age, fired, online, registered>>
          /\ beat' = [beat EXCEPT ![w] = "none"] /\ wait' = [wait EXCEPT ![w] = 0]
          /\ \A v \in Workers \ {w} : due'[v] = due[v]
      BY <1>t, <2>5 DEF SendReturns, Beats, Waits, processVars, registryVars, clockVars
    <3>2. ASSUME w \in registered PROVE InTime(w)'
      <4>1. /\ Coming(w)' <= Following(w)
            /\ beat[w] = "sent" => Coming(w)' <= Coming(w)
        BY <2>5, <3>2, ReturnsInTime
      <4>2. Live(w)
        BY <2>5 DEF TickersRun
      <4>3. age[w] + Coming(w)' <= Gap /\ w \in online
        BY <1>t, <1>i, <2>5, <3>2, <4>1, <4>2, Intervals DEF InTime, InBounds
      <4> QED
        BY <1>t, <3>1, <4>2, <4>3 DEF InTime, Live
    <3>3. ASSUME NEW v \in registered, v # w PROVE InTime(v)'
      BY <1>t, <1>f, <2>5, <3>1, <3>3 DEF Unmoved
    <3> QED
      BY <1>g, <3>1, <3>2, <3>3
  <2>6. CASE AnswerHeartbeat(w)
    BY <1>t, <2>5, <2>6 DEF AnswerHeartbeat
  <2>7. CASE HeartbeatLost(w)
    BY <1>t, <2>5, <2>7 DEF HeartbeatLost
  <2>8. CASE HeartbeatNotFound(w)
    BY <1>t, <2>5, <2>8 DEF HeartbeatNotFound
  <2> QED
    BY <1>3, <2>1, <2>2, <2>3, <2>4, <2>6, <2>7, <2>8 DEF HeartbeatStep
<1>4. CASE EntryStep
  <2>1. CASE CheckExpiry
    <3>1. /\ UNCHANGED <<phase, age, beat, due, fired, wait, missed, registered>>
          /\ online' = online \ Expired
      BY <2>1
      DEF CheckExpiry, MarkExpiredWorkers, registryVars, processVars, beatVars, tickerVars, requestVars, Expired
    <3>2. ASSUME NEW w \in registered PROVE InTime(w)'
      <4>1. CASE Live(w) \/ phase[w] = "registering"
        <5>1. w \in online'
          <6>1. w \in online /\ age[w] <= Timeout /\ age[w] \in Nat
            BY <1>t, <4>1, WithinTimeout DEF InBounds
          <6> QED
            BY <3>1, <6>1, Intervals DEF Expired
        <5> QED
          BY <1>t, <1>i, <3>1, <5>1, UnmovedInTime DEF Unmoved
      <4>2. CASE ~Live(w) /\ phase[w] # "registering"
        BY <3>1, <4>2 DEF InTime, Live
      <4> QED
        BY <4>1, <4>2
    <3> QED
      BY <1>g, <3>1, <3>2
  <2>2. CASE CheckBackpressure
    <3>1. UNCHANGED <<phase, age, due, fired, beat, wait, missed, online, registered>>
      BY <2>2
      DEF CheckBackpressure, RefreshBackpressureStatus, observed, processVars, beatVars, tickerVars,
          requestVars
    <3> QED
      BY <1>f, <1>g, <3>1 DEF Unmoved
  <2>3. CASE RestartEntry
    BY <2>3 DEF RestartEntry, BeatsInTime
  <2>4. ASSUME NEW w \in Workers, EntryReserves(w) \/ EntryReleases(w) PROVE BeatsInTime'
    <3>1. UNCHANGED <<phase, age, due, fired, beat, wait, missed, online, registered>>
      BY <2>4
      DEF EntryReserves, EntryReleases, ReserveSlot, ReleaseReservations, observed, clockVars, processVars,
          beatVars, tickerVars, requestVars
    <3> QED
      BY <1>f, <1>g, <3>1 DEF Unmoved
  <2> QED
    BY <1>4, <2>1, <2>2, <2>3, <2>4 DEF EntryStep
<1>5. CASE UNCHANGED agentVars
  <2>1. UNCHANGED <<phase, age, due, fired, beat, wait, missed, online, registered>>
    BY <1>5
    DEF agentVars, registryVars, clockVars, processVars, beatVars, tickerVars, requestVars
  <2> QED
    BY <1>f, <1>g, <2>1 DEF Unmoved
<1> QED
  BY <1>1, <1>2, <1>3, <1>4, <1>5 DEF AgentNext

\* No worker goes unwatched: each step keeps the next check in time.
LEMMA WatchedStep ==
  ASSUME AgentTypeOK, Watched, [AgentNext]_agentVars
  PROVE  Watched'
<1>t. /\ \A w \in Workers : age[w] \in Nat
      /\ check \in 1 .. CheckInterval /\ online \subseteq Workers /\ DOMAIN age = Workers
  BY Bounds DEF AgentTypeOK, RegistryTypeOK, InBounds
<1>f. ASSUME UNCHANGED <<age, check>>, online' \subseteq online, "expiry" \in checks' <=> "expiry" \in checks
      PROVE  Watched'
  BY <1>f DEF Watched
<1>h. ASSUME NEW w \in Workers, age' = [age EXCEPT ![w] = 0], online' = online \cup {w},
             UNCHANGED <<check, checks>>
      PROVE  Watched'
  BY <1>t, <1>h, Intervals DEF Watched
<1>1. CASE Tick
  <2>1. checks = {} /\ online' = online /\ \A w \in Workers : age'[w] \in Nat /\ age'[w] <= age[w] + 1
    BY <1>1, <1>t, Intervals DEF Tick, Urgent, registryVars, AgentTypeOK, AgeCap, Capped
  <2>2. CASE check = 1
    BY <1>1, <1>t, <2>1, <2>2, Intervals DEF Tick, Watched
  <2>3. CASE check # 1
    BY <1>1, <1>t, <2>1, <2>3, Intervals DEF Tick, Watched
  <2> QED
    BY <2>2, <2>3
<1>2. ASSUME NEW w \in Workers, ProcessStep(w) PROVE Watched'
  <2>1. ASSUME NEW offer, RunAgent(w, offer) PROVE Watched'
    BY <1>h, <2>1 DEF RunAgent, RegisterWorker
  <2>2. CASE RegisterAnswered(w) \/ RegisterLost(w) \/ Listen(w) \/ StartSource(w)
    BY <1>f, <2>2 DEF RegisterAnswered, RegisterLost, Listen, StartSource, registryVars, clockVars
  <2>3. ASSUME NEW left, EndProcess(w, left) PROVE Watched'
    BY <1>f, <2>3 DEF EndProcess, registryVars, clockVars
  <2> QED
    BY <1>2, <2>1, <2>2, <2>3 DEF ProcessStep, ListenFails, Terminate, Kill
<1>3. ASSUME NEW w \in Workers, HeartbeatStep(w) PROVE Watched'
  <2>1. ASSUME NEW disk, HandleHeartbeat(w, disk) \/ LateHeartbeat(w, disk) PROVE Watched'
    BY <1>h, <2>1 DEF HandleHeartbeat, LateHeartbeat, HeartbeatWorker
  <2>2. CASE SendHeartbeat(w) \/ ReadStatus(w) \/ SendReturns(w)
    BY <1>f, <2>2 DEF SendHeartbeat, ReadStatus, SendReturns, registryVars, clockVars
  <2> QED
    BY <1>3, <2>1, <2>2 DEF HeartbeatStep, AnswerHeartbeat, HeartbeatLost, HeartbeatNotFound
<1>4. CASE EntryStep
  <2>1. CASE CheckExpiry
    <3>1. UNCHANGED <<age, check>> /\ online' = online \ Expired /\ "expiry" \notin checks'
      BY <2>1 DEF CheckExpiry, MarkExpiredWorkers, registryVars, Expired
    <3> QED
      BY <1>t, <3>1, Intervals DEF Watched, Expired
  <2>2. CASE CheckBackpressure
    BY <1>f, <2>2 DEF CheckBackpressure, RefreshBackpressureStatus, observed
  <2>3. CASE RestartEntry
    BY <2>3 DEF RestartEntry, Watched
  <2>4. ASSUME NEW w \in Workers, EntryReserves(w) \/ EntryReleases(w) PROVE Watched'
    BY <1>f, <2>4 DEF EntryReserves, EntryReleases, ReserveSlot, ReleaseReservations, observed, clockVars
  <2> QED
    BY <1>4, <2>1, <2>2, <2>3, <2>4 DEF EntryStep
<1>5. CASE UNCHANGED agentVars
  BY <1>f, <1>5 DEF agentVars, registryVars, clockVars
<1> QED
  BY <1>1, <1>2, <1>3, <1>4, <1>5 DEF AgentNext

-----------------------------------------------------------------------------
(* The pauses of the sources. *)

\* A record that starts again is in time, wherever the loop is.
LEMMA AnewInTime ==
  ASSUME AgentTypeOK', NEW w \in Workers, since'[w] = 0
  PROVE  RefreshedInTime(w)' /\ HeardInTime(w)'
<1>1. InBounds(w)'
  BY BoundsNext
<1>2. check' \in 1 .. CheckInterval
  BY DEF AgentTypeOK
<1>3. RefreshedInTime(w)'
  <2>1. 0 <= CheckInterval /\ 0 + check' <= CheckInterval
    <3>1. CheckInterval \in Nat \ {0}
      BY AgentAssumption
    <3>2. \A n \in 1 .. CheckInterval : 0 <= CheckInterval /\ 0 + n <= CheckInterval
      BY <3>1
    <3> QED
      BY <1>2, <3>2
  <2>2. since'[w] + (IF "backpressure" \in checks' THEN 0 ELSE check') <= CheckInterval
    <3>1. CASE "backpressure" \in checks'
      BY <2>1, <3>1
    <3>2. CASE "backpressure" \notin checks'
      BY <2>1, <3>2
    <3> QED
      BY <3>1, <3>2
  <2> QED
    BY <2>2 DEF RefreshedInTime
<1>4. HeardInTime(w)'
  BY <1>1, Intervals DEF HeardInTime, InBounds
<1> QED
  BY <1>3, <1>4

\* The record goes on, and the registry's status and its tickers stay as they are.
GoesOn(w) ==
  /\ since'[w] = since[w] /\ (FleetFull' <=> FleetFull) /\ (Known(w)' <=> Known(w))
  /\ backpressure' = backpressure

\* A record that goes on while nothing else of the worker moves stays in time.
LEMMA UnmovedGoesOn ==
  ASSUME NEW w \in Workers, HeardInTime(w), GoesOn(w), Unmoved(w), w \in paused' <=> w \in paused
  PROVE  HeardInTime(w)'
<1>1. Coming(w)' = Coming(w) /\ Following(w)' = Following(w)
  BY DEF Unmoved, Coming, Following, Until, NewTicker, Losses
<1>2. OldAnswer(w)' <=> OldAnswer(w)
  BY DEF Unmoved, GoesOn, OldAnswer
<1> QED
  BY <1>1, <1>2 DEF HeardInTime, GoesOn

\* A heartbeat of the worker itself: each of its steps brings the news nearer, or has
\* brought them.
LEMMA HeartbeatGoesOn ==
  ASSUME AgentTypeOK, AgentTypeOK', TickersRun, NEW w \in Workers, HeardInTime(w), GoesOn(w),
         HeartbeatStep(w)
  PROVE  HeardInTime(w)'
<1>t. /\ DOMAIN due = Workers /\ DOMAIN missed = Workers /\ DOMAIN wait = Workers
      /\ DOMAIN beat = Workers /\ InBounds(w) /\ InBounds(w)' /\ backpressure \in BOOLEAN
  BY Bounds, BoundsNext DEF AgentTypeOK, RegistryTypeOK
<1>1. CASE SendHeartbeat(w)
  <2>1. /\ Live(w) /\ beat[w] = "none" /\ w \in fired /\ beat'[w] = "sent"
        /\ UNCHANGED <<due, wait, missed, paused>>
    BY <1>t, <1>1 DEF SendHeartbeat, Beats
  <2>2. wait[w] = 0
    BY <2>1 DEF TickersRun, Live, Waiting
  <2>3. Coming(w)' = Coming(w)
    BY <1>t, <2>1, <2>2, Intervals DEF Coming, Until, NewTicker, Losses
  <2>4. ~OldAnswer(w) /\ ~OldAnswer(w)'
    BY <2>1 DEF OldAnswer
  <2> QED
    BY <2>1, <2>3, <2>4 DEF HeardInTime, GoesOn
<1>2. ASSUME NEW disk, HandleHeartbeat(w, disk) PROVE HeardInTime(w)'
  <2>1. /\ beat[w] = "sent" /\ beat'[w] = "handled" /\ UNCHANGED <<fired, due, wait, missed, paused>>
    BY <1>t, <1>2 DEF HandleHeartbeat, Beats, tickerVars
  <2>2. Coming(w)' = Coming(w) /\ ~OldAnswer(w) /\ ~OldAnswer(w)'
    BY <2>1 DEF Coming, Until, NewTicker, Losses, OldAnswer
  <2> QED
    BY <2>1, <2>2 DEF HeardInTime, GoesOn
<1>3. ASSUME NEW disk, LateHeartbeat(w, disk) PROVE HeardInTime(w)'
  BY <1>3, UnmovedGoesOn DEF LateHeartbeat, Unmoved, processVars, beatVars, tickerVars, requestVars
<1>4. CASE ReadStatus(w)
  <2>1. /\ beat[w] = "handled" /\ beat'[w] = (IF backpressure THEN "active" ELSE "clear")
        /\ UNCHANGED <<fired, due, wait, missed, paused>>
    BY <1>t, <1>4 DEF ReadStatus, Beats, tickerVars
  <2>2. ~OldAnswer(w)
    BY <2>1 DEF OldAnswer
  <2>3. ~OldAnswer(w)'
    BY <1>t, <2>1 DEF OldAnswer, GoesOn
  <2>4. Coming(w)' = Coming(w)
    <3>1. beat'[w] # "none"
      BY <2>1
    <3> QED
      BY <2>1, <3>1 DEF Coming, Until, NewTicker, Losses
  <2> QED
    BY <2>1, <2>2, <2>3, <2>4 DEF HeardInTime, GoesOn
<1>5. CASE AnswerHeartbeat(w)
  <2>1. SendReturns(w) /\ beat[w] \in {"active", "clear"} /\ beat'[w] = "none"
    BY <1>t, <1>5 DEF AnswerHeartbeat, SendReturns, Beats
  <2>2. Coming(w)' <= Following(w) /\ ~OldAnswer(w)'
    BY <2>1, ReturnsInTime DEF OldAnswer
  <2>3. w \in paused' <=> beat[w] = "active"
    BY <1>5, <2>1 DEF AnswerHeartbeat
  <2>4. CASE OldAnswer(w)
    BY <1>t, <2>2, <2>4, Intervals DEF HeardInTime, GoesOn, InBounds
  <2>5. CASE ~OldAnswer(w)
    <3>1. w \in paused' <=> backpressure
      BY <1>t, <2>1, <2>3, <2>5 DEF OldAnswer
    <3> QED
      BY <2>2, <3>1 DEF HeardInTime, GoesOn
  <2> QED
    BY <2>4, <2>5
<1>6. CASE HeartbeatLost(w)
  <2>1. SendReturns(w) /\ beat[w] # "none" /\ beat'[w] = "none" /\ paused' = paused
    BY <1>t, <1>6 DEF HeartbeatLost, SendReturns, Beats
  <2>2. Coming(w)' <= Following(w) /\ Coming(w)' <= Coming(w) /\ ~OldAnswer(w)'
    BY <1>6, <2>1, ReturnsInTime DEF HeartbeatLost, OldAnswer
  <2> QED
    BY <1>t, <2>1, <2>2, Intervals DEF HeardInTime, GoesOn, InBounds
<1>7. CASE HeartbeatNotFound(w)
  BY <1>7 DEF HeartbeatNotFound, SendReturns, registryVars, processVars, HeardInTime, Known, Live
<1> QED
  BY <1>1, <1>2, <1>3, <1>4, <1>5, <1>6, <1>7 DEF HeartbeatStep

\* Each step keeps the pauses in time.
LEMMA PausesStep ==
  ASSUME AgentTypeOK, AgentTypeOK', TickersRun, PausesInTime, [AgentNext]_agentVars
  PROVE  PausesInTime'
<1>t. /\ \A w \in Workers : InBounds(w) /\ InBounds(w)'
      /\ check \in 1 .. CheckInterval /\ backpressure \in BOOLEAN
      /\ DOMAIN age = Workers /\ DOMAIN due = Workers /\ DOMAIN missed = Workers /\ DOMAIN wait = Workers
      /\ DOMAIN beat = Workers /\ DOMAIN phase = Workers
  BY Bounds, BoundsNext DEF AgentTypeOK, RegistryTypeOK
<1>1. CASE Tick
  <2> SUFFICES ASSUME NEW w \in Workers PROVE RefreshedInTime(w)' /\ HeardInTime(w)'
    BY DEF PausesInTime
  <2>1. /\ UNCHANGED <<registered, phase, beat, paused, backpressure>> /\ checks = {}
        /\ (FleetFull' <=> FleetFull)
    BY <1>1 DEF Tick, Urgent, registryVars, processVars, FleetFull, Saturated
  <2>2. CASE ~Known(w)
    <3>1. since'[w] = 0
      BY <1>1, <2>2 DEF Tick
    <3> QED
      BY <3>1, AnewInTime
  <2>3. CASE Known(w)
    <3>1. since'[w] <= since[w] + 1
      BY <1>1, <1>t, <2>3, Intervals DEF Tick, Capped, AgentTypeOK
    <3>2. /\ Coming(w)' + 1 <= Coming(w)
          /\ beat[w] # "none" => Following(w)' + 1 <= Following(w)
      BY <1>1, <2>3, TickInTime DEF Known
    <3>3. (Known(w)' <=> Known(w)) /\ (OldAnswer(w)' <=> OldAnswer(w)) /\ (OldAnswer(w) => beat[w] # "none")
      BY <2>1 DEF Known, Live, OldAnswer
    <3>4. HeardInTime(w)'
      BY <1>t, <2>1, <3>1, <3>2, <3>3, Intervals DEF PausesInTime, HeardInTime, InBounds
    <3>5. check' = (IF check = 1 THEN CheckInterval ELSE check - 1)
          /\ ("backpressure" \in checks' <=> check = 1)
      BY <1>1 DEF Tick
    <3>6. RefreshedInTime(w)'
      BY <1>t, <2>1, <3>1, <3>3, <3>5, Intervals DEF PausesInTime, RefreshedInTime, InBounds
    <3> QED
      BY <3>4, <3>6
  <2> QED
    BY <2>2, <2>3
<1>2. CASE UNCHANGED agentVars
  <2>1. ASSUME NEW w \in Workers PROVE HeardInTime(w)'
    <3>1. GoesOn(w) /\ Unmoved(w) /\ paused' = paused
      BY <1>2
      DEF agentVars, registryVars, clockVars, processVars, beatVars, tickerVars, requestVars, GoesOn, Unmoved,
          FleetFull, Saturated, Known, Live
    <3> QED
      BY <3>1, UnmovedGoesOn DEF PausesInTime
  <2>2. ASSUME NEW w \in Workers PROVE RefreshedInTime(w)'
    BY <1>2
    DEF agentVars, registryVars, clockVars, processVars, PausesInTime, RefreshedInTime, FleetFull, Saturated,
        Known, Live
  <2> QED
    BY <2>1, <2>2 DEF PausesInTime
<1>3. ASSUME Remember, NEW w \in Workers,
             (FleetFull' <=> FleetFull) /\ (Known(w)' <=> Known(w)) =>
               RefreshedInTime(w)' /\ HeardInTime(w)'
      PROVE  RefreshedInTime(w)' /\ HeardInTime(w)'
  <2>1. CASE (FleetFull' <=> FleetFull) /\ (Known(w)' <=> Known(w))
    BY <1>3, <2>1
  <2>2. CASE ~((FleetFull' <=> FleetFull) /\ (Known(w)' <=> Known(w)))
    <3>1. since'[w] = 0
      BY <1>3, <2>2 DEF Remember
    <3> QED
      BY <3>1, AnewInTime
  <2> QED
    BY <2>1, <2>2
<1>4. ASSUME Remember, NEW w \in Workers, (FleetFull' <=> FleetFull) /\ (Known(w)' <=> Known(w))
      PROVE  since'[w] = since[w]
  BY <1>4 DEF Remember
<1>5. ASSUME Remember, backpressure' = backpressure, UNCHANGED check,
             "backpressure" \in checks' <=> "backpressure" \in checks, NEW w \in Workers,
             (Unmoved(w) /\ (w \in paused' <=> w \in paused)) \/ HeartbeatStep(w) \/ ~Known(w)'
      PROVE  RefreshedInTime(w)' /\ HeardInTime(w)'
  <2> SUFFICES ASSUME FleetFull' <=> FleetFull, Known(w)' <=> Known(w)
               PROVE  RefreshedInTime(w)' /\ HeardInTime(w)'
    BY <1>3, <1>5
  <2>1. GoesOn(w)
    BY <1>4, <1>5 DEF GoesOn
  <2>2. RefreshedInTime(w)'
    BY <1>5, <2>1 DEF GoesOn, PausesInTime, RefreshedInTime
  <2>3. HeardInTime(w)'
    <3>1. CASE ~Known(w)'
      BY <3>1 DEF HeardInTime
    <3>2. CASE Unmoved(w) /\ (w \in paused' <=> w \in paused)
      BY <2>1, <3>2, UnmovedGoesOn DEF PausesInTime
    <3>3. CASE HeartbeatStep(w)
      BY <2>1, <3>3, HeartbeatGoesOn DEF PausesInTime
    <3> QED
      BY <1>5, <3>1, <3>2, <3>3
  <2> QED
    BY <2>2, <2>3
<1>6. ASSUME NEW w \in Workers, ProcessStep(w), Remember PROVE PausesInTime'
  <2> SUFFICES ASSUME NEW v \in Workers PROVE RefreshedInTime(v)' /\ HeardInTime(v)'
    BY DEF PausesInTime
  <2>1. /\ backpressure' = backpressure /\ UNCHANGED <<check, checks>>
    BY <1>6
    DEF ProcessStep, RunAgent, RegisterWorker, RegisterAnswered, RegisterLost, Listen, ListenFails,
        StartSource, Terminate, Kill, EndProcess, registryVars, clockVars
  <2>2. CASE v # w
    <3>1. Unmoved(v) /\ (v \in paused' <=> v \in paused)
      <4>1. CASE \E offer \in Offers : RunAgent(w, offer)
        BY <1>t, <2>2, <4>1 DEF RunAgent, Unmoved, Enters, Waits, tickerVars
      <4>2. CASE RegisterAnswered(w) \/ RegisterLost(w)
        BY <1>t, <2>2, <4>2 DEF RegisterAnswered, RegisterLost, Unmoved, Enters, Waits, tickerVars
      <4>3. CASE Listen(w) \/ StartSource(w)
        BY <1>t, <2>2, <4>3 DEF Listen, StartSource, Unmoved, Enters, beatVars, tickerVars, requestVars
      <4>4. ASSUME NEW left, EndProcess(w, left) PROVE Unmoved(v) /\ (v \in paused' <=> v \in paused)
        BY <1>t, <2>2, <4>4 DEF EndProcess, Unmoved, Enters, Waits, Beats
      <4> QED
        BY <1>6, <4>1, <4>2, <4>3, <4>4 DEF ProcessStep, ListenFails, Terminate, Kill
    <3> QED
      BY <1>5, <1>6, <2>1, <3>1
  <2>3. CASE v = w
    <3>1. CASE Listen(w)
      <4> SUFFICES ASSUME FleetFull' <=> FleetFull, Known(w)' <=> Known(w)
                   PROVE  RefreshedInTime(w)' /\ HeardInTime(w)'
        BY <1>3, <1>6, <2>3
      <4>1. GoesOn(w)
        BY <1>4, <1>6, <2>1 DEF GoesOn
      <4>2. UNCHANGED <<beat, due, wait, missed, fired, paused>>
        BY <3>1 DEF Listen, beatVars, tickerVars, requestVars
      <4>3. /\ Coming(w)' = Coming(w) /\ Following(w)' = Following(w) /\ (OldAnswer(w)' <=> OldAnswer(w))
        BY <4>1, <4>2 DEF Coming, Following, Until, NewTicker, Losses, OldAnswer, GoesOn
      <4> QED
        BY <2>1, <4>1, <4>2, <4>3 DEF GoesOn, PausesInTime, RefreshedInTime, HeardInTime
    <3>2. CASE StartSource(w)
      <4>1. Unmoved(w) /\ paused' = paused
        BY <3>2 DEF StartSource, Unmoved, beatVars, tickerVars, requestVars
      <4> QED
        BY <1>5, <1>6, <2>1, <2>3, <4>1
    <3>3. CASE RegisterAnswered(w)
      <4>1. ~Known(w)
        BY <3>3 DEF RegisterAnswered, Known, Live
      <4>2. CASE Known(w)'
        <5>1. since'[w] = 0
          BY <1>6, <4>1, <4>2 DEF Remember
        <5> QED
          BY <2>3, <5>1, AnewInTime
      <4>3. CASE ~Known(w)'
        BY <1>5, <1>6, <2>1, <2>3, <4>3
      <4> QED
        BY <4>2, <4>3
    <3>4. CASE phase'[w] \in {"registering", "down"}
      <4>1. ~Known(w)'
        BY <3>4 DEF Known, Live
      <4> QED
        BY <1>5, <1>6, <2>1, <2>3, <4>1
    <3>5. Listen(w) \/ StartSource(w) \/ RegisterAnswered(w) \/ phase'[w] \in {"registering", "down"}
      BY <1>t, <1>6
      DEF ProcessStep, RunAgent, RegisterLost, ListenFails, Terminate, Kill, EndProcess, Enters
    <3> QED
      BY <3>1, <3>2, <3>3, <3>4, <3>5
  <2> QED
    BY <2>2, <2>3
<1>7. ASSUME NEW w \in Workers, HeartbeatStep(w), Remember PROVE PausesInTime'
  <2> SUFFICES ASSUME NEW v \in Workers PROVE RefreshedInTime(v)' /\ HeardInTime(v)'
    BY DEF PausesInTime
  <2>1. backpressure' = backpressure /\ UNCHANGED <<check, checks>>
    BY <1>7
    DEF HeartbeatStep, SendHeartbeat, HandleHeartbeat, LateHeartbeat, HeartbeatWorker, ReadStatus,
        AnswerHeartbeat, HeartbeatLost, HeartbeatNotFound, SendReturns, registryVars, clockVars
  <2>2. CASE v # w
    <3>1. Unmoved(v) /\ (v \in paused' <=> v \in paused)
      <4>1. CASE SendHeartbeat(w) \/ ReadStatus(w)
        BY <1>t, <2>2, <4>1 DEF SendHeartbeat, ReadStatus, Unmoved, Beats, processVars, tickerVars
      <4>2. ASSUME NEW disk, HandleHeartbeat(w, disk) \/ LateHeartbeat(w, disk)
            PROVE  Unmoved(v) /\ (v \in paused' <=> v \in paused)
        BY <1>t, <2>2, <4>2
        DEF HandleHeartbeat, LateHeartbeat, Unmoved, Beats, processVars, beatVars, tickerVars, requestVars
      <4>3. CASE AnswerHeartbeat(w)
        <5>1. v \in paused' <=> v \in paused
          BY <2>2, <4>3 DEF AnswerHeartbeat
        <5> QED
          BY <1>t, <2>2, <4>3, <5>1 DEF AnswerHeartbeat, SendReturns, Unmoved, Beats, Waits, processVars
      <4>4. CASE HeartbeatLost(w) \/ HeartbeatNotFound(w)
        BY <1>t, <2>2, <4>4
        DEF HeartbeatLost, HeartbeatNotFound, SendReturns, Unmoved, Beats, Waits, processVars
      <4> QED
        BY <1>7, <4>1, <4>2, <4>3, <4>4 DEF HeartbeatStep
    <3> QED
      BY <1>5, <1>7, <2>1, <3>1
  <2>3. CASE v = w
    BY <1>5, <1>7, <2>1, <2>3
  <2> QED
    BY <2>2, <2>3
<1>8. ASSUME EntryStep, Remember PROVE PausesInTime'
  <2> SUFFICES ASSUME NEW v \in Workers PROVE RefreshedInTime(v)' /\ HeardInTime(v)'
    BY DEF PausesInTime
  <2>1. CASE CheckExpiry \/ \E w \in Workers : EntryReserves(w) \/ EntryReleases(w)
    <3>1. /\ backpressure' = backpressure /\ check' = check
          /\ ("backpressure" \in checks' <=> "backpressure" \in checks)
      BY <2>1
      DEF CheckExpiry, MarkExpiredWorkers, EntryReserves, EntryReleases, ReserveSlot, ReleaseReservations,
          registryVars, clockVars
    <3>2. Unmoved(v) /\ paused' = paused
      BY <2>1
      DEF CheckExpiry, EntryReserves, EntryReleases, Unmoved, processVars, beatVars, tickerVars, requestVars
    <3> QED
      BY <1>5, <1>8, <3>1, <3>2
  <2>2. CASE CheckBackpressure
    <3>1. /\ UNCHANGED <<online, totalSlots, reservedSlots, registered, phase>>
          /\ UNCHANGED <<beat, due, wait, missed, fired, paused>>
          /\ "backpressure" \in checks /\ (backpressure' <=> FleetFull)
      BY <2>2
      DEF CheckBackpressure, RefreshBackpressureStatus, FleetFull, observed, reserved, processVars, beatVars,
          tickerVars, requestVars
    <3>2. (FleetFull' <=> FleetFull) /\ (Known(v)' <=> Known(v))
      BY <3>1 DEF FleetFull, Saturated, Known, Live
    <3>3. since'[v] = since[v]
      BY <1>4, <1>8, <3>2
    <3>4. Coming(v)' = Coming(v) /\ Following(v)' = Following(v)
      BY <3>1 DEF Coming, Following, Until, NewTicker, Losses
    <3>5. RefreshedInTime(v)'
      BY <3>1, <3>2 DEF RefreshedInTime
    <3>6. HeardInTime(v)'
      <4>1. CASE backpressure <=> FleetFull
        <5>1. backpressure' = backpressure
          BY <1>t, <3>1, <4>1 DEF CheckBackpressure, AgentTypeOK, RegistryTypeOK
        <5>2. OldAnswer(v)' <=> OldAnswer(v)
          BY <3>1, <5>1 DEF OldAnswer
        <5> QED
          BY <3>1, <3>2, <3>3, <3>4, <5>1, <5>2 DEF PausesInTime, HeardInTime
      <4>2. CASE ~(backpressure <=> FleetFull)
        <5>1. Known(v) => since[v] <= CheckInterval
          BY <1>t, <3>1, <4>2, Intervals DEF PausesInTime, RefreshedInTime, InBounds
        <5>2. Known(v) => since'[v] + Coming(v)' <= Reaction /\ since'[v] + Following(v)' <= Reaction
          BY <1>t, <3>3, <5>1, Intervals DEF InBounds
        <5> QED
          BY <3>2, <5>2 DEF HeardInTime
      <4> QED
        BY <4>1, <4>2
    <3> QED
      BY <3>5, <3>6
  <2>3. CASE RestartEntry
    BY <2>3 DEF RestartEntry, RefreshedInTime, HeardInTime, Known
  <2> QED
    BY <1>8, <2>1, <2>2, <2>3 DEF EntryStep
<1> QED
  BY <1>1, <1>2, <1>6, <1>7, <1>8 DEF AgentNext

-----------------------------------------------------------------------------
\* Types, the order of the heartbeat loop, the ages of the heartbeats, what the next
\* check will find, and the time the news of a full fleet takes, in every state.
THEOREM AgentInvariant == AgentSpec => []AgentInv
<1>1. AgentInit => AgentInv
  <2> SUFFICES ASSUME AgentInit PROVE AgentInv
    OBVIOUS
  <2>1. RegistryTypeOK
    BY DEF AgentInit, RegistryInit, RegistryTypeOK
  <2>2. AgentTypeOK
    BY <2>1, Intervals DEF AgentInit, AgentTypeOK, AgeCap, Phases, BeatPoints
  <2>3. TickersRun
    BY DEF AgentInit, TickersRun, Live
  <2>4. BeatsInTime /\ Watched
    BY DEF AgentInit, RegistryInit, BeatsInTime, Watched
  <2>5. PausesInTime
    BY DEF AgentInit, PausesInTime, RefreshedInTime, HeardInTime, Known, Live
  <2> QED
    BY <2>2, <2>3, <2>4, <2>5 DEF AgentInv
<1>2. AgentInv /\ [AgentNext]_agentVars => AgentInv'
  BY AgentTypeStep, TickersStep, BeatsStep, WatchedStep, PausesStep DEF AgentInv
<1> QED
  BY <1>1, <1>2, PTL DEF AgentSpec

\* Entry never takes a live worker that it knows for dead, as long as no more than
\* MaxLost of its heartbeats in a row get lost: with requests that take any time up
\* to the client's patience, and the ticker made after the first.
THEOREM LiveWorkersStayOnline == AgentSpec => []LiveWorkerStaysOnline
<1>1. AgentInv => LiveWorkerStaysOnline
  BY DEF AgentInv, BeatsInTime, LiveWorkerStaysOnline, Known
<1> QED
  BY <1>1, AgentInvariant, PTL

\* A worker that is silent is offline after the timeout and one check interval.
THEOREM SilentWorkersAreFound == AgentSpec => []SilentWorkerIsFound
<1>1. AgentInv => SilentWorkerIsFound
  BY Intervals DEF AgentInv, Watched, SilentWorkerIsFound, AgentTypeOK, RegistryTypeOK, AgeCap
<1> QED
  BY <1>1, AgentInvariant, PTL

\* A source is paused, and goes on, at most Reaction ticks after the state of the fleet
\* says so, for any number of workers and any reservations Entry makes.
THEOREM PausesFollowLoad == AgentSpec => []PauseFollowsLoad
<1>1. AgentInv => PauseFollowsLoad
  <2> SUFFICES ASSUME AgentInv, NEW w \in Workers, Known(w), since[w] > Reaction
               PROVE  w \in paused <=> FleetFull
    BY DEF PauseFollowsLoad
  <2>1. InBounds(w) /\ check \in 1 .. CheckInterval /\ RefreshedInTime(w) /\ HeardInTime(w)
    BY Bounds DEF AgentInv, AgentTypeOK, PausesInTime
  <2>2. backpressure <=> FleetFull
    BY <2>1, Intervals DEF RefreshedInTime, InBounds
  <2>3. w \in paused <=> backpressure
    BY <2>1, <2>2, Intervals DEF HeardInTime, InBounds
  <2> QED
    BY <2>2, <2>3
<1> QED
  BY <1>1, AgentInvariant, PTL
=============================================================================
