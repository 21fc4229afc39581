---------------------------- MODULE WorkerAgent ----------------------------
(***************************************************************************)
(* A worker process from its start to its end and what it and Entry know   *)
(* of each other by heartbeats: the registry's view of who is online, and  *)
(* the backpressure status that goes back with the answers and pauses the  *)
(* worker's source runner (module SourceRunner has what the runner does    *)
(* with it).                                                               *)
(*                                                                         *)
(* Time is discrete.  A request may take up to Patience ticks, the time    *)
(* after which the HTTP client of the worker gives up; Entry handles it at *)
(* any moment of that, or later.  The clock stops while something is       *)
(* overdue: a ticker that fired and nobody served, a request at the end of *)
(* the client's patience.                                                  *)
(*                                                                         *)
(* The jobs are left to module JobManager.  Here Entry reserves and        *)
(* releases slots whenever it likes, as many as it likes up to a bound:    *)
(* for the segments of a job, or for an assembly, which it reserves even   *)
(* while all sources are paused.                                           *)
(***************************************************************************)
EXTENDS WorkerRegistry

CONSTANTS
  Interval,        \* the heartbeat interval, in ticks
  Patience,        \* the timeout of the worker's HTTP client
  CheckInterval,   \* the interval of Entry's two tickers
  Timeout,         \* the heartbeat timeout
  MaxLost,         \* heartbeats that may fail in a row
  MaxReserved      \* bound on the slots reserved on one worker

\* From one heartbeat to the next: a request that takes longer than the interval
\* delays its successor.
Round == IF Interval < Patience THEN Patience ELSE Interval

\* The longest time between two heartbeats that Entry handles: the first is handled
\* at once and its answer takes all of the client's patience, only then is the ticker
\* made, the next ones are lost, and the last takes all of the patience to be handled.
Gap == Interval + 2 * Patience + MaxLost * Round

\* The timeout leaves a margin of a tick for what takes no time in the model.
ASSUME AgentAssumption ==
  /\ Interval \in Nat \ {0} /\ Patience \in Nat \ {0} /\ CheckInterval \in Nat \ {0}
  /\ Timeout \in Nat /\ MaxLost \in Nat /\ MaxReserved \in Nat
  /\ Gap < Timeout

VARIABLES
  age,             \* [Workers -> Nat]: ticks since LastHeartbeatAt, capped at AgeCap
  check,           \* ticks until Entry's tickers fire
  checks,          \* which of the two have fired and not been served
  phase,           \* [Workers -> Phases] of the worker's process
  zombie,          \* workers with an older process that was told to stop and still listens
  source,          \* workers whose source runner was started
  due,             \* [Workers -> 0 .. Interval]: ticks until the ticker fires, 0: there is none yet
  fired,           \* workers that have a heartbeat to send: the first, or one tick in the channel
  beat,            \* [Workers -> BeatPoints]: the heartbeat under way
  wait,            \* [Workers -> 0 .. Patience]: ticks since the request under way was sent
  late,            \* workers with requests nobody waits for that Entry may still handle
  missed,          \* [Workers -> Nat]: heartbeats that failed in a row
  paused,          \* workers told that backpressure is active
  since            \* [Workers -> Nat]: ticks that the worker and the state of the fleet
                   \* have been as they are, capped; it only records

clockVars == <<age, check, checks>>
processVars == <<phase, zombie, source>>
tickerVars == <<due, fired>>
requestVars == <<beat, wait, late>>
beatVars == <<tickerVars, requestVars, missed, paused>>
agentVars == <<registryVars, clockVars, processVars, beatVars, since>>

Phases == {"down", "registering", "registered", "listening"}

\* Sent; handled by Entry; the answer, with the status that was read, is on its way.
BeatPoints == {"none", "sent", "handled", "active", "clear"}

AgeCap == Timeout + CheckInterval + 1

\* From a change of the fleet's state: the next refresh, then the next heartbeat that
\* gets through.
Reaction == CheckInterval + Gap

AgentTypeOK ==
  /\ RegistryTypeOK
  /\ age \in [Workers -> 0 .. AgeCap]
  /\ check \in 1 .. CheckInterval
  /\ checks \subseteq {"expiry", "backpressure"}
  /\ phase \in [Workers -> Phases]
  /\ zombie \subseteq Workers /\ source \subseteq Workers
  /\ due \in [Workers -> 0 .. Interval] /\ fired \subseteq Workers
  /\ beat \in [Workers -> BeatPoints]
  /\ wait \in [Workers -> 0 .. Patience]
  /\ late \subseteq Workers
  /\ missed \in [Workers -> 0 .. MaxLost]
  /\ paused \subseteq Workers
  /\ since \in [Workers -> 0 .. Reaction + 1]

AgentInit ==
  /\ RegistryInit
  /\ age = [w \in Workers |-> 0] /\ check = CheckInterval /\ checks = {}
  /\ phase = [w \in Workers |-> "down"] /\ zombie = {} /\ source = {}
  /\ due = [w \in Workers |-> 0] /\ fired = {}
  /\ beat = [w \in Workers |-> "none"] /\ wait = [w \in Workers |-> 0] /\ late = {}
  /\ missed = [w \in Workers |-> 0] /\ paused = {}
  /\ since = [w \in Workers |-> 0]

\* The process has registered and its heartbeat loop runs.
Live(w) == phase[w] \in {"registered", "listening"}

\* Somebody answers at the advertised address.
Serving(w) == phase[w] = "listening" \/ w \in zombie

\* A live worker that Entry knows.
Known(w) == Live(w) /\ w \in registered

\* Every online worker is saturated, and there is one.
FleetFull == online # {} /\ \A w \in online : Saturated(w)

-----------------------------------------------------------------------------
(* Agent.Run. *)

Enters(w, point) == phase' = [phase EXCEPT ![w] = point]
Waits(w, ticks) == wait' = [wait EXCEPT ![w] = ticks]
Beats(w, point) == beat' = [beat EXCEPT ![w] = point]

\* The engines start and the worker registers: Entry handles the request.
RunAgent(w, offer) ==
  /\ phase[w] = "down"
  /\ RegisterWorker(w, offer)
  /\ age' = [age EXCEPT ![w] = 0]
  /\ Enters(w, "registering")
  /\ Waits(w, 0)
  /\ UNCHANGED <<check, checks, zombie, source, tickerVars, beat, late, missed, paused>>

\* The answer arrives: the heartbeat loop starts, and sends before it makes its ticker.
RegisterAnswered(w) ==
  /\ phase[w] = "registering"
  /\ Enters(w, "registered")
  /\ Waits(w, 0)
  /\ fired' = fired \cup {w}
  /\ UNCHANGED <<registryVars, clockVars, zombie, source, due, beat, late, missed, paused>>

\* It does not, or the process is stopped meanwhile: the process ends, and Entry does
\* not hear of it.
RegisterLost(w) ==
  /\ phase[w] = "registering"
  /\ Enters(w, "down")
  /\ Waits(w, 0)
  /\ UNCHANGED <<registryVars, clockVars, zombie, source, tickerVars, beat, late, missed, paused>>

\* router.Run listens.
Listen(w) ==
  /\ phase[w] = "registered"
  /\ w \notin zombie
  /\ Enters(w, "listening")
  /\ UNCHANGED <<registryVars, clockVars, zombie, source, beatVars>>

\* A process ends; the port is free unless `left` says who still holds it.  A
\* heartbeat it has sent may still be handled.
EndProcess(w, left) ==
  /\ zombie' = (zombie \ {w}) \cup left
  /\ Enters(w, "down")
  /\ source' = source \ {w}
  /\ due' = [due EXCEPT ![w] = 0]
  /\ fired' = fired \ {w}
  /\ Beats(w, "none")
  /\ Waits(w, 0)
  /\ late' = IF beat[w] = "sent" THEN late \cup {w} ELSE late
  /\ missed' = [missed EXCEPT ![w] = 0]
  /\ paused' = paused \ {w}
  /\ UNCHANGED <<registryVars, clockVars>>

\* The port is taken: router.Run returns, and so does the process.
ListenFails(w) ==
  /\ phase[w] = "registered"
  /\ w \in zombie
  /\ EndProcess(w, {w})

\* The signal ends the context: the engines are killed, the heartbeats and the source
\* runner stop.  The HTTP server does not know of it; the process goes on listening.
Terminate(w) ==
  /\ Live(w)
  /\ EndProcess(w, {w})

\* All processes at the address are killed.
Kill(w) ==
  /\ Live(w) \/ w \in zombie
  /\ EndProcess(w, {})

\* The probe of the advertised address succeeds, whoever answers it.
StartSource(w) ==
  /\ Live(w)
  /\ Serving(w)
  /\ w \notin source
  /\ source' = source \cup {w}
  /\ UNCHANGED <<registryVars, clockVars, phase, zombie, beatVars>>

-----------------------------------------------------------------------------
(* The heartbeat loop and Entry's handler, which updates the worker in one  *)
(* critical section of the registry and reads the status in another.        *)

SendHeartbeat(w) ==
  /\ Live(w)
  /\ w \in fired /\ beat[w] = "none"
  /\ fired' = fired \ {w}
  /\ Beats(w, "sent")
  /\ UNCHANGED <<registryVars, clockVars, processVars, due, wait, late, missed, paused>>

HandleHeartbeat(w, disk) ==
  /\ beat[w] = "sent"
  /\ HeartbeatWorker(w, disk)
  /\ age' = [age EXCEPT ![w] = 0]
  /\ Beats(w, "handled")
  /\ UNCHANGED <<check, checks, processVars, tickerVars, wait, late, missed, paused>>

\* A request that the client has given up reaches its handler all the same.
LateHeartbeat(w, disk) ==
  /\ w \in late
  /\ HeartbeatWorker(w, disk)
  /\ age' = [age EXCEPT ![w] = 0]
  /\ UNCHANGED <<check, checks, processVars, beatVars>>

\* The answer carries the status as it is now, however old it is on arrival.
ReadStatus(w) ==
  /\ beat[w] = "handled"
  /\ Beats(w, IF backpressure THEN "active" ELSE "clear")
  /\ UNCHANGED <<registryVars, clockVars, processVars, tickerVars, wait, late, missed, paused>>

\* send returns.  After the first time the ticker is made.
SendReturns(w) ==
  /\ Beats(w, "none")
  /\ Waits(w, 0)
  /\ due' = IF due[w] = 0 THEN [due EXCEPT ![w] = Interval] ELSE due
  /\ UNCHANGED <<registryVars, clockVars, processVars, fired>>

\* A slip in the worker's state: only an active status is stored.
AnswerHeartbeatLatches(w) ==
  /\ beat[w] \in {"active", "clear"}
  /\ SendReturns(w)
  /\ missed' = [missed EXCEPT ![w] = 0]
  /\ paused' = IF beat[w] = "active" THEN paused \cup {w} ELSE paused
  /\ UNCHANGED late

AnswerHeartbeat(w) ==
  /\ beat[w] \in {"active", "clear"}
  /\ SendReturns(w)
  /\ missed' = [missed EXCEPT ![w] = 0]
  /\ paused' = IF beat[w] = "active" THEN paused \cup {w} ELSE paused \ {w}
  /\ UNCHANGED late

\* A slip in the loop: it ends with the first heartbeat that fails.
HeartbeatLostEndsLoop(w) ==
  /\ beat[w] # "none"
  /\ missed[w] < MaxLost
  /\ Beats(w, "none") /\ Waits(w, 0)
  /\ due' = [due EXCEPT ![w] = 0]
  /\ fired' = fired \ {w}
  /\ missed' = [missed EXCEPT ![w] = @ + 1]
  /\ late' = IF beat[w] = "sent" THEN late \cup {w} ELSE late
  /\ UNCHANGED <<registryVars, clockVars, processVars, paused>>

\* The request or the answer is lost, or takes too long.  The last status is kept.
HeartbeatLost(w) ==
  /\ beat[w] # "none"
  /\ missed[w] < MaxLost
  /\ SendReturns(w)
  /\ missed' = [missed EXCEPT ![w] = @ + 1]
  /\ late' = IF beat[w] = "sent" THEN late \cup {w} ELSE late
  /\ UNCHANGED paused

\* Entry does not know the worker.  It is an error like any other: the worker keeps
\* its ID and its last status, and does not register again.
HeartbeatNotFound(w) ==
  /\ beat[w] = "sent"
  /\ w \notin registered
  /\ SendReturns(w)
  /\ UNCHANGED <<late, missed, paused>>

-----------------------------------------------------------------------------
(* Entry's tickers, its reservations, and Entry itself. *)

\* A slip in the check: a worker with tasks is taken to be alive.
ExpiredUnlessBusy == {w \in online : age[w] > Timeout /\ reservedSlots[w] = 0}

Expired == {w \in online : age[w] > Timeout}

CheckExpiry ==
  /\ "expiry" \in checks
  /\ checks' = checks \ {"expiry"}
  /\ IF Expired = {} THEN UNCHANGED registryVars ELSE MarkExpiredWorkers(Expired)
  /\ UNCHANGED <<age, check, processVars, beatVars>>

CheckBackpressure ==
  /\ "backpressure" \in checks
  /\ checks' = checks \ {"backpressure"}
  /\ RefreshBackpressureStatus
  /\ UNCHANGED <<age, check, processVars, beatVars>>

\* A slot for a segment or for an assembly, on whichever worker is chosen.
EntryReserves(w) ==
  /\ w \in online
  /\ reservedSlots[w] < MaxReserved
  /\ ReserveSlot(w)
  /\ UNCHANGED <<clockVars, processVars, beatVars>>

\* A task is reported, or given up.
EntryReleases(w) ==
  /\ reservedSlots[w] > 0
  /\ ReleaseReservations([v \in Workers |-> IF v = w THEN 1 ELSE 0])
  /\ UNCHANGED <<clockVars, processVars, beatVars>>

\* Nothing is persisted: Entry comes back knowing no worker and no job.  A request
\* between its two critical sections ends in an error.
RestartEntry ==
  /\ registered' = {} /\ online' = {}
  /\ totalSlots' = [w \in Workers |-> 0] /\ supports' = [w \in Workers |-> {}]
  /\ reservedSlots' = [w \in Workers |-> 0] /\ reservedDisk' = [w \in Workers |-> 0]
  /\ diskFree' = [w \in Workers |-> 0]
  /\ backpressure' = FALSE
  /\ beat' = [w \in Workers |-> IF beat[w] = "handled" THEN "sent" ELSE beat[w]]
  /\ late' = {}
  /\ check' = CheckInterval /\ checks' = {}
  /\ UNCHANGED <<age, processVars, tickerVars, wait, missed, paused>>

-----------------------------------------------------------------------------
(* Time. *)

Waiting(w) == phase[w] = "registering" \/ beat[w] # "none"

Urgent ==
  \/ checks # {}
  \/ \E w \in Workers : Live(w) /\ w \in fired /\ beat[w] = "none"
  \/ \E w \in Workers : Waiting(w) /\ wait[w] = Patience

Capped(n, cap) == IF n < cap THEN n + 1 ELSE cap

\* One tick.  A ticker keeps at most one tick for a reader that is busy.
Tick ==
  /\ ~Urgent
  /\ age' = [w \in Workers |-> Capped(age[w], AgeCap)]
  /\ wait' = [w \in Workers |-> IF Waiting(w) THEN wait[w] + 1 ELSE wait[w]]
  /\ due' = [w \in Workers |-> IF due[w] = 1 THEN Interval
                               ELSE IF due[w] = 0 THEN 0 ELSE due[w] - 1]
  /\ fired' = fired \cup {w \in Workers : due[w] = 1}
  /\ check' = IF check = 1 THEN CheckInterval ELSE check - 1
  /\ checks' = IF check = 1 THEN {"expiry", "backpressure"} ELSE {}
  /\ since' = [w \in Workers |-> IF Known(w) THEN Capped(since[w], Reaction + 1) ELSE 0]
  /\ UNCHANGED <<registryVars, processVars, beat, late, missed, paused>>

ProcessStep(w) ==
  \/ \E offer \in Offers : RunAgent(w, offer)
  \/ RegisterAnswered(w) \/ RegisterLost(w)
  \/ Listen(w) \/ ListenFails(w) \/ StartSource(w)
  \/ Terminate(w) \/ Kill(w)

HeartbeatStep(w) ==
  \/ SendHeartbeat(w)
  \/ \E disk \in HeartbeatDisks : HandleHeartbeat(w, disk) \/ LateHeartbeat(w, disk)
  \/ ReadStatus(w)
  \/ AnswerHeartbeat(w) \/ HeartbeatLost(w) \/ HeartbeatNotFound(w)

EntryStep ==
  \/ CheckExpiry \/ CheckBackpressure
  \/ RestartEntry
  \/ \E w \in Workers : EntryReserves(w) \/ EntryReleases(w)

\* What a step that takes no time does to the record.
Remember ==
  since' = [w \in Workers |->
              IF (FleetFull' <=> FleetFull) /\ (Known(w)' <=> Known(w)) THEN since[w] ELSE 0]

AgentNext ==
  \/ Tick
  \/ (EntryStep \/ \E w \in Workers : ProcessStep(w) \/ HeartbeatStep(w)) /\ Remember

AgentSpec == AgentInit /\ [][AgentNext]_agentVars

-----------------------------------------------------------------------------
(* Properties. *)

\* A live worker that Entry knows stays online as long as no more than MaxLost
\* heartbeats in a row get lost: whatever time each request and its answer take, and
\* although the ticker is made only after the first of them (MarkExpiredWorkers
\* against Loop.Start).
LiveWorkerStaysOnline ==
  \A w \in Workers : Known(w) => w \in online

\* A worker nobody has heard of for the timeout and one check is offline: a
\* killed process, or one that was told to stop and still listens, is not
\* chosen for new segments for longer than that.
SilentWorkerIsFound ==
  \A w \in online : age[w] <= Timeout + CheckInterval

\* A source is paused while all online workers are saturated, and not paused while
\* one is not, once that has been so for Reaction ticks: no stale answer that is
\* still on its way, no lost heartbeat and no refresh between the two reads makes a
\* live worker that Entry knows stay on the wrong side (Heartbeat, Loop.send,
\* SetBackpressure).
PauseFollowsLoad ==
  \A w \in Workers : Known(w) /\ since[w] > Reaction => (w \in paused <=> FleetFull)
=============================================================================
