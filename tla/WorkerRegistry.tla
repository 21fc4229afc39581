--------------------------- MODULE WorkerRegistry ---------------------------
(***************************************************************************)
(* The Entry server's WorkerRegistry: which workers are known, which of    *)
(* them are online, and the slots and disk bytes Entry has reserved on     *)
(* each.  Every method of the registry is one critical section of its      *)
(* mutex, so every action and every helper below is one atomic step.       *)
(*                                                                         *)
(* The job manager is the only caller of the reservation helpers; module   *)
(* JobManager extends this one and composes the two.                       *)
(*                                                                         *)
(* A worker is identified by its registry ID.  The registry maps an        *)
(* advertised address to one ID for ever, so a worker that registers again *)
(* is the same element of Workers.  IDs are compared as strings when two   *)
(* workers tie; here they are positive integers with their usual order,    *)
(* and 0 is the absent ID.  Times are abstracted: an online worker may be  *)
(* found expired at any check (its heartbeats may be late or lost).        *)
(***************************************************************************)
EXTENDS Integers, FiniteSets

CONSTANTS
  Workers,         \* worker IDs, positive integers
  Offers,          \* what a registration may announce: slots, task types, free disk
  HeartbeatDisks   \* free-disk readings a heartbeat or a refusal may carry

NoWorker == 0

TaskTypes == {"process_segment", "assemble_gif"}

\* The HTTP binding refuses a zero slot count, an empty list of task types
\* and (because a zero int64 counts as missing) a zero free-disk reading.
ASSUME RegistryAssumption ==
  /\ Workers \subseteq Nat \ {0}
  /\ IsFiniteSet(Workers)
  /\ Offers \subseteq [total : Nat \ {0}, supports : SUBSET TaskTypes, disk : Nat \ {0}]
  /\ HeartbeatDisks \subseteq Nat \ {0}

VARIABLES
  registered,      \* IDs in byID; entries are never deleted
  online,          \* IDs whose Online flag is set
  totalSlots,      \* TotalSlots, from the last registration
  supports,        \* SupportedTasks, from the last registration
  reservedSlots,   \* ReservedSlots: Entry's own count of tasks on the worker
  diskFree,        \* DiskFreeBytes last observed
  reservedDisk,    \* ReservedDiskBytes: disk promised to assemble tasks
  backpressure     \* the Active flag of the cached backpressure status

observed == <<registered, online, totalSlots, supports, diskFree>>
reserved == <<reservedSlots, reservedDisk>>
registryVars == <<registered, online, totalSlots, supports, reservedSlots,
                  diskFree, reservedDisk, backpressure>>

RegistryTypeOK ==
  /\ registered \in SUBSET Workers
  /\ online \in SUBSET registered
  /\ totalSlots \in [Workers -> Nat]
  /\ supports \in [Workers -> SUBSET TaskTypes]
  /\ reservedSlots \in [Workers -> Nat]
  /\ diskFree \in [Workers -> Nat]
  /\ reservedDisk \in [Workers -> Nat]
  /\ backpressure \in BOOLEAN

RegistryInit ==
  /\ registered = {}
  /\ online = {}
  /\ totalSlots = [w \in Workers |-> 0]
  /\ supports = [w \in Workers |-> {}]
  /\ reservedSlots = [w \in Workers |-> 0]
  /\ diskFree = [w \in Workers |-> 0]
  /\ reservedDisk = [w \in Workers |-> 0]
  /\ backpressure = FALSE

-----------------------------------------------------------------------------
(* Requests and tickers of the registry itself. *)

\* A first registration, or a worker process coming back under its address:
\* the reservations Entry holds on it survive.
RegisterWorker(w, offer) ==
  /\ registered' = registered \cup {w}
  /\ online' = online \cup {w}
  /\ totalSlots' = [totalSlots EXCEPT ![w] = offer.total]
  /\ supports' = [supports EXCEPT ![w] = offer.supports]
  /\ diskFree' = [diskFree EXCEPT ![w] = offer.disk]
  /\ UNCHANGED <<reserved, backpressure>>

HeartbeatWorker(w, disk) ==
  /\ w \in registered
  /\ online' = online \cup {w}
  /\ diskFree' = [diskFree EXCEPT ![w] = disk]
  /\ UNCHANGED <<registered, totalSlots, supports, reserved, backpressure>>

\* One pass of the expiry ticker finds the workers of `stale` silent for too long.
MarkExpiredWorkers(stale) ==
  /\ stale # {}
  /\ stale \subseteq online
  /\ online' = online \ stale
  /\ UNCHANGED <<registered, totalSlots, supports, diskFree, reserved, backpressure>>

BusyThresholdMultiplier == 3

Saturated(w) ==
  LET threshold == BusyThresholdMultiplier * totalSlots[w] IN
  threshold > 0 /\ reservedSlots[w] >= threshold

RefreshBackpressureStatus ==
  /\ backpressure' = (online # {} /\ \A w \in online : Saturated(w))
  /\ UNCHANGED <<observed, reserved>>

-----------------------------------------------------------------------------
(* Choosing a worker.  The code loops over a Go map, whose order is random; *)
(* module WorkerSelection shows that the loops choose what these predicates *)
(* say in every order.                                                      *)

Candidates(type) == {w \in online : type \in supports[w]}

Schedulable(w) == diskFree[w] - reservedDisk[w]

LessBusy(w, v) ==
  \/ reservedSlots[w] < reservedSlots[v]
  \/ reservedSlots[w] = reservedSlots[v] /\ w < v

\* The least reserved worker, ties by ID; the fallback only when it is alone.
IsLeastBusy(w, fallback) ==
  LET others == Candidates("process_segment") \ {fallback} IN
  \/ w \in others /\ \A v \in others \ {w} : LessBusy(w, v)
  \/ w = fallback /\ others = {} /\ w \in Candidates("process_segment")

HasRoom(need) == {w \in Candidates("assemble_gif") : Schedulable(w) >= need}

Preferred(w, v) ==
  \/ reservedSlots[w] < reservedSlots[v]
  \/ reservedSlots[w] = reservedSlots[v] /\ Schedulable(w) > Schedulable(v)
  \/ reservedSlots[w] = reservedSlots[v] /\ Schedulable(w) = Schedulable(v) /\ w < v

IsDiskChoice(w, need) ==
  w \in HasRoom(need) /\ \A v \in HasRoom(need) \ {w} : Preferred(w, v)

-----------------------------------------------------------------------------
(* The reservation helpers of the job manager. *)

\* A slip in the release loops: the count is not stopped at zero.
MinusUnclamped(a, b) == a - b

\* Subtraction that stops at zero, as the release loops do.
Minus(a, b) == IF a > b THEN a - b ELSE 0

\* ReserveWorkerSlots / ReserveLeastBusyWorker once the worker is chosen:
\* no limit on ReservedSlots, a worker may hold more than its TotalSlots.
ReserveSlot(w) ==
  /\ reservedSlots' = [reservedSlots EXCEPT ![w] = @ + 1]
  /\ UNCHANGED <<observed, reservedDisk, backpressure>>

ReserveSlotAndDisk(w, need) ==
  /\ reservedSlots' = [reservedSlots EXCEPT ![w] = @ + 1]
  /\ reservedDisk' = [reservedDisk EXCEPT ![w] = @ + need]
  /\ UNCHANGED <<observed, backpressure>>

\* ReleaseReservations: count[w] is the number of times w occurs in the list.
ReleaseReservations(count) ==
  /\ reservedSlots' = [w \in Workers |-> Minus(reservedSlots[w], count[w])]
  /\ UNCHANGED <<observed, reservedDisk, backpressure>>

\* A slip in the assemble release: the disk stays reserved.
ReleaseReservationKeepsDisk(w, need) ==
  /\ reservedSlots' = [reservedSlots EXCEPT ![w] = Minus(@, 1)]
  /\ UNCHANGED <<observed, reservedDisk, backpressure>>

ReleaseReservation(w, need) ==
  /\ reservedSlots' = [reservedSlots EXCEPT ![w] = Minus(@, 1)]
  /\ reservedDisk' = [reservedDisk EXCEPT ![w] = Minus(@, need)]
  /\ UNCHANGED <<observed, backpressure>>

UpdateWorkerObservedDiskFree(w, disk) ==
  /\ diskFree' = [diskFree EXCEPT ![w] = disk]
  /\ UNCHANGED <<registered, online, totalSlots, supports, reserved, backpressure>>
=============================================================================
