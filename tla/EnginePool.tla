----------------------------- MODULE EnginePool -----------------------------
(***************************************************************************)
(* The worker's pool of C++ child processes, one per slot, and the leases  *)
(* on them.  The pool's mutex guards the slot table and whether the pool   *)
(* is started; the idle engines are in a buffered channel that is received *)
(* from and sent to without it.  Each engine has a mutex of its own, held  *)
(* for a whole request and its response.                                   *)
(*                                                                         *)
(* A holder is a goroutine's use of the pool: its lease from the call that *)
(* asks for an engine until Release has put the engine back.  at[h] is the *)
(* point it has reached between two critical sections:                     *)
(*   waiting, trying   asked, about to receive from the channel,           *)
(*   taken             received an engine that is not marked leased yet,   *)
(*   held              Acquire has returned,                               *)
(*   calling           marked executing, about to lock the engine,         *)
(*   in_engine         request written, response not read yet,             *)
(*   called            back from the engine, not marked leased again yet,  *)
(*   sending           marked idle, not sent to the channel yet,           *)
(*   released          Release is over; the lease still knows its engine.  *)
(*                                                                         *)
(* The agent starts the pool once and stops it once.  Stop keeps the       *)
(* pool's mutex until every engine is stopped.                             *)
(***************************************************************************)
EXTENDS Integers, Sequences, FiniteSetsExt

CONSTANTS
  Slots,           \* cfg.Slots
  Holders          \* the goroutines' leases

ASSUME PoolAssumption == Slots \in Nat \ {0} /\ IsFiniteSet(Holders)

Engines == 0 .. Slots - 1
NoEngine == -1

VARIABLES
  pool,            \* "new", "started", "stopping" (Stop has the mutex), "stopped"
  idle,            \* [Engines -> Nat]: what is in the idle channel
  slot,            \* [Engines -> slot state], as Snapshot shows it
  child,           \* [Engines -> "up", "dead", or "stopped" for e.started = false]
  pipe,            \* [Engines -> Seq(Holders)]: requests whose response is unread
  at,              \* [Holders -> Points]
  with             \* [Holders -> Engines or NoEngine]: lease.engine

poolVars == <<pool, idle, slot, child, pipe, at, with>>

Points == {"none", "waiting", "trying", "taken", "held", "calling", "in_engine", "called",
           "sending", "released"}
Holding == {"taken", "held", "calling", "in_engine", "called", "sending"}

PoolTypeOK ==
  /\ pool \in {"new", "started", "stopping", "stopped"}
  /\ idle \in [Engines -> Nat]
  /\ slot \in [Engines -> {"idle", "leased", "executing"}]
  /\ child \in [Engines -> {"up", "dead", "stopped"}]
  /\ pipe \in [Engines -> Seq(Holders)]
  /\ at \in [Holders -> Points]
  /\ with \in [Holders -> Engines \cup {NoEngine}]
  /\ \A h \in Holders : at[h] \in Holding => with[h] \in Engines

PoolInit ==
  /\ pool = "new"
  /\ idle = [e \in Engines |-> 0]
  /\ slot = [e \in Engines |-> "idle"]
  /\ child = [e \in Engines |-> "stopped"]
  /\ pipe = [e \in Engines |-> <<>>]
  /\ at = [h \in Holders |-> "none"]
  /\ with = [h \in Holders |-> NoEngine]

Unlocked == pool # "stopping"

StartPool ==
  /\ pool = "new"
  /\ pool' = "started"
  /\ idle' = [e \in Engines |-> 1]
  /\ slot' = [e \in Engines |-> "idle"]
  /\ child' = [e \in Engines |-> "up"]
  /\ UNCHANGED <<pipe, at, with>>

-----------------------------------------------------------------------------
(* Acquire and TryAcquire. *)

Ask(h, point) ==
  /\ at[h] \in {"none", "released"}
  /\ pool = "started"
  /\ at' = [at EXCEPT ![h] = point]
  /\ UNCHANGED <<pool, idle, slot, child, pipe, with>>

Acquire(h) == Ask(h, "waiting")
TryAcquire(h) == Ask(h, "trying")

\* The channel is the one read under the mutex, even if Stop ran since.
Receive(h) ==
  /\ at[h] \in {"waiting", "trying"}
  /\ \E e \in Engines :
       /\ idle[e] > 0
       /\ idle' = [idle EXCEPT ![e] = @ - 1]
       /\ with' = [with EXCEPT ![h] = e]
  /\ at' = [at EXCEPT ![h] = "taken"]
  /\ UNCHANGED <<pool, slot, child, pipe>>

NoIdleEngine(h) ==
  /\ at[h] = "trying"
  /\ \A e \in Engines : idle[e] = 0
  /\ at' = [at EXCEPT ![h] = "none"]
  /\ UNCHANGED <<pool, idle, slot, child, pipe, with>>

\* The caller's context ends the wait.
CancelAcquire(h) ==
  /\ at[h] = "waiting"
  /\ at' = [at EXCEPT ![h] = "none"]
  /\ UNCHANGED <<pool, idle, slot, child, pipe, with>>

\* After Acquire got its engine, and again after every call.
MarkLeased(h) ==
  /\ at[h] \in {"taken", "called"}
  /\ Unlocked
  /\ slot' = [slot EXCEPT ![with[h]] = "leased"]
  /\ at' = [at EXCEPT ![h] = "held"]
  /\ UNCHANGED <<pool, idle, child, pipe, with>>

-----------------------------------------------------------------------------
(* A call on the leased engine; Pool.Call makes it straight after acquire.  *)

MarkExecuting(h) ==
  /\ at[h] \in {"taken", "held"}
  /\ Unlocked
  /\ slot' = [slot EXCEPT ![with[h]] = "executing"]
  /\ at' = [at EXCEPT ![h] = "calling"]
  /\ UNCHANGED <<pool, idle, child, pipe, with>>

\* A slip in the locking: the engine is kept until the slot is marked again.
EngineLockedUntilMarked(e) ==
  \E h \in Holders : at[h] \in {"in_engine", "called"} /\ with[h] = e

EngineLocked(e) == \E h \in Holders : at[h] = "in_engine" /\ with[h] = e

\* The engine is stopped, the context over or the pipe broken: back at once.
\* Else the request is written; a dead child leaves nothing to read.
EngineCall(h) ==
  /\ at[h] = "calling"
  /\ ~EngineLocked(with[h])
  /\ \/ /\ at' = [at EXCEPT ![h] = "called"]
        /\ UNCHANGED pipe
     \/ /\ child[with[h]] # "stopped"
        /\ at' = [at EXCEPT ![h] = "in_engine"]
        /\ pipe' = IF child[with[h]] = "up" THEN [pipe EXCEPT ![with[h]] = Append(@, h)] ELSE pipe
  /\ UNCHANGED <<pool, idle, slot, child, with>>

\* A slip in the call: when the context ends first, the response stays unread.
EngineReturnsUndrained(h) ==
  /\ at[h] = "in_engine"
  /\ at' = [at EXCEPT ![h] = "called"]
  /\ UNCHANGED <<pool, idle, slot, child, pipe, with>>

\* One response, or the end of a dead child's output.  A context that ended in
\* the meantime is looked at only afterwards.
EngineReturns(h) ==
  /\ at[h] = "in_engine"
  /\ pipe' = [pipe EXCEPT ![with[h]] = IF @ = <<>> THEN @ ELSE Tail(@)]
  /\ at' = [at EXCEPT ![h] = "called"]
  /\ UNCHANGED <<pool, idle, slot, child, with>>

\* A child crashes, or is killed with the agent's context.  Nobody replaces it.
ChildDies(e) ==
  /\ child[e] = "up"
  /\ child' = [child EXCEPT ![e] = "dead"]
  /\ pipe' = [pipe EXCEPT ![e] = <<>>]
  /\ UNCHANGED <<pool, idle, slot, at, with>>

-----------------------------------------------------------------------------
(* Lease.Release. *)

\* A slip in the lease: nothing remembers that it was released.
ReleaseAgain(h) ==
  /\ at[h] \in {"held", "released"}
  /\ Unlocked
  /\ IF pool = "started"
     THEN slot' = [slot EXCEPT ![with[h]] = "idle"] /\ at' = [at EXCEPT ![h] = "sending"]
     ELSE UNCHANGED slot /\ at' = [at EXCEPT ![h] = "released"]
  /\ UNCHANGED <<pool, idle, child, pipe, with>>

\* A slip in the release: the slot table is not told.
ReleaseUnmarked(h) ==
  /\ at[h] = "held"
  /\ Unlocked
  /\ at' = [at EXCEPT ![h] = IF pool = "started" THEN "sending" ELSE "released"]
  /\ UNCHANGED <<pool, idle, slot, child, pipe, with>>

Release(h) ==
  /\ at[h] = "held"
  /\ Unlocked
  /\ IF pool = "started"
     THEN slot' = [slot EXCEPT ![with[h]] = "idle"] /\ at' = [at EXCEPT ![h] = "sending"]
     ELSE UNCHANGED slot /\ at' = [at EXCEPT ![h] = "released"]
  /\ UNCHANGED <<pool, idle, child, pipe, with>>

ChannelHasRoom == MapThenSumSet(LAMBDA e : idle[e], Engines) < Slots

Send(h) ==
  /\ at[h] = "sending"
  /\ ChannelHasRoom
  /\ idle' = [idle EXCEPT ![with[h]] = @ + 1]
  /\ at' = [at EXCEPT ![h] = "released"]
  /\ UNCHANGED <<pool, slot, child, pipe, with>>

-----------------------------------------------------------------------------
(* Stop. *)

BeginStop ==
  /\ pool = "started"
  /\ pool' = "stopping"
  /\ UNCHANGED <<idle, slot, child, pipe, at, with>>

\* One engine after the other, each once its call in progress is over.
StopEngine(e) ==
  /\ pool = "stopping"
  /\ child[e] # "stopped"
  /\ \A d \in Engines : d < e => child[d] = "stopped"
  /\ ~EngineLocked(e)
  /\ child' = [child EXCEPT ![e] = "stopped"]
  /\ pipe' = [pipe EXCEPT ![e] = <<>>]
  /\ UNCHANGED <<pool, idle, slot, at, with>>

EndStop ==
  /\ pool = "stopping"
  /\ \A e \in Engines : child[e] = "stopped"
  /\ pool' = "stopped"
  /\ slot' = [e \in Engines |-> "idle"]
  /\ UNCHANGED <<idle, child, pipe, at, with>>

-----------------------------------------------------------------------------
\* What a holder does without a decision of its caller's.
HolderStep(h) ==
  \/ Receive(h)
  \/ NoIdleEngine(h)
  \/ MarkLeased(h)
  \/ EngineCall(h)
  \/ EngineReturns(h)
  \/ Send(h)

StopStep == (\E e \in Engines : StopEngine(e)) \/ EndStop

PoolNext ==
  \/ StartPool
  \/ \E h \in Holders : Acquire(h) \/ TryAcquire(h) \/ CancelAcquire(h)
  \/ \E h \in Holders : MarkExecuting(h)
  \/ \E h \in Holders : Release(h)
  \/ \E h \in Holders : HolderStep(h)
  \/ \E e \in Engines : ChildDies(e)
  \/ BeginStop
  \/ StopStep

PoolSpec == PoolInit /\ [][PoolNext]_poolVars

(***************************************************************************)
(* Fairness.  A goroutine that can go on does, and a child that got a      *)
(* request answers or dies.  Nobody has to ask, call, release or stop.     *)
(***************************************************************************)
PoolFairness ==
  /\ \A h \in Holders : WF_poolVars(HolderStep(h))
  /\ WF_poolVars(StopStep)

FairPoolSpec == PoolSpec /\ PoolFairness

-----------------------------------------------------------------------------
(* What the pool promises. *)

HoldersOf(e) == {h \in Holders : at[h] \in Holding /\ with[h] = e}

\* docs: "A lease owns exactly one C++ child while held."  An engine is in the
\* channel once or with one lease, never both, however Acquire, Release, a
\* second Release and Stop interleave; until Stop none is lost either.  So the
\* channel has room for each engine that is sent, and no Release blocks.
EngineInOnePlace ==
  \A e \in Engines :
    /\ idle[e] = 0 \/ (idle[e] = 1 /\ HoldersOf(e) = {})
    /\ \A g, h \in HoldersOf(e) : g = h
    /\ pool \in {"started", "stopping"} => idle[e] = 1 \/ HoldersOf(e) # {}

\* The slot table the heartbeat's snapshot shows never calls a leased engine
\* idle or an idle one busy: the marks follow the channel's order although they
\* are made in other critical sections than the sends and receives.
SlotTableIsTrue ==
  pool \in {"started", "stopping"} =>
    /\ \A e \in Engines : idle[e] > 0 => slot[e] = "idle"
    /\ \A h \in Holders :
         /\ at[h] = "held" => slot[with[h]] = "leased"
         /\ at[h] \in {"calling", "in_engine", "called"} => slot[with[h]] = "executing"

\* docs: the pool "drains the child response before returning the slot", so the
\* next caller never reads a stale one.  Whoever reads from a child reads the
\* response to its own request, and nothing is left for the next.
NoStaleResponse ==
  \A e \in Engines :
    /\ ~EngineLocked(e) => pipe[e] = <<>>
    /\ \A h \in Holders :
         at[h] = "in_engine" /\ with[h] = e => pipe[e] = <<h>> \/ pipe[e] = <<>>

\* An engine is free while it is in the channel and leased from the receive to
\* the send; the pool counts as open until Stop is over.
Slotted == INSTANCE SlotPool WITH
  open <- CASE pool = "new" -> "new" [] pool = "stopped" -> "closed" [] OTHER -> "open",
  free <- {e \in Engines : idle[e] > 0},
  lease <- [h \in Holders |-> IF at[h] \in Holding THEN with[h] ELSE NoEngine]

\* The pool with its mutexes, channel, slot table and dying children behaves to
\* its callers like a set of engines handed out and taken back one at a time:
\* leases are exclusive, a release gives back the engine that was leased, once,
\* and none is let go before the pool is stopped.
ImplementsSlotPool == Slotted!SlotSpec

\* Stop waits for calls in progress with the pool's mutex held, and those calls
\* need that mutex when they are back: Stop returns all the same.
StopReturns == pool = "stopping" ~> pool = "stopped"
=============================================================================
