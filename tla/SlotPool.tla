------------------------------ MODULE SlotPool ------------------------------
(***************************************************************************)
(* What the worker's engine pool promises its callers, without its mutex,  *)
(* channel, slot table and child processes: a set of free engines, and for *)
(* each holder the engine it leases.  An engine changes hands in one step. *)
(* Closing the pool takes nothing away from anybody: a holder that asked   *)
(* before may still be served, and one that gives back afterwards either   *)
(* still puts the engine among the free ones or lets it go.                *)
(***************************************************************************)
CONSTANTS Engines, Holders, NoEngine

VARIABLES
  open,            \* "new", "open", "closed"
  free,            \* SUBSET Engines
  lease            \* [Holders -> Engines \cup {NoEngine}]

slotVars == <<open, free, lease>>

SlotInit ==
  /\ open = "new"
  /\ free = {}
  /\ lease = [h \in Holders |-> NoEngine]

Open ==
  /\ open = "new"
  /\ open' = "open"
  /\ free' = Engines
  /\ UNCHANGED lease

Take(h, e) ==
  /\ lease[h] = NoEngine
  /\ e \in free
  /\ free' = free \ {e}
  /\ lease' = [lease EXCEPT ![h] = e]
  /\ UNCHANGED open

Give(h) ==
  /\ lease[h] # NoEngine
  /\ free' = free \cup {lease[h]}
  /\ lease' = [lease EXCEPT ![h] = NoEngine]
  /\ UNCHANGED open

Close ==
  /\ open = "open"
  /\ open' = "closed"
  /\ UNCHANGED <<free, lease>>

Drop(h) ==
  /\ open = "closed"
  /\ lease[h] # NoEngine
  /\ lease' = [lease EXCEPT ![h] = NoEngine]
  /\ UNCHANGED <<open, free>>

SlotNext ==
  \/ Open
  \/ \E h \in Holders, e \in Engines : Take(h, e)
  \/ \E h \in Holders : Give(h) \/ Drop(h)
  \/ Close

SlotSpec == SlotInit /\ [][SlotNext]_slotVars
=============================================================================
