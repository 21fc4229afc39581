--------------------------- MODULE MCWorkerAgent ---------------------------
(* Workers with one slot each, for TLC. *)
EXTENDS WorkerAgent

MCOffers == {[total |-> 1, supports |-> TaskTypes, disk |-> 1]}
=============================================================================
