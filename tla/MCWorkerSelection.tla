------------------------- MODULE MCWorkerSelection -------------------------
(* A registry of three workers, for TLC. *)
EXTENDS WorkerSelection

\* A size known and one missing, alone and together, in both orders.
MCSizeLists == {<<1>>, <<1, 0>>, <<0, 1>>, <<1, 1>>}
=============================================================================
