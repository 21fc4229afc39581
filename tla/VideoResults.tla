---------------------------- MODULE VideoResults ----------------------------
(***************************************************************************)
(* What the Entry server tells the clients that ask after a video, without *)
(* its calls, reservations, tasks and workers.  result[v] is the answer to *)
(* a query; a video with a failed segment is spoiled for good.             *)
(*                                                                         *)
(* Two of the steps are what the code does and its documents do not want:  *)
(* an accept for another segment reopens a failed video, and, when answers *)
(* of workers get lost, a completed video is declared failed.              *)
(***************************************************************************)
CONSTANTS
  Videos,          \* a source worker and a video name of its
  LossyStart       \* may Entry miss the answer of a worker that did start?

VARIABLES
  result,          \* [Videos -> {"not_found", "working", "completed", "failed"}]
  spoiled          \* SUBSET Videos

resultVars == <<result, spoiled>>

ResultsInit ==
  /\ result = [v \in Videos |-> "not_found"]
  /\ spoiled = {}

Move(v, from, to) ==
  /\ result[v] \in from
  /\ result' = [result EXCEPT ![v] = to]

Submit(v) == Move(v, {"not_found"}, "working") /\ UNCHANGED spoiled

Spoil(v) == Move(v, {"working", "failed"}, "failed") /\ spoiled' = spoiled \cup {v}

Complete(v) == v \notin spoiled /\ Move(v, {"working"}, "completed") /\ UNCHANGED spoiled

Fail(v) == v \notin spoiled /\ Move(v, {"working"}, "failed") /\ UNCHANGED spoiled

Reopen(v) == v \in spoiled /\ Move(v, {"failed"}, "working") /\ UNCHANGED spoiled

Overturn(v) == LossyStart /\ Move(v, {"completed"}, "failed") /\ UNCHANGED spoiled

ResultsNext ==
  \E v \in Videos :
    Submit(v) \/ Spoil(v) \/ Complete(v) \/ Fail(v) \/ Reopen(v) \/ Overturn(v)

ResultsSpec == ResultsInit /\ [][ResultsNext]_resultVars
=============================================================================
