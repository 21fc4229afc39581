--------------------------- MODULE MCMediaEngine ---------------------------
(* Small videos for TLC. *)
EXTENDS MediaEngine

\* Real splits into at most two segments go on to a GIF; the durations and limits
\* are chosen so that the windows do not divide evenly.
MCSplits ==
  [fake : {FALSE}, duration : {1, 5, 7, 8, 9, 11}, size : {0, 3}, target_duration : {0, 1, 3},
   target_size : {0, 2}, max_segments : {0, 1, 2, 3, 4, 6}]
MCFakeSplits ==
  [fake : {TRUE}, duration : {1}, size : {0, 2, 5, 7}, target_duration : {0},
   target_size : {0, 2}, max_segments : {0, 3, 4}]
MCRequests == MCSplits \cup MCFakeSplits

MCMuxerOutputs == {{}, {0}, {0, 1}, {1}, {0, 2}}

MCSegmentFiles ==
  {[frames |-> 2, announced |-> 2, picture |-> 1],
   [frames |-> 1, announced |-> 2, picture |-> 1],
   [frames |-> 1, announced |-> -1, picture |-> 1],
   [frames |-> 2, announced |-> 1, picture |-> 2],
   [frames |-> 0, announced |-> 0, picture |-> 1]}
=============================================================================
