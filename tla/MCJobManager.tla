---------------------------- MODULE MCJobManager ----------------------------
(* Small instances of the Entry server for TLC. *)
EXTENDS JobManager

Everything == [total |-> 1, supports |-> TaskTypes, disk |-> 2]
SegmentsOnly == [total |-> 1, supports |-> {"process_segment"}, disk |-> 2]

MCOffers == {Everything}
MCMixedOffers == {Everything, SegmentsOnly}

\* Two calls for one video: a retry, or the same name found twice.
MCSameSource == [j \in Jobs |-> 1]
MCSameVideo == [j \in Jobs |-> "clip"]

\* Two videos.
MCTwoVideos == [j \in Jobs |-> j]
=============================================================================
