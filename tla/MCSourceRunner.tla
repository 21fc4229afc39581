--------------------------- MODULE MCSourceRunner ---------------------------
(* Small instances of a source worker for TLC. *)
EXTENDS SourceRunner

MCHolders == {Split} \cup SegmentLeases \cup UploadLeases
=============================================================================
