---------------------------- MODULE MCEntryLocks ----------------------------
(* Interchangeable goroutines for TLC. *)
EXTENDS EntryLocks, TLC

Symmetry == Permutations(Goroutines)
=============================================================================
