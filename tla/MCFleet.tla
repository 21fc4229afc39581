------------------------------ MODULE MCFleet ------------------------------
(* One source worker and one peer, for TLC. *)
EXTENDS Fleet

MCOffers == {[total |-> 1, supports |-> TaskTypes, disk |-> 2]}
MCSourceOf == [j \in Jobs |-> 1]
MCVideoOf == [j \in Jobs |-> j]
=============================================================================
