------------------------------ MODULE MCCatalog ----------------------------
(* Two calls at a time, two completed bookings, a packet of two photographs. *)
EXTENDS Catalog, TLC

CallSymmetry == Permutations(Calls) \cup Permutations(Bookings)
=============================================================================
