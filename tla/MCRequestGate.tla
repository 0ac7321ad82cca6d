--------------------------- MODULE MCRequestGate ---------------------------
(* Three requests of one client, two workers, three units of window. *)
EXTENDS RequestGate, TLC

Symmetry == Permutations(Request) \cup Permutations(Worker)
=============================================================================
