----------------------------- MODULE MCConsole -----------------------------
(***************************************************************************)
(* A small instance of Console: one change made here and one elsewhere.    *)
(***************************************************************************)
EXTENDS Console

CONSTANT m1
=============================================================================
