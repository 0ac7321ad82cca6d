--------------------------- MODULE MCListPaging ---------------------------
(* Small instances of ListPaging for TLC. *)
EXTENDS ListPaging

ids == 1..3
===========================================================================
