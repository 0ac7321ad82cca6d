--------------------------- MODULE MCRequestPath ---------------------------
(***************************************************************************)
(* A small instance of RequestPath.                                        *)
(***************************************************************************)
EXTENDS RequestPath, SequencesExt

Tokens == Mark \cup {" ", "x", "X"}

Texts == SeqOf({"&", "lt;", "<", ">"}, 3) \cup {<<"&", "<", ">", "lt;">>}
=============================================================================
