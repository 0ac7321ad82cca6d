--------------------------- MODULE MCEnquiryCache ---------------------------
(***************************************************************************)
(* A small instance of EnquiryCache: a GET asked again and again beside    *)
(* two updates, in one process.                                            *)
(***************************************************************************)
EXTENDS EnquiryCache

CONSTANTS r1, x1, x2, w1

\* Updates differ in name only: the first to commit is x1.
FirstIsX1 == writerPc[x1] = "idle" => writerPc[x2] = "idle"
=============================================================================
