--------------------------- MODULE MCCrmPipeline ---------------------------
(***************************************************************************)
(* Small instances of CrmPipeline.                                         *)
(***************************************************************************)
EXTENDS CrmPipeline, TLC

CONSTANTS e1, d1, d2, a1

=============================================================================
