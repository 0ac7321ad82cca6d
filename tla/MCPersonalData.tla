--------------------------- MODULE MCPersonalData ---------------------------
(* One enquiry, two updates: what two enquiries share is the erasure only. *)
EXTENDS PersonalData
=============================================================================
