------------------------ MODULE MCEnquirySubmission ------------------------
(***************************************************************************)
(* Small instances of EnquirySubmission.  The clock stops at MaxTime, so   *)
(* every run ends in a state whose requests are all answered.              *)
(***************************************************************************)
EXTENDS EnquirySubmission

CONSTANTS r1, r2, w1, w2, k1, p1, p2, confirmation

\* The inputs of two requests up to a renaming of workers, pairs and requests.
Canonical ==
    /\ worker[r1] = w1 /\ pair[r1] = p1
    /\ key[r1] = NoKey => key[r2] = NoKey
=============================================================================
