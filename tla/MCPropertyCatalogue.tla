------------------------ MODULE MCPropertyCatalogue ------------------------
(* A small instance of PropertyCatalogue for TLC. *)
EXTENDS PropertyCatalogue

CONSTANTS l, d

listRequests == {l}
detailRequests == {d}
=============================================================================
