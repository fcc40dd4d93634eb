------------------------- MODULE MCResourceCreation -------------------------
(* ResourceCreation for TLC. *)
EXTENDS ResourceCreation
=============================================================================
