--------------------------------- MODULE Nulo ----------------------------------
(***************************************************************************)
(* What a column holds that is NULL, and a request that is not there.      *)
(***************************************************************************)
CONSTANT Nada
=============================================================================
