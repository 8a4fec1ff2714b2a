------------------------------ MODULE MCCreditos ------------------------------
(***************************************************************************)
(* One purchase of credits of 3 cents, paid in full; a direct Pix may pay  *)
(* part of it.                                                             *)
(***************************************************************************)
EXTENDS Checkout, TLC
CONSTANT c1

MCTotal == (c1 :> 3)
MCPolitica == (c1 :> "integral")
MCFinalidade == (c1 :> "creditos")
MCLicenca == (c1 :> "nenhuma")
=============================================================================
