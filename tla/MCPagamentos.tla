----------------------------- MODULE MCPagamentos -----------------------------
(***************************************************************************)
(* One production charge of 3 cents in two instalments.                    *)
(***************************************************************************)
EXTENDS Checkout, TLC
CONSTANT c1

MCTotal == (c1 :> 3)
MCPolitica == (c1 :> "entrada_50_50")
MCFinalidade == (c1 :> "producao")
MCLicenca == (c1 :> "nenhuma")
=============================================================================
