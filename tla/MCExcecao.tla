------------------------------ MODULE MCExcecao -------------------------------
(***************************************************************************)
(* One service, a key it may override and the one that releases the final  *)
(* files.                                                                  *)
(***************************************************************************)
EXTENDS Politicas
CONSTANTS etapas, final

MCPadrao == [k \in Chaves |-> k # EntregaFinal]
===============================================================================
