------------------------------- MODULE MCBeats --------------------------------
(***************************************************************************)
(* One beat and up to three clients: c1 and c2 want it exclusively, c3     *)
(* takes a lease.                                                          *)
(***************************************************************************)
EXTENDS Checkout, TLC
CONSTANTS c1, c2, c3

(* The two who want it exclusively are interchangeable. *)
Simetria == Permutations({c1, c2})

MCTotal == [c \in Cobrancas |-> 2]
MCPolitica == [c \in Cobrancas |-> "integral"]
MCFinalidade == [c \in Cobrancas |-> "producao"]
MCLicenca == [c \in Cobrancas |-> IF c = c3 THEN "lease" ELSE "exclusivo"]

(* Bound: with payments at the provider, two in all and no lease; without,  *)
(* as many as there are.                                                    *)
Limite ==
    (\E p \in Pagamentos : DoProvedor(p)) =>
        /\ \A p \in Pagamentos : Usado(p) => p <= 2 /\ pag[p].cob # c3
        /\ cobr[c3] = "nenhuma"
=============================================================================
