-------------------------------- MODULE Livro ---------------------------------
(***************************************************************************)
(* What the financial core promises, whatever its requests, notifications, *)
(* cancellations and crashes do: a ledger.  Each charge keeps a running    *)
(* balance; a step books one movement of one payment, never past the       *)
(* total; money that came in leaves only by a refund, or by the annulment  *)
(* of a Pix received directly; an attempt is open alone.                   *)
(***************************************************************************)
EXTENDS Naturals

CONSTANTS Cobrancas, Pagamentos, Total, SemCobranca

VARIABLES
    conta,     \* conta[p]: the payment
    pago,      \* pago[c]: what charge c has received and still keeps
    situacao   \* situacao[c]: what clients are told of charge c

vars == <<conta, pago, situacao>>

Fase == {"nenhum", "aberto", "recebido", "encerrado", "devolvido"}

Init ==
    /\ conta = [p \in Pagamentos |->
                   [cob |-> SemCobranca, valor |-> 0, fase |-> "nenhum", origem |-> "provedor"]]
    /\ pago = [c \in Cobrancas |-> 0]
    /\ situacao \in [Cobrancas -> {"nenhuma", "pendente"}]

-----------------------------------------------------------------------------
SituacaoDe(c, v) ==
    CASE v = 0 -> "pendente"
      [] v # 0 /\ v < Total[c] -> "parcialmente_paga"
      [] OTHER -> "paga"

Contabiliza(c, v) ==
    /\ v <= Total[c]
    /\ pago' = [pago EXCEPT ![c] = v]
    /\ situacao' = [situacao EXCEPT ![c] = SituacaoDe(c, v)]

SemAberto(c) ==
    \A q \in Pagamentos : conta[q].cob = c => conta[q].fase # "aberto"

Novo(p, c, v, fase, origem) ==
    /\ conta[p].fase = "nenhum"
    /\ situacao[c] # "nenhuma"
    /\ SemAberto(c)
    /\ v > 0
    /\ v + pago[c] <= Total[c]
    /\ conta' = [conta EXCEPT ![p] =
                    [cob |-> c, valor |-> v, fase |-> fase, origem |-> origem]]

Passa(p, fase) == conta' = [conta EXCEPT ![p] = [@ EXCEPT !.fase = fase]]

-----------------------------------------------------------------------------
Emitir(c) ==
    /\ situacao[c] = "nenhuma"
    /\ situacao' = [situacao EXCEPT ![c] = "pendente"]
    /\ UNCHANGED <<conta, pago>>

Abrir(p, c, v) ==
    /\ Novo(p, c, v, "aberto", "provedor")
    /\ UNCHANGED <<pago, situacao>>

Lancar(p, c, v) ==
    /\ Novo(p, c, v, "recebido", "direta")
    /\ Contabiliza(c, pago[c] + v)

(* An attempt given up may still turn out to be paid. *)
Receber(p) ==
    /\ conta[p].fase \in {"aberto", "encerrado"}
    /\ conta[p].origem = "provedor"
    /\ Passa(p, "recebido")
    /\ Contabiliza(conta[p].cob, pago[conta[p].cob] + conta[p].valor)

Encerrar(p) ==
    /\ conta[p].fase = "aberto"
    /\ Passa(p, "encerrado")
    /\ UNCHANGED <<pago, situacao>>

(* A refund of money this ledger never saw come in changes no balance. *)
Devolver(p) ==
    /\ conta[p].fase \in {"aberto", "encerrado", "recebido"}
    /\ conta[p].origem = "provedor"
    /\ Passa(p, "devolvido")
    /\ IF conta[p].fase = "recebido"
       THEN Contabiliza(conta[p].cob, pago[conta[p].cob] - conta[p].valor)
       ELSE UNCHANGED <<pago, situacao>>

Anular(p) ==
    /\ conta[p].fase = "recebido"
    /\ conta[p].origem = "direta"
    /\ Passa(p, "encerrado")
    /\ Contabiliza(conta[p].cob, pago[conta[p].cob] - conta[p].valor)

Next ==
    \/ \E c \in Cobrancas :
        \/ Emitir(c)
        \/ \E p \in Pagamentos, v \in 1..Total[c] : Abrir(p, c, v) \/ Lancar(p, c, v)
    \/ \E p \in Pagamentos : Receber(p) \/ Encerrar(p) \/ Devolver(p) \/ Anular(p)

Spec == Init /\ [][Next]_vars
=============================================================================
