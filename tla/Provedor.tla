------------------------------- MODULE Provedor -------------------------------
(***************************************************************************)
(* Mercado Pago as the backend sees it: the life of an Order at the        *)
(* provider (external, from how the code and its tests use it), and the    *)
(* translation of what a query returns into the local payment status       *)
(* (services/mercado_pago_service.py: _provider_state, _safe_transition).  *)
(***************************************************************************)
EXTENDS Naturals

CONSTANTS
    Metodos,   \* subset of {"pix", "cartao"}: what clients use in this instance
    PosPago,   \* what may still happen to a processed order
    Tardio     \* TRUE: an order reported failed or expired may be processed later

PagamentoStatus == {"pendente", "aprovado", "recusado", "cancelado", "reembolsado"}

(* The provider statuses the code tells apart, one name for each group that
   it treats alike; "none" is an order the provider does not have. *)
OrdemStatus == {"action_required", "processed", "failed", "expired", "canceled",
                "refunded", "partially_refunded", "charged_back"}

ASSUME ProvedorAssumption ==
    /\ Metodos \subseteq {"pix", "cartao"}
    /\ PosPago \subseteq {"refunded", "partially_refunded", "charged_back"}
    /\ Tardio \in BOOLEAN

-----------------------------------------------------------------------------
(* The provider's own moves. *)
OrdemInicial(metodo) ==
    IF metodo = "pix" THEN {"action_required"}
    ELSE {"action_required", "processed", "failed"}

OrdemSeguinte(metodo, s) ==
    CASE s = "action_required" ->
            {"processed", "canceled"} \cup IF metodo = "pix" THEN {"expired"} ELSE {"failed"}
      [] s = "processed" -> PosPago
      [] s \in {"failed", "expired"} /\ Tardio -> {"processed"}
      [] s = "partially_refunded" -> PosPago \cap {"refunded"}
      [] OTHER -> {}

(* What the provider tells about by webhook: every status but the one a
   creation starts in. *)
Notificado(s) == s # "action_required"

-----------------------------------------------------------------------------
(* _provider_state: chargebacks and partial refunds have no local status. *)
NaoSuportado(s) == s \in {"partially_refunded", "charged_back"}

RecebidoBruto(s) ==  \* mutant: an expired order keeps the provider's word
    CASE s = "processed" -> "aprovado"
      [] s = "refunded" -> "reembolsado"
      [] s = "failed" -> "recusado"
      [] s = "action_required" -> "pendente"
      [] OTHER -> s

RecebidoSemExpirar(s) ==  \* mutant: an expired order is still to be paid
    CASE s = "processed" -> "aprovado"
      [] s = "refunded" -> "reembolsado"
      [] s = "failed" -> "recusado"
      [] s = "canceled" -> "cancelado"
      [] OTHER -> "pendente"

Recebido(s) ==
    CASE s = "processed" -> "aprovado"
      [] s = "refunded" -> "reembolsado"
      [] s = "failed" -> "recusado"
      [] s \in {"canceled", "expired"} -> "cancelado"
      [] OTHER -> "pendente"

(* _safe_transition: a refund is final, an approval only leaves to a refund,
   a refusal or a cancellation never becomes pending again. *)
TransicaoReabre(atual, novo) ==  \* mutant: a stale answer reopens an attempt
    IF atual = "reembolsado" \/ (atual = "aprovado" /\ novo # "reembolsado")
    THEN atual
    ELSE novo

TransicaoDesfaz(atual, novo) ==  \* mutant: a stale answer undoes an approval
    IF \/ atual = "reembolsado"
       \/ atual \in {"aprovado", "recusado", "cancelado"} /\ novo = "pendente"
    THEN atual
    ELSE novo

SafeTransition(atual, novo) ==
    IF \/ atual = "reembolsado"
       \/ atual = "aprovado" /\ novo # "reembolsado"
       \/ atual \in {"recusado", "cancelado"} /\ novo = "pendente"
    THEN atual
    ELSE novo
=============================================================================
