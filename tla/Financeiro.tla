------------------------------ MODULE Financeiro ------------------------------
(***************************************************************************)
(* The arithmetic of a charge (services/financial_service.py): how much of *)
(* it is paid, what a client may pay next, and the status that follows.    *)
(* Amounts are whole cents.  Every operator takes the table of payments    *)
(* `pg` explicitly, because the code evaluates it on the objects of a      *)
(* session, which are not always the rows of the database.                 *)
(***************************************************************************)
EXTENDS Naturals, Somas

CONSTANTS
    Cobrancas,      \* the charges
    MaxPagamentos,  \* bound: rows the table `pagamentos` may reach
    Total,          \* Total[c]: valor_total of charge c, in cents
    Politica        \* Politica[c]: politica_pagamento of the proposal of c

Pagamentos == 1..MaxPagamentos

ASSUME FinanceiroAssumption ==
    /\ MaxPagamentos \in Nat \ {0}
    /\ Total \in [Cobrancas -> Nat \ {0}]
    /\ Politica \in [Cobrancas -> {"integral", "entrada_50_50"}]

PagamentoTipo == {"integral", "entrada", "saldo"}
CobrancaStatus == {"pendente", "parcialmente_paga", "paga"}

-----------------------------------------------------------------------------
(* dividir_50_50: the entrada is rounded down to the cent, the rest is the
   saldo; a total of one cent cannot be divided. *)
Entrada(total) == total \div 2
Divisivel(total) == Entrada(total) > 0

Aprovados(pg, c) == {p \in Pagamentos : pg[p].cob = c /\ pg[p].status = "aprovado"}

Contribuicao(pg, c) ==
    [p \in Pagamentos |-> IF p \in Aprovados(pg, c) THEN pg[p].valor ELSE 0]

ValorPago(pg, c) == Soma(Contribuicao(pg, c), MaxPagamentos)

(* The three places of the code that find a charge paid beyond its total
   raise FinanceiroConflito; here it is the predicate their callers test. *)
SemLimite(pg, c) == FALSE  \* mutant: the check is dropped
AcimaDoTotal(pg, c) == ValorPago(pg, c) > Total[c]

StatusCalculado(pg, c) ==
    CASE ValorPago(pg, c) = 0 -> "pendente"
      [] ValorPago(pg, c) # 0 /\ ValorPago(pg, c) < Total[c] -> "parcialmente_paga"
      [] OTHER -> "paga"

-----------------------------------------------------------------------------
(* valor_para_pagamento: which kind of payment is possible, and its amount. *)
PagavelSemSaldo(pg, c, tipo) ==  \* mutant: the full price after a partial payment
    /\ ValorPago(pg, c) < Total[c]
    /\ tipo = "saldo" => ValorPago(pg, c) # 0
    /\ tipo = "entrada" => Divisivel(Total[c])

Pagavel(pg, c, tipo) ==
    /\ ValorPago(pg, c) < Total[c]
    /\ tipo = "saldo" <=> ValorPago(pg, c) # 0
    /\ tipo = "entrada" => Divisivel(Total[c])

ValorParaPagamento(pg, c, tipo) ==
    CASE tipo = "integral" -> Total[c]
      [] tipo = "entrada"  -> Entrada(Total[c])
      [] OTHER             -> Total[c] - ValorPago(pg, c)

(* _validar_opcao_v2: what the policy of the proposal offers. *)
OpcaoDaPolitica(pg, c, tipo) ==
    IF Politica[c] = "integral"
    THEN tipo = "integral"
    ELSE tipo = "saldo" <=> ValorPago(pg, c) # 0

(* condicao_inicio_satisfeita: the minimum that starts the production; without
   one (half of a single cent) the question itself raises FinanceiroInvalido. *)
Minimo(c) == IF Politica[c] = "integral" THEN Total[c] ELSE Entrada(Total[c])
TemMinimo(c) == Minimo(c) > 0
CondicaoInicio(pg, c) == TemMinimo(c) /\ ValorPago(pg, c) >= Minimo(c)
=============================================================================
