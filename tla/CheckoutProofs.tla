---------------------------- MODULE CheckoutProofs ----------------------------
(***************************************************************************)
(* Proofs about module Checkout, for every number of charges and payments, *)
(* every total and policy, and every behaviour of the provider: its types, *)
(* one attempt at a time, nothing booked above a total, and the refinement *)
(* of the ledger, every step of Checkout being a step of Livro or changing *)
(* nothing the ledger sees.                                                *)
(***************************************************************************)
EXTENDS Checkout, SomasProofs

USE FinanceiroAssumption, ProvedorAssumption, CheckoutAssumption

Tabela == [Pagamentos -> PagamentoRec \cup {Vazio}]

(* Tables of payments that differ only in what the ledger does not look at. *)
Equivalente(a, b) ==
    \A q \in Pagamentos : /\ a[q].cob = b[q].cob
                          /\ a[q].valor = b[q].valor
                          /\ a[q].status = b[q].status
                          /\ a[q].metodo = b[q].metodo
                          /\ a[q].ordem = b[q].ordem

-----------------------------------------------------------------------------
(* Rows and sums. *)

LEMMA LinhaUsada ==
    ASSUME NEW pg \in Tabela, NEW p \in Pagamentos
    PROVE  /\ pg[p].status # "nenhum" => pg[p] \in PagamentoRec
           /\ pg[p].status = "nenhum" => pg[p] = Vazio
           /\ pg[p].status \in PagamentoStatus \cup {"nenhum"}
           /\ pg[p].valor \in Nat
           /\ pg[p].cob \in Cobrancas \cup {SemCobranca}
BY DEF Tabela, PagamentoRec, Vazio, PagamentoStatus

LEMMA ContribuicaoNatural ==
    ASSUME NEW pg \in Tabela, NEW c
    PROVE  \A k \in 1..MaxPagamentos : Contribuicao(pg, c)[k] \in Nat
BY LinhaUsada DEF Contribuicao, Pagamentos

LEMMA ValorPagoNatural ==
    ASSUME NEW pg \in Tabela, NEW c
    PROVE  ValorPago(pg, c) \in Nat
<1>1. MaxPagamentos \in Nat
  OBVIOUS
<1> QED BY <1>1, ContribuicaoNatural, SomaNatural DEF ValorPago

(* What a charge has received depends only on its approved rows. *)
LEMMA ValorPagoDepende ==
    ASSUME NEW pg \in Tabela, NEW qg \in Tabela, NEW c,
           \A p \in Pagamentos :
               /\ p \in Aprovados(pg, c) <=> p \in Aprovados(qg, c)
               /\ p \in Aprovados(pg, c) => pg[p].valor = qg[p].valor
    PROVE  ValorPago(pg, c) = ValorPago(qg, c)
<1>1. Contribuicao(pg, c) = Contribuicao(qg, c)
  BY DEF Contribuicao
<1> QED BY <1>1 DEF ValorPago

LEMMA ValorPagoEquivalente ==
    ASSUME NEW pg \in Tabela, NEW qg \in Tabela, NEW c, Equivalente(pg, qg)
    PROVE  ValorPago(pg, c) = ValorPago(qg, c)
BY ValorPagoDepende DEF Equivalente, Aprovados

(* A charge without approved rows has received nothing. *)
LEMMA ValorPagoNulo ==
    ASSUME NEW pg \in Tabela, NEW c, Aprovados(pg, c) = {}
    PROVE  ValorPago(pg, c) = 0
<1>1. \A k \in 1..MaxPagamentos : Contribuicao(pg, c)[k] = 0
  BY DEF Contribuicao, Pagamentos
<1> QED BY <1>1, SomaNula DEF ValorPago

(* The latest of a non-empty set of rows is one of them. *)
LEMMA MaxPertence ==
    ASSUME NEW T, T \subseteq Pagamentos, T # {}
    PROVE  Max(T) \in T
<1> DEFINE D == {MaxPagamentos - x : x \in T}
<1>1. D \subseteq Nat /\ D # {}
  BY DEF Pagamentos
<1>2. \E d \in D : \A e \in D : d <= e
  <2> HIDE DEF D
  <2> QED BY <1>1, MenorNatural
<1>3. PICK x \in T : \A y \in T : MaxPagamentos - x <= MaxPagamentos - y
  BY <1>2
<1>4. \A y \in T : x >= y
  BY <1>3 DEF Pagamentos
<1> QED BY <1>4 DEF Max

-----------------------------------------------------------------------------
(* What follows a payment change keeps the types, and of the payments touches
   a flag at most. *)

LEMMA FlagTipos ==
    ASSUME NEW mem \in Tabela, NEW banco \in Tabela, NEW c,
           \A q \in Pagamentos : banco[q].status = "aprovado" => mem[q].status # "nenhum"
    PROVE  /\ FlagPaymentConflict(mem, banco, c) \in Tabela
           /\ Equivalente(FlagPaymentConflict(mem, banco, c), mem)
<1>1. CASE Aprovados(banco, c) = {}
  BY <1>1 DEF FlagPaymentConflict, Equivalente
<1>2. CASE Aprovados(banco, c) # {}
  <2> DEFINE m == Max(Aprovados(banco, c))
             n == [mem EXCEPT ![m] = [@ EXCEPT !.rec = "conflict"]]
  <2>1. m \in Aprovados(banco, c)
    BY <1>2, MaxPertence DEF Aprovados
  <2>2. m \in Pagamentos /\ mem[m] \in PagamentoRec
    BY <2>1, LinhaUsada DEF Aprovados
  <2>3. FlagPaymentConflict(mem, banco, c) = n
    BY <1>2 DEF FlagPaymentConflict
  <2> HIDE DEF m
  <2>4. [mem[m] EXCEPT !.rec = "conflict"] \in PagamentoRec
    BY <2>2 DEF PagamentoRec
  <2>5. n \in Tabela
    BY <2>2, <2>4 DEF Tabela
  <2>6. Equivalente(n, mem)
    BY <2>2 DEF Tabela, Equivalente, PagamentoRec
  <2> QED BY <2>3, <2>5, <2>6
<1> QED BY <1>1, <1>2

LEMMA ConfirmPaidTipos ==
    ASSUME TypeOK, NEW mem \in Tabela, NEW banco \in Tabela, NEW c \in Cobrancas, NEW paga,
           \A q \in Pagamentos : banco[q].status = "aprovado" => mem[q].status # "nenhum",
           ConfirmPaid(c, paga, mem, banco)
    PROVE  /\ pag' \in Tabela
           /\ Equivalente(pag', mem)
           /\ lic' \in [Cobrancas -> LicencaRec]
           /\ beat' \in {"aprovado", "fora", "vendido"}
<1>1. pag' = mem \/ pag' = FlagPaymentConflict(mem, banco, c)
  BY DEF ConfirmPaid
<1>2. pag' \in Tabela /\ Equivalente(pag', mem)
  <2>1. CASE pag' = mem
    BY <2>1 DEF Equivalente
  <2>2. CASE pag' = FlagPaymentConflict(mem, banco, c)
    BY <2>2, FlagTipos
  <2> QED BY <1>1, <2>1, <2>2
<1>3. \/ lic' = lic
      \/ lic' = [lic EXCEPT ![c] = [@ EXCEPT !.status = "adquirida", !.motivo = "nenhum"]]
      \/ lic' = [lic EXCEPT ![c] = [@ EXCEPT !.status = "cancelada",
                                             !.motivo = "pagamento_revertido"]]
  BY DEF ConfirmPaid
<1>4. lic' \in [Cobrancas -> LicencaRec]
  <2>1. lic[c] \in LicencaRec
    BY DEF TypeOK
  <2>2. /\ [lic[c] EXCEPT !.status = "adquirida", !.motivo = "nenhum"] \in LicencaRec
        /\ [lic[c] EXCEPT !.status = "cancelada", !.motivo = "pagamento_revertido"]
              \in LicencaRec
    BY <2>1 DEF LicencaRec
  <2> QED BY <1>3, <2>2 DEF TypeOK
<1>5. beat' \in {"aprovado", "fora", "vendido"}
  BY DEF ConfirmPaid, TypeOK
<1> QED BY <1>2, <1>4, <1>5

(* A transaction on charge c that leaves the session with the payments mem. *)
Transacao(c, mem) ==
    /\ pag' \in Tabela
    /\ Equivalente(pag', mem)
    /\ ValorPago(mem, c) <= Total[c]
    /\ cobr' = [cobr EXCEPT ![c] = StatusCalculado(mem, c)]
    /\ Liberar(c, pag')
    /\ \E banco \in Tabela : ConfirmPaid(c, StatusCalculado(mem, c) = "paga", mem, banco)

TiposEfeitos ==
    /\ cobr' \in [Cobrancas -> CobrancaStatus \cup {"nenhuma"}]
    /\ producao' \in [Cobrancas -> BOOLEAN]
    /\ lotes' \in [Cobrancas -> BOOLEAN]
    /\ lic' \in [Cobrancas -> LicencaRec]
    /\ beat' \in {"aprovado", "fora", "vendido"}

LEMMA AvaliarTipos ==
    ASSUME TypeOK, NEW mem \in Tabela, NEW banco \in Tabela, NEW c \in Cobrancas,
           \A q \in Pagamentos : banco[q].status = "aprovado" => mem[q].status # "nenhum",
           AvaliarCobranca(c, mem, banco)
    PROVE  Transacao(c, mem) /\ TiposEfeitos
<1>1. /\ ~AcimaDoTotal(mem, c)
      /\ cobr' = [cobr EXCEPT ![c] = StatusCalculado(mem, c)]
      /\ ConfirmPaid(c, StatusCalculado(mem, c) = "paga", mem, banco)
      /\ Liberar(c, pag')
  BY DEF AvaliarCobranca
<1>2. /\ pag' \in Tabela
      /\ Equivalente(pag', mem)
      /\ lic' \in [Cobrancas -> LicencaRec]
      /\ beat' \in {"aprovado", "fora", "vendido"}
  BY <1>1, ConfirmPaidTipos
<1>3. ValorPago(mem, c) <= Total[c]
  BY <1>1, ValorPagoNatural DEF AcimaDoTotal
<1>4. StatusCalculado(mem, c) \in CobrancaStatus
  BY DEF StatusCalculado, CobrancaStatus
<1>5. cobr' \in [Cobrancas -> CobrancaStatus \cup {"nenhuma"}]
  BY <1>1, <1>4 DEF TypeOK
<1>6. /\ producao' \in [Cobrancas -> BOOLEAN]
      /\ lotes' \in [Cobrancas -> BOOLEAN]
  <2> DEFINE v == FinanciamentoValido(pag', c)
             w == CondicaoInicio(pag', c)
  <2>1. v \in BOOLEAN /\ w \in BOOLEAN
    BY DEF FinanciamentoValido, CondicaoInicio
  <2>2. \/ lotes' = [lotes EXCEPT ![c] = @ \/ v] /\ producao' = producao
        \/ producao' = [producao EXCEPT ![c] = @ \/ w] /\ lotes' = lotes
    BY <1>1 DEF Liberar
  <2> HIDE DEF v, w
  <2> QED BY <2>1, <2>2 DEF TypeOK
<1>7. Transacao(c, mem)
  BY <1>1, <1>2, <1>3 DEF Transacao
<1> QED BY <1>2, <1>5, <1>6, <1>7 DEF TiposEfeitos

-----------------------------------------------------------------------------
(* Who may be in flight: orders, notifications, requests and locks belong to
   payments that exist, and payments to charges that exist.  Without it a step
   could not be said to act on a row that is there. *)
Ligado ==
    /\ \A p \in Pagamentos :
        /\ env[p] # "nao" \/ ord[p] # "none" => DoProvedor(p)
        /\ aviso[p] \/ pag[p].ordem \/ env[p] \in OrdemStatus => ord[p] # "none"
        /\ Usado(p) => cobr[pag[p].cob] # "nenhuma"
    /\ \A r \in req :
        /\ Usado(r.p)
        /\ r.web \/ r.ver \in OrdemStatus => ord[r.p] # "none"
    /\ \A c \in Cobrancas : trava[c].passo # "livre" =>
        /\ trava[c].dono \in Pagamentos
        /\ DoProvedor(trava[c].dono)
        /\ pag[trava[c].dono].cob = c
        /\ trava[c].passo # "criando" => ord[trava[c].dono] # "none"

(* What a step may do to the payments and to the status of the charges. *)
Trocado(p, mem) ==
    /\ mem \in Tabela
    /\ \A q \in Pagamentos \ {p} : mem[q] = pag[q]

Inserida(p, c, v, status, mem) ==
    /\ Trocado(p, mem)
    /\ ~Usado(p)
    /\ Pendentes(c) = {}
    /\ cobr[c] # "nenhuma"
    /\ v \in Nat \ {0}
    /\ v + ValorPago(pag, c) <= Total[c]
    /\ mem[p].cob = c /\ mem[p].valor = v /\ mem[p].status = status
    /\ ~mem[p].ordem

Mudada(p, status, mem) ==
    /\ Trocado(p, mem)
    /\ Usado(p)
    /\ mem[p].cob = pag[p].cob
    /\ mem[p].valor = pag[p].valor
    /\ mem[p].metodo = pag[p].metodo
    /\ mem[p].status = status

(* The steps that change licences without any payment. *)
Catalogado == Catalogo \/ \E c \in Cobrancas : RecusarCheckout(c)

Neutro ==
    /\ Equivalente(pag', pag)
    /\ \A q \in Pagamentos : pag'[q].rec = pag[q].rec \/ pag'[q].rec # "nenhuma"
    /\ UNCHANGED <<cobr, producao, lotes>>
    /\ UNCHANGED <<lic, beat>> \/ Catalogado

Emitido ==
    \E c \in Cobrancas :
        /\ cobr[c] = "nenhuma"
        /\ pag' = pag
        /\ cobr' = [cobr EXCEPT ![c] = "pendente"]
        /\ SolicitarLicenca(c)

Aberto ==
    \E p \in Pagamentos, c \in Cobrancas, v \in Nat :
        /\ Inserida(p, c, v, "pendente", pag')
        /\ pag'[p].metodo # "pix_direto"
        /\ cobr' = cobr
        /\ UNCHANGED efeitos

Lancado ==
    \E p \in Pagamentos, c \in Cobrancas, v \in Nat, mem \in Tabela :
        /\ Inserida(p, c, v, "aprovado", mem)
        /\ mem[p].metodo = "pix_direto"
        /\ Transacao(c, mem)

(* The answers of the provider that may be applied to a payment: a refusal
   without an order, the order its creation returned, one that was read some
   time ago, or one that is read now. *)
Resposta(p, s) ==
    \/ s = "recusado" /\ env[p] = "voando" /\ env'[p] = "fim"
    \/ env[p] \in OrdemStatus /\ s = Recebido(env[p])
    \/ \E r \in req : r.p = p /\ r.ver \in OrdemStatus /\ s = Recebido(r.ver)
    \/ ord[p] # "none" /\ s = Recebido(ord[p])

Movido(p) ==
    \E s \in PagamentoStatus, mem \in Tabela :
        /\ DoProvedor(p)
        /\ Resposta(p, s)
        /\ Mudada(p, SafeTransition(pag[p].status, s), mem)
        /\ \A q \in Pagamentos : mem[q].ordem => pag[q].ordem \/ ord[q] # "none"
        /\ Transacao(pag[p].cob, mem)

Anulado(p) ==
    \E mem \in Tabela :
        /\ pag[p].metodo = "pix_direto"
        /\ pag[p].status = "aprovado"
        /\ ~lotes[pag[p].cob]
        /\ Mudada(p, "cancelado", mem)
        /\ mem[p].ordem = pag[p].ordem
        /\ Transacao(pag[p].cob, mem)

Forma ==
    \/ Neutro
    \/ Emitido
    \/ Aberto
    \/ Lancado
    \/ \E p \in Pagamentos : Movido(p) \/ Anulado(p)

(* The part of the invariant that the tables alone decide. *)
Conserva ==
    /\ pag' \in Tabela
    /\ TiposEfeitos
    /\ \A q \in Pagamentos :
        /\ Usado(q) => /\ pag'[q].status # "nenhum"
                       /\ pag'[q].cob = pag[q].cob
                       /\ pag'[q].metodo = pag[q].metodo
        /\ pag'[q].ordem => pag[q].ordem \/ ord[q] # "none"
        /\ pag'[q].status # "nenhum" => cobr'[pag'[q].cob] # "nenhuma"

LEMMA TransicaoTipos ==
    ASSUME NEW a \in PagamentoStatus, NEW s \in PagamentoStatus
    PROVE  /\ SafeTransition(a, s) \in PagamentoStatus
           /\ SafeTransition(a, s) = "pendente" => a = "pendente"
           /\ a = "aprovado" => SafeTransition(a, s) \in {"aprovado", "reembolsado"}
           /\ a = "reembolsado" => SafeTransition(a, s) = "reembolsado"
BY DEF SafeTransition, PagamentoStatus

LEMMA MudadaConserva ==
    ASSUME TypeOK, Ligado, NEW p \in Pagamentos, NEW mem \in Tabela,
           NEW s \in PagamentoStatus,
           Mudada(p, s, mem),
           \A q \in Pagamentos : mem[q].ordem => pag[q].ordem \/ ord[q] # "none",
           Transacao(pag[p].cob, mem), TiposEfeitos
    PROVE  Conserva
<1>1. \A q \in Pagamentos : Usado(q) =>
          /\ mem[q].status # "nenhum"
          /\ mem[q].cob = pag[q].cob
          /\ mem[q].metodo = pag[q].metodo
  BY DEF Mudada, Trocado, Usado, PagamentoStatus
<1>2. \A q \in Pagamentos : mem[q].status # "nenhum" => Usado(q)
  BY DEF Mudada, Trocado, Usado
<1>3. pag[p].cob \in Cobrancas
  BY LinhaUsada DEF TypeOK, Tabela, Mudada, Usado, PagamentoRec
<1>4. \A c \in Cobrancas : cobr[c] # "nenhuma" => cobr'[c] # "nenhuma"
  BY <1>3 DEF Transacao, StatusCalculado, TypeOK
<1>5. \A q \in Pagamentos : Usado(q) => pag[q].cob \in Cobrancas /\ cobr[pag[q].cob] # "nenhuma"
  BY LinhaUsada DEF TypeOK, Tabela, Usado, PagamentoRec, Ligado
<1> QED BY <1>1, <1>2, <1>4, <1>5 DEF Conserva, Transacao, Equivalente

LEMMA NeutroConserva ==
    ASSUME TypeOK, Ligado, pag' \in Tabela, TiposEfeitos, Neutro
    PROVE  Conserva
<1>1. \A q \in Pagamentos : Usado(q) => cobr[pag[q].cob] # "nenhuma"
  BY DEF Ligado
<1> QED BY <1>1 DEF Conserva, Neutro, Equivalente, Usado

(* A step that leaves orders, requests and locks alone. *)
LEMMA ConservaTudo ==
    ASSUME TypeOK, Ligado, Conserva, UNCHANGED externo
    PROVE  TypeOK' /\ Ligado'
<1>1. TypeOK'
  BY DEF TypeOK, Conserva, TiposEfeitos, externo, Tabela
<1>2. \A q \in Pagamentos : DoProvedor(q) => DoProvedor(q)'
  BY DEF Conserva, DoProvedor, Usado
<1>3. Ligado'
  BY <1>2 DEF Ligado, Conserva, externo, Usado, DoProvedor, TypeOK
<1> QED BY <1>1, <1>3

-----------------------------------------------------------------------------
(* A provider answer that is applied: the payment moves, or only a flag does. *)

LEMMA ResultadoMudada ==
    ASSUME TypeOK, NEW p \in Pagamentos, Usado(p), NEW s \in PagamentoStatus,
           NEW rec \in {"nenhuma", "required", "conflict"}
    PROVE  /\ ComResultado(p, s, rec) \in Tabela
           /\ Mudada(p, SafeTransition(pag[p].status, s), ComResultado(p, s, rec))
           /\ SafeTransition(pag[p].status, s) \in PagamentoStatus
<1>1. pag \in Tabela /\ pag[p] \in PagamentoRec /\ pag[p].status \in PagamentoStatus
  BY LinhaUsada DEF TypeOK, Tabela, Usado, PagamentoRec
<1>2. SafeTransition(pag[p].status, s) \in PagamentoStatus
  BY <1>1, TransicaoTipos
<1> DEFINE n == [pag[p] EXCEPT !.status = SafeTransition(pag[p].status, s), !.ordem = TRUE,
                               !.rec = rec]
<1>3. n \in PagamentoRec
  BY <1>1, <1>2 DEF PagamentoRec
<1>4. ComResultado(p, s, rec) = [pag EXCEPT ![p] = n]
  BY DEF ComResultado
<1>5. /\ n.cob = pag[p].cob /\ n.valor = pag[p].valor /\ n.metodo = pag[p].metodo
      /\ n.status = SafeTransition(pag[p].status, s)
  BY <1>1, <1>2 DEF PagamentoRec
<1> HIDE DEF n
<1>6. ComResultado(p, s, rec) \in Tabela
  BY <1>1, <1>3, <1>4 DEF Tabela
<1> QED BY <1>1, <1>2, <1>4, <1>5, <1>6 DEF Mudada, Trocado, Tabela

(* Only the reconciliation flag of one payment changes. *)
LEMMA MarcaNeutra ==
    ASSUME TypeOK, Ligado, NEW p \in Pagamentos, Usado(p),
           NEW rec \in {"required", "conflict"},
           pag' = [pag EXCEPT ![p] = [@ EXCEPT !.rec = rec]],
           UNCHANGED <<cobr, efeitos>>
    PROVE  Neutro /\ Conserva
<1>1. pag \in Tabela /\ pag[p] \in PagamentoRec
  BY LinhaUsada DEF TypeOK, Tabela, Usado
<1>2. [pag[p] EXCEPT !.rec = rec] \in PagamentoRec
  BY <1>1 DEF PagamentoRec
<1>3. pag' \in Tabela
  BY <1>1, <1>2 DEF Tabela
<1>4. Neutro
  BY <1>1 DEF Neutro, Equivalente, Tabela, PagamentoRec, efeitos
<1>5. TiposEfeitos
  BY DEF TiposEfeitos, TypeOK, efeitos
<1> QED BY <1>3, <1>4, <1>5, NeutroConserva

LEMMA AvaliarMovido ==
    ASSUME TypeOK, Ligado, NEW p \in Pagamentos, Usado(p), DoProvedor(p),
           NEW s \in PagamentoStatus, NEW mem \in Tabela, Resposta(p, s),
           Mudada(p, SafeTransition(pag[p].status, s), mem),
           \A q \in Pagamentos : mem[q].ordem => pag[q].ordem \/ ord[q] # "none",
           AvaliarCobranca(pag[p].cob, mem, pag)
    PROVE  Conserva /\ Movido(p)
<1>1. pag \in Tabela /\ pag[p].cob \in Cobrancas /\ pag[p].status \in PagamentoStatus
  BY LinhaUsada DEF TypeOK, Tabela, Usado, PagamentoRec
<1>2. SafeTransition(pag[p].status, s) \in PagamentoStatus
  BY <1>1, TransicaoTipos
<1>3. \A q \in Pagamentos : pag[q].status = "aprovado" => mem[q].status # "nenhum"
  BY <1>2 DEF Mudada, Trocado, PagamentoStatus
<1>4. Transacao(pag[p].cob, mem) /\ TiposEfeitos
  BY <1>1, <1>3, AvaliarTipos
<1>5. Conserva
  BY <1>2, <1>4, MudadaConserva
<1>6. Movido(p)
  BY <1>4 DEF Movido
<1> QED BY <1>5, <1>6

LEMMA RecebidoTipos ==
    ASSUME NEW s
    PROVE  Recebido(s) \in PagamentoStatus
BY DEF Recebido, PagamentoStatus

LEMMA ResultadoOrdem ==
    ASSUME TypeOK, NEW p \in Pagamentos, NEW s, NEW rec, ord[p] # "none"
    PROVE  \A q \in Pagamentos :
               ComResultado(p, s, rec)[q].ordem => pag[q].ordem \/ ord[q] # "none"
BY DEF ComResultado, TypeOK

LEMMA AplicaForma ==
    ASSUME TypeOK, Ligado, NEW p \in Pagamentos, ord[p] # "none", NEW s,
           Resposta(p, Recebido(s)), ApplyReconciliation(p, s)
    PROVE  Conserva /\ (Neutro \/ Movido(p))
<1>1. DoProvedor(p) /\ Usado(p)
  BY DEF Ligado, DoProvedor
<1>2. CASE NaoSuportado(s)
  <2>1. pag' = [pag EXCEPT ![p] = [@ EXCEPT !.rec = "conflict"]]
        /\ UNCHANGED <<cobr, efeitos>>
    BY <1>2 DEF ApplyReconciliation
  <2> QED BY <1>1, <2>1, MarcaNeutra
<1>3. CASE ~NaoSuportado(s)
  <2>1. AvaliarCobranca(pag[p].cob, Reconciliado(p, s), pag)
    BY <1>3 DEF ApplyReconciliation
  <2>2. Recebido(s) \in PagamentoStatus
    BY RecebidoTipos
  <2>3. /\ Reconciliado(p, s) \in Tabela
        /\ Mudada(p, SafeTransition(pag[p].status, Recebido(s)), Reconciliado(p, s))
    BY <1>1, <2>2, ResultadoMudada DEF Reconciliado
  <2>4. \A q \in Pagamentos : Reconciliado(p, s)[q].ordem => pag[q].ordem \/ ord[q] # "none"
    BY ResultadoOrdem DEF Reconciliado
  <2> QED BY <1>1, <2>1, <2>2, <2>3, <2>4, AvaliarMovido
<1> QED BY <1>2, <1>3

-----------------------------------------------------------------------------
(* One lemma per group of actions: types and links are kept, and the step has
   one of the forms. *)

Passa == TypeOK' /\ Ligado' /\ Forma

(* Steps that touch no payment and no charge. *)
LEMMA SemEfeito ==
    ASSUME UNCHANGED <<pag, cobr, producao, lotes>>, UNCHANGED <<lic, beat>> \/ Catalogado
    PROVE  Neutro
BY DEF Neutro, Equivalente

LEMMA LicencasTipos ==
    ASSUME TypeOK, NEW cs
    PROVE  Expiradas(cs) \in [Cobrancas -> LicencaRec]
<1>1. \A c \in Cobrancas : lic[c] \in LicencaRec
  BY DEF TypeOK
<1>2. ASSUME NEW c \in Cobrancas
      PROVE  [lic[c] EXCEPT !.status = "cancelada", !.motivo = "expirada"] \in LicencaRec
  <2>1. lic[c] \in LicencaRec
    BY <1>1
  <2> QED BY <2>1 DEF LicencaRec
<1> QED BY <1>1, <1>2 DEF Expiradas

LEMMA LicencaMuda ==
    ASSUME TypeOK, Ligado, Catalogado, lic' \in [Cobrancas -> LicencaRec],
           beat' \in {"aprovado", "fora", "vendido"},
           UNCHANGED <<pag, cobr, producao, lotes, externo>>
    PROVE  Passa
<1>1. TypeOK'
  BY DEF TypeOK, externo
<1>2. Ligado'
  BY DEF Ligado, externo, DoProvedor, Usado
<1> QED BY <1>1, <1>2, SemEfeito DEF Passa, Forma

LEMMA CatalogoPassa ==
    ASSUME TypeOK, Ligado, Catalogo
    PROVE  Passa
<1>0. lic \in [Cobrancas -> LicencaRec] /\ beat \in {"aprovado", "fora", "vendido"}
      /\ Catalogado
  BY DEF TypeOK, Catalogado
<1>1. CASE ExpireReservations
  BY <1>0, <1>1, LicencasTipos, LicencaMuda DEF ExpireReservations
<1>2. CASE Relist
  BY <1>0, <1>2, LicencaMuda DEF Relist
<1>3. CASE RetirarBeat
  BY <1>0, <1>3, LicencaMuda DEF RetirarBeat
<1>4. CASE AprovarBeat
  BY <1>0, <1>4, LicencaMuda DEF AprovarBeat
<1>5. ASSUME NEW c \in Cobrancas, ReleaseReservation(c)
      PROVE  Passa
  <2>1. lic[c] \in LicencaRec
    BY <1>0
  <2>2. [lic[c] EXCEPT !.status = "cancelada", !.motivo = "admin"] \in LicencaRec
    BY <2>1 DEF LicencaRec
  <2> QED BY <1>0, <2>2, <1>5, LicencaMuda DEF ReleaseReservation
<1>6. ASSUME NEW c \in Cobrancas, VenceReserva(c)
      PROVE  Passa
  <2>1. lic[c] \in LicencaRec
    BY <1>0
  <2>2. [lic[c] EXCEPT !.vencida = TRUE] \in LicencaRec
    BY <2>1 DEF LicencaRec
  <2> QED BY <1>0, <2>2, <1>6, LicencaMuda DEF VenceReserva
<1> QED BY <1>1, <1>2, <1>3, <1>4, <1>5, <1>6 DEF Catalogo

LEMMA SolicitarPassa ==
    ASSUME TypeOK, Ligado, NEW c \in Cobrancas, SolicitarLicenca(c)
    PROVE  Passa
<1> DEFINE n == [status |-> "reservada", motivo |-> "nenhum", vencida |-> FALSE]
<1>1. n \in LicencaRec
  BY DEF LicencaRec
<1>2. Expiradas(Cobrancas) \in [Cobrancas -> LicencaRec]
  BY LicencasTipos
<1>3. lic' = [Expiradas(Cobrancas) EXCEPT ![c] = n]
  BY DEF SolicitarLicenca
<1> HIDE DEF n
<1>4. lic' \in [Cobrancas -> LicencaRec]
  BY <1>1, <1>2, <1>3
<1>5. TypeOK'
  BY <1>4 DEF SolicitarLicenca, TypeOK, externo, CobrancaStatus
<1>6. Ligado'
  BY DEF SolicitarLicenca, Ligado, externo, DoProvedor, Usado, TypeOK
<1>7. Emitido
  BY DEF SolicitarLicenca, Emitido
<1> QED BY <1>5, <1>6, <1>7 DEF Passa, Forma

LEMMA ValorOferecido ==
    ASSUME TypeOK, NEW c \in Cobrancas, NEW tipo \in PagamentoTipo,
           Pagavel(pag, c, tipo)
    PROVE  /\ ValorParaPagamento(pag, c, tipo) \in Nat \ {0}
           /\ ValorParaPagamento(pag, c, tipo) + ValorPago(pag, c) <= Total[c]
<1>1. ValorPago(pag, c) \in Nat /\ Total[c] \in Nat \ {0}
  BY ValorPagoNatural DEF TypeOK, Tabela
<1>2. ValorPago(pag, c) < Total[c]
  BY DEF Pagavel
<1>3. CASE tipo = "saldo"
  BY <1>1, <1>2, <1>3 DEF ValorParaPagamento
<1>4. CASE tipo # "saldo"
  <2>1. ValorPago(pag, c) = 0
    BY <1>4 DEF Pagavel
  <2>2. CASE tipo = "integral"
    BY <1>1, <2>1, <2>2 DEF ValorParaPagamento
  <2>3. CASE tipo = "entrada"
    <3>1. Entrada(Total[c]) > 0
      BY <2>3 DEF Pagavel, Divisivel
    <3>2. Total[c] \div 2 \in Nat /\ Total[c] \div 2 <= Total[c]
      BY <1>1
    <3> QED BY <1>1, <2>1, <2>3, <3>1, <3>2 DEF ValorParaPagamento, Entrada
  <2> QED BY <1>4, <2>2, <2>3 DEF PagamentoTipo
<1> QED BY <1>3, <1>4

LEMMA InseridoTipos ==
    ASSUME TypeOK, NEW p \in Pagamentos, NEW n \in PagamentoRec
    PROVE  /\ Trocado(p, [pag EXCEPT ![p] = n])
           /\ [pag EXCEPT ![p] = n][p] = n
BY DEF Trocado, Tabela, TypeOK

LEMMA AttemptPassa ==
    ASSUME TypeOK, Ligado, NEW c \in Cobrancas, NEW tipo \in PagamentoTipo,
           NEW metodo \in Metodos, GetOrCreateAttempt(c, tipo, metodo)
    PROVE  Passa
<1>0. PICK v \in Nat \ {0} :
        /\ v = ValorParaPagamento(pag, c, tipo)
        /\ v + ValorPago(pag, c) <= Total[c]
  BY ValorOferecido DEF GetOrCreateAttempt
<1>1. PICK p \in Pagamentos :
        /\ ~Usado(p)
        /\ pag' = Inserido(p, c, tipo, v, "pendente", metodo)
        /\ env' = [env EXCEPT ![p] = "aberta"]
  BY <1>0 DEF GetOrCreateAttempt, Proximo
<1>2. v \in Nat \ {0} /\ v + ValorPago(pag, c) <= Total[c]
  BY <1>0
<1>3. metodo \in {"pix", "cartao"} /\ metodo # "pix_direto"
  OBVIOUS
<1>4. /\ Trocado(p, pag')
      /\ pag'[p] = [cob |-> c, tipo |-> tipo, valor |-> v, status |-> "pendente",
                    metodo |-> metodo, ordem |-> FALSE, rec |-> "nenhuma", antiga |-> FALSE]
  <2> DEFINE n == [cob |-> c, tipo |-> tipo, valor |-> v, status |-> "pendente",
                   metodo |-> metodo, ordem |-> FALSE, rec |-> "nenhuma", antiga |-> FALSE]
  <2>1. n \in PagamentoRec
    BY <1>2, <1>3 DEF PagamentoRec, PagamentoStatus
  <2>2. pag' = [pag EXCEPT ![p] = n]
    BY <1>1 DEF Inserido
  <2> HIDE DEF n
  <2>3. Trocado(p, pag') /\ pag'[p] = n
    BY <2>1, <2>2, InseridoTipos
  <2> QED BY <2>3 DEF n
<1>5. /\ cobr' = cobr /\ ord' = ord /\ aviso' = aviso /\ req' = req /\ trava' = trava
      /\ UNCHANGED efeitos
      /\ cobr[c] # "nenhuma" /\ Pendentes(c) = {}
  BY DEF GetOrCreateAttempt
<1>6. TypeOK'
  BY <1>1, <1>4, <1>5 DEF TypeOK, Trocado, Tabela, efeitos, Envio
<1>7. ord[p] = "none" /\ ~aviso[p]
  BY <1>1 DEF Ligado, DoProvedor
<1>8. Ligado'
  <2>1. \A q \in Pagamentos \ {p} : pag'[q] = pag[q] /\ env'[q] = env[q]
    BY <1>1, <1>4 DEF Trocado, TypeOK
  <2>2. env'[p] = "aberta" /\ pag'[p].status = "pendente" /\ pag'[p].metodo # "pix_direto"
        /\ ~pag'[p].ordem /\ pag'[p].cob = c
    BY <1>1, <1>3, <1>4 DEF TypeOK
  <2>3. \A q \in Pagamentos : Usado(q) => q # p
    BY <1>1
  <2>4. \A q \in Pagamentos : DoProvedor(q) => DoProvedor(q)' /\ pag'[q] = pag[q]
    BY <2>1, <2>3 DEF DoProvedor, Usado
  <2>5. \A q \in Pagamentos : /\ (env'[q] # "nao" \/ ord'[q] # "none" => DoProvedor(q)')
                              /\ (aviso'[q] \/ pag'[q].ordem \/ env'[q] \in OrdemStatus
                                    => ord'[q] # "none")
                              /\ (Usado(q)' => cobr'[pag'[q].cob] # "nenhuma")
    BY <1>5, <1>7, <2>1, <2>2, <2>4 DEF Ligado, DoProvedor, Usado, OrdemStatus
  <2>6. \A r \in req' : Usado(r.p)' /\ (r.web \/ r.ver \in OrdemStatus => ord'[r.p] # "none")
    BY <1>5, <2>1, <2>3 DEF Ligado, Usado, TypeOK
  <2>7. \A d \in Cobrancas : trava'[d].passo # "livre" =>
          /\ trava'[d].dono \in Pagamentos
          /\ DoProvedor(trava[d].dono)'
          /\ pag'[trava'[d].dono].cob = d
          /\ trava'[d].passo # "criando" => ord'[trava'[d].dono] # "none"
    BY <1>5, <2>4 DEF Ligado
  <2> QED BY <1>5, <2>5, <2>6, <2>7 DEF Ligado
<1>9. Aberto
  <2>1. Inserida(p, c, v, "pendente", pag')
    BY <1>1, <1>2, <1>4, <1>5 DEF Inserida
  <2>2. pag'[p].metodo # "pix_direto"
    BY <1>3, <1>4
  <2> QED BY <1>2, <1>5, <2>1, <2>2 DEF Aberto
<1> QED BY <1>6, <1>8, <1>9 DEF Passa, Forma

LEMMA ClientePassa ==
    ASSUME TypeOK, Ligado, NEW c \in Cobrancas, Cliente(c)
    PROVE  Passa
<1>1. CASE RecusarCheckout(c)
  <2>1. Catalogado
    BY <1>1 DEF Catalogado
  <2> QED BY <1>1, <2>1, LicencasTipos, LicencaMuda DEF RecusarCheckout, TypeOK
<1>2. CASE SolicitarLicenca(c)
  BY <1>2, SolicitarPassa
<1> QED BY <1>1, <1>2, AttemptPassa DEF Cliente

-----------------------------------------------------------------------------
(* Steps that also touch orders, requests or locks: the new ones refer to
   payments that already exist. *)
ExternoLigado ==
    /\ env' \in [Pagamentos -> Envio \cup OrdemStatus]
    /\ ord' \in [Pagamentos -> OrdemStatus \cup {"none"}]
    /\ aviso' \in [Pagamentos -> BOOLEAN]
    /\ req' \subseteq [p: Pagamentos, ver: Leitura, web: BOOLEAN]
    /\ trava' \in [Cobrancas -> [dono: Pagamentos \cup {0}, passo: Passo]]
    /\ \A p \in Pagamentos :
        /\ env'[p] # "nao" \/ ord'[p] # "none" => DoProvedor(p)
        /\ ord[p] # "none" => ord'[p] # "none"
        /\ aviso'[p] \/ env'[p] \in OrdemStatus => ord'[p] # "none"
    /\ \A r \in req' : Usado(r.p) /\ (r.web \/ r.ver \in OrdemStatus => ord'[r.p] # "none")
    /\ \A c \in Cobrancas : trava'[c].passo # "livre" =>
        /\ trava'[c].dono \in Pagamentos
        /\ DoProvedor(trava'[c].dono)
        /\ pag[trava'[c].dono].cob = c
        /\ trava'[c].passo # "criando" => ord'[trava'[c].dono] # "none"

LEMMA ExternoConserva ==
    ASSUME TypeOK, Ligado, Conserva, ExternoLigado
    PROVE  TypeOK' /\ Ligado'
<1>1. TypeOK'
  BY DEF TypeOK, Conserva, TiposEfeitos, ExternoLigado, Tabela
<1>2. \A q \in Pagamentos : DoProvedor(q) =>
          /\ DoProvedor(q)'
          /\ pag'[q].cob = pag[q].cob
  BY DEF Conserva, DoProvedor, Usado
<1>3. \A q \in Pagamentos :
          /\ env'[q] # "nao" \/ ord'[q] # "none" => DoProvedor(q)'
          /\ aviso'[q] \/ pag'[q].ordem \/ env'[q] \in OrdemStatus => ord'[q] # "none"
          /\ Usado(q)' => cobr'[pag'[q].cob] # "nenhuma"
  BY <1>2 DEF Conserva, ExternoLigado, Ligado, Usado
<1>4. \A r \in req' : Usado(r.p)' /\ (r.web \/ r.ver \in OrdemStatus => ord'[r.p] # "none")
  BY DEF ExternoLigado, Conserva, Usado
<1>5. \A c \in Cobrancas : trava'[c].passo # "livre" =>
          /\ trava'[c].dono \in Pagamentos
          /\ DoProvedor(trava[c].dono)'
          /\ pag'[trava'[c].dono].cob = c
          /\ trava'[c].passo # "criando" => ord'[trava'[c].dono] # "none"
  BY <1>2 DEF ExternoLigado
<1> QED BY <1>1, <1>3, <1>4, <1>5 DEF Ligado

(* The parts of ExternoLigado that a step leaves alone. *)
LEMMA TabelasParadas ==
    ASSUME TypeOK, Ligado, UNCHANGED <<pag, cobr, efeitos>>
    PROVE  Conserva /\ Neutro
<1>1. UNCHANGED <<pag, cobr, producao, lotes, lic, beat>>
  BY DEF efeitos
<1>2. Neutro /\ pag' \in Tabela /\ TiposEfeitos
  BY <1>1, SemEfeito DEF TypeOK, TiposEfeitos, Tabela
<1> QED BY <1>2, NeutroConserva

LEMMA ParadasPassa ==
    ASSUME TypeOK, Ligado, UNCHANGED <<pag, cobr, efeitos>>, ExternoLigado
    PROVE  Passa
BY TabelasParadas, ExternoConserva DEF Passa, Forma

LEMMA ProvedorPassa ==
    ASSUME TypeOK, Ligado, NEW p \in Pagamentos, MercadoPago(p)
    PROVE  Passa
<1>1. PICK s \in OrdemStatus : ProvedorCria(p, s) \/ ProvedorMuda(p, s)
  BY DEF MercadoPago
<1>2. s # "none" /\ s \notin {"nao", "aberta", "voando", "atrasada", "fim"}
  BY DEF OrdemStatus
<1>3. ord[p] = "none" => env[p] # "nao" \/ OrdemSeguinte(pag[p].metodo, ord[p]) = {}
  BY DEF OrdemSeguinte
<1>4. DoProvedor(p)
  <2>1. CASE ProvedorCria(p, s)
    BY <2>1 DEF ProvedorCria, Ligado
  <2>2. CASE ProvedorMuda(p, s)
    BY <2>2, <1>3 DEF ProvedorMuda, Ligado
  <2> QED BY <1>1, <2>1, <2>2
<1>5. CASE ProvedorCria(p, s)
  <2>1. Notificado(s) \in BOOLEAN
    BY DEF Notificado
  <2> QED
    BY <1>2, <1>4, <1>5, <2>1, ParadasPassa
    DEF ProvedorCria, ExternoLigado, TypeOK, Ligado, Envio
<1>6. CASE ProvedorMuda(p, s)
  <2>1. (aviso[p] \/ Notificado(s)) \in BOOLEAN
    BY DEF Notificado
  <2> QED
    BY <1>2, <1>4, <1>6, <2>1, ParadasPassa
    DEF ProvedorMuda, ExternoLigado, TypeOK, Ligado
<1> QED BY <1>1, <1>5, <1>6

LEMMA ConciliacaoPassa ==
    ASSUME TypeOK, Ligado, NEW p \in Pagamentos, Conciliacao(p)
    PROVE  Passa
<1>1. CASE ReconcilePayment(p)
  <2> DEFINE r == [p |-> p, ver |-> IF pag[p].ordem THEN ord[p] ELSE "sem_ordem", web |-> FALSE]
  <2>1. r \in [p: Pagamentos, ver: Leitura, web: BOOLEAN] /\ r.p = p
        /\ (r.web \/ r.ver \in OrdemStatus => ord[p] # "none")
    BY DEF TypeOK, Ligado, Leitura, OrdemStatus
  <2>2. req' = req \cup {r} /\ Usado(p) /\ UNCHANGED <<pag, cobr, efeitos, env, ord, aviso, trava>>
    BY <1>1 DEF ReconcilePayment
  <2> HIDE DEF r
  <2> QED BY <2>1, <2>2, ParadasPassa DEF ExternoLigado, TypeOK, Ligado
<1>2. CASE ReconcileOrder(p)
  <2> DEFINE r == [p |-> p, ver |-> ord[p], web |-> TRUE]
  <2>1. aviso[p] /\ ord[p] # "none" /\ DoProvedor(p) /\ Usado(p)
    BY <1>2 DEF ReconcileOrder, Ligado, DoProvedor
  <2>2. r \in [p: Pagamentos, ver: Leitura, web: BOOLEAN] /\ r.p = p
    BY <2>1 DEF TypeOK, Leitura
  <2>3. /\ req' = req \cup {r}
        /\ aviso' = [aviso EXCEPT ![p] = FALSE]
        /\ UNCHANGED <<pag, cobr, efeitos, env, ord, trava>>
    BY <1>2 DEF ReconcileOrder
  <2> HIDE DEF r
  <2> QED BY <2>1, <2>2, <2>3, ParadasPassa DEF ExternoLigado, TypeOK, Ligado
<1> QED BY <1>1, <1>2 DEF Conciliacao

(* The requests, orders and locks after a request to the provider has ended. *)
LEMMA EncerraLigado ==
    ASSUME TypeOK, Ligado, NEW p \in Pagamentos, Usado(p), env[p] # "nao",
           Encerra(p), Solta(pag[p].cob), UNCHANGED <<ord, aviso, req>>
    PROVE  ExternoLigado
<1>1. Livre \in [dono: Pagamentos \cup {0}, passo: Passo] /\ Livre.passo = "livre"
  BY DEF Livre, Passo
<1> USE DEF Encerra, Solta, ExternoLigado
<1>2. /\ env' \in [Pagamentos -> Envio \cup OrdemStatus]
      /\ \A q \in Pagamentos : env'[q] # "nao" => env[q] # "nao"
      /\ \A q \in Pagamentos : env'[q] \in OrdemStatus => env[q] \in OrdemStatus
  BY DEF TypeOK, Envio, OrdemStatus
<1>3. /\ trava' \in [Cobrancas -> [dono: Pagamentos \cup {0}, passo: Passo]]
      /\ \A c \in Cobrancas : trava'[c].passo # "livre" => trava'[c] = trava[c]
  BY <1>1 DEF TypeOK
<1> QED BY <1>2, <1>3 DEF TypeOK, Ligado

LEMMA SoltaLigado ==
    ASSUME TypeOK, Ligado, NEW c, Solta(c), UNCHANGED <<env, ord, aviso>>,
           req' \subseteq [p: Pagamentos, ver: Leitura, web: BOOLEAN],
           \A r \in req' : Usado(r.p) /\ (r.web \/ r.ver \in OrdemStatus => ord[r.p] # "none")
    PROVE  ExternoLigado
<1>1. Livre \in [dono: Pagamentos \cup {0}, passo: Passo] /\ Livre.passo = "livre"
  BY DEF Livre, Passo
<1>2. /\ trava' \in [Cobrancas -> [dono: Pagamentos \cup {0}, passo: Passo]]
      /\ \A d \in Cobrancas : trava'[d].passo # "livre" => trava'[d] = trava[d]
  BY <1>1 DEF TypeOK, Solta
<1> QED BY <1>2 DEF TypeOK, Ligado, ExternoLigado

LEMMA EnviosPassa ==
    ASSUME TypeOK, Ligado, NEW p \in Pagamentos, Envios(p)
    PROVE  Passa
<1>0. /\ env[p] # "nao" => DoProvedor(p) /\ Usado(p)
      /\ Usado(p) => pag[p].cob \in Cobrancas /\ pag[p].rec \in {"nenhuma", "required", "conflict"}
                     /\ pag[p] \in PagamentoRec
      /\ pag \in Tabela
  BY LinhaUsada DEF Ligado, DoProvedor, Usado, TypeOK, Tabela, PagamentoRec
<1>1. CASE EnviarInicia(p)
  <2> DEFINE t == [dono |-> p, passo |-> "criando"]
  <2>1. t \in [dono: Pagamentos \cup {0}, passo: Passo] /\ t.dono = p /\ t.passo = "criando"
    BY DEF Passo
  <2>2. /\ env[p] = "aberta"
        /\ env' = [env EXCEPT ![p] = "voando"]
        /\ trava' = [trava EXCEPT ![pag[p].cob] = t]
        /\ UNCHANGED <<pag, cobr, ord, aviso, req, efeitos>>
    BY <1>1 DEF EnviarInicia
  <2> HIDE DEF t
  <2>3. DoProvedor(p) /\ pag[p].cob \in Cobrancas
    BY <1>0, <2>2
  <2>4. ExternoLigado
    BY <2>1, <2>2, <2>3 DEF ExternoLigado, TypeOK, Ligado, Envio, OrdemStatus
  <2> QED BY <2>2, <2>4, ParadasPassa
<1>2. CASE EnviarResposta(p)
  <2> DEFINE mem == ComResultado(p, Recebido(env[p]), pag[p].rec)
  <2>1. /\ env[p] \in OrdemStatus
        /\ Encerra(p)
        /\ Solta(pag[p].cob)
        /\ UNCHANGED <<ord, aviso, req>>
        /\ \/ UNCHANGED <<pag, cobr, efeitos>>
           \/ AvaliarCobranca(pag[p].cob, mem, pag)
    BY <1>2 DEF EnviarResposta
  <2>2. env[p] # "nao" /\ ord[p] # "none"
    BY <2>1 DEF Ligado, OrdemStatus
  <2>3. ExternoLigado
    BY <1>0, <2>1, <2>2, EncerraLigado
  <2>4. CASE UNCHANGED <<pag, cobr, efeitos>>
    BY <2>3, <2>4, ParadasPassa
  <2>5. CASE AvaliarCobranca(pag[p].cob, mem, pag)
    <3>1. Recebido(env[p]) \in PagamentoStatus
      BY RecebidoTipos
    <3>2. mem \in Tabela /\ Mudada(p, SafeTransition(pag[p].status, Recebido(env[p])), mem)
      BY <1>0, <2>2, <3>1, ResultadoMudada
    <3>3. \A q \in Pagamentos : mem[q].ordem => pag[q].ordem \/ ord[q] # "none"
      BY <2>2, ResultadoOrdem
    <3>4. Resposta(p, Recebido(env[p]))
      BY <2>1 DEF Resposta
    <3> HIDE DEF mem
    <3>5. Conserva /\ Movido(p)
      BY <1>0, <2>2, <2>5, <3>1, <3>2, <3>3, <3>4, AvaliarMovido
    <3> QED BY <2>3, <3>5, ExternoConserva DEF Passa, Forma
  <2> QED BY <2>1, <2>4, <2>5
<1>3. CASE EnviarRejeitada(p)
  <2> DEFINE st == SafeTransition(pag[p].status, "recusado")
             mem == [pag EXCEPT ![p].status = st]
  <2>1. /\ env[p] = "voando"
        /\ Encerra(p)
        /\ Solta(pag[p].cob)
        /\ UNCHANGED <<ord, aviso, req>>
        /\ AvaliarCobranca(pag[p].cob, mem, pag)
    BY <1>3 DEF EnviarRejeitada
  <2>2. ExternoLigado
    BY <1>0, <2>1, EncerraLigado
  <2>3. "recusado" \in PagamentoStatus /\ pag[p].status \in PagamentoStatus
    BY <1>0, <2>1 DEF PagamentoStatus, PagamentoRec
  <2>4. st \in PagamentoStatus
    BY <2>3, TransicaoTipos
  <2> HIDE DEF st
  <2>5. [pag[p] EXCEPT !.status = st] \in PagamentoRec
    BY <1>0, <2>1, <2>4 DEF PagamentoRec
  <2>6. mem = [pag EXCEPT ![p] = [pag[p] EXCEPT !.status = st]]
    OBVIOUS
  <2>7. mem \in Tabela
    BY <1>0, <2>5, <2>6 DEF Tabela
  <2>8. Mudada(p, st, mem)
    BY <1>0, <2>1, <2>7 DEF Mudada, Trocado, Tabela, PagamentoRec
  <2>9. \A q \in Pagamentos : mem[q].ordem => pag[q].ordem \/ ord[q] # "none"
    BY <1>0, <2>1 DEF Tabela, PagamentoRec
  <2>10. Resposta(p, "recusado")
    BY <2>1 DEF Resposta, Encerra, TypeOK
  <2> HIDE DEF mem
  <2>11. Conserva /\ Movido(p)
    BY <1>0, <2>1, <2>3, <2>7, <2>8, <2>9, <2>10, AvaliarMovido DEF st
  <2> QED BY <2>2, <2>11, ExternoConserva DEF Passa, Forma
<1>4. CASE EnviarFalha(p)
  <2>1. /\ env[p] # "nao"
        /\ env' = [env EXCEPT ![p] = IF @ = "voando" THEN "atrasada" ELSE "fim"]
        /\ trava' = trava \/ Solta(pag[p].cob)
        /\ UNCHANGED <<pag, cobr, ord, aviso, req, efeitos>>
    BY <1>4 DEF EnviarFalha, OrdemStatus
  <2>2. /\ env' \in [Pagamentos -> Envio \cup OrdemStatus]
        /\ \A q \in Pagamentos : env'[q] # "nao" => env[q] # "nao"
        /\ \A q \in Pagamentos : env'[q] \in OrdemStatus => env[q] \in OrdemStatus
    BY <2>1 DEF TypeOK, Envio, OrdemStatus
  <2>3. Livre \in [dono: Pagamentos \cup {0}, passo: Passo] /\ Livre.passo = "livre"
    BY DEF Livre, Passo
  <2>4. /\ trava' \in [Cobrancas -> [dono: Pagamentos \cup {0}, passo: Passo]]
        /\ \A c \in Cobrancas : trava'[c].passo # "livre" => trava'[c] = trava[c]
    BY <2>1, <2>3 DEF TypeOK, Solta
  <2>5. ExternoLigado
    BY <2>1, <2>2, <2>4 DEF ExternoLigado, TypeOK, Ligado
  <2> QED BY <2>1, <2>5, ParadasPassa
<1> QED BY <1>1, <1>2, <1>3, <1>4 DEF Envios

LEMMA RequisicaoPassa ==
    ASSUME TypeOK, Ligado, NEW r \in req, Requisicao(r)
    PROVE  Passa
<1>0. /\ r \in [p: Pagamentos, ver: Leitura, web: BOOLEAN]
      /\ r.p \in Pagamentos /\ r.web \in BOOLEAN
      /\ Usado(r.p)
      /\ r.web \/ r.ver \in OrdemStatus => ord[r.p] # "none"
  BY DEF TypeOK, Ligado
<1>1. CASE ReqAplica(r)
  <2>1. /\ r.ver \in OrdemStatus
        /\ UNCHANGED <<env, ord, trava>>
        /\ \E perdida \in BOOLEAN : aviso' = [aviso EXCEPT ![r.p] = @ \/ (r.web /\ perdida)]
        /\ \/ /\ req' = (req \ {r}) \cup {[r EXCEPT !.ver = "excedente"]}
              /\ UNCHANGED <<pag, cobr, efeitos>>
           \/ ApplyReconciliation(r.p, r.ver) /\ req' = req \ {r}
    BY <1>1 DEF ReqAplica
  <2>2. /\ aviso' \in [Pagamentos -> BOOLEAN]
        /\ \A q \in Pagamentos : aviso'[q] => ord[q] # "none"
    BY <1>0, <2>1 DEF TypeOK, Ligado
  <2>3. CASE req' = req \ {r}
    <3>1. ExternoLigado
      BY <2>1, <2>2, <2>3 DEF ExternoLigado, TypeOK, Ligado
    <3>2. UNCHANGED <<pag, cobr, efeitos>> \/ ApplyReconciliation(r.p, r.ver)
      BY <2>1
    <3>3. Resposta(r.p, Recebido(r.ver))
      BY <2>1 DEF Resposta
    <3>4. Conserva /\ (Neutro \/ Movido(r.p))
      BY <1>0, <2>1, <3>2, <3>3, AplicaForma, TabelasParadas
    <3> QED BY <1>0, <3>1, <3>4, ExternoConserva DEF Passa, Forma
  <2>4. CASE /\ req' = (req \ {r}) \cup {[r EXCEPT !.ver = "excedente"]}
             /\ UNCHANGED <<pag, cobr, efeitos>>
    <3> DEFINE n == [r EXCEPT !.ver = "excedente"]
    <3>1. n \in [p: Pagamentos, ver: Leitura, web: BOOLEAN]
          /\ n.p = r.p /\ n.ver = "excedente" /\ n.web = r.web
      BY <1>0 DEF Leitura
    <3>2. req' = (req \ {r}) \cup {n}
      BY <2>4
    <3> HIDE DEF n
    <3>3. /\ req' \subseteq [p: Pagamentos, ver: Leitura, web: BOOLEAN]
          /\ \A x \in req' : Usado(x.p) /\ (x.web \/ x.ver \in OrdemStatus => ord[x.p] # "none")
      <4>1. Usado(n.p) /\ ord[n.p] # "none"
        BY <1>0, <2>1, <3>1
      <4> QED BY <3>1, <3>2, <4>1 DEF TypeOK, Ligado
    <3>4. ExternoLigado
      BY <2>1, <2>2, <3>3 DEF ExternoLigado, TypeOK, Ligado
    <3> QED BY <2>4, <3>4, ParadasPassa
  <2> QED BY <2>1, <2>3, <2>4
<1>2. CASE ReqMarca(r)
  <2> DEFINE rec == IF r.ver = "sem_ordem" THEN "required" ELSE "conflict"
  <2>1. /\ pag' = [pag EXCEPT ![r.p] = [@ EXCEPT !.rec = rec]]
        /\ req' = req \ {r}
        /\ UNCHANGED <<cobr, efeitos>> /\ UNCHANGED <<env, ord, aviso, trava>>
    BY <1>2 DEF ReqMarca
  <2>2. rec \in {"required", "conflict"}
    OBVIOUS
  <2> HIDE DEF rec
  <2>3. Neutro /\ Conserva
    BY <1>0, <2>1, <2>2, MarcaNeutra
  <2>4. ExternoLigado
    BY <2>1 DEF ExternoLigado, TypeOK, Ligado
  <2> QED BY <2>3, <2>4, ExternoConserva DEF Passa, Forma
<1>3. CASE ReqFalha(r)
  <2>1. /\ req' = req \ {r}
        /\ aviso' = [aviso EXCEPT ![r.p] = @ \/ r.web]
        /\ UNCHANGED <<pag, cobr, env, ord, trava, efeitos>>
    BY <1>3 DEF ReqFalha
  <2>2. ExternoLigado
    BY <1>0, <2>1 DEF ExternoLigado, TypeOK, Ligado
  <2> QED BY <2>1, <2>2, ParadasPassa
<1> QED BY <1>1, <1>2, <1>3 DEF Requisicao

(* One query under the locks of a cancellation. *)
LEMMA ReconciliaPassa ==
    ASSUME TypeOK, Ligado, NEW p \in Pagamentos, ord[p] # "none", NEW c, NEW depois,
           depois => Passa,
           Reconcilia(c, p, ord[p], depois),
           UNCHANGED <<env, ord, aviso>>
    PROVE  Passa
<1>1. CASE ord[p] = "action_required"
  BY <1>1 DEF Reconcilia
<1>2. CASE ord[p] # "action_required"
  <2>1. /\ Solta(c)
        /\ \/ /\ req' = req \cup {[p |-> p, ver |-> "excedente", web |-> FALSE]}
              /\ UNCHANGED <<pag, cobr, efeitos>>
           \/ ApplyReconciliation(p, ord[p]) /\ UNCHANGED req
    BY <1>2 DEF Reconcilia
  <2>2. CASE ApplyReconciliation(p, ord[p]) /\ UNCHANGED req
    <3>1. ExternoLigado
      BY <2>1, <2>2, SoltaLigado DEF TypeOK, Ligado
    <3>2. Resposta(p, Recebido(ord[p]))
      BY DEF Resposta
    <3>3. Conserva /\ (Neutro \/ Movido(p))
      BY <2>2, <3>2, AplicaForma
    <3> QED BY <3>1, <3>3, ExternoConserva DEF Passa, Forma
  <2>3. CASE /\ req' = req \cup {[p |-> p, ver |-> "excedente", web |-> FALSE]}
             /\ UNCHANGED <<pag, cobr, efeitos>>
    <3> DEFINE n == [p |-> p, ver |-> "excedente", web |-> FALSE]
    <3>1. n \in [p: Pagamentos, ver: Leitura, web: BOOLEAN]
          /\ n.p = p /\ ~n.web /\ n.ver \notin OrdemStatus
      BY DEF Leitura, OrdemStatus
    <3>2. req' = req \cup {n}
      BY <2>3
    <3>3. Usado(p)
      BY DEF Ligado, DoProvedor
    <3> HIDE DEF n
    <3>4. /\ req' \subseteq [p: Pagamentos, ver: Leitura, web: BOOLEAN]
          /\ \A x \in req' : Usado(x.p) /\ (x.web \/ x.ver \in OrdemStatus => ord[x.p] # "none")
      BY <3>1, <3>2, <3>3 DEF TypeOK, Ligado
    <3>5. ExternoLigado
      BY <2>1, <3>4, SoltaLigado
    <3> QED BY <2>3, <3>5, ParadasPassa
  <2> QED BY <2>1, <2>2, <2>3
<1> QED BY <1>1, <1>2

LEMMA TravaLigada ==
    ASSUME TypeOK, Ligado, NEW p \in Pagamentos, NEW c \in Cobrancas, pag[p].cob = c,
           DoProvedor(p), ord[p] # "none",
           NEW passo \in {"cancelar", "reler", "confirmar"},
           trava' = [trava EXCEPT ![c] = [dono |-> p, passo |-> passo]],
           ord' \in [Pagamentos -> OrdemStatus \cup {"none"}],
           aviso' \in [Pagamentos -> BOOLEAN],
           \A q \in Pagamentos : /\ ord'[q] # "none" <=> ord[q] # "none"
                                 /\ aviso'[q] => aviso[q] \/ q = p,
           UNCHANGED <<env, req>>
    PROVE  ExternoLigado
<1> DEFINE t == [dono |-> p, passo |-> passo]
<1>1. t \in [dono: Pagamentos \cup {0}, passo: Passo] /\ t.dono = p
  BY DEF Passo
<1>2. trava' = [trava EXCEPT ![c] = t]
  OBVIOUS
<1> HIDE DEF t
<1>3. /\ trava' \in [Cobrancas -> [dono: Pagamentos \cup {0}, passo: Passo]]
      /\ trava'[c].dono = p
      /\ \A d \in Cobrancas \ {c} : trava'[d] = trava[d]
  BY <1>1, <1>2 DEF TypeOK
<1> QED BY <1>3 DEF ExternoLigado, TypeOK, Ligado

LEMMA CancelarPassa ==
    ASSUME TypeOK, Ligado, NEW p \in Pagamentos, CancelarPixPendente(p)
    PROVE  Passa
<1> DEFINE c == pag[p].cob
           segue == /\ trava' = [trava EXCEPT ![c] = [dono |-> p, passo |-> "cancelar"]]
                    /\ UNCHANGED <<pag, cobr, req, efeitos>>
<1>1. /\ Usado(p) /\ pag[p].metodo = "pix" /\ pag[p].ordem
      /\ Reconcilia(c, p, ord[p], segue)
      /\ UNCHANGED <<env, ord, aviso>>
  BY DEF CancelarPixPendente
<1>2. DoProvedor(p) /\ ord[p] # "none" /\ c \in Cobrancas
  BY <1>1, LinhaUsada DEF Ligado, DoProvedor, Usado, TypeOK, Tabela, PagamentoRec
<1>3. segue => Passa
  <2> SUFFICES ASSUME segue PROVE Passa
    OBVIOUS
  <2>1. ExternoLigado
    BY <1>1, <1>2, TravaLigada DEF TypeOK
  <2> QED BY <2>1, ParadasPassa
<1> HIDE DEF segue, c
<1> QED BY <1>1, <1>2, <1>3, ReconciliaPassa

LEMMA CancelamentoPassa ==
    ASSUME TypeOK, Ligado, NEW c \in Cobrancas, Cancelamento(c)
    PROVE  Passa
<1> DEFINE p == trava[c].dono
<1>0. trava[c].passo \in {"cancelar", "reler", "confirmar"} =>
        p \in Pagamentos /\ DoProvedor(p) /\ Usado(p) /\ pag[p].cob = c /\ ord[p] # "none"
  BY DEF Ligado, DoProvedor
<1>1. CASE CancelOrder(c)
  <2>1. /\ trava[c].passo = "cancelar"
        /\ UNCHANGED <<pag, cobr, env, req, efeitos>>
        /\ \/ /\ ord[p] = "action_required"
              /\ \E feito \in BOOLEAN :
                    /\ ord' = [ord EXCEPT ![p] = IF feito THEN "canceled" ELSE @]
                    /\ aviso' = [aviso EXCEPT ![p] = @ \/ feito]
              /\ trava' = [trava EXCEPT ![c] = [@ EXCEPT !.passo = "confirmar"]]
           \/ /\ trava' = [trava EXCEPT ![c] = [@ EXCEPT !.passo = "reler"]]
              /\ UNCHANGED <<ord, aviso>>
    BY <1>1 DEF CancelOrder
  <2>2. p \in Pagamentos /\ DoProvedor(p) /\ pag[p].cob = c /\ ord[p] # "none"
    BY <1>0, <2>1
  <2>3. /\ [trava[c] EXCEPT !.passo = "confirmar"] = [dono |-> p, passo |-> "confirmar"]
        /\ [trava[c] EXCEPT !.passo = "reler"] = [dono |-> p, passo |-> "reler"]
    <3>1. trava[c] \in [dono: Pagamentos \cup {0}, passo: Passo]
      BY DEF TypeOK
    <3> QED BY <3>1
  <2>4. PICK passo \in {"reler", "confirmar"} :
          trava' = [trava EXCEPT ![c] = [dono |-> p, passo |-> passo]]
    BY <2>1, <2>3
  <2>5. /\ ord' \in [Pagamentos -> OrdemStatus \cup {"none"}]
        /\ aviso' \in [Pagamentos -> BOOLEAN]
        /\ \A q \in Pagamentos : /\ ord'[q] # "none" <=> ord[q] # "none"
                                 /\ aviso'[q] => aviso[q] \/ q = p
    <3> HIDE DEF p
    <3>0. ord \in [Pagamentos -> OrdemStatus \cup {"none"}] /\ aviso \in [Pagamentos -> BOOLEAN]
          /\ "canceled" \in OrdemStatus /\ "canceled" # "none"
      BY DEF TypeOK, OrdemStatus
    <3>1. CASE UNCHANGED <<ord, aviso>>
      BY <3>0, <3>1
    <3>2. ASSUME NEW feito \in BOOLEAN,
                 ord' = [ord EXCEPT ![p] = IF feito THEN "canceled" ELSE @],
                 aviso' = [aviso EXCEPT ![p] = @ \/ feito]
          PROVE  /\ ord' \in [Pagamentos -> OrdemStatus \cup {"none"}]
                 /\ aviso' \in [Pagamentos -> BOOLEAN]
                 /\ \A q \in Pagamentos : /\ ord'[q] # "none" <=> ord[q] # "none"
                                          /\ aviso'[q] => aviso[q] \/ q = p
      <4>1. ord' = ord \/ ord' = [ord EXCEPT ![p] = "canceled"]
        BY <3>0, <3>2
      <4>2. aviso' = aviso \/ aviso' = [aviso EXCEPT ![p] = TRUE]
        BY <3>0, <3>2
      <4>3. /\ ord' \in [Pagamentos -> OrdemStatus \cup {"none"}]
            /\ \A q \in Pagamentos : ord'[q] # "none" <=> ord[q] # "none"
        BY <2>2, <3>0, <4>1
      <4>4. /\ aviso' \in [Pagamentos -> BOOLEAN]
            /\ \A q \in Pagamentos : aviso'[q] => aviso[q] \/ q = p
        BY <3>0, <4>2
      <4> QED BY <4>3, <4>4
    <3> QED BY <2>1, <3>1, <3>2
  <2> HIDE DEF p
  <2>6. ExternoLigado
    BY <2>1, <2>2, <2>4, <2>5, TravaLigada
  <2> QED BY <2>1, <2>6, ParadasPassa
<1>2. CASE ConfirmarCancelamento(c)
  <2> DEFINE segue == /\ Solta(c)
                      /\ pag' = SemConfirmacao(p, trava[c].passo)
                      /\ UNCHANGED <<cobr, req, efeitos>>
  <2>1. /\ trava[c].passo \in {"reler", "confirmar"}
        /\ Reconcilia(c, p, ord[p], segue)
        /\ UNCHANGED <<env, ord, aviso>>
    BY <1>2 DEF ConfirmarCancelamento
  <2>2. p \in Pagamentos /\ Usado(p) /\ ord[p] # "none"
    BY <1>0, <2>1
  <2>3. segue => Passa
    <3> SUFFICES ASSUME segue PROVE Passa
      OBVIOUS
    <3> HIDE DEF p
    <3>1. ExternoLigado
      BY <2>1, SoltaLigado DEF TypeOK, Ligado
    <3>2. pag' = pag \/ pag' = [pag EXCEPT ![p] = [@ EXCEPT !.rec = "required"]]
      BY DEF SemConfirmacao
    <3>3. CASE pag' = pag
      BY <3>1, <3>3, ParadasPassa
    <3>4. CASE pag' = [pag EXCEPT ![p] = [@ EXCEPT !.rec = "required"]]
      <4>1. Neutro /\ Conserva
        BY <2>2, <3>4, MarcaNeutra
      <4> QED BY <3>1, <4>1, ExternoConserva DEF Passa, Forma
    <3> QED BY <3>2, <3>3, <3>4
  <2> HIDE DEF segue, p
  <2> QED BY <2>1, <2>2, <2>3, ReconciliaPassa
<1>3. CASE CancelarFalha(c)
  <2>1. ExternoLigado
    BY <1>3, SoltaLigado DEF CancelarFalha, TypeOK, Ligado
  <2> QED BY <1>3, <2>1, ParadasPassa DEF CancelarFalha
<1> QED BY <1>1, <1>2, <1>3 DEF Cancelamento

LEMMA AdminPassa ==
    ASSUME TypeOK, Ligado, NEW c \in Cobrancas, Admin(c)
    PROVE  Passa
<1>0. pag \in Tabela /\ Total[c] \in Nat \ {0} /\ ValorPago(pag, c) \in Nat
  BY ValorPagoNatural DEF TypeOK, Tabela
<1>1. PICK modo \in Modos, valor \in Parciais \cup {0} :
        /\ modo = "quitar" <=> valor = 0
        /\ RegistrarPixManual(c, modo, valor)
  BY DEF Admin
<1>2. PICK v : v = ValorManual(c, modo, valor)
  OBVIOUS
<1>3. v \in Nat \ {0} /\ v + ValorPago(pag, c) <= Total[c]
  <2>1. CASE modo = "quitar"
    BY <1>0, <1>1, <1>2, <2>1 DEF ValorManual, RegistrarPixManual
  <2>2. CASE modo # "quitar"
    <3>1. modo = "parcial" /\ valor \in Nat \ {0} /\ v = valor
      BY <1>1, <1>2, <2>2 DEF ValorManual
    <3> QED BY <1>0, <1>1, <1>2, <3>1 DEF RegistrarPixManual
  <2> QED BY <2>1, <2>2
<1>4. PICK p \in Pagamentos :
        LET mem == Inserido(p, c, TipoManual(c, v), v, "aprovado", "pix_direto")
        IN  Proximo(p) /\ AvaliarCobranca(c, mem, mem)
  BY <1>1, <1>2 DEF RegistrarPixManual
<1>5. cobr[c] # "nenhuma" /\ Pendentes(c) = {} /\ UNCHANGED externo /\ ~Usado(p)
  BY <1>1, <1>4 DEF RegistrarPixManual, Proximo
<1> DEFINE n == [cob |-> c, tipo |-> TipoManual(c, v), valor |-> v, status |-> "aprovado",
                 metodo |-> "pix_direto", ordem |-> FALSE, rec |-> "nenhuma", antiga |-> FALSE]
           mem == [pag EXCEPT ![p] = n]
<1>6. n \in PagamentoRec
  <2>1. TipoManual(c, v) \in PagamentoTipo
    BY DEF TipoManual, PagamentoTipo
  <2> QED BY <1>3, <2>1 DEF PagamentoRec, PagamentoStatus
<1>7. AvaliarCobranca(c, mem, mem)
  BY <1>4 DEF Inserido
<1>8. /\ n.cob = c /\ n.valor = v /\ n.status = "aprovado" /\ n.metodo = "pix_direto"
      /\ n.ordem = FALSE
  OBVIOUS
<1> HIDE DEF n
<1>9. Trocado(p, mem) /\ mem[p] = n
  BY <1>6, InseridoTipos
<1>10. mem \in Tabela
  BY <1>9 DEF Trocado
<1> HIDE DEF mem
<1>11. Transacao(c, mem) /\ TiposEfeitos
  BY <1>7, <1>10, AvaliarTipos
<1>12. Inserida(p, c, v, "aprovado", mem)
  BY <1>3, <1>5, <1>8, <1>9 DEF Inserida
<1>13. Lancado
  BY <1>3, <1>8, <1>9, <1>10, <1>11, <1>12 DEF Lancado
<1>14. Conserva
  <2>1. \A d \in Cobrancas : cobr[d] # "nenhuma" => cobr'[d] # "nenhuma"
    BY <1>11 DEF Transacao, StatusCalculado, TypeOK
  <2>2. cobr'[c] # "nenhuma"
    BY <1>5, <2>1
  <2>3. \A q \in Pagamentos : Usado(q) => mem[q] = pag[q]
    BY <1>5, <1>9 DEF Trocado
  <2>4. \A q \in Pagamentos : mem[q].status # "nenhum" /\ q # p => Usado(q)
    BY <1>9 DEF Trocado, Usado
  <2>5. \A q \in Pagamentos : Usado(q) => pag[q].cob \in Cobrancas /\ cobr[pag[q].cob] # "nenhuma"
    BY LinhaUsada DEF TypeOK, Tabela, Usado, PagamentoRec, Ligado
  <2>6. \A q \in Pagamentos : mem[q].status # "nenhum" => cobr'[mem[q].cob] # "nenhuma"
    BY <1>8, <1>9, <2>1, <2>2, <2>3, <2>4, <2>5
  <2>7. \A q \in Pagamentos : mem[q].ordem => pag[q].ordem
    BY <1>8, <1>9 DEF Trocado
  <2> QED BY <1>11, <2>3, <2>6, <2>7 DEF Conserva, Transacao, Equivalente, Usado
<1> QED BY <1>5, <1>13, <1>14, ConservaTudo DEF Passa, Forma

LEMMA AnularPassa ==
    ASSUME TypeOK, Ligado, NEW p \in Pagamentos, AnularPixManual(p)
    PROVE  Passa
<1> DEFINE n == [pag[p] EXCEPT !.status = "cancelado", !.rec = "nenhuma"]
           mem == [pag EXCEPT ![p] = n]
<1>1. /\ Usado(p) /\ pag[p].metodo = "pix_direto" /\ pag[p].status = "aprovado"
      /\ ~lotes[pag[p].cob]
      /\ UNCHANGED externo
      /\ AvaliarCobranca(pag[p].cob, mem, mem)
  BY DEF AnularPixManual, Anulavel
<1>2. pag \in Tabela /\ pag[p] \in PagamentoRec /\ pag[p].cob \in Cobrancas
  BY <1>1, LinhaUsada DEF TypeOK, Tabela, Usado, PagamentoRec
<1>3. /\ n \in PagamentoRec /\ n.cob = pag[p].cob /\ n.valor = pag[p].valor
      /\ n.metodo = pag[p].metodo /\ n.status = "cancelado" /\ n.ordem = pag[p].ordem
  BY <1>2 DEF PagamentoRec, PagamentoStatus
<1> HIDE DEF n
<1>4. Trocado(p, mem) /\ mem[p] = n
  BY <1>3, InseridoTipos
<1>5. mem \in Tabela
  BY <1>4 DEF Trocado
<1> HIDE DEF mem
<1>6. Transacao(pag[p].cob, mem) /\ TiposEfeitos
  BY <1>1, <1>2, <1>5, AvaliarTipos
<1>7. Mudada(p, "cancelado", mem)
  BY <1>1, <1>3, <1>4 DEF Mudada
<1>8. \A q \in Pagamentos : mem[q].ordem => pag[q].ordem \/ ord[q] # "none"
  BY <1>3, <1>4 DEF Trocado
<1>9. "cancelado" \in PagamentoStatus
  BY DEF PagamentoStatus
<1>10. Conserva
  BY <1>5, <1>6, <1>7, <1>8, <1>9, MudadaConserva
<1>11. Anulado(p)
  BY <1>1, <1>3, <1>4, <1>5, <1>6, <1>7 DEF Anulado
<1> QED BY <1>1, <1>10, <1>11, ConservaTudo DEF Passa, Forma

LEMMA EnvelhecePassa ==
    ASSUME TypeOK, Ligado, NEW p \in Pagamentos, EnvelheceTentativa(p)
    PROVE  Passa
<1> DEFINE n == [pag[p] EXCEPT !.antiga = TRUE]
<1>1. pag' = [pag EXCEPT ![p] = n] /\ UNCHANGED <<cobr, efeitos, externo>>
      /\ pag[p].status # "nenhum"
  BY DEF EnvelheceTentativa
<1>2. pag \in Tabela /\ pag[p] \in PagamentoRec
  BY <1>1, LinhaUsada DEF TypeOK, Tabela
<1>3. /\ n \in PagamentoRec /\ n.cob = pag[p].cob /\ n.valor = pag[p].valor
      /\ n.metodo = pag[p].metodo /\ n.status = pag[p].status /\ n.ordem = pag[p].ordem
      /\ n.rec = pag[p].rec
  BY <1>2 DEF PagamentoRec
<1> HIDE DEF n
<1>4. pag' \in Tabela /\ Neutro
  BY <1>1, <1>2, <1>3 DEF Tabela, Neutro, Equivalente, efeitos
<1>5. Conserva
  BY <1>1, <1>4, NeutroConserva DEF TiposEfeitos, TypeOK, efeitos
<1> QED BY <1>1, <1>4, <1>5, ConservaTudo DEF Passa, Forma

-----------------------------------------------------------------------------
(* The invariant and the form of every step. *)

IInv == TypeOK /\ Ligado

LEMMA InicioLigado == Init => IInv
<1> SUFFICES ASSUME Init PROVE IInv
  OBVIOUS
<1>1. Livre \in [dono: Pagamentos \cup {0}, passo: Passo] /\ Livre.passo = "livre"
  BY DEF Livre, Passo
<1>2. SemLicenca \in LicencaRec
  BY DEF SemLicenca, LicencaRec
<1>3. Vazio.status = "nenhum" /\ ~Vazio.ordem
  BY DEF Vazio
<1>4. TypeOK
  <2>1. cobr \in [Cobrancas -> CobrancaStatus \cup {"nenhuma"}]
    BY DEF Init, CobrancaStatus
  <2> QED BY <1>1, <1>2, <2>1 DEF Init, TypeOK, Envio
<1>5. Ligado
  BY <1>1, <1>3 DEF Init, Ligado, Usado, OrdemStatus
<1> QED BY <1>4, <1>5 DEF IInv

LEMMA PassoLigado == IInv /\ [Next]_vars => IInv' /\ Forma
<1> SUFFICES ASSUME TypeOK, Ligado, [Next]_vars PROVE Passa
  BY DEF IInv, Passa
<1>1. CASE UNCHANGED vars
  <2>1. UNCHANGED <<pag, cobr, efeitos>> /\ UNCHANGED externo
    BY <1>1 DEF vars, efeitos, externo
  <2> QED BY <2>1, TabelasParadas, ConservaTudo DEF Passa, Forma
<1>2. CASE Next
  BY <1>2, ClientePassa, CancelamentoPassa, AdminPassa, EnviosPassa, ProvedorPassa,
     ConciliacaoPassa, CancelarPassa, AnularPassa, EnvelhecePassa, RequisicaoPassa,
     CatalogoPassa
     DEF Next
<1> QED BY <1>1, <1>2

(* The tables, requests and locks always hold what they should, and refer to
   payments and orders that exist, in every instance and every interleaving. *)
THEOREM Tipos == Spec => []TypeOK
<1>1. Init => IInv
  BY InicioLigado
<1>2. IInv /\ [Next]_vars => IInv'
  BY PassoLigado
<1>3. IInv => TypeOK
  BY DEF IInv
<1> QED BY <1>1, <1>2, <1>3, PTL DEF Spec

-----------------------------------------------------------------------------
(* One attempt at a time: only Aberto adds a pending payment, to a charge that
   has none. *)

LEMMA PassoUmaTentativa ==
    ASSUME TypeOK, pag' \in Tabela, Forma, UmaTentativa
    PROVE  UmaTentativa'
<1> DEFINE Pendente(q, c) == /\ pag[q].status = "pendente"
                             /\ pag[q].metodo # "pix_direto"
                             /\ pag[q].cob = c
<1>1. \A c : Pendentes(c) = {q \in Pagamentos : Pendente(q, c)}
  BY DEF Pendentes, DoProvedor, Usado
<1>2. \A c : Pendentes(c)' = {q \in Pagamentos : Pendente(q, c)'}
  BY DEF Pendentes, DoProvedor, Usado
<1>3. (\A c \in Cobrancas, q \in Pagamentos : Pendente(q, c)' => Pendente(q, c)) => UmaTentativa'
  BY <1>1, <1>2 DEF UmaTentativa
<1>4. ASSUME NEW c \in Cobrancas, NEW mem \in Tabela, Transacao(c, mem),
             \A d \in Cobrancas, q \in Pagamentos :
                 mem[q].status = "pendente" /\ mem[q].metodo # "pix_direto" /\ mem[q].cob = d
                 => Pendente(q, d)
      PROVE  UmaTentativa'
  BY <1>3, <1>4 DEF Transacao, Equivalente
<1>5. CASE Neutro
  BY <1>3, <1>5 DEF Neutro, Equivalente
<1>6. CASE Emitido
  BY <1>3, <1>6 DEF Emitido
<1>7. CASE Aberto
  <2>1. PICK p \in Pagamentos, c \in Cobrancas :
          /\ \A q \in Pagamentos \ {p} : pag'[q] = pag[q]
          /\ Pendentes(c) = {}
          /\ pag'[p].cob = c
    BY <1>7 DEF Aberto, Inserida, Trocado
  <2>2. \A d \in Cobrancas \ {c} : \A q \in Pagamentos : Pendente(q, d)' => Pendente(q, d)
    BY <2>1
  <2>3. \A q \in Pagamentos : Pendente(q, c)' => q = p
    BY <1>1, <2>1
  <2> HIDE DEF Pendente
  <2> QED BY <1>1, <1>2, <2>2, <2>3 DEF UmaTentativa
<1>8. CASE Lancado
  <2>1. PICK p \in Pagamentos, c \in Cobrancas, mem \in Tabela :
          /\ \A q \in Pagamentos \ {p} : mem[q] = pag[q]
          /\ mem[p].status = "aprovado"
          /\ Transacao(c, mem)
    BY <1>8 DEF Lancado, Inserida, Trocado
  <2>2. \A d \in Cobrancas, q \in Pagamentos :
          mem[q].status = "pendente" /\ mem[q].metodo # "pix_direto" /\ mem[q].cob = d
          => Pendente(q, d)
    BY <2>1
  <2> QED BY <1>4, <2>1, <2>2
<1>9. ASSUME NEW p \in Pagamentos, Movido(p) \/ Anulado(p)
      PROVE  UmaTentativa'
  <2>1. PICK mem \in Tabela, s \in PagamentoStatus :
          /\ Usado(p)
          /\ \A q \in Pagamentos \ {p} : mem[q] = pag[q]
          /\ mem[p].cob = pag[p].cob /\ mem[p].metodo = pag[p].metodo
          /\ mem[p].status = "cancelado" \/ mem[p].status = SafeTransition(pag[p].status, s)
          /\ Transacao(pag[p].cob, mem)
    BY <1>9 DEF Movido, Anulado, Mudada, Trocado, PagamentoStatus
  <2>2. pag[p].cob \in Cobrancas /\ pag[p].status \in PagamentoStatus
    BY <2>1, LinhaUsada DEF TypeOK, Tabela, Usado, PagamentoRec
  <2>3. mem[p].status = "pendente" => pag[p].status = "pendente"
    BY <2>1, <2>2, TransicaoTipos
  <2>4. \A d \in Cobrancas, q \in Pagamentos :
          mem[q].status = "pendente" /\ mem[q].metodo # "pix_direto" /\ mem[q].cob = d
          => Pendente(q, d)
    BY <2>1, <2>3
  <2> QED BY <1>4, <2>1, <2>2, <2>4
<1> QED BY <1>5, <1>6, <1>7, <1>8, <1>9 DEF Forma

(* A charge never has two open attempts, however many clients, retries,
   notifications and cancellations race (_get_or_create_attempt). *)
THEOREM TentativaUnica == Spec => []UmaTentativa
<1>1. Init => IInv /\ UmaTentativa
  <2>1. Init => UmaTentativa
    BY DEF Init, UmaTentativa, Pendentes, Vazio
  <2> QED BY <2>1, InicioLigado
<1>2. IInv /\ UmaTentativa /\ [Next]_vars => IInv' /\ UmaTentativa'
  <2> SUFFICES ASSUME IInv, UmaTentativa, [Next]_vars PROVE IInv' /\ UmaTentativa'
    OBVIOUS
  <2>1. IInv' /\ Forma
    BY PassoLigado
  <2>2. pag' \in Tabela
    BY <2>1 DEF IInv, TypeOK, Tabela
  <2> QED BY <2>1, <2>2, PassoUmaTentativa DEF IInv
<1> QED BY <1>1, <1>2, PTL DEF Spec

-----------------------------------------------------------------------------
(* Never paid beyond the total, and the status follows the payments. *)

(* A transaction on c leaves the approved payments of other charges alone. *)
LEMMA TransacaoSobrepago ==
    ASSUME TypeOK, NuncaSobrepago, NEW p \in Pagamentos, NEW c \in Cobrancas,
           NEW mem, Trocado(p, mem), mem[p].cob = c, Usado(p) => pag[p].cob = c,
           Transacao(c, mem)
    PROVE  NuncaSobrepago'
<1>1. /\ mem \in Tabela /\ pag \in Tabela /\ pag' \in Tabela
      /\ Equivalente(pag', mem)
      /\ cobr' = [cobr EXCEPT ![c] = StatusCalculado(mem, c)]
      /\ ValorPago(mem, c) <= Total[c]
  BY DEF Trocado, TypeOK, Tabela, Transacao
<1>2. \A d : ValorPago(pag', d) = ValorPago(mem, d)
  BY <1>1, ValorPagoEquivalente
<1>3. ASSUME NEW d \in Cobrancas, d # c
      PROVE  ValorPago(mem, d) = ValorPago(pag, d)
  <2>1. \A q \in Pagamentos :
          /\ q \in Aprovados(mem, d) <=> q \in Aprovados(pag, d)
          /\ q \in Aprovados(mem, d) => mem[q].valor = pag[q].valor
    BY <1>3 DEF Aprovados, Trocado, Usado
  <2> QED BY <1>1, <2>1, ValorPagoDepende
<1>4. ASSUME NEW d \in Cobrancas
      PROVE  /\ ValorPago(pag', d) <= Total[d]
             /\ cobr'[d] # "nenhuma" => cobr'[d] = StatusCalculado(pag', d)
  <2>1. CASE d = c
    <3>1. StatusCalculado(pag', c) = StatusCalculado(mem, c)
      BY <1>2 DEF StatusCalculado
    <3> QED BY <1>1, <1>2, <2>1, <3>1 DEF TypeOK
  <2>2. CASE d # c
    <3>1. ValorPago(pag', d) = ValorPago(pag, d)
      BY <1>2, <1>3, <2>2
    <3>2. StatusCalculado(pag', d) = StatusCalculado(pag, d)
      BY <3>1 DEF StatusCalculado
    <3>3. cobr'[d] = cobr[d]
      BY <1>1, <2>2 DEF TypeOK
    <3> QED BY <3>1, <3>2, <3>3 DEF NuncaSobrepago
  <2> QED BY <2>1, <2>2
<1> QED BY <1>4 DEF NuncaSobrepago

LEMMA PassoNuncaSobrepago ==
    ASSUME TypeOK, Ligado, pag' \in Tabela, Forma, NuncaSobrepago
    PROVE  NuncaSobrepago'
<1>0. pag \in Tabela
  BY DEF TypeOK, Tabela
<1>1. CASE \A d \in Cobrancas : ValorPago(pag', d) = ValorPago(pag, d) /\ cobr' = cobr
  <2>1. \A d \in Cobrancas : StatusCalculado(pag', d) = StatusCalculado(pag, d)
    BY <1>1 DEF StatusCalculado
  <2> QED BY <1>1, <2>1 DEF NuncaSobrepago
<1>2. CASE Neutro
  BY <1>0, <1>1, <1>2, ValorPagoEquivalente DEF Neutro
<1>3. CASE Emitido
  <2>1. PICK c \in Cobrancas :
          cobr[c] = "nenhuma" /\ pag' = pag /\ cobr' = [cobr EXCEPT ![c] = "pendente"]
    BY <1>3 DEF Emitido
  <2>2. Aprovados(pag, c) = {}
    BY <2>1 DEF Ligado, Aprovados, Usado
  <2>3. ValorPago(pag, c) = 0
    BY <1>0, <2>2, ValorPagoNulo
  <2>4. StatusCalculado(pag, c) = "pendente"
    BY <2>3 DEF StatusCalculado
  <2> QED BY <2>1, <2>4 DEF NuncaSobrepago, TypeOK
<1>4. CASE Aberto
  <2>1. PICK p \in Pagamentos :
          /\ \A q \in Pagamentos \ {p} : pag'[q] = pag[q]
          /\ ~Usado(p)
          /\ pag'[p].status = "pendente"
          /\ cobr' = cobr
    BY <1>4 DEF Aberto, Inserida, Trocado
  <2>2. ASSUME NEW d \in Cobrancas PROVE ValorPago(pag', d) = ValorPago(pag, d)
    <3>1. \A q \in Pagamentos :
            /\ q \in Aprovados(pag', d) <=> q \in Aprovados(pag, d)
            /\ q \in Aprovados(pag', d) => pag'[q].valor = pag[q].valor
      BY <2>1 DEF Aprovados, Usado
    <3> QED BY <1>0, <3>1, ValorPagoDepende
  <2> QED BY <1>1, <2>1, <2>2
<1>5. CASE Lancado
  BY <1>5, TransacaoSobrepago DEF Lancado, Inserida
<1>6. ASSUME NEW p \in Pagamentos, Movido(p) \/ Anulado(p)
      PROVE  NuncaSobrepago'
  <2>1. PICK mem \in Tabela : /\ Trocado(p, mem) /\ Usado(p)
                              /\ mem[p].cob = pag[p].cob
                              /\ Transacao(pag[p].cob, mem)
    BY <1>6 DEF Movido, Anulado, Mudada
  <2>2. pag[p].cob \in Cobrancas
    BY <1>0, <2>1, LinhaUsada DEF Usado, PagamentoRec
  <2> QED BY <2>1, <2>2, TransacaoSobrepago
<1> QED BY <1>2, <1>3, <1>4, <1>5, <1>6 DEF Forma

LEMMA InicioSobrepago == Init => NuncaSobrepago
<1> SUFFICES ASSUME Init PROVE NuncaSobrepago
  OBVIOUS
<1>1. pag \in Tabela
  BY InicioLigado DEF IInv, TypeOK, Tabela
<1>2. ASSUME NEW c \in Cobrancas
      PROVE  /\ ValorPago(pag, c) <= Total[c]
             /\ cobr[c] # "nenhuma" => cobr[c] = StatusCalculado(pag, c)
  <2>1. Aprovados(pag, c) = {}
    BY DEF Init, Aprovados, Vazio
  <2>2. ValorPago(pag, c) = 0
    BY <1>1, <2>1, ValorPagoNulo
  <2>3. StatusCalculado(pag, c) = "pendente"
    BY <2>2 DEF StatusCalculado
  <2>4. cobr[c] \in {"pendente", "nenhuma"}
    BY DEF Init
  <2> QED BY <2>2, <2>3, <2>4
<1> QED BY <1>2 DEF NuncaSobrepago

(* No charge is paid beyond its total, and its status is the one its payments
   add up to, for any number of payments and whatever the provider answers. *)
THEOREM SemExcesso == Spec => []NuncaSobrepago
<1>1. Init => IInv /\ NuncaSobrepago
  BY InicioLigado, InicioSobrepago
<1>2. IInv /\ NuncaSobrepago /\ [Next]_vars => IInv' /\ NuncaSobrepago'
  <2> SUFFICES ASSUME IInv, NuncaSobrepago, [Next]_vars PROVE IInv' /\ NuncaSobrepago'
    OBVIOUS
  <2>1. IInv' /\ Forma
    BY PassoLigado
  <2>2. pag' \in Tabela
    BY <2>1 DEF IInv, TypeOK, Tabela
  <2> QED BY <2>1, <2>2, PassoNuncaSobrepago DEF IInv
<1> QED BY <1>1, <1>2, PTL DEF Spec

-----------------------------------------------------------------------------
(* The refinement of the ledger. *)

(* A direct Pix is recorded as received and can only be annulled: it is never
   an open attempt.  Without it an attempt of the ledger could meet one. *)
DiretoDefinitivo ==
    \A p \in Pagamentos :
        pag[p].metodo = "pix_direto" => pag[p].status \in {"aprovado", "cancelado"}

IInvLivro == IInv /\ NuncaSobrepago /\ DiretoDefinitivo

(* The account of a row, and what a step that books one row does. *)
ContaDe(linha) ==
    [cob |-> linha.cob, valor |-> linha.valor, fase |-> FaseDe(linha.status),
     origem |-> OrigemDe(linha.metodo)]

-----------------------------------------------------------------------------
(* What a session holds decides what the ledger sees: only row p is booked. *)
LEMMA ContaTrocada ==
    ASSUME pag \in Tabela, pag' \in Tabela, NEW p \in Pagamentos, NEW mem,
           Trocado(p, mem), Equivalente(pag', mem)
    PROVE  Conta' = [Conta EXCEPT ![p] = ContaDe(mem[p])]
<1>1. \A q \in Pagamentos : ContaDe(pag'[q]) = ContaDe(mem[q])
  BY DEF Equivalente, ContaDe
<1>2. \A q \in Pagamentos \ {p} : mem[q] = pag[q]
  BY DEF Trocado
<1>3. Conta = [q \in Pagamentos |-> ContaDe(pag[q])]
  BY DEF Conta, ContaDe
<1>4. Conta' = [q \in Pagamentos |-> ContaDe(pag'[q])]
  BY DEF Conta, ContaDe
<1> QED BY <1>1, <1>2, <1>3, <1>4

(* Booking row p of charge c changes its balance by what the row contributes,
   and no other balance. *)
Contribui(linha) == IF linha.status = "aprovado" THEN linha.valor ELSE 0

LEMMA PagoTrocado ==
    ASSUME pag \in Tabela, pag' \in Tabela, NEW p \in Pagamentos, NEW c \in Cobrancas,
           NEW mem, Trocado(p, mem), Equivalente(pag', mem),
           mem[p].cob = c, Usado(p) => pag[p].cob = c
    PROVE  /\ \A d \in Cobrancas : ValorPago(pag', d) = ValorPago(mem, d)
           /\ \A d \in Cobrancas \ {c} : ValorPago(mem, d) = ValorPago(pag, d)
           /\ ValorPago(mem, c) = ValorPago(pag, c) - Contribui(pag[p]) + Contribui(mem[p])
<1>1. mem \in Tabela
  BY DEF Trocado
<1>2. \A d \in Cobrancas : ValorPago(pag', d) = ValorPago(mem, d)
  BY <1>1, ValorPagoEquivalente
<1>3. ASSUME NEW d \in Cobrancas \ {c}
      PROVE  ValorPago(mem, d) = ValorPago(pag, d)
  <2>1. \A q \in Pagamentos :
          /\ q \in Aprovados(mem, d) <=> q \in Aprovados(pag, d)
          /\ q \in Aprovados(mem, d) => mem[q].valor = pag[q].valor
    BY <1>3 DEF Aprovados, Trocado, Usado
  <2> QED BY <1>1, <2>1, ValorPagoDepende
<1>4. ValorPago(mem, c) = ValorPago(pag, c) - Contribui(pag[p]) + Contribui(mem[p])
  <2> DEFINE f == Contribuicao(pag, c)
             g == Contribuicao(mem, c)
  <2>1. \A k \in 1..MaxPagamentos : f[k] \in Int /\ g[k] \in Int
    BY <1>1, ContribuicaoNatural
  <2>2. \A k \in 1..MaxPagamentos : k # p => f[k] = g[k]
    BY DEF Contribuicao, Aprovados, Trocado, Pagamentos
  <2>3. f[p] = Contribui(pag[p])
    BY DEF Contribuicao, Aprovados, Contribui, Usado
  <2>4. g[p] = Contribui(mem[p])
    BY DEF Contribuicao, Aprovados, Contribui
  <2>5. p \in 1..MaxPagamentos /\ MaxPagamentos \in Nat
    BY DEF Pagamentos
  <2>6. Soma(g, MaxPagamentos) = Soma(f, MaxPagamentos) - f[p] + g[p]
    <3> HIDE DEF f, g
    <3> QED BY <2>1, <2>2, <2>5, SomaMuda
  <2> QED BY <2>3, <2>4, <2>6 DEF ValorPago
<1> QED BY <1>2, <1>3, <1>4

(* A transaction that books row p leaves the balance and the status the ledger
   computes from its running balance. *)
LEMMA TransacaoContabiliza ==
    ASSUME TypeOK, pag' \in Tabela, NEW p \in Pagamentos, NEW c \in Cobrancas,
           NEW mem, Trocado(p, mem), Transacao(c, mem),
           mem[p].cob = c, Usado(p) => pag[p].cob = c,
           NEW v, v = Pago[c] - Contribui(pag[p]) + Contribui(mem[p])
    PROVE  Contabil!Contabiliza(c, v)
<1>1. pag \in Tabela /\ mem \in Tabela
  BY DEF TypeOK, Tabela, Trocado
<1>2. /\ Equivalente(pag', mem)
      /\ ValorPago(mem, c) <= Total[c]
      /\ cobr' = [cobr EXCEPT ![c] = StatusCalculado(mem, c)]
  BY DEF Transacao
<1>3. /\ \A d \in Cobrancas : ValorPago(pag', d) = ValorPago(mem, d)
      /\ \A d \in Cobrancas \ {c} : ValorPago(mem, d) = ValorPago(pag, d)
      /\ ValorPago(mem, c) = ValorPago(pag, c) - Contribui(pag[p]) + Contribui(mem[p])
  BY <1>1, <1>2, PagoTrocado
<1>4. v = ValorPago(mem, c)
  BY <1>3 DEF Pago
<1>5. Pago' = [Pago EXCEPT ![c] = v]
  BY <1>3, <1>4 DEF Pago
<1>6. StatusCalculado(mem, c) = Contabil!SituacaoDe(c, v)
  BY <1>4 DEF StatusCalculado, Contabil!SituacaoDe
<1> QED BY <1>2, <1>4, <1>5, <1>6 DEF Contabil!Contabiliza

-----------------------------------------------------------------------------
(* One lemma per form of step. *)

Mudo == UNCHANGED <<Conta, Pago, cobr>>

LEMMA NeutroMudo ==
    ASSUME TypeOK, pag' \in Tabela, Neutro
    PROVE  Mudo
<1>1. pag \in Tabela /\ Equivalente(pag', pag) /\ cobr' = cobr
  BY DEF TypeOK, Tabela, Neutro
<1>2. Conta' = Conta
  BY <1>1 DEF Conta, Equivalente
<1>3. Pago' = Pago
  BY <1>1, ValorPagoEquivalente DEF Pago
<1> QED BY <1>1, <1>2, <1>3 DEF Mudo

LEMMA EmitidoLivro ==
    ASSUME TypeOK, Emitido
    PROVE  Contabil!Next
<1>1. PICK c \in Cobrancas :
        cobr[c] = "nenhuma" /\ pag' = pag /\ cobr' = [cobr EXCEPT ![c] = "pendente"]
  BY DEF Emitido
<1>2. Conta' = Conta /\ Pago' = Pago
  BY <1>1 DEF Conta, Pago
<1>3. Contabil!Emitir(c)
  BY <1>1, <1>2 DEF Contabil!Emitir
<1> QED BY <1>3 DEF Contabil!Next

(* A row inserted where no attempt is pending is a new account there. *)
LEMMA InseridaNova ==
    ASSUME IInvLivro, pag' \in Tabela, NEW p \in Pagamentos, NEW c \in Cobrancas, NEW v \in Nat,
           NEW status, NEW mem, Inserida(p, c, v, status, mem), Equivalente(pag', mem)
    PROVE  /\ Contabil!Novo(p, c, v, FaseDe(status), OrigemDe(mem[p].metodo))
           /\ v \in 1..Total[c]
           /\ Pago[c] \in Nat
           /\ Contribui(pag[p]) = 0
<1>1. pag \in Tabela /\ TypeOK
  BY DEF IInvLivro, IInv, TypeOK, Tabela
<1>2. /\ Trocado(p, mem)
      /\ ~Usado(p)
      /\ Pendentes(c) = {}
      /\ cobr[c] # "nenhuma"
      /\ v # 0
      /\ v + ValorPago(pag, c) <= Total[c]
      /\ mem[p].cob = c /\ mem[p].valor = v /\ mem[p].status = status
  BY DEF Inserida
<1>3. Conta' = [Conta EXCEPT ![p] = ContaDe(mem[p])]
  BY <1>1, <1>2, ContaTrocada
<1>4. ContaDe(mem[p]) =
        [cob |-> c, valor |-> v, fase |-> FaseDe(status), origem |-> OrigemDe(mem[p].metodo)]
  BY <1>2 DEF ContaDe
<1>5. Conta[p].fase = "nenhum"
  BY <1>2 DEF Conta, FaseDe, Usado
<1>6. Contabil!SemAberto(c)
  <2>1. ASSUME NEW q \in Pagamentos, Conta[q].cob = c, Conta[q].fase = "aberto"
        PROVE  FALSE
    <3>1. pag[q].cob = c /\ FaseDe(pag[q].status) = "aberto"
      BY <2>1 DEF Conta
    <3>2. pag[q].status = "pendente"
      BY <3>1 DEF FaseDe
    <3>3. pag[q].metodo # "pix_direto"
      BY <3>2 DEF IInvLivro, DiretoDefinitivo
    <3>4. q \in Pendentes(c)
      BY <3>1, <3>2, <3>3 DEF Pendentes, DoProvedor, Usado
    <3> QED BY <1>2, <3>4
  <2> QED BY <2>1 DEF Contabil!SemAberto
<1>7. Pago[c] = ValorPago(pag, c) /\ Pago[c] \in Nat /\ Total[c] \in Nat
  BY <1>1, ValorPagoNatural DEF Pago
<1>8. v \in 1..Total[c] /\ v > 0
  BY <1>2, <1>7
<1>9. Contribui(pag[p]) = 0
  BY <1>2 DEF Contribui, Usado
<1> QED BY <1>2, <1>3, <1>4, <1>5, <1>6, <1>7, <1>8, <1>9 DEF Contabil!Novo

LEMMA AbertoLivro ==
    ASSUME IInvLivro, pag' \in Tabela, Aberto
    PROVE  Contabil!Next
<1>1. PICK p \in Pagamentos, c \in Cobrancas, v \in Nat :
        /\ Inserida(p, c, v, "pendente", pag')
        /\ pag'[p].metodo # "pix_direto"
        /\ cobr' = cobr
  BY DEF Aberto
<1>2. pag \in Tabela /\ Equivalente(pag', pag')
  BY DEF IInvLivro, IInv, TypeOK, Tabela, Equivalente
<1>3. FaseDe("pendente") = "aberto" /\ OrigemDe(pag'[p].metodo) = "provedor"
  BY <1>1 DEF FaseDe, OrigemDe
<1>4. Contabil!Novo(p, c, v, "aberto", "provedor") /\ v \in 1..Total[c]
  BY <1>1, <1>2, <1>3, InseridaNova
<1>5. Trocado(p, pag') /\ ~Usado(p) /\ pag'[p].cob = c /\ pag'[p].status = "pendente"
  BY <1>1 DEF Inserida
<1>6. Pago' = Pago
  <2>1. \A d \in Cobrancas : ValorPago(pag', d) = ValorPago(pag, d)
    <3>1. \A d \in Cobrancas, q \in Pagamentos :
            /\ q \in Aprovados(pag', d) <=> q \in Aprovados(pag, d)
            /\ q \in Aprovados(pag', d) => pag'[q].valor = pag[q].valor
      BY <1>5 DEF Aprovados, Trocado, Usado
    <3> QED BY <1>2, <3>1, ValorPagoDepende
  <2> QED BY <2>1 DEF Pago
<1>7. Contabil!Abrir(p, c, v)
  BY <1>1, <1>4, <1>6 DEF Contabil!Abrir
<1> QED BY <1>4, <1>7 DEF Contabil!Next

LEMMA LancadoLivro ==
    ASSUME IInvLivro, pag' \in Tabela, Lancado
    PROVE  Contabil!Next
<1>1. PICK p \in Pagamentos, c \in Cobrancas, v \in Nat, mem \in Tabela :
        /\ Inserida(p, c, v, "aprovado", mem)
        /\ mem[p].metodo = "pix_direto"
        /\ Transacao(c, mem)
  BY DEF Lancado
<1>2. Equivalente(pag', mem)
  BY <1>1 DEF Transacao
<1>3. FaseDe("aprovado") = "recebido" /\ OrigemDe(mem[p].metodo) = "direta"
  BY <1>1 DEF FaseDe, OrigemDe
<1>4. /\ Contabil!Novo(p, c, v, "recebido", "direta")
      /\ v \in 1..Total[c]
      /\ Pago[c] \in Nat
      /\ Contribui(pag[p]) = 0
  BY <1>1, <1>2, <1>3, InseridaNova
<1>5. /\ Trocado(p, mem) /\ ~Usado(p) /\ mem[p].cob = c
      /\ Contribui(mem[p]) = v
  BY <1>1 DEF Inserida, Contribui
<1>6. Pago[c] + v = Pago[c] - Contribui(pag[p]) + Contribui(mem[p])
  BY <1>4, <1>5
<1>7. Contabil!Contabiliza(c, Pago[c] + v)
  BY <1>1, <1>5, <1>6, TransacaoContabiliza DEF IInvLivro, IInv
<1>8. Contabil!Lancar(p, c, v)
  BY <1>4, <1>7 DEF Contabil!Lancar
<1> QED BY <1>4, <1>8 DEF Contabil!Next

(* A row that moves: its account passes to the new phase, its charge is booked,
   and nothing changes for a charge whose approved money stays the same. *)
LEMMA MudadaPassa ==
    ASSUME IInvLivro, pag' \in Tabela, NEW p \in Pagamentos, NEW mem \in Tabela, NEW status,
           Mudada(p, status, mem), Transacao(pag[p].cob, mem),
           NEW c, c = pag[p].cob
    PROVE  /\ c \in Cobrancas /\ Conta[p].cob = c /\ Conta[p].valor = pag[p].valor
           /\ Conta[p].fase = FaseDe(pag[p].status)
           /\ Conta[p].origem = OrigemDe(pag[p].metodo)
           /\ Pago[c] \in Nat /\ pag[p].valor \in Nat
           /\ Contabil!Passa(p, FaseDe(status))
           /\ Contabil!Contabiliza(c, Pago[c] - Contribui(pag[p]) + Contribui(mem[p]))
           /\ mem[p].status = status /\ mem[p].valor = pag[p].valor
           /\ Contribui(pag[p]) = Contribui(mem[p]) => UNCHANGED <<Pago, cobr>>
           /\ FaseDe(status) = FaseDe(pag[p].status) => Conta' = Conta
<1>1. TypeOK /\ pag \in Tabela /\ Ligado /\ NuncaSobrepago
  BY DEF IInvLivro, IInv, TypeOK, Tabela
<1>2. /\ Trocado(p, mem) /\ Usado(p)
      /\ mem[p].cob = c /\ mem[p].valor = pag[p].valor
      /\ mem[p].metodo = pag[p].metodo /\ mem[p].status = status
  BY DEF Mudada
<1>3. c \in Cobrancas /\ pag[p].valor \in Nat
  BY <1>1, <1>2, LinhaUsada DEF Usado, PagamentoRec
<1>4. /\ Equivalente(pag', mem)
      /\ cobr' = [cobr EXCEPT ![c] = StatusCalculado(mem, c)]
  BY DEF Transacao
<1>5. Conta[p] = ContaDe(pag[p])
  BY DEF Conta, ContaDe
<1>6. Conta' = [Conta EXCEPT ![p] = ContaDe(mem[p])]
  BY <1>1, <1>2, <1>4, ContaTrocada
<1>7. ContaDe(mem[p]) = [Conta[p] EXCEPT !.fase = FaseDe(status)]
  BY <1>2, <1>5 DEF ContaDe
<1>8. Contabil!Passa(p, FaseDe(status))
  BY <1>6, <1>7 DEF Contabil!Passa
<1>9. Contabil!Contabiliza(c, Pago[c] - Contribui(pag[p]) + Contribui(mem[p]))
  BY <1>1, <1>2, <1>3, TransacaoContabiliza
<1>10. Pago[c] = ValorPago(pag, c) /\ Pago[c] \in Nat
  BY <1>1, <1>3, ValorPagoNatural DEF Pago
<1>11. ASSUME Contribui(pag[p]) = Contribui(mem[p])
       PROVE  UNCHANGED <<Pago, cobr>>
  <2>1. Contribui(mem[p]) \in Nat
    BY <1>2, <1>3 DEF Contribui
  <2>2. Pago[c] - Contribui(pag[p]) + Contribui(mem[p]) = Pago[c]
    BY <1>10, <1>11, <2>1
  <2>3. Contabil!Contabiliza(c, Pago[c])
    BY <1>9, <2>2
  <2>4. /\ Pago' = [Pago EXCEPT ![c] = Pago[c]]
        /\ cobr' = [cobr EXCEPT ![c] = Contabil!SituacaoDe(c, Pago[c])]
    BY <2>3 DEF Contabil!Contabiliza
  <2>5. Pago' = Pago
    BY <2>4 DEF Pago
  <2>6. cobr[c] = StatusCalculado(pag, c)
    BY <1>1, <1>2, <1>3 DEF Ligado, NuncaSobrepago
  <2>7. Contabil!SituacaoDe(c, Pago[c]) = StatusCalculado(pag, c)
    BY <1>10 DEF StatusCalculado, Contabil!SituacaoDe
  <2>8. cobr' = cobr
    BY <1>1, <2>4, <2>6, <2>7 DEF TypeOK
  <2> QED BY <2>5, <2>8
<1>12. ASSUME FaseDe(status) = FaseDe(pag[p].status)
       PROVE  Conta' = Conta
  <2>1. ContaDe(mem[p]) = ContaDe(pag[p])
    BY <1>2, <1>12 DEF ContaDe
  <2>2. Conta' = [Conta EXCEPT ![p] = Conta[p]]
    BY <1>5, <1>6, <2>1
  <2> QED BY <2>2 DEF Conta
<1> QED BY <1>2, <1>3, <1>5, <1>8, <1>9, <1>10, <1>11, <1>12 DEF ContaDe

LEMMA AnuladoLivro ==
    ASSUME IInvLivro, pag' \in Tabela, NEW p \in Pagamentos, Anulado(p)
    PROVE  Contabil!Next
<1> DEFINE c == pag[p].cob
<1>1. PICK mem \in Tabela :
        /\ pag[p].metodo = "pix_direto"
        /\ pag[p].status = "aprovado"
        /\ Mudada(p, "cancelado", mem)
        /\ Transacao(c, mem)
  BY DEF Anulado
<1>2. /\ c \in Cobrancas /\ Conta[p].cob = c /\ Conta[p].valor = pag[p].valor
      /\ Conta[p].fase = FaseDe("aprovado")
      /\ Conta[p].origem = OrigemDe("pix_direto")
      /\ Pago[c] \in Nat /\ pag[p].valor \in Nat
      /\ Contabil!Passa(p, FaseDe("cancelado"))
      /\ Contabil!Contabiliza(c, Pago[c] - Contribui(pag[p]) + Contribui(mem[p]))
      /\ mem[p].status = "cancelado"
  BY <1>1, MudadaPassa
<1>3. Contribui(pag[p]) = pag[p].valor /\ Contribui(mem[p]) = 0
  BY <1>1, <1>2 DEF Contribui
<1>4. Pago[c] - Contribui(pag[p]) + Contribui(mem[p]) = Pago[c] - Conta[p].valor
  BY <1>2, <1>3
<1>5. FaseDe("aprovado") = "recebido" /\ FaseDe("cancelado") = "encerrado"
  BY DEF FaseDe
<1>6. OrigemDe("pix_direto") = "direta"
  BY DEF OrigemDe
<1>7. Contabil!Anular(p)
  BY <1>2, <1>4, <1>5, <1>6 DEF Contabil!Anular
<1> QED BY <1>7 DEF Contabil!Next

(* What _safe_transition may make of a phase. *)
LEMMA TransicaoFase ==
    ASSUME NEW a \in PagamentoStatus, NEW s \in PagamentoStatus,
           NEW f, f = FaseDe(a), NEW g, g = FaseDe(SafeTransition(a, s))
    PROVE  /\ f \in {"aberto", "recebido", "encerrado", "devolvido"}
           /\ \/ g = f
              \/ g = "recebido" /\ f \in {"aberto", "encerrado"}
              \/ g = "encerrado" /\ f = "aberto"
              \/ g = "devolvido" /\ f \in {"aberto", "encerrado", "recebido"}
           /\ f = "recebido" <=> a = "aprovado"
           /\ g = "recebido" <=> SafeTransition(a, s) = "aprovado"
BY DEF PagamentoStatus, SafeTransition, FaseDe

LEMMA MovidoLivro ==
    ASSUME IInvLivro, pag' \in Tabela, NEW p \in Pagamentos, Movido(p)
    PROVE  Contabil!Next \/ Mudo
<1> DEFINE c == pag[p].cob
<1>1. PICK s \in PagamentoStatus, mem \in Tabela :
        /\ DoProvedor(p)
        /\ Mudada(p, SafeTransition(pag[p].status, s), mem)
        /\ Transacao(c, mem)
  BY DEF Movido
<1> DEFINE novo == SafeTransition(pag[p].status, s)
           f == FaseDe(pag[p].status)
           g == FaseDe(novo)
           depois == Pago[c] - Contribui(pag[p]) + Contribui(mem[p])
<1>2. /\ c \in Cobrancas /\ Conta[p].cob = c /\ Conta[p].valor = pag[p].valor
      /\ Conta[p].fase = f
      /\ Conta[p].origem = OrigemDe(pag[p].metodo)
      /\ Pago[c] \in Nat /\ pag[p].valor \in Nat
      /\ Contabil!Passa(p, g)
      /\ Contabil!Contabiliza(c, depois)
      /\ mem[p].status = novo /\ mem[p].valor = pag[p].valor
      /\ Contribui(pag[p]) = Contribui(mem[p]) => UNCHANGED <<Pago, cobr>>
      /\ g = f => Conta' = Conta
  BY <1>1, MudadaPassa
<1>3. Conta[p].origem = "provedor"
  BY <1>1, <1>2 DEF DoProvedor, OrigemDe
<1>4. pag[p].status \in PagamentoStatus
  BY <1>1, LinhaUsada DEF DoProvedor, Usado, IInvLivro, IInv, TypeOK, Tabela, PagamentoRec
<1>5. /\ f \in {"aberto", "recebido", "encerrado", "devolvido"}
      /\ \/ g = f
         \/ g = "recebido" /\ f \in {"aberto", "encerrado"}
         \/ g = "encerrado" /\ f = "aberto"
         \/ g = "devolvido" /\ f \in {"aberto", "encerrado", "recebido"}
      /\ f = "recebido" <=> pag[p].status = "aprovado"
      /\ g = "recebido" <=> novo = "aprovado"
  BY <1>4, TransicaoFase
<1>6. /\ Contribui(pag[p]) = IF f = "recebido" THEN pag[p].valor ELSE 0
      /\ Contribui(mem[p]) = IF g = "recebido" THEN pag[p].valor ELSE 0
  BY <1>2, <1>5 DEF Contribui
<1> HIDE DEF c, novo, f, g, depois
<1>7. CASE g = f
  BY <1>2, <1>6, <1>7 DEF Mudo
<1>8. CASE g = "recebido" /\ f \in {"aberto", "encerrado"}
  <2>1. depois = Pago[c] + Conta[p].valor
    BY <1>2, <1>6, <1>8 DEF depois
  <2>2. Contabil!Receber(p)
    BY <1>2, <1>3, <1>8, <2>1 DEF Contabil!Receber
  <2> QED BY <2>2 DEF Contabil!Next
<1>9. CASE g = "encerrado" /\ f = "aberto"
  <2>1. UNCHANGED <<Pago, cobr>>
    BY <1>2, <1>6, <1>9
  <2>2. Contabil!Encerrar(p)
    BY <1>2, <1>9, <2>1 DEF Contabil!Encerrar
  <2> QED BY <2>2 DEF Contabil!Next
<1>10. CASE g = "devolvido" /\ f \in {"aberto", "encerrado"}
  <2>1. UNCHANGED <<Pago, cobr>>
    BY <1>2, <1>6, <1>10
  <2>2. Contabil!Devolver(p)
    BY <1>2, <1>3, <1>10, <2>1 DEF Contabil!Devolver
  <2> QED BY <2>2 DEF Contabil!Next
<1>11. CASE g = "devolvido" /\ f = "recebido"
  <2>1. depois = Pago[c] - Conta[p].valor
    BY <1>2, <1>6, <1>11 DEF depois
  <2>2. Contabil!Devolver(p)
    BY <1>2, <1>3, <1>11, <2>1 DEF Contabil!Devolver
  <2> QED BY <2>2 DEF Contabil!Next
<1> QED BY <1>5, <1>7, <1>8, <1>9, <1>10, <1>11

-----------------------------------------------------------------------------
(* The refinement. *)

LEMMA PassoDireto ==
    ASSUME TypeOK, pag' \in Tabela, Forma, DiretoDefinitivo
    PROVE  DiretoDefinitivo'
<1>1. ASSUME NEW p \in Pagamentos, NEW c, NEW mem, Trocado(p, mem), Transacao(c, mem),
             mem[p].metodo = "pix_direto" => mem[p].status \in {"aprovado", "cancelado"}
      PROVE  DiretoDefinitivo'
  BY <1>1 DEF DiretoDefinitivo, Trocado, Transacao, Equivalente
<1>2. CASE Neutro
  BY <1>2 DEF Neutro, Equivalente, DiretoDefinitivo
<1>3. CASE Emitido
  BY <1>3 DEF Emitido, DiretoDefinitivo
<1>4. CASE Aberto
  BY <1>4 DEF Aberto, Inserida, Trocado, DiretoDefinitivo
<1>5. CASE Lancado
  BY <1>1, <1>5 DEF Lancado, Inserida
<1>6. ASSUME NEW p \in Pagamentos, Movido(p)
      PROVE  DiretoDefinitivo'
  BY <1>1, <1>6 DEF Movido, Mudada, DoProvedor
<1>7. ASSUME NEW p \in Pagamentos, Anulado(p)
      PROVE  DiretoDefinitivo'
  BY <1>1, <1>7 DEF Anulado, Mudada
<1> QED BY <1>2, <1>3, <1>4, <1>5, <1>6, <1>7 DEF Forma

LEMMA PassoLivro ==
    ASSUME IInvLivro, pag' \in Tabela, Forma
    PROVE  Contabil!Next \/ Mudo
<1>1. TypeOK
  BY DEF IInvLivro, IInv
<1> QED BY <1>1, NeutroMudo, EmitidoLivro, AbertoLivro, LancadoLivro, MovidoLivro, AnuladoLivro
        DEF Forma

LEMMA InicioLivro == Init => Contabil!Init
<1> SUFFICES ASSUME Init PROVE Contabil!Init
  OBVIOUS
<1>1. Conta = [p \in Pagamentos |->
                 [cob |-> SemCobranca, valor |-> 0, fase |-> "nenhum", origem |-> "provedor"]]
  BY DEF Init, Conta, Vazio, FaseDe, OrigemDe
<1>2. pag \in Tabela
  BY InicioLigado DEF IInv, TypeOK, Tabela
<1>3. ASSUME NEW c \in Cobrancas PROVE ValorPago(pag, c) = 0
  <2>1. Aprovados(pag, c) = {}
    BY DEF Init, Aprovados, Vazio
  <2> QED BY <1>2, <2>1, ValorPagoNulo
<1>4. Pago = [c \in Cobrancas |-> 0]
  BY <1>3 DEF Pago
<1>5. cobr \in [Cobrancas -> {"nenhuma", "pendente"}]
  BY DEF Init
<1> QED BY <1>1, <1>4, <1>5 DEF Contabil!Init

(* Whatever clients, administrators, notifications, late answers and crashes do,
   every transaction books at most one movement of one payment, never past the
   total, and the status it stores is the one of the running balance. *)
THEOREM Refinamento == Spec => ImplementaLivro
<1>1. Init => IInvLivro
  <2>1. Init => DiretoDefinitivo
    BY DEF Init, DiretoDefinitivo, Vazio
  <2>2. Init => IInv /\ NuncaSobrepago
    BY InicioLigado, InicioSobrepago
  <2> QED BY <2>1, <2>2 DEF IInvLivro
<1>2. IInvLivro /\ [Next]_vars => IInvLivro' /\ [Contabil!Next]_(Contabil!vars)
  <2> SUFFICES ASSUME IInvLivro, [Next]_vars
               PROVE  IInvLivro' /\ [Contabil!Next]_(Contabil!vars)
    OBVIOUS
  <2>1. IInv' /\ Forma
    BY PassoLigado DEF IInvLivro
  <2>2. pag' \in Tabela
    BY <2>1 DEF IInv, TypeOK, Tabela
  <2>3. NuncaSobrepago' /\ DiretoDefinitivo'
    BY <2>1, <2>2, PassoNuncaSobrepago, PassoDireto DEF IInvLivro, IInv
  <2>4. Contabil!Next \/ Mudo
    BY <2>1, <2>2, PassoLivro
  <2> QED BY <2>1, <2>3, <2>4 DEF IInvLivro, Mudo, Contabil!vars
<1>3. Init => Contabil!Init
  BY InicioLivro
<1> QED BY <1>1, <1>2, <1>3, PTL DEF Spec, ImplementaLivro, Contabil!Spec
=============================================================================
