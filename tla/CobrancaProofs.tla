---------------------------- MODULE CobrancaProofs ----------------------------
(***************************************************************************)
(* Proofs about what payments release and what may still be collected:     *)
(* productions, licences, credits, and the provider's orders.  The form of *)
(* every step of module Checkout and the arithmetic of one movement come   *)
(* from CheckoutProofs.                                                    *)
(***************************************************************************)
EXTENDS CheckoutProofs

USE FinanceiroAssumption, ProvedorAssumption, CheckoutAssumption

-----------------------------------------------------------------------------
(* Licences and their beat. *)

Adquirida(c) == lic[c].status = "adquirida"
Exclusiva(c) == Licenca[c] = "exclusivo" /\ Adquirida(c)

(* What a transaction on charge c does to licences: it concerns that of c only,
   grants it only when c is paid and nobody else holds the exclusive, and keeps
   it only while c stays paid. *)
LEMMA TransacaoLicencas ==
    ASSUME TypeOK, NEW c \in Cobrancas, NEW mem, Transacao(c, mem)
    PROVE  /\ \A d \in Cobrancas \ {c} : lic'[d] = lic[d] /\ cobr'[d] = cobr[d]
           /\ lic'[c].status = "adquirida" => cobr'[c] = "paga"
           /\ lic'[c].status = "adquirida" =>
                 Adquirida(c) \/ (AguardaPagamento(c) /\ ~Indisponivel(c))
           /\ beat' = beat \/ beat' = "vendido"
           /\ lic'[c].status = "adquirida" /\ ~Adquirida(c) /\ Licenca[c] = "exclusivo" =>
                 beat' = "vendido"
<1> DEFINE paga == StatusCalculado(mem, c) = "paga"
           atende == AguardaPagamento(c) /\ ~Indisponivel(c)
<1>1. /\ lic' = CASE paga /\ atende ->
                       [lic EXCEPT ![c] = [@ EXCEPT !.status = "adquirida", !.motivo = "nenhum"]]
                  [] Revogada(c, paga) ->
                       [lic EXCEPT ![c] = [@ EXCEPT !.status = "cancelada",
                                                    !.motivo = "pagamento_revertido"]]
                  [] OTHER -> lic
      /\ beat' = IF paga /\ atende /\ Licenca[c] = "exclusivo" THEN "vendido" ELSE beat
  BY DEF Transacao, ConfirmPaid
<1>2. cobr' = [cobr EXCEPT ![c] = StatusCalculado(mem, c)]
  BY DEF Transacao
<1>3. /\ \A d \in Cobrancas \ {c} : cobr'[d] = cobr[d]
      /\ cobr'[c] = "paga" <=> paga
  BY <1>2 DEF TypeOK
<1>4. lic[c] \in LicencaRec /\ lic \in [Cobrancas -> LicencaRec]
  BY DEF TypeOK
<1>5. Revogada(c, paga) <=> ~paga /\ Adquirida(c)
  BY DEF Revogada, Adquirida
<1>6. AguardaPagamento(c) => ~Adquirida(c)
  BY DEF AguardaPagamento, Adquirida
<1> HIDE DEF paga
<1>7. CASE paga /\ atende
  <2>1. lic' = [lic EXCEPT ![c] = [@ EXCEPT !.status = "adquirida", !.motivo = "nenhum"]]
    BY <1>1, <1>5, <1>7
  <2>2. beat' = IF Licenca[c] = "exclusivo" THEN "vendido" ELSE beat
    BY <1>1, <1>7
  <2> QED BY <1>3, <1>4, <1>7, <2>1, <2>2
<1>8. CASE ~(paga /\ atende) /\ ~paga /\ Adquirida(c)
  <2>1. lic' = [lic EXCEPT ![c] = [@ EXCEPT !.status = "cancelada",
                                            !.motivo = "pagamento_revertido"]]
        /\ beat' = beat
    BY <1>1, <1>5, <1>8
  <2>2. lic'[c].status = "cancelada"
    BY <1>4, <2>1 DEF LicencaRec
  <2> QED BY <1>3, <1>4, <2>1, <2>2
<1>9. CASE ~(paga /\ atende) /\ ~(~paga /\ Adquirida(c))
  <2>1. lic' = lic /\ beat' = beat
    BY <1>1, <1>5, <1>9
  <2> QED BY <1>3, <1>9, <2>1 DEF Adquirida
<1> QED BY <1>7, <1>8, <1>9

LEMMA ExpiradasNaoConcede ==
    ASSUME TypeOK, NEW cs, NEW d \in Cobrancas, Expiradas(cs)[d].status = "adquirida"
    PROVE  Adquirida(d)
<1>1. lic[d] \in LicencaRec
  BY DEF TypeOK
<1>2. CASE Expiradas(cs)[d] = lic[d]
  BY <1>2 DEF Adquirida
<1>3. CASE Expiradas(cs)[d] = [lic[d] EXCEPT !.status = "cancelada", !.motivo = "expirada"]
  BY <1>1, <1>3 DEF LicencaRec
<1> QED BY <1>2, <1>3 DEF Expiradas

(* What the catalog does to licences: it never grants one, and the beat comes
   back only when nobody holds its exclusive. *)
LEMMA CatalogoLicencas ==
    ASSUME TypeOK, UNCHANGED <<lic, beat>> \/ Catalogado \/ \E c \in Cobrancas : SolicitarLicenca(c)
    PROVE  /\ \A d \in Cobrancas : lic'[d].status = "adquirida" => Adquirida(d)
           /\ beat' = beat \/ beat = "fora" \/ \A d \in Cobrancas : ~Exclusiva(d)
<1>0. \A d \in Cobrancas : lic[d] \in LicencaRec
  BY DEF TypeOK
<1>1. CASE UNCHANGED <<lic, beat>>
  BY <1>1 DEF Adquirida
<1>2. CASE ExpireReservations \/ \E c \in Cobrancas : RecusarCheckout(c)
  BY <1>2, ExpiradasNaoConcede DEF ExpireReservations, RecusarCheckout
<1>3. CASE Relist \/ RetirarBeat \/ AprovarBeat
  BY <1>3 DEF Relist, RetirarBeat, AprovarBeat, Adquirida, Exclusiva
<1>4. ASSUME NEW c \in Cobrancas, ReleaseReservation(c) \/ VenceReserva(c)
      PROVE  beat' = beat /\ \A d \in Cobrancas : lic'[d].status = "adquirida" => Adquirida(d)
  <2>1. \A d \in Cobrancas \ {c} : lic'[d] = lic[d]
    BY <1>4 DEF ReleaseReservation, VenceReserva, TypeOK
  <2>2. /\ beat' = beat /\ lic \in [Cobrancas -> LicencaRec] /\ lic[c].status = "reservada"
        /\ \/ lic' = [lic EXCEPT ![c] = [@ EXCEPT !.status = "cancelada", !.motivo = "admin"]]
           \/ lic' = [lic EXCEPT ![c] = [@ EXCEPT !.vencida = TRUE]]
    BY <1>4 DEF ReleaseReservation, VenceReserva, TypeOK
  <2>3. lic'[c].status # "adquirida"
    <3>1. lic[c] \in LicencaRec
      BY <1>0
    <3>2. /\ [lic[c] EXCEPT !.status = "cancelada", !.motivo = "admin"].status = "cancelada"
          /\ [lic[c] EXCEPT !.vencida = TRUE].status = "reservada"
      BY <2>2, <3>1 DEF LicencaRec
    <3> QED BY <2>2, <3>2
  <2> QED BY <2>1, <2>2, <2>3 DEF Adquirida
<1>5. ASSUME NEW c \in Cobrancas, SolicitarLicenca(c)
      PROVE  beat' = beat /\ \A d \in Cobrancas : lic'[d].status = "adquirida" => Adquirida(d)
  <2>1. Expiradas(Cobrancas) \in [Cobrancas -> LicencaRec]
    BY LicencasTipos
  <2>2. /\ \A d \in Cobrancas \ {c} : lic'[d] = Expiradas(Cobrancas)[d]
        /\ lic'[c].status = "reservada"
        /\ beat' = beat
    BY <1>5, <2>1 DEF SolicitarLicenca
  <2> QED BY <2>2, ExpiradasNaoConcede
<1> QED BY <1>1, <1>2, <1>3, <1>4, <1>5 DEF Catalogado, Catalogo

(* The two kinds of steps a licence can take. *)
LEMMA FormaLicencas ==
    ASSUME Forma, IInv
    PROVE  \/ /\ cobr' = cobr \/ \E c \in Cobrancas : /\ ~Adquirida(c) \/ cobr[c] # "paga"
                                                     /\ \A d \in Cobrancas \ {c} : cobr'[d] = cobr[d]
              /\ UNCHANGED <<lic, beat>> \/ Catalogado \/ \E c \in Cobrancas : SolicitarLicenca(c)
           \/ \E c \in Cobrancas, mem \in Tabela : Transacao(c, mem)
<1>0. TypeOK
  BY DEF IInv
<1>1. CASE Neutro
  BY <1>1 DEF Neutro
<1>2. CASE Emitido
  BY <1>0, <1>2 DEF Emitido, TypeOK
<1>3. CASE Aberto
  BY <1>3 DEF Aberto, efeitos
<1>4. CASE Lancado
  BY <1>4 DEF Lancado
<1>5. ASSUME NEW p \in Pagamentos, Movido(p) \/ Anulado(p)
      PROVE  \E c \in Cobrancas, mem \in Tabela : Transacao(c, mem)
  <2>1. pag[p].cob \in Cobrancas
    BY <1>0, <1>5, LinhaUsada DEF Movido, Anulado, Mudada, Usado, TypeOK, Tabela, PagamentoRec
  <2> QED BY <1>5, <2>1 DEF Movido, Anulado
<1> QED BY <1>1, <1>2, <1>3, <1>4, <1>5 DEF Forma

(* Whoever acquires a licence in a step was waiting for it on a beat whose
   exclusive nobody else held. *)
LEMMA ConcessaoLivre ==
    ASSUME IInv, Forma, NEW c \in Cobrancas, lic'[c].status = "adquirida", ~Adquirida(c)
    PROVE  /\ AguardaPagamento(c) /\ ~Indisponivel(c)
           /\ \A d \in Cobrancas \ {c} : lic'[d] = lic[d]
           /\ Licenca[c] = "exclusivo" => beat' = "vendido"
           /\ beat' = beat \/ beat' = "vendido"
<1>0. TypeOK
  BY DEF IInv
<1>1. CASE UNCHANGED <<lic, beat>> \/ Catalogado \/ \E d \in Cobrancas : SolicitarLicenca(d)
  BY <1>0, <1>1, CatalogoLicencas
<1>2. CASE \E d \in Cobrancas, mem \in Tabela : Transacao(d, mem)
  <2>1. PICK d \in Cobrancas, mem \in Tabela : Transacao(d, mem)
    BY <1>2
  <2>2. d = c
    BY <1>0, <2>1, TransacaoLicencas DEF Adquirida
  <2> QED BY <1>0, <2>1, <2>2, TransacaoLicencas
<1> QED BY <1>1, <1>2, FormaLicencas

LEMMA PassoExclusivo ==
    ASSUME IInv, Forma, ExclusivoUnico
    PROVE  ExclusivoUnico'
<1>0. TypeOK
  BY DEF IInv
<1>1. ASSUME NEW c \in Cobrancas, Exclusiva(c), Exclusiva(c)'
      PROVE  beat' = "vendido"
  <2>1. beat = "vendido"
    BY <1>1 DEF Exclusiva, Adquirida, ExclusivoUnico
  <2>2. CASE UNCHANGED <<lic, beat>> \/ Catalogado \/ \E d \in Cobrancas : SolicitarLicenca(d)
    BY <1>0, <1>1, <2>1, <2>2, CatalogoLicencas
  <2>3. CASE \E d \in Cobrancas, mem \in Tabela : Transacao(d, mem)
    BY <1>0, <2>1, <2>3, TransacaoLicencas
  <2> QED BY <2>2, <2>3, FormaLicencas
<1>2. ASSUME NEW c \in Cobrancas, ~Exclusiva(c), Exclusiva(c)'
      PROVE  /\ beat' = "vendido"
             /\ \A d \in Cobrancas \ {c} : ~Exclusiva(d)'
  <2>1. lic'[c].status = "adquirida" /\ ~Adquirida(c) /\ Licenca[c] = "exclusivo"
    BY <1>2 DEF Exclusiva, Adquirida
  <2>2. /\ ~Indisponivel(c)
        /\ \A d \in Cobrancas \ {c} : lic'[d] = lic[d]
        /\ beat' = "vendido"
    BY <2>1, ConcessaoLivre
  <2> QED BY <2>2 DEF Indisponivel, ExclusivoDeOutro, Exclusiva, Adquirida
<1>3. ASSUME NEW c \in Cobrancas, NEW d \in Cobrancas, Exclusiva(c)', Exclusiva(d)'
      PROVE  beat' = "vendido" /\ c = d
  <2>1. Exclusiva(c) /\ Exclusiva(d) => c = d
    BY DEF Exclusiva, Adquirida, ExclusivoUnico
  <2> QED BY <1>1, <1>2, <1>3, <2>1
<1> QED BY <1>3 DEF ExclusivoUnico, Exclusiva, Adquirida

(* One client at most holds the exclusive of the beat, which is then out of the
   catalog, however late payments, refunds and relistings cross. *)
THEOREM ExclusivoDeUm == Spec => []ExclusivoUnico
<1>1. Init => IInv /\ ExclusivoUnico
  <2>1. Init => ExclusivoUnico
    BY DEF Init, ExclusivoUnico, SemLicenca
  <2> QED BY <2>1, InicioLigado
<1>2. IInv /\ ExclusivoUnico /\ [Next]_vars => IInv' /\ ExclusivoUnico'
  BY PassoLigado, PassoExclusivo
<1> QED BY <1>1, <1>2, PTL DEF Spec

(* No licence, exclusive or not, is granted over the exclusive of another. *)
THEOREM SemSobreposicao == Spec => NadaSobreExclusivo
<1>1. IInv /\ [Next]_vars =>
        [\A c, d \in Cobrancas :
            /\ lic[c].status # "adquirida" /\ lic'[c].status = "adquirida"
            /\ c # d /\ Licenca[d] = "exclusivo"
            => lic[d].status # "adquirida"]_lic
  <2> SUFFICES ASSUME IInv, [Next]_vars, NEW c \in Cobrancas, NEW d \in Cobrancas,
                      lic[c].status # "adquirida", lic'[c].status = "adquirida",
                      c # d, Licenca[d] = "exclusivo"
               PROVE  lic[d].status # "adquirida"
    OBVIOUS
  <2>1. Forma
    BY PassoLigado
  <2>2. ~Indisponivel(c)
    BY <2>1, ConcessaoLivre DEF Adquirida
  <2> QED BY <2>2 DEF Indisponivel, ExclusivoDeOutro
<1> QED BY <1>1, InicioLigado, PassoLigado, PTL DEF Spec, NadaSobreExclusivo

LEMMA PassoLicencaPaga ==
    ASSUME IInv, Forma, LicencaSoPaga
    PROVE  LicencaSoPaga'
<1>0. TypeOK
  BY DEF IInv
<1>1. ASSUME UNCHANGED <<lic, beat>> \/ Catalogado \/ \E d \in Cobrancas : SolicitarLicenca(d),
             \/ cobr' = cobr
             \/ \E c \in Cobrancas : /\ ~Adquirida(c) \/ cobr[c] # "paga"
                                   /\ \A d \in Cobrancas \ {c} : cobr'[d] = cobr[d]
      PROVE  LicencaSoPaga'
  <2>1. \A d \in Cobrancas : lic'[d].status = "adquirida" => Adquirida(d)
    BY <1>0, <1>1, CatalogoLicencas
  <2> QED BY <1>1, <2>1 DEF LicencaSoPaga, Adquirida
<1>2. CASE \E d \in Cobrancas, mem \in Tabela : Transacao(d, mem)
  BY <1>0, <1>2, TransacaoLicencas DEF LicencaSoPaga
<1> QED BY <1>1, <1>2, FormaLicencas

(* Whoever holds a licence has paid all of it, also after refunds, annulments
   and repeated notifications. *)
THEOREM LicencaPaga == Spec => []LicencaSoPaga
<1>1. Init => IInv /\ LicencaSoPaga
  <2>1. Init => LicencaSoPaga
    BY DEF Init, LicencaSoPaga, SemLicenca
  <2> QED BY <2>1, InicioLigado
<1>2. IInv /\ LicencaSoPaga /\ [Next]_vars => IInv' /\ LicencaSoPaga'
  BY PassoLigado, PassoLicencaPaga
<1> QED BY <1>1, <1>2, PTL DEF Spec

-----------------------------------------------------------------------------
(* What a payment releases. *)

(* An answer that changes one row, and what the transaction makes of it. *)
Lancamento(p, c, mem) ==
    /\ Trocado(p, mem)
    /\ mem[p].cob = c
    /\ Usado(p) => pag[p].cob = c
    /\ Transacao(c, mem)

LEMMA AbertoNaoPaga ==
    ASSUME TypeOK, pag' \in Tabela, Aberto
    PROVE  \A d \in Cobrancas : ValorPago(pag', d) = ValorPago(pag, d)
<1>1. PICK p \in Pagamentos :
        /\ \A q \in Pagamentos \ {p} : pag'[q] = pag[q]
        /\ ~Usado(p)
        /\ pag'[p].status = "pendente"
  BY DEF Aberto, Inserida, Trocado
<1>2. ASSUME NEW d \in Cobrancas PROVE ValorPago(pag', d) = ValorPago(pag, d)
  <2>1. \A q \in Pagamentos :
          /\ q \in Aprovados(pag', d) <=> q \in Aprovados(pag, d)
          /\ q \in Aprovados(pag', d) => pag'[q].valor = pag[q].valor
    BY <1>1 DEF Aprovados, Usado
  <2> QED BY <2>1, ValorPagoDepende DEF TypeOK, Tabela
<1> QED BY <1>2

(* Either nobody has paid anything, or one row of one charge was booked. *)
LEMMA FormaLancamento ==
    ASSUME IInv, pag' \in Tabela, Forma
    PROVE  \/ /\ \A d \in Cobrancas : ValorPago(pag', d) = ValorPago(pag, d)
              /\ UNCHANGED <<producao, lotes>>
              /\ \A d \in Cobrancas : cobr'[d] = cobr[d] \/ ValorPago(pag, d) = 0
           \/ \E p \in Pagamentos, c \in Cobrancas, mem \in Tabela : Lancamento(p, c, mem)
<1>0. TypeOK /\ pag \in Tabela
  BY DEF IInv, TypeOK, Tabela
<1>1. CASE Neutro
  BY <1>0, <1>1, ValorPagoEquivalente DEF Neutro
<1>2. CASE Emitido
  <2>1. PICK c \in Cobrancas : /\ cobr[c] = "nenhuma" /\ pag' = pag
                               /\ cobr' = [cobr EXCEPT ![c] = "pendente"]
                               /\ UNCHANGED <<producao, lotes>>
    BY <1>2 DEF Emitido, SolicitarLicenca
  <2>2. Aprovados(pag, c) = {}
    BY <2>1 DEF IInv, Ligado, Aprovados, Usado
  <2>3. ValorPago(pag, c) = 0
    BY <1>0, <2>2, ValorPagoNulo
  <2> QED BY <1>0, <2>1, <2>3 DEF TypeOK
<1>3. CASE Aberto
  BY <1>0, <1>3, AbertoNaoPaga DEF Aberto, efeitos
<1>4. CASE Lancado
  <2>1. PICK p \in Pagamentos, c \in Cobrancas, v \in Nat, mem \in Tabela :
          Inserida(p, c, v, "aprovado", mem) /\ Transacao(c, mem)
    BY <1>4 DEF Lancado
  <2>2. Lancamento(p, c, mem)
    BY <2>1 DEF Inserida, Lancamento
  <2> QED BY <2>2
<1>5. ASSUME NEW p \in Pagamentos, Movido(p) \/ Anulado(p)
      PROVE  \E c \in Cobrancas, mem \in Tabela : Lancamento(p, c, mem)
  <2>1. PICK mem \in Tabela : /\ Trocado(p, mem) /\ Usado(p)
                              /\ mem[p].cob = pag[p].cob
                              /\ Transacao(pag[p].cob, mem)
    BY <1>5 DEF Movido, Anulado, Mudada
  <2>2. pag[p].cob \in Cobrancas
    BY <1>0, <2>1, LinhaUsada DEF Usado, PagamentoRec
  <2> QED BY <2>1, <2>2 DEF Lancamento
<1> QED BY <1>1, <1>2, <1>3, <1>4, <1>5 DEF Forma

(* A booking on charge c leaves the other charges alone. *)
LEMMA LancamentoAlheio ==
    ASSUME TypeOK, pag' \in Tabela, NEW p \in Pagamentos, NEW c \in Cobrancas,
           NEW mem \in Tabela, Lancamento(p, c, mem), NEW d \in Cobrancas \ {c}
    PROVE  /\ ValorPago(pag', d) = ValorPago(pag, d)
           /\ cobr'[d] = cobr[d]
           /\ producao'[d] = producao[d]
           /\ lotes'[d] = lotes[d]
<1>1. ValorPago(pag', d) = ValorPago(pag, d)
  BY PagoTrocado DEF Lancamento, Transacao, TypeOK, Tabela
<1>2. cobr'[d] = cobr[d]
  BY DEF Lancamento, Transacao, TypeOK
<1>3. producao'[d] = producao[d] /\ lotes'[d] = lotes[d]
  BY DEF Lancamento, Transacao, Liberar, TypeOK
<1> QED BY <1>1, <1>2, <1>3

LEMMA PassoLibera ==
    ASSUME IInv, pag' \in Tabela, Forma, LiberaQuandoPaga
    PROVE  LiberaQuandoPaga'
<1>0. TypeOK /\ pag \in Tabela
  BY DEF IInv, TypeOK, Tabela
<1>1. ASSUME NEW d \in Cobrancas, Finalidade[d] = "producao", cobr[d] # "nenhuma",
             CondicaoInicio(pag, d)
      PROVE  producao[d]
  BY <1>1 DEF LiberaQuandoPaga
<1>2. CASE /\ \A d \in Cobrancas : ValorPago(pag', d) = ValorPago(pag, d)
           /\ UNCHANGED <<producao, lotes>>
           /\ \A d \in Cobrancas : cobr'[d] = cobr[d] \/ ValorPago(pag, d) = 0
  <2> SUFFICES ASSUME NEW d \in Cobrancas, Finalidade[d] = "producao", cobr'[d] # "nenhuma",
                      CondicaoInicio(pag', d)
               PROVE  producao'[d]
    BY DEF LiberaQuandoPaga
  <2>1. CondicaoInicio(pag, d)
    BY <1>2 DEF CondicaoInicio
  <2>2. Minimo(d) \in Nat /\ Minimo(d) > 0
    <3>1. Total[d] \in Nat /\ Total[d] \div 2 \in Nat
      OBVIOUS
    <3> QED BY <2>1, <3>1 DEF CondicaoInicio, TemMinimo, Minimo, Entrada
  <2>3. ValorPago(pag, d) # 0
    BY <2>1, <2>2 DEF CondicaoInicio
  <2> QED BY <1>1, <1>2, <2>1, <2>3
<1>3. ASSUME NEW p \in Pagamentos, NEW c \in Cobrancas, NEW mem \in Tabela,
             Lancamento(p, c, mem)
      PROVE  LiberaQuandoPaga'
  <2> SUFFICES ASSUME NEW d \in Cobrancas, Finalidade[d] = "producao", cobr'[d] # "nenhuma",
                      CondicaoInicio(pag', d)
               PROVE  producao'[d]
    BY DEF LiberaQuandoPaga
  <2>1. CASE d = c
    <3>1. Liberar(c, pag')
      BY <1>3 DEF Lancamento, Transacao
    <3>2. producao' = [producao EXCEPT ![c] = @ \/ CondicaoInicio(pag', c)]
      BY <2>1, <3>1 DEF Liberar
    <3>3. producao'[c] = (producao[c] \/ CondicaoInicio(pag', c))
      BY <1>0, <3>2 DEF TypeOK
    <3> QED BY <2>1, <3>3
  <2>2. CASE d # c
    <3>1. /\ ValorPago(pag', d) = ValorPago(pag, d) /\ cobr'[d] = cobr[d]
          /\ producao'[d] = producao[d]
      BY <1>0, <1>3, <2>2, LancamentoAlheio
    <3> QED BY <1>1, <3>1 DEF CondicaoInicio
  <2> QED BY <2>1, <2>2
<1> QED BY <1>2, <1>3, FormaLancamento

(* The work starts the moment its minimum is paid, whichever way the money
   came: answer of the checkout, webhook, reconciliation or direct Pix. *)
THEOREM LiberaPaga == Spec => []LiberaQuandoPaga
<1>1. Init => IInv /\ LiberaQuandoPaga
  <2> SUFFICES ASSUME Init PROVE LiberaQuandoPaga
    BY InicioLigado
  <2> SUFFICES ASSUME NEW c \in Cobrancas, CondicaoInicio(pag, c) PROVE FALSE
    BY DEF LiberaQuandoPaga
  <2>1. Aprovados(pag, c) = {}
    BY DEF Init, Aprovados, Vazio
  <2>2. ValorPago(pag, c) = 0
    BY <2>1, ValorPagoNulo, InicioLigado DEF IInv, TypeOK, Tabela
  <2>3. Minimo(c) \in Nat
    <3>1. Total[c] \in Nat /\ Total[c] \div 2 \in Nat
      OBVIOUS
    <3> QED BY <3>1 DEF Minimo, Entrada
  <2> QED BY <2>2, <2>3 DEF CondicaoInicio, TemMinimo
<1>2. IInv /\ LiberaQuandoPaga /\ [Next]_vars => IInv' /\ LiberaQuandoPaga'
  <2> SUFFICES ASSUME IInv, LiberaQuandoPaga, [Next]_vars PROVE IInv' /\ LiberaQuandoPaga'
    OBVIOUS
  <2>1. IInv' /\ Forma
    BY PassoLigado
  <2>2. pag' \in Tabela
    BY <2>1 DEF IInv, TypeOK, Tabela
  <2> QED BY <2>1, <2>2, PassoLibera
<1> QED BY <1>1, <1>2, PTL DEF Spec

-----------------------------------------------------------------------------
(* Credits and their backing. *)

(* What a step leaves of the flags of a row: its own, or a conflict. *)
LEMMA TransacaoRec ==
    ASSUME NEW c, NEW mem \in Tabela, Transacao(c, mem)
    PROVE  \A q \in Pagamentos : pag'[q].rec = mem[q].rec \/ pag'[q].rec = "conflict"
<1>1. PICK banco \in Tabela : pag' = mem \/ pag' = FlagPaymentConflict(mem, banco, c)
  BY DEF Transacao, ConfirmPaid
<1>2. CASE pag' = mem
  BY <1>2
<1>3. CASE pag' = FlagPaymentConflict(mem, banco, c) /\ Aprovados(banco, c) # {}
  <2> DEFINE m == Max(Aprovados(banco, c))
  <2>1. m \in Pagamentos
    BY <1>3, MaxPertence DEF Aprovados
  <2>2. pag' = [mem EXCEPT ![m] = [@ EXCEPT !.rec = "conflict"]]
    BY <1>3 DEF FlagPaymentConflict
  <2> HIDE DEF m
  <2>3. mem[m] \in PagamentoRec \cup {Vazio}
    BY <2>1 DEF Tabela
  <2>4. [mem[m] EXCEPT !.rec = "conflict"].rec = "conflict"
    BY <2>3 DEF PagamentoRec, Vazio
  <2> QED BY <2>1, <2>2, <2>4 DEF Tabela
<1> QED BY <1>1, <1>2, <1>3 DEF FlagPaymentConflict

(* A charge that becomes validly financed without a booking of its own already
   was before. *)
LEMMA FinanciamentoAlheio ==
    ASSUME TypeOK, pag' \in Tabela, NEW d \in Cobrancas,
           ValorPago(pag', d) = ValorPago(pag, d),
           \A q \in Pagamentos : pag[q].cob = d =>
               /\ pag'[q].cob = d
               /\ pag'[q].rec = pag[q].rec \/ pag'[q].rec # "nenhuma",
           FinanciamentoValido(pag', d)
    PROVE  FinanciamentoValido(pag, d)
BY DEF FinanciamentoValido

Devolvido(c) == \E p \in Pagamentos : pag[p].cob = c /\ pag[p].status = "reembolsado"

(* What CreditosFinanciados asks of one charge. *)
Lastreada(c) ==
    Finalidade[c] = "creditos" =>
        /\ FinanciamentoValido(pag, c) => lotes[c]
        /\ lotes[c] => ValorPago(pag, c) = Total[c] \/ Devolvido(c)

(* A charge whose money and rows a step leaves alone keeps its backing. *)
LEMMA LastroAlheio ==
    ASSUME TypeOK, pag' \in Tabela, NEW d \in Cobrancas, Lastreada(d),
           ValorPago(pag', d) = ValorPago(pag, d), lotes'[d] = lotes[d],
           \A q \in Pagamentos : pag[q].cob = d =>
               /\ pag'[q].cob = d /\ pag'[q].status = pag[q].status
               /\ pag'[q].rec = pag[q].rec \/ pag'[q].rec # "nenhuma"
    PROVE  Lastreada(d)'
<1>1. FinanciamentoValido(pag', d) => FinanciamentoValido(pag, d)
  BY FinanciamentoAlheio
<1>2. Devolvido(d) => Devolvido(d)'
  BY DEF Devolvido
<1> QED BY <1>1, <1>2 DEF Lastreada

(* The charge that is booked: whatever its lots had as backing, the booking
   leaves the charge fully paid, or a refund to show for it. *)
LEMMA LastroProprio ==
    ASSUME TypeOK, pag' \in Tabela, NEW c \in Cobrancas, NEW mem \in Tabela,
           Transacao(c, mem),
           Finalidade[c] = "creditos" /\ lotes[c] =>
               ValorPago(mem, c) >= Total[c] \/ Devolvido(c)'
    PROVE  Lastreada(c)'
<1>1. ValorPago(pag', c) = ValorPago(mem, c) /\ ValorPago(mem, c) <= Total[c]
      /\ ValorPago(mem, c) \in Nat
  BY ValorPagoEquivalente, ValorPagoNatural DEF Transacao
<1>2. Finalidade[c] = "creditos" =>
        lotes'[c] = (lotes[c] \/ FinanciamentoValido(pag', c))
  BY DEF Transacao, Liberar, TypeOK
<1>3. FinanciamentoValido(pag', c) => ValorPago(pag', c) = Total[c]
  BY DEF FinanciamentoValido
<1>4. ValorPago(mem, c) >= Total[c] => ValorPago(pag', c) = Total[c]
  BY <1>1
<1> QED BY <1>2, <1>3, <1>4 DEF Lastreada

LEMMA PassoLastro ==
    ASSUME IInv, NuncaSobrepago, pag' \in Tabela, Forma, \A d \in Cobrancas : Lastreada(d)
    PROVE  \A d \in Cobrancas : Lastreada(d)'
<1>0. TypeOK /\ pag \in Tabela /\ SemCobranca \notin Cobrancas
  BY DEF IInv, TypeOK, Tabela
<1>1. CASE Neutro
  <2>1. \A d : ValorPago(pag', d) = ValorPago(pag, d)
    BY <1>0, <1>1, ValorPagoEquivalente DEF Neutro
  <2>2. \A q \in Pagamentos : /\ pag'[q].cob = pag[q].cob /\ pag'[q].status = pag[q].status
                              /\ pag'[q].rec = pag[q].rec \/ pag'[q].rec # "nenhuma"
    BY <1>1 DEF Neutro, Equivalente
  <2> QED BY <1>0, <1>1, <2>1, <2>2, LastroAlheio DEF Neutro
<1>2. CASE Emitido
  BY <1>0, <1>2, LastroAlheio DEF Emitido, SolicitarLicenca
<1>3. CASE Aberto
  <2>1. PICK p \in Pagamentos : Trocado(p, pag') /\ ~Usado(p) /\ UNCHANGED lotes
    BY <1>3 DEF Aberto, Inserida, efeitos
  <2>2. pag[p].cob \notin Cobrancas
    BY <1>0, <2>1, LinhaUsada DEF Usado, Vazio
  <2>3. ASSUME NEW d \in Cobrancas PROVE Lastreada(d)'
    <3>1. \A q \in Pagamentos : pag[q].cob = d => pag'[q] = pag[q]
      BY <2>1, <2>2 DEF Trocado
    <3> QED BY <1>0, <1>3, <3>1, AbertoNaoPaga, LastroAlheio, <2>1
  <2> QED BY <2>3
<1>4. ASSUME NEW p \in Pagamentos, NEW c \in Cobrancas, NEW mem \in Tabela,
             Lancamento(p, c, mem),
             Finalidade[c] = "creditos" /\ lotes[c] /\ ~(ValorPago(mem, c) >= Total[c]) =>
                 \E q \in Pagamentos : mem[q].cob = c /\ mem[q].status = "reembolsado"
      PROVE  \A d \in Cobrancas : Lastreada(d)'
  <2>1. Transacao(c, mem) /\ Trocado(p, mem) /\ Equivalente(pag', mem)
    BY <1>4 DEF Lancamento, Transacao
  <2>2. Lastreada(c)'
    <3>1. (\E q \in Pagamentos : mem[q].cob = c /\ mem[q].status = "reembolsado") => Devolvido(c)'
      BY <2>1 DEF Devolvido, Equivalente
    <3> QED BY <1>0, <1>4, <2>1, <3>1, LastroProprio
  <2>3. ASSUME NEW d \in Cobrancas \ {c} PROVE Lastreada(d)'
    <3>1. ValorPago(pag', d) = ValorPago(pag, d) /\ lotes'[d] = lotes[d]
      BY <1>0, <1>4, LancamentoAlheio
    <3>2. pag[p].cob # d
      BY <1>0, <1>4, LinhaUsada DEF Lancamento, Usado, Vazio
    <3>3. \A q \in Pagamentos : pag[q].cob = d => mem[q] = pag[q]
      BY <2>1, <3>2 DEF Trocado
    <3>4. \A q \in Pagamentos : /\ pag'[q].cob = mem[q].cob /\ pag'[q].status = mem[q].status
                                /\ pag'[q].rec = mem[q].rec \/ pag'[q].rec = "conflict"
      BY <2>1, TransacaoRec DEF Equivalente
    <3> QED BY <1>0, <3>1, <3>3, <3>4, LastroAlheio
  <2> QED BY <2>2, <2>3
<1>5. CASE Lancado
  <2>1. PICK p \in Pagamentos, c \in Cobrancas, v \in Nat, mem \in Tabela :
          Inserida(p, c, v, "aprovado", mem) /\ Transacao(c, mem)
    BY <1>5 DEF Lancado
  <2>2. Lancamento(p, c, mem) /\ Trocado(p, mem) /\ ~Usado(p)
        /\ v # 0 /\ v + ValorPago(pag, c) <= Total[c]
    BY <2>1 DEF Inserida, Lancamento
  <2>3. ValorPago(pag, c) # Total[c]
    BY <1>0, <2>2, ValorPagoNatural
  <2>4. Finalidade[c] = "creditos" /\ lotes[c] => Devolvido(c)
    BY <2>3 DEF Lastreada
  <2>5. Devolvido(c) => \E q \in Pagamentos : mem[q].cob = c /\ mem[q].status = "reembolsado"
    BY <2>2 DEF Devolvido, Trocado, Usado
  <2> QED BY <1>4, <2>2, <2>4, <2>5
<1>6. ASSUME NEW p \in Pagamentos, Anulado(p) PROVE \A d \in Cobrancas : Lastreada(d)'
  <2>1. PICK mem \in Tabela : /\ ~lotes[pag[p].cob] /\ Mudada(p, "cancelado", mem)
                              /\ Transacao(pag[p].cob, mem)
    BY <1>6 DEF Anulado
  <2>2. pag[p].cob \in Cobrancas
    BY <1>0, <2>1, LinhaUsada DEF Mudada, Usado, PagamentoRec
  <2>3. Lancamento(p, pag[p].cob, mem)
    BY <2>1 DEF Mudada, Lancamento
  <2> QED BY <1>4, <2>1, <2>2, <2>3
<1>7. ASSUME NEW p \in Pagamentos, Movido(p) PROVE \A d \in Cobrancas : Lastreada(d)'
  <2> DEFINE c == pag[p].cob
  <2>1. PICK s \in PagamentoStatus, mem \in Tabela :
          Mudada(p, SafeTransition(pag[p].status, s), mem) /\ Transacao(c, mem)
    BY <1>7 DEF Movido
  <2>2. /\ Trocado(p, mem) /\ Usado(p)
        /\ mem[p].cob = c /\ mem[p].valor = pag[p].valor
        /\ mem[p].status = SafeTransition(pag[p].status, s)
    BY <2>1 DEF Mudada
  <2>3. c \in Cobrancas /\ pag[p].status \in PagamentoStatus /\ pag[p].valor \in Nat
    BY <1>0, <2>2, LinhaUsada DEF Usado, PagamentoRec
  <2>4. /\ pag[p].status = "aprovado" => mem[p].status \in {"aprovado", "reembolsado"}
        /\ pag[p].status = "reembolsado" => mem[p].status = "reembolsado"
    BY <2>2, <2>3, TransicaoTipos
  <2>5. Lancamento(p, c, mem)
    BY <2>1, <2>2 DEF Lancamento
  <2>6. /\ ValorPago(mem, c) = ValorPago(pag, c) - Contribui(pag[p]) + Contribui(mem[p])
        /\ ValorPago(pag, c) \in Nat
    BY <1>0, <2>1, <2>2, <2>3, PagoTrocado, ValorPagoNatural DEF Transacao
  <2>7. CASE Devolvido(c)
    <3>1. \E q \in Pagamentos : mem[q].cob = c /\ mem[q].status = "reembolsado"
      BY <2>2, <2>4, <2>7 DEF Devolvido, Trocado
    <3> QED BY <1>4, <2>3, <2>5, <3>1
  <2>8. CASE ~Devolvido(c)
    <3>1. Finalidade[c] = "creditos" /\ lotes[c] => ValorPago(pag, c) = Total[c]
      BY <2>3, <2>8 DEF Lastreada
    <3>2. CASE mem[p].status = "reembolsado"
      BY <1>4, <2>2, <2>3, <2>5, <3>2
    <3>3. CASE mem[p].status # "reembolsado"
      <4>1. Contribui(pag[p]) \in Nat /\ Contribui(mem[p]) \in Nat
            /\ Contribui(mem[p]) >= Contribui(pag[p])
        BY <2>2, <2>3, <2>4, <3>3 DEF Contribui
      <4>2. ValorPago(mem, c) >= ValorPago(pag, c)
        BY <2>6, <4>1
      <4> QED BY <1>4, <2>3, <2>5, <3>1, <4>2
    <3> QED BY <3>2, <3>3
  <2> QED BY <2>7, <2>8
<1> QED BY <1>1, <1>2, <1>3, <1>5, <1>6, <1>7 DEF Forma

(* Credits exist as soon as their charge is validly financed, and keep that
   backing until the provider refunds it: no annulment, late answer or repeated
   notification takes it away. *)
THEOREM CreditosComLastro == Spec => []CreditosFinanciados
<1> DEFINE Lastro == \A c \in Cobrancas : Lastreada(c)
<1>1. Init => IInv /\ NuncaSobrepago /\ Lastro
  <2> SUFFICES ASSUME Init, NEW c \in Cobrancas PROVE Lastreada(c)
    BY InicioLigado, InicioSobrepago
  <2>1. Aprovados(pag, c) = {}
    BY DEF Init, Aprovados, Vazio
  <2>2. ValorPago(pag, c) = 0
    BY <2>1, ValorPagoNulo, InicioLigado DEF IInv, TypeOK, Tabela
  <2>3. ~lotes[c] /\ Total[c] # 0
    BY DEF Init
  <2> QED BY <2>2, <2>3 DEF Lastreada, FinanciamentoValido
<1>2. IInv /\ NuncaSobrepago /\ Lastro /\ [Next]_vars => (IInv /\ NuncaSobrepago /\ Lastro)'
  <2> SUFFICES ASSUME IInv, NuncaSobrepago, Lastro, [Next]_vars
               PROVE  IInv' /\ NuncaSobrepago' /\ Lastro'
    OBVIOUS
  <2>1. IInv' /\ Forma
    BY PassoLigado
  <2>2. pag' \in Tabela
    BY <2>1 DEF IInv, TypeOK, Tabela
  <2>3. NuncaSobrepago'
    BY <2>1, <2>2, PassoNuncaSobrepago DEF IInv
  <2> QED BY <2>1, <2>2, <2>3, PassoLastro
<1>3. Lastro => CreditosFinanciados
  BY DEF Lastreada, Devolvido, CreditosFinanciados
<1> QED BY <1>1, <1>2, <1>3, PTL DEF Spec

-----------------------------------------------------------------------------
(* The side of the provider: what a step does to requests, orders and the
   answers that were read from them. *)

(* The life of one request and its order in a step.  An order moves only while
   payments and answers stand still. *)
Percurso(p) ==
    \/ env'[p] = env[p] /\ ord'[p] = ord[p]
    \/ env'[p] = "fim" /\ ord'[p] = ord[p]
    \/ env'[p] = "aberta" /\ ord'[p] = ord[p] /\ ~Usado(p) /\ pag'[p].status = "pendente"
    \/ /\ env[p] \in {"aberta", "voando"} /\ env'[p] \in {"voando", "atrasada"}
       /\ ord'[p] = ord[p] /\ UNCHANGED pag
    \/ /\ env[p] \in {"voando", "atrasada"} /\ env'[p] \in {ord'[p], "fim"}
       /\ ord'[p] \in {"action_required", "processed", "failed"}
       /\ UNCHANGED <<pag, req>>
    \/ /\ env'[p] = env[p]
       /\ ord'[p] \in OrdemSeguinte(pag[p].metodo, ord[p])
       /\ UNCHANGED <<pag, req>>

(* A new request carries what its order says now, or an answer that would pay
   too much. *)
Leituras ==
    \A r \in req' :
        \/ r \in req
        \/ r.ver = ord[r.p] /\ (r.web => aviso[r.p])
        \/ /\ r.ver \notin OrdemStatus
           /\ r.web => \E x \in req : x.p = r.p /\ x.ver \in OrdemStatus /\ Excede(x.p, x.ver)

(* Notifications appear when an order moves or a request ends badly, and a
   processed order loses its own only when it is applied. *)
Aviso(p) ==
    /\ aviso'[p] => \/ aviso[p]
                    \/ ord'[p] \in OrdemStatus \ {"action_required"}
                    \/ \E r \in req : r.p = p /\ r.web
    /\ ord'[p] = "processed" /\ ord[p] # "processed" => aviso'[p]
    /\ ord'[p] = "processed" /\ ord[p] = "processed" /\ Avisado(p) =>
          \/ Avisado(p)'
          \/ \E r \in req : /\ r.p = p /\ r.web
                            /\ r.ver \in OrdemStatus => ApplyReconciliation(p, r.ver)

Externos == (\A p \in Pagamentos : Percurso(p) /\ Aviso(p)) /\ Leituras

LEMMA ExternosParados == ASSUME UNCHANGED <<env, ord, aviso, req>> PROVE Externos
BY DEF Externos, Percurso, Aviso, Leituras, Avisado

LEMMA EnviosExternos ==
    ASSUME IInv, NEW p \in Pagamentos, Envios(p)
    PROVE  Externos
<1>0. env \in [Pagamentos -> Envio \cup OrdemStatus]
  BY DEF IInv, TypeOK
<1>1. UNCHANGED <<ord, aviso, req>> /\ \A q \in Pagamentos \ {p} : env'[q] = env[q]
  BY <1>0 DEF Envios, EnviarInicia, EnviarResposta, EnviarRejeitada, EnviarFalha, Encerra
<1>2. Percurso(p)
  <2>1. CASE EnviarInicia(p)
    BY <1>0, <2>1 DEF EnviarInicia, Percurso
  <2>2. CASE EnviarFalha(p)
    BY <1>0, <2>2 DEF EnviarFalha, Percurso
  <2>3. CASE EnviarResposta(p) \/ EnviarRejeitada(p)
    BY <1>0, <1>1, <2>3 DEF EnviarResposta, EnviarRejeitada, Encerra, Percurso
  <2> QED BY <2>1, <2>2, <2>3 DEF Envios
<1> QED BY <1>1, <1>2 DEF Externos, Percurso, Aviso, Leituras, Avisado

LEMMA ProvedorExternos ==
    ASSUME IInv, NEW p \in Pagamentos, MercadoPago(p)
    PROVE  Externos
<1>0. /\ env \in [Pagamentos -> Envio \cup OrdemStatus]
      /\ ord \in [Pagamentos -> OrdemStatus \cup {"none"}]
      /\ aviso \in [Pagamentos -> BOOLEAN]
  BY DEF IInv, TypeOK
<1>1. PICK s \in OrdemStatus : ProvedorCria(p, s) \/ ProvedorMuda(p, s)
  BY DEF MercadoPago
<1>2. /\ UNCHANGED <<pag, req>> /\ ord'[p] = s
      /\ \A q \in Pagamentos \ {p} : env'[q] = env[q] /\ ord'[q] = ord[q] /\ aviso'[q] = aviso[q]
  BY <1>0, <1>1 DEF ProvedorCria, ProvedorMuda
<1>3. Percurso(p)
  <2>1. CASE ProvedorCria(p, s)
    <3>1. s \in {"action_required", "processed", "failed"}
      BY <2>1 DEF ProvedorCria, OrdemInicial
    <3>2. env[p] \in {"voando", "atrasada"} /\ env'[p] \in {s, "fim"}
      BY <1>0, <2>1 DEF ProvedorCria
    <3> QED BY <1>2, <3>1, <3>2 DEF Percurso
  <2>2. CASE ProvedorMuda(p, s)
    BY <1>2, <2>2 DEF ProvedorMuda, Percurso
  <2> QED BY <1>1, <2>1, <2>2
<1>4. /\ aviso'[p] => aviso[p] \/ s # "action_required"
      /\ s = "processed" => aviso'[p]
  BY <1>0, <1>1 DEF ProvedorCria, ProvedorMuda, Notificado
<1>5. Aviso(p)
  BY <1>2, <1>4 DEF Aviso, Avisado
<1> QED BY <1>2, <1>3, <1>5 DEF Externos, Percurso, Aviso, Leituras, Avisado

LEMMA ConciliacaoExternos ==
    ASSUME IInv, NEW p \in Pagamentos, Conciliacao(p)
    PROVE  Externos
<1>0. aviso \in [Pagamentos -> BOOLEAN] /\ \A r \in req : r.ver \in Leitura
  BY DEF IInv, TypeOK
<1>1. CASE ReconcilePayment(p)
  <2> DEFINE r == [p |-> p, ver |-> IF pag[p].ordem THEN ord[p] ELSE "sem_ordem", web |-> FALSE]
  <2>1. r.p = p /\ ~r.web /\ (r.ver = ord[p] \/ r.ver \notin OrdemStatus)
    BY DEF OrdemStatus
  <2>2. req' = req \cup {r} /\ UNCHANGED <<env, ord, aviso>>
    BY <1>1 DEF ReconcilePayment
  <2> HIDE DEF r
  <2> QED BY <2>1, <2>2 DEF Externos, Percurso, Aviso, Leituras, Avisado
<1>2. CASE ReconcileOrder(p)
  <2> DEFINE r == [p |-> p, ver |-> ord[p], web |-> TRUE]
  <2>1. r.p = p /\ r.web /\ r.ver = ord[p]
    OBVIOUS
  <2>2. /\ aviso[p] /\ req' = req \cup {r} /\ UNCHANGED <<env, ord>>
        /\ aviso' = [aviso EXCEPT ![p] = FALSE]
    BY <1>2 DEF ReconcileOrder
  <2> HIDE DEF r
  <2>3. Avisado(p)'
    BY <2>1, <2>2 DEF Avisado
  <2> QED BY <1>0, <2>1, <2>2, <2>3 DEF Externos, Percurso, Aviso, Leituras, Avisado
<1> QED BY <1>1, <1>2 DEF Conciliacao

LEMMA RequisicaoExternos ==
    ASSUME IInv, NEW r \in req, Requisicao(r)
    PROVE  Externos
<1>0. /\ aviso \in [Pagamentos -> BOOLEAN]
      /\ r \in [p: Pagamentos, ver: Leitura, web: BOOLEAN]
      /\ r.p \in Pagamentos
  BY DEF IInv, TypeOK
<1>1. /\ UNCHANGED <<env, ord>>
      /\ \A q \in Pagamentos : aviso[q] => aviso'[q]
      /\ \A q \in Pagamentos : aviso'[q] => aviso[q] \/ (q = r.p /\ r.web)
  BY <1>0 DEF Requisicao, ReqAplica, ReqMarca, ReqFalha
<1> DEFINE Nasce(q) == aviso'[q] => aviso[q] \/ \E x \in req : x.p = q /\ x.web
           Fica(q) == \/ Avisado(q)'
                      \/ \E x \in req : /\ x.p = q /\ x.web
                                        /\ x.ver \in OrdemStatus => ApplyReconciliation(q, x.ver)
<1>7. \A q \in Pagamentos : Nasce(q) /\ ord'[q] = ord[q] /\ Percurso(q)
  <2> SUFFICES ASSUME NEW q \in Pagamentos PROVE Nasce(q) /\ ord'[q] = ord[q] /\ Percurso(q)
    OBVIOUS
  <2>1. env' = env /\ ord' = ord
    BY <1>1
  <2>2. Percurso(q) /\ ord'[q] = ord[q]
    BY <2>1 DEF Percurso
  <2>3. Nasce(q)
    BY <1>1
  <2> QED BY <2>2, <2>3
<1>8. ASSUME \A q \in Pagamentos : Avisado(q) => Fica(q), Leituras PROVE Externos
  <2>1. \A q \in Pagamentos : Aviso(q)
    <3> HIDE DEF Nasce, Fica
    <3>1. SUFFICES ASSUME NEW q \in Pagamentos PROVE Aviso(q)
      OBVIOUS
    <3>2. Nasce(q) /\ ord'[q] = ord[q] /\ (Avisado(q) => Fica(q))
      BY <1>7, <1>8
    <3> QED BY <3>2, Zenon DEF Aviso, Nasce, Fica
  <2> QED BY <1>7, <1>8, <2>1 DEF Externos
<1>2. ASSUME req' = req \ {r},
             \/ r.ver \in OrdemStatus => ApplyReconciliation(r.p, r.ver)
             \/ r.web => aviso'[r.p]
      PROVE  Externos
  <2>1. ASSUME NEW q \in Pagamentos, Avisado(q)
        PROVE  \/ Avisado(q)'
               \/ \E x \in req : /\ x.p = q /\ x.web
                                 /\ x.ver \in OrdemStatus => ApplyReconciliation(q, x.ver)
    <3>1. CASE aviso[q]
      BY <1>1, <3>1 DEF Avisado
    <3>2. CASE \E x \in req \ {r} : x.p = q /\ x.web
      BY <1>2, <3>2 DEF Avisado
    <3>3. CASE r.p = q /\ r.web
      BY <1>2, <3>3 DEF Avisado
    <3> QED BY <2>1, <3>1, <3>2, <3>3 DEF Avisado
  <2> QED BY <1>2, <1>8, <2>1 DEF Leituras
<1>3. CASE /\ req' = (req \ {r}) \cup {[r EXCEPT !.ver = "excedente"]}
           /\ r.ver \in OrdemStatus /\ Excede(r.p, r.ver)
  <2> DEFINE n == [r EXCEPT !.ver = "excedente"]
  <2>1. n.p = r.p /\ n.web = r.web /\ n.ver \notin OrdemStatus
    BY <1>0 DEF OrdemStatus
  <2>2. req' = (req \ {r}) \cup {n}
    BY <1>3
  <2> HIDE DEF n
  <2>3. \A q \in Pagamentos : Avisado(q) => Avisado(q)'
    BY <1>1, <2>1, <2>2 DEF Avisado
  <2>4. Leituras
    BY <1>3, <2>1, <2>2 DEF Leituras
  <2> QED BY <1>8, <2>3, <2>4
<1>4. CASE ReqAplica(r)
  BY <1>2, <1>3, <1>4 DEF ReqAplica
<1>5. CASE ReqMarca(r)
  BY <1>2, <1>5 DEF ReqMarca, OrdemStatus
<1>6. CASE ReqFalha(r)
  BY <1>0, <1>2, <1>6 DEF ReqFalha
<1> QED BY <1>4, <1>5, <1>6 DEF Requisicao

(* One query under the locks of a cancellation. *)
LEMMA ReconciliaExternos ==
    ASSUME NEW p \in Pagamentos, NEW c, NEW depois, depois => UNCHANGED req,
           Reconcilia(c, p, ord[p], depois), UNCHANGED <<env, ord, aviso>>
    PROVE  Externos
<1> DEFINE n == [p |-> p, ver |-> "excedente", web |-> FALSE]
<1>1. ~n.web /\ n.ver \notin OrdemStatus
  BY DEF OrdemStatus
<1>2. req' = req \/ req' = req \cup {n}
  BY DEF Reconcilia
<1> HIDE DEF n
<1>3. Leituras
  BY <1>1, <1>2 DEF Leituras
<1>4. \A q \in Pagamentos : Avisado(q) => Avisado(q)'
  BY <1>2 DEF Avisado
<1>5. \A q \in Pagamentos : Percurso(q) /\ Aviso(q)
  BY <1>4 DEF Percurso, Aviso
<1> QED BY <1>3, <1>5 DEF Externos

LEMMA CancelamentoExternos ==
    ASSUME IInv, NEW c \in Cobrancas, Cancelamento(c)
    PROVE  Externos
<1> DEFINE p == trava[c].dono
<1>0. /\ trava[c].passo # "livre" => p \in Pagamentos
      /\ ord \in [Pagamentos -> OrdemStatus \cup {"none"}]
      /\ aviso \in [Pagamentos -> BOOLEAN]
  BY DEF IInv, TypeOK, Ligado
<1>1. CASE CancelarFalha(c)
  BY <1>1, ExternosParados DEF CancelarFalha
<1>2. CASE ConfirmarCancelamento(c)
  <2> DEFINE segue == /\ Solta(c)
                      /\ pag' = SemConfirmacao(p, trava[c].passo)
                      /\ UNCHANGED <<cobr, req, efeitos>>
  <2>1. trava[c].passo \in {"reler", "confirmar"} /\ Reconcilia(c, p, ord[p], segue)
        /\ UNCHANGED <<env, ord, aviso>>
    BY <1>2 DEF ConfirmarCancelamento
  <2>2. p \in Pagamentos /\ (segue => UNCHANGED req)
    BY <1>0, <2>1
  <2> HIDE DEF segue, p
  <2> QED BY <2>1, <2>2, ReconciliaExternos
<1>3. CASE CancelOrder(c)
  <2>1. CASE UNCHANGED <<ord, aviso>>
    BY <1>3, <2>1, ExternosParados DEF CancelOrder
  <2>2. CASE ~UNCHANGED <<ord, aviso>>
    <3>1. /\ ord[p] = "action_required" /\ UNCHANGED <<pag, env, req>>
          /\ ord' = [ord EXCEPT ![p] = "canceled"]
          /\ aviso' = [aviso EXCEPT ![p] = TRUE]
      <4>1. trava[c].passo = "cancelar"
        BY <1>3 DEF CancelOrder
      <4>2. PICK feito \in BOOLEAN :
              /\ ord[p] = "action_required" /\ UNCHANGED <<pag, env, req>>
              /\ ord' = [ord EXCEPT ![p] = IF feito THEN "canceled" ELSE @]
              /\ aviso' = [aviso EXCEPT ![p] = @ \/ feito]
        BY <1>3, <2>2 DEF CancelOrder
      <4>3. p \in Pagamentos
        BY <1>0, <4>1
      <4> HIDE DEF p
      <4>4. CASE feito
        BY <1>0, <4>2, <4>3, <4>4
      <4>5. CASE ~feito
        <5>1. ord' = ord /\ aviso' = aviso
          BY <1>0, <4>2, <4>3, <4>5
        <5> QED BY <2>2, <5>1
      <4> QED BY <4>4, <4>5
    <3>2. p \in Pagamentos
      BY <1>0, <1>3 DEF CancelOrder
    <3>3. "canceled" \in OrdemSeguinte(pag[p].metodo, ord[p]) /\ "canceled" \in OrdemStatus
      BY <3>1 DEF OrdemSeguinte, OrdemStatus
    <3> HIDE DEF p
    <3>4. /\ ord'[p] = "canceled" /\ aviso'[p] /\ env'[p] = env[p]
          /\ \A q \in Pagamentos \ {p} : ord'[q] = ord[q] /\ aviso'[q] = aviso[q] /\ env'[q] = env[q]
      BY <1>0, <3>1, <3>2
    <3>5. \A q \in Pagamentos : Percurso(q)
      BY <3>1, <3>3, <3>4 DEF Percurso
    <3>6. \A q \in Pagamentos : Aviso(q)
      BY <3>1, <3>3, <3>4 DEF Aviso, Avisado
    <3> QED BY <3>1, <3>5, <3>6 DEF Externos, Leituras
  <2> QED BY <2>1, <2>2
<1> QED BY <1>1, <1>2, <1>3 DEF Cancelamento

LEMMA PassoExterno ==
    ASSUME IInv, [Next]_vars
    PROVE  Externos
<1>1. CASE UNCHANGED vars
  BY <1>1, ExternosParados DEF vars
<1>2. ASSUME NEW c \in Cobrancas, Cliente(c) PROVE Externos
  <2>1. CASE RecusarCheckout(c) \/ SolicitarLicenca(c)
    BY <2>1, ExternosParados DEF RecusarCheckout, SolicitarLicenca, externo
  <2>2. ASSUME NEW tipo \in PagamentoTipo, NEW metodo \in Metodos,
               GetOrCreateAttempt(c, tipo, metodo)
        PROVE  Externos
    <3>1. PICK p \in Pagamentos :
            /\ ~Usado(p) /\ env' = [env EXCEPT ![p] = "aberta"]
            /\ pag' = Inserido(p, c, tipo, ValorParaPagamento(pag, c, tipo), "pendente", metodo)
      BY <2>2 DEF GetOrCreateAttempt, Proximo
    <3>2. UNCHANGED <<ord, aviso, req>>
      BY <2>2 DEF GetOrCreateAttempt
    <3>3. pag'[p].status = "pendente"
      BY <3>1 DEF Inserido, IInv, TypeOK
    <3>4. env'[p] = "aberta" /\ \A q \in Pagamentos \ {p} : env'[q] = env[q]
      BY <3>1 DEF IInv, TypeOK
    <3>5. \A q \in Pagamentos : Percurso(q)
      BY <3>1, <3>2, <3>3, <3>4 DEF Percurso
    <3> QED BY <3>2, <3>5 DEF Externos, Aviso, Leituras, Avisado
  <2> QED BY <1>2, <2>1, <2>2 DEF Cliente
<1>3. ASSUME NEW c \in Cobrancas, Admin(c) PROVE Externos
  BY <1>3, ExternosParados DEF Admin, RegistrarPixManual, externo
<1>4. ASSUME NEW p \in Pagamentos, AnularPixManual(p) \/ EnvelheceTentativa(p) PROVE Externos
  BY <1>4, ExternosParados DEF AnularPixManual, EnvelheceTentativa, externo
<1>5. ASSUME NEW p \in Pagamentos, CancelarPixPendente(p) PROVE Externos
  <2> DEFINE c == pag[p].cob
             segue == /\ trava' = [trava EXCEPT ![c] = [dono |-> p, passo |-> "cancelar"]]
                      /\ UNCHANGED <<pag, cobr, req, efeitos>>
  <2>1. Reconcilia(c, p, ord[p], segue) /\ UNCHANGED <<env, ord, aviso>>
    BY <1>5 DEF CancelarPixPendente
  <2>2. segue => UNCHANGED req
    OBVIOUS
  <2> HIDE DEF segue, c
  <2> QED BY <2>1, <2>2, ReconciliaExternos
<1>6. CASE Catalogo
  BY <1>6, ExternosParados
     DEF Catalogo, ExpireReservations, Relist, RetirarBeat, AprovarBeat, ReleaseReservation,
         VenceReserva, externo
<1> QED BY <1>1, <1>2, <1>3, <1>4, <1>5, <1>6, EnviosExternos, ProvedorExternos,
           ConciliacaoExternos, RequisicaoExternos, CancelamentoExternos DEF Next

-----------------------------------------------------------------------------
(* The life of an order: while the provider does not revive an order that it
   reported dead (~Tardio), every answer the backend holds is a stage its order
   went through, and every status it recorded agrees with where the order is. *)

(* b is a, or comes after it. *)
Depois(a, b) ==
    \/ a = b
    \/ a = "action_required" /\ b \in OrdemStatus
    \/ a = "processed" /\ b \in {"refunded", "partially_refunded", "charged_back"}
    \/ a = "partially_refunded" /\ b = "refunded"

Coerente(status, o) ==
    /\ status = "aprovado" => o \in {"processed", "refunded", "partially_refunded", "charged_back"}
    /\ status = "recusado" => o \in {"none", "failed"}
    /\ status = "cancelado" => o \in {"expired", "canceled"}
    /\ status = "reembolsado" => o = "refunded"

EmVoo(p) == env[p] \in {"aberta", "voando", "atrasada"}

Vida ==
    /\ \A p \in Pagamentos :
        /\ EmVoo(p) => ord[p] = "none" /\ pag[p].status = "pendente"
        /\ env[p] \in OrdemStatus => Depois(env[p], ord[p])
        /\ DoProvedor(p) => Coerente(pag[p].status, ord[p])
    /\ \A r \in req : r.ver \in OrdemStatus => Depois(r.ver, ord[r.p])

(* An order only goes forward, and a status it agreed with stays true of it. *)
LEMMA OrdemAvanca ==
    ASSUME ~Tardio, NEW metodo, NEW o, NEW n \in OrdemSeguinte(metodo, o)
    PROVE  /\ o # "none" /\ n \in OrdemStatus \ {"action_required"}
           /\ \A a : Depois(a, o) => Depois(a, n)
           /\ \A status : Coerente(status, o) => Coerente(status, n)
<1>1. \/ o = "action_required" /\ n \in {"processed", "canceled", "expired", "failed"}
      \/ o = "processed" /\ n \in {"refunded", "partially_refunded", "charged_back"}
      \/ o = "partially_refunded" /\ n = "refunded"
  BY DEF OrdemSeguinte
<1> QED BY <1>1 DEF Depois, Coerente, OrdemStatus

(* What an answer says agrees with its order, whenever it was read. *)
LEMMA RespostaCoerente ==
    ASSUME Vida, NEW p \in Pagamentos, NEW s, Resposta(p, s)
    PROVE  /\ Coerente(s, ord[p])
           /\ EmVoo(p) => env'[p] = "fim"
<1>1. ASSUME NEW x \in OrdemStatus, Depois(x, ord[p]), s = Recebido(x)
      PROVE  Coerente(s, ord[p]) /\ ~EmVoo(p)
  <2>1. ord[p] # "none"
    BY <1>1 DEF Depois, OrdemStatus
  <2>2. Coerente(s, ord[p])
    BY <1>1 DEF Recebido, Coerente, Depois, OrdemStatus
  <2> QED BY <2>1, <2>2 DEF Vida
<1>2. CASE s = "recusado" /\ env[p] = "voando" /\ env'[p] = "fim"
  BY <1>2 DEF Vida, EmVoo, Coerente
<1>3. CASE env[p] \in OrdemStatus /\ s = Recebido(env[p])
  BY <1>1, <1>3 DEF Vida
<1>4. CASE \E r \in req : r.p = p /\ r.ver \in OrdemStatus /\ s = Recebido(r.ver)
  BY <1>1, <1>4 DEF Vida
<1>5. CASE ord[p] # "none" /\ s = Recebido(ord[p])
  <2>1. CASE ord[p] \in OrdemStatus
    BY <1>1, <1>5, <2>1 DEF Depois
  <2>2. CASE ord[p] \notin OrdemStatus
    BY <1>5, <2>2 DEF Vida, EmVoo, Recebido, Coerente, OrdemStatus
  <2> QED BY <2>1, <2>2
<1> QED BY <1>2, <1>3, <1>4, <1>5 DEF Resposta

(* How the status of a payment of the provider may change in a step. *)
LEMMA StatusMuda ==
    ASSUME IInv, pag' \in Tabela, Forma, NEW p \in Pagamentos, DoProvedor(p)'
    PROVE  \/ ~Usado(p) /\ pag'[p].status = "pendente"
           \/ DoProvedor(p) /\ pag'[p].status = pag[p].status
           \/ /\ DoProvedor(p)
              /\ \E s \in PagamentoStatus :
                    Resposta(p, s) /\ pag'[p].status = SafeTransition(pag[p].status, s)
<1>0. TypeOK /\ pag \in Tabela
  BY DEF IInv, TypeOK, Tabela
<1>1. CASE Neutro \/ Emitido
  BY <1>1 DEF Neutro, Emitido, Equivalente, DoProvedor, Usado
<1>2. CASE Aberto
  <2>1. PICK q \in Pagamentos : Trocado(q, pag') /\ ~Usado(q) /\ pag'[q].status = "pendente"
    BY <1>2 DEF Aberto, Inserida
  <2> QED BY <2>1 DEF Trocado, DoProvedor, Usado
<1>3. CASE Lancado
  <2>1. PICK q \in Pagamentos, mem \in Tabela :
          Trocado(q, mem) /\ mem[q].metodo = "pix_direto" /\ Equivalente(pag', mem)
    BY <1>3 DEF Lancado, Inserida, Transacao
  <2> QED BY <2>1 DEF Trocado, Equivalente, DoProvedor, Usado
<1>4. ASSUME NEW q \in Pagamentos, Anulado(q)
      PROVE  DoProvedor(p) /\ pag'[p].status = pag[p].status
  <2>1. PICK mem \in Tabela :
          /\ Trocado(q, mem) /\ mem[q].metodo = pag[q].metodo /\ pag[q].metodo = "pix_direto"
          /\ Equivalente(pag', mem)
    BY <1>4 DEF Anulado, Mudada, Transacao
  <2> QED BY <2>1 DEF Trocado, Equivalente, DoProvedor, Usado
<1>5. ASSUME NEW q \in Pagamentos, Movido(q)
      PROVE  \/ DoProvedor(p) /\ pag'[p].status = pag[p].status
             \/ /\ DoProvedor(p)
                /\ \E s \in PagamentoStatus :
                      Resposta(p, s) /\ pag'[p].status = SafeTransition(pag[p].status, s)
  <2>1. PICK s \in PagamentoStatus, mem \in Tabela :
          /\ DoProvedor(q) /\ Resposta(q, s) /\ Trocado(q, mem)
          /\ mem[q].status = SafeTransition(pag[q].status, s)
          /\ Equivalente(pag', mem)
    BY <1>5 DEF Movido, Mudada, Transacao
  <2>2. pag'[p].status = mem[p].status /\ pag'[p].metodo = mem[p].metodo
    BY <2>1 DEF Equivalente
  <2>3. CASE p = q
    BY <2>1, <2>2, <2>3
  <2>4. CASE p # q
    BY <2>1, <2>2, <2>4 DEF Trocado, DoProvedor, Usado
  <2> QED BY <2>3, <2>4
<1> QED BY <1>1, <1>2, <1>3, <1>4, <1>5 DEF Forma

LEMMA PassoVida ==
    ASSUME IInv, IInv', ~Tardio, Vida, Forma, Externos
    PROVE  Vida'
<1>0. pag' \in Tabela
  BY DEF IInv, TypeOK, Tabela
<1>1. ASSUME NEW p \in Pagamentos
      PROVE  /\ EmVoo(p)' => ord'[p] = "none" /\ pag'[p].status = "pendente"
             /\ env'[p] \in OrdemStatus => Depois(env'[p], ord'[p])
             /\ DoProvedor(p)' => Coerente(pag'[p].status, ord'[p])
             /\ \/ ord'[p] = ord[p]
                \/ UNCHANGED <<pag, req>> /\ \A a \in OrdemStatus : Depois(a, ord[p]) => Depois(a, ord'[p])
  <2>0. /\ EmVoo(p) => ord[p] = "none" /\ pag[p].status = "pendente"
        /\ env[p] \in OrdemStatus => Depois(env[p], ord[p])
        /\ DoProvedor(p) => Coerente(pag[p].status, ord[p])
    BY DEF Vida
  <2>1. ASSUME ord'[p] = ord[p]
        PROVE  DoProvedor(p)' => Coerente(pag'[p].status, ord'[p])
    <3> SUFFICES ASSUME DoProvedor(p)' PROVE Coerente(pag'[p].status, ord'[p])
      OBVIOUS
    <3>1. CASE pag'[p].status = "pendente"
      BY <3>1 DEF Coerente
    <3>2. CASE DoProvedor(p) /\ pag'[p].status = pag[p].status
      BY <2>0, <2>1, <3>2
    <3>3. ASSUME NEW s \in PagamentoStatus, DoProvedor(p), Resposta(p, s),
                 pag'[p].status = SafeTransition(pag[p].status, s)
          PROVE  Coerente(pag'[p].status, ord'[p])
      <4>1. Coerente(s, ord[p]) /\ Coerente(pag[p].status, ord[p])
        BY <2>0, <3>3, RespostaCoerente
      <4> QED BY <2>1, <3>3, <4>1 DEF SafeTransition
    <3> QED BY <1>0, <3>1, <3>2, <3>3, StatusMuda
  <2>2. CASE env'[p] = env[p] /\ ord'[p] = ord[p]
    <3>1. EmVoo(p)' => pag'[p].status = "pendente"
      <4> SUFFICES ASSUME EmVoo(p) PROVE pag'[p].status = "pendente"
        BY <2>2 DEF EmVoo
      <4>1. DoProvedor(p)'
        BY <2>2 DEF EmVoo, IInv, Ligado
      <4>2. ~\E s : Resposta(p, s)
        BY <2>2, RespostaCoerente DEF EmVoo
      <4> QED BY <1>0, <2>0, <4>1, <4>2, StatusMuda
    <3> QED BY <2>0, <2>1, <2>2, <3>1 DEF EmVoo
  <2>3. CASE env'[p] = "fim" /\ ord'[p] = ord[p]
    BY <2>1, <2>3 DEF EmVoo, OrdemStatus
  <2>4. CASE env'[p] = "aberta" /\ ord'[p] = ord[p] /\ ~Usado(p) /\ pag'[p].status = "pendente"
    <3>1. ord[p] = "none"
      BY <2>4 DEF IInv, Ligado, DoProvedor
    <3> QED BY <2>1, <2>4, <3>1 DEF EmVoo, OrdemStatus
  <2>5. CASE /\ env[p] \in {"aberta", "voando"} /\ env'[p] \in {"voando", "atrasada"}
             /\ ord'[p] = ord[p] /\ UNCHANGED pag
    BY <2>0, <2>1, <2>5 DEF EmVoo, OrdemStatus
  <2>6. CASE /\ env[p] \in {"voando", "atrasada"} /\ env'[p] \in {ord'[p], "fim"}
             /\ ord'[p] \in {"action_required", "processed", "failed"}
             /\ UNCHANGED <<pag, req>>
    <3>1. ord[p] = "none" /\ pag'[p].status = "pendente"
      BY <2>0, <2>6 DEF EmVoo
    <3>2. \A a \in OrdemStatus : ~Depois(a, "none")
      BY DEF Depois, OrdemStatus
    <3> QED BY <2>6, <3>1, <3>2 DEF EmVoo, OrdemStatus, Depois, Coerente
  <2>7. CASE /\ env'[p] = env[p]
             /\ ord'[p] \in OrdemSeguinte(pag[p].metodo, ord[p])
             /\ UNCHANGED <<pag, req>>
    <3>1. /\ ord[p] # "none"
          /\ \A a : Depois(a, ord[p]) => Depois(a, ord'[p])
          /\ \A status : Coerente(status, ord[p]) => Coerente(status, ord'[p])
      BY <2>7, OrdemAvanca
    <3> QED BY <2>0, <2>7, <3>1 DEF EmVoo, DoProvedor, Usado
  <2>8. Percurso(p)
    BY DEF Externos
  <2> QED BY <2>2, <2>3, <2>4, <2>5, <2>6, <2>7, <2>8 DEF Percurso
<1>2. ASSUME NEW r \in req', r.ver \in OrdemStatus
      PROVE  Depois(r.ver, ord'[r.p])
  <2>0. r.p \in Pagamentos
    BY <1>2 DEF IInv, TypeOK
  <2>1. r \in req \/ r.ver = ord[r.p]
    BY <1>2 DEF Externos, Leituras
  <2>2. Depois(r.ver, ord[r.p])
    BY <1>2, <2>1 DEF Vida, Depois
  <2> QED BY <1>1, <1>2, <2>0, <2>2
<1> QED BY <1>1, <1>2 DEF Vida

LEMMA InicioVida == Init => Vida
BY DEF Init, Vida, EmVoo, OrdemStatus, DoProvedor, Usado, Vazio

LEMMA VidaInvariante == ASSUME ~Tardio PROVE Spec => [](IInv /\ Vida)
<1>1. Init => IInv /\ Vida
  BY InicioLigado, InicioVida
<1>2. IInv /\ Vida /\ [Next]_vars => (IInv /\ Vida)'
  BY PassoLigado, PassoExterno, PassoVida
<1> QED BY <1>1, <1>2, PTL DEF Spec

(* A payment recorded as refused or cancelled is one the provider can no longer
   collect, whatever answers cross, as long as it does not revive dead orders. *)
THEOREM DesfechoSeguro == ASSUME ~Tardio PROVE Spec => []DesfechoConfirmado
<1>1. IInv /\ Vida => DesfechoConfirmado
  BY DEF DesfechoConfirmado, Vida, Coerente, EmVoo
<1> QED BY <1>1, VidaInvariante, PTL

-----------------------------------------------------------------------------
(* What was collected and what can still be: the approved and the pending
   payments of a charge never commit more than its total. *)

Vivo(linha) == linha.status \in {"aprovado", "pendente"}

Compromisso(pg, c) ==
    [p \in Pagamentos |-> IF pg[p].cob = c /\ Vivo(pg[p]) THEN pg[p].valor ELSE 0]

Comprometido(pg, c) == Soma(Compromisso(pg, c), MaxPagamentos)

Cabe == \A c \in Cobrancas : Comprometido(pag, c) <= Total[c]

LEMMA CompromissoNatural ==
    ASSUME NEW pg \in Tabela, NEW c
    PROVE  /\ \A k \in 1..MaxPagamentos : Compromisso(pg, c)[k] \in Nat
           /\ Comprometido(pg, c) \in Nat
<1>1. \A k \in 1..MaxPagamentos : Compromisso(pg, c)[k] \in Nat
  BY LinhaUsada DEF Compromisso, Pagamentos
<1>2. MaxPagamentos \in Nat
  OBVIOUS
<1> QED BY <1>1, <1>2, SomaNatural DEF Comprometido

(* Where every living row of a is a living row of b with the same amount, a
   commits no more than b. *)
LEMMA ComprometidoMenor ==
    ASSUME NEW a \in Tabela, NEW b \in Tabela, NEW c,
           \A q \in Pagamentos : a[q].cob = c /\ Vivo(a[q]) =>
               b[q].cob = c /\ Vivo(b[q]) /\ a[q].valor = b[q].valor
    PROVE  Comprometido(a, c) <= Comprometido(b, c)
<1> DEFINE f == Compromisso(a, c)
           g == Compromisso(b, c)
<1>1. \A k \in 1..MaxPagamentos : f[k] \in Nat /\ g[k] \in Nat
  BY CompromissoNatural
<1>2. \A k \in 1..MaxPagamentos : f[k] = g[k] \/ f[k] = 0
  BY DEF Compromisso, Pagamentos
<1>3. \A k \in 1..MaxPagamentos : f[k] \in Int /\ g[k] \in Int /\ f[k] <= g[k]
  <2> HIDE DEF f, g
  <2> QED BY <1>1, <1>2
<1>4. MaxPagamentos \in Nat
  OBVIOUS
<1> HIDE DEF f, g
<1>5. Soma(f, MaxPagamentos) <= Soma(g, MaxPagamentos)
  BY <1>3, <1>4, SomaMonotona
<1> QED BY <1>5 DEF Comprometido, f, g

(* What is paid is committed. *)
LEMMA PagoComprometido ==
    ASSUME NEW pg \in Tabela, NEW c
    PROVE  ValorPago(pg, c) <= Comprometido(pg, c)
<1> DEFINE f == Contribuicao(pg, c)
           g == Compromisso(pg, c)
<1>1. \A k \in 1..MaxPagamentos : f[k] \in Nat /\ g[k] \in Nat
  BY CompromissoNatural, ContribuicaoNatural
<1>2. \A k \in 1..MaxPagamentos : f[k] = g[k] \/ f[k] = 0
  BY DEF Compromisso, Contribuicao, Aprovados, Pagamentos, Vivo
<1>3. \A k \in 1..MaxPagamentos : f[k] \in Int /\ g[k] \in Int /\ f[k] <= g[k]
  <2> HIDE DEF f, g
  <2> QED BY <1>1, <1>2
<1>4. MaxPagamentos \in Nat
  OBVIOUS
<1> HIDE DEF f, g
<1>5. Soma(f, MaxPagamentos) <= Soma(g, MaxPagamentos)
  BY <1>3, <1>4, SomaMonotona
<1> QED BY <1>5 DEF Comprometido, ValorPago, f, g

(* A new row on a charge without open attempts commits what is paid and its
   own amount. *)
LEMMA InseridaCabe ==
    ASSUME IInv, DiretoDefinitivo, Cabe, NEW p \in Pagamentos, NEW c \in Cobrancas, NEW v \in Nat,
           NEW status, NEW mem, Inserida(p, c, v, status, mem),
           status \in {"aprovado", "pendente"}
    PROVE  \A d \in Cobrancas : Comprometido(mem, d) <= Total[d]
<1>0. pag \in Tabela /\ mem \in Tabela
  BY DEF IInv, TypeOK, Tabela, Inserida, Trocado
<1>1. /\ Trocado(p, mem) /\ ~Usado(p) /\ Pendentes(c) = {}
      /\ v + ValorPago(pag, c) <= Total[c]
      /\ mem[p].cob = c /\ mem[p].valor = v /\ Vivo(mem[p])
  BY DEF Inserida, Vivo
<1>2. ASSUME NEW d \in Cobrancas \ {c} PROVE Comprometido(mem, d) <= Total[d]
  <2>1. Comprometido(mem, d) <= Comprometido(pag, d)
    BY <1>0, <1>1, ComprometidoMenor DEF Trocado
  <2> QED BY <1>0, <2>1, CompromissoNatural DEF Cabe
<1>3. Comprometido(mem, c) <= Total[c]
  <2> DEFINE f == Contribuicao(pag, c)
             g == Compromisso(mem, c)
  <2>1. \A k \in 1..MaxPagamentos : f[k] \in Int /\ g[k] \in Int
    BY <1>0, ContribuicaoNatural, CompromissoNatural
  <2>2. ASSUME NEW k \in 1..MaxPagamentos, k # p PROVE f[k] = g[k]
    <3>1. k \in Pagamentos /\ mem[k] = pag[k]
      BY <1>1, <2>2 DEF Trocado, Pagamentos
    <3>2. pag[k].cob = c /\ pag[k].status = "pendente" => k \in Pendentes(c)
      BY <3>1 DEF DiretoDefinitivo, Pendentes, DoProvedor, Usado
    <3> QED BY <1>1, <3>1, <3>2 DEF Contribuicao, Compromisso, Aprovados, Vivo
  <2>3. f[p] = 0 /\ g[p] = v
    BY <1>1 DEF Contribuicao, Compromisso, Aprovados, Usado
  <2>4. p \in 1..MaxPagamentos /\ MaxPagamentos \in Nat
    BY DEF Pagamentos
  <2>5. Soma(g, MaxPagamentos) = Soma(f, MaxPagamentos) - f[p] + g[p]
    <3> HIDE DEF f, g
    <3> QED BY <2>1, <2>2, <2>4, SomaMuda
  <2>6. Comprometido(mem, c) = ValorPago(pag, c) - 0 + v
    BY <2>3, <2>5 DEF Comprometido, ValorPago
  <2>7. ValorPago(pag, c) \in Nat
    BY <1>0, ValorPagoNatural
  <2> QED BY <1>1, <2>6, <2>7
<1> QED BY <1>2, <1>3

(* A row that an answer moves does not come back to life. *)
LEMMA RespostaNaoRessuscita ==
    ASSUME Vida, NEW p \in Pagamentos, DoProvedor(p), NEW s, Coerente(s, ord[p]),
           pag[p].status \in PagamentoStatus,
           SafeTransition(pag[p].status, s) \in {"aprovado", "pendente"}
    PROVE  Vivo(pag[p])
<1>1. Coerente(pag[p].status, ord[p])
  BY DEF Vida
<1> QED BY <1>1 DEF Coerente, SafeTransition, PagamentoStatus, Vivo

LEMMA PassoCabe ==
    ASSUME IInv, pag' \in Tabela, Vida, DiretoDefinitivo, Cabe, Forma
    PROVE  Cabe'
<1>0. TypeOK /\ pag \in Tabela
  BY DEF IInv, TypeOK, Tabela
<1>1. ASSUME NEW mem \in Tabela, Equivalente(pag', mem),
             \A d \in Cobrancas : Comprometido(mem, d) <= Total[d]
      PROVE  Cabe'
  <2>1. \A d \in Cobrancas : Comprometido(pag', d) <= Comprometido(mem, d)
    BY <1>1, ComprometidoMenor DEF Equivalente, Vivo
  <2> QED BY <1>1, <2>1, CompromissoNatural DEF Cabe
<1>2. CASE Neutro \/ Emitido
  <2>1. Equivalente(pag', pag)
    BY <1>2 DEF Neutro, Emitido, Equivalente
  <2> QED BY <1>0, <1>1, <2>1 DEF Cabe
<1>3. CASE Aberto
  <2>1. \A d \in Cobrancas : Comprometido(pag', d) <= Total[d]
    BY <1>3, InseridaCabe DEF Aberto
  <2> QED BY <1>1, <2>1 DEF Equivalente
<1>4. CASE Lancado
  <2>1. PICK mem \in Tabela :
          /\ \A d \in Cobrancas : Comprometido(mem, d) <= Total[d]
          /\ Equivalente(pag', mem)
    BY <1>4, InseridaCabe DEF Lancado, Transacao
  <2> QED BY <1>1, <2>1
<1>5. ASSUME NEW p \in Pagamentos, NEW mem \in Tabela, Trocado(p, mem),
             mem[p].cob = pag[p].cob, mem[p].valor = pag[p].valor,
             Vivo(mem[p]) => Vivo(pag[p]), Equivalente(pag', mem)
      PROVE  Cabe'
  <2>1. \A d \in Cobrancas : Comprometido(mem, d) <= Comprometido(pag, d)
    BY <1>0, <1>5, ComprometidoMenor DEF Trocado
  <2> QED BY <1>0, <1>1, <1>5, <2>1, CompromissoNatural DEF Cabe
<1>6. ASSUME NEW p \in Pagamentos, Anulado(p) PROVE Cabe'
  <2>1. PICK mem \in Tabela : Mudada(p, "cancelado", mem) /\ Equivalente(pag', mem)
    BY <1>6 DEF Anulado, Transacao
  <2> QED BY <1>5, <2>1 DEF Mudada, Vivo
<1>7. ASSUME NEW p \in Pagamentos, Movido(p) PROVE Cabe'
  <2>1. PICK s \in PagamentoStatus, mem \in Tabela :
          /\ DoProvedor(p) /\ Resposta(p, s)
          /\ Mudada(p, SafeTransition(pag[p].status, s), mem) /\ Equivalente(pag', mem)
    BY <1>7 DEF Movido, Transacao
  <2>2. pag[p].status \in PagamentoStatus
    BY <1>0, <2>1, LinhaUsada DEF DoProvedor, Usado, PagamentoRec
  <2>3. Vivo(mem[p]) => Vivo(pag[p])
    BY <2>1, <2>2, RespostaCoerente, RespostaNaoRessuscita DEF Mudada, Vivo
  <2> QED BY <1>5, <2>1, <2>3 DEF Mudada
<1> QED BY <1>2, <1>3, <1>4, <1>6, <1>7 DEF Forma

LEMMA InicioCabe == Init => Cabe
<1> SUFFICES ASSUME Init, NEW c \in Cobrancas PROVE Comprometido(pag, c) <= Total[c]
  BY DEF Cabe
<1>1. \A k \in 1..MaxPagamentos : Compromisso(pag, c)[k] = 0
  BY DEF Init, Compromisso, Vazio, Vivo, Pagamentos
<1>2. Comprometido(pag, c) = 0
  BY <1>1, SomaNula DEF Comprometido
<1> QED BY <1>2

(* Whatever can still be collected for a charge is committed by its rows. *)
LEMMA ArrecadavelVivo ==
    ASSUME IInv, Vida, NEW p \in Pagamentos, pag[p].cob \in Cobrancas, Arrecadavel(p)
    PROVE  Vivo(pag[p])
<1>1. pag[p].status \in PagamentoStatus
  BY LinhaUsada DEF IInv, TypeOK, Tabela, Vazio, PagamentoRec
<1>2. CASE DoProvedor(p)
  BY <1>1, <1>2 DEF Arrecadavel, Vida, EmVoo, Coerente, Vivo, PagamentoStatus
<1>3. CASE ~DoProvedor(p)
  BY <1>3 DEF Arrecadavel, Vivo
<1> QED BY <1>2, <1>3

LEMMA ArrecadacaoCabe ==
    ASSUME IInv, Vida, Cabe
    PROVE  NaoCobraDuasVezes
<1> SUFFICES ASSUME NEW c \in Cobrancas PROVE Arrecadacao(c) <= Total[c]
  BY DEF NaoCobraDuasVezes
<1>0. pag \in Tabela /\ MaxPagamentos \in Nat
  BY DEF IInv, TypeOK, Tabela
<1> DEFINE f == [p \in Pagamentos |->
                   IF pag[p].cob = c /\ Arrecadavel(p) THEN pag[p].valor ELSE 0]
           g == Compromisso(pag, c)
<1>1. \A k \in 1..MaxPagamentos : g[k] \in Nat
  BY <1>0, CompromissoNatural
<1>2. \A k \in 1..MaxPagamentos : f[k] = 0 \/ f[k] = g[k]
  BY ArrecadavelVivo DEF Compromisso, Pagamentos
<1>3. \A k \in 1..MaxPagamentos : f[k] \in Int /\ g[k] \in Int /\ f[k] <= g[k]
  <2> HIDE DEF f, g
  <2> QED BY <1>1, <1>2
<1>4. Arrecadacao(c) = Soma(f, MaxPagamentos) /\ Comprometido(pag, c) = Soma(g, MaxPagamentos)
  BY DEF Arrecadacao, Comprometido
<1> HIDE DEF f, g
<1>5. Arrecadacao(c) <= Comprometido(pag, c) /\ Arrecadacao(c) \in Int
  <2>1. Soma(f, MaxPagamentos) <= Soma(g, MaxPagamentos)
    BY <1>0, <1>3, SomaMonotona
  <2>2. \A k \in 1..MaxPagamentos : f[k] \in Nat
    BY <1>1, <1>2
  <2>3. Soma(f, MaxPagamentos) \in Nat
    BY <1>0, <2>2, SomaNatural
  <2> QED BY <1>4, <2>1, <2>3
<1>6. Comprometido(pag, c) <= Total[c] /\ Comprometido(pag, c) \in Nat
  BY <1>0, CompromissoNatural DEF Cabe
<1> QED BY <1>5, <1>6

-----------------------------------------------------------------------------
(* Money at the provider is seen. *)

(* No answer that is still on its way would pay a charge beyond its total. *)
LEMMA NadaExcede ==
    ASSUME IInv, Vida, Cabe, NEW r \in req, r.ver \in OrdemStatus
    PROVE  ~Excede(r.p, r.ver)
<1> DEFINE p == r.p
           s == Recebido(r.ver)
           c == pag[p].cob
           mem == Reconciliado(p, r.ver)
<1>0. /\ p \in Pagamentos /\ Usado(p) /\ DoProvedor(p) /\ Depois(r.ver, ord[p])
      /\ TypeOK /\ pag \in Tabela
  BY DEF IInv, TypeOK, Tabela, Ligado, Vida
<1>1. s \in PagamentoStatus /\ pag[p].status \in PagamentoStatus /\ c \in Cobrancas
  BY <1>0, RecebidoTipos, LinhaUsada DEF Usado, PagamentoRec
<1>2. Mudada(p, SafeTransition(pag[p].status, s), mem) /\ mem \in Tabela
  BY <1>0, <1>1, ResultadoMudada DEF Reconciliado
<1>3. Coerente(s, ord[p])
  BY <1>0 DEF Recebido, Coerente, Depois, OrdemStatus
<1> HIDE DEF s, mem
<1>4. Vivo(mem[p]) => Vivo(pag[p])
  BY <1>0, <1>1, <1>2, <1>3, RespostaNaoRessuscita DEF Mudada, Vivo
<1>5. Comprometido(mem, c) <= Comprometido(pag, c)
  BY <1>0, <1>2, <1>4, ComprometidoMenor DEF Mudada, Trocado
<1>6. /\ ValorPago(mem, c) <= Comprometido(mem, c)
      /\ ValorPago(mem, c) \in Nat /\ Comprometido(mem, c) \in Nat
      /\ Comprometido(pag, c) \in Nat /\ Comprometido(pag, c) <= Total[c]
  BY <1>0, <1>1, <1>2, PagoComprometido, ValorPagoNatural, CompromissoNatural DEF Cabe
<1>7. ~(ValorPago(mem, c) > Total[c])
  BY <1>1, <1>5, <1>6
<1> QED BY <1>7 DEF Excede, AcimaDoTotal, mem, c, p

(* A notification comes from an order that moved, and so does what was read for
   it; a processed order is approved here or its notification is on its way. *)
Visto ==
    /\ \A p \in Pagamentos :
        /\ aviso[p] => ord[p] \in OrdemStatus \ {"action_required"}
        /\ ord[p] = "processed" => pag[p].status = "aprovado" \/ Avisado(p)
    /\ \A r \in req : r.web => r.ver \in OrdemStatus \ {"action_required"}

(* The answer that a processed order's notification brings approves its payment. *)
LEMMA AplicaAprova ==
    ASSUME IInv, Vida, NEW p \in Pagamentos, ord[p] = "processed",
           ApplyReconciliation(p, "processed")
    PROVE  pag'[p].status = "aprovado"
<1> DEFINE mem == Reconciliado(p, "processed")
<1>0. TypeOK /\ Ligado /\ DoProvedor(p) /\ Usado(p) /\ pag \in Tabela
  BY DEF IInv, TypeOK, Tabela, Ligado, DoProvedor
<1>1. /\ Recebido("processed") = "aprovado" /\ "aprovado" \in PagamentoStatus
      /\ ~NaoSuportado("processed")
  BY DEF Recebido, PagamentoStatus, NaoSuportado
<1>2. pag[p].status \in PagamentoStatus /\ pag[p].cob \in Cobrancas
  BY <1>0, LinhaUsada DEF Usado, PagamentoRec
<1>3. AvaliarCobranca(pag[p].cob, mem, pag)
  BY <1>1 DEF ApplyReconciliation
<1>4. Mudada(p, SafeTransition(pag[p].status, "aprovado"), mem) /\ mem \in Tabela
      /\ SafeTransition(pag[p].status, "aprovado") \in PagamentoStatus
  BY <1>0, <1>1, ResultadoMudada DEF Reconciliado
<1> HIDE DEF mem
<1>5. \A q \in Pagamentos : pag[q].status = "aprovado" => mem[q].status # "nenhum"
  BY <1>4 DEF Mudada, Trocado, PagamentoStatus
<1>6. Equivalente(pag', mem)
  BY <1>0, <1>2, <1>3, <1>4, <1>5, AvaliarTipos DEF Transacao
<1>7. pag[p].status # "reembolsado"
  BY <1>0 DEF Vida, Coerente
<1>8. SafeTransition(pag[p].status, "aprovado") = "aprovado"
  BY <1>7 DEF SafeTransition
<1> QED BY <1>4, <1>6, <1>8 DEF Mudada, Equivalente

LEMMA PassoVisto ==
    ASSUME IInv, IInv', ~Tardio, Vida, Vida', Cabe, Visto, Forma, Externos
    PROVE  Visto'
<1>0. pag' \in Tabela
  BY DEF IInv, TypeOK, Tabela
<1>1. ASSUME NEW p \in Pagamentos
      PROVE  aviso'[p] => ord'[p] \in OrdemStatus \ {"action_required"}
  <2>1. ord[p] \in OrdemStatus \ {"action_required"} =>
          ord'[p] \in OrdemStatus \ {"action_required"}
    <3>1. ord[p] \in OrdemStatus => env[p] \notin {"voando", "atrasada"}
      BY DEF Vida, EmVoo, OrdemStatus
    <3>2. ord'[p] \in OrdemSeguinte(pag[p].metodo, ord[p]) =>
            ord'[p] \in OrdemStatus \ {"action_required"}
      BY OrdemAvanca
    <3> QED BY <3>1, <3>2 DEF Externos, Percurso
  <2>2. ASSUME NEW r \in req, r.p = p, r.web
        PROVE  ord[p] \in OrdemStatus \ {"action_required"}
    <3>1. r.ver \in OrdemStatus \ {"action_required"} /\ Depois(r.ver, ord[p])
      BY <2>2 DEF Visto, Vida
    <3> QED BY <3>1 DEF Depois, OrdemStatus
  <2>3. aviso[p] => ord[p] \in OrdemStatus \ {"action_required"}
    BY DEF Visto
  <2> QED BY <2>1, <2>2, <2>3 DEF Externos, Aviso
<1>2. ASSUME NEW r \in req', r.web
      PROVE  r.ver \in OrdemStatus \ {"action_required"}
  <2>1. r.p \in Pagamentos
    BY <1>2 DEF IInv, TypeOK
  <2>2. ~\E x \in req : x.p = r.p /\ x.ver \in OrdemStatus /\ Excede(x.p, x.ver)
    BY NadaExcede
  <2> QED BY <1>2, <2>1, <2>2 DEF Externos, Leituras, Visto
<1>3. ASSUME NEW p \in Pagamentos, ord'[p] = "processed"
      PROVE  pag'[p].status = "aprovado" \/ Avisado(p)'
  <2>1. CASE ord[p] # "processed"
    BY <1>3, <2>1 DEF Externos, Aviso, Avisado
  <2>2. CASE ord[p] = "processed" /\ pag[p].status = "aprovado"
    <3>1. DoProvedor(p)' /\ DoProvedor(p) /\ Usado(p)
      BY <1>3, <2>2 DEF IInv, Ligado, DoProvedor
    <3>2. Coerente(pag'[p].status, "processed")
      BY <1>3, <3>1 DEF Vida
    <3>3. pag'[p].status \in {"pendente", "aprovado"}
      <4>1. pag'[p].status \in PagamentoStatus
        BY <1>0, <3>1, LinhaUsada DEF DoProvedor, Usado
      <4> QED BY <3>2, <4>1 DEF Coerente, PagamentoStatus
    <3>4. pag'[p].status # "pendente"
      BY <1>0, <2>2, <3>1, StatusMuda DEF SafeTransition
    <3> QED BY <3>3, <3>4
  <2>3. CASE ord[p] = "processed" /\ Avisado(p) /\ ~Avisado(p)'
    <3>1. PICK r \in req : /\ r.p = p /\ r.web
                           /\ r.ver \in OrdemStatus => ApplyReconciliation(p, r.ver)
      BY <1>3, <2>3 DEF Externos, Aviso
    <3>2. r.ver \in OrdemStatus \ {"action_required"} /\ Depois(r.ver, "processed")
      BY <2>3, <3>1 DEF Visto, Vida
    <3>3. r.ver = "processed"
      BY <3>2 DEF Depois
    <3> QED BY <2>3, <3>1, <3>2, <3>3, AplicaAprova
  <2> QED BY <2>1, <2>2, <2>3 DEF Visto
<1> QED BY <1>1, <1>2, <1>3 DEF Visto

-----------------------------------------------------------------------------
IInvCobranca == IInv /\ Vida /\ DiretoDefinitivo /\ Cabe /\ Visto

LEMMA CobrancaInvariante == ASSUME ~Tardio PROVE Spec => []IInvCobranca
<1>1. Init => IInvCobranca
  <2>1. Init => DiretoDefinitivo
    BY DEF Init, DiretoDefinitivo, Vazio
  <2>2. Init => Visto
    BY DEF Init, Visto
  <2> QED BY <2>1, <2>2, InicioLigado, InicioVida, InicioCabe DEF IInvCobranca
<1>2. IInvCobranca /\ [Next]_vars => IInvCobranca'
  <2> SUFFICES ASSUME IInvCobranca, [Next]_vars PROVE IInvCobranca'
    OBVIOUS
  <2>0. IInv /\ Vida /\ DiretoDefinitivo /\ Cabe /\ Visto
    BY DEF IInvCobranca
  <2>1. IInv' /\ Forma /\ Externos
    BY <2>0, PassoLigado, PassoExterno
  <2>2. pag' \in Tabela /\ TypeOK
    BY <2>0, <2>1 DEF IInv, TypeOK, Tabela
  <2>3. Vida' /\ DiretoDefinitivo' /\ Cabe'
    BY <2>0, <2>1, <2>2, PassoVida, PassoDireto, PassoCabe
  <2>4. Visto'
    BY <2>0, <2>1, <2>3, PassoVisto
  <2> QED BY <2>1, <2>3, <2>4 DEF IInvCobranca
<1> QED BY <1>1, <1>2, PTL DEF Spec

(* A client is never asked for more than the total: what was collected and what
   open orders, delayed creations and direct Pix can still collect fit in it. *)
THEOREM SemCobrancaDupla == ASSUME ~Tardio PROVE Spec => []NaoCobraDuasVezes
<1>1. IInvCobranca => NaoCobraDuasVezes
  BY ArrecadacaoCabe DEF IInvCobranca
<1> QED BY <1>1, CobrancaInvariante, PTL

(* Money the provider collected is approved here, unless its notification is
   still on its way: what was acknowledged was applied, and it did not fail for
   being too much. *)
THEOREM NadaEsquecido == ASSUME ~Tardio PROVE Spec => []DinheiroVisto
<1>1. IInvCobranca => DinheiroVisto
  BY DEF IInvCobranca, Visto, DinheiroVisto
<1> QED BY <1>1, CobrancaInvariante, PTL
=============================================================================
