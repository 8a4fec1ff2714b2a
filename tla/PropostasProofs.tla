---------------------------- MODULE PropostasProofs ---------------------------
(***************************************************************************)
(* Proofs about module Propostas, for every set of contents, every price   *)
(* and every number of versions.                                           *)
(***************************************************************************)
EXTENDS Propostas, TLAPS

USE PropostasAssumption

-----------------------------------------------------------------------------
(* The invariant. *)

(* A proposal was frozen, and turned into a document, as what it says.      *)
Coerente(m) ==
    /\ m.versao \in 1..MaxVersao /\ m.conteudo \in Conteudos
    /\ m.snapshot # Nada => m.snapshot = m.conteudo
    /\ m.pdf # Nada => m.pdf = Documento(m)

(* The proposal: a draft is frozen early only for credits, and everything   *)
(* sent or answered is frozen; what is sent was mailed.                     *)
TextoOK ==
    /\ prop.status = "inexistente" => prop = Inexistente
    /\ prop.status # "inexistente" => Coerente(prop)
    /\ prop.status = "rascunho" /\ prop.snapshot # Nada => prop.conteudo \in Creditos
    /\ prop.status \in {"enviada", "aceita", "recusada"} => prop.snapshot # Nada
    /\ prop.status = "enviada" => Documento(prop) \in emails

(* What is being sent is the draft, frozen and mailed.                      *)
EnvioOK ==
    envio # Nada =>
        /\ prop.status = "rascunho"
        /\ Coerente(envio) /\ envio.status = "rascunho"
        /\ envio.versao = prop.versao /\ envio.conteudo = prop.conteudo
        /\ envio.snapshot # Nada
        /\ Documento(envio) \in emails

(* A screen is of an older version, or shows what the proposal says.        *)
TelaOK ==
    tela # Nada =>
        /\ tela.versao <= prop.versao
        /\ tela.versao = prop.versao =>
               /\ prop.status \in {"enviada", "aceita", "recusada"}
               /\ tela.conteudo = prop.conteudo

IInv ==
    /\ TypeOK /\ TextoOK /\ EnvioOK /\ TelaOK
    /\ EstadosCasados /\ CobraSoAceita /\ ContratoFiel /\ AceitaOQueRecebeu

LEMMA InexistenteFatos ==
    /\ Inexistente \in PropostaTipo
    /\ Inexistente.status = "inexistente" /\ Inexistente.versao = 0
    /\ Inexistente.envio = "nao"
<1> DEFINE r == Rascunho(Nada)
<1>1. r \in PropostaTipo /\ r.envio = "nao"
  BY DEF Rascunho, PropostaTipo
<1>2. Inexistente = [r EXCEPT !.status = "inexistente", !.versao = 0]
  BY DEF Inexistente
<1> DEFINE i == [r EXCEPT !.status = "inexistente", !.versao = 0]
<1>3. i = Inexistente
  BY <1>2
<1> HIDE DEF r
<1>4. 0 \in 0..MaxVersao
  OBVIOUS
<1>5. i \in PropostaTipo
  BY <1>1, <1>4 DEF PropostaTipo
<1>6. i.status = "inexistente" /\ i.versao = 0 /\ i.envio = "nao"
  BY <1>1 DEF PropostaTipo
<1> HIDE DEF i
<1> QED BY <1>3, <1>5, <1>6

LEMMA IniciaProposta == Init => IInv
<1> SUFFICES ASSUME Init PROVE IInv
  OBVIOUS
<1>1. prop \in PropostaTipo /\ prop.status = "inexistente" /\ prop = Inexistente
  BY InexistenteFatos DEF Init
<1>2. TypeOK
  <2>1. teste \in BOOLEAN /\ historico \in BOOLEAN
    BY Zenon DEF Init
  <2>2. catalogo \in 0..MaxCatalogo /\ orcamento \in SituacoesOrcamento
    BY DEF Init, SituacoesOrcamento
  <2>3. producao \in {"nenhuma", "direta", "avulsa", "comercial"} /\ emails \subseteq Texto
    BY DEF Init
  <2> QED BY <1>1, <2>1, <2>2, <2>3, Zenon DEF Init, TypeOK
<1>3. TextoOK /\ EnvioOK /\ TelaOK
  BY <1>1 DEF Init, TextoOK, EnvioOK, TelaOK
<1>4. EstadosCasados /\ CobraSoAceita /\ ContratoFiel /\ AceitaOQueRecebeu
  BY <1>1 DEF Init, EstadosCasados, CobraSoAceita, ContratoFiel, AceitaOQueRecebeu
<1> QED BY <1>2, <1>3, <1>4 DEF IInv

-----------------------------------------------------------------------------
(* The operators. *)

LEMMA RascunhoFatos ==
    ASSUME NEW c \in Conteudos
    PROVE  /\ Rascunho(c) \in PropostaTipo
           /\ Coerente(Rascunho(c))
           /\ Rascunho(c).status = "rascunho" /\ Rascunho(c).versao = 1
           /\ Rascunho(c).conteudo = c /\ Rascunho(c).snapshot = Nada
           /\ Rascunho(c).pdf = Nada
BY DEF Rascunho, PropostaTipo, Coerente

(* Freezing a proposal keeps what it says.                                  *)
LEMMA CongeladoFatos ==
    ASSUME catalogo \in 0..MaxCatalogo, NEW m \in PropostaTipo, Coerente(m)
    PROVE  /\ Congelado(m) \in PropostaTipo
           /\ Coerente(Congelado(m))
           /\ Congelado(m).snapshot = m.conteudo
           /\ Congelado(m).status = m.status /\ Congelado(m).versao = m.versao
           /\ Congelado(m).conteudo = m.conteudo /\ Congelado(m).envio = m.envio
           /\ m.snapshot # Nada => Congelado(m) = m
<1>1. CASE m.snapshot # Nada
  BY <1>1 DEF Congelado, Coerente
<1>2. CASE m.snapshot = Nada /\ m.conteudo \in Creditos
  <2>1. Congelado(m) = [m EXCEPT !.snapshot = m.conteudo, !.direitos = catalogo, !.pdf = Nada]
    BY <1>2 DEF Congelado
  <2> QED BY <1>2, <2>1 DEF PropostaTipo, Coerente
<1>3. CASE m.snapshot = Nada /\ m.conteudo \notin Creditos
  <2>1. Congelado(m) = [m EXCEPT !.snapshot = m.conteudo]
    BY <1>3 DEF Congelado
  <2> QED BY <1>3, <2>1 DEF PropostaTipo, Coerente, Documento
<1> QED BY <1>1, <1>2, <1>3

LEMMA DocumentoTipo ==
    ASSUME NEW m \in PropostaTipo, Coerente(m)
    PROVE  Documento(m) \in Texto
BY DEF PropostaTipo, Coerente, Documento, Texto

(* So does making its document.                                             *)
LEMMA ImpressoFatos ==
    ASSUME NEW m \in PropostaTipo, Coerente(m), NEW n, n = [m EXCEPT !.pdf = Documento(m)]
    PROVE  /\ n \in PropostaTipo
           /\ Coerente(n) /\ n.pdf = Documento(n) /\ Documento(n) = Documento(m)
           /\ n.snapshot = m.snapshot /\ n.status = m.status /\ n.versao = m.versao
           /\ n.conteudo = m.conteudo /\ n.envio = m.envio /\ n.direitos = m.direitos
<1>1. Documento(m) \in Texto
  BY DocumentoTipo
<1> DEFINE d == Documento(m)
<1>2. d \in Texto /\ n = [m EXCEPT !.pdf = d]
  BY <1>1
<1> HIDE DEF d
<1>3. /\ n \in PropostaTipo /\ n.pdf = d
      /\ n.snapshot = m.snapshot /\ n.status = m.status /\ n.versao = m.versao
      /\ n.conteudo = m.conteudo /\ n.envio = m.envio /\ n.direitos = m.direitos
  BY <1>2 DEF PropostaTipo
<1>4. Documento(n) = d
  BY <1>3 DEF Documento, d
<1> QED BY <1>3, <1>4 DEF Coerente, d

LEMMA ComDocumentoFatos ==
    ASSUME NEW m \in PropostaTipo, Coerente(m), NEW n, n = ComDocumento(m)
    PROVE  /\ n \in PropostaTipo
           /\ Coerente(n) /\ n.pdf = Documento(n)
           /\ n.snapshot = m.snapshot /\ n.status = m.status /\ n.versao = m.versao
           /\ n.conteudo = m.conteudo
<1>1. CASE m.pdf # Nada
  BY <1>1 DEF ComDocumento, Coerente
<1>2. CASE m.pdf = Nada
  BY <1>2, ImpressoFatos DEF ComDocumento
<1> QED BY <1>1, <1>2

-----------------------------------------------------------------------------
(* The steps. *)

(* A step that leaves the terms of the proposal, its budget, its charge and *)
(* its acceptance alone.                                                    *)
LEMMA MesmosTermos ==
    ASSUME IInv, TypeOK', EnvioOK',
           prop'.status = prop.status, prop'.versao = prop.versao,
           prop'.conteudo = prop.conteudo, prop'.snapshot = prop.snapshot,
           prop'.direitos = prop.direitos,
           prop.status = "inexistente" => prop' = prop,
           prop.status # "inexistente" => Coerente(prop'),
           orcamento' = orcamento, emails \subseteq emails', tela' = tela,
           cobranca' = cobranca, aceite' = aceite,
           producao' = "comercial" =>
               producao = "comercial" \/ cobranca # Nada \/ prop.status = "aceita"
    PROVE  IInv'
<1>1. TextoOK'
  BY DEF IInv, TextoOK, Documento
<1>2. TelaOK'
  BY DEF IInv, TelaOK
<1>3. EstadosCasados'
  BY DEF IInv, EstadosCasados
<1>4. CobraSoAceita'
  BY DEF IInv, CobraSoAceita
<1>5. ContratoFiel'
  BY DEF IInv, ContratoFiel
<1>6. AceitaOQueRecebeu'
  BY DEF IInv, AceitaOQueRecebeu
<1> QED BY <1>1, <1>2, <1>3, <1>4, <1>5, <1>6 DEF IInv

(* A step that leaves the proposal itself, and the request that sends it,   *)
(* alone.                                                                   *)
LEMMA MesmaProposta ==
    ASSUME IInv, TypeOK', prop' = prop, envio' = envio,
           orcamento' = orcamento, emails' = emails, tela' = tela,
           cobranca' = cobranca, aceite' = aceite,
           producao' = "comercial" =>
               producao = "comercial" \/ cobranca # Nada \/ prop.status = "aceita"
    PROVE  IInv'
<1>1. EnvioOK'
  BY DEF IInv, EnvioOK
<1>2. prop.status # "inexistente" => Coerente(prop)
  BY DEF IInv, TextoOK
<1>3. prop.status # "inexistente" => Coerente(prop)'
  BY <1>2 DEF Coerente
<1> QED BY <1>1, <1>2, MesmosTermos

LEMMA PassosAlheios ==
    ASSUME IInv,
           \/ MudarCatalogo \/ CriarProducao \/ LiberarProducao \/ NovaOrder
           \/ \E novo \in BOOLEAN : Classificar(novo)
           \/ UNCHANGED vars
    PROVE  IInv'
<1>1. TypeOK'
  <2>1. CASE MudarCatalogo \/ CriarProducao \/ LiberarProducao
    BY <2>1 DEF IInv, TypeOK, MudarCatalogo, CriarProducao, LiberarProducao
  <2>2. CASE NovaOrder
    BY <2>2, Zenon DEF IInv, TypeOK, NovaOrder
  <2>3. CASE \E novo \in BOOLEAN : Classificar(novo)
    BY <2>3, Zenon DEF IInv, TypeOK, Classificar
  <2>4. CASE UNCHANGED vars
    BY <2>4 DEF IInv, TypeOK, vars
  <2> QED BY <2>1, <2>2, <2>3, <2>4
<1>2. /\ prop' = prop /\ envio' = envio /\ orcamento' = orcamento /\ emails' = emails
      /\ tela' = tela /\ cobranca' = cobranca /\ aceite' = aceite
      /\ producao' = "comercial" => producao = "comercial" \/ cobranca # Nada
  BY DEF MudarCatalogo, CriarProducao, LiberarProducao, NovaOrder, Classificar, vars
<1> QED BY <1>1, <1>2, MesmaProposta

LEMMA PassoVencer == ASSUME IInv, Vencer PROVE IInv'
<1>1. prop \in PropostaTipo /\ prop' = [prop EXCEPT !.envio = "vencido"]
  BY DEF IInv, TypeOK, Vencer
<1>2. /\ prop' \in PropostaTipo
      /\ prop'.status = prop.status /\ prop'.versao = prop.versao
      /\ prop'.conteudo = prop.conteudo /\ prop'.snapshot = prop.snapshot
      /\ prop'.direitos = prop.direitos /\ prop'.pdf = prop.pdf
  BY <1>1 DEF PropostaTipo
<1>3. prop.status # "inexistente"
  BY InexistenteFatos DEF Vencer, IInv, TextoOK
<1>4. Coerente(prop')
  BY <1>2, <1>3 DEF IInv, TextoOK, Coerente, Documento
<1>5. TypeOK'
  BY <1>2 DEF IInv, TypeOK, Vencer
<1>6. EnvioOK'
  BY DEF Vencer, Livre, EnvioOK
<1> QED BY <1>2, <1>3, <1>4, <1>5, <1>6, MesmosTermos DEF Vencer

LEMMA PassoEnvioProposta == ASSUME IInv, Enviar PROVE IInv'
<1> DEFINE m == Congelado(prop)
<1>1. prop \in PropostaTipo /\ Coerente(prop) /\ catalogo \in 0..MaxCatalogo
      /\ prop.status = "rascunho"
  BY DEF IInv, TypeOK, TextoOK, Enviar
<1>2. /\ m \in PropostaTipo /\ Coerente(m) /\ m.snapshot = prop.conteudo
      /\ m.status = "rascunho" /\ m.versao = prop.versao /\ m.conteudo = prop.conteudo
  BY <1>1, CongeladoFatos
<1>3. envio' = ComDocumento(m) /\ emails' = emails \cup {envio'.pdf}
  BY DEF Enviar
<1> HIDE DEF m
<1>4. /\ envio' \in PropostaTipo /\ Coerente(envio') /\ envio'.pdf = Documento(envio')
      /\ envio'.snapshot = prop.conteudo /\ envio'.status = "rascunho"
      /\ envio'.versao = prop.versao /\ envio'.conteudo = prop.conteudo
  BY <1>2, <1>3, ComDocumentoFatos
<1>5. envio'.pdf \in Texto /\ prop.conteudo # Nada
  BY <1>1, <1>4, DocumentoTipo DEF Coerente
<1>6. TypeOK'
  BY <1>3, <1>4, <1>5 DEF IInv, TypeOK, Enviar
<1>7. prop' = prop
  BY DEF Enviar
<1>8. EnvioOK'
  BY <1>1, <1>3, <1>4, <1>5, <1>7 DEF EnvioOK
<1> QED BY <1>1, <1>3, <1>6, <1>7, <1>8, MesmosTermos DEF Enviar

LEMMA PassoFalharEnvio == ASSUME IInv, FalharEnvio PROVE IInv'
<1>1. TypeOK' /\ EnvioOK'
  BY DEF IInv, TypeOK, FalharEnvio, EnvioOK
<1>2. prop.status # "inexistente" => Coerente(prop)
  BY DEF IInv, TextoOK
<1>3. prop' = prop
  BY DEF FalharEnvio
<1> QED BY <1>1, <1>2, <1>3, MesmosTermos DEF FalharEnvio

LEMMA PassoGerarDocumento == ASSUME IInv, GerarDocumento PROVE IInv'
<1> DEFINE m == IF prop.conteudo \in Creditos THEN Congelado(prop) ELSE prop
<1>1. /\ prop \in PropostaTipo /\ Coerente(prop) /\ catalogo \in 0..MaxCatalogo
      /\ prop.status # "inexistente"
  BY DEF IInv, TypeOK, TextoOK, GerarDocumento
<1>2. /\ m \in PropostaTipo /\ Coerente(m)
      /\ m.status = prop.status /\ m.versao = prop.versao /\ m.conteudo = prop.conteudo
      /\ m = prop \/ (prop.snapshot = Nada /\ prop.conteudo \in Creditos)
  BY <1>1, CongeladoFatos
<1>3. prop' = [m EXCEPT !.pdf = Documento(m)]
  BY DEF GerarDocumento
<1> HIDE DEF m
<1>4. /\ prop' \in PropostaTipo /\ Coerente(prop') /\ prop'.snapshot = m.snapshot
      /\ prop'.status = prop.status /\ prop'.versao = prop.versao
      /\ prop'.conteudo = prop.conteudo /\ prop'.direitos = m.direitos
  BY <1>2, <1>3, ImpressoFatos
<1>5. TypeOK' /\ EnvioOK'
  BY <1>4 DEF IInv, TypeOK, GerarDocumento, Livre, EnvioOK
<1>6. CASE m = prop
  BY <1>1, <1>4, <1>5, <1>6, MesmosTermos DEF GerarDocumento
<1>7. CASE prop.snapshot = Nada /\ prop.conteudo \in Creditos
  <2>1. prop.status = "rascunho"
    BY <1>1, <1>7 DEF IInv, TextoOK, PropostaTipo
  <2>2. TextoOK'
    BY <1>4, <1>7, <2>1 DEF TextoOK
  <2>3. TelaOK'
    BY <1>4, <2>1 DEF IInv, TelaOK, GerarDocumento
  <2>4. EstadosCasados' /\ CobraSoAceita'
    BY <1>4, <2>1 DEF IInv, EstadosCasados, CobraSoAceita, GerarDocumento
  <2>5. ContratoFiel' /\ AceitaOQueRecebeu'
    BY <1>4, <2>1 DEF ContratoFiel, AceitaOQueRecebeu
  <2> QED BY <1>5, <2>2, <2>3, <2>4, <2>5 DEF IInv
<1> QED BY <1>2, <1>6, <1>7

LEMMA PassoAbrirTela == ASSUME IInv, AbrirTela PROVE IInv'
<1>1. /\ prop' = prop /\ envio' = envio /\ orcamento' = orcamento /\ emails' = emails
      /\ cobranca' = cobranca /\ producao' = producao /\ aceite' = aceite
      /\ catalogo' = catalogo /\ teste' = teste /\ historico' = historico
      /\ tela' = [versao |-> prop.versao, conteudo |-> prop.conteudo]
      /\ prop.status \in {"enviada", "aceita", "recusada"}
  BY DEF AbrirTela
<1>2. Coerente(prop)
  BY <1>1 DEF IInv, TextoOK
<1>3. tela' \in [versao : 1..MaxVersao, conteudo : Conteudos]
  BY <1>1, <1>2 DEF Coerente
<1>4. TypeOK'
  BY <1>1, <1>3 DEF IInv, TypeOK
<1>5. TelaOK'
  BY <1>1, <1>2 DEF TelaOK, Coerente
<1>6. TextoOK' /\ EnvioOK'
  BY <1>1 DEF IInv, TextoOK, EnvioOK, Coerente
<1>7. EstadosCasados' /\ CobraSoAceita' /\ ContratoFiel' /\ AceitaOQueRecebeu'
  BY <1>1 DEF IInv, EstadosCasados, CobraSoAceita, ContratoFiel, AceitaOQueRecebeu
<1> QED BY <1>4, <1>5, <1>6, <1>7 DEF IInv

(* A step that writes a new draft, or changes one: nothing was frozen but   *)
(* credits, and every screen is of an older version.                        *)
LEMMA NovoRascunho ==
    ASSUME IInv, TypeOK', prop'.status = "rascunho", Coerente(prop'),
           prop'.snapshot # Nada => prop'.conteudo \in Creditos,
           prop.versao < prop'.versao, prop.status # "aceita",
           orcamento' \notin {"proposta_enviada", "aprovado"},
           envio' = Nada, tela' = tela, cobranca' = cobranca, producao' = producao
    PROVE  IInv'
<1>1. TextoOK' /\ EnvioOK'
  BY DEF TextoOK, EnvioOK
<1>2. TelaOK'
  BY DEF IInv, TypeOK, TelaOK, PropostaTipo
<1>3. EstadosCasados' /\ CobraSoAceita'
  BY DEF IInv, EstadosCasados, CobraSoAceita
<1>4. ContratoFiel' /\ AceitaOQueRecebeu'
  BY DEF ContratoFiel, AceitaOQueRecebeu
<1> QED BY <1>1, <1>2, <1>3, <1>4 DEF IInv

LEMMA PassoCriar == ASSUME IInv, NEW c \in Conteudos, CriarPorOrcamento(c) PROVE IInv'
<1>1. /\ prop' \in PropostaTipo /\ Coerente(prop') /\ prop'.status = "rascunho"
      /\ prop'.versao = 1 /\ prop'.snapshot = Nada
  BY RascunhoFatos DEF CriarPorOrcamento
<1>2. prop.versao = 0 /\ prop.status = "inexistente"
  BY InexistenteFatos DEF IInv, TextoOK, CriarPorOrcamento
<1>3. envio = Nada
  BY <1>2 DEF IInv, EnvioOK
<1>4. TypeOK'
  BY <1>1 DEF IInv, TypeOK, CriarPorOrcamento
<1>5. orcamento \notin {"proposta_enviada", "aprovado"}
  BY <1>2 DEF IInv, EstadosCasados
<1> QED BY <1>1, <1>2, <1>3, <1>4, <1>5, NovoRascunho DEF CriarPorOrcamento

LEMMA PassoAtualizar == ASSUME IInv, NEW c \in Conteudos, Atualizar(c) PROVE IInv'
<1> DEFINE v == prop.versao + 1
           m == [prop EXCEPT !.conteudo = c, !.versao = v, !.pdf = Nada]
<1>1. /\ prop \in PropostaTipo /\ Coerente(prop) /\ prop.status = "rascunho"
      /\ v \in 0..MaxVersao /\ v \in 1..MaxVersao
  BY DEF IInv, TypeOK, TextoOK, Atualizar, Editavel, Coerente
<1>2. prop' = IF {c, prop.conteudo} \cap Creditos = {} THEN m
              ELSE [m EXCEPT !.snapshot = Nada, !.direitos = Nada]
  BY DEF Atualizar, Revisto
<1> HIDE DEF v
<1>3. /\ m \in PropostaTipo /\ m.conteudo = c /\ m.versao = v /\ m.pdf = Nada
      /\ m.snapshot = prop.snapshot /\ m.status = "rascunho"
  BY <1>1 DEF PropostaTipo
<1> HIDE DEF m
<1>4. {c, prop.conteudo} \cap Creditos = {} => prop.snapshot = Nada
  BY <1>1 DEF IInv, TextoOK
<1>5. /\ prop' \in PropostaTipo /\ prop'.status = "rascunho"
      /\ prop'.conteudo = c /\ prop'.versao = v
      /\ prop'.pdf = Nada /\ prop'.snapshot = Nada
  BY <1>2, <1>3, <1>4 DEF PropostaTipo
<1>6. Coerente(prop') /\ prop.versao < prop'.versao
  BY <1>1, <1>5 DEF Coerente, PropostaTipo, v
<1>7. TypeOK'
  BY <1>5 DEF IInv, TypeOK, Atualizar
<1>8. orcamento \notin {"proposta_enviada", "aprovado"}
  BY <1>1 DEF IInv, EstadosCasados
<1> QED BY <1>1, <1>5, <1>6, <1>7, <1>8, NovoRascunho DEF Atualizar, Livre

LEMMA PassoReabrirExpirada == ASSUME IInv, ReabrirExpirada PROVE IInv'
<1> DEFINE m == Rascunho(prop.conteudo)
<1>1. /\ prop \in PropostaTipo /\ Coerente(prop) /\ prop.status = "enviada"
      /\ prop.versao + 1 \in 1..MaxVersao
  BY DEF IInv, TypeOK, TextoOK, ReabrirExpirada, Expirada, Coerente
<1>2. /\ m \in PropostaTipo /\ m.status = "rascunho" /\ m.conteudo = prop.conteudo
      /\ m.snapshot = Nada /\ m.pdf = Nada
  BY <1>1, RascunhoFatos DEF Coerente
<1>3. prop' = [m EXCEPT !.versao = prop.versao + 1]
  BY DEF ReabrirExpirada
<1> HIDE DEF m
<1>4. /\ prop' \in PropostaTipo /\ prop'.status = "rascunho" /\ prop'.conteudo = prop.conteudo
      /\ prop'.snapshot = Nada /\ prop'.pdf = Nada /\ prop'.versao = prop.versao + 1
  BY <1>1, <1>2, <1>3 DEF PropostaTipo
<1>5. Coerente(prop') /\ prop.versao < prop'.versao
  BY <1>1, <1>4 DEF Coerente, PropostaTipo
<1>6. TypeOK'
  BY <1>4 DEF IInv, TypeOK, ReabrirExpirada, SituacoesOrcamento
<1> QED BY <1>1, <1>4, <1>5, <1>6, NovoRascunho DEF ReabrirExpirada, Livre

LEMMA PassoAtualizarStatus ==
    ASSUME IInv, NEW s \in SituacoesOrcamento, AtualizarStatus(s) PROVE IInv'
<1>1. TypeOK'
  BY DEF IInv, TypeOK, AtualizarStatus
<1>2. TextoOK' /\ EnvioOK' /\ TelaOK'
  BY DEF IInv, TextoOK, EnvioOK, TelaOK, AtualizarStatus, Coerente
<1>3. EstadosCasados'
  BY DEF EstadosCasados, AtualizarStatus, StatusAlteravel
<1>4. CobraSoAceita' /\ ContratoFiel' /\ AceitaOQueRecebeu'
  BY DEF IInv, CobraSoAceita, ContratoFiel, AceitaOQueRecebeu, AtualizarStatus
<1> QED BY <1>1, <1>2, <1>3, <1>4 DEF IInv

LEMMA PassoConfirmarEnvio == ASSUME IInv, ConfirmarEnvio PROVE IInv'
<1>1. /\ envio \in PropostaTipo /\ Coerente(envio) /\ prop.status = "rascunho"
      /\ envio.versao = prop.versao /\ envio.conteudo = prop.conteudo
      /\ envio.snapshot # Nada /\ Documento(envio) \in emails
  BY DEF IInv, TypeOK, EnvioOK, ConfirmarEnvio
<1>2. prop' = [envio EXCEPT !.status = "enviada", !.envio = "valido"]
  BY DEF ConfirmarEnvio
<1>3. /\ prop' \in PropostaTipo /\ prop'.status = "enviada" /\ prop'.versao = prop.versao
      /\ prop'.conteudo = prop.conteudo /\ prop'.snapshot = envio.snapshot
      /\ prop'.pdf = envio.pdf /\ prop'.direitos = envio.direitos
  BY <1>1, <1>2 DEF PropostaTipo
<1>4. Documento(prop') = Documento(envio) /\ Coerente(prop')
  BY <1>1, <1>3 DEF Documento, Coerente
<1>5. TypeOK'
  BY <1>3 DEF IInv, TypeOK, ConfirmarEnvio, SituacoesOrcamento
<1>6. TextoOK'
  BY <1>1, <1>3, <1>4 DEF TextoOK, ConfirmarEnvio
<1>7. EnvioOK' /\ TelaOK'
  BY <1>1, <1>3 DEF IInv, EnvioOK, TelaOK, ConfirmarEnvio
<1>8. EstadosCasados' /\ CobraSoAceita' /\ ContratoFiel' /\ AceitaOQueRecebeu'
  BY <1>1, <1>3 DEF IInv, EstadosCasados, CobraSoAceita, ContratoFiel, AceitaOQueRecebeu,
                     ConfirmarEnvio
<1> QED BY <1>5, <1>6, <1>7, <1>8 DEF IInv

LEMMA PassoRecusar == ASSUME IInv, RecusarCliente PROVE IInv'
<1>1. prop \in PropostaTipo /\ Coerente(prop) /\ prop.status = "enviada" /\ envio = Nada
  BY DEF IInv, TypeOK, TextoOK, RecusarCliente, Recusavel, Livre
<1>2. prop' = [prop EXCEPT !.status = "recusada"]
  BY DEF RecusarCliente
<1>3. /\ prop' \in PropostaTipo /\ prop'.status = "recusada" /\ prop'.versao = prop.versao
      /\ prop'.conteudo = prop.conteudo /\ prop'.snapshot = prop.snapshot
      /\ prop'.pdf = prop.pdf /\ prop'.direitos = prop.direitos
  BY <1>1, <1>2 DEF PropostaTipo
<1>4. Coerente(prop')
  BY <1>1, <1>3 DEF Documento, Coerente
<1>5. TypeOK'
  BY <1>3 DEF IInv, TypeOK, RecusarCliente, SituacoesOrcamento
<1>6. TextoOK' /\ EnvioOK' /\ TelaOK'
  BY <1>1, <1>3, <1>4 DEF IInv, TextoOK, EnvioOK, TelaOK, RecusarCliente
<1>7. EstadosCasados' /\ CobraSoAceita' /\ ContratoFiel' /\ AceitaOQueRecebeu'
  BY <1>1, <1>3 DEF IInv, EstadosCasados, CobraSoAceita, ContratoFiel, AceitaOQueRecebeu,
                     RecusarCliente
<1> QED BY <1>5, <1>6, <1>7 DEF IInv

-----------------------------------------------------------------------------
(* Acceptance. *)

(* Accepting again what is accepted changes nothing but a missing           *)
(* production.                                                              *)
LEMMA AceiteRepetido ==
    ASSUME IInv, prop.status = "aceita",
           UNCHANGED <<orcamento, prop, aceite, catalogo, envio, emails, tela, teste, historico>>,
           IF producao = "nenhuma" THEN Cobrar /\ LiberarSemCobranca
                                   ELSE UNCHANGED <<cobranca, producao>>
    PROVE  IInv' /\ cobranca' = cobranca
<1>1. prop.conteudo \in Conteudos
  BY DEF IInv, TextoOK, Coerente
<1>2. Valor[prop.conteudo] > 0 => cobranca # Nada
  BY DEF IInv, CobraSoAceita
<1>3. cobranca' = cobranca
  BY <1>2 DEF Cobrar
<1>4. producao' \in {"nenhuma", "direta", "avulsa", "comercial"}
  BY DEF IInv, TypeOK, LiberarSemCobranca
<1>5. TypeOK'
  BY <1>3, <1>4 DEF IInv, TypeOK
<1> QED BY <1>3, <1>5, MesmaProposta

(* A new acceptance, of a proposal that was sent or of a draft of the       *)
(* catalog.                                                                 *)
LEMMA AceiteNovo ==
    ASSUME IInv, envio = Nada, NEW m \in PropostaTipo, Coerente(m),
           m.versao = prop.versao, m.conteudo = prop.conteudo,
           prop.status \in {"rascunho", "enviada"},
           NEW por \in {"admin", "cliente", "catalogo"},
           por # "catalogo" => m = prop /\ prop.status = "enviada",
           prop' = [Congelado(m) EXCEPT !.status = "aceita"],
           orcamento' = "aprovado", Cobrar, LiberarSemCobranca,
           aceite' = [por |-> por, versao |-> m.versao, conteudo |-> m.conteudo,
                      visto |-> prop.conteudo],
           prop.status = "rascunho" => tela = Nada \/ tela.versao < prop.versao,
           UNCHANGED <<catalogo, envio, emails, tela, teste, historico>>
    PROVE  IInv'
<1> DEFINE n == Congelado(m)
<1>1. /\ n \in PropostaTipo /\ Coerente(n) /\ n.snapshot = prop.conteudo
      /\ n.versao = prop.versao /\ n.conteudo = prop.conteudo
      /\ m.snapshot # Nada => n = m
  BY CongeladoFatos DEF IInv, TypeOK
<1>2. prop' = [n EXCEPT !.status = "aceita"]
  OBVIOUS
<1> HIDE DEF n
<1>3. /\ prop' \in PropostaTipo /\ prop'.status = "aceita" /\ prop'.snapshot = prop.conteudo
      /\ prop'.versao = prop.versao /\ prop'.conteudo = prop.conteudo
      /\ prop'.pdf = n.pdf /\ prop'.direitos = n.direitos
  BY <1>1, <1>2 DEF PropostaTipo
<1>4. prop.conteudo \in Conteudos /\ prop.conteudo # Nada /\ prop.versao \in 1..MaxVersao
  BY DEF Coerente
<1>5. Valor[prop.conteudo] \in Nat /\ Valor[prop.conteudo] # Nada
  BY <1>4
<1>6. cobranca = Nada /\ producao # "comercial"
  BY DEF IInv, CobraSoAceita
<1>7. /\ cobranca' = IF Valor[prop.conteudo] > 0 THEN Valor[prop.conteudo] ELSE Nada
      /\ producao' \in {"nenhuma", "direta", "avulsa", "comercial"}
  BY <1>6 DEF IInv, TypeOK, Cobrar, LiberarSemCobranca
<1>8. TypeOK'
  <2>1. cobranca' \in Nat \cup {Nada}
    BY <1>5, <1>7
  <2>2. aceite' \in [por : {"admin", "cliente", "catalogo"}, versao : 1..MaxVersao,
                     conteudo : Conteudos, visto : Conteudos]
    BY <1>4
  <2>3. orcamento' \in SituacoesOrcamento
    BY DEF SituacoesOrcamento
  <2> QED BY <1>3, <1>7, <2>1, <2>2, <2>3 DEF IInv, TypeOK
<1>9. TextoOK'
  BY <1>1, <1>3, <1>4 DEF TextoOK, Coerente, Documento
<1>10. EnvioOK' /\ TelaOK'
  BY <1>3 DEF IInv, EnvioOK, TelaOK
<1>11. EstadosCasados' /\ CobraSoAceita'
  BY <1>3, <1>5, <1>7 DEF EstadosCasados, CobraSoAceita
<1>12. ContratoFiel'
  BY <1>3, <1>7 DEF ContratoFiel
<1>13. AceitaOQueRecebeu'
  <2>1. CASE por = "catalogo"
    BY <2>1 DEF AceitaOQueRecebeu
  <2>2. CASE por # "catalogo"
    <3>1. Documento(prop) \in emails /\ n = prop /\ prop.snapshot = prop.conteudo
      BY <1>1, <2>2 DEF IInv, TextoOK, Coerente
    <3> QED BY <1>3, <1>1, <3>1 DEF Documento, AceitaOQueRecebeu
  <2> QED BY <2>1, <2>2
<1> QED BY <1>8, <1>9, <1>10, <1>11, <1>12, <1>13 DEF IInv

LEMMA PassoAprovar == ASSUME IInv, Aprovar PROVE IInv'
<1>1. envio = Nada /\ UNCHANGED <<catalogo, envio, emails, tela, teste, historico>>
  BY DEF Aprovar, Livre
<1>2. CASE prop.status = "aceita"
  BY <1>1, <1>2, AceiteRepetido DEF Aprovar, AprovarCarregada, Aceitavel
<1>3. CASE prop.status # "aceita"
  <2>1. prop.status = "enviada" /\ prop \in PropostaTipo /\ Coerente(prop)
    BY <1>3 DEF Aprovar, AprovarCarregada, Aceitavel, IInv, TypeOK, TextoOK
  <2> QED BY <1>1, <1>3, <2>1, AceiteNovo DEF Aprovar, AprovarCarregada
<1> QED BY <1>2, <1>3

LEMMA PassoAceitarCliente == ASSUME IInv, AceitarCliente PROVE IInv'
<1>1. envio = Nada /\ UNCHANGED <<catalogo, envio, emails, tela, teste, historico>>
  BY DEF AceitarCliente, Livre
<1>2. tela.conteudo = prop.conteudo
  BY DEF AceitarCliente, VersaoConfere, IInv, TelaOK
<1>3. CASE prop.status = "aceita"
  BY <1>1, <1>3, AceiteRepetido DEF AceitarCliente, AprovarCarregada, Aceitavel
<1>4. CASE prop.status # "aceita"
  <2>1. prop.status = "enviada" /\ prop \in PropostaTipo /\ Coerente(prop)
    BY <1>4 DEF AceitarCliente, AprovarCarregada, Aceitavel, IInv, TypeOK, TextoOK
  <2> QED BY <1>1, <1>2, <1>4, <2>1, AceiteNovo DEF AceitarCliente, AprovarCarregada
<1> QED BY <1>3, <1>4

LEMMA PassoCompraCatalogo == ASSUME IInv, AceitarCompraCatalogo PROVE IInv'
<1> DEFINE m == [Congelado(prop) EXCEPT !.envio = "valido"]
           direto == prop.status = "rascunho" /\ Aberto
<1>1. envio = Nada /\ UNCHANGED <<catalogo, envio, emails, tela, teste, historico>>
  BY DEF AceitarCompraCatalogo, Livre
<1>2. IF direto
      THEN AprovarCarregada("catalogo", m, producao \in {"nenhuma", "direta"}, m.conteudo)
      ELSE AprovarCarregada("catalogo", prop, Aceitavel, prop.conteudo)
  BY DEF AceitarCompraCatalogo
<1>3. CASE prop.status = "aceita"
  BY <1>1, <1>2, <1>3, AceiteRepetido DEF AprovarCarregada, Aceitavel
<1>4. CASE prop.status # "aceita" /\ ~direto
  <2>1. prop.status = "enviada" /\ prop \in PropostaTipo /\ Coerente(prop)
    BY <1>2, <1>4 DEF AprovarCarregada, Aceitavel, IInv, TypeOK, TextoOK
  <2> QED BY <1>1, <1>2, <1>4, <2>1, AceiteNovo DEF AprovarCarregada
<1>5. CASE direto
  <2>1. prop \in PropostaTipo /\ Coerente(prop) /\ catalogo \in 0..MaxCatalogo
    BY <1>5 DEF IInv, TypeOK, TextoOK
  <2> DEFINE k == Congelado(prop)
  <2>2. k \in PropostaTipo /\ Coerente(k) /\ k.versao = prop.versao /\ k.conteudo = prop.conteudo
    BY <2>1, CongeladoFatos
  <2>3. m = [k EXCEPT !.envio = "valido"]
    OBVIOUS
  <2> HIDE DEF m, k
  <2>4. /\ m \in PropostaTipo /\ m.versao = prop.versao /\ m.conteudo = prop.conteudo
        /\ m.snapshot = k.snapshot /\ m.pdf = k.pdf /\ m.direitos = k.direitos
    BY <2>2, <2>3 DEF PropostaTipo
  <2>5. Coerente(m)
    BY <2>2, <2>4 DEF Coerente, Documento
  <2>6. tela = Nada \/ tela.versao < prop.versao
    BY <1>5, <2>1 DEF IInv, TelaOK, TypeOK, PropostaTipo
  <2>7. /\ prop' = [Congelado(m) EXCEPT !.status = "aceita"]
        /\ orcamento' = "aprovado" /\ Cobrar /\ LiberarSemCobranca
        /\ aceite' = [por |-> "catalogo", versao |-> m.versao, conteudo |-> m.conteudo,
                      visto |-> prop.conteudo]
    BY <1>2, <1>5, <2>4 DEF AprovarCarregada
  <2> QED BY <1>1, <1>5, <2>4, <2>5, <2>6, <2>7, AceiteNovo
<1> QED BY <1>3, <1>4, <1>5

LEMMA PassoDaProposta == IInv /\ [Next]_vars => IInv'
<1> SUFFICES ASSUME IInv, [Next]_vars PROVE IInv'
  OBVIOUS
<1>1. ASSUME NEW c \in Conteudos, CriarPorOrcamento(c) \/ Atualizar(c) PROVE IInv'
  BY <1>1, PassoCriar, PassoAtualizar
<1>2. ASSUME NEW s \in SituacoesOrcamento, AtualizarStatus(s) PROVE IInv'
  BY <1>2, PassoAtualizarStatus
<1>3. CASE GerarDocumento \/ Enviar \/ ConfirmarEnvio \/ FalharEnvio
  BY <1>3, PassoGerarDocumento, PassoEnvioProposta, PassoConfirmarEnvio, PassoFalharEnvio
<1>4. CASE Vencer \/ ReabrirExpirada \/ RecusarCliente \/ AbrirTela
  BY <1>4, PassoVencer, PassoReabrirExpirada, PassoRecusar, PassoAbrirTela
<1>5. CASE Aprovar \/ AceitarCliente \/ AceitarCompraCatalogo
  BY <1>5, PassoAprovar, PassoAceitarCliente, PassoCompraCatalogo
<1>6. ASSUME NEW novo \in BOOLEAN, Classificar(novo) PROVE IInv'
  BY <1>6, PassosAlheios
<1>7. CASE MudarCatalogo \/ CriarProducao \/ LiberarProducao \/ NovaOrder \/ UNCHANGED vars
  BY <1>7, PassosAlheios
<1> QED BY <1>1, <1>2, <1>3, <1>4, <1>5, <1>6, <1>7 DEF Next

LEMMA Invariante == Spec => []IInv
<1>1. Init => IInv
  BY IniciaProposta
<1>2. IInv /\ [Next]_vars => IInv'
  BY PassoDaProposta
<1> QED BY <1>1, <1>2, PTL DEF Spec

-----------------------------------------------------------------------------
(* The theorems. *)

(* Every variable keeps its type.                                           *)
THEOREM TiposDaProposta == Spec => []TypeOK
<1>1. IInv => TypeOK
  BY DEF IInv
<1> QED BY <1>1, Invariante, PTL

(* Budget and proposal always tell the same story.                          *)
THEOREM Casados == Spec => []EstadosCasados
<1>1. IInv => EstadosCasados
  BY DEF IInv
<1> QED BY <1>1, Invariante, PTL

(* Nothing is charged, and no commercial production begins, before the      *)
(* proposal is accepted; what costs money is charged when it is.            *)
THEOREM SoCobraAceita == Spec => []CobraSoAceita
<1>1. IInv => CobraSoAceita
  BY DEF IInv
<1> QED BY <1>1, Invariante, PTL

(* What was seen, frozen, agreed and charged is the same.                   *)
THEOREM Contrato == Spec => []ContratoFiel
<1>1. IInv => ContratoFiel
  BY DEF IInv
<1> QED BY <1>1, Invariante, PTL

(* What is accepted is, word for word, what was mailed.                     *)
THEOREM Recebido == Spec => []AceitaOQueRecebeu
<1>1. IInv => AceitaOQueRecebeu
  BY DEF IInv
<1> QED BY <1>1, Invariante, PTL

(* An accepted proposal, its charge and its acceptance never change again.  *)
THEOREM Definitivo == Spec => AceiteDefinitivo
<1> DEFINE Fixo ==
        prop.status = "aceita" =>
          /\ [prop' EXCEPT !.pdf = Nada, !.envio = "nao"] = [prop EXCEPT !.pdf = Nada, !.envio = "nao"]
          /\ cobranca' = cobranca /\ aceite' = aceite
<1>1. ASSUME IInv, [Next]_vars PROVE [Fixo]_vars
  <2> SUFFICES ASSUME prop.status = "aceita" PROVE Fixo
    OBVIOUS
  <2>1. /\ prop \in PropostaTipo /\ Coerente(prop) /\ prop.snapshot # Nada
        /\ catalogo \in 0..MaxCatalogo /\ envio = Nada
        /\ orcamento \notin {"novo", "em_analise", "proposta_enviada"}
    BY <1>1 DEF IInv, TypeOK, TextoOK, EnvioOK, EstadosCasados
  <2>2. CASE GerarDocumento
    <3>1. Congelado(prop) = prop
      BY <2>1, CongeladoFatos
    <3> DEFINE d == Documento(prop)
    <3>2. prop' = [prop EXCEPT !.pdf = d] /\ cobranca' = cobranca /\ aceite' = aceite
      BY <2>2, <3>1 DEF GerarDocumento
    <3> HIDE DEF d
    <3> QED BY <2>1, <3>2 DEF PropostaTipo
  <2>3. CASE Vencer
    <3>1. prop' = [prop EXCEPT !.envio = "vencido"] /\ cobranca' = cobranca /\ aceite' = aceite
      BY <2>3 DEF Vencer
    <3> QED BY <2>1, <3>1 DEF PropostaTipo
  <2>4. CASE Aprovar \/ AceitarCliente \/ AceitarCompraCatalogo
    <3>1. /\ prop' = prop /\ aceite' = aceite
          /\ UNCHANGED <<orcamento, catalogo, envio, emails, tela, teste, historico>>
          /\ IF producao = "nenhuma" THEN Cobrar /\ LiberarSemCobranca
                                     ELSE UNCHANGED <<cobranca, producao>>
      BY <2>4, <2>1 DEF Aprovar, AceitarCliente, AceitarCompraCatalogo, AprovarCarregada, Aceitavel
    <3>2. cobranca' = cobranca
      BY <1>1, <3>1, AceiteRepetido
    <3> QED BY <3>1, <3>2
  <2>5. \/ UNCHANGED <<prop, cobranca, aceite>>
        \/ GerarDocumento \/ Vencer \/ Aprovar \/ AceitarCliente \/ AceitarCompraCatalogo
    BY <1>1, <2>1 DEF Next, vars, CriarPorOrcamento, Atualizar, Editavel, AtualizarStatus, Enviar,
         ConfirmarEnvio, FalharEnvio, ReabrirExpirada, Expirada, MudarCatalogo, RecusarCliente,
         Recusavel, AbrirTela, CriarProducao, LiberarProducao, NovaOrder, Classificar
  <2> QED BY <2>2, <2>3, <2>4, <2>5
<1> QED BY <1>1, Invariante, PTL DEF Spec, AceiteDefinitivo

(* A test that had payments is never turned into a real order.              *)
THEOREM TestePermanece == Spec => TesteComHistorico
<1>1. [Next]_vars => [teste /\ historico => teste']_vars
  BY Zenon DEF Next, vars, CriarPorOrcamento, Atualizar, AtualizarStatus, GerarDocumento, Enviar,
       ConfirmarEnvio, FalharEnvio, Vencer, ReabrirExpirada, MudarCatalogo, Aprovar, AceitarCliente,
       AceitarCompraCatalogo, RecusarCliente, AbrirTela, CriarProducao, LiberarProducao, NovaOrder,
       Classificar, ReversaoPermitida
<1> QED BY <1>1, PTL DEF Spec, TesteComHistorico
=============================================================================
