----------------------------- MODULE PortalProofs -----------------------------
(***************************************************************************)
(* Proofs about three of the portals, for every set of policies, services, *)
(* purchases, texts and requests, and every bound: the policies of a       *)
(* contract, a beat of the catalog, and what producers offer to the        *)
(* portfolio.                                                              *)
(***************************************************************************)
EXTENDS MCPortal, Sequences, TLAPS

-----------------------------------------------------------------------------
(* The policies. *)

(* No default, override or frozen value releases files before they are paid. *)
Fechada(p) == p[EntregaFinal] # TRUE

Instantaneos == {Nada} \cup UNION {[S -> P!Completas] : S \in SUBSET Servicos}

Catalogadas ==
    /\ globais \in Seq(P!Completas)
    /\ \A i \in 1..Len(globais) : Fechada(globais[i])
    /\ publicando \subseteq P!Completas
    /\ \A p \in publicando : Fechada(p)
    /\ proprias \in [Servicos -> P!Parciais]
    /\ \A s \in Servicos : Fechada(proprias[s])

(* What was frozen is what was promised, and an accepted proposal is frozen. *)
Congelada ==
    /\ contrato \in [status : {"rascunho", "enviada", "aceita"}, itens : SUBSET Servicos,
                     snapshot : Instantaneos]
    /\ contrato.snapshot # Nada =>
           /\ contrato.snapshot \in [contrato.itens -> P!Completas]
           /\ \A s \in contrato.itens : Fechada(contrato.snapshot[s])
           /\ prometido = P!Agregar(contrato.snapshot)
    /\ contrato.status = "aceita" => contrato.snapshot # Nada

(* A production's contract is the promise of a proposal that stays frozen. *)
Contratada ==
    /\ linha \in [ha : BOOLEAN, contrato : P!Completas \cup {Nada}, excecao : P!Parciais]
    /\ linha.contrato # Nada =>
           /\ contrato.snapshot # Nada
           /\ linha.contrato = prometido
           /\ obraContratada # "nenhuma"

PoliticasInv == Catalogadas /\ Congelada /\ Contratada

(* What the services resolve to is complete and releases nothing. *)
LEMMA Vigente ==
    ASSUME Catalogadas
    PROVE  P!GlobalAtual \in P!Completas /\ Fechada(P!GlobalAtual)
<1>1. CASE globais = <<>>
  BY <1>1, PortalConstantes DEF P!GlobalAtual, P!Completas, Fechada, PortalAssumption
<1>2. CASE globais # <<>>
  <2>1. Len(globais) \in 1..Len(globais)
    BY <1>2 DEF Catalogadas
  <2> QED BY <1>2, <2>1 DEF P!GlobalAtual, Catalogadas
<1> QED BY <1>1, <1>2

LEMMA Sobreposta ==
    ASSUME NEW base \in P!Completas, NEW parcial \in P!Parciais
    PROVE  P!Sobrepor(base, parcial) \in P!Completas
BY DEF P!Sobrepor, P!Completas, P!Parciais

LEMMA Resolvida ==
    ASSUME Catalogadas, NEW s \in Servicos
    PROVE  P!Resolver(s) \in P!Completas /\ Fechada(P!Resolver(s))
<1>1. proprias[s] \in P!Parciais /\ Fechada(proprias[s])
  BY DEF Catalogadas
<1>2. P!Resolver(s) = P!Sobrepor(P!GlobalAtual, proprias[s])
  BY DEF P!Resolver
<1>3. Fechada(P!Sobrepor(P!GlobalAtual, proprias[s]))
  BY <1>1, Vigente, PortalConstantes DEF Fechada, P!Sobrepor, PortalAssumption
<1> QED BY <1>1, <1>2, <1>3, Vigente, Sobreposta

(* A proposal is frozen as it is sent, or accepted without having been. *)
LEMMA Congelar ==
    ASSUME Catalogadas, Congelada, P!Prometer, NEW c, c = P!Congelado(contrato)
    PROVE  /\ c \in [status : {contrato.status}, itens : {contrato.itens},
                     snapshot : [contrato.itens -> P!Completas]]
           /\ c.snapshot # Nada
           /\ \A s \in c.itens : Fechada(c.snapshot[s])
           /\ prometido' = P!Agregar(c.snapshot)
           /\ contrato.snapshot # Nada => prometido' = prometido
<1> DEFINE novo == [s \in contrato.itens |-> P!Resolver(s)]
<1>1. CASE contrato.snapshot # Nada
  BY <1>1 DEF Congelada, P!Congelado, P!Prometer
<1>2. CASE contrato.snapshot = Nada
  <2>1. contrato.itens \subseteq Servicos
    BY DEF Congelada
  <2>2. novo \in [contrato.itens -> P!Completas] /\ \A s \in contrato.itens : Fechada(novo[s])
    BY <2>1, Resolvida
  <2>3. novo # Nada
    BY <2>1, <2>2, PortalConstantes DEF PortalAssumption, P!Completas
  <2>4. prometido' = P!Agregar(novo)
    <3>1. \A k \in Chaves : (\E s \in DOMAIN novo : novo[s][k]) <=> (\E s \in contrato.itens : P!Resolver(s)[k])
      OBVIOUS
    <3>2. P!Agregar(novo) = [k \in Chaves |-> \E s \in DOMAIN novo : novo[s][k]]
      BY DEF P!Agregar
    <3>3. prometido' = [k \in Chaves |-> \E s \in contrato.itens : P!Resolver(s)[k]]
      BY <1>2 DEF P!Prometer
    <3> HIDE DEF novo
    <3> QED BY <3>1, <3>2, <3>3
  <2>5. c = [contrato EXCEPT !.snapshot = novo]
    BY <1>2 DEF P!Congelado
  <2> HIDE DEF novo
  <2> QED BY <1>2, <2>2, <2>3, <2>4, <2>5 DEF Congelada
<1> QED BY <1>1, <1>2

(* The production takes what was frozen, if it took nothing before. *)
LEMMA Instanciada ==
    ASSUME Contratada, NEW m, NEW S \in SUBSET Servicos, m.snapshot \in [S -> P!Completas],
           NEW l, l = P!Instanciar(m)
    PROVE  /\ l \in [ha : BOOLEAN, contrato : P!Completas \cup {Nada}, excecao : P!Parciais]
           /\ l.contrato = linha.contrato \/ l.contrato = P!Agregar(m.snapshot)
<1>1. P!Agregar(m.snapshot) \in P!Completas
  BY DEF P!Agregar, P!Completas
<1>2. P!Nenhuma \in P!Parciais
  BY DEF P!Nenhuma, P!Parciais
<1> QED BY <1>1, <1>2 DEF P!Instanciar, P!SemLinha, Contratada

LEMMA IniciaPoliticas == P!Init => PoliticasInv
<1> SUFFICES ASSUME P!Init PROVE PoliticasInv
  OBVIOUS
<1>1. P!Nenhuma \in P!Parciais /\ Fechada(P!Nenhuma)
  BY PortalConstantes DEF P!Nenhuma, P!Parciais, Fechada, PortalAssumption
<1>2. Catalogadas
  BY <1>1 DEF Catalogadas, P!Init
<1>3. Congelada
  BY DEF Congelada, Instantaneos, P!Init
<1>4. Contratada
  BY <1>1 DEF Contratada, P!Init, P!SemLinha
<1> QED BY <1>2, <1>3, <1>4 DEF PoliticasInv

(* The catalog changes and the contracts do not. *)
LEMMA PassoCatalogo ==
    ASSUME PoliticasInv, Catalogadas', UNCHANGED <<contrato, linha, obraContratada, prometido>>
    PROVE  PoliticasInv'
BY DEF PoliticasInv, Congelada, Contratada, P!Agregar

LEMMA PassoExcecao ==
    ASSUME PoliticasInv, NEW x \in P!Parciais, P!DefinirExcecao(x) \/ P!RemoverExcecao
    PROVE  PoliticasInv'
<1>1. P!Nenhuma \in P!Parciais
  BY DEF P!Nenhuma, P!Parciais
<1>2. UNCHANGED <<globais, publicando, proprias, contrato, obraContratada, prometido>>
  BY DEF P!DefinirExcecao, P!RemoverExcecao
<1>3. Catalogadas' /\ Congelada'
  BY <1>2 DEF PoliticasInv, Catalogadas, Congelada
<1>4. linha' \in [ha : BOOLEAN, contrato : {linha.contrato}, excecao : P!Parciais]
  BY <1>1 DEF PoliticasInv, Contratada, P!DefinirExcecao, P!RemoverExcecao
<1>5. Contratada'
  BY <1>2, <1>4 DEF PoliticasInv, Contratada
<1> QED BY <1>3, <1>5 DEF PoliticasInv

LEMMA PassoEnviar ==
    ASSUME PoliticasInv, P!Enviar
    PROVE  PoliticasInv'
<1> DEFINE c == P!Congelado(contrato)
<1>0. Catalogadas /\ Congelada /\ Contratada
  BY DEF PoliticasInv
<1>1. P!Prometer /\ contrato' = [c EXCEPT !.status = "enviada"]
  BY DEF P!Enviar
<1>2. Catalogadas'
  BY <1>0 DEF P!Enviar, Catalogadas
<1>3. /\ c \in [status : {contrato.status}, itens : {contrato.itens},
                snapshot : [contrato.itens -> P!Completas]]
      /\ c.snapshot # Nada
      /\ \A s \in c.itens : Fechada(c.snapshot[s])
      /\ prometido' = P!Agregar(c.snapshot)
      /\ contrato.snapshot # Nada => prometido' = prometido
  BY <1>0, <1>1, Congelar
<1> HIDE DEF c
<1>4. /\ contrato' \in [status : {"enviada"}, itens : {contrato.itens},
                        snapshot : [contrato.itens -> P!Completas]]
      /\ contrato'.snapshot = c.snapshot /\ contrato'.itens = c.itens
  BY <1>1, <1>3
<1>5. contrato.itens \subseteq Servicos
  BY <1>0 DEF Congelada
<1>6. Congelada'
  BY <1>3, <1>4, <1>5 DEF Congelada, Instantaneos
<1>7. Contratada'
  BY <1>0, <1>3, <1>4 DEF P!Enviar, Contratada
<1> QED BY <1>2, <1>6, <1>7 DEF PoliticasInv

LEMMA PassoAceitar ==
    ASSUME PoliticasInv, NEW ja \in BOOLEAN, P!Aceitar(ja)
    PROVE  PoliticasInv'
<1> DEFINE c == P!Congelado(contrato)
<1>0. Catalogadas /\ Congelada /\ Contratada
  BY DEF PoliticasInv
<1>1. P!Prometer /\ contrato' = [c EXCEPT !.status = "aceita"]
  BY DEF P!Aceitar
<1>2. Catalogadas'
  BY <1>0 DEF P!Aceitar, Catalogadas
<1>3. /\ c \in [status : {contrato.status}, itens : {contrato.itens},
                snapshot : [contrato.itens -> P!Completas]]
      /\ c.snapshot # Nada
      /\ \A s \in c.itens : Fechada(c.snapshot[s])
      /\ prometido' = P!Agregar(c.snapshot)
      /\ contrato.snapshot # Nada => prometido' = prometido
  BY <1>0, <1>1, Congelar
<1> HIDE DEF c
<1>4. /\ contrato' \in [status : {"aceita"}, itens : {contrato.itens},
                        snapshot : [contrato.itens -> P!Completas]]
      /\ contrato'.snapshot = c.snapshot /\ contrato'.itens = c.itens
  BY <1>1, <1>3
<1>5. contrato.itens \subseteq Servicos
  BY <1>0 DEF Congelada
<1>6. Congelada'
  BY <1>3, <1>4, <1>5 DEF Congelada, Instantaneos
<1>7. ASSUME obraContratada' = "nenhuma" PROVE Contratada'
  <2>1. linha' = linha /\ obraContratada = "nenhuma"
    BY <1>7 DEF P!Aceitar
  <2> QED BY <1>0, <2>1 DEF Contratada
<1>8. ASSUME obraContratada' # "nenhuma" PROVE Contratada'
  <2>1. linha' = P!Instanciar(contrato')
    BY <1>8 DEF P!Aceitar
  <2>2. /\ linha' \in [ha : BOOLEAN, contrato : P!Completas \cup {Nada}, excecao : P!Parciais]
        /\ linha'.contrato = linha.contrato \/ linha'.contrato = P!Agregar(contrato'.snapshot)
    BY <1>0, <1>4, <1>5, <2>1, Instanciada
  <2> QED BY <1>0, <1>3, <1>4, <1>8, <2>2 DEF Contratada
<1> QED BY <1>2, <1>6, <1>7, <1>8 DEF PoliticasInv

LEMMA PassoLiberar ==
    ASSUME PoliticasInv, P!Liberar
    PROVE  PoliticasInv'
<1>0. Catalogadas /\ Congelada /\ Contratada
  BY DEF PoliticasInv
<1>1. /\ contrato.snapshot # Nada /\ contrato.itens \in SUBSET Servicos
      /\ contrato.snapshot \in [contrato.itens -> P!Completas]
      /\ prometido = P!Agregar(contrato.snapshot)
  BY <1>0 DEF P!Liberar, Congelada
<1>2. Catalogadas' /\ Congelada'
  BY <1>0 DEF P!Liberar, Catalogadas, Congelada
<1>3. linha' = P!Instanciar(contrato)
  BY DEF P!Liberar
<1>4. /\ linha' \in [ha : BOOLEAN, contrato : P!Completas \cup {Nada}, excecao : P!Parciais]
      /\ linha'.contrato = linha.contrato \/ linha'.contrato = P!Agregar(contrato.snapshot)
  BY <1>0, <1>1, <1>3, Instanciada
<1>5. Contratada'
  BY <1>0, <1>1, <1>4 DEF Contratada, P!Liberar
<1> QED BY <1>2, <1>5 DEF PoliticasInv

(* Reopened without a production: nothing took the promise that goes. *)
LEMMA PassoReabrir ==
    ASSUME PoliticasInv, P!Reabrir \/ P!CriarProducao
    PROVE  PoliticasInv'
<1>1. Catalogadas'
  BY DEF PoliticasInv, Catalogadas, P!Reabrir, P!CriarProducao
<1>2. Congelada'
  BY DEF PoliticasInv, Congelada, Instantaneos, P!Reabrir, P!CriarProducao
<1>3. Contratada'
  BY DEF PoliticasInv, Contratada, P!Reabrir, P!CriarProducao
<1> QED BY <1>1, <1>2, <1>3 DEF PoliticasInv

LEMMA PassoPublicar ==
    ASSUME PoliticasInv, NEW p \in P!Completas, P!Publicar(p) \/ P!Gravar(p) \/ P!NaoGravar(p)
    PROVE  PoliticasInv'
<1>0. Catalogadas /\ UNCHANGED <<proprias, contrato, linha, obraContratada, prometido>>
  BY DEF PoliticasInv, P!Publicar, P!Gravar, P!NaoGravar
<1>1. CASE P!Publicar(p)
  <2>1. publicando' = publicando \cup {p} /\ Fechada(p) /\ globais' = globais
    BY <1>1 DEF P!Publicar, P!Liberada, Fechada
  <2> QED BY <1>0, <2>1, PassoCatalogo DEF Catalogadas
<1>2. CASE P!Gravar(p)
  <2>1. p \in publicando /\ globais' = Append(globais, p) /\ publicando' = publicando \ {p}
    BY <1>2 DEF P!Gravar
  <2>2. globais' \in Seq(P!Completas) /\ \A i \in 1..Len(globais') : Fechada(globais'[i])
    BY <1>0, <2>1 DEF Catalogadas
  <2> QED BY <1>0, <2>1, <2>2, PassoCatalogo DEF Catalogadas
<1>3. CASE P!NaoGravar(p)
  <2>1. globais' = globais /\ publicando' = publicando \ {p}
    BY <1>3 DEF P!NaoGravar
  <2> QED BY <1>0, <2>1, PassoCatalogo DEF Catalogadas
<1> QED BY <1>1, <1>2, <1>3

LEMMA PassoServico ==
    ASSUME PoliticasInv, NEW s \in Servicos, NEW q \in P!Parciais, P!SalvarServico(s, q)
    PROVE  PoliticasInv'
<1>1. proprias' = [proprias EXCEPT ![s] = q] /\ Fechada(q)
  BY DEF P!SalvarServico, P!Liberada, Fechada
<1>2. UNCHANGED <<globais, publicando, contrato, linha, obraContratada, prometido>>
  BY DEF P!SalvarServico
<1>3. Catalogadas'
  BY <1>1, <1>2 DEF PoliticasInv, Catalogadas
<1> QED BY <1>2, <1>3, PassoCatalogo

LEMMA NadaMudaPoliticas == ASSUME PoliticasInv, UNCHANGED varsP PROVE PoliticasInv'
BY PassoCatalogo DEF PoliticasInv, Catalogadas, varsP

LEMMA PassoDasPoliticas == ASSUME PoliticasInv, PassoPoliticas PROVE PoliticasInv'
<1>1. CASE \E p \in P!Completas : P!Publicar(p) \/ P!Gravar(p) \/ P!NaoGravar(p)
  BY <1>1, PassoPublicar
<1>2. CASE \E s \in Servicos, q \in P!Parciais : P!SalvarServico(s, q)
  BY <1>2, PassoServico
<1>3. CASE P!RemoverExcecao \/ \E x \in P!Parciais : P!DefinirExcecao(x)
  <2>1. P!Nenhuma \in P!Parciais
    BY DEF P!Nenhuma, P!Parciais
  <2> QED BY <1>3, <2>1, PassoExcecao
<1>4. CASE P!Enviar \/ P!Reabrir \/ P!CriarProducao \/ P!Liberar \/ \E ja \in BOOLEAN : P!Aceitar(ja)
  BY <1>4, PassoEnviar, PassoReabrir, PassoLiberar, PassoAceitar
<1> QED BY <1>1, <1>2, <1>3, <1>4 DEF PassoPoliticas

(* A step is one of this portal or leaves it alone. *)
LEMMA ForaDasPoliticas ==
    ASSUME [Passo]_<<parte, vars, varsAcesso, varsF, varsBriefing, varsP, varsB, varsE, varsNewsletter>>
    PROVE  PassoPoliticas \/ UNCHANGED varsP
BY DEF Passo, PassoProposta, PassoAcesso, PassoArquivos, PassoAtendimento, PassoBeats, PassoPortfolio,
       PassoNewsletter, NaProposta, NoAcesso, NosArquivos, NoAtendimento, NaConversa, NosBeats,
       NoPortfolio, NaNewsletter, CabePedido, CabeWorker, Comprimindo, ComAnexos, ComLote

LEMMA InvariantePoliticas == Portal => []PoliticasInv
<1>1. Inicio => PoliticasInv
  BY IniciaPoliticas DEF Inicio
<1>2. PoliticasInv /\ [Passo]_<<parte, vars, varsAcesso, varsF, varsBriefing, varsP, varsB, varsE,
                                varsNewsletter>> => PoliticasInv'
  BY ForaDasPoliticas, PassoDasPoliticas, NadaMudaPoliticas
<1> QED BY <1>1, <1>2, PTL DEF Portal

(* A contract says, key by key, what the service most favourable to the     *)
(* client offered when the proposal was sent, whatever is published or      *)
(* overridden since, and only an exception releases unpaid files.           *)
THEOREM Prometida == Portal => []ValeOEnviado
<1>1. PoliticasInv => ValeOEnviado
  <2> SUFFICES ASSUME PoliticasInv PROVE P!ValeOEnviado
    BY DEF ValeOEnviado
  <2>0. Catalogadas /\ Congelada /\ Contratada
    BY DEF PoliticasInv
  <2>1. ASSUME linha.contrato # Nada, NEW k \in Chaves
        PROVE  P!Vigentes[k] = IF linha.excecao[k] # Nada THEN linha.excecao[k] ELSE prometido[k]
    BY <2>0, <2>1 DEF Contratada, P!Vigentes, P!Sobrepor
  <2>2. ASSUME P!Vigentes[EntregaFinal] PROVE linha.excecao[EntregaFinal] = TRUE
    <3> DEFINE base == IF linha.contrato # Nada THEN linha.contrato ELSE P!GlobalAtual
    <3>1. base \in P!Completas /\ Fechada(base)
      <4>1. CASE linha.contrato = Nada
        BY <4>1, <2>0, Vigente
      <4>2. CASE linha.contrato # Nada
        <5>1. /\ linha.contrato = P!Agregar(contrato.snapshot) /\ linha.contrato \in P!Completas
              /\ contrato.snapshot \in [contrato.itens -> P!Completas]
              /\ \A s \in contrato.itens : Fechada(contrato.snapshot[s])
          BY <4>2, <2>0 DEF Contratada, Congelada
        <5>2. ~ \E s \in DOMAIN contrato.snapshot : contrato.snapshot[s][EntregaFinal]
          BY <5>1, PortalConstantes DEF Fechada, P!Completas, PortalAssumption
        <5>3. P!Agregar(contrato.snapshot)[EntregaFinal] = FALSE
          BY <5>2, PortalConstantes DEF P!Agregar, PortalAssumption
        <5> QED BY <4>2, <5>1, <5>3 DEF Fechada
      <4> QED BY <4>1, <4>2
    <3>2. P!Vigentes = P!Sobrepor(base, linha.excecao)
      BY DEF P!Vigentes
    <3>3. linha.excecao \in P!Parciais
      BY <2>0 DEF Contratada
    <3> HIDE DEF base
    <3> QED BY <2>2, <3>1, <3>2, <3>3, PortalConstantes DEF P!Sobrepor, P!Completas, P!Parciais, Fechada, PortalAssumption
  <2> QED BY <2>1, <2>2 DEF P!ValeOEnviado
<1> QED BY <1>1, InvariantePoliticas, PTL

-----------------------------------------------------------------------------
(* A beat of the catalog. *)

(* A beat that was not deleted has two files of its own, already named.     *)
ArquivosDoBeat ==
    B!Guardado =>
        /\ vitrine.original \in 1..(som - 1) /\ vitrine.previa \in 1..(som - 1)
        /\ vitrine.original # vitrine.previa
        /\ ~duvida => {vitrine.original, vitrine.previa} \subseteq sons

(* A licence comes with its proposal, and a cancelled one lapsed. *)
LicencaDoPedido ==
    \A c \in Compras :
        /\ pedidos[c] = "proposta" <=> licencas[c].status # "nenhuma"
        /\ licencas[c].status = "cancelada" => licencas[c].caducou

(* What a reservation holds in place. *)
Segura ==
    \A c \in Compras : B!Viva(c) =>
        /\ vitrine.status \in {"aprovado", "vendido"}
        /\ ~licencas[c].caducou => licencas[c].conteudo = vitrine.conteudo

Vitrines == [status : {"inexistente", "revisao", "aprovado", "rejeitado", "vendido", "excluido"},
             conteudo : 0..MaxConteudo, original : B!Objetos \cup {Nada},
             previa : B!Objetos \cup {Nada}, fila : {"nao", "pendente", "pronto", "erro"}]

Licencas == [status : {"nenhuma", "reservada", "adquirida", "cancelada"},
             motivo : {Nada, "expirada", "admin", "pagamento_revertido"},
             conteudo : 0..MaxConteudo, caducou : BOOLEAN]

(* The beat keeps its type, row and files; the purchases keep theirs. *)
TipoDoBeat ==
    /\ vitrine \in Vitrines
    /\ sons \subseteq B!Objetos
    /\ som \in 1..(MaxSons + 1)

TipoDasCompras ==
    /\ pedidos \in [Compras -> {"nao", "orcamento", "proposta"}]
    /\ licencas \in [Compras -> Licencas]
    /\ pagas \subseteq Compras

BeatsInv == TipoDoBeat /\ TipoDasCompras /\ duvida \in BOOLEAN /\ ArquivosDoBeat /\ LicencaDoPedido /\ Segura

LEMMA TiposDosBeats == B!TypeOK <=> TipoDoBeat /\ TipoDasCompras /\ duvida \in BOOLEAN
BY DEF B!TypeOK, TipoDoBeat, TipoDasCompras, Vitrines, Licencas

LEMMA IniciaBeats == B!Init => BeatsInv
<1> SUFFICES ASSUME B!Init PROVE BeatsInv
  OBVIOUS
<1>1. TipoDoBeat
  BY PortalConstantes DEF B!Init, TipoDoBeat, Vitrines, PortalAssumption
<1>2. TipoDasCompras
  BY PortalConstantes DEF B!Init, TipoDasCompras, Licencas, B!SemLicenca, PortalAssumption
<1>3. duvida \in BOOLEAN
  BY DEF B!Init
<1>4. ArquivosDoBeat /\ LicencaDoPedido /\ Segura
  BY DEF B!Init, ArquivosDoBeat, LicencaDoPedido, Segura, B!Guardado, B!Viva, B!SemLicenca
<1> QED BY <1>1, <1>2, <1>3, <1>4 DEF BeatsInv

(* The row changes within review, catalog and sale: files and purchases stay. *)
LEMMA PassoLinha ==
    ASSUME BeatsInv, \/ \E d \in {"aprovado", "rejeitado"} : B!Review(d)
                     \/ B!Edit \/ B!FalharFila \/ B!IniciarLote \/ B!Relist
    PROVE  BeatsInv'
<1>0. TipoDoBeat /\ TipoDasCompras /\ duvida \in BOOLEAN /\ ArquivosDoBeat /\ LicencaDoPedido /\ Segura
  BY DEF BeatsInv
<1>1. UNCHANGED <<sons, som, duvida, pedidos, licencas, pagas>> /\ B!Guardado
  BY DEF B!Review, B!Edit, B!Editavel, B!FalharFila, B!IniciarLote, B!Relist, B!Guardado
<1>2. /\ vitrine' \in [status : {"revisao", "aprovado", "rejeitado", "vendido"}, conteudo : 0..MaxConteudo,
                       original : {vitrine.original}, previa : {vitrine.previa},
                       fila : {"nao", "pendente", "pronto", "erro"}]
      /\ B!Prometido => /\ vitrine'.conteudo = vitrine.conteudo
                        /\ vitrine'.status \in {vitrine.status, "aprovado"}
  <2>1. vitrine \in Vitrines /\ MaxConteudo \in Nat
    BY <1>0, PortalConstantes DEF TipoDoBeat, PortalAssumption
  <2>2. CASE \E d \in {"aprovado", "rejeitado"} : B!Review(d)
    BY <2>1, <2>2 DEF B!Review, B!Guardado, Vitrines
  <2>3. CASE B!Edit
    <3>1. vitrine.conteudo + 1 \in 0..MaxConteudo
      BY <2>1, <2>3 DEF B!Edit, Vitrines
    <3>2. vitrine' = [vitrine EXCEPT !.status = "revisao", !.conteudo = vitrine.conteudo + 1] /\ ~B!Prometido
      BY <2>3 DEF B!Edit, B!Editavel
    <3> QED BY <2>1, <3>1, <3>2 DEF Vitrines
  <2>4. CASE B!FalharFila \/ B!IniciarLote
    BY <2>1, <2>4 DEF B!FalharFila, B!IniciarLote, B!Guardado, Vitrines
  <2>5. CASE B!Relist
    BY <2>1, <2>5 DEF B!Relist, B!Guardado, Vitrines
  <2> QED BY <2>2, <2>3, <2>4, <2>5
<1>3. TipoDoBeat'
  BY <1>0, <1>1, <1>2 DEF TipoDoBeat, Vitrines
<1>4. ArquivosDoBeat'
  BY <1>0, <1>1, <1>2 DEF ArquivosDoBeat, B!Guardado
<1>5. Segura'
  <2> SUFFICES ASSUME NEW c \in Compras, B!Viva(c)'
               PROVE  /\ vitrine'.status \in {"aprovado", "vendido"}
                      /\ ~licencas'[c].caducou => licencas'[c].conteudo = vitrine'.conteudo
    BY DEF Segura
  <2>1. B!Viva(c) /\ B!Prometido
    BY <1>1 DEF B!Viva, B!Prometido
  <2> QED BY <1>0, <1>1, <1>2, <2>1 DEF Segura
<1>6. TipoDasCompras' /\ LicencaDoPedido' /\ duvida' \in BOOLEAN
  BY <1>0, <1>1 DEF LicencaDoPedido, TipoDasCompras
<1> QED BY <1>3, <1>4, <1>5, <1>6 DEF BeatsInv

(* New files: those the row no longer names go, unless the commit that      *)
(* stood was answered with an error.                                        *)
LEMMA PassoArquivo ==
    ASSUME BeatsInv, NEW respondeu \in BOOLEAN,
           B!Create(respondeu) \/ B!EditArquivos(respondeu) \/ B!Remixar(respondeu)
    PROVE  BeatsInv'
<1>0. TipoDoBeat /\ TipoDasCompras /\ duvida \in BOOLEAN /\ ArquivosDoBeat /\ LicencaDoPedido /\ Segura
  BY DEF BeatsInv
<1>1. /\ som \in Nat /\ som >= 1 /\ sons \subseteq 1..MaxSons /\ MaxSons \in Nat /\ MaxConteudo \in Nat \ {0}
      /\ vitrine \in Vitrines
  BY <1>0, PortalConstantes DEF TipoDoBeat, B!Objetos, PortalAssumption
<1>2. UNCHANGED <<pedidos, licencas, pagas>> /\ duvida' = (duvida \/ ~respondeu)
  BY DEF B!Create, B!EditArquivos, B!Remixar, B!Salvar
<1>3. duvida' \in BOOLEAN /\ (~duvida' => respondeu /\ ~duvida)
  BY <1>2
<1>4. TipoDasCompras' /\ LicencaDoPedido'
  BY <1>0, <1>2 DEF TipoDasCompras, LicencaDoPedido
<1>5. CASE B!Create(respondeu)
  <2>1. /\ vitrine' = [status |-> "revisao", conteudo |-> 1, original |-> som, previa |-> som + 1, fila |-> "nao"]
        /\ sons' \in {sons, sons \cup {som, som + 1}} /\ (respondeu => sons' = sons \cup {som, som + 1})
        /\ som' = som + 2 /\ som + 1 <= MaxSons /\ vitrine.status = "inexistente"
    BY <1>5 DEF B!Create, B!Salvar
  <2>2. TipoDoBeat'
    BY <1>1, <2>1 DEF TipoDoBeat, B!Objetos, Vitrines
  <2>3. ArquivosDoBeat'
    BY <1>1, <1>3, <2>1 DEF ArquivosDoBeat
  <2>4. Segura'
    BY <1>0, <1>2, <2>1 DEF Segura, B!Viva
  <2> QED BY <1>3, <1>4, <2>2, <2>3, <2>4 DEF BeatsInv
<1>6. CASE B!EditArquivos(respondeu)
  <2>1. /\ vitrine' = [vitrine EXCEPT !.status = "revisao", !.conteudo = @ + 1, !.original = som,
                                     !.previa = som + 1]
        /\ sons' \in {sons, (sons \cup {som, som + 1}) \ {vitrine.original, vitrine.previa}}
        /\ (respondeu => sons' = (sons \cup {som, som + 1}) \ {vitrine.original, vitrine.previa})
        /\ som' = som + 2 /\ som + 1 <= MaxSons /\ B!Guardado /\ ~B!Prometido
        /\ vitrine.conteudo < MaxConteudo
    BY <1>6 DEF B!EditArquivos, B!Editavel, B!Salvar
  <2>2. TipoDoBeat'
    <3>1. /\ som \in B!Objetos /\ som + 1 \in B!Objetos /\ vitrine.conteudo + 1 \in 0..MaxConteudo
          /\ som' \in 1..(MaxSons + 1) /\ sons' \subseteq B!Objetos
      BY <1>1, <2>1 DEF B!Objetos, Vitrines
    <3>2. vitrine' \in Vitrines
      BY <1>1, <2>1, <3>1 DEF Vitrines
    <3> QED BY <3>1, <3>2 DEF TipoDoBeat
  <2>3. ArquivosDoBeat'
    <3>1. vitrine'.original = som /\ vitrine'.previa = som + 1
      BY <1>1, <2>1 DEF Vitrines
    <3>2. vitrine.original \in 1..(som - 1) /\ vitrine.previa \in 1..(som - 1)
      BY <1>0, <2>1 DEF ArquivosDoBeat
    <3> QED BY <1>1, <1>3, <2>1, <3>1, <3>2 DEF ArquivosDoBeat
  <2>4. Segura'
    BY <1>2, <2>1 DEF Segura, B!Viva, B!Prometido
  <2> QED BY <1>3, <1>4, <2>2, <2>3, <2>4 DEF BeatsInv
<1>7. CASE B!Remixar(respondeu)
  <2>1. /\ vitrine' = [vitrine EXCEPT !.previa = som, !.fila = IF @ = "pendente" THEN "pronto" ELSE @]
        /\ sons' \in {sons, (sons \cup {som}) \ {vitrine.previa}}
        /\ (respondeu => sons' = (sons \cup {som}) \ {vitrine.previa})
        /\ som' = som + 1 /\ som <= MaxSons /\ B!Guardado
    BY <1>7 DEF B!Remixar, B!Salvar
  <2>2. TipoDoBeat'
    <3>1. som \in B!Objetos /\ som' \in 1..(MaxSons + 1) /\ sons' \subseteq B!Objetos
      BY <1>1, <2>1 DEF B!Objetos
    <3>2. vitrine' \in Vitrines
      <4> DEFINE f == IF vitrine.fila = "pendente" THEN "pronto" ELSE vitrine.fila
      <4>1. f \in {"nao", "pendente", "pronto", "erro"}
        BY <1>1 DEF Vitrines
      <4>2. vitrine' = [vitrine EXCEPT !.previa = som, !.fila = f]
        BY <1>1, <2>1 DEF Vitrines
      <4> HIDE DEF f
      <4> QED BY <1>1, <3>1, <4>1, <4>2 DEF Vitrines
    <3> QED BY <3>1, <3>2 DEF TipoDoBeat
  <2>3. ArquivosDoBeat'
    <3>1. vitrine'.original = vitrine.original /\ vitrine'.previa = som
      BY <1>1, <2>1 DEF Vitrines
    <3>2. /\ vitrine.original \in 1..(som - 1) /\ vitrine.previa \in 1..(som - 1)
          /\ vitrine.original # vitrine.previa /\ (~duvida => vitrine.original \in sons)
      BY <1>0, <2>1 DEF ArquivosDoBeat
    <3> QED BY <1>1, <1>3, <2>1, <3>1, <3>2 DEF ArquivosDoBeat
  <2>4. Segura'
    BY <1>0, <1>1, <1>2, <2>1 DEF Segura, B!Viva, Vitrines
  <2> QED BY <1>3, <1>4, <2>2, <2>3, <2>4 DEF BeatsInv
<1> QED BY <1>5, <1>6, <1>7

(* Deleted only while nobody asked for it. *)
LEMMA PassoApagar == ASSUME BeatsInv, B!ProducerDelete PROVE BeatsInv'
<1>0. TipoDoBeat /\ TipoDasCompras /\ duvida \in BOOLEAN /\ ArquivosDoBeat /\ LicencaDoPedido /\ Segura
  BY DEF BeatsInv
<1>1. /\ vitrine' = [vitrine EXCEPT !.status = "excluido"] /\ sons' \subseteq sons
      /\ UNCHANGED <<som, duvida, pedidos, licencas, pagas>>
      /\ \A c \in Compras : pedidos[c] = "nao"
  BY DEF B!ProducerDelete
<1>2. TipoDoBeat' /\ vitrine'.status = "excluido"
  BY <1>0, <1>1 DEF TipoDoBeat, Vitrines
<1>3. ArquivosDoBeat'
  BY <1>2 DEF ArquivosDoBeat, B!Guardado
<1>4. TipoDasCompras' /\ LicencaDoPedido' /\ duvida' \in BOOLEAN
  BY <1>0, <1>1 DEF LicencaDoPedido, TipoDasCompras
<1>5. Segura'
  BY <1>0, <1>1 DEF LicencaDoPedido, Segura, B!Viva
<1> QED BY <1>2, <1>3, <1>4, <1>5 DEF BeatsInv

(* A purchase changes the licence of its own, and the beat only by selling it. *)
LEMMA PassoCompra ==
    ASSUME BeatsInv, NEW c \in Compras, NEW l \in Licencas,
           UNCHANGED <<sons, som, duvida>>,
           pedidos' \in [Compras -> {"nao", "orcamento", "proposta"}], pagas' \subseteq Compras,
           licencas' = [licencas EXCEPT ![c] = l],
           \A d \in Compras \ {c} : pedidos'[d] = pedidos[d],
           pedidos'[c] = "proposta" <=> l.status # "nenhuma",
           l.status = "cancelada" => l.caducou,
           \/ vitrine' = vitrine
           \/ vitrine.status \in {"aprovado", "vendido"} /\ vitrine' = [vitrine EXCEPT !.status = "vendido"],
           l.status \in {"reservada", "adquirida"} =>
               vitrine.status \in {"aprovado", "vendido"} /\ (~l.caducou => l.conteudo = vitrine.conteudo)
    PROVE  BeatsInv'
<1>0. TipoDoBeat /\ TipoDasCompras /\ duvida \in BOOLEAN /\ ArquivosDoBeat /\ LicencaDoPedido /\ Segura
  BY DEF BeatsInv
<1>1. /\ vitrine' \in Vitrines
      /\ UNCHANGED <<vitrine.original, vitrine.previa, vitrine.conteudo>>
      /\ vitrine.status \in {"aprovado", "vendido"} => vitrine'.status \in {"aprovado", "vendido"}
      /\ B!Guardado' => B!Guardado
  BY <1>0 DEF TipoDoBeat, Vitrines, B!Guardado
<1>2. TipoDoBeat' /\ ArquivosDoBeat' /\ duvida' \in BOOLEAN
  BY <1>0, <1>1 DEF TipoDoBeat, ArquivosDoBeat
<1>3. \A d \in Compras : licencas'[d] = IF d = c THEN l ELSE licencas[d]
  BY <1>0 DEF TipoDasCompras
<1>4. TipoDasCompras'
  BY <1>0 DEF TipoDasCompras
<1>5. LicencaDoPedido'
  BY <1>0, <1>3 DEF LicencaDoPedido
<1>6. Segura'
  <2> SUFFICES ASSUME NEW d \in Compras, B!Viva(d)'
               PROVE  /\ vitrine'.status \in {"aprovado", "vendido"}
                      /\ ~licencas'[d].caducou => licencas'[d].conteudo = vitrine'.conteudo
    BY DEF Segura
  <2>1. CASE d = c
    BY <1>1, <1>3, <2>1 DEF B!Viva
  <2>2. CASE d # c
    BY <1>0, <1>1, <1>3, <2>2 DEF B!Viva, Segura
  <2> QED BY <2>1, <2>2
<1> QED BY <1>2, <1>4, <1>5, <1>6 DEF BeatsInv

LEMMA PassoPedido == ASSUME BeatsInv, NEW c \in Compras, B!RequestLicense(c) PROVE BeatsInv'
<1>1. licencas' = [licencas EXCEPT ![c] = licencas[c]] /\ licencas[c] \in Licencas
  BY DEF BeatsInv, TipoDasCompras, B!RequestLicense
<1>2. pedidos' \in [Compras -> {"nao", "orcamento", "proposta"}]
  BY DEF BeatsInv, TipoDasCompras, B!RequestLicense
<1>3. /\ \A d \in Compras \ {c} : pedidos'[d] = pedidos[d]
      /\ pedidos'[c] = "orcamento" /\ pedidos[c] = "nao"
  BY DEF BeatsInv, TipoDasCompras, B!RequestLicense
<1>4. licencas[c].status = "nenhuma"
  BY <1>3 DEF BeatsInv, LicencaDoPedido
<1>5. UNCHANGED <<vitrine, sons, som, duvida, pagas>> /\ pagas' \subseteq Compras
  BY DEF B!RequestLicense, BeatsInv, TipoDasCompras
<1> QED BY <1>1, <1>2, <1>3, <1>4, <1>5, PassoCompra

LEMMA PassoReserva == ASSUME BeatsInv, NEW c \in Compras, B!ReserveForProposal(c) PROVE BeatsInv'
<1> DEFINE l == [B!SemLicenca EXCEPT !.status = "reservada", !.conteudo = vitrine.conteudo]
<1>1. /\ l \in Licencas /\ l.status = "reservada" /\ l.conteudo = vitrine.conteudo
      /\ licencas' = [licencas EXCEPT ![c] = l]
  BY DEF BeatsInv, TipoDoBeat, Vitrines, Licencas, B!SemLicenca, B!ReserveForProposal
<1>2. /\ pedidos' \in [Compras -> {"nao", "orcamento", "proposta"}]
      /\ \A d \in Compras \ {c} : pedidos'[d] = pedidos[d]
      /\ pedidos'[c] = "proposta"
  BY DEF BeatsInv, TipoDasCompras, B!ReserveForProposal
<1>3. /\ UNCHANGED <<vitrine, sons, som, duvida, pagas>> /\ pagas' \subseteq Compras
      /\ vitrine.status = "aprovado"
  BY DEF B!ReserveForProposal, BeatsInv, TipoDasCompras
<1> HIDE DEF l
<1> QED BY <1>1, <1>2, <1>3, PassoCompra

(* A lapsed, released or reverted licence promises nothing. *)
LEMMA PassoCancela ==
    ASSUME BeatsInv, NEW c \in Compras, B!ExpireReservations(c) \/ B!ReleaseReservation(c) \/ B!RevokeReverted(c)
    PROVE  BeatsInv'
<1>0. licencas[c] \in Licencas /\ licencas \in [Compras -> Licencas] /\ pagas \subseteq Compras
  BY DEF BeatsInv, TipoDasCompras
<1>1. /\ UNCHANGED <<vitrine, sons, som, duvida, pedidos>> /\ pagas' \subseteq Compras
      /\ pedidos' \in [Compras -> {"nao", "orcamento", "proposta"}]
  BY <1>0 DEF B!ExpireReservations, B!ReleaseReservation, B!RevokeReverted, BeatsInv, TipoDasCompras
<1>2. CASE licencas' = licencas
  <2>1. licencas' = [licencas EXCEPT ![c] = licencas[c]]
    BY <1>0, <1>2
  <2> QED BY <1>0, <1>1, <2>1, PassoCompra DEF BeatsInv, LicencaDoPedido, Segura, B!Viva
<1>3. CASE \E motivo \in {"expirada", "admin", "pagamento_revertido"} :
              /\ licencas[c].status \in {"reservada", "adquirida"}
              /\ licencas' = [licencas EXCEPT ![c] = B!Cancelada(@, motivo)]
  <2>1. PICK motivo \in {"expirada", "admin", "pagamento_revertido"} :
              /\ licencas[c].status \in {"reservada", "adquirida"}
              /\ licencas' = [licencas EXCEPT ![c] = B!Cancelada(@, motivo)]
    BY <1>3
  <2> DEFINE l == B!Cancelada(licencas[c], motivo)
  <2>2. l \in Licencas /\ l.status = "cancelada" /\ l.caducou /\ licencas' = [licencas EXCEPT ![c] = l]
    BY <1>0, <2>1 DEF B!Cancelada, Licencas
  <2>3. pedidos[c] = "proposta"
    BY <2>1 DEF BeatsInv, LicencaDoPedido
  <2> HIDE DEF l
  <2> QED BY <1>1, <2>2, <2>3, PassoCompra
<1>4. \/ licencas' = licencas
      \/ \E motivo \in {"expirada", "admin", "pagamento_revertido"} :
              /\ licencas[c].status \in {"reservada", "adquirida"}
              /\ licencas' = [licencas EXCEPT ![c] = B!Cancelada(@, motivo)]
  BY DEF B!ExpireReservations, B!ReleaseReservation, B!RevokeReverted
<1> QED BY <1>2, <1>3, <1>4

(* A payment finds a reservation that still holds its beat in place, or a   *)
(* lapsed one of a beat that is in the catalog.                             *)
LEMMA PassoPaga == ASSUME BeatsInv, NEW c \in Compras, B!ConfirmPaid(c) PROVE BeatsInv'
<1>0. licencas[c] \in Licencas /\ licencas \in [Compras -> Licencas] /\ pagas \subseteq Compras
  BY DEF BeatsInv, TipoDasCompras
<1>1. /\ UNCHANGED <<sons, som, duvida, pedidos>> /\ pagas' \subseteq Compras
      /\ pedidos' \in [Compras -> {"nao", "orcamento", "proposta"}] /\ pedidos[c] = "proposta"
  BY <1>0 DEF B!ConfirmPaid, BeatsInv, TipoDasCompras
<1>2. CASE ~B!Concede(c)
  <2>1. licencas' = [licencas EXCEPT ![c] = licencas[c]] /\ vitrine' = vitrine
    BY <1>0, <1>2 DEF B!ConfirmPaid
  <2> QED BY <1>0, <1>1, <2>1, PassoCompra DEF BeatsInv, LicencaDoPedido, Segura, B!Viva
<1>3. CASE B!Concede(c)
  <2> DEFINE l == [licencas[c] EXCEPT !.status = "adquirida", !.motivo = Nada]
  <2>1. /\ l \in Licencas /\ l.status = "adquirida" /\ l.caducou = licencas[c].caducou
        /\ l.conteudo = licencas[c].conteudo
    BY <1>0 DEF Licencas
  <2>2. licencas' = [licencas EXCEPT ![c] = l]
    BY <1>0, <1>3 DEF B!ConfirmPaid
  <2>3. /\ vitrine.status \in {"aprovado", "vendido"}
        /\ ~licencas[c].caducou => licencas[c].conteudo = vitrine.conteudo
    <3>1. CASE B!Viva(c)
      BY <3>1 DEF BeatsInv, Segura
    <3>2. CASE ~B!Viva(c)
      <4>1. licencas[c].status = "cancelada" /\ licencas[c].caducou
        BY <1>0, <1>1, <3>2 DEF BeatsInv, LicencaDoPedido, B!Viva, Licencas
      <4>2. vitrine.status = "aprovado"
        BY <1>3, <4>1 DEF B!Concede
      <4> QED BY <4>1, <4>2
    <3> QED BY <3>1, <3>2
  <2>4. vitrine' = vitrine \/ vitrine' = [vitrine EXCEPT !.status = "vendido"]
    BY <1>3 DEF B!ConfirmPaid
  <2> HIDE DEF l
  <2> QED BY <1>1, <2>1, <2>2, <2>3, <2>4, PassoCompra
<1> QED BY <1>2, <1>3

LEMMA PassoDosBeats == ASSUME BeatsInv, PassoBeats PROVE BeatsInv'
BY PassoLinha, PassoArquivo, PassoApagar, PassoPedido, PassoReserva, PassoCancela, PassoPaga DEF PassoBeats

LEMMA NadaMudaBeats == ASSUME BeatsInv, UNCHANGED varsB PROVE BeatsInv'
BY DEF BeatsInv, TipoDoBeat, TipoDasCompras, ArquivosDoBeat, LicencaDoPedido, Segura, B!Guardado, B!Viva, varsB

LEMMA ForaDosBeats ==
    ASSUME [Passo]_<<parte, vars, varsAcesso, varsF, varsBriefing, varsP, varsB, varsE, varsNewsletter>>
    PROVE  PassoBeats \/ UNCHANGED varsB
BY DEF Passo, PassoProposta, PassoAcesso, PassoArquivos, PassoAtendimento, PassoPoliticas, PassoPortfolio,
       PassoNewsletter, NaProposta, NoAcesso, NosArquivos, NoAtendimento, NaConversa, NasPoliticas,
       NoPortfolio, NaNewsletter, CabePedido, CabeWorker, Comprimindo, ComAnexos, ComLote

LEMMA InvarianteBeats == Portal => []BeatsInv
<1>1. Inicio => BeatsInv
  BY IniciaBeats DEF Inicio
<1>2. BeatsInv /\ [Passo]_<<parte, vars, varsAcesso, varsF, varsBriefing, varsP, varsB, varsE,
                            varsNewsletter>> => BeatsInv'
  BY ForaDosBeats, PassoDosBeats, NadaMudaBeats
<1> QED BY <1>1, <1>2, PTL DEF Portal

(* A beat somebody reserved or owns stays in the catalog or sold, as it was *)
(* when it was reserved and with its files, however purchases, payments,    *)
(* refunds, edits and reviews interleave.                                   *)
THEOREM Promessa == Portal => []PromessaMantida
<1>1. BeatsInv => PromessaMantida
  BY DEF BeatsInv, Segura, ArquivosDoBeat, B!Guardado, PromessaMantida, B!PromessaMantida
<1> QED BY <1>1, InvarianteBeats, PTL

-----------------------------------------------------------------------------
(* The portfolio. *)

Subidas == [pedido : Envios, texto : Textos, capa : E!Capas, fase : {"guardada", "conferir"}]

Publicas == [projeto : Nat, envio : 1..MaxLinhas, texto : Textos, capa : E!Capas \cup {Nada},
             visto : Textos, capaVista : E!Capas \cup {Nada}]

(* A row has its number, one of those given out, and a pending one can      *)
(* still be decided.                                                        *)
Numeradas ==
    /\ linhas \in 0..MaxLinhas
    /\ envios \subseteq E!Linhas
    /\ \A e \in envios : e.id <= linhas /\ (e.status = "pendente" => e.versao <= MaxRevisoes)
    /\ \A e, f \in envios : e.id = f.id => e = f

(* The administrator's screen shows the row, or an older version of it. *)
Telas ==
    /\ aberta \in E!Linhas \cup {Nada} /\ vista \in E!Linhas \cup {Nada}
    /\ vista # Nada =>
           /\ vista.id <= linhas
           /\ \A e \in envios : e.id = vista.id =>
                  vista.versao <= e.versao /\ (vista.versao = e.versao => e = vista)

(* A published submission stays, approved. *)
Publicados ==
    /\ publicados \in Nat
    /\ publicacoes \subseteq Publicas
    /\ \A p \in publicacoes : \E e \in envios : e.id = p.envio /\ e.status = "aprovado"

(* A cover was named once: by an upload, and by the row of that request.    *)
CapasNomeadas ==
    /\ capa \in 1..(MaxCapas + 1) /\ capas \subseteq E!Capas
    /\ \A c \in capas : c < capa
    /\ \A e \in envios : e.capa # Nada =>
           e.capa < capa /\ (e.status # "aprovado" => e.capa \in capas)

SubidasOK ==
    /\ subindo \subseteq Subidas
    /\ \A u \in subindo : u.capa < capa /\ (u.fase = "guardada" => u.capa \in capas)
    /\ \A u, v \in subindo : u.capa = v.capa => u = v
    /\ \A u \in subindo, e \in envios :
           e.capa = u.capa => e.pedido = u.pedido /\ u.fase = "conferir"

(* An image that a project names, or named when a request read it. *)
Usada(c) == (\E p \in projetos : p.capa = c) \/ (\E t \in trocando : t.antes = c)

(* A project has its number and an image of its own; a new image is of one  *)
(* request, and no project names it yet.                                    *)
ProjetosOK ==
    /\ projetos \subseteq [id : Nat, capa : E!Capas \cup {Nada}]
    /\ trocando \subseteq [id : Nat, antes : E!Capas \cup {Nada}, capa : E!Capas]
    /\ incertas \subseteq E!Capas
    /\ \A p \in projetos : p.id <= publicados
    /\ \A p, q \in projetos : p.id = q.id \/ (p.capa = q.capa /\ p.capa # Nada) => p = q
    /\ \A p \in projetos : p.capa # Nada => p.capa < capa /\ p.capa \in capas \cup incertas
    /\ \A t \in trocando : t.id <= publicados /\ t.capa < capa /\ t.capa \in capas
                          /\ (t.antes # Nada => t.antes < capa)
    /\ \A t, v \in trocando : t.capa = v.capa => t = v
    /\ \A t \in trocando, p \in projetos : t.antes = p.capa /\ p.capa # Nada => t.id = p.id

(* The covers of submissions and of uploads are no project's, until the     *)
(* submission is approved; a new image is nobody else's.                    *)
Livres ==
    /\ \A e \in envios : e.status # "aprovado" /\ e.capa # Nada =>
           ~Usada(e.capa) /\ \A f \in envios : f.capa = e.capa => f = e
    /\ \A u \in subindo : Usada(u.capa) =>
           \E e \in envios : e.status = "aprovado" /\ e.capa = u.capa
    /\ \A t \in trocando : ~Usada(t.capa)
    /\ \A t \in trocando, e \in envios : e.capa # t.capa
    /\ \A t \in trocando, u \in subindo : u.capa # t.capa

PortfolioInv ==
    /\ Numeradas /\ Telas /\ Publicados /\ CapasNomeadas /\ SubidasOK /\ E!PublicaOQueReviu
    /\ ProjetosOK /\ Livres

LEMMA IniciaPortfolio == E!Init => PortfolioInv
BY PortalConstantes DEF E!Init, PortfolioInv, Numeradas, Telas, Publicados, CapasNomeadas, SubidasOK,
   E!PublicaOQueReviu, ProjetosOK, Livres, Usada, PortalAssumption

(* A new row, with the cover of an upload or with none. *)
LEMMA LinhaNova ==
    ASSUME PortfolioInv, NEW r \in Envios, NEW t \in Textos, NEW c \in E!Capas \cup {Nada},
           linhas < MaxLinhas, envios' = envios \cup {E!NovaLinha(r, t, c)}, linhas' = linhas + 1,
           UNCHANGED <<capas, capa, vista, aberta, E!varsProjetos>>,
           subindo' = subindo \/ \A u \in subindo' : \E w \in subindo : u.capa = w.capa,
           c # Nada => /\ c < capa /\ c \in capas /\ ~Usada(c)
                       /\ \A e \in envios : e.capa # c
                       /\ \A t0 \in trocando : t0.capa # c
    PROVE  /\ Numeradas' /\ Telas' /\ Publicados' /\ CapasNomeadas' /\ E!PublicaOQueReviu'
           /\ ProjetosOK' /\ Livres'
<1> DEFINE n == E!NovaLinha(r, t, c)
<1>0. Numeradas /\ Telas /\ Publicados /\ CapasNomeadas /\ E!PublicaOQueReviu /\ ProjetosOK /\ Livres
  BY DEF PortfolioInv
<1>u. UNCHANGED <<projetos, publicados, publicacoes, trocando, incertas>>
  BY DEF E!varsProjetos
<1>1. linhas \in Nat /\ linhas + 1 \in 1..MaxLinhas /\ 1 \in 1..(MaxRevisoes + 1) /\ 1 <= MaxRevisoes
  BY <1>0, PortalConstantes DEF Numeradas, PortalAssumption
<1>2. /\ n \in E!Linhas /\ n.id = linhas + 1 /\ n.pedido = r /\ n.capa = c /\ n.versao = 1
      /\ n.status = "pendente"
  BY <1>1 DEF E!NovaLinha, E!Linhas
<1>3. envios' = envios \cup {n}
  OBVIOUS
<1> HIDE DEF n
<1>4. \A e \in envios : e.id \in Nat /\ e.id <= linhas
  BY <1>0 DEF Numeradas, E!Linhas
<1>5. Numeradas'
  BY <1>0, <1>1, <1>2, <1>3, <1>4 DEF Numeradas
<1>6. Telas'
  <2>1. vista # Nada => vista.id \in Nat
    BY <1>0 DEF Telas, E!Linhas
  <2> QED BY <1>0, <1>1, <1>2, <1>3, <2>1 DEF Telas
<1>7. Publicados'
  BY <1>0, <1>3, <1>u DEF Publicados
<1>8. CapasNomeadas'
  BY <1>0, <1>2, <1>3 DEF CapasNomeadas
<1>9. E!PublicaOQueReviu' /\ ProjetosOK'
  BY <1>0, <1>u DEF E!PublicaOQueReviu, ProjetosOK
<1>10. Livres'
  <2>1. \A d : Usada(d)' <=> Usada(d)
    BY <1>u DEF Usada
  <2>2. \A t0 \in trocando : t0.capa # Nada
    BY <1>0, PortalConstantes DEF ProjetosOK, E!Capas, PortalAssumption
  <2>3. \A e \in envios' : e.status # "aprovado" /\ e.capa # Nada =>
            ~Usada(e.capa)' /\ \A f \in envios' : f.capa = e.capa => f = e
    BY <1>0, <1>2, <1>3, <2>1 DEF Livres
  <2>4. \A u \in subindo' : Usada(u.capa)' => \E e \in envios' : e.status = "aprovado" /\ e.capa = u.capa
    BY <1>0, <1>3, <2>1 DEF Livres
  <2>5. \A t0 \in trocando' : /\ ~Usada(t0.capa)' /\ \A e \in envios' : e.capa # t0.capa
                             /\ \A u \in subindo' : u.capa # t0.capa
    BY <1>0, <1>2, <1>3, <1>u, <2>1, <2>2 DEF Livres
  <2> QED BY <2>3, <2>4, <2>5 DEF Livres
<1> QED BY <1>5, <1>6, <1>7, <1>8, <1>9, <1>10

LEMMA PassoEnvio == ASSUME PortfolioInv, NEW r \in Envios, NEW t \in Textos, E!Enviar(r, t) PROVE PortfolioInv'
<1>1. /\ envios' = envios \cup {E!NovaLinha(r, t, Nada)} /\ linhas' = linhas + 1 /\ linhas < MaxLinhas
      /\ UNCHANGED <<capas, capa, subindo, vista, aberta, E!varsProjetos>>
  BY DEF E!Enviar
<1>2. E!NovaLinha(r, t, Nada).capa = Nada
  BY DEF E!NovaLinha
<1>3. SubidasOK'
  <2>1. \A u \in subindo : u.capa # Nada
    BY PortalConstantes DEF PortfolioInv, SubidasOK, Subidas, E!Capas, PortalAssumption
  <2> QED BY <1>1, <1>2, <2>1 DEF PortfolioInv, SubidasOK
<1>4. subindo' = subindo
  BY <1>1
<1> QED BY <1>1, <1>3, <1>4, LinhaNova DEF PortfolioInv

(* The next cover is nobody's yet. *)
LEMMA NomeNovo ==
    ASSUME PortfolioInv
    PROVE  /\ capa \in Nat /\ capa # Nada /\ ~Usada(capa)
           /\ \A e \in envios : e.capa # capa
           /\ \A u \in subindo : u.capa # capa
           /\ \A t \in trocando : t.capa # capa
<1>0. CapasNomeadas /\ SubidasOK /\ ProjetosOK
  BY DEF PortfolioInv
<1>1. capa \in Nat /\ capa # Nada
  BY <1>0, PortalConstantes DEF CapasNomeadas, PortalAssumption
<1>2. ~Usada(capa)
  BY <1>0, <1>1 DEF ProjetosOK, Usada
<1> QED BY <1>0, <1>1, <1>2 DEF CapasNomeadas, SubidasOK, ProjetosOK

(* The images of projects have names given out before. *)
LEMMA CapasAntigas ==
    ASSUME PortfolioInv
    PROVE  /\ \A p \in projetos : p.capa # Nada => p.capa < capa + 1
           /\ \A t \in trocando : t.capa < capa + 1 /\ t.capa # capa /\ (t.antes # Nada => t.antes < capa + 1)
<1>0. ProjetosOK /\ capa \in Nat
  BY PortalConstantes DEF PortfolioInv, CapasNomeadas, PortalAssumption
<1>1. \A c \in E!Capas : c < capa => c < capa + 1 /\ c # capa
  BY <1>0, PortalConstantes DEF E!Capas, PortalAssumption
<1>2. \A p \in projetos : p.capa # Nada => p.capa \in E!Capas /\ p.capa < capa
  BY <1>0 DEF ProjetosOK
<1>3. \A t \in trocando : t.capa \in E!Capas /\ t.capa < capa
  BY <1>0 DEF ProjetosOK
<1>4. \A t \in trocando : t.antes # Nada => t.antes \in E!Capas /\ t.antes < capa
  BY <1>0 DEF ProjetosOK
<1> QED BY <1>1, <1>2, <1>3, <1>4

(* A cover more takes nothing away. *)
LEMMA CapaNova ==
    ASSUME PortfolioInv, capa <= MaxCapas, capa' = capa + 1, capas' = capas \cup {capa},
           UNCHANGED <<envios, projetos, publicados, incertas>>
    PROVE  /\ CapasNomeadas'
           /\ trocando' = trocando => ProjetosOK'
<1>0. CapasNomeadas /\ ProjetosOK
  BY DEF PortfolioInv
<1>1. capa \in E!Capas /\ capa \in Nat /\ capa # Nada /\ capa' \in 1..(MaxCapas + 1)
  BY <1>0, PortalConstantes DEF CapasNomeadas, E!Capas, PortalAssumption
<1>2. \A c \in E!Capas : c \in Nat
  BY PortalConstantes DEF E!Capas, PortalAssumption
<1>3. \A e \in envios : e.capa # Nada => e.capa \in Nat
  BY <1>2, PortalConstantes DEF PortfolioInv, Numeradas, E!Linhas
<1>4. CapasNomeadas'
  BY <1>0, <1>1, <1>2, <1>3 DEF CapasNomeadas
<1>5. ASSUME trocando' = trocando PROVE ProjetosOK'
  <2> QED BY <1>0, <1>5, CapasAntigas DEF ProjetosOK
<1> QED BY <1>4, <1>5

LEMMA PassoGuardar == ASSUME PortfolioInv, NEW r \in Envios, NEW t \in Textos, E!Guardar(r, t) PROVE PortfolioInv'
<1> DEFINE u == [pedido |-> r, texto |-> t, capa |-> capa, fase |-> "guardada"]
<1>0. Numeradas /\ Telas /\ Publicados /\ CapasNomeadas /\ SubidasOK /\ E!PublicaOQueReviu /\ ProjetosOK /\ Livres
  BY DEF PortfolioInv
<1>1. /\ subindo' = subindo \cup {u} /\ capas' = capas \cup {capa} /\ capa' = capa + 1 /\ capa <= MaxCapas
      /\ UNCHANGED <<envios, linhas, vista, aberta, projetos, publicados, publicacoes, trocando, incertas>>
  BY DEF E!Guardar, E!varsProjetos
<1>2. capa \in E!Capas /\ capa \in Nat /\ capa # Nada /\ capa' \in 1..(MaxCapas + 1)
  BY <1>0, <1>1, PortalConstantes DEF CapasNomeadas, E!Capas, PortalAssumption
<1>3. u \in Subidas /\ u.capa = capa /\ u.fase = "guardada"
  BY <1>2 DEF Subidas
<1> HIDE DEF u
<1>7. CapasNomeadas' /\ ProjetosOK'
  BY <1>0, <1>1, <1>2, CapaNova
<1>5. SubidasOK'
  <2>1. \A v \in subindo : v.capa \in Nat /\ v.capa < capa
    BY <1>0, PortalConstantes DEF SubidasOK, Subidas, E!Capas, PortalAssumption
  <2> QED BY <1>0, <1>1, <1>2, <1>3, <2>1, NomeNovo DEF SubidasOK
<1>6. Numeradas' /\ Telas' /\ Publicados' /\ E!PublicaOQueReviu'
  BY <1>0, <1>1 DEF Numeradas, Telas, Publicados, E!PublicaOQueReviu
<1>8. Livres'
  <2>1. \A d : Usada(d)' <=> Usada(d)
    BY <1>1 DEF Usada
  <2> QED BY <1>0, <1>1, <1>2, <1>3, <2>1, NomeNovo DEF Livres
<1> QED BY <1>5, <1>6, <1>7, <1>8 DEF PortfolioInv

(* An upload that is looked up has the cover it had. *)
LEMMA PassoConfirmar == ASSUME PortfolioInv, NEW u \in subindo, E!ConfirmarEnvio(u) PROVE PortfolioInv'
<1> DEFINE v == [u EXCEPT !.fase = "conferir"]
           n == E!NovaLinha(u.pedido, u.texto, u.capa)
<1>0. SubidasOK /\ u \in Subidas /\ u.fase = "guardada"
  BY DEF PortfolioInv, SubidasOK, E!ConfirmarEnvio
<1>1. /\ envios' = envios \cup {n} /\ linhas' = linhas + 1 /\ linhas < MaxLinhas
      /\ UNCHANGED <<capas, capa, vista, aberta, E!varsProjetos>>
      /\ subindo' = subindo \ {u} \/ subindo' = (subindo \ {u}) \cup {v}
  BY DEF E!ConfirmarEnvio, E!Sem, E!AConferir
<1>2. u.capa < capa /\ u.capa \in capas /\ u.capa \in E!Capas /\ u.pedido \in Envios /\ u.texto \in Textos
  BY <1>0 DEF SubidasOK, Subidas
<1>8. /\ ~Usada(u.capa) /\ \A e \in envios : e.capa # u.capa
      /\ \A t \in trocando : t.capa # u.capa
  BY <1>0 DEF PortfolioInv, SubidasOK, Livres
<1>9. \A w \in subindo' : \E x \in subindo : w.capa = x.capa
  <2>1. v.capa = u.capa
    BY <1>0 DEF Subidas
  <2> QED BY <1>1, <2>1
<1>3. /\ Numeradas' /\ Telas' /\ Publicados' /\ CapasNomeadas' /\ E!PublicaOQueReviu'
      /\ ProjetosOK' /\ Livres'
  BY <1>1, <1>2, <1>8, <1>9, LinhaNova
<1>4. v \in Subidas /\ v.capa = u.capa /\ v.fase = "conferir" /\ v.pedido = u.pedido
  BY <1>0 DEF Subidas
<1>5. n.capa = u.capa /\ n.pedido = u.pedido
  BY DEF E!NovaLinha
<1> HIDE DEF v, n
<1>6. \A w \in subindo : w.capa = u.capa => w = u
  BY <1>0 DEF SubidasOK
<1>7. SubidasOK'
  BY <1>0, <1>1, <1>2, <1>4, <1>5, <1>6 DEF SubidasOK
<1> QED BY <1>3, <1>7 DEF PortfolioInv

(* An upload that wrote nothing: its cover is named by no row. *)
LEMMA PassoFim ==
    ASSUME PortfolioInv, NEW u \in subindo, E!FalharEnvio(u) \/ E!Compensar(u) \/ E!Morrer(u)
    PROVE  PortfolioInv'
<1> DEFINE v == [u EXCEPT !.fase = "conferir"]
<1>0. Numeradas /\ Telas /\ Publicados /\ CapasNomeadas /\ SubidasOK /\ E!PublicaOQueReviu /\ u \in Subidas
      /\ ProjetosOK /\ Livres
  BY DEF PortfolioInv, SubidasOK
<1>1. /\ UNCHANGED <<envios, linhas, capa, vista, aberta, projetos, publicados, publicacoes, trocando, incertas>>
      /\ subindo' = subindo \ {u} \/ subindo' = (subindo \ {u}) \cup {v}
      /\ \/ capas' = capas
         \/ /\ capas' = capas \ {u.capa} /\ ~E!Registrada(u)
            /\ subindo' = subindo \ {u}
  BY DEF E!FalharEnvio, E!Compensar, E!Morrer, E!Sem, E!AConferir, E!varsProjetos
<1>2. v \in Subidas /\ v.capa = u.capa /\ v.fase = "conferir" /\ v.pedido = u.pedido
  BY <1>0 DEF Subidas
<1> HIDE DEF v
<1>3. capas' = capas \/ \A e \in envios : e.capa # u.capa
  BY <1>0, <1>1 DEF SubidasOK, E!Registrada, E!ComPedido
<1>4. CapasNomeadas'
  BY <1>0, <1>1, <1>3 DEF CapasNomeadas
<1>5. SubidasOK'
  BY <1>0, <1>1, <1>2 DEF SubidasOK
<1>6. Numeradas' /\ Telas' /\ Publicados' /\ E!PublicaOQueReviu'
  BY <1>0, <1>1 DEF Numeradas, Telas, Publicados, E!PublicaOQueReviu
<1>7. capas' = capas \/ ~Usada(u.capa)
  BY <1>0, <1>3 DEF Livres
<1>8. ProjetosOK'
  BY <1>0, <1>1, <1>7 DEF ProjetosOK, Livres, Usada
<1>9. Livres'
  <2>1. \A d : Usada(d)' <=> Usada(d)
    BY <1>1 DEF Usada
  <2> QED BY <1>0, <1>1, <1>2, <2>1 DEF Livres
<1> QED BY <1>4, <1>5, <1>6, <1>8, <1>9 DEF PortfolioInv

LEMMA PassoTela ==
    ASSUME PortfolioInv, NEW e \in envios, E!AbrirProdutor(e) \/ E!AbrirAdmin(e)
    PROVE  PortfolioInv'
<1>0. Numeradas /\ Telas /\ Publicados /\ CapasNomeadas /\ SubidasOK /\ E!PublicaOQueReviu
  BY DEF PortfolioInv
<1>1. /\ UNCHANGED <<envios, linhas, capas, capa, subindo, projetos, publicados, publicacoes, trocando, incertas>>
      /\ \/ aberta' = e /\ vista' = vista
         \/ vista' = e /\ aberta' = aberta
  BY DEF E!AbrirProdutor, E!AbrirAdmin, E!varsProjetos
<1>2. e \in E!Linhas /\ e.versao \in Nat /\ e.id <= linhas
  BY <1>0, PortalConstantes DEF Numeradas, E!Linhas, PortalAssumption
<1>3. Telas'
  BY <1>0, <1>1, <1>2 DEF Telas, Numeradas
<1>4. Numeradas' /\ Publicados' /\ CapasNomeadas' /\ SubidasOK' /\ E!PublicaOQueReviu'
  BY <1>0, <1>1 DEF Numeradas, Publicados, CapasNomeadas, SubidasOK, E!PublicaOQueReviu
<1>5. ProjetosOK' /\ Livres'
  BY <1>1 DEF PortfolioInv, ProjetosOK, Livres, Usada
<1> QED BY <1>3, <1>4, <1>5 DEF PortfolioInv

(* Withdrawn: it was not published. *)
LEMMA PassoExcluir == ASSUME PortfolioInv, NEW e \in envios, E!Excluir(e) PROVE PortfolioInv'
<1>0. Numeradas /\ Telas /\ Publicados /\ CapasNomeadas /\ SubidasOK /\ E!PublicaOQueReviu
  BY DEF PortfolioInv
<1>1. /\ UNCHANGED <<linhas, capas, capa, subindo, vista, aberta, projetos, publicados, publicacoes, trocando, incertas>>
      /\ envios' = envios \ {e} /\ e.status # "aprovado"
  BY DEF E!Excluir, E!Aberto, E!varsProjetos
<1>2. Publicados'
  BY <1>0, <1>1 DEF Publicados
<1>3. Numeradas' /\ Telas' /\ CapasNomeadas' /\ SubidasOK' /\ E!PublicaOQueReviu'
  BY <1>0, <1>1 DEF Numeradas, Telas, CapasNomeadas, SubidasOK, E!PublicaOQueReviu
<1>4. ProjetosOK'
  BY <1>1 DEF PortfolioInv, ProjetosOK
<1>5. Livres'
  <2>1. \A d : Usada(d)' <=> Usada(d)
    BY <1>1 DEF Usada
  <2> QED BY <1>1, <2>1 DEF PortfolioInv, Livres
<1> QED BY <1>2, <1>3, <1>4, <1>5 DEF PortfolioInv

(* A row that is edited or reviewed takes the next version, and an approved *)
(* one is neither.                                                          *)
LEMMA LinhaTrocada ==
    ASSUME PortfolioInv, NEW e \in envios, NEW n \in E!Linhas, E!Trocar(e, n),
           n.id = e.id, n.pedido = e.pedido, n.capa = e.capa, n.versao = e.versao + 1,
           e.status # "aprovado", n.status = "pendente" => n.versao <= MaxRevisoes,
           UNCHANGED <<linhas, capas, capa, subindo, vista, aberta>>
    PROVE  /\ Numeradas' /\ Telas' /\ CapasNomeadas' /\ SubidasOK'
           /\ \A p \in publicacoes : \E f \in envios' : f.id = p.envio /\ f.status = "aprovado"
<1>0. Numeradas /\ Telas /\ Publicados /\ CapasNomeadas /\ SubidasOK
  BY DEF PortfolioInv
<1>1. envios' = (envios \ {e}) \cup {n}
  BY DEF E!Trocar
<1>2. e.versao \in Nat /\ e.id <= linhas /\ \A f \in envios : f.id = e.id => f = e
  BY <1>0, PortalConstantes DEF Numeradas, E!Linhas, PortalAssumption
<1>3. Numeradas'
  BY <1>0, <1>1, <1>2 DEF Numeradas
<1>4. Telas'
  <2>1. vista # Nada => vista.versao \in Nat
    BY <1>0, PortalConstantes DEF Telas, E!Linhas, PortalAssumption
  <2> QED BY <1>0, <1>1, <1>2, <2>1 DEF Telas
<1>5. CapasNomeadas' /\ SubidasOK'
  BY <1>0, <1>1 DEF CapasNomeadas, SubidasOK
<1>6. \A p \in publicacoes : \E f \in envios' : f.id = p.envio /\ f.status = "aprovado"
  BY <1>0, <1>1 DEF Publicados
<1> QED BY <1>3, <1>4, <1>5, <1>6

(* What an edit or a decision that publishes nothing leaves of the rest. *)
LEMMA NadaPublicado ==
    ASSUME PortfolioInv, NEW e \in envios, NEW n \in E!Linhas, E!Trocar(e, n), n.capa = e.capa,
           e.status # "aprovado", n.status # "aprovado",
           UNCHANGED <<capas, capa, subindo, projetos, publicados, trocando, incertas>>
    PROVE  ProjetosOK' /\ Livres'
<1>1. envios' = (envios \ {e}) \cup {n}
  BY DEF E!Trocar
<1>2. ProjetosOK'
  BY DEF PortfolioInv, ProjetosOK
<1>3. \A d : Usada(d)' <=> Usada(d)
  BY DEF Usada
<1>4. Livres
  BY DEF PortfolioInv
<1>5. \A f \in envios' : f.status # "aprovado" /\ f.capa # Nada =>
          ~Usada(f.capa)' /\ \A g \in envios' : g.capa = f.capa => g = f
  BY <1>1, <1>3, <1>4 DEF Livres
<1>6. \A u \in subindo' : Usada(u.capa)' => \E f \in envios' : f.status = "aprovado" /\ f.capa = u.capa
  BY <1>1, <1>3, <1>4 DEF Livres
<1>7. \A t \in trocando' : /\ ~Usada(t.capa)' /\ \A f \in envios' : f.capa # t.capa
                          /\ \A u \in subindo' : u.capa # t.capa
  BY <1>1, <1>3, <1>4 DEF Livres
<1> QED BY <1>2, <1>5, <1>6, <1>7 DEF Livres

LEMMA PassoEditar == ASSUME PortfolioInv, NEW e \in envios, NEW t \in Textos, E!Editar(e, t) PROVE PortfolioInv'
<1> DEFINE n == [e EXCEPT !.texto = t, !.status = "pendente", !.versao = @ + 1]
<1>1. /\ E!Trocar(e, n) /\ e.status # "aprovado" /\ e.versao < MaxRevisoes
      /\ UNCHANGED <<linhas, capas, capa, subindo, vista, aberta, projetos, publicados, publicacoes, trocando,
                     incertas>>
  BY DEF E!Editar, E!Aberto, E!varsProjetos
<1>2. e \in E!Linhas
  BY DEF PortfolioInv, Numeradas
<1>3. e.versao + 1 \in 1..(MaxRevisoes + 1) /\ e.versao + 1 <= MaxRevisoes
  BY <1>1, <1>2, PortalConstantes DEF E!Linhas, PortalAssumption
<1>4. /\ n \in E!Linhas /\ n.id = e.id /\ n.pedido = e.pedido /\ n.capa = e.capa
      /\ n.versao = e.versao + 1 /\ n.status = "pendente"
  BY <1>2, <1>3 DEF E!Linhas
<1> HIDE DEF n
<1>5. /\ Numeradas' /\ Telas' /\ CapasNomeadas' /\ SubidasOK'
      /\ \A p \in publicacoes : \E f \in envios' : f.id = p.envio /\ f.status = "aprovado"
  BY <1>1, <1>3, <1>4, LinhaTrocada
<1>6. Publicados' /\ E!PublicaOQueReviu'
  BY <1>1, <1>5 DEF PortfolioInv, Publicados, E!PublicaOQueReviu
<1>7. ProjetosOK' /\ Livres'
  BY <1>1, <1>4, NadaPublicado
<1> QED BY <1>5, <1>6, <1>7 DEF PortfolioInv

(* A project takes the cover of the submission, which was no project's. *)
LEMMA ProjetoNovo ==
    ASSUME PortfolioInv, NEW e \in envios, NEW n \in E!Linhas, E!Trocar(e, n), n.capa = e.capa,
           e.status # "aprovado", n.status = "aprovado", publicados' = publicados + 1,
           projetos' = projetos \cup {[id |-> publicados + 1, capa |-> e.capa]},
           UNCHANGED <<capas, capa, subindo, trocando, incertas>>
    PROVE  ProjetosOK' /\ Livres'
<1> DEFINE q == [id |-> publicados + 1, capa |-> e.capa]
<1>0. ProjetosOK /\ Livres /\ publicados \in Nat /\ CapasNomeadas /\ e \in E!Linhas
  BY DEF PortfolioInv, Publicados, Numeradas
<1>1. envios' = (envios \ {e}) \cup {n} /\ projetos' = projetos \cup {q}
  BY DEF E!Trocar
<1>2. q \in [id : Nat, capa : E!Capas \cup {Nada}] /\ q.id = publicados + 1 /\ q.capa = e.capa
  BY <1>0 DEF E!Linhas
<1> HIDE DEF q
<1>3. e.capa # Nada => ~Usada(e.capa) /\ e.capa < capa /\ e.capa \in capas
  BY <1>0 DEF Livres, CapasNomeadas
<1>4. \A d : Usada(d)' <=> Usada(d) \/ d = e.capa
  BY <1>1, <1>2 DEF Usada
<1>5. ProjetosOK'
  <2>1. \A p \in projetos : p.id \in Nat /\ p.id <= publicados /\ p # q
    BY <1>0, <1>2 DEF ProjetosOK
  <2>2. \A t \in trocando : t.id \in Nat /\ t.id <= publicados + 1
    BY <1>0 DEF ProjetosOK
  <2>3. \A p \in projetos : p.capa # Nada => p.capa # e.capa
    BY <1>3 DEF Usada
  <2>4. \A p, r \in projetos' : p.id = r.id \/ (p.capa = r.capa /\ p.capa # Nada) => p = r
    BY <1>0, <1>1, <1>2, <2>1, <2>3 DEF ProjetosOK
  <2>5. \A p \in projetos' : p.id <= publicados' /\ (p.capa # Nada => p.capa < capa /\ p.capa \in capas \cup incertas)
    BY <1>0, <1>1, <1>2, <1>3, <2>1 DEF ProjetosOK
  <2>6. \A t \in trocando, p \in projetos' : t.antes = p.capa /\ p.capa # Nada => t.id = p.id
    BY <1>0, <1>1, <1>2, <1>3 DEF ProjetosOK, Usada
  <2> QED BY <1>0, <1>1, <1>2, <2>2, <2>4, <2>5, <2>6 DEF ProjetosOK
<1>6. Livres'
  <2>1. \A f \in envios' : f.status # "aprovado" /\ f.capa # Nada =>
            ~Usada(f.capa)' /\ \A g \in envios' : g.capa = f.capa => g = f
    BY <1>0, <1>1, <1>4 DEF Livres
  <2>2. \A u \in subindo : Usada(u.capa)' => \E f \in envios' : f.status = "aprovado" /\ f.capa = u.capa
    BY <1>0, <1>1, <1>4 DEF Livres
  <2>3. \A t \in trocando : /\ ~Usada(t.capa)' /\ \A f \in envios' : f.capa # t.capa
                           /\ \A u \in subindo : u.capa # t.capa
    BY <1>0, <1>1, <1>4 DEF Livres
  <2> QED BY <2>1, <2>2, <2>3 DEF Livres
<1> QED BY <1>5, <1>6

(* What is reviewed is what the screen shows, and it was not published yet. *)
LEMMA PassoRevisar ==
    ASSUME PortfolioInv, NEW e \in envios, NEW d \in {"aprovado", "recusado"}, E!Revisar(e, d)
    PROVE  PortfolioInv'
<1> DEFINE n == [e EXCEPT !.status = d, !.versao = @ + 1]
           p == [projeto |-> publicados + 1, envio |-> e.id, texto |-> e.texto, capa |-> e.capa,
                 visto |-> vista.texto, capaVista |-> vista.capa]
<1>0. Numeradas /\ Telas /\ Publicados /\ E!PublicaOQueReviu
  BY DEF PortfolioInv
<1>1. /\ E!Trocar(e, n) /\ e.status = "pendente"
      /\ vista # Nada /\ vista.id = e.id /\ e.versao = vista.versao
      /\ UNCHANGED <<linhas, capas, capa, subindo, vista, aberta, trocando, incertas>>
      /\ \/ /\ d = "aprovado" /\ publicados' = publicados + 1 /\ publicacoes' = publicacoes \cup {p}
            /\ projetos' = projetos \cup {[id |-> publicados + 1, capa |-> e.capa]}
         \/ d = "recusado" /\ UNCHANGED <<projetos, publicados, publicacoes>>
  BY DEF E!Revisar, E!Revisavel
<1>2. e \in E!Linhas /\ e.versao <= MaxRevisoes
  BY <1>0, <1>1 DEF Numeradas
<1>3. e.versao + 1 \in 1..(MaxRevisoes + 1)
  BY <1>2, PortalConstantes DEF E!Linhas, PortalAssumption
<1>4. /\ n \in E!Linhas /\ n.id = e.id /\ n.pedido = e.pedido /\ n.capa = e.capa
      /\ n.versao = e.versao + 1 /\ n.status = d
  BY <1>2, <1>3 DEF E!Linhas
<1>5. e = vista
  BY <1>0, <1>1 DEF Telas
<1>6. /\ p \in Publicas /\ p.envio = e.id
      /\ p.texto = p.visto /\ p.capa = p.capaVista
  BY <1>0, <1>2, <1>5 DEF Publicas, E!Linhas, Publicados
<1> HIDE DEF n, p
<1>7. /\ Numeradas' /\ Telas' /\ CapasNomeadas' /\ SubidasOK'
      /\ \A q \in publicacoes : \E f \in envios' : f.id = q.envio /\ f.status = "aprovado"
  BY <1>1, <1>4, LinhaTrocada
<1>8. n \in envios'
  BY <1>1 DEF E!Trocar
<1>9. Publicados'
  BY <1>0, <1>1, <1>4, <1>6, <1>7, <1>8 DEF Publicados
<1>10. \A q \in publicacoes : q.envio # e.id
  BY <1>0, <1>1 DEF Publicados, Numeradas
<1>11. E!PublicaOQueReviu'
  BY <1>0, <1>1, <1>6, <1>10 DEF E!PublicaOQueReviu
<1>12. ProjetosOK' /\ Livres'
  BY <1>1, <1>4, NadaPublicado, ProjetoNovo
<1> QED BY <1>7, <1>9, <1>11, <1>12 DEF PortfolioInv

(* A request reads the image of a project and stores the new one. *)
LEMMA PassoSubirImagem == ASSUME PortfolioInv, NEW p \in projetos, E!SubirImagem(p) PROVE PortfolioInv'
<1> DEFINE n == [id |-> p.id, antes |-> p.capa, capa |-> capa]
<1>0. Numeradas /\ Telas /\ Publicados /\ CapasNomeadas /\ SubidasOK /\ E!PublicaOQueReviu /\ ProjetosOK /\ Livres
  BY DEF PortfolioInv
<1>1. /\ capa <= MaxCapas /\ capas' = capas \cup {capa} /\ capa' = capa + 1
      /\ trocando' = trocando \cup {n}
      /\ UNCHANGED <<envios, linhas, subindo, vista, aberta, projetos, publicados, publicacoes, incertas>>
  BY DEF E!SubirImagem
<1>2. capa \in E!Capas /\ capa \in Nat /\ \A c \in E!Capas : c \in Nat
  BY <1>0, <1>1, PortalConstantes DEF CapasNomeadas, E!Capas, PortalAssumption
<1>3. /\ n \in [id : Nat, antes : E!Capas \cup {Nada}, capa : E!Capas]
      /\ n.id = p.id /\ n.antes = p.capa /\ n.capa = capa
  BY <1>0, <1>2 DEF ProjetosOK
<1> HIDE DEF n
<1>4. CapasNomeadas'
  BY <1>1, CapaNova
<1>5. SubidasOK'
  <2>1. \A u \in subindo : u.capa \in Nat /\ u.capa < capa
    BY <1>0, <1>2 DEF SubidasOK, Subidas
  <2> QED BY <1>0, <1>1, <1>2, <2>1 DEF SubidasOK
<1>6. Numeradas' /\ Telas' /\ Publicados' /\ E!PublicaOQueReviu'
  BY <1>0, <1>1 DEF Numeradas, Telas, Publicados, E!PublicaOQueReviu
<1>7. \A d : Usada(d)' <=> Usada(d)
  BY <1>1, <1>3 DEF Usada
<1>8. ProjetosOK'
  <2>1. \A q \in projetos : q.capa # Nada => q.capa < capa + 1
    BY CapasAntigas
  <2>2. \A t \in trocando : t.capa < capa + 1 /\ t.capa # capa /\ (t.antes # Nada => t.antes < capa + 1)
    BY CapasAntigas
  <2>3. n.id <= publicados /\ n.capa < capa + 1 /\ (n.antes # Nada => n.antes < capa + 1)
    BY <1>0, <1>2, <1>3, <2>1 DEF ProjetosOK
  <2>4. \A t \in trocando', q \in projetos : t.antes = q.capa /\ q.capa # Nada => t.id = q.id
    BY <1>0, <1>1, <1>3 DEF ProjetosOK
  <2> QED BY <1>0, <1>1, <1>3, <2>1, <2>2, <2>3, <2>4 DEF ProjetosOK
<1>9. Livres'
  BY <1>0, <1>1, <1>3, <1>7, NomeNovo DEF Livres
<1> QED BY <1>4, <1>5, <1>6, <1>8, <1>9 DEF PortfolioInv

(* The rest of what an image may undergo: the cover x that goes is one a    *)
(* project named or a request stored, and what projects and requests name   *)
(* is what they named or the image of a request that is over.               *)
LEMMA SemACapa ==
    ASSUME PortfolioInv, NEW x, capas' \in {capas, capas \ {x}},
           x # Nada => Usada(x) \/ \E t \in trocando : t.capa = x,
           trocando' \subseteq trocando, ProjetosOK',
           \A d : Usada(d)' /\ d # Nada => Usada(d) \/ \E t \in trocando \ trocando' : t.capa = d,
           UNCHANGED <<envios, linhas, capa, subindo, vista, aberta, publicados, publicacoes>>
    PROVE  PortfolioInv'
<1>0. Numeradas /\ Telas /\ Publicados /\ CapasNomeadas /\ SubidasOK /\ E!PublicaOQueReviu /\ ProjetosOK /\ Livres
  BY DEF PortfolioInv
<1>1. Numeradas' /\ Telas' /\ Publicados' /\ E!PublicaOQueReviu'
  BY <1>0 DEF Numeradas, Telas, Publicados, E!PublicaOQueReviu
<1>2. \A e \in envios : e.capa # Nada /\ e.status # "aprovado" => e.capa # x
  BY <1>0 DEF Livres
<1>3. \A u \in subindo : u.fase = "guardada" => u.capa # x
  <2>1. \A u \in subindo : u.capa # Nada
    BY <1>0, PortalConstantes DEF SubidasOK, Subidas, E!Capas, PortalAssumption
  <2> QED BY <1>0, <2>1 DEF Livres, SubidasOK
<1>4. CapasNomeadas' /\ SubidasOK'
  BY <1>0, <1>2, <1>3 DEF CapasNomeadas, SubidasOK
<1>5. Livres'
  <2>0. \A c \in E!Capas : c # Nada
    BY PortalConstantes DEF E!Capas, PortalAssumption
  <2>1. \A e \in envios : e.capa # Nada /\ Usada(e.capa)' => Usada(e.capa)
    BY <1>0 DEF Livres
  <2>2. \A u \in subindo : Usada(u.capa)' => Usada(u.capa)
    BY <1>0, <2>0 DEF Livres, SubidasOK, Subidas
  <2>3. \A t \in trocando' : ~Usada(t.capa)'
    BY <1>0, <2>0 DEF Livres, ProjetosOK
  <2> QED BY <1>0, <2>1, <2>2, <2>3 DEF Livres
<1> QED BY <1>1, <1>4, <1>5 DEF PortfolioInv

(* After an image is saved, a project has the one it had, or the new one. *)
LEMMA Trocada ==
    ASSUME PortfolioInv, NEW i, NEW c \in E!Capas \cup {Nada}, E!Imagem(i, c)
    PROVE  /\ projetos' \subseteq [id : Nat, capa : E!Capas \cup {Nada}]
           /\ \A p \in projetos' : \/ p \in projetos /\ p.id # i
                                   \/ /\ p.id = i /\ p.capa = c
                                      /\ \E q \in projetos : q.id = i
           /\ \A p, q \in projetos' : p.id = q.id => p = q
<1>0. /\ projetos \subseteq [id : Nat, capa : E!Capas \cup {Nada}]
      /\ projetos' = {IF p.id = i THEN [p EXCEPT !.capa = c] ELSE p : p \in projetos}
      /\ \A p, q \in projetos : p.id = q.id => p = q
  BY DEF PortfolioInv, ProjetosOK, E!Imagem
<1>1. \A p \in projetos : /\ [p EXCEPT !.capa = c] \in [id : Nat, capa : E!Capas \cup {Nada}]
                          /\ [p EXCEPT !.capa = c].id = p.id /\ [p EXCEPT !.capa = c].capa = c
  BY <1>0
<1>2. \A p \in projetos' : \/ p \in projetos /\ p.id # i
                           \/ \E q \in projetos : q.id = i /\ p = [q EXCEPT !.capa = c]
  BY <1>0
<1> QED BY <1>0, <1>1, <1>2

(* The new image is saved and the one before may go; or the answer is lost, *)
(* and the new one goes whatever was saved.                                 *)
LEMMA PassoTrocarImagem == ASSUME PortfolioInv, NEW t \in trocando, E!TrocarImagem(t) PROVE PortfolioInv'
<1>0. ProjetosOK /\ Livres /\ t.capa \in E!Capas /\ t.capa # Nada /\ t.antes \in E!Capas \cup {Nada}
  BY PortalConstantes DEF PortfolioInv, ProjetosOK, E!Capas, PortalAssumption
<1>1. /\ E!Imagem(t.id, t.capa) /\ trocando' = trocando \ {t}
      /\ UNCHANGED <<envios, linhas, capa, subindo, vista, aberta, publicados, publicacoes>>
      /\ \/ capas' \in {capas, capas \ {t.antes}} /\ incertas' = incertas
         \/ capas' = capas \ {t.capa} /\ incertas' = incertas \cup {t.capa}
  BY DEF E!TrocarImagem, E!Sobra
<1>2. /\ projetos' \subseteq [id : Nat, capa : E!Capas \cup {Nada}]
      /\ \A p \in projetos' : \/ p \in projetos /\ p.id # t.id
                              \/ p.id = t.id /\ p.capa = t.capa
      /\ \A p, q \in projetos' : p.id = q.id => p = q
  BY <1>0, <1>1, Trocada
<1>3. \A p \in projetos : p.capa # t.capa
  BY <1>0 DEF Livres, Usada
<1>4. \A p, q \in projetos' : p.id = q.id \/ (p.capa = q.capa /\ p.capa # Nada) => p = q
  BY <1>0, <1>2, <1>3 DEF ProjetosOK
<1>5. \A p \in projetos' : p.id <= publicados /\ (p.capa # Nada => p.capa < capa)
  BY <1>0, <1>2 DEF ProjetosOK
<1>6. \A v \in trocando : v.antes # t.capa /\ (v # t => v.capa # t.capa)
  BY <1>0 DEF Livres, Usada, ProjetosOK
<1>7. \A v \in trocando', p \in projetos' : v.antes = p.capa /\ p.capa # Nada => v.id = p.id
  BY <1>0, <1>1, <1>2, <1>6 DEF ProjetosOK
<1>8. \A d : Usada(d)' => Usada(d) \/ d = t.capa
  BY <1>1, <1>2 DEF Usada
<1>9. \A v \in trocando' : ~Usada(v.capa) /\ v.capa # t.capa
  BY <1>0, <1>1, <1>6 DEF Livres
<1>10. CASE capas' \in {capas, capas \ {t.antes}} /\ incertas' = incertas
  <2>1. \A p \in projetos' : p.capa # Nada => p.capa \in capas' \cup incertas'
    BY <1>0, <1>2, <1>6, <1>10 DEF ProjetosOK
  <2>2. \A v \in trocando' : v.capa \in capas'
    <3>1. \A v \in trocando : v.capa # t.antes
      BY <1>0 DEF Livres, Usada
    <3> QED BY <1>0, <1>1, <1>10, <3>1 DEF ProjetosOK
  <2>3. ProjetosOK'
    BY <1>0, <1>1, <1>2, <1>4, <1>5, <1>7, <1>10, <2>1, <2>2 DEF ProjetosOK
  <2>4. t.antes # Nada => Usada(t.antes)
    BY DEF Usada
  <2> QED BY <1>0, <1>1, <1>8, <1>10, <2>3, <2>4, SemACapa
<1>11. CASE capas' = capas \ {t.capa} /\ incertas' = incertas \cup {t.capa}
  <2>1. \A p \in projetos' : p.capa # Nada => p.capa \in capas' \cup incertas'
    BY <1>0, <1>2, <1>11 DEF ProjetosOK
  <2>2. \A v \in trocando' : v.capa \in capas'
    BY <1>0, <1>1, <1>9, <1>11 DEF ProjetosOK
  <2>3. ProjetosOK'
    BY <1>0, <1>1, <1>2, <1>4, <1>5, <1>7, <1>11, <2>1, <2>2 DEF ProjetosOK
  <2> QED BY <1>0, <1>1, <1>8, <1>11, <2>3, SemACapa
<1> QED BY <1>1, <1>10, <1>11

(* An image that is not saved, one that is removed or an address in its     *)
(* place, and a project that is deleted: nobody names a cover more.         *)
LEMMA PassoDaImagem ==
    ASSUME PortfolioInv,
           \/ \E t \in trocando : E!NaoTrocarImagem(t)
           \/ \E p \in projetos : E!ApagarImagem(p) \/ E!AtualizarProjeto(p) \/ E!DeletarProjeto(p)
    PROVE  PortfolioInv'
<1>0. ProjetosOK /\ Livres
  BY DEF PortfolioInv
<1>1. CASE \E t \in trocando : E!NaoTrocarImagem(t)
  <2> PICK t \in trocando : E!NaoTrocarImagem(t)
    BY <1>1
  <2>1. /\ trocando' = trocando \ {t} /\ capas' \in {capas, capas \ {t.capa}}
        /\ UNCHANGED <<envios, linhas, capa, subindo, vista, aberta, projetos, publicados, publicacoes, incertas>>
    BY DEF E!NaoTrocarImagem, E!Sobra
  <2>2. \A d : Usada(d)' => Usada(d)
    BY <2>1 DEF Usada
  <2>5. t \in trocando
    OBVIOUS
  <2>3. /\ \A p \in projetos : p.capa # Nada => p.capa # t.capa
        /\ \A v \in trocando' : v.capa # t.capa
    BY <1>0, <2>1 DEF Livres, Usada, ProjetosOK
  <2>4. ProjetosOK'
    BY <1>0, <2>1, <2>3 DEF ProjetosOK
  <2>6. \E x : /\ x = t.capa /\ capas' \in {capas, capas \ {x}}
               /\ \E v \in trocando : v.capa = x
    BY <2>1, <2>5
  <2> QED BY <2>1, <2>2, <2>4, <2>6, SemACapa
<1>2. CASE \E p \in projetos : E!ApagarImagem(p) \/ E!AtualizarProjeto(p) \/ E!DeletarProjeto(p)
  <2> PICK p \in projetos : E!ApagarImagem(p) \/ E!AtualizarProjeto(p) \/ E!DeletarProjeto(p)
    BY <1>2
  <2>1. /\ capas' \in {capas, capas \ {p.capa}}
        /\ E!Imagem(p.id, Nada) \/ projetos' = projetos \ {p}
        /\ UNCHANGED <<envios, linhas, capa, subindo, vista, aberta, publicados, publicacoes, trocando, incertas>>
    BY DEF E!ApagarImagem, E!AtualizarProjeto, E!DeletarProjeto, E!Sobra
  <2>2. /\ projetos' \subseteq [id : Nat, capa : E!Capas \cup {Nada}]
        /\ \A q \in projetos' : \/ q \in projetos /\ q # p
                                \/ /\ q.capa = Nada
                                   /\ \E r \in projetos : r.id = q.id
        /\ \A q, r \in projetos' : q.id = r.id => q = r
    <3>1. CASE E!Imagem(p.id, Nada)
      BY <3>1, Trocada
    <3>2. CASE projetos' = projetos \ {p}
      BY <1>0, <3>2 DEF ProjetosOK
    <3> QED BY <2>1, <3>1, <3>2
  <2>3. \A d : Usada(d)' => Usada(d) \/ d = Nada
    BY <2>1, <2>2 DEF Usada
  <2>4. \A q \in projetos' : q.capa # Nada => q.capa # p.capa
    BY <1>0, <2>2 DEF ProjetosOK
  <2>5. \A v \in trocando : v.capa # p.capa
    BY <1>0 DEF Livres, Usada
  <2>6. \A q \in projetos' : q.id <= publicados /\ (q.capa # Nada => q.capa < capa /\ q.capa \in capas' \cup incertas)
    BY <1>0, <2>1, <2>2, <2>4 DEF ProjetosOK
  <2>7. \A q, r \in projetos' : q.id = r.id \/ (q.capa = r.capa /\ q.capa # Nada) => q = r
    BY <1>0, <2>2 DEF ProjetosOK
  <2>8. \A v \in trocando, q \in projetos' : v.antes = q.capa /\ q.capa # Nada => v.id = q.id
    BY <1>0, <2>2 DEF ProjetosOK
  <2>9. ProjetosOK'
    BY <1>0, <2>1, <2>2, <2>5, <2>6, <2>7, <2>8 DEF ProjetosOK
  <2>10. p.capa # Nada => Usada(p.capa)
    BY DEF Usada
  <2> QED BY <2>1, <2>3, <2>9, <2>10, SemACapa
<1> QED BY <1>1, <1>2

LEMMA PassoDoPortfolio == ASSUME PortfolioInv, PassoPortfolio PROVE PortfolioInv'
BY PassoEnvio, PassoGuardar, PassoConfirmar, PassoFim, PassoTela, PassoExcluir, PassoEditar, PassoRevisar,
   PassoSubirImagem, PassoTrocarImagem, PassoDaImagem
DEF PassoPortfolio

LEMMA NadaMudaPortfolio == ASSUME PortfolioInv, UNCHANGED varsE PROVE PortfolioInv'
BY DEF PortfolioInv, Numeradas, Telas, Publicados, CapasNomeadas, SubidasOK, E!PublicaOQueReviu, ProjetosOK,
       Livres, Usada, varsE

LEMMA ForaDoPortfolio ==
    ASSUME [Passo]_<<parte, vars, varsAcesso, varsF, varsBriefing, varsP, varsB, varsE, varsNewsletter>>
    PROVE  PassoPortfolio \/ UNCHANGED varsE
BY DEF Passo, PassoProposta, PassoAcesso, PassoArquivos, PassoAtendimento, PassoPoliticas, PassoBeats,
       PassoNewsletter, NaProposta, NoAcesso, NosArquivos, NoAtendimento, NaConversa, NasPoliticas,
       NosBeats, NaNewsletter, CabePedido, CabeWorker, Comprimindo, ComAnexos, ComLote

LEMMA InvariantePortfolio == Portal => []PortfolioInv
<1>1. Inicio => PortfolioInv
  BY IniciaPortfolio DEF Inicio
<1>2. PortfolioInv /\ [Passo]_<<parte, vars, varsAcesso, varsF, varsBriefing, varsP, varsB, varsE,
                                varsNewsletter>> => PortfolioInv'
  BY ForaDoPortfolio, PassoDoPortfolio, NadaMudaPortfolio
<1> QED BY <1>1, <1>2, PTL DEF Portal

(* A project is what the administrator had on the screen when approving it, *)
(* however the producer edits, withdraws and sends again, and a submission  *)
(* never becomes a second project.                                          *)
THEOREM Publicada == Portal => []PublicaOQueReviu
<1>1. PortfolioInv => PublicaOQueReviu
  BY DEF PortfolioInv, PublicaOQueReviu
<1> QED BY <1>1, InvariantePortfolio, PTL

(* The cover of a submission still to be published is in the storage, and   *)
(* so is the image of a project unless the commit of the request it went up *)
(* in was not answered, however uploads fail, screens age and projects      *)
(* change or lose their images.  The cover of a published submission is the *)
(* project's from then on and may go: nothing is said of it.                *)
THEOREM CapaFica == Portal => []E!CapaPresente
<1>1. PortfolioInv => E!CapaPresente
  BY DEF PortfolioInv, CapasNomeadas, ProjetosOK, E!CapaPresente
<1> QED BY <1>1, InvariantePortfolio, PTL

=============================================================================
