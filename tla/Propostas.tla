------------------------------- MODULE Propostas ------------------------------
(***************************************************************************)
(* The proposal of a budget: drafted, turned into a document, e-mailed     *)
(* with its values frozen, answered by the client, expired and reopened.   *)
(* Its administrator and its client work at the same time; sending keeps   *)
(* the budget and the proposal locked while the provider takes the e-mail, *)
(* and may fail, or the process die, before anything is written.           *)
(***************************************************************************)
EXTENDS Nulo, Naturals

CONSTANTS
    Conteudos,      \* what a proposal may say
    Valor,          \* Valor[c]: its total
    Creditos,       \* the contents that sell credits
    Beats,          \* the contents that sell one beat, in full
    MaxVersao,      \* bound: versions of the proposal
    MaxCatalogo     \* bound: changes of the catalog

ASSUME PropostasAssumption ==
    /\ Valor \in [Conteudos -> Nat]
    /\ Creditos \subseteq Conteudos /\ Beats \subseteq Conteudos
    /\ \A c \in Creditos \cup Beats : Valor[c] > 0
    /\ Nada \notin Conteudos /\ Nada \notin Nat
    /\ MaxVersao \in Nat \ {0} /\ MaxCatalogo \in Nat

VARIABLES
    orcamento,   \* the status of the budget
    prop,        \* the proposal
    catalogo,    \* the revision of the catalog
    envio,       \* the proposal as the request that is sending it has it
    emails,      \* what the client received
    tela,        \* the proposal as the client's screen shows it
    cobranca,    \* the total of its charge
    producao,    \* how its production was created
    aceite,      \* the acceptance: by whom, and of what
    teste,       \* the chain is a test
    historico    \* the charge has payments

vars == <<orcamento, prop, catalogo, envio, emails, tela, cobranca, producao, aceite,
          teste, historico>>

Rascunho(c) ==
    [status |-> "rascunho", versao |-> 1, conteudo |-> c, snapshot |-> Nada,
     direitos |-> Nada, pdf |-> Nada, envio |-> "nao"]

Inexistente == [Rascunho(Nada) EXCEPT !.status = "inexistente", !.versao = 0]

Init ==
    /\ orcamento = "novo"
    /\ prop = Inexistente
    /\ catalogo = 0
    /\ envio = Nada
    /\ emails = {}
    /\ tela = Nada
    /\ cobranca = Nada
    /\ producao \in {"nenhuma", "direta"}
    /\ aceite = Nada
    /\ teste = FALSE
    /\ historico = FALSE

-----------------------------------------------------------------------------
(* Nobody is sending: the rows of the budget and the proposal are free. *)
Livre == envio = Nada

SituacoesOrcamento ==
    {"novo", "em_analise", "proposta_enviada", "aprovado", "recusado", "arquivado"}

Aberto == orcamento \in {"novo", "em_analise"}

(* Frozen once.  The rights that credits give are those of the catalog of   *)
(* the moment, and the document must be made again to show them.            *)
Congelado(m) ==
    IF m.snapshot # Nada THEN m
    ELSE IF m.conteudo \in Creditos
         THEN [m EXCEPT !.snapshot = m.conteudo, !.direitos = catalogo, !.pdf = Nada]
         ELSE [m EXCEPT !.snapshot = m.conteudo]

Documento(m) == [versao |-> m.versao, conteudo |-> m.conteudo, direitos |-> m.direitos]

(* mutant: the missing document is not made before sending *)
SemDocumento(m) == m

ComDocumento(m) == IF m.pdf # Nada THEN m ELSE [m EXCEPT !.pdf = Documento(m)]

-----------------------------------------------------------------------------
(* The administrator. *)

CriarPorOrcamento(c) ==
    /\ prop.status = "inexistente"
    /\ prop' = Rascunho(c)
    /\ UNCHANGED <<orcamento, catalogo, envio, emails, tela, cobranca, producao, aceite,
                   teste, historico>>

(* mutant: any proposal lets its budget be moved by hand *)
SempreAlteravel(s) == s \notin {"proposta_enviada", "aprovado"}

StatusAlteravel(s) ==
    /\ s \notin {"proposta_enviada", "aprovado"}
    /\ prop.status \in {"inexistente", "rascunho"}

AtualizarStatus(s) ==
    /\ Livre
    /\ StatusAlteravel(s)
    /\ orcamento' = s
    /\ UNCHANGED <<prop, catalogo, envio, emails, tela, cobranca, producao, aceite,
                   teste, historico>>

(* mutant: a sent proposal may still be edited *)
EditavelEnviada == prop.status \in {"rascunho", "enviada", "aceita"}

Editavel == prop.status = "rascunho"

(* mutant: the document of the version before stays *)
RevistoComPdf(c) ==
    [prop EXCEPT !.conteudo = c, !.versao = @ + 1, !.snapshot = Nada, !.direitos = Nada]

(* Every change makes a new version and drops its document; a change to or  *)
(* from credits also what was frozen.                                       *)
Revisto(c) ==
    LET m == [prop EXCEPT !.conteudo = c, !.versao = @ + 1, !.pdf = Nada]
    IN  IF {c, prop.conteudo} \cap Creditos = {} THEN m
        ELSE [m EXCEPT !.snapshot = Nada, !.direitos = Nada]

Atualizar(c) ==
    /\ Livre
    /\ Editavel
    /\ c # prop.conteudo
    /\ prop.versao < MaxVersao
    /\ prop' = Revisto(c)
    /\ UNCHANGED <<orcamento, catalogo, envio, emails, tela, cobranca, producao, aceite,
                   teste, historico>>

GerarDocumento ==
    /\ Livre
    /\ prop.status # "inexistente"
    /\ prop.envio = "nao" \/ prop.pdf = Nada
    /\ prop' = LET m == IF prop.conteudo \in Creditos THEN Congelado(prop) ELSE prop
               IN  [m EXCEPT !.pdf = Documento(m)]
    /\ UNCHANGED <<orcamento, catalogo, envio, emails, tela, cobranca, producao, aceite,
                   teste, historico>>

(* The e-mail leaves with the locks held and nothing written. *)
Enviar ==
    /\ Livre
    /\ prop.status = "rascunho"
    /\ Aberto
    /\ envio' = ComDocumento(Congelado(prop))
    /\ emails' = emails \cup {envio'.pdf}
    /\ UNCHANGED <<orcamento, prop, catalogo, tela, cobranca, producao, aceite, teste, historico>>

ConfirmarEnvio ==
    /\ envio # Nada
    /\ prop' = [envio EXCEPT !.status = "enviada", !.envio = "valido"]
    /\ orcamento' = "proposta_enviada"
    /\ envio' = Nada
    /\ UNCHANGED <<catalogo, emails, tela, cobranca, producao, aceite, teste, historico>>

(* The answer of the provider, or the process, is lost: all is rolled back. *)
FalharEnvio ==
    /\ envio # Nada
    /\ envio' = Nada
    /\ UNCHANGED <<orcamento, prop, catalogo, emails, tela, cobranca, producao, aceite,
                   teste, historico>>

Vencer ==
    /\ prop.envio = "valido"
    /\ Livre
    /\ prop' = [prop EXCEPT !.envio = "vencido"]
    /\ UNCHANGED <<orcamento, catalogo, envio, emails, tela, cobranca, producao, aceite,
                   teste, historico>>

Expirada == prop.status = "enviada" /\ prop.envio = "vencido"

SemOperacoes == cobranca = Nada /\ producao = "nenhuma"

ReabrirExpirada ==
    /\ Livre
    /\ Expirada
    /\ prop.conteudo \notin Creditos
    /\ SemOperacoes
    /\ prop.versao < MaxVersao
    /\ prop' = [Rascunho(prop.conteudo) EXCEPT !.versao = prop.versao + 1]
    /\ orcamento' = "em_analise"
    /\ UNCHANGED <<catalogo, envio, emails, tela, cobranca, producao, aceite, teste, historico>>

MudarCatalogo ==
    /\ catalogo < MaxCatalogo
    /\ catalogo' = catalogo + 1
    /\ UNCHANGED <<orcamento, prop, envio, emails, tela, cobranca, producao, aceite,
                   teste, historico>>

-----------------------------------------------------------------------------
(* Acceptance. *)

Aceitavel ==
    /\ prop.status = "enviada"
    /\ orcamento = "proposta_enviada"
    /\ producao \in {"nenhuma", "direta"}
    /\ prop.conteudo \in Creditos => producao = "nenhuma"

Cobrar == cobranca' = IF Valor[prop.conteudo] > 0 /\ cobranca = Nada
                      THEN Valor[prop.conteudo] ELSE cobranca

(* With nothing to pay the production starts at once. *)
LiberarSemCobranca ==
    producao' = IF Valor[prop.conteudo] = 0 /\ producao = "nenhuma" THEN "comercial" ELSE producao

(* Accepting twice repairs what is missing and is otherwise harmless. *)
AprovarCarregada(por, m, status, visto) ==
    \/ /\ prop.status = "aceita"
       /\ IF producao = "nenhuma" THEN Cobrar /\ LiberarSemCobranca
                                  ELSE UNCHANGED <<cobranca, producao>>
       /\ UNCHANGED <<orcamento, prop, aceite>>
    \/ /\ status
       /\ prop' = [Congelado(m) EXCEPT !.status = "aceita"]
       /\ orcamento' = "aprovado"
       /\ Cobrar
       /\ LiberarSemCobranca
       /\ aceite' = [por |-> por, versao |-> m.versao, conteudo |-> m.conteudo, visto |-> visto]

Aprovar ==
    /\ Livre
    /\ AprovarCarregada("admin", prop, Aceitavel, prop.conteudo)
    /\ UNCHANGED <<catalogo, envio, emails, tela, teste, historico>>

(* mutant: the client's version is not compared *)
SemVersao == tela # Nada

VersaoConfere == tela # Nada /\ tela.versao = prop.versao

AceitarCliente ==
    /\ Livre
    /\ VersaoConfere
    /\ ~Expirada
    /\ AprovarCarregada("cliente", prop, Aceitavel, tela.conteudo)
    /\ UNCHANGED <<catalogo, envio, emails, tela, teste, historico>>

(* A beat bought in the catalog is sent and accepted at once. *)
AceitarCompraCatalogo ==
    LET m == [Congelado(prop) EXCEPT !.envio = "valido"]
        direto == prop.status = "rascunho" /\ Aberto
    IN  /\ Livre
        /\ prop.conteudo \in Beats
        /\ IF direto THEN AprovarCarregada("catalogo", m, producao \in {"nenhuma", "direta"}, m.conteudo)
           ELSE AprovarCarregada("catalogo", prop, Aceitavel, prop.conteudo)
        /\ UNCHANGED <<catalogo, envio, emails, tela, teste, historico>>

(* mutant: a proposal already answered may be refused *)
RecusavelSempre == prop.status \in {"enviada", "aceita"}

Recusavel ==
    /\ prop.status = "enviada"
    /\ orcamento = "proposta_enviada"
    /\ SemOperacoes

RecusarCliente ==
    /\ Livre
    /\ VersaoConfere
    /\ Recusavel
    /\ prop' = [prop EXCEPT !.status = "recusada"]
    /\ orcamento' = "recusado"
    /\ UNCHANGED <<catalogo, envio, emails, tela, cobranca, producao, aceite, teste, historico>>

(* The portal shows the client what was sent. *)
AbrirTela ==
    /\ prop.status \in {"enviada", "aceita", "recusada"}
    /\ tela' = [versao |-> prop.versao, conteudo |-> prop.conteudo]
    /\ UNCHANGED <<orcamento, prop, catalogo, envio, emails, cobranca, producao, aceite,
                   teste, historico>>

-----------------------------------------------------------------------------
(* Production and classification. *)

(* By hand, for a budget that sells no credits. *)
CriarProducao ==
    /\ producao = "nenhuma"
    /\ prop.conteudo \notin Creditos
    /\ producao' = "avulsa"
    /\ UNCHANGED <<orcamento, prop, catalogo, envio, emails, tela, cobranca, aceite,
                   teste, historico>>

LiberarProducao ==
    /\ Livre
    /\ cobranca # Nada
    /\ historico
    /\ prop.conteudo \notin Creditos
    /\ producao = "nenhuma"
    /\ producao' = "comercial"
    /\ UNCHANGED <<orcamento, prop, catalogo, envio, emails, tela, cobranca, aceite,
                   teste, historico>>

(* A test gets no new order. *)
NovaOrder ==
    /\ cobranca # Nada
    /\ ~teste
    /\ historico' = TRUE
    /\ UNCHANGED <<orcamento, prop, catalogo, envio, emails, tela, cobranca, producao, aceite, teste>>

(* Turning a test real again is refused once money is involved. *)
ReversaoPermitida(novo) == novo \/ ~historico

Classificar(novo) ==
    /\ Livre
    /\ prop.status # "inexistente"
    /\ novo # teste
    /\ ReversaoPermitida(novo)
    /\ teste' = novo
    /\ UNCHANGED <<orcamento, prop, catalogo, envio, emails, tela, cobranca, producao, aceite, historico>>

-----------------------------------------------------------------------------
Next ==
    \/ \E c \in Conteudos : CriarPorOrcamento(c) \/ Atualizar(c)
    \/ \E s \in SituacoesOrcamento : AtualizarStatus(s)
    \/ GerarDocumento \/ Enviar \/ ConfirmarEnvio \/ FalharEnvio
    \/ Vencer \/ ReabrirExpirada \/ MudarCatalogo
    \/ Aprovar \/ AceitarCliente \/ AceitarCompraCatalogo \/ RecusarCliente \/ AbrirTela
    \/ CriarProducao \/ LiberarProducao \/ NovaOrder
    \/ \E novo \in BOOLEAN : Classificar(novo)

Spec == Init /\ [][Next]_vars

-----------------------------------------------------------------------------
Texto == [versao : 1..MaxVersao, conteudo : Conteudos, direitos : (0..MaxCatalogo) \cup {Nada}]
PropostaTipo ==
    [status : {"inexistente", "rascunho", "enviada", "aceita", "recusada"}, versao : 0..MaxVersao,
     conteudo : Conteudos \cup {Nada}, snapshot : Conteudos \cup {Nada},
     direitos : (0..MaxCatalogo) \cup {Nada}, pdf : Texto \cup {Nada},
     envio : {"nao", "valido", "vencido"}]

TypeOK ==
    /\ orcamento \in SituacoesOrcamento
    /\ prop \in PropostaTipo
    /\ catalogo \in 0..MaxCatalogo
    /\ envio \in PropostaTipo \cup {Nada}
    /\ emails \subseteq Texto
    /\ tela \in [versao : 1..MaxVersao, conteudo : Conteudos] \cup {Nada}
    /\ cobranca \in Nat \cup {Nada}
    /\ producao \in {"nenhuma", "direta", "avulsa", "comercial"}
    /\ aceite \in [por : {"admin", "cliente", "catalogo"}, versao : 1..MaxVersao,
                   conteudo : Conteudos, visto : Conteudos] \cup {Nada}
    /\ teste \in BOOLEAN /\ historico \in BOOLEAN

(* What is accepted, unless bought in the catalog, reached the client by    *)
(* e-mail in exactly that form: same version, same text, same rights.       *)
AceitaOQueRecebeu ==
    prop.status = "aceita" /\ aceite.por # "catalogo" =>
        [versao |-> prop.versao, conteudo |-> prop.snapshot, direitos |-> prop.direitos] \in emails

(* The contract is one: what the client saw, what was frozen, what is       *)
(* charged and the version they agree on.                                   *)
ContratoFiel ==
    prop.status = "aceita" =>
        /\ aceite.versao = prop.versao
        /\ {aceite.conteudo, aceite.visto, prop.snapshot} = {prop.conteudo}
        /\ cobranca # Nada => cobranca = Valor[prop.snapshot]

(* Budget and proposal always tell the same story. *)
EstadosCasados ==
    /\ prop.status = "enviada" <=> orcamento = "proposta_enviada"
    /\ prop.status = "aceita" <=> orcamento = "aprovado"
    /\ prop.status = "recusada" => orcamento = "recusado"

(* Money is asked for, and paid production begins, only under an accepted   *)
(* proposal; a refused one leaves nothing behind.                           *)
CobraSoAceita ==
    /\ cobranca # Nada \/ producao = "comercial" => prop.status = "aceita"
    /\ prop.status = "aceita" /\ Valor[prop.conteudo] > 0 => cobranca # Nada

(* An acceptance is final: neither its terms nor its charge change, even if *)
(* it is repeated, reopened or refused from an old screen.                  *)
AceiteDefinitivo ==
    [][prop.status = "aceita" =>
          /\ [prop' EXCEPT !.pdf = Nada, !.envio = "nao"] = [prop EXCEPT !.pdf = Nada, !.envio = "nao"]
          /\ cobranca' = cobranca /\ aceite' = aceite]_vars

(* A chain that had payments and was set apart as a test stays a test. *)
TesteComHistorico == [][teste /\ historico => teste']_vars
=============================================================================
