------------------------------- MODULE MCPortal -------------------------------
(***************************************************************************)
(* The portals: a proposal with paid work, free work, credits and a beat   *)
(* to offer, the access of a client, the files of a production, the        *)
(* conversation of a client with the assistant and the request it writes   *)
(* down, the policies of a contract, a beat of the catalog, what producers *)
(* offer to the portfolio, and a campaign of the newsletter.  The eight    *)
(* share no state; a behaviour is of one of them, chosen by its initial    *)
(* state.  The files have two: one until the production is delivered, the  *)
(* other with room for the worker to tag and compress its previews.        *)
(***************************************************************************)
EXTENDS Propostas, Acesso, Briefing, Newsletter, TLC
CONSTANTS obra, cortesia, pacote, beat,
          Pedidos, MaxObjetos, MaxArquivos, MaxVersoes, MaxEntregas,
          MaxUsados, MaxEnviados,   \* bounds: objects of all, and of requests alone
          Chaves, EntregaFinal, Servicos, MaxGlobais,
          Compras, Exclusivas, MaxConteudo, MaxSons,
          Textos, Envios, MaxLinhas, MaxRevisoes, MaxCapas

VARIABLES
    parte,
    arquivos, jobs, entregas, objetos, objeto, pedido, trava, worker, lote, entregue, incertos,
    globais, publicando, proprias, contrato, linha, obraContratada, prometido,
    vitrine, sons, som, duvida, pedidos, licencas, pagas,
    envios, linhas, capas, capa, subindo, vista, aberta,
    projetos, publicados, publicacoes, trocando, incertas

MCValor == [c \in Conteudos |-> CASE c = obra -> 2 [] c = cortesia -> 0
                                  [] c = pacote -> 3 [] c = beat -> 1]

F == INSTANCE Arquivos WITH proximo <- objeto
P == INSTANCE Politicas WITH producao <- obraContratada, MaxVersoes <- MaxGlobais,
                             Padrao <- [k \in Chaves |-> k # EntregaFinal]
B == INSTANCE CatalogoBeats WITH beat <- vitrine, objetos <- sons, proximo <- som,
                                 incerto <- duvida, MaxObjetos <- MaxSons
E == INSTANCE Portfolio

(* The key of the final files is a key, a row that is not there is no row,  *)
(* and the bounds are numbers.                                              *)
PortalAssumption ==
    /\ EntregaFinal \in Chaves
    /\ Nada \notin Nat /\ Nada \notin BOOLEAN /\ Nada \notin [Chaves -> BOOLEAN]
    /\ \A S \in SUBSET Servicos : Nada \notin [S -> [Chaves -> BOOLEAN]]
    /\ Nada \notin E!Linhas
    /\ Nada \notin F!LinhaTipo \cup F!JobTipo \cup F!PedidoTipo \cup F!WorkerTipo
    /\ Nada \notin Pedidos \cup {"worker"} /\ "worker" \notin Pedidos
    /\ MaxObjetos \in Nat /\ MaxArquivos \in Nat /\ MaxVersoes \in Nat \ {0} /\ MaxEntregas \in Nat
    /\ MaxGlobais \in Nat /\ MaxConteudo \in Nat \ {0} /\ MaxSons \in Nat
    /\ MaxLinhas \in Nat /\ MaxRevisoes \in Nat \ {0} /\ MaxCapas \in Nat
ASSUME PortalConstantes == PortalAssumption

varsF == <<arquivos, jobs, entregas, objetos, objeto, pedido, trava, worker, lote, entregue,
           incertos>>
varsP == <<globais, publicando, proprias, contrato, linha, obraContratada, prometido>>
varsB == <<vitrine, sons, som, duvida, pedidos, licencas, pagas>>
varsE == <<envios, linhas, capas, capa, subindo, vista, aberta,
           projetos, publicados, publicacoes, trocando, incertas>>

Inicio ==
    /\ parte \in {"proposta", "acesso", "arquivos", "compressao", "atendimento", "politicas", "beats",
                  "portfolio", "newsletter"}
    /\ Init /\ (parte # "proposta" => producao = "nenhuma")
    /\ InitAcesso /\ F!Init /\ InitBriefing /\ B!Init /\ E!Init /\ InitNewsletter
    /\ P!Init /\ contrato.itens \in {{}, Servicos} /\ (parte # "politicas" => contrato = [status |-> "rascunho", itens |-> {},
                                                     snapshot |-> Nada]
                                          /\ obraContratada = "nenhuma")

NaProposta ==
    parte = "proposta" /\ UNCHANGED <<parte, varsAcesso, varsF, varsBriefing, varsP, varsB, varsE,
                                      varsNewsletter>>
NoAcesso ==
    parte = "acesso" /\ UNCHANGED <<parte, vars, varsF, varsBriefing, varsP, varsB, varsE, varsNewsletter>>
NosArquivos ==
    /\ parte \in {"arquivos", "compressao"}
    /\ UNCHANGED <<parte, vars, varsAcesso, varsBriefing, varsP, varsB, varsE, varsNewsletter>>
NoAtendimento ==
    parte = "atendimento" /\ UNCHANGED <<parte, vars, varsAcesso, varsF, varsP, varsB, varsE, varsNewsletter>>
NasPoliticas ==
    parte = "politicas" /\ UNCHANGED <<parte, vars, varsAcesso, varsF, varsBriefing, varsB, varsE, varsNewsletter>>
NosBeats ==
    parte = "beats" /\ UNCHANGED <<parte, vars, varsAcesso, varsF, varsBriefing, varsP, varsE, varsNewsletter>>
NoPortfolio ==
    parte = "portfolio" /\ UNCHANGED <<parte, vars, varsAcesso, varsF, varsBriefing, varsP, varsB, varsNewsletter>>
NaNewsletter ==
    parte = "newsletter" /\ UNCHANGED <<parte, vars, varsAcesso, varsF, varsBriefing, varsP, varsB, varsE>>
NaConversa == NoAtendimento /\ UNCHANGED <<briefing, orcamentos>>

(* Everything shares MaxUsados objects, nothing is compressed, and there is *)
(* an attachment or a batch; or the requests come one by one and have       *)
(* MaxEnviados, the worker has all, and there is neither.                   *)
Comprimindo == NosArquivos /\ parte = "compressao"
ComAnexos == NosArquivos /\ parte = "arquivos" /\ lote = "nenhum"
ComLote == NosArquivos /\ parte = "arquivos" /\ \A a \in F!Vivos : ~arquivos[a].anexado
CabePedido ==
    /\ NosArquivos
    /\ IF parte = "arquivos" THEN objeto' <= MaxUsados
       ELSE objeto' <= MaxEnviados /\ \A r \in Pedidos : pedido[r] = Nada
CabeWorker == NosArquivos /\ (parte = "arquivos" => objeto' <= MaxUsados)

(* The next-state relations, an action to a disjunct; a proposal is         *)
(* classified, a flag of its own, once it is charged.                       *)
PassoProposta ==
    \/ \E c \in Conteudos : NaProposta /\ CriarPorOrcamento(c)
    \/ \E c \in Conteudos : NaProposta /\ Atualizar(c)
    \/ \E s \in SituacoesOrcamento : NaProposta /\ AtualizarStatus(s)
    \/ NaProposta /\ GerarDocumento
    \/ NaProposta /\ Enviar
    \/ NaProposta /\ ConfirmarEnvio
    \/ NaProposta /\ FalharEnvio
    \/ NaProposta /\ Vencer
    \/ NaProposta /\ ReabrirExpirada
    \/ NaProposta /\ MudarCatalogo
    \/ NaProposta /\ Aprovar
    \/ NaProposta /\ AceitarCliente
    \/ NaProposta /\ AceitarCompraCatalogo
    \/ NaProposta /\ RecusarCliente
    \/ NaProposta /\ AbrirTela
    \/ NaProposta /\ CriarProducao
    \/ NaProposta /\ LiberarProducao
    \/ NaProposta /\ NovaOrder
    \/ \E novo \in BOOLEAN : NaProposta /\ cobranca # Nada /\ Classificar(novo)

PassoAcesso ==
    \/ \E e \in Emails : NoAcesso /\ RequestSignup(e)
    \/ \E e \in Emails : NoAcesso /\ ResendSignup(e)
    \/ \E e \in Emails : NoAcesso /\ PreparePasswordRecovery(e)
    \/ \E e \in Emails : NoAcesso /\ CriarCliente(e)
    \/ \E e \in Emails : NoAcesso /\ ResolverParaOrcamento(e)
    \/ \E resend \in BOOLEAN : NoAcesso /\ Invite(resend)
    \/ \E t \in caixa : NoAcesso /\ Activate(t)
    \/ \E t \in caixa : NoAcesso /\ ResetPassword(t)
    \/ NoAcesso /\ Revoke
    \/ NoAcesso /\ Deliver
    \/ NoAcesso /\ VencerLink
    \/ NoAcesso /\ CleanupExpired
    \/ NoAcesso /\ AvancarContrato
    \/ NoAcesso /\ AtualizarCliente
    \/ NoAcesso /\ AtualizarConta

PassoArquivos ==
    \/ \E r \in Pedidos, anterior \in F!Previas \cup {Nada} : F!Salvar(r, "previa", anterior) /\ CabePedido
    \/ \E r \in Pedidos : F!Salvar(r, "entrega", Nada) /\ CabePedido
    \/ \E r \in Pedidos : F!Reemitir(r) /\ CabePedido
    \/ \E r \in Pedidos : NosArquivos /\ F!Gravar(r)
    \/ \E r \in Pedidos : NosArquivos /\ F!NaoGravar(r)
    \/ \E r \in Pedidos : NosArquivos /\ F!Conferir(r)
    \/ \E r \in Pedidos : NosArquivos /\ F!GravarLicenca(r)
    \/ \E r \in Pedidos : NosArquivos /\ F!NaoGravarLicenca(r)
    \/ \E r \in Pedidos : NosArquivos /\ F!Morrer(r)
    \/ \E r \in Pedidos : NosArquivos /\ F!Listar(r)
    \/ \E r \in Pedidos : NosArquivos /\ F!ReplacePrevious(r)
    \/ \E a \in F!Vivos : NosArquivos /\ F!ApagarArquivo(a)
    \/ \E a \in F!Vivos : ComAnexos /\ F!Anexar(a)
    \/ \E a \in F!Vivos : NosArquivos /\ F!RegenerarPrevia(a)
    \/ \E a \in F!Vivos : F!TagSalvar(a) /\ CabeWorker
    \/ \E a \in F!Vivos : NosArquivos /\ F!TagErro(a)
    \/ \E a \in F!Vivos, menor, tagMenor \in BOOLEAN : F!ComprimirSalvar(a, menor, tagMenor) /\ CabeWorker
    \/ NosArquivos /\ F!ExcluirEntrega
    \/ Comprimindo /\ F!EntregarProducao
    \/ NosArquivos /\ F!TagGravar
    \/ NosArquivos /\ F!TagFalhar
    \/ NosArquivos /\ F!TagConfirmar
    \/ NosArquivos /\ F!Reiniciar
    \/ ComLote /\ F!IniciarLote
    \/ ComLote /\ F!FecharConcluidos
    \/ NosArquivos /\ F!ComprimirGravar

PassoAtendimento ==
    \/ \E m \in N : NaConversa /\ Receive(m)
    \/ \E m \in N : NaConversa /\ IgnoreSuggestion(m)
    \/ \E t \in Trabalhos, m \in N : NaConversa /\ Claim(t, m)
    \/ \E t \in Trabalhos, m \in N : NaConversa /\ Suggest(t, m)
    \/ \E t \in Trabalhos, m \in N : NaConversa /\ Reencontrar(t, m)
    \/ \E t \in Trabalhos, d \in Decisoes : NaConversa /\ Complete(t, d)
    \/ \E t \in Trabalhos : NaConversa /\ CompleteSuggest(t)
    \/ \E t \in Trabalhos : NaConversa /\ Send(t)
    \/ \E t \in Trabalhos : NaConversa /\ Perder(t)
    \/ NaConversa /\ VencerPrazo
    \/ NaConversa /\ Close
    \/ \E o \in Operadores : NaConversa /\ Assign(o)
    \/ \E modo \in {"human", "copilot"} : NaConversa /\ SetMode(modo)
    \/ \E m \in N \cup {Nada} : NaConversa /\ SendMessage(m)
    \/ \E h \in humanas : NaConversa /\ RetryMessage(h)
    \/ \E t \in Trabalhos, campos \in SUBSET Campos : NoAtendimento /\ Update(t, campos)
    \/ \E t \in Trabalhos : NoAtendimento /\ Submit(t)

PassoPoliticas ==
    \/ \E p \in P!Completas : NasPoliticas /\ P!Publicar(p)
    \/ \E p \in P!Completas : NasPoliticas /\ P!Gravar(p)
    \/ \E p \in P!Completas : NasPoliticas /\ P!NaoGravar(p)
    \/ \E s \in Servicos, q \in P!Parciais : NasPoliticas /\ P!SalvarServico(s, q)
    \/ NasPoliticas /\ P!Enviar
    \/ NasPoliticas /\ P!Reabrir
    \/ NasPoliticas /\ P!Liberar
    \/ NasPoliticas /\ P!CriarProducao
    \/ NasPoliticas /\ P!RemoverExcecao
    \/ \E ja \in BOOLEAN : NasPoliticas /\ P!Aceitar(ja)
    \/ \E x \in P!Parciais : NasPoliticas /\ P!DefinirExcecao(x)

PassoBeats ==
    \/ \E respondeu \in BOOLEAN : NosBeats /\ B!Create(respondeu)
    \/ \E respondeu \in BOOLEAN : NosBeats /\ B!EditArquivos(respondeu)
    \/ \E respondeu \in BOOLEAN : NosBeats /\ B!Remixar(respondeu)
    \/ \E decisao \in {"aprovado", "rejeitado"} : NosBeats /\ B!Review(decisao)
    \/ NosBeats /\ B!Edit
    \/ NosBeats /\ B!ProducerDelete
    \/ NosBeats /\ B!FalharFila
    \/ NosBeats /\ B!IniciarLote
    \/ NosBeats /\ B!Relist
    \/ \E c \in Compras : NosBeats /\ B!RequestLicense(c)
    \/ \E c \in Compras : NosBeats /\ B!ReserveForProposal(c)
    \/ \E c \in Compras : NosBeats /\ B!ExpireReservations(c)
    \/ \E c \in Compras : NosBeats /\ B!ReleaseReservation(c)
    \/ \E c \in Compras : NosBeats /\ B!ConfirmPaid(c)
    \/ \E c \in Compras : NosBeats /\ B!RevokeReverted(c)

PassoPortfolio ==
    \/ \E r \in Envios, t \in Textos : NoPortfolio /\ E!Enviar(r, t)
    \/ \E r \in Envios, t \in Textos : NoPortfolio /\ E!Guardar(r, t)
    \/ \E u \in subindo : NoPortfolio /\ E!ConfirmarEnvio(u)
    \/ \E u \in subindo : NoPortfolio /\ E!FalharEnvio(u)
    \/ \E u \in subindo : NoPortfolio /\ E!Compensar(u)
    \/ \E u \in subindo : NoPortfolio /\ E!Morrer(u)
    \/ \E e \in envios : NoPortfolio /\ E!AbrirProdutor(e)
    \/ \E e \in envios : NoPortfolio /\ E!AbrirAdmin(e)
    \/ \E e \in envios : NoPortfolio /\ E!Excluir(e)
    \/ \E e \in envios, t \in Textos : NoPortfolio /\ E!Editar(e, t)
    \/ \E e \in envios, d \in {"aprovado", "recusado"} : NoPortfolio /\ E!Revisar(e, d)
    \/ \E p \in projetos : NoPortfolio /\ E!SubirImagem(p)
    \/ \E p \in projetos : NoPortfolio /\ E!ApagarImagem(p)
    \/ \E p \in projetos : NoPortfolio /\ E!AtualizarProjeto(p)
    \/ \E p \in projetos : NoPortfolio /\ E!DeletarProjeto(p)
    \/ \E t \in trocando : NoPortfolio /\ E!TrocarImagem(t)
    \/ \E t \in trocando : NoPortfolio /\ E!NaoTrocarImagem(t)

PassoNewsletter ==
    \/ \E i \in Inscritos : NaNewsletter /\ Inscrever(i)
    \/ \E i \in Inscritos : NaNewsletter /\ Cancelar(i)
    \/ \E i \in Inscritos : NaNewsletter /\ Vez(i)
    \/ \E v \in Versoes : NaNewsletter /\ AtualizarCampanha(v)
    \/ \E chegou, respondeu \in BOOLEAN : NaNewsletter /\ Chamar(chegou, respondeu)
    \/ NaNewsletter /\ Ler
    \/ NaNewsletter /\ EnviarCampanha
    \/ NaNewsletter /\ Registrar
    \/ NaNewsletter /\ Concluir
    \/ NaNewsletter /\ Interromper

Passo ==
    \/ PassoProposta \/ PassoAcesso \/ PassoArquivos \/ PassoAtendimento
    \/ PassoPoliticas \/ PassoBeats \/ PassoPortfolio \/ PassoNewsletter

Portal == Inicio /\ [][Passo]_<<parte, vars, varsAcesso, varsF, varsBriefing, varsP, varsB, varsE,
                              varsNewsletter>>

(* Requests are interchangeable, and so are the assistant's turns.          *)
Simetria == Permutations(Pedidos) \cup Permutations(Trabalhos)

-----------------------------------------------------------------------------
(* Every variable of the portals keeps its type. *)
TiposOK ==
    /\ TypeOK /\ AcessoTypeOK /\ F!TypeOK /\ BriefingTypeOK
    /\ P!TypeOK /\ B!TypeOK /\ E!TypeOK /\ NewsletterTypeOK

(* A row of files, a tag, a licence, an unpublished submission or a project *)
(* names an object that is there, but for those removed by the requests     *)
(* that do not look at what was saved.                                      *)
SemReferenciaMorta == F!SemReferenciaMorta /\ E!CapaPresente

(* Concurrent uploads stay within the quota.                                *)
CotaRespeitada == F!CotaRespeitada

(* Every version has exactly the version it replaced.                       *)
HistoricoInteiro == F!HistoricoInteiro

(* A contract keeps the policies the client was sent; only an exception     *)
(* differs, and only an exception releases what is not paid.                *)
ValeOEnviado == P!ValeOEnviado

(* A reserved or sold beat stays what was promised, with its files.         *)
PromessaMantida == B!PromessaMantida

(* A project is what the administrator approved.                            *)
PublicaOQueReviu == E!PublicaOQueReviu
=============================================================================
