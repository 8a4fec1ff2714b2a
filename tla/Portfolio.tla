------------------------------ MODULE Portfolio -------------------------------
(***************************************************************************)
(* What a producer offers to the portfolio: sent once or again with the    *)
(* same request, corrected, withdrawn, reviewed and published, while the   *)
(* producer and the administrator look at screens that may be old.  The    *)
(* cover is stored before the row that names it is committed; a published  *)
(* project takes the cover over, and its image may be replaced or removed. *)
(***************************************************************************)
EXTENDS Nulo, Naturals

CONSTANTS
    Textos,        \* what a submission may say
    Envios,        \* requests of the producer's browser, the same when repeated
    MaxLinhas,     \* bound: rows of submissions
    MaxRevisoes,   \* bound: versions of a row
    MaxCapas       \* bound: covers

VARIABLES
    envios,      \* the rows
    linhas,      \* how many rows there ever were
    capas,       \* the covers in the storage
    capa,        \* the name of the next cover
    subindo,     \* the uploads whose transaction is open or is to be looked up
    vista,       \* a row as the administrator's screen shows it
    aberta,      \* a row as the producer's screen shows it
    projetos,    \* the published projects, with their image today
    publicados,  \* how many projects there ever were
    publicacoes, \* history: what was published, and what the administrator had seen
    trocando,    \* the new images of projects whose transaction is open
    incertas     \* history: images removed although a project may name them

varsProjetos == <<projetos, publicados, publicacoes, trocando, incertas>>
vars == <<envios, linhas, capas, capa, subindo, vista, aberta, varsProjetos>>

Init ==
    /\ envios = {}
    /\ linhas = 0
    /\ capas = {}
    /\ capa = 1
    /\ subindo = {}
    /\ vista = Nada
    /\ aberta = Nada
    /\ projetos = {} /\ publicados = 0 /\ publicacoes = {}
    /\ trocando = {} /\ incertas = {}

-----------------------------------------------------------------------------
ComPedido(r) == {e \in envios : e.pedido = r}

NovaLinha(r, t, c) ==
    [id |-> linhas + 1, pedido |-> r, texto |-> t, capa |-> c, status |-> "pendente", versao |-> 1]

Trocar(e, novo) == envios' = (envios \ {e}) \cup {novo}

(* With the address of a cover that is somewhere else.  A repeated request  *)
(* finds its row and changes nothing.                                       *)
Enviar(r, t) ==
    /\ ComPedido(r) = {}
    /\ linhas < MaxLinhas
    /\ envios' = envios \cup {NovaLinha(r, t, Nada)}
    /\ linhas' = linhas + 1
    /\ UNCHANGED <<capas, capa, subindo, vista, aberta, varsProjetos>>

(* One upload at a time, which holds the row of the producer until its      *)
(* transaction ends; it stores the cover first.                             *)
Guardar(r, t) ==
    /\ \A u \in subindo : u.fase # "guardada"
    /\ ComPedido(r) = {}
    /\ capa <= MaxCapas
    /\ subindo' = subindo \cup {[pedido |-> r, texto |-> t, capa |-> capa, fase |-> "guardada"]}
    /\ capas' = capas \cup {capa}
    /\ capa' = capa + 1
    /\ UNCHANGED <<envios, linhas, vista, aberta, varsProjetos>>

Sem(u) == subindo' = subindo \ {u}
AConferir(u) == subindo' = (subindo \ {u}) \cup {[u EXCEPT !.fase = "conferir"]}

(* The row is there, and the request may hear of it or not. *)
ConfirmarEnvio(u) ==
    /\ u.fase = "guardada"
    /\ ComPedido(u.pedido) = {}
    /\ linhas < MaxLinhas
    /\ envios' = envios \cup {NovaLinha(u.pedido, u.texto, u.capa)}
    /\ linhas' = linhas + 1
    /\ Sem(u) \/ AConferir(u)
    /\ UNCHANGED <<capas, capa, vista, aberta, varsProjetos>>

(* Nothing was written: the request was there already, or the commit failed. *)
FalharEnvio(u) ==
    /\ u.fase = "guardada"
    /\ AConferir(u)
    /\ UNCHANGED <<envios, linhas, capas, capa, vista, aberta, varsProjetos>>

Registrada(u) == \E e \in ComPedido(u.pedido) : e.capa = u.capa

(* The transaction is over and its lock free: a cover no row names goes. *)
Compensar(u) ==
    /\ u.fase = "conferir"
    /\ capas' = IF Registrada(u) THEN capas ELSE capas \ {u.capa}
    /\ Sem(u)
    /\ UNCHANGED <<envios, linhas, capa, vista, aberta, varsProjetos>>

(* The database does not answer, or the process dies: the cover stays. *)
Morrer(u) ==
    /\ Sem(u)
    /\ UNCHANGED <<envios, linhas, capas, capa, vista, aberta, varsProjetos>>

-----------------------------------------------------------------------------
(* The screens, and what is decided on them. *)

Aberto(e) == e.status \in {"pendente", "recusado"}

AbrirProdutor(e) ==
    /\ aberta' = e
    /\ UNCHANGED <<envios, linhas, capas, capa, subindo, vista, varsProjetos>>

AbrirAdmin(e) ==
    /\ vista' = e
    /\ UNCHANGED <<envios, linhas, capas, capa, subindo, aberta, varsProjetos>>

(* The cover stays as it was; a refused submission is pending again. *)
Editar(e, t) ==
    /\ aberta # Nada /\ aberta.id = e.id /\ aberta.versao = e.versao
    /\ Aberto(e)
    /\ t # e.texto \/ e.status = "recusado"
    /\ e.versao < MaxRevisoes
    /\ Trocar(e, [e EXCEPT !.texto = t, !.status = "pendente", !.versao = @ + 1])
    /\ UNCHANGED <<linhas, capas, capa, subindo, vista, aberta, varsProjetos>>

Excluir(e) ==
    /\ aberta # Nada /\ aberta.id = e.id
    /\ Aberto(e)
    /\ envios' = envios \ {e}
    /\ UNCHANGED <<linhas, capas, capa, subindo, vista, aberta, varsProjetos>>

(* mutant: any pending submission may be decided *)
PendenteHoje(e) == vista # Nada /\ vista.id = e.id /\ e.status = "pendente"

Revisavel(e) ==
    /\ vista # Nada /\ vista.id = e.id
    /\ e.status = "pendente"
    /\ e.versao = vista.versao

Revisar(e, decisao) ==
    /\ Revisavel(e)
    /\ Trocar(e, [e EXCEPT !.status = decisao, !.versao = @ + 1])
    /\ IF decisao = "aprovado"
       THEN /\ publicados' = publicados + 1
            /\ projetos' = projetos \cup {[id |-> publicados', capa |-> e.capa]}
            /\ publicacoes' = publicacoes \cup
                  {[projeto |-> publicados', envio |-> e.id, texto |-> e.texto, capa |-> e.capa,
                    visto |-> vista.texto, capaVista |-> vista.capa]}
       ELSE UNCHANGED <<projetos, publicados, publicacoes>>
    /\ UNCHANGED <<linhas, capas, capa, subindo, vista, aberta, trocando, incertas>>

-----------------------------------------------------------------------------
(* The image of a published project.  Its row is read when a request begins *)
(* and the image it named then is removed after the commit, as far as the   *)
(* storage answers; the submission it came from still names it.             *)

Imagem(id, c) == projetos' = {IF p.id = id THEN [p EXCEPT !.capa = c] ELSE p : p \in projetos}
Sobra(c) == capas' \in {capas, capas \ {c}}

SubirImagem(p) ==
    /\ capa <= MaxCapas
    /\ capas' = capas \cup {capa}
    /\ capa' = capa + 1
    /\ trocando' = trocando \cup {[id |-> p.id, antes |-> p.capa, capa |-> capa]}
    /\ UNCHANGED <<envios, linhas, subindo, vista, aberta, projetos, publicados, publicacoes, incertas>>

(* With no answer the new image is removed, and what was saved not looked at. *)
TrocarImagem(t) ==
    /\ \E p \in projetos : p.id = t.id
    /\ Imagem(t.id, t.capa)
    /\ trocando' = trocando \ {t}
    /\ \/ Sobra(t.antes) /\ UNCHANGED incertas
       \/ capas' = capas \ {t.capa} /\ incertas' = incertas \cup {t.capa}
    /\ UNCHANGED <<envios, linhas, capa, subindo, vista, aberta, publicados, publicacoes>>

(* The project is gone, the commit failed, or the process died. *)
NaoTrocarImagem(t) ==
    /\ trocando' = trocando \ {t}
    /\ Sobra(t.capa)
    /\ UNCHANGED <<envios, linhas, capa, subindo, vista, aberta, projetos, publicados, publicacoes,
                   incertas>>

ApagarImagem(p) ==
    /\ Imagem(p.id, Nada)
    /\ Sobra(p.capa)
    /\ UNCHANGED <<envios, linhas, capa, subindo, vista, aberta, publicados, publicacoes, trocando,
                   incertas>>

(* An address typed in; the image before stays in the storage. *)
AtualizarProjeto(p) ==
    /\ Imagem(p.id, Nada)
    /\ UNCHANGED <<envios, linhas, capas, capa, subindo, vista, aberta, publicados, publicacoes,
                   trocando, incertas>>

DeletarProjeto(p) ==
    /\ projetos' = projetos \ {p}
    /\ Sobra(p.capa)
    /\ UNCHANGED <<envios, linhas, capa, subindo, vista, aberta, publicados, publicacoes, trocando,
                   incertas>>

-----------------------------------------------------------------------------
Next ==
    \/ \E r \in Envios, t \in Textos : Enviar(r, t) \/ Guardar(r, t)
    \/ \E u \in subindo : ConfirmarEnvio(u) \/ FalharEnvio(u) \/ Compensar(u) \/ Morrer(u)
    \/ \E e \in envios : AbrirProdutor(e) \/ AbrirAdmin(e) \/ Excluir(e)
    \/ \E e \in envios, t \in Textos : Editar(e, t)
    \/ \E e \in envios, decisao \in {"aprovado", "recusado"} : Revisar(e, decisao)
    \/ \E p \in projetos : SubirImagem(p) \/ ApagarImagem(p) \/ AtualizarProjeto(p) \/ DeletarProjeto(p)
    \/ \E t \in trocando : TrocarImagem(t) \/ NaoTrocarImagem(t)

Spec == Init /\ [][Next]_vars

-----------------------------------------------------------------------------
Capas == 1..MaxCapas

Linhas == [id : 1..MaxLinhas, pedido : Envios, texto : Textos, capa : Capas \cup {Nada},
           status : {"pendente", "recusado", "aprovado"}, versao : 1..(MaxRevisoes + 1)]

TypeOK ==
    /\ envios \subseteq Linhas
    /\ linhas \in 0..MaxLinhas
    /\ capas \subseteq Capas
    /\ capa \in 1..(MaxCapas + 1)
    /\ subindo \subseteq [pedido : Envios, texto : Textos, capa : Capas,
                          fase : {"guardada", "conferir"}]
    /\ vista \in Linhas \cup {Nada}
    /\ aberta \in Linhas \cup {Nada}
    /\ publicados \in Nat
    /\ projetos \subseteq [id : Nat, capa : Capas \cup {Nada}]
    /\ publicacoes \subseteq [projeto : Nat, envio : 1..MaxLinhas, texto : Textos,
                              capa : Capas \cup {Nada}, visto : Textos,
                              capaVista : Capas \cup {Nada}]
    /\ trocando \subseteq [id : Nat, antes : Capas \cup {Nada}, capa : Capas]
    /\ incertas \subseteq Capas

(* A project says what the administrator had on the screen when approving   *)
(* it, however the producer edits, withdraws and sends again meanwhile, and *)
(* no submission becomes a second project.                                  *)
PublicaOQueReviu ==
    /\ \A p \in publicacoes : p.texto = p.visto /\ p.capa = p.capaVista
    /\ \A p, q \in publicacoes : p.envio = q.envio => p.projeto = q.projeto

(* The cover of a submission still to be published is in the storage, and   *)
(* so is the image of a project, unless it went up in a request whose       *)
(* commit was not answered.  A published submission is not held to its      *)
(* cover: the image is the project's, which may replace or remove it.       *)
CapaPresente ==
    /\ \A e \in envios : e.status # "aprovado" /\ e.capa # Nada => e.capa \in capas
    /\ \A p \in projetos : p.capa # Nada => p.capa \in capas \cup incertas
===============================================================================
