------------------------------- MODULE Arquivos --------------------------------
(***************************************************************************)
(* The files of a production: previews and their versions, the deliveries  *)
(* of one stage with the licence of a beat delivered, and the worker that  *)
(* tags previews and compresses those of a delivered production.  A row    *)
(* names an object of the storage, which no transaction covers: the object *)
(* is written before the commit and removed after it, the answer to the    *)
(* commit may be lost, and a process may die.                              *)
(***************************************************************************)
EXTENDS Nulo, Naturals, FiniteSets

CONSTANTS
    Pedidos,       \* requests in flight
    MaxObjetos,    \* bound: objects written
    MaxArquivos, MaxVersoes, MaxEntregas   \* the quota of the contract

VARIABLES
    arquivos,    \* the rows, each named by the object it was made with
    jobs,        \* the tag of each preview
    entregas,    \* the deliveries of the stage, by file
    objetos,     \* the storage
    proximo,     \* the next object
    pedido,      \* what each request is doing
    trava,       \* who holds the row of the production
    worker,      \* what the worker is doing
    lote,        \* the regeneration of every preview
    entregue,    \* the production was delivered
    incertos     \* history: objects removed without looking at what was saved

vars == <<arquivos, jobs, entregas, objetos, proximo, pedido, trava, worker, lote, entregue,
          incertos>>

Objetos == 0..(MaxObjetos - 1)
Vivos == {a \in Objetos : arquivos[a] # Nada}
Previas == {a \in Vivos : arquivos[a].tipo = "previa"}

Init ==
    /\ arquivos = [a \in Objetos |-> Nada]
    /\ jobs = [a \in Objetos |-> Nada]
    /\ entregas = {} /\ objetos = {} /\ proximo = 0
    /\ pedido = [r \in Pedidos |-> Nada]
    /\ trava = Nada /\ worker = Nada
    /\ lote = "nenhum" /\ entregue = FALSE /\ incertos = {}

-----------------------------------------------------------------------------
Substituido(a) == \E b \in Vivos : arquivos[b].anterior = a

Versao(anterior) == IF anterior = Nada THEN 1 ELSE arquivos[anterior].versao + 1

DentroDaCota(tipo, anterior) ==
    IF tipo = "entrega" THEN Cardinality(entregas) < MaxEntregas
    ELSE IF anterior = Nada
         THEN Cardinality({a \in Previas : arquivos[a].versao = 1}) < MaxArquivos
         ELSE Versao(anterior) <= MaxVersoes

(* mutant: two uploads are measured at the same time *)
SemTrava == TRUE

TravaLivre == trava = Nada

(* The object is written under the lock of the production, once the quota   *)
(* allows it.                                                               *)
Salvar(r, tipo, anterior) ==
    /\ pedido[r] = Nada
    /\ TravaLivre
    /\ anterior # Nada => anterior \in Previas /\ ~Substituido(anterior)
    /\ DentroDaCota(tipo, anterior)
    /\ proximo < MaxObjetos
    /\ objetos' = objetos \cup {proximo}
    /\ pedido' = [pedido EXCEPT ![r] = [fase |-> "gravar", tipo |-> tipo, obj |-> proximo,
                                        anterior |-> anterior, versao |-> Versao(anterior),
                                        lista |-> {}]]
    /\ trava' = r
    /\ proximo' = proximo + 1
    /\ UNCHANGED <<arquivos, jobs, entregas, worker, lote, entregue, incertos>>

Solta(r) == trava' = IF trava = r THEN Nada ELSE trava

Na(r, fase) == pedido[r] # Nada /\ pedido[r].fase = fase

NovaLinha(p) ==
    [tipo |-> p.tipo, anterior |-> p.anterior, versao |-> p.versao, obj |-> p.obj,
     licencas |-> {}, anexado |-> FALSE, comprimido |-> FALSE]

(* The commit, answered or not; a foreign key stops it when the version     *)
(* before was deleted meanwhile.                                            *)
Gravar(r) ==
    LET p == pedido[r]
    IN  /\ Na(r, "gravar")
        /\ p.anterior # Nada => p.anterior \in Vivos
        /\ arquivos' = [arquivos EXCEPT ![p.obj] = NovaLinha(p)]
        /\ IF p.tipo = "entrega"
           THEN entregas' = entregas \cup {p.obj} /\ UNCHANGED jobs
           ELSE /\ jobs' = [jobs EXCEPT ![p.obj] =
                               [estado |-> "pendente", obj |-> Nada, lote |-> FALSE]]
                /\ UNCHANGED entregas
        /\ \/ pedido' = [pedido EXCEPT ![r] = IF p.tipo = "entrega"
                                              THEN [p EXCEPT !.fase = "listar"] ELSE Nada]
           \/ pedido' = [pedido EXCEPT ![r].fase = "conferir"]
        /\ Solta(r)
        /\ UNCHANGED <<objetos, proximo, worker, lote, entregue, incertos>>

NaoGravar(r) ==
    /\ Na(r, "gravar")
    /\ pedido' = [pedido EXCEPT ![r].fase = "conferir"]
    /\ Solta(r)
    /\ UNCHANGED <<arquivos, jobs, entregas, objetos, proximo, worker, lote, entregue, incertos>>

(* mutant: the object is removed without looking at what was saved *)
SemConferir(p) == FALSE

Persistido(p) == \E a \in Vivos : arquivos[a].obj = p.obj

(* After a failure: a row that was saved keeps its object.                  *)
Conferir(r) ==
    /\ Na(r, "conferir")
    /\ objetos' \in IF Persistido(pedido[r]) THEN {objetos} ELSE {objetos, objetos \ {pedido[r].obj}}
    /\ pedido' = [pedido EXCEPT ![r] = Nada]
    /\ UNCHANGED <<arquivos, jobs, entregas, proximo, trava, worker, lote, entregue, incertos>>

Morrer(r) ==
    /\ pedido[r] # Nada
    /\ pedido' = [pedido EXCEPT ![r] = Nada]
    /\ Solta(r)
    /\ UNCHANGED <<arquivos, jobs, entregas, objetos, proximo, worker, lote, entregue, incertos>>

-----------------------------------------------------------------------------
(* Removal: the rows first, then the objects, as far as the storage answers. *)

(* The file, its tag, and the licences issued again for a delivery. *)
Referencias(a) ==
    {arquivos[a].obj} \cup arquivos[a].licencas
        \cup (IF jobs[a] = Nada THEN {} ELSE {jobs[a].obj} \ {Nada})

Sobram(os) == \E S \in SUBSET os : objetos' = objetos \ S

Apagar(a) ==
    /\ arquivos' = [arquivos EXCEPT ![a] = Nada]
    /\ jobs' = [jobs EXCEPT ![a] = Nada]
    /\ Sobram(Referencias(a))

(* mutant: versions before the last may be removed *)
SemHistorico(a) == a \notin entregas /\ ~arquivos[a].anexado

Apagavel(a) == a \notin entregas /\ ~arquivos[a].anexado /\ ~Substituido(a)

(* Held by the worker, which writes its tag or compresses it. *)
EmUso(a) == worker # Nada /\ worker.arq = a /\ worker.fase # "conferir"

(* By its producer or the administrator.                                    *)
ApagarArquivo(a) ==
    /\ Apagavel(a) /\ ~EmUso(a)
    /\ Apagar(a)
    /\ UNCHANGED <<entregas, proximo, pedido, trava, worker, lote, entregue, incertos>>

(* A file of the production attached to a message. *)
Anexar(a) ==
    /\ ~arquivos[a].anexado
    /\ arquivos' = [arquivos EXCEPT ![a].anexado = TRUE]
    /\ UNCHANGED <<jobs, entregas, objetos, proximo, pedido, trava, worker, lote, entregue, incertos>>

Remove(a) ==
    /\ a \in entregas
    /\ ~arquivos[a].anexado
    /\ entregas' = entregas \ {a}
    /\ Apagar(a)

ExcluirEntrega ==
    /\ ~entregue
    /\ \E a \in entregas : Remove(a)
    /\ UNCHANGED <<proximo, pedido, trava, worker, lote, entregue, incertos>>

(* A delivery saved looks for the earlier ones of the stage, with no lock,  *)
(* and removes them one by one.                                             *)
Listar(r) ==
    /\ Na(r, "listar")
    /\ pedido' = [pedido EXCEPT ![r] =
                     IF pedido[r].obj \in entregas
                     THEN [@ EXCEPT !.fase = "substituir", !.lista = entregas \ {pedido[r].obj}]
                     ELSE Nada]
    /\ UNCHANGED <<arquivos, jobs, entregas, objetos, proximo, trava, worker, lote, entregue, incertos>>

ReplacePrevious(r) ==
    /\ Na(r, "substituir")
    /\ IF pedido[r].lista = {}
       THEN /\ pedido' = [pedido EXCEPT ![r] = Nada]
            /\ UNCHANGED <<arquivos, jobs, entregas, objetos>>
       ELSE \E a \in pedido[r].lista :
               /\ pedido' = [pedido EXCEPT ![r].lista = @ \ {a}]
               /\ \/ Remove(a)
                  \/ /\ a \in entregas => arquivos[a].anexado
                     /\ UNCHANGED <<arquivos, jobs, entregas, objetos>>
    /\ UNCHANGED <<proximo, trava, worker, lote, entregue, incertos>>

(* A delivery corrected has its licence issued again, as the next version of *)
(* it, under no lock.                                                       *)
Reemitir(r) ==
    /\ pedido[r] = Nada
    /\ ~entregue
    /\ proximo < MaxObjetos
    /\ objetos' = objetos \cup {proximo}
    /\ \E a \in entregas :
          pedido' = [pedido EXCEPT ![r] = [fase |-> "licenca", tipo |-> "entrega", obj |-> proximo,
                                           anterior |-> a, versao |-> arquivos[a].versao,
                                           lista |-> arquivos[a].licencas]]
    /\ proximo' = proximo + 1
    /\ UNCHANGED <<arquivos, jobs, entregas, trava, worker, lote, entregue, incertos>>

(* The delivery is still there, and no other licence took this version.     *)
(* With no answer the new object is removed, and nothing looked at.         *)
GravarLicenca(r) ==
    LET p == pedido[r]
    IN  /\ Na(r, "licenca")
        /\ p.anterior \in entregas /\ p.lista = arquivos[p.anterior].licencas
        /\ arquivos' = [arquivos EXCEPT ![p.anterior].licencas = @ \cup {p.obj}]
        /\ pedido' = [pedido EXCEPT ![r] = Nada]
        /\ \/ UNCHANGED <<objetos, incertos>>
           \/ objetos' = objetos \ {p.obj} /\ incertos' = incertos \cup {p.obj}
        /\ UNCHANGED <<jobs, entregas, proximo, trava, worker, lote, entregue>>

NaoGravarLicenca(r) ==
    /\ Na(r, "licenca")
    /\ pedido' = [pedido EXCEPT ![r] = Nada]
    /\ Sobram({pedido[r].obj})
    /\ UNCHANGED <<arquivos, jobs, entregas, proximo, trava, worker, lote, entregue, incertos>>

EntregarProducao ==
    /\ ~entregue /\ entregas # {}
    /\ entregue' = TRUE
    /\ UNCHANGED <<arquivos, jobs, entregas, objetos, proximo, pedido, trava, worker, lote, incertos>>

-----------------------------------------------------------------------------
(* The worker tags one preview at a time: new uploads first, then the batch.*)

Pendentes == {a \in Previas : jobs[a].estado = "pendente"}

Vez(a) == jobs[a].lote => \A b \in Pendentes : jobs[b].lote

TagSalvar(a) ==
    /\ worker = Nada
    /\ a \in Pendentes /\ Vez(a)
    /\ proximo < MaxObjetos
    /\ objetos' = objetos \cup {proximo}
    /\ worker' = [fase |-> "tag", arq |-> a, obj |-> proximo, tag |-> Nada]
    /\ proximo' = proximo + 1
    /\ UNCHANGED <<arquivos, jobs, entregas, pedido, trava, lote, entregue, incertos>>

(* The preview cannot be read or tagged, or the storage refuses. *)
TagErro(a) ==
    /\ worker = Nada
    /\ a \in Pendentes /\ Vez(a)
    /\ jobs' = [jobs EXCEPT ![a].estado = "erro"]
    /\ UNCHANGED <<arquivos, entregas, objetos, proximo, pedido, trava, worker, lote, entregue,
                   incertos>>

(* The worker dies with what it had not saved. *)
Reiniciar ==
    /\ worker # Nada
    /\ worker' = Nada
    /\ trava' = IF trava = "worker" THEN Nada ELSE trava
    /\ UNCHANGED <<arquivos, jobs, entregas, objetos, proximo, pedido, lote, entregue, incertos>>

(* The tag before is removed once the new one is ready.  With the answer    *)
(* lost, it stays.                                                          *)
TagGravar ==
    /\ worker # Nada /\ worker.fase = "tag"
    /\ jobs' = [jobs EXCEPT ![worker.arq].estado = "pronto", ![worker.arq].obj = worker.obj]
    /\ \/ worker' = Nada /\ objetos' \in {objetos, objetos \ {jobs[worker.arq].obj}}
       \/ worker' = [worker EXCEPT !.fase = "conferir"] /\ UNCHANGED objetos
    /\ UNCHANGED <<arquivos, entregas, proximo, pedido, trava, lote, entregue, incertos>>

Pronto == worker.arq \in Previas /\ jobs[worker.arq].estado = "pronto"

(* Its own tag is removed unless the job is found ready: a job asked again  *)
(* meanwhile is not.                                                        *)
TagFalhar ==
    /\ worker # Nada
    /\ \/ worker.fase = "tag"
       \/ worker.fase = "conferir" /\ ~Pronto
    /\ jobs' = IF worker.arq \in Pendentes
               THEN [jobs EXCEPT ![worker.arq].estado = "erro"] ELSE jobs
    /\ objetos' \in {objetos, objetos \ {worker.obj}}
    /\ worker' = Nada
    /\ UNCHANGED <<arquivos, entregas, proximo, pedido, trava, lote, entregue, incertos>>

TagConfirmar ==
    /\ worker # Nada /\ worker.fase = "conferir"
    /\ Pronto
    /\ worker' = Nada
    /\ UNCHANGED <<arquivos, jobs, entregas, objetos, proximo, pedido, trava, lote, entregue, incertos>>

(* The row of the job is locked while its tag is written, not while the     *)
(* worker looks at what became of it.                                       *)
Ocupado(a) == EmUso(a) /\ worker.fase = "tag"
EmDuvida(as) ==
    IF worker # Nada /\ worker.fase = "conferir" /\ worker.arq \in as THEN {worker.obj} ELSE {}

RegenerarPrevia(a) ==
    /\ a \in Previas \ Pendentes
    /\ ~Ocupado(a)
    /\ jobs' = [jobs EXCEPT ![a].estado = "pendente", ![a].lote = FALSE]
    /\ incertos' = incertos \cup EmDuvida({a})
    /\ UNCHANGED <<arquivos, entregas, objetos, proximo, pedido, trava, worker, lote, entregue>>

IniciarLote ==
    LET js == {a \in Previas \ Pendentes : ~Ocupado(a)}
    IN  /\ lote # "ativo"
        /\ jobs' = [a \in Objetos |-> IF a \in js
                                      THEN [jobs[a] EXCEPT !.estado = "pendente", !.lote = TRUE]
                                      ELSE IF jobs[a] = Nada THEN Nada
                                           ELSE [jobs[a] EXCEPT !.lote = FALSE]]
        /\ incertos' = incertos \cup EmDuvida(js)
        /\ lote' = IF js = {} THEN "fechado" ELSE "ativo"
        /\ UNCHANGED <<arquivos, entregas, objetos, proximo, pedido, trava, worker, entregue>>

FecharConcluidos ==
    /\ lote = "ativo"
    /\ worker = Nada
    /\ ~\E a \in Pendentes : jobs[a].lote
    /\ lote' = "fechado"
    /\ UNCHANGED <<arquivos, jobs, entregas, objetos, proximo, pedido, trava, worker, entregue, incertos>>

(* When it found no tag to write (one may be asked meanwhile, or be locked) *)
(* it compresses a preview of a delivered production, holding its row and   *)
(* the production's: the file and the tag that is ready, each if it comes   *)
(* out smaller.                                                             *)
ComprimirSalvar(a, menor, tagMenor) ==
    LET doTag == proximo + (IF menor THEN 1 ELSE 0)
        ultimo == doTag + (IF tagMenor THEN 1 ELSE 0)
    IN  /\ worker = Nada
        /\ entregue /\ trava = Nada
        /\ a \in Previas /\ ~arquivos[a].comprimido
        /\ tagMenor => jobs[a].estado = "pronto" /\ jobs[a].obj # Nada
        /\ ultimo <= MaxObjetos
        /\ objetos' = objetos \cup (proximo..(ultimo - 1))
        /\ worker' = [fase |-> "comprimir", arq |-> a,
                      obj |-> IF menor THEN proximo ELSE arquivos[a].obj,
                      tag |-> IF tagMenor THEN doTag ELSE jobs[a].obj]
        /\ trava' = "worker"
        /\ proximo' = ultimo
        /\ UNCHANGED <<arquivos, jobs, entregas, pedido, lote, entregue, incertos>>

Destino == {worker.obj, worker.tag} \ {Nada}
Novos == Destino \ Referencias(worker.arq)
Antigos == Referencias(worker.arq) \ Destino

Comprimir ==
    /\ arquivos' = [arquivos EXCEPT ![worker.arq].obj = worker.obj, ![worker.arq].comprimido = TRUE]
    /\ jobs' = [jobs EXCEPT ![worker.arq].obj = worker.tag]

(* The objects before are removed after the commit.  After a failure the    *)
(* new ones are, and the row is marked all the same, if that can be saved;  *)
(* a lost answer is taken for a failure.                                    *)
ComprimirGravar ==
    /\ worker # Nada /\ worker.fase = "comprimir"
    /\ \/ Comprimir /\ Sobram(Antigos) /\ UNCHANGED incertos
       \/ /\ arquivos' \in {arquivos, [arquivos EXCEPT ![worker.arq].comprimido = TRUE]}
          /\ Sobram(Novos)
          /\ UNCHANGED <<jobs, incertos>>
       \/ Comprimir /\ Sobram(Novos) /\ incertos' = incertos \cup (Novos \ objetos')
    /\ worker' = Nada /\ trava' = Nada
    /\ UNCHANGED <<entregas, proximo, pedido, lote, entregue>>

-----------------------------------------------------------------------------
Next ==
    \/ \E r \in Pedidos :
          \/ \E anterior \in Previas \cup {Nada} : Salvar(r, "previa", anterior)
          \/ Salvar(r, "entrega", Nada)
          \/ Gravar(r) \/ NaoGravar(r) \/ Conferir(r) \/ Morrer(r)
          \/ Listar(r) \/ ReplacePrevious(r)
          \/ Reemitir(r) \/ GravarLicenca(r) \/ NaoGravarLicenca(r)
    \/ \E a \in Vivos : ApagarArquivo(a) \/ Anexar(a) \/ RegenerarPrevia(a)
                        \/ TagSalvar(a) \/ TagErro(a)
                        \/ \E menor, tagMenor \in BOOLEAN : ComprimirSalvar(a, menor, tagMenor)
    \/ ExcluirEntrega \/ EntregarProducao
    \/ TagGravar \/ TagFalhar \/ TagConfirmar \/ Reiniciar
    \/ IniciarLote \/ FecharConcluidos \/ ComprimirGravar

Spec == Init /\ [][Next]_vars

-----------------------------------------------------------------------------
ObjetoOuNada == Objetos \cup {Nada}

LinhaTipo == [tipo : {"previa", "entrega"}, anterior : ObjetoOuNada, versao : Nat, obj : Objetos,
              licencas : SUBSET Objetos, anexado : BOOLEAN, comprimido : BOOLEAN]
JobTipo == [estado : {"pendente", "pronto", "erro"}, obj : ObjetoOuNada, lote : BOOLEAN]
PedidoTipo == [fase : {"gravar", "conferir", "listar", "substituir", "licenca"},
               tipo : {"previa", "entrega"}, obj : Objetos, anterior : ObjetoOuNada,
               versao : Nat, lista : SUBSET Objetos]
WorkerTipo == [fase : {"tag", "conferir", "comprimir"}, arq : Objetos, obj : Objetos,
               tag : ObjetoOuNada]

TypeOK ==
    /\ arquivos \in [Objetos -> LinhaTipo \cup {Nada}]
    /\ \A a \in Objetos : jobs[a] # Nada <=> a \in Previas
    /\ jobs \in [Objetos -> JobTipo \cup {Nada}]
    /\ entregas = Vivos \ Previas
    /\ objetos \subseteq Objetos /\ proximo \in 0..MaxObjetos
    /\ pedido \in [Pedidos -> PedidoTipo \cup {Nada}]
    /\ trava \in Pedidos \cup {"worker", Nada}
    /\ worker \in WorkerTipo \cup {Nada}
    /\ lote \in {"nenhum", "ativo", "fechado"} /\ entregue \in BOOLEAN
    /\ incertos \subseteq Objetos

(* What a row, its tag or a licence names is in the storage, whatever       *)
(* failed or died, but for the objects that three requests remove without   *)
(* looking at what was saved, and that a row may name: a tag asked again    *)
(* while the worker looks for its own, a compression whose commit was not   *)
(* answered, and a licence issued again whose commit was not answered.      *)
SemReferenciaMorta == \A a \in Vivos : Referencias(a) \ incertos \subseteq objetos

(* Uploads at the same time never take more than the contract gives.        *)
CotaRespeitada ==
    /\ Cardinality({a \in Previas : arquivos[a].versao = 1}) <= MaxArquivos
    /\ \A a \in Previas : arquivos[a].versao <= MaxVersoes
    /\ Cardinality(entregas) <= MaxEntregas

(* The history has no holes: every version still has the one it replaced,   *)
(* and no version is replaced twice.                                        *)
HistoricoInteiro ==
    \A a \in Vivos : arquivos[a].anterior # Nada =>
        /\ arquivos[a].anterior \in Previas
        /\ arquivos[a].versao = arquivos[arquivos[a].anterior].versao + 1
        /\ \A b \in Vivos \ {a} : arquivos[b].anterior # arquivos[a].anterior
=============================================================================
