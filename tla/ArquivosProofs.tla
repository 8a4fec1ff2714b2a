---------------------------- MODULE ArquivosProofs ----------------------------
(***************************************************************************)
(* Proofs about the files of a production, for every set of requests and   *)
(* every quota, however many objects are written: what is uploaded at the  *)
(* same time stays within the quota, the history of versions has no holes, *)
(* and a row names an object the storage lost only where a request removed *)
(* it without looking at what was saved.                                   *)
(* The last section puts the eight portals together: each is a behaviour   *)
(* of its own specification, and everything has its type.                  *)
(***************************************************************************)
EXTENDS PortalProofs, PropostasProofs, ContatosProofs, FiniteSetTheorems

-----------------------------------------------------------------------------
(* The type invariant, in parts. *)
Tabelas ==
    /\ arquivos \in [F!Objetos -> F!LinhaTipo \cup {Nada}]
    /\ \A a \in F!Objetos : jobs[a] # Nada <=> a \in F!Previas
    /\ jobs \in [F!Objetos -> F!JobTipo \cup {Nada}]
    /\ entregas = F!Vivos \ F!Previas

Armazem == objetos \subseteq F!Objetos /\ objeto \in 0..MaxObjetos /\ incertos \subseteq F!Objetos

Atores ==
    /\ pedido \in [Pedidos -> F!PedidoTipo \cup {Nada}]
    /\ trava \in Pedidos \cup {"worker", Nada}
    /\ worker \in F!WorkerTipo \cup {Nada}

Bandeiras == lote \in {"nenhum", "ativo", "fechado"} /\ entregue \in BOOLEAN

LEMMA TiposDosArquivos == F!TypeOK <=> Tabelas /\ Armazem /\ Atores /\ Bandeiras
BY DEF F!TypeOK, Tabelas, Armazem, Atores, Bandeiras

(* Who is about to save a row holds the production, and so does who is      *)
(* compressing; the row is not there yet, or still.                         *)
Travados ==
    /\ \A r \in Pedidos : F!Na(r, "gravar") =>
           /\ trava = r
           /\ arquivos[pedido[r].obj] = Nada
           /\ pedido[r].tipo = "entrega" => pedido[r].anterior = Nada
    /\ worker # Nada => /\ worker.fase # "conferir" => worker.arq \in F!Previas
                        /\ worker.fase = "comprimir" => trava = "worker"

(* Every object named anywhere was written already. *)
Novos ==
    /\ \A a \in F!Vivos : a < objeto /\ \A x \in F!Referencias(a) : x < objeto
    /\ \A r \in Pedidos : pedido[r] # Nada => pedido[r].obj < objeto
    /\ worker # Nada => /\ worker.obj < objeto /\ worker.arq < objeto
                        /\ worker.tag # Nada => worker.tag < objeto

Base == Tabelas /\ Armazem /\ Atores /\ Travados /\ Novos

LEMMA Linha ==
    ASSUME Tabelas, NEW a \in F!Vivos
    PROVE  /\ a \in F!Objetos /\ arquivos[a] \in F!LinhaTipo
           /\ arquivos[a].tipo \in {"previa", "entrega"} /\ arquivos[a].anterior \in F!ObjetoOuNada
           /\ arquivos[a].versao \in Nat /\ arquivos[a].obj \in F!Objetos
           /\ arquivos[a].licencas \subseteq F!Objetos
<1>1. a \in F!Objetos /\ arquivos[a] \in F!LinhaTipo
  BY DEF Tabelas, F!Vivos
<1> QED BY <1>1 DEF F!LinhaTipo

LEMMA Job ==
    ASSUME Tabelas, NEW a \in F!Previas
    PROVE  /\ a \in F!Vivos /\ a \in F!Objetos /\ arquivos[a].tipo = "previa"
           /\ jobs[a] \in F!JobTipo /\ jobs[a] # Nada
           /\ jobs[a].estado \in {"pendente", "pronto", "erro"} /\ jobs[a].obj \in F!ObjetoOuNada
<1>1. a \in F!Vivos /\ a \in F!Objetos /\ arquivos[a].tipo = "previa" /\ jobs[a] \in F!JobTipo /\ jobs[a] # Nada
  BY DEF Tabelas, F!Vivos, F!Previas
<1> QED BY <1>1 DEF F!JobTipo

LEMMA Numeros == F!Objetos \subseteq Nat /\ Nada \notin F!Objetos /\ Nada \notin F!LinhaTipo
                 /\ Nada \notin F!JobTipo /\ Nada \notin F!PedidoTipo /\ Nada \notin F!WorkerTipo
BY PortalConstantes DEF F!Objetos, PortalAssumption

LEMMA Pedida ==
    ASSUME Atores, NEW r \in Pedidos, pedido[r] # Nada
    PROVE  /\ pedido[r] \in F!PedidoTipo
           /\ pedido[r].fase \in {"gravar", "conferir", "listar", "substituir", "licenca"}
           /\ pedido[r].tipo \in {"previa", "entrega"} /\ pedido[r].obj \in F!Objetos
           /\ pedido[r].anterior \in F!ObjetoOuNada /\ pedido[r].versao \in Nat
           /\ pedido[r].lista \subseteq F!Objetos
<1>1. pedido[r] \in F!PedidoTipo
  BY DEF Atores
<1> QED BY <1>1 DEF F!PedidoTipo

LEMMA Trabalhando ==
    ASSUME Atores, worker # Nada
    PROVE  /\ worker \in F!WorkerTipo /\ worker.fase \in {"tag", "conferir", "comprimir"}
           /\ worker.arq \in F!Objetos /\ worker.obj \in F!Objetos
           /\ worker.tag \in F!ObjetoOuNada
<1>1. worker \in F!WorkerTipo
  BY DEF Atores
<1> QED BY <1>1 DEF F!WorkerTipo

(* What a row names: its file, its licences and, if it is a preview, its tag. *)
LEMMA Nomes ==
    ASSUME Tabelas, NEW a \in F!Vivos
    PROVE  /\ F!Referencias(a) = {arquivos[a].obj} \cup arquivos[a].licencas
                  \cup (IF a \in F!Previas THEN {jobs[a].obj} \ {Nada} ELSE {})
           /\ F!Referencias(a) \subseteq F!Objetos
<1>1. jobs[a] = Nada <=> a \notin F!Previas
  BY Linha DEF Tabelas
<1>2. arquivos[a].obj \in F!Objetos /\ arquivos[a].licencas \subseteq F!Objetos
  BY Linha
<1>3. a \in F!Previas => jobs[a].obj \in F!Objetos \cup {Nada}
  BY Job DEF F!ObjetoOuNada
<1>4. F!Referencias(a) = {arquivos[a].obj} \cup arquivos[a].licencas
          \cup (IF a \in F!Previas THEN {jobs[a].obj} \ {Nada} ELSE {})
  BY <1>1 DEF F!Referencias
<1> QED BY <1>2, <1>3, <1>4

LEMMA NomesDepois ==
    ASSUME Tabelas', NEW a \in F!Vivos'
    PROVE  F!Referencias(a)' = {arquivos'[a].obj} \cup arquivos'[a].licencas
               \cup (IF a \in F!Previas' THEN {jobs'[a].obj} \ {Nada} ELSE {})
<1>1. jobs'[a] = Nada <=> a \notin F!Previas'
  BY DEF Tabelas, F!Vivos
<1> QED BY <1>1 DEF F!Referencias

LEMMA MesmosNomes ==
    ASSUME Tabelas, Tabelas', NEW a \in F!Vivos, a \in F!Vivos', a \in F!Previas' <=> a \in F!Previas,
           arquivos'[a].obj = arquivos[a].obj, arquivos'[a].licencas = arquivos[a].licencas,
           a \in F!Previas => jobs'[a].obj = jobs[a].obj
    PROVE  F!Referencias(a)' = F!Referencias(a)
BY Nomes, NomesDepois

-----------------------------------------------------------------------------
(* What every step but an upload and its commit does: rows go, never one    *)
(* that a row left names, and what the rest say of the history stays; who   *)
(* is about to save was so before.                                          *)
Encolhe ==
    /\ F!Vivos' \subseteq F!Vivos
    /\ \A a \in F!Vivos' :
          /\ arquivos'[a].tipo = arquivos[a].tipo
          /\ arquivos'[a].anterior = arquivos[a].anterior
          /\ arquivos'[a].versao = arquivos[a].versao
    /\ \A a \in F!Vivos' : arquivos[a].anterior \in F!Previas => arquivos[a].anterior \in F!Vivos'
    /\ \A r \in Pedidos : F!Na(r, "gravar")' => F!Na(r, "gravar") /\ pedido'[r] = pedido[r]

(* No request is new. *)
Seguem == \A r \in Pedidos : pedido'[r] # Nada => pedido[r] # Nada /\ pedido'[r].obj = pedido[r].obj

LEMMA Removida ==
    ASSUME Tabelas, NEW a \in F!Vivos, arquivos' = [arquivos EXCEPT ![a] = Nada]
    PROVE  F!Vivos' = F!Vivos \ {a} /\ F!Previas' = F!Previas \ {a} /\ \A b \in F!Vivos' : arquivos'[b] = arquivos[b]
<1>1. a \in F!Objetos
  BY Linha
<1>2. arquivos'[a] = Nada /\ \A b \in F!Objetos \ {a} : arquivos'[b] = arquivos[b]
  BY <1>1 DEF Tabelas
<1> QED BY <1>1, <1>2 DEF F!Vivos, F!Previas, F!Objetos

(* A row and its tag are removed. *)
LEMMA SemALinha ==
    ASSUME Base, NEW a \in F!Vivos, F!Apagar(a), entregas' = entregas \ {a},
           ~(F!EmUso(a)), \A b \in F!Vivos : arquivos[b].anterior # a,
           UNCHANGED <<objeto, trava, worker, incertos>>, Atores',
           \A r \in Pedidos : F!Na(r, "gravar")' => F!Na(r, "gravar") /\ pedido'[r] = pedido[r],
           Seguem
    PROVE  Base' /\ Encolhe
<1>0. Tabelas /\ Armazem /\ Atores /\ Travados /\ Novos
  BY DEF Base
<1>1. /\ arquivos' = [arquivos EXCEPT ![a] = Nada] /\ jobs' = [jobs EXCEPT ![a] = Nada]
      /\ objetos' \subseteq objetos
  BY DEF F!Apagar, F!Sobram
<1>2. a \in F!Objetos
  BY <1>0, Linha
<1>3. F!Vivos' = F!Vivos \ {a} /\ F!Previas' = F!Previas \ {a} /\ \A b \in F!Vivos' : arquivos'[b] = arquivos[b]
  BY <1>0, <1>1, Removida
<1>4. jobs'[a] = Nada /\ \A b \in F!Objetos \ {a} : jobs'[b] = jobs[b]
  BY <1>0, <1>1, <1>2 DEF Tabelas
<1>5. Tabelas'
  <2>1. arquivos' \in [F!Objetos -> F!LinhaTipo \cup {Nada}] /\ jobs' \in [F!Objetos -> F!JobTipo \cup {Nada}]
    BY <1>0, <1>1, <1>2 DEF Tabelas
  <2>2. entregas' = F!Vivos' \ F!Previas'
    BY <1>0, <1>3 DEF Tabelas
  <2>3. \A b \in F!Objetos : jobs'[b] # Nada <=> b \in F!Previas'
    BY <1>0, <1>3, <1>4 DEF Tabelas
  <2> QED BY <2>1, <2>2, <2>3 DEF Tabelas, F!Objetos, F!LinhaTipo, F!JobTipo, F!ObjetoOuNada
<1>6. Armazem'
  BY <1>0, <1>1 DEF Armazem, F!Objetos
<1>7. Travados'
  <2>1. ASSUME NEW r \in Pedidos, F!Na(r, "gravar")'
        PROVE  trava' = r /\ arquivos'[pedido'[r].obj] = Nada
               /\ (pedido'[r].tipo = "entrega" => pedido'[r].anterior = Nada)
    <3>1. F!Na(r, "gravar") /\ pedido'[r] = pedido[r] /\ pedido[r] # Nada
      BY <2>1 DEF F!Na
    <3>2. pedido[r].obj \in F!Objetos
      BY <1>0, <3>1, Pedida
    <3> QED BY <1>0, <1>1, <1>2, <3>1, <3>2 DEF Travados, Tabelas
  <2>2. worker # Nada /\ worker.fase # "conferir" => worker.arq # a
    BY DEF F!EmUso
  <2> QED BY <1>0, <1>3, <2>1, <2>2 DEF Travados
<1>8. Novos'
  <2>1. \A b \in F!Vivos' : F!Referencias(b)' = F!Referencias(b)
    <3>1. \A b \in F!Vivos' : b \in F!Vivos /\ b \in F!Objetos /\ b # a
      BY <1>3 DEF F!Vivos
    <3> QED BY <1>0, <1>3, <1>4, <1>5, <3>1, MesmosNomes
  <2> QED BY <1>0, <1>3, <2>1 DEF Novos, Seguem
<1>9. Encolhe
  <2>1. \A b \in F!Vivos' : b \in F!Vivos
    BY <1>3
  <2>2. \A b \in F!Previas : b \in F!Vivos
    BY DEF F!Previas
  <2> QED BY <1>3, <2>1, <2>2 DEF Encolhe
<1> QED BY <1>5, <1>6, <1>7, <1>8, <1>9 DEF Base

(* A delivery is no version of a preview. *)
LEMMA EntregaSolta ==
    ASSUME Base, F!HistoricoInteiro, NEW a \in entregas
    PROVE  a \in F!Vivos /\ ~(F!EmUso(a)) /\ \A b \in F!Vivos : arquivos[b].anterior # a
<1>1. a \in F!Vivos /\ a \notin F!Previas /\ a \in F!Objetos
  BY Linha DEF Base, Tabelas
<1>2. ~(F!EmUso(a))
  BY <1>1 DEF Base, Travados, F!EmUso
<1>3. \A b \in F!Vivos : arquivos[b].anterior # a
  BY <1>1, Numeros DEF F!HistoricoInteiro
<1> QED BY <1>1, <1>2, <1>3

LEMMA PassoApagarArquivo ==
    ASSUME Base, NEW a \in F!Vivos, F!ApagarArquivo(a)
    PROVE  Base' /\ Encolhe
<1>1. F!Apagar(a) /\ ~(F!EmUso(a)) /\ entregas' = entregas \ {a} /\ ~(F!Substituido(a))
  BY DEF F!ApagarArquivo, F!Apagavel
<1>2. \A b \in F!Vivos : arquivos[b].anterior # a
  BY <1>1 DEF F!Substituido
<1>3. UNCHANGED <<objeto, trava, worker, incertos, pedido>>
  BY DEF F!ApagarArquivo
<1>4. Atores'
  BY <1>3 DEF Base, Atores, F!PedidoTipo, F!WorkerTipo, F!Objetos, F!ObjetoOuNada
<1>5. \A r \in Pedidos : F!Na(r, "gravar")' => F!Na(r, "gravar")
  BY <1>3 DEF F!Na
<1>6. Seguem /\ \A r \in Pedidos : pedido'[r] = pedido[r]
  BY <1>3 DEF Seguem
<1> QED BY <1>1, <1>2, <1>3, <1>4, <1>5, <1>6, SemALinha

LEMMA PassoExcluirEntrega ==
    ASSUME Base, F!HistoricoInteiro, F!ExcluirEntrega
    PROVE  Base' /\ Encolhe
<1>1. PICK a \in entregas : F!Remove(a)
  BY DEF F!ExcluirEntrega
<1>2. F!Apagar(a) /\ entregas' = entregas \ {a} /\ a \in F!Vivos /\ ~(F!EmUso(a))
      /\ \A b \in F!Vivos : arquivos[b].anterior # a
  BY <1>1, EntregaSolta DEF F!Remove
<1>3. UNCHANGED <<objeto, trava, worker, incertos, pedido>>
  BY DEF F!ExcluirEntrega
<1>4. Atores'
  BY <1>3 DEF Base, Atores, F!PedidoTipo, F!WorkerTipo, F!Objetos, F!ObjetoOuNada
<1>5. \A r \in Pedidos : F!Na(r, "gravar")' => F!Na(r, "gravar")
  BY <1>3 DEF F!Na
<1>6. Seguem /\ \A r \in Pedidos : pedido'[r] = pedido[r]
  BY <1>3 DEF Seguem
<1> QED BY <1>2, <1>3, <1>4, <1>5, <1>6, SemALinha

(* The rows stay, and what the steps of the requests need of them. *)
LEMMA LinhasFicam ==
    ASSUME Base, UNCHANGED <<arquivos, jobs, entregas>>
    PROVE  /\ Tabelas' /\ F!Vivos' = F!Vivos /\ F!Previas' = F!Previas
           /\ \A a \in F!Vivos : F!Referencias(a)' = F!Referencias(a)
           /\ (\A r \in Pedidos : F!Na(r, "gravar")' => F!Na(r, "gravar") /\ pedido'[r] = pedido[r])
              => Encolhe
<1>1. F!Vivos' = F!Vivos /\ F!Previas' = F!Previas
  BY DEF F!Vivos, F!Previas, F!Objetos
<1>2. Tabelas'
  BY <1>1 DEF Base, Tabelas, F!LinhaTipo, F!JobTipo, F!ObjetoOuNada, F!Objetos
<1>3. \A a \in F!Vivos : F!Referencias(a)' = F!Referencias(a)
  BY DEF F!Referencias
<1> QED BY <1>1, <1>2, <1>3 DEF Encolhe, F!Previas

(* One request moves on: it is not about to save any more. *)
LEMMA PedidoAnda ==
    ASSUME Base, NEW r \in Pedidos, pedido[r] # Nada, NEW q \in F!PedidoTipo \cup {Nada},
           pedido' = [pedido EXCEPT ![r] = q],
           q # Nada => q.obj = pedido[r].obj /\ q.fase # "gravar"
    PROVE  /\ pedido' \in [Pedidos -> F!PedidoTipo \cup {Nada}]
           /\ \A s \in Pedidos : F!Na(s, "gravar")' => F!Na(s, "gravar") /\ pedido'[s] = pedido[s] /\ s # r
           /\ Seguem
<1>1. pedido \in [Pedidos -> F!PedidoTipo \cup {Nada}]
  BY DEF Base, Atores
<1>2. pedido'[r] = q /\ \A s \in Pedidos \ {r} : pedido'[s] = pedido[s]
  BY <1>1
<1>3. \A s \in Pedidos : F!Na(s, "gravar")' => s # r
  BY <1>2 DEF F!Na
<1> QED BY <1>1, <1>2, <1>3 DEF F!Na, Seguem

LEMMA SoOPedido ==
    ASSUME Base, NEW r \in Pedidos, pedido[r] # Nada, NEW q \in F!PedidoTipo \cup {Nada},
           pedido' = [pedido EXCEPT ![r] = q],
           q # Nada => q.obj = pedido[r].obj /\ q.fase # "gravar",
           UNCHANGED <<arquivos, jobs, entregas, objeto, worker, incertos>>, objetos' \subseteq objetos,
           trava' \in {trava, IF trava = r THEN Nada ELSE trava}
    PROVE  Base' /\ Encolhe
<1>0. Tabelas /\ Armazem /\ Atores /\ Travados /\ Novos
  BY DEF Base
<1>1. /\ Tabelas' /\ F!Vivos' = F!Vivos /\ F!Previas' = F!Previas
      /\ \A a \in F!Vivos : F!Referencias(a)' = F!Referencias(a)
  BY LinhasFicam
<1>2. /\ pedido' \in [Pedidos -> F!PedidoTipo \cup {Nada}]
      /\ \A s \in Pedidos : F!Na(s, "gravar")' => F!Na(s, "gravar") /\ pedido'[s] = pedido[s] /\ s # r
      /\ Seguem
  BY PedidoAnda
<1>3. Encolhe
  BY <1>2, LinhasFicam
<1>4. Armazem'
  BY <1>0 DEF Armazem, F!Objetos
<1>5. Atores'
  BY <1>0, <1>2 DEF Atores, F!PedidoTipo, F!WorkerTipo, F!Objetos, F!ObjetoOuNada
<1>6. Travados'
  <2>1. ASSUME NEW s \in Pedidos, F!Na(s, "gravar")'
        PROVE  trava' = s /\ arquivos'[pedido'[s].obj] = Nada
               /\ (pedido'[s].tipo = "entrega" => pedido'[s].anterior = Nada)
    BY <1>0, <1>2, <2>1 DEF Travados
  <2>2. trava = "worker" => trava' = "worker"
    BY PortalConstantes DEF PortalAssumption
  <2> QED BY <1>0, <1>1, <2>1, <2>2 DEF Travados
<1>7. Novos'
  BY <1>0, <1>1, <1>2 DEF Novos, Seguem
<1> QED BY <1>1, <1>3, <1>4, <1>5, <1>6, <1>7 DEF Base

LEMMA PassoNaoGravar ==
    ASSUME Base, NEW r \in Pedidos,
           F!NaoGravar(r) \/ F!Conferir(r) \/ F!Morrer(r) \/ F!NaoGravarLicenca(r)
    PROVE  Base' /\ Encolhe
<1> DEFINE q == [pedido[r] EXCEPT !.fase = "conferir"]
<1>1. pedido[r] # Nada
  BY DEF F!NaoGravar, F!Conferir, F!Morrer, F!NaoGravarLicenca, F!Na
<1>2. q \in F!PedidoTipo /\ q.obj = pedido[r].obj /\ q.fase = "conferir"
  BY <1>1, Pedida DEF Base, F!PedidoTipo
<1>3. UNCHANGED <<arquivos, jobs, entregas, objeto, worker, incertos>> /\ objetos' \subseteq objetos
  BY DEF F!NaoGravar, F!Conferir, F!Morrer, F!NaoGravarLicenca, F!Sobram
<1>4. trava' \in {trava, IF trava = r THEN Nada ELSE trava}
  BY DEF F!NaoGravar, F!Conferir, F!Morrer, F!NaoGravarLicenca, F!Solta
<1>5. pedido' = [pedido EXCEPT ![r] = q] \/ pedido' = [pedido EXCEPT ![r] = Nada]
  BY DEF F!NaoGravar, F!Conferir, F!Morrer, F!NaoGravarLicenca, Base, Atores
<1> HIDE DEF q
<1> QED BY <1>1, <1>2, <1>3, <1>4, <1>5, SoOPedido

LEMMA PassoListar ==
    ASSUME Base, NEW r \in Pedidos, F!Listar(r)
    PROVE  Base' /\ Encolhe
<1> DEFINE q == [pedido[r] EXCEPT !.fase = "substituir", !.lista = entregas \ {pedido[r].obj}]
<1>1. pedido[r] # Nada
  BY DEF F!Listar, F!Na
<1>2. entregas \subseteq F!Objetos
  BY DEF Base, Tabelas, F!Vivos
<1>3. q \in F!PedidoTipo /\ q.obj = pedido[r].obj /\ q.fase = "substituir"
  BY <1>1, <1>2, Pedida DEF Base, F!PedidoTipo
<1>4. pedido' = [pedido EXCEPT ![r] = q] \/ pedido' = [pedido EXCEPT ![r] = Nada]
  BY DEF F!Listar, Base, Atores
<1>5. UNCHANGED <<arquivos, jobs, entregas, objetos, objeto, worker, incertos, trava>>
  BY DEF F!Listar
<1> HIDE DEF q
<1> QED BY <1>1, <1>3, <1>4, <1>5, SoOPedido

LEMMA PassoReplace ==
    ASSUME Base, F!HistoricoInteiro, NEW r \in Pedidos, F!ReplacePrevious(r)
    PROVE  Base' /\ Encolhe
<1>1. pedido[r] # Nada /\ pedido[r].fase = "substituir" /\ UNCHANGED <<objeto, trava, worker, incertos>>
  BY DEF F!ReplacePrevious, F!Na
<1>2. CASE pedido[r].lista = {}
  BY <1>1, <1>2, SoOPedido DEF F!ReplacePrevious
<1>3. CASE pedido[r].lista # {}
  <2>1. PICK a \in pedido[r].lista :
            /\ pedido' = [pedido EXCEPT ![r].lista = @ \ {a}]
            /\ F!Remove(a) \/ UNCHANGED <<arquivos, jobs, entregas, objetos>>
    BY <1>3 DEF F!ReplacePrevious
  <2> DEFINE q == [pedido[r] EXCEPT !.lista = @ \ {a}]
  <2>2. q \in F!PedidoTipo /\ q.obj = pedido[r].obj /\ q.fase = "substituir"
    BY <1>1, Pedida DEF Base, F!PedidoTipo
  <2>3. pedido' = [pedido EXCEPT ![r] = q]
    BY <2>1 DEF Base, Atores
  <2> HIDE DEF q
  <2>4. CASE UNCHANGED <<arquivos, jobs, entregas, objetos>>
    BY <1>1, <2>2, <2>3, <2>4, SoOPedido
  <2>5. CASE F!Remove(a)
    <3>1. /\ F!Apagar(a) /\ entregas' = entregas \ {a} /\ a \in F!Vivos /\ ~(F!EmUso(a))
          /\ \A b \in F!Vivos : arquivos[b].anterior # a
      BY <2>5, EntregaSolta DEF F!Remove
    <3>2. /\ pedido' \in [Pedidos -> F!PedidoTipo \cup {Nada}]
          /\ \A s \in Pedidos : F!Na(s, "gravar")' => F!Na(s, "gravar") /\ pedido'[s] = pedido[s]
          /\ Seguem
      BY <1>1, <2>2, <2>3, PedidoAnda
    <3>3. Atores'
      BY <1>1, <3>2 DEF Base, Atores, F!PedidoTipo, F!WorkerTipo, F!Objetos, F!ObjetoOuNada
    <3> QED BY <1>1, <3>1, <3>2, <3>3, SemALinha
  <2> QED BY <2>1, <2>4, <2>5
<1> QED BY <1>2, <1>3

(* What the worker is left with after a step, and the lock. *)
WorkerCabe ==
    /\ trava' \in Pedidos \cup {"worker", Nada} /\ worker' \in F!WorkerTipo \cup {Nada}
    /\ \A r \in Pedidos : trava = r => trava' = r
    /\ worker' # Nada =>
           /\ worker'.obj < objeto' /\ worker'.arq < objeto'
           /\ worker'.tag # Nada => worker'.tag < objeto'
           /\ worker'.fase # "conferir" => worker'.arq \in F!Previas
           /\ worker'.fase = "comprimir" => trava' = "worker"

(* The rows stay, with other objects: those they named, or written already. *)
LEMMA MesmasLinhas ==
    ASSUME Base, Tabelas', Armazem', F!Vivos' = F!Vivos, F!Previas' = F!Previas,
           pedido' \in [Pedidos -> F!PedidoTipo \cup {Nada}],
           \A r \in Pedidos : pedido'[r] \in {pedido[r], Nada},
           \A a \in F!Vivos : /\ arquivos'[a].tipo = arquivos[a].tipo
                              /\ arquivos'[a].anterior = arquivos[a].anterior
                              /\ arquivos'[a].versao = arquivos[a].versao,
           \A a \in F!Vivos : \A x \in F!Referencias(a)' : x \in F!Referencias(a) \/ x < objeto',
           objeto <= objeto', WorkerCabe
    PROVE  Base' /\ Encolhe
<1>0. Tabelas /\ Armazem /\ Atores /\ Travados /\ Novos
  BY DEF Base
<1>1. Atores'
  BY <1>0 DEF Atores, WorkerCabe, F!PedidoTipo, F!WorkerTipo, F!Objetos, F!ObjetoOuNada
<1>2. \A r \in Pedidos : F!Na(r, "gravar")' => F!Na(r, "gravar") /\ pedido'[r] = pedido[r]
  BY DEF F!Na
<1>3. Travados'
  <2>1. ASSUME NEW r \in Pedidos, F!Na(r, "gravar") PROVE arquivos'[pedido[r].obj] = Nada
    <3>1. pedido[r].obj \in F!Objetos /\ pedido[r].obj \notin F!Vivos
      BY <1>0, <2>1, Pedida DEF Travados, F!Vivos, F!Na
    <3> QED BY <3>1 DEF F!Vivos, F!Objetos
  <2>2. \A r \in Pedidos : F!Na(r, "gravar")' =>
            /\ trava' = r /\ arquivos'[pedido'[r].obj] = Nada
            /\ pedido'[r].tipo = "entrega" => pedido'[r].anterior = Nada
    BY <1>0, <1>2, <2>1 DEF Travados, WorkerCabe
  <2>3. worker' # Nada => /\ worker'.fase # "conferir" => worker'.arq \in F!Previas'
                          /\ worker'.fase = "comprimir" => trava' = "worker"
    BY DEF WorkerCabe
  <2> QED BY <2>2, <2>3 DEF Travados
<1>4. Novos'
  <2>1. objeto \in Nat /\ objeto' \in Nat
    BY <1>0 DEF Armazem
  <2>2. \A a \in F!Vivos : a \in Nat /\ F!Referencias(a) \subseteq Nat
    BY <1>0, Linha, Nomes, Numeros
  <2>3. \A r \in Pedidos : pedido[r] # Nada => pedido[r].obj \in Nat
    BY <1>0, Pedida, Numeros
  <2>4. \A a \in F!Vivos' : a < objeto' /\ \A x \in F!Referencias(a)' : x < objeto'
    BY <1>0, <2>1, <2>2 DEF Novos
  <2>5. \A r \in Pedidos : pedido'[r] # Nada => pedido'[r].obj < objeto'
    BY <1>0, <2>1, <2>3 DEF Novos
  <2>6. worker' # Nada => /\ worker'.obj < objeto' /\ worker'.arq < objeto'
                          /\ worker'.tag # Nada => worker'.tag < objeto'
    BY DEF WorkerCabe
  <2> QED BY <2>4, <2>5, <2>6 DEF Novos
<1>5. Encolhe
  BY <1>2 DEF Encolhe, F!Previas
<1> QED BY <1>1, <1>3, <1>4, <1>5 DEF Base

LEMMA MesmosPedidos ==
    ASSUME Base, UNCHANGED pedido
    PROVE  /\ pedido' \in [Pedidos -> F!PedidoTipo \cup {Nada}]
           /\ \A r \in Pedidos : pedido'[r] \in {pedido[r], Nada}
BY DEF Base, Atores

(* One row is touched, and maybe its tag. *)
LEMMA LinhaTocada ==
    ASSUME Tabelas, NEW a \in F!Vivos, NEW n \in F!LinhaTipo,
           n.tipo = arquivos[a].tipo, n.anterior = arquivos[a].anterior, n.versao = arquivos[a].versao,
           arquivos' = [arquivos EXCEPT ![a] = n], UNCHANGED entregas,
           jobs' \in [F!Objetos -> F!JobTipo \cup {Nada}],
           \A b \in F!Objetos : jobs'[b] # Nada <=> jobs[b] # Nada
    PROVE  /\ Tabelas' /\ F!Vivos' = F!Vivos /\ F!Previas' = F!Previas
           /\ arquivos'[a] = n /\ \A b \in F!Vivos \ {a} : arquivos'[b] = arquivos[b]
           /\ \A b \in F!Vivos : /\ arquivos'[b].tipo = arquivos[b].tipo
                                 /\ arquivos'[b].anterior = arquivos[b].anterior
                                 /\ arquivos'[b].versao = arquivos[b].versao
<1>1. a \in F!Objetos /\ n # Nada
  BY Linha, Numeros
<1>2. arquivos'[a] = n /\ \A b \in F!Objetos \ {a} : arquivos'[b] = arquivos[b]
  BY <1>1 DEF Tabelas
<1>3. F!Vivos' = F!Vivos /\ F!Previas' = F!Previas
  BY <1>1, <1>2 DEF F!Vivos, F!Previas, F!Objetos
<1>4. arquivos' \in [F!Objetos -> F!LinhaTipo \cup {Nada}]
  BY <1>1 DEF Tabelas
<1>5. Tabelas'
  BY <1>3, <1>4 DEF Tabelas, F!LinhaTipo, F!JobTipo, F!ObjetoOuNada, F!Objetos
<1>6. \A b \in F!Vivos : b \in F!Objetos
  BY DEF F!Vivos
<1> QED BY <1>2, <1>3, <1>5, <1>6

LEMMA JobsTocados ==
    ASSUME Tabelas, jobs' \in [F!Objetos -> F!JobTipo \cup {Nada}],
           \A a \in F!Objetos : jobs'[a] # Nada <=> jobs[a] # Nada, UNCHANGED <<arquivos, entregas>>
    PROVE  Tabelas' /\ F!Vivos' = F!Vivos /\ F!Previas' = F!Previas
<1>1. F!Vivos' = F!Vivos /\ F!Previas' = F!Previas
  BY DEF F!Vivos, F!Previas, F!Objetos
<1> QED BY <1>1 DEF Tabelas, F!LinhaTipo, F!JobTipo, F!ObjetoOuNada, F!Objetos

LEMMA UmJob ==
    ASSUME Tabelas, NEW a \in F!Previas, NEW j \in F!JobTipo, jobs' = [jobs EXCEPT ![a] = j]
    PROVE  /\ jobs' \in [F!Objetos -> F!JobTipo \cup {Nada}]
           /\ \A b \in F!Objetos : jobs'[b] # Nada <=> jobs[b] # Nada
           /\ jobs'[a] = j /\ \A b \in F!Previas \ {a} : jobs'[b] = jobs[b]
<1>1. a \in F!Objetos /\ j # Nada /\ jobs[a] # Nada
  BY Job, Numeros
<1>2. jobs'[a] = j /\ \A b \in F!Objetos \ {a} : jobs'[b] = jobs[b]
  BY <1>1 DEF Tabelas
<1>3. jobs' \in [F!Objetos -> F!JobTipo \cup {Nada}]
  BY <1>1 DEF Tabelas
<1>4. \A b \in F!Previas : b \in F!Objetos
  BY Job
<1> QED BY <1>1, <1>2, <1>3, <1>4

LEMMA JobTocado ==
    ASSUME Tabelas, NEW a \in F!Previas, NEW j \in F!JobTipo, jobs' = [jobs EXCEPT ![a] = j],
           UNCHANGED <<arquivos, entregas>>
    PROVE  /\ Tabelas' /\ F!Vivos' = F!Vivos /\ F!Previas' = F!Previas
           /\ jobs'[a] = j /\ \A b \in F!Previas \ {a} : jobs'[b] = jobs[b]
BY UmJob, JobsTocados

LEMMA WorkerFica ==
    ASSUME Base, UNCHANGED <<objeto, trava, worker>>
    PROVE  WorkerCabe
BY DEF Base, Atores, Travados, Novos, WorkerCabe

LEMMA PassoAnexar ==
    ASSUME Base, NEW a \in F!Vivos, F!Anexar(a)
    PROVE  /\ Base' /\ Encolhe /\ F!Vivos' = F!Vivos /\ F!Previas' = F!Previas
           /\ \A b \in F!Vivos : F!Referencias(b)' = F!Referencias(b)
           /\ \A b \in F!Vivos : arquivos'[b].obj = arquivos[b].obj /\ arquivos'[b].licencas = arquivos[b].licencas
<1> DEFINE n == [arquivos[a] EXCEPT !.anexado = TRUE]
<1>0. Tabelas /\ Armazem /\ Atores /\ Travados /\ Novos
  BY DEF Base
<1>1. /\ n \in F!LinhaTipo /\ n.tipo = arquivos[a].tipo /\ n.anterior = arquivos[a].anterior
      /\ n.versao = arquivos[a].versao /\ n.obj = arquivos[a].obj /\ n.licencas = arquivos[a].licencas
  BY <1>0, Linha DEF F!LinhaTipo
<1>2. arquivos' = [arquivos EXCEPT ![a] = n]
  BY <1>0 DEF F!Anexar, Tabelas
<1>3. UNCHANGED <<jobs, entregas, objetos, objeto, pedido, trava, worker, incertos>>
  BY DEF F!Anexar
<1> HIDE DEF n
<1>4. /\ Tabelas' /\ F!Vivos' = F!Vivos /\ F!Previas' = F!Previas
      /\ arquivos'[a] = n /\ \A b \in F!Vivos \ {a} : arquivos'[b] = arquivos[b]
      /\ \A b \in F!Vivos : /\ arquivos'[b].tipo = arquivos[b].tipo
                            /\ arquivos'[b].anterior = arquivos[b].anterior
                            /\ arquivos'[b].versao = arquivos[b].versao
  <2>1. jobs' \in [F!Objetos -> F!JobTipo \cup {Nada}]
    BY <1>0, <1>3 DEF Tabelas
  <2> QED BY <1>0, <1>1, <1>2, <1>3, <2>1, LinhaTocada
<1>5. Armazem'
  BY <1>0, <1>3 DEF Armazem, F!Objetos
<1>6. \A b \in F!Vivos : arquivos'[b].obj = arquivos[b].obj /\ arquivos'[b].licencas = arquivos[b].licencas
  BY <1>1, <1>4
<1>7. \A b \in F!Vivos : F!Referencias(b)' = F!Referencias(b)
  BY <1>0, <1>3, <1>4, <1>6, MesmosNomes
<1>8. WorkerCabe
  BY <1>3, WorkerFica
<1>9. objeto <= objeto'
  BY <1>0, <1>3 DEF Armazem
<1>10. Base' /\ Encolhe
  BY <1>3, <1>4, <1>5, <1>7, <1>8, <1>9, MesmosPedidos, MesmasLinhas
<1> QED BY <1>4, <1>6, <1>7, <1>10

(* The rows are left alone, and the tags keep their objects. *)
LEMMA LinhasIguais ==
    ASSUME Base, Tabelas', Armazem', F!Vivos' = F!Vivos, F!Previas' = F!Previas,
           UNCHANGED <<arquivos, pedido>>, \A a \in F!Previas : jobs'[a].obj = jobs[a].obj,
           objeto <= objeto', WorkerCabe
    PROVE  /\ Base' /\ Encolhe
           /\ \A a \in F!Vivos : F!Referencias(a)' = F!Referencias(a)
<1>1. \A a \in F!Vivos : F!Referencias(a)' = F!Referencias(a)
  BY MesmosNomes DEF Base
<1>2. \A a \in F!Vivos : arquivos'[a] = arquivos[a]
  OBVIOUS
<1> QED BY <1>1, <1>2, MesmosPedidos, MesmasLinhas

LEMMA EmDuvidaTipo == ASSUME Atores, NEW as PROVE F!EmDuvida(as) \subseteq F!Objetos
BY Trabalhando DEF F!EmDuvida

LEMMA PassoEstado ==
    ASSUME Base, NEW a \in F!Vivos, F!TagErro(a) \/ F!RegenerarPrevia(a)
    PROVE  /\ Base' /\ Encolhe /\ F!Vivos' = F!Vivos /\ F!Previas' = F!Previas
           /\ \A b \in F!Vivos : F!Referencias(b)' = F!Referencias(b)
           /\ \A b \in F!Previas : jobs'[b].obj = jobs[b].obj
           /\ \A b \in F!Previas : jobs'[b].estado = jobs[b].estado \/ F!EmDuvida({b}) \subseteq incertos'
           /\ incertos \subseteq incertos'
<1>0. Tabelas /\ Armazem /\ Atores
  BY DEF Base
<1>1. a \in F!Previas /\ UNCHANGED <<arquivos, entregas, objetos, objeto, pedido, trava, worker>>
  BY DEF F!TagErro, F!RegenerarPrevia, F!Pendentes
<1>2. PICK j \in F!JobTipo : jobs' = [jobs EXCEPT ![a] = j] /\ j.obj = jobs[a].obj
  <2>1. jobs[a] \in F!JobTipo
    BY <1>0, <1>1, Job
  <2>2. CASE F!TagErro(a)
    <3> DEFINE j == [jobs[a] EXCEPT !.estado = "erro"]
    <3>1. j \in F!JobTipo /\ j.obj = jobs[a].obj
      BY <2>1 DEF F!JobTipo
    <3>2. jobs' = [jobs EXCEPT ![a] = j]
      BY <2>2 DEF F!TagErro
    <3> HIDE DEF j
    <3> QED BY <3>1, <3>2
  <2>3. CASE F!RegenerarPrevia(a)
    <3> DEFINE j == [jobs[a] EXCEPT !.estado = "pendente", !.lote = FALSE]
    <3>1. j \in F!JobTipo /\ j.obj = jobs[a].obj
      BY <2>1 DEF F!JobTipo
    <3>2. jobs' = [jobs EXCEPT ![a] = j]
      BY <1>0, <2>3 DEF F!RegenerarPrevia, Tabelas
    <3> HIDE DEF j
    <3> QED BY <3>1, <3>2
  <2> QED BY <2>2, <2>3
<1>3. /\ Tabelas' /\ F!Vivos' = F!Vivos /\ F!Previas' = F!Previas
      /\ jobs'[a] = j /\ \A b \in F!Previas \ {a} : jobs'[b] = jobs[b]
  BY <1>0, <1>1, <1>2, JobTocado
<1>4. incertos \subseteq incertos' /\ incertos' \subseteq incertos \cup F!EmDuvida({a})
      /\ F!EmDuvida({a}) \subseteq incertos'
  BY DEF F!TagErro, F!RegenerarPrevia, F!EmDuvida
<1>5. Armazem'
  BY <1>0, <1>1, <1>4, EmDuvidaTipo DEF Armazem, F!Objetos
<1>6. \A b \in F!Previas : jobs'[b].obj = jobs[b].obj
  BY <1>2, <1>3
<1>7. objeto <= objeto' /\ WorkerCabe
  BY <1>0, <1>1, WorkerFica DEF Armazem
<1>8. Base' /\ Encolhe /\ \A b \in F!Vivos : F!Referencias(b)' = F!Referencias(b)
  BY <1>1, <1>3, <1>5, <1>6, <1>7, LinhasIguais
<1>9. \A b \in F!Previas : jobs'[b].estado = jobs[b].estado \/ F!EmDuvida({b}) \subseteq incertos'
  BY <1>3, <1>4
<1> QED BY <1>3, <1>4, <1>6, <1>8, <1>9

LEMMA PassoLote ==
    ASSUME Base, F!IniciarLote
    PROVE  /\ Base' /\ Encolhe /\ F!Vivos' = F!Vivos /\ F!Previas' = F!Previas
           /\ \A b \in F!Vivos : F!Referencias(b)' = F!Referencias(b)
           /\ \A b \in F!Previas : jobs'[b].obj = jobs[b].obj
           /\ \A b \in F!Previas : jobs'[b].estado = jobs[b].estado \/ F!EmDuvida({b}) \subseteq incertos'
           /\ incertos \subseteq incertos'
<1> DEFINE js == {a \in F!Previas \ F!Pendentes : ~(F!Ocupado(a))}
           novo(a) == [jobs[a] EXCEPT !.estado = "pendente", !.lote = TRUE]
           fora(a) == [jobs[a] EXCEPT !.lote = FALSE]
<1>0. Tabelas /\ Armazem /\ Atores
  BY DEF Base
<1>1. /\ UNCHANGED <<arquivos, entregas, objetos, objeto, pedido, trava, worker>>
      /\ incertos' = incertos \cup F!EmDuvida(js)
      /\ jobs' = [a \in F!Objetos |-> IF a \in js THEN novo(a) ELSE IF jobs[a] = Nada THEN Nada ELSE fora(a)]
  BY DEF F!IniciarLote
<1>2. \A a \in F!Objetos : jobs[a] # Nada =>
          /\ novo(a) \in F!JobTipo /\ novo(a).obj = jobs[a].obj
          /\ fora(a) \in F!JobTipo /\ fora(a).obj = jobs[a].obj /\ fora(a).estado = jobs[a].estado
  <2> SUFFICES ASSUME NEW a \in F!Objetos, jobs[a] # Nada
               PROVE  /\ novo(a) \in F!JobTipo /\ novo(a).obj = jobs[a].obj
                      /\ fora(a) \in F!JobTipo /\ fora(a).obj = jobs[a].obj
                      /\ fora(a).estado = jobs[a].estado
    OBVIOUS
  <2>1. jobs[a] \in F!JobTipo
    BY <1>0 DEF Tabelas
  <2> QED BY <2>1 DEF F!JobTipo
<1>3. \A a \in F!Previas : a \in F!Objetos /\ jobs[a] # Nada
  BY <1>0, Job
<1>4. js \subseteq F!Previas
  OBVIOUS
<1>5. \A a \in F!Previas : (jobs'[a] = novo(a) /\ a \in js) \/ (jobs'[a] = fora(a) /\ a \notin js)
  BY <1>1, <1>3
<1> HIDE DEF js, novo, fora
<1>6. jobs' \in [F!Objetos -> F!JobTipo \cup {Nada}] /\ \A a \in F!Objetos : jobs'[a] # Nada <=> jobs[a] # Nada
  <2>1. \A a \in F!Objetos : /\ jobs[a] # Nada => jobs'[a] \in F!JobTipo
                             /\ jobs[a] = Nada => jobs'[a] = Nada
    BY <1>1, <1>2, <1>3, <1>4
  <2> QED BY <1>1, <2>1, Numeros
<1>7. Tabelas' /\ F!Vivos' = F!Vivos /\ F!Previas' = F!Previas
  BY <1>0, <1>1, <1>6, JobsTocados
<1>8. \A b \in F!Previas : jobs'[b].obj = jobs[b].obj
  BY <1>2, <1>3, <1>5
<1>9. \A b \in F!Previas : jobs'[b].estado = jobs[b].estado \/ F!EmDuvida({b}) \subseteq incertos'
  BY <1>1, <1>2, <1>3, <1>5 DEF F!EmDuvida
<1>10. Armazem'
  <2>1. F!EmDuvida(js) \subseteq F!Objetos
    BY <1>0, EmDuvidaTipo
  <2> QED BY <1>0, <1>1, <2>1 DEF Armazem, F!Objetos
<1>11. objeto <= objeto' /\ WorkerCabe
  BY <1>0, <1>1, WorkerFica DEF Armazem
<1>12. Base' /\ Encolhe /\ \A b \in F!Vivos : F!Referencias(b)' = F!Referencias(b)
  BY <1>1, <1>7, <1>8, <1>10, <1>11, LinhasIguais
<1> QED BY <1>1, <1>7, <1>8, <1>9, <1>12

(* The worker takes a preview to tag, with the next object. *)
LEMMA PassoTagSalvar ==
    ASSUME Base, NEW a \in F!Vivos, F!TagSalvar(a)
    PROVE  /\ Base' /\ Encolhe /\ F!Vivos' = F!Vivos /\ F!Previas' = F!Previas
           /\ \A b \in F!Vivos : F!Referencias(b)' = F!Referencias(b)
           /\ worker' # Nada /\ worker'.obj = objeto /\ worker'.arq = a /\ worker'.fase = "tag"
<1> DEFINE w == [fase |-> "tag", arq |-> a, obj |-> objeto, tag |-> Nada]
<1>0. Tabelas /\ Armazem /\ Atores /\ Novos
  BY DEF Base
<1>1. /\ UNCHANGED <<arquivos, jobs, entregas, pedido, trava, incertos>> /\ a \in F!Previas
      /\ objeto < MaxObjetos /\ objeto' = objeto + 1 /\ objetos' = objetos \cup {objeto}
      /\ worker' = w
  BY DEF F!TagSalvar, F!Pendentes
<1>2. /\ objeto \in F!Objetos /\ objeto \in Nat /\ a \in F!Objetos /\ a \in Nat
      /\ objeto + 1 \in 0..MaxObjetos /\ objeto <= objeto'
  BY <1>0, <1>1, Linha, Numeros, PortalConstantes DEF Armazem, F!Objetos, PortalAssumption
<1>3. w \in F!WorkerTipo /\ w # Nada /\ w.obj = objeto /\ w.arq = a /\ w.fase = "tag" /\ w.tag = Nada
  BY <1>2, Numeros DEF F!WorkerTipo, F!ObjetoOuNada
<1> HIDE DEF w
<1>4. /\ Tabelas' /\ F!Vivos' = F!Vivos /\ F!Previas' = F!Previas
      /\ \A b \in F!Vivos : F!Referencias(b)' = F!Referencias(b)
  BY <1>1, LinhasFicam
<1>5. Armazem'
  <2>1. objetos \cup {objeto} \subseteq F!Objetos
    BY <1>0, <1>2 DEF Armazem
  <2> QED BY <1>0, <1>1, <1>2, <2>1 DEF Armazem, F!Objetos
<1>6. a < objeto'
  BY <1>0, <1>1, <1>2 DEF Novos
<1>7. WorkerCabe
  BY <1>0, <1>1, <1>2, <1>3, <1>6 DEF Atores, WorkerCabe
<1>8. \A b \in F!Previas : jobs'[b] = jobs[b]
  BY <1>1
<1>9. Base' /\ Encolhe
  BY <1>1, <1>2, <1>4, <1>5, <1>7, <1>8, LinhasIguais
<1> QED BY <1>1, <1>3, <1>4, <1>9

(* It takes one to compress, with the next objects: as many as came out     *)
(* smaller.                                                                 *)
LEMMA PassoComprimirSalvar ==
    ASSUME Base, NEW a \in F!Vivos, NEW menor \in BOOLEAN, NEW tagMenor \in BOOLEAN,
           F!ComprimirSalvar(a, menor, tagMenor)
    PROVE  /\ Base' /\ Encolhe /\ F!Vivos' = F!Vivos /\ F!Previas' = F!Previas
           /\ \A b \in F!Vivos : F!Referencias(b)' = F!Referencias(b)
           /\ a \in F!Previas /\ objetos \subseteq objetos'
           /\ worker' # Nada /\ worker'.arq = a /\ worker'.fase = "comprimir"
           /\ worker'.obj = arquivos[a].obj \/ (worker'.obj = objeto /\ objeto \in objetos')
           /\ \/ worker'.tag = jobs[a].obj
              \/ worker'.tag \in objetos' /\ worker'.tag >= objeto /\ worker'.tag # worker'.obj
<1> DEFINE doTag == objeto + (IF menor THEN 1 ELSE 0)
           ultimo == doTag + (IF tagMenor THEN 1 ELSE 0)
           o == IF menor THEN objeto ELSE arquivos[a].obj
           t == IF tagMenor THEN doTag ELSE jobs[a].obj
           w == [fase |-> "comprimir", arq |-> a, obj |-> o, tag |-> t]
<1>0. Tabelas /\ Armazem /\ Atores /\ Novos
  BY DEF Base
<1>1. /\ UNCHANGED <<arquivos, jobs, entregas, pedido, incertos>> /\ a \in F!Previas
      /\ trava = Nada /\ trava' = "worker" /\ ultimo <= MaxObjetos /\ objeto' = ultimo
      /\ objetos' = objetos \cup (objeto..(ultimo - 1)) /\ worker' = w
  BY DEF F!ComprimirSalvar
<1>2. /\ objeto \in Nat /\ a \in F!Objetos /\ a \in Nat /\ a < objeto /\ MaxObjetos \in Nat
      /\ arquivos[a].obj \in F!Objetos /\ arquivos[a].obj \in Nat /\ arquivos[a].obj < objeto
      /\ jobs[a].obj \in F!ObjetoOuNada
  <2>1. arquivos[a].obj \in F!Referencias(a)
    BY <1>0, Nomes
  <2>2. a \in F!Objetos /\ arquivos[a].obj \in F!Objetos /\ jobs[a].obj \in F!ObjetoOuNada
    BY <1>0, <1>1, Linha, Job
  <2>3. a < objeto /\ arquivos[a].obj < objeto
    BY <1>0, <2>1 DEF Novos
  <2>4. objeto \in Nat /\ MaxObjetos \in Nat
    BY <1>0, PortalConstantes DEF Armazem, PortalAssumption
  <2> QED BY <2>2, <2>3, <2>4, Numeros
<1>3. jobs[a].obj # Nada => jobs[a].obj \in Nat /\ jobs[a].obj < objeto
  <2>1. jobs[a].obj # Nada => jobs[a].obj \in F!Referencias(a)
    BY <1>0, <1>1, Nomes
  <2> QED BY <1>0, <1>2, <2>1, Numeros DEF Novos, F!ObjetoOuNada
<1>4. doTag \in Nat /\ ultimo \in Nat /\ objeto <= doTag /\ doTag <= ultimo /\ objeto <= ultimo
      /\ (menor => objeto < doTag) /\ (tagMenor => doTag < ultimo)
  BY <1>2
<1>5. objeto..(ultimo - 1) \subseteq F!Objetos /\ ultimo \in 0..MaxObjetos
  BY <1>1, <1>2, <1>4 DEF F!Objetos
<1>6. /\ menor => objeto \in objeto..(ultimo - 1)
      /\ tagMenor => doTag \in objeto..(ultimo - 1)
  BY <1>2, <1>4
<1> HIDE DEF doTag, ultimo
<1>7. /\ o \in F!Objetos /\ o < objeto'
      /\ o = arquivos[a].obj \/ (o = objeto /\ objeto \in objetos')
  BY <1>1, <1>2, <1>4, <1>5, <1>6
<1>8. /\ t \in F!ObjetoOuNada /\ (t # Nada => t < objeto')
      /\ t = jobs[a].obj \/ (t \in objetos' /\ t >= objeto /\ t # o)
  BY <1>1, <1>2, <1>3, <1>4, <1>5, <1>6 DEF F!ObjetoOuNada
<1> HIDE DEF o, t
<1>9. w \in F!WorkerTipo /\ w # Nada /\ w.obj = o /\ w.tag = t /\ w.arq = a /\ w.fase = "comprimir"
  BY <1>2, <1>7, <1>8, Numeros DEF F!WorkerTipo
<1> HIDE DEF w
<1>10. /\ Tabelas' /\ F!Vivos' = F!Vivos /\ F!Previas' = F!Previas
       /\ \A b \in F!Vivos : F!Referencias(b)' = F!Referencias(b)
  BY <1>1, LinhasFicam
<1>11. Armazem'
  <2>1. objetos \cup (objeto..(ultimo - 1)) \subseteq F!Objetos
    BY <1>0, <1>5 DEF Armazem
  <2> QED BY <1>0, <1>1, <1>5, <2>1 DEF Armazem, F!Objetos
<1>12. WorkerCabe
  BY <1>1, <1>2, <1>4, <1>7, <1>8, <1>9, PortalConstantes DEF WorkerCabe, PortalAssumption
<1>13. \A b \in F!Previas : jobs'[b] = jobs[b]
  BY <1>1
<1>14. Base' /\ Encolhe
  BY <1>1, <1>4, <1>10, <1>11, <1>12, <1>13, LinhasIguais
<1> QED BY <1>1, <1>7, <1>8, <1>9, <1>10, <1>14

(* The worker lets go, of a preview and maybe of the production. *)
LEMMA WorkerSolta ==
    ASSUME Base, worker' = Nada, Tabelas', F!Vivos' = F!Vivos, F!Previas' = F!Previas,
           UNCHANGED <<pedido, objeto>>,
           trava' = trava \/ (trava' = Nada /\ (trava = "worker" \/ trava = Nada)),
           \A a \in F!Vivos : /\ arquivos'[a].tipo = arquivos[a].tipo
                              /\ arquivos'[a].anterior = arquivos[a].anterior
                              /\ arquivos'[a].versao = arquivos[a].versao,
           \A a \in F!Vivos : \A x \in F!Referencias(a)' : x \in F!Referencias(a) \/ x < objeto,
           objetos' \subseteq objetos, incertos' \subseteq F!Objetos
    PROVE  Base' /\ Encolhe
<1>1. Armazem' /\ objeto <= objeto'
  BY DEF Base, Armazem, F!Objetos
<1>2. WorkerCabe
  BY PortalConstantes DEF Base, Atores, PortalAssumption, WorkerCabe
<1> QED BY <1>1, <1>2, MesmosPedidos, MesmasLinhas

LEMMA PassoLargar ==
    ASSUME Base, F!Reiniciar \/ F!TagConfirmar
    PROVE  /\ Base' /\ Encolhe /\ F!Vivos' = F!Vivos /\ F!Previas' = F!Previas
           /\ \A a \in F!Vivos : F!Referencias(a)' = F!Referencias(a)
<1>1. /\ UNCHANGED <<arquivos, jobs, entregas, objetos, objeto, pedido, incertos>> /\ worker' = Nada
      /\ trava' = trava \/ (trava' = Nada /\ trava = "worker")
  BY DEF F!Reiniciar, F!TagConfirmar
<1>2. /\ Tabelas' /\ F!Vivos' = F!Vivos /\ F!Previas' = F!Previas
      /\ \A a \in F!Vivos : F!Referencias(a)' = F!Referencias(a)
  BY <1>1, LinhasFicam
<1>3. incertos' \subseteq F!Objetos
  BY <1>1 DEF Base, Armazem
<1>4. \A a \in F!Vivos : arquivos'[a] = arquivos[a]
  BY <1>1
<1> QED BY <1>1, <1>2, <1>3, <1>4, WorkerSolta

LEMMA PassoTagGravar ==
    ASSUME Base, F!TagGravar, NEW a, a = worker.arq
    PROVE  /\ Base' /\ Encolhe /\ F!Vivos' = F!Vivos /\ F!Previas' = F!Previas
           /\ a \in F!Previas
           /\ jobs'[a].obj = worker.obj /\ jobs'[a].estado = "pronto"
           /\ \A b \in F!Vivos \ {a} : F!Referencias(b)' = F!Referencias(b)
           /\ F!Referencias(a)' = {arquivos[a].obj, worker.obj} \cup arquivos[a].licencas
<1> DEFINE j == [jobs[a] EXCEPT !.estado = "pronto", !.obj = worker.obj]
           w == [worker EXCEPT !.fase = "conferir"]
<1>0. Tabelas /\ Armazem /\ Atores /\ Travados /\ Novos
  BY DEF Base
<1>1. /\ worker # Nada /\ worker.fase = "tag"
      /\ UNCHANGED <<arquivos, entregas, objeto, pedido, trava, incertos>> /\ objetos' \subseteq objetos
      /\ worker' = Nada \/ worker' = w
  BY DEF F!TagGravar
<1>2. a \in F!Previas /\ a \in F!Vivos
  BY <1>0, <1>1, Job DEF Travados
<1>3. worker.obj \in F!Objetos /\ worker \in F!WorkerTipo /\ worker.obj # Nada
  BY <1>0, <1>1, Trabalhando, Numeros
<1>4. j \in F!JobTipo /\ j.obj = worker.obj /\ j.estado = "pronto"
  BY <1>0, <1>2, <1>3, Job DEF F!JobTipo, F!ObjetoOuNada
<1>5. jobs' = [jobs EXCEPT ![a] = j]
  BY <1>0, <1>2, Job DEF F!TagGravar, Tabelas
<1>6. w \in F!WorkerTipo /\ w.obj = worker.obj /\ w.arq = a /\ w.fase = "conferir" /\ w.tag = worker.tag
  BY <1>3 DEF F!WorkerTipo
<1> HIDE DEF j, w
<1>7. /\ Tabelas' /\ F!Vivos' = F!Vivos /\ F!Previas' = F!Previas
      /\ jobs'[a] = j /\ \A b \in F!Previas \ {a} : jobs'[b] = jobs[b]
  BY <1>0, <1>1, <1>2, <1>4, <1>5, JobTocado
<1>8. Armazem' /\ objeto <= objeto'
  BY <1>0, <1>1 DEF Armazem, F!Objetos
<1>9. \A b \in F!Vivos \ {a} : F!Referencias(b)' = F!Referencias(b)
  BY <1>0, <1>1, <1>7, MesmosNomes
<1>10. F!Referencias(a)' = {arquivos[a].obj, worker.obj} \cup arquivos[a].licencas
  BY <1>1, <1>2, <1>3, <1>4, <1>7, NomesDepois
<1>11. \A b \in F!Vivos : \A x \in F!Referencias(b)' : x \in F!Referencias(b) \/ x < objeto'
  BY <1>0, <1>1, <1>2, <1>9, <1>10, Nomes DEF Novos
<1>12. WorkerCabe
  BY <1>0, <1>1, <1>6 DEF WorkerCabe, Novos, Atores
<1>13. \A b \in F!Vivos : arquivos'[b] = arquivos[b]
  BY <1>1
<1>14. Base' /\ Encolhe
  BY <1>1, <1>7, <1>8, <1>11, <1>12, <1>13, MesmosPedidos, MesmasLinhas
<1> QED BY <1>2, <1>4, <1>7, <1>9, <1>10, <1>14

LEMMA PassoTagFalhar ==
    ASSUME Base, F!TagFalhar
    PROVE  /\ Base' /\ Encolhe /\ F!Vivos' = F!Vivos /\ F!Previas' = F!Previas
           /\ \A b \in F!Vivos : F!Referencias(b)' = F!Referencias(b)
<1> DEFINE a == worker.arq
           j == [jobs[a] EXCEPT !.estado = "erro"]
<1>0. Tabelas /\ Armazem
  BY DEF Base
<1>1. /\ UNCHANGED <<arquivos, entregas, objeto, pedido, trava, incertos>> /\ objetos' \subseteq objetos
      /\ worker' = Nada
  BY DEF F!TagFalhar
<1>2. /\ Tabelas' /\ F!Vivos' = F!Vivos /\ F!Previas' = F!Previas
      /\ \A b \in F!Previas : jobs'[b].obj = jobs[b].obj
  <2>1. CASE a \in F!Pendentes
    <3>1. a \in F!Previas
      BY <2>1 DEF F!Pendentes
    <3>2. j \in F!JobTipo /\ j.obj = jobs[a].obj
      BY <1>0, <3>1, Job DEF F!JobTipo
    <3>3. jobs' = [jobs EXCEPT ![a] = j]
      BY <2>1 DEF F!TagFalhar
    <3> HIDE DEF a, j
    <3> QED BY <1>0, <1>1, <3>1, <3>2, <3>3, JobTocado
  <2>2. CASE a \notin F!Pendentes
    <3>1. jobs' = jobs
      BY <2>2 DEF F!TagFalhar
    <3> QED BY <1>1, <3>1, LinhasFicam
  <2> QED BY <2>1, <2>2
<1>3. incertos' \subseteq F!Objetos
  BY <1>0, <1>1 DEF Armazem
<1>4. \A b \in F!Vivos : arquivos'[b] = arquivos[b]
  BY <1>1
<1>5. \A b \in F!Vivos : F!Referencias(b)' = F!Referencias(b)
  BY <1>0, <1>2, <1>4, MesmosNomes
<1>6. Base' /\ Encolhe
  BY <1>1, <1>2, <1>3, <1>4, <1>5, WorkerSolta
<1> QED BY <1>2, <1>5, <1>6

(* What came out smaller takes the place of what it was made of, or the row *)
(* stays with what it named; an answer lost removes what was put there.     *)
LEMMA PassoComprimir ==
    ASSUME Base, F!ComprimirGravar, NEW a, a = worker.arq
    PROVE  /\ Base' /\ Encolhe /\ F!Vivos' = F!Vivos /\ F!Previas' = F!Previas
           /\ a \in F!Previas /\ worker' = Nada
           /\ \A b \in F!Vivos \ {a} : F!Referencias(b)' = F!Referencias(b) /\ arquivos'[b].obj = arquivos[b].obj
           /\ arquivos'[a].licencas = arquivos[a].licencas
           /\ \/ /\ arquivos'[a].obj = worker.obj /\ jobs'[a].obj = worker.tag
                 /\ F!Referencias(a)' = F!Destino \cup arquivos[a].licencas
                 /\ \/ objetos \ F!Antigos \subseteq objetos' /\ incertos' = incertos
                    \/ objetos \ F!Novos \subseteq objetos' /\ incertos' = incertos \cup (F!Novos \ objetos')
              \/ /\ arquivos'[a].obj = arquivos[a].obj /\ jobs'[a].obj = jobs[a].obj
                 /\ F!Referencias(a)' = F!Referencias(a)
                 /\ objetos \ F!Novos \subseteq objetos' /\ incertos' = incertos
<1> DEFINE n(o, c) == [arquivos[a] EXCEPT !.obj = o, !.comprimido = c]
           j(t) == [jobs[a] EXCEPT !.obj = t]
<1>0. Tabelas /\ Armazem /\ Atores /\ Travados /\ Novos
  BY DEF Base
<1>1. /\ worker # Nada /\ worker.fase = "comprimir" /\ worker' = Nada /\ trava' = Nada
      /\ UNCHANGED <<entregas, objeto, pedido>>
  BY DEF F!ComprimirGravar
<1>2. a \in F!Previas /\ trava = "worker"
  BY <1>0, <1>1 DEF Travados
<1>3. /\ a \in F!Vivos /\ a \in F!Objetos /\ worker.obj \in F!Objetos /\ worker.tag \in F!ObjetoOuNada
      /\ worker.obj # Nada /\ worker.obj < objeto /\ (worker.tag # Nada => worker.tag < objeto)
  BY <1>0, <1>1, <1>2, Job, Trabalhando, Numeros DEF Novos
<1>4. \A o \in F!Objetos, c \in BOOLEAN :
          /\ n(o, c) \in F!LinhaTipo /\ n(o, c).obj = o /\ n(o, c).tipo = arquivos[a].tipo
          /\ n(o, c).anterior = arquivos[a].anterior /\ n(o, c).versao = arquivos[a].versao
          /\ n(o, c).licencas = arquivos[a].licencas
  BY <1>0, <1>3, Linha DEF F!LinhaTipo
<1>5. \A t \in F!ObjetoOuNada : j(t) \in F!JobTipo /\ j(t).obj = t
  BY <1>0, <1>2, Job DEF F!JobTipo
<1>6. arquivos[a].obj \in F!Objetos /\ jobs[a].obj \in F!ObjetoOuNada /\ arquivos[a].comprimido \in BOOLEAN
  <2>1. arquivos[a] \in F!LinhaTipo
    BY <1>0, <1>3, Linha
  <2> QED BY <1>0, <1>2, <1>3, <2>1, Linha, Job DEF F!LinhaTipo
<1>7. PICK o \in F!Objetos, c \in BOOLEAN, t \in F!ObjetoOuNada :
          /\ arquivos' = [arquivos EXCEPT ![a] = n(o, c)] /\ jobs' = [jobs EXCEPT ![a] = j(t)]
          /\ objetos' \subseteq objetos
          /\ \/ /\ o = worker.obj /\ t = worker.tag
                /\ \/ objetos \ F!Antigos \subseteq objetos' /\ incertos' = incertos
                   \/ objetos \ F!Novos \subseteq objetos' /\ incertos' = incertos \cup (F!Novos \ objetos')
             \/ /\ o = arquivos[a].obj /\ t = jobs[a].obj
                /\ objetos \ F!Novos \subseteq objetos' /\ incertos' = incertos
  <2>1. F!Comprimir => /\ arquivos' = [arquivos EXCEPT ![a] = n(worker.obj, TRUE)]
                       /\ jobs' = [jobs EXCEPT ![a] = j(worker.tag)]
    BY <1>0, <1>3 DEF F!Comprimir, Tabelas
  <2>2. arquivos = [arquivos EXCEPT ![a] = n(arquivos[a].obj, arquivos[a].comprimido)]
    <3>1. arquivos[a] = n(arquivos[a].obj, arquivos[a].comprimido)
      BY <1>0, <1>3, Linha DEF F!LinhaTipo
    <3> HIDE DEF n
    <3> QED BY <1>0, <3>1 DEF Tabelas
  <2>3. [arquivos EXCEPT ![a].comprimido = TRUE] = [arquivos EXCEPT ![a] = n(arquivos[a].obj, TRUE)]
    <3>1. [arquivos[a] EXCEPT !.comprimido = TRUE] = n(arquivos[a].obj, TRUE)
      BY <1>0, <1>3, Linha DEF F!LinhaTipo
    <3> HIDE DEF n
    <3> QED BY <1>0, <1>3, <3>1 DEF Tabelas
  <2>4. jobs = [jobs EXCEPT ![a] = j(jobs[a].obj)]
    <3>1. jobs[a] = j(jobs[a].obj)
      BY <1>0, <1>2, Job DEF F!JobTipo
    <3> HIDE DEF j
    <3> QED BY <1>0, <3>1 DEF Tabelas
  <2> HIDE DEF n, j
  <2>5. CASE F!Comprimir /\ F!Sobram(F!Antigos) /\ UNCHANGED incertos
    BY <1>3, <2>1, <2>5 DEF F!Sobram
  <2>6. CASE F!Comprimir /\ F!Sobram(F!Novos) /\ incertos' = incertos \cup (F!Novos \ objetos')
    <3>1. objetos' \subseteq objetos /\ objetos \ F!Novos \subseteq objetos'
      BY <2>6 DEF F!Sobram
    <3> QED BY <1>3, <2>1, <2>6, <3>1
  <2>7. CASE /\ arquivos' \in {arquivos, [arquivos EXCEPT ![a].comprimido = TRUE]}
             /\ F!Sobram(F!Novos)
             /\ UNCHANGED <<jobs, incertos>>
    <3>1. objetos' \subseteq objetos /\ objetos \ F!Novos \subseteq objetos'
      BY <2>7 DEF F!Sobram
    <3> QED BY <1>6, <2>2, <2>3, <2>4, <2>7, <3>1
  <2> QED BY <2>5, <2>6, <2>7 DEF F!ComprimirGravar
<1>8. n(o, c) \in F!LinhaTipo /\ j(t) \in F!JobTipo /\ j(t).obj = t /\ n(o, c).obj = o
      /\ n(o, c).tipo = arquivos[a].tipo /\ n(o, c).licencas = arquivos[a].licencas
      /\ n(o, c).anterior = arquivos[a].anterior /\ n(o, c).versao = arquivos[a].versao
  BY <1>4, <1>5
<1> HIDE DEF n, j
<1>9. /\ jobs' \in [F!Objetos -> F!JobTipo \cup {Nada}]
      /\ \A b \in F!Objetos : jobs'[b] # Nada <=> jobs[b] # Nada
      /\ jobs'[a] = j(t) /\ \A b \in F!Previas \ {a} : jobs'[b] = jobs[b]
  BY <1>0, <1>2, <1>7, <1>8, UmJob
<1>10. /\ Tabelas' /\ F!Vivos' = F!Vivos /\ F!Previas' = F!Previas
       /\ arquivos'[a] = n(o, c) /\ \A b \in F!Vivos \ {a} : arquivos'[b] = arquivos[b]
       /\ \A b \in F!Vivos : /\ arquivos'[b].tipo = arquivos[b].tipo
                             /\ arquivos'[b].anterior = arquivos[b].anterior
                             /\ arquivos'[b].versao = arquivos[b].versao
  BY <1>0, <1>1, <1>3, <1>7, <1>8, <1>9, LinhaTocada
<1>11. \A b \in F!Vivos \ {a} : F!Referencias(b)' = F!Referencias(b) /\ arquivos'[b].obj = arquivos[b].obj
  BY <1>0, <1>9, <1>10, MesmosNomes
<1>12. F!Referencias(a)' = {o} \cup arquivos[a].licencas \cup ({t} \ {Nada})
  BY <1>2, <1>3, <1>8, <1>9, <1>10, NomesDepois
<1>13. F!Referencias(a) = {arquivos[a].obj} \cup arquivos[a].licencas \cup ({jobs[a].obj} \ {Nada})
  BY <1>0, <1>2, <1>3, Nomes
<1>14. \A b \in F!Vivos : \A x \in F!Referencias(b)' : x \in F!Referencias(b) \/ x < objeto
  BY <1>3, <1>7, <1>11, <1>12, <1>13
<1>15. objetos' \subseteq objetos /\ incertos' \subseteq F!Objetos
  <2>1. F!Novos \subseteq F!Objetos
    BY <1>3 DEF F!Novos, F!Destino, F!ObjetoOuNada
  <2> QED BY <1>0, <1>7, <2>1 DEF Armazem
<1>16. Base' /\ Encolhe
  BY <1>1, <1>2, <1>10, <1>14, <1>15, WorkerSolta
<1>17. arquivos'[a].obj = o /\ jobs'[a].obj = t /\ arquivos'[a].licencas = arquivos[a].licencas
  BY <1>8, <1>9, <1>10
<1>18. CASE o = worker.obj /\ t = worker.tag
  <2>1. F!Referencias(a)' = F!Destino \cup arquivos[a].licencas
    BY <1>3, <1>12, <1>18 DEF F!Destino
  <2>2. \/ objetos \ F!Antigos \subseteq objetos' /\ incertos' = incertos
        \/ objetos \ F!Novos \subseteq objetos' /\ incertos' = incertos \cup (F!Novos \ objetos')
        \/ o = arquivos[a].obj /\ t = jobs[a].obj /\ objetos \ F!Novos \subseteq objetos' /\ incertos' = incertos
    BY <1>7
  <2>3. o = arquivos[a].obj /\ t = jobs[a].obj => F!Referencias(a)' = F!Referencias(a)
    BY <1>12, <1>13
  <2> QED BY <1>1, <1>2, <1>10, <1>11, <1>16, <1>17, <1>18, <2>1, <2>2, <2>3
<1>19. CASE ~(o = worker.obj /\ t = worker.tag)
  <2>1. o = arquivos[a].obj /\ t = jobs[a].obj /\ objetos \ F!Novos \subseteq objetos' /\ incertos' = incertos
    BY <1>7, <1>19
  <2>2. F!Referencias(a)' = F!Referencias(a)
    BY <1>12, <1>13, <2>1
  <2> QED BY <1>1, <1>2, <1>10, <1>11, <1>16, <1>17, <2>1, <2>2
<1> QED BY <1>18, <1>19

(* A licence is issued again: the next object is written, under no lock. *)
LEMMA PassoReemitir ==
    ASSUME Base, NEW r \in Pedidos, F!Reemitir(r)
    PROVE  /\ Base' /\ Encolhe /\ F!Vivos' = F!Vivos /\ F!Previas' = F!Previas
           /\ \A b \in F!Vivos : F!Referencias(b)' = F!Referencias(b)
           /\ UNCHANGED <<arquivos, jobs, worker, incertos>> /\ objetos' = objetos \cup {objeto}
           /\ pedido'[r] # Nada /\ pedido'[r].fase = "licenca" /\ pedido'[r].obj = objeto
           /\ \A s \in Pedidos \ {r} : pedido'[s] = pedido[s]
<1>0. Tabelas /\ Armazem /\ Atores /\ Travados /\ Novos
  BY DEF Base
<1>1. /\ UNCHANGED <<arquivos, jobs, entregas, trava, worker, incertos>>
      /\ objeto < MaxObjetos /\ objeto' = objeto + 1 /\ objetos' = objetos \cup {objeto}
  BY DEF F!Reemitir
<1>2. PICK a \in entregas :
          pedido' = [pedido EXCEPT ![r] = [fase |-> "licenca", tipo |-> "entrega", obj |-> objeto,
                                           anterior |-> a, versao |-> arquivos[a].versao,
                                           lista |-> arquivos[a].licencas]]
  BY DEF F!Reemitir
<1> DEFINE p == [fase |-> "licenca", tipo |-> "entrega", obj |-> objeto, anterior |-> a,
                 versao |-> arquivos[a].versao, lista |-> arquivos[a].licencas]
<1>3. objeto \in F!Objetos /\ objeto \in Nat /\ objeto + 1 \in 0..MaxObjetos
  BY <1>0, <1>1, PortalConstantes DEF Armazem, F!Objetos, PortalAssumption
<1>4. a \in F!Objetos /\ arquivos[a].versao \in Nat /\ arquivos[a].licencas \subseteq F!Objetos
  BY <1>0, Linha DEF Tabelas
<1>5. p \in F!PedidoTipo /\ p # Nada /\ p.fase = "licenca" /\ p.obj = objeto
  BY <1>3, <1>4, Numeros DEF F!PedidoTipo, F!ObjetoOuNada
<1>6. pedido' = [pedido EXCEPT ![r] = p]
  BY <1>2
<1> HIDE DEF p
<1>7. /\ pedido' \in [Pedidos -> F!PedidoTipo \cup {Nada}] /\ pedido'[r] = p
      /\ \A s \in Pedidos \ {r} : pedido'[s] = pedido[s]
  BY <1>0, <1>5, <1>6 DEF Atores
<1>8. \A s \in Pedidos : F!Na(s, "gravar")' => F!Na(s, "gravar") /\ pedido'[s] = pedido[s]
  BY <1>5, <1>7 DEF F!Na
<1>9. /\ Tabelas' /\ F!Vivos' = F!Vivos /\ F!Previas' = F!Previas /\ Encolhe
      /\ \A b \in F!Vivos : F!Referencias(b)' = F!Referencias(b)
  BY <1>1, <1>8, LinhasFicam
<1>10. Armazem'
  <2>1. objetos \cup {objeto} \subseteq F!Objetos
    BY <1>0, <1>3 DEF Armazem
  <2> QED BY <1>0, <1>1, <1>3, <2>1 DEF Armazem, F!Objetos
<1>11. Atores'
  BY <1>0, <1>1, <1>7 DEF Atores, F!PedidoTipo, F!WorkerTipo, F!Objetos, F!ObjetoOuNada
<1>12. Travados'
  BY <1>0, <1>1, <1>8, <1>9 DEF Travados
<1>13. Novos'
  <2>1. \A b \in F!Vivos : b \in Nat /\ F!Referencias(b) \subseteq Nat
    BY <1>0, Linha, Nomes, Numeros
  <2>2. \A s \in Pedidos : pedido[s] # Nada => pedido[s].obj \in Nat
    BY <1>0, Pedida, Numeros
  <2>3. worker # Nada => worker.obj \in Nat /\ worker.arq \in Nat /\ (worker.tag # Nada => worker.tag \in Nat)
    BY <1>0, Trabalhando, Numeros DEF F!ObjetoOuNada
  <2>4. \A b \in F!Vivos' : b < objeto' /\ \A x \in F!Referencias(b)' : x < objeto'
    BY <1>0, <1>1, <1>3, <1>9, <2>1 DEF Novos
  <2>5. \A s \in Pedidos : pedido'[s] # Nada => pedido'[s].obj < objeto'
    BY <1>0, <1>1, <1>3, <1>5, <1>7, <2>2 DEF Novos
  <2>6. worker' # Nada => /\ worker'.obj < objeto' /\ worker'.arq < objeto'
                          /\ worker'.tag # Nada => worker'.tag < objeto'
    BY <1>0, <1>1, <1>3, <2>3 DEF Novos
  <2> QED BY <2>4, <2>5, <2>6 DEF Novos
<1> QED BY <1>1, <1>5, <1>7, <1>9, <1>10, <1>11, <1>12, <1>13 DEF Base

(* The licence is saved with its delivery. *)
LEMMA PassoGravarLicenca ==
    ASSUME Base, NEW r \in Pedidos, F!GravarLicenca(r), NEW d, d = pedido[r].anterior
    PROVE  /\ Base' /\ Encolhe /\ F!Vivos' = F!Vivos /\ F!Previas' = F!Previas
           /\ d \in F!Vivos /\ d \notin F!Previas
           /\ \A b \in F!Vivos \ {d} : F!Referencias(b)' = F!Referencias(b)
           /\ \A b \in F!Vivos : arquivos'[b].obj = arquivos[b].obj
           /\ \A b \in F!Previas : arquivos'[b] = arquivos[b]
           /\ F!Referencias(d)' = F!Referencias(d) \cup {pedido[r].obj}
           /\ UNCHANGED <<jobs, worker>>
           /\ pedido'[r] = Nada /\ \A s \in Pedidos \ {r} : pedido'[s] = pedido[s]
<1> DEFINE o == pedido[r].obj
           n == [arquivos[d] EXCEPT !.licencas = @ \cup {o}]
<1>0. Tabelas /\ Armazem /\ Atores /\ Travados /\ Novos
  BY DEF Base
<1>1. /\ pedido[r] # Nada /\ d \in entregas /\ pedido' = [pedido EXCEPT ![r] = Nada]
      /\ UNCHANGED <<jobs, entregas, objeto, trava, worker>>
      /\ \/ UNCHANGED <<objetos, incertos>>
         \/ objetos' = objetos \ {o} /\ incertos' = incertos \cup {o}
  BY DEF F!GravarLicenca, F!Na
<1>2. d \in F!Vivos /\ d \notin F!Previas
  BY <1>0, <1>1 DEF Tabelas
<1>3. o \in F!Objetos /\ o < objeto
  BY <1>0, <1>1, Pedida DEF Novos
<1>4. /\ n \in F!LinhaTipo /\ n.tipo = arquivos[d].tipo /\ n.anterior = arquivos[d].anterior
      /\ n.versao = arquivos[d].versao /\ n.obj = arquivos[d].obj
      /\ n.licencas = arquivos[d].licencas \cup {o}
  BY <1>0, <1>2, <1>3, Linha DEF F!LinhaTipo
<1>5. arquivos' = [arquivos EXCEPT ![d] = n]
  BY <1>0, <1>2 DEF F!GravarLicenca, Tabelas
<1> HIDE DEF n, o
<1>6. /\ jobs' \in [F!Objetos -> F!JobTipo \cup {Nada}]
      /\ \A b \in F!Objetos : jobs'[b] # Nada <=> jobs[b] # Nada
  BY <1>0, <1>1 DEF Tabelas
<1>7. /\ Tabelas' /\ F!Vivos' = F!Vivos /\ F!Previas' = F!Previas
      /\ arquivos'[d] = n /\ \A b \in F!Vivos \ {d} : arquivos'[b] = arquivos[b]
      /\ \A b \in F!Vivos : /\ arquivos'[b].tipo = arquivos[b].tipo
                            /\ arquivos'[b].anterior = arquivos[b].anterior
                            /\ arquivos'[b].versao = arquivos[b].versao
  BY <1>0, <1>1, <1>2, <1>4, <1>5, <1>6, LinhaTocada
<1>8. \A b \in F!Vivos \ {d} : F!Referencias(b)' = F!Referencias(b)
  BY <1>0, <1>1, <1>7, MesmosNomes
<1>9. F!Referencias(d)' = F!Referencias(d) \cup {o}
  BY <1>0, <1>2, <1>4, <1>7, Nomes, NomesDepois
<1>10. /\ pedido' \in [Pedidos -> F!PedidoTipo \cup {Nada}]
       /\ pedido'[r] = Nada /\ \A s \in Pedidos \ {r} : pedido'[s] = pedido[s]
       /\ \A s \in Pedidos : pedido'[s] \in {pedido[s], Nada}
  BY <1>0, <1>1 DEF Atores
<1>11. Armazem' /\ objeto <= objeto'
  <2>1. objetos' \subseteq objetos /\ incertos' \subseteq incertos \cup {o}
    BY <1>1
  <2>2. objetos' \subseteq F!Objetos /\ incertos' \subseteq F!Objetos
    BY <1>0, <1>3, <2>1 DEF Armazem
  <2> QED BY <1>0, <1>1, <2>2 DEF Armazem, F!Objetos
<1>12. \A b \in F!Vivos : \A x \in F!Referencias(b)' : x \in F!Referencias(b) \/ x < objeto'
  BY <1>1, <1>3, <1>8, <1>9
<1>13. WorkerCabe
  BY <1>1, WorkerFica
<1>14. Base' /\ Encolhe
  BY <1>7, <1>10, <1>11, <1>12, <1>13, MesmasLinhas
<1>15. \A b \in F!Previas : arquivos'[b] = arquivos[b]
  BY <1>2, <1>7 DEF F!Previas
<1> QED BY <1>1, <1>2, <1>4, <1>7, <1>8, <1>9, <1>10, <1>14, <1>15 DEF o

LEMMA PassoQuieto ==
    ASSUME Base, UNCHANGED <<arquivos, jobs, entregas, objetos, objeto, pedido, trava, worker, incertos>>
    PROVE  /\ Base' /\ Encolhe /\ F!Vivos' = F!Vivos /\ F!Previas' = F!Previas
           /\ \A a \in F!Vivos : F!Referencias(a)' = F!Referencias(a)
<1>1. Tabelas' /\ F!Vivos' = F!Vivos /\ F!Previas' = F!Previas
  BY LinhasFicam
<1>2. Armazem' /\ objeto <= objeto'
  BY DEF Base, Armazem, F!Objetos
<1>3. \A a \in F!Previas : jobs'[a] = jobs[a]
  OBVIOUS
<1> QED BY <1>1, <1>2, <1>3, WorkerFica, LinhasIguais

-----------------------------------------------------------------------------
(* An upload: the next object is written, and its row is about to be. *)
LEMMA PassoSalvar ==
    ASSUME Base, NEW r \in Pedidos, NEW t \in {"previa", "entrega"}, NEW anterior \in F!Previas \cup {Nada},
           F!Salvar(r, t, anterior), t = "entrega" => anterior = Nada,
           anterior # Nada => F!Versao(anterior) \in Nat
    PROVE  /\ Base' /\ F!Vivos' = F!Vivos /\ F!Previas' = F!Previas
           /\ \A b \in F!Vivos : F!Referencias(b)' = F!Referencias(b)
           /\ UNCHANGED <<arquivos, jobs, entregas, worker, incertos>> /\ objetos' = objetos \cup {objeto}
           /\ pedido'[r] # Nada /\ pedido'[r].fase = "gravar" /\ pedido'[r].tipo = t
           /\ pedido'[r].obj = objeto /\ pedido'[r].anterior = anterior
           /\ pedido'[r].versao = F!Versao(anterior)
           /\ \A s \in Pedidos \ {r} : pedido'[s] = pedido[s] /\ ~(F!Na(s, "gravar")')
           /\ objeto \in F!Objetos /\ objeto' = objeto + 1
<1> DEFINE p == [fase |-> "gravar", tipo |-> t, obj |-> objeto, anterior |-> anterior,
                 versao |-> F!Versao(anterior), lista |-> {}]
<1>0. Tabelas /\ Armazem /\ Atores /\ Travados /\ Novos
  BY DEF Base
<1>1. /\ UNCHANGED <<arquivos, jobs, entregas, worker, incertos>> /\ trava = Nada /\ trava' = r
      /\ objeto < MaxObjetos /\ objeto' = objeto + 1 /\ objetos' = objetos \cup {objeto}
      /\ pedido' = [pedido EXCEPT ![r] = p]
  BY DEF F!Salvar, F!TravaLivre
<1>2. /\ Tabelas' /\ F!Vivos' = F!Vivos /\ F!Previas' = F!Previas
      /\ \A b \in F!Vivos : F!Referencias(b)' = F!Referencias(b)
  BY <1>1, LinhasFicam
<1>3. objeto \in Nat /\ MaxObjetos \in Nat /\ objeto + 1 \in 0..MaxObjetos
  BY <1>0, <1>1, PortalConstantes DEF Armazem, PortalAssumption
<1>4. objeto \in F!Objetos
  BY <1>1, <1>3 DEF F!Objetos
<1>5. F!Versao(anterior) \in Nat
  BY DEF F!Versao
<1>6. anterior \in F!ObjetoOuNada
  BY <1>0, Job DEF F!ObjetoOuNada
<1>7. /\ p \in F!PedidoTipo /\ p # Nada
      /\ p.fase = "gravar" /\ p.tipo = t /\ p.obj = objeto /\ p.anterior = anterior
      /\ p.versao = F!Versao(anterior)
  BY <1>4, <1>5, <1>6, Numeros DEF F!PedidoTipo
<1> HIDE DEF p
<1>8. pedido' \in [Pedidos -> F!PedidoTipo \cup {Nada}] /\ pedido'[r] = p
      /\ \A s \in Pedidos \ {r} : pedido'[s] = pedido[s]
  BY <1>0, <1>1, <1>7 DEF Atores
<1>9. \A s \in Pedidos : ~(F!Na(s, "gravar"))
  BY <1>0, <1>1, PortalConstantes DEF Travados, PortalAssumption
<1>10. \A s \in Pedidos \ {r} : ~(F!Na(s, "gravar")')
  BY <1>8, <1>9 DEF F!Na
<1>11. Armazem'
  <2>1. objetos \cup {objeto} \subseteq F!Objetos
    BY <1>0, <1>4 DEF Armazem
  <2> QED BY <1>0, <1>1, <1>3, <2>1 DEF Armazem, F!Objetos
<1>12. Atores'
  BY <1>0, <1>1, <1>8 DEF Atores, F!PedidoTipo, F!WorkerTipo, F!Objetos, F!ObjetoOuNada
<1>13. arquivos[objeto] = Nada
  BY <1>0, <1>3, <1>4 DEF Novos, F!Vivos
<1>14. worker # Nada => worker.fase # "comprimir"
  BY <1>0, <1>1, PortalConstantes DEF Travados, PortalAssumption
<1>15. Travados'
  <2>1. ASSUME NEW s \in Pedidos, F!Na(s, "gravar")'
        PROVE  trava' = s /\ arquivos'[pedido'[s].obj] = Nada
               /\ (pedido'[s].tipo = "entrega" => pedido'[s].anterior = Nada)
    BY <1>1, <1>7, <1>8, <1>10, <1>13, <2>1
  <2> QED BY <1>0, <1>1, <1>2, <1>14, <2>1 DEF Travados
<1>16. Novos'
  <2>1. \A a \in F!Vivos : a \in Nat /\ F!Referencias(a) \subseteq Nat
    BY <1>0, Linha, Nomes, Numeros
  <2>2. \A s \in Pedidos : pedido[s] # Nada => pedido[s].obj \in Nat
    BY <1>0, Pedida, Numeros
  <2>3. worker # Nada => worker.obj \in Nat /\ worker.arq \in Nat /\ (worker.tag # Nada => worker.tag \in Nat)
    BY <1>0, Trabalhando, Numeros DEF F!ObjetoOuNada
  <2>4. \A a \in F!Vivos' : a < objeto' /\ \A x \in F!Referencias(a)' : x < objeto'
    BY <1>0, <1>1, <1>2, <1>3, <2>1 DEF Novos
  <2>5. \A s \in Pedidos : pedido'[s] # Nada => pedido'[s].obj < objeto'
    BY <1>0, <1>1, <1>3, <1>7, <1>8, <2>2 DEF Novos
  <2>6. worker' # Nada => /\ worker'.obj < objeto' /\ worker'.arq < objeto'
                          /\ worker'.tag # Nada => worker'.tag < objeto'
    BY <1>0, <1>1, <1>3, <2>3 DEF Novos
  <2> QED BY <2>4, <2>5, <2>6 DEF Novos
<1>17. Base'
  BY <1>2, <1>11, <1>12, <1>15, <1>16 DEF Base
<1> QED BY <1>1, <1>2, <1>4, <1>7, <1>8, <1>10, <1>17

(* The commit: the row is there, and its request saves no more. *)
LEMMA PassoGravar ==
    ASSUME Base, NEW r \in Pedidos, F!Gravar(r), NEW p, p = pedido[r]
    PROVE  /\ Base'
           /\ F!Vivos' = F!Vivos \cup {p.obj} /\ p.obj \notin F!Vivos /\ p.obj \in F!Objetos
           /\ F!Previas' = IF p.tipo = "previa" THEN F!Previas \cup {p.obj} ELSE F!Previas
           /\ arquivos'[p.obj] # Nada
           /\ arquivos'[p.obj].tipo = p.tipo /\ arquivos'[p.obj].anterior = p.anterior
           /\ arquivos'[p.obj].versao = p.versao /\ arquivos'[p.obj].obj = p.obj
           /\ \A b \in F!Vivos : arquivos'[b] = arquivos[b]
           /\ \A b \in F!Previas : jobs'[b] = jobs[b]
           /\ \A b \in F!Vivos : F!Referencias(b)' = F!Referencias(b)
           /\ F!Referencias(p.obj)' = {p.obj} /\ arquivos'[p.obj].licencas = {}
           /\ p.tipo = "previa" => jobs'[p.obj].obj = Nada
           /\ UNCHANGED <<objetos, objeto, worker, incertos>>
           /\ p.anterior # Nada => p.anterior \in F!Vivos
           /\ \A s \in Pedidos : ~(F!Na(s, "gravar")')
           /\ \A s \in Pedidos \ {r} : pedido'[s] = pedido[s]
           /\ pedido'[r] # Nada => pedido'[r].obj = p.obj /\ pedido'[r].fase \in {"listar", "conferir"}
           /\ p.tipo = "entrega" => p.anterior = Nada
<1> DEFINE o == p.obj
           n == F!NovaLinha(p)
           j == [estado |-> "pendente", obj |-> Nada, lote |-> FALSE]
<1>0. Tabelas /\ Armazem /\ Atores /\ Travados /\ Novos
  BY DEF Base
<1>1. /\ pedido[r] # Nada /\ p.fase = "gravar" /\ F!Na(r, "gravar")
      /\ arquivos' = [arquivos EXCEPT ![o] = n]
      /\ IF p.tipo = "entrega" THEN entregas' = entregas \cup {o} /\ UNCHANGED jobs
         ELSE jobs' = [jobs EXCEPT ![o] = j] /\ UNCHANGED entregas
      /\ trava' = IF trava = r THEN Nada ELSE trava
      /\ UNCHANGED <<objetos, objeto, worker, incertos>>
      /\ p.anterior # Nada => p.anterior \in F!Vivos
  BY DEF F!Gravar, F!Na, F!Solta
<1>2. /\ p.tipo \in {"previa", "entrega"} /\ o \in F!Objetos /\ p.anterior \in F!ObjetoOuNada
      /\ p.versao \in Nat /\ p \in F!PedidoTipo
  BY <1>0, <1>1, Pedida
<1>3. /\ trava = r /\ trava' = Nada /\ arquivos[o] = Nada /\ o \notin F!Vivos
      /\ p.tipo = "entrega" => p.anterior = Nada
  BY <1>0, <1>1 DEF Travados, F!Vivos
<1>4. /\ n \in F!LinhaTipo /\ n # Nada /\ n.tipo = p.tipo /\ n.anterior = p.anterior
      /\ n.versao = p.versao /\ n.obj = o /\ n.licencas = {}
  <2>1. n \in F!LinhaTipo
    BY <1>2 DEF F!NovaLinha, F!LinhaTipo
  <2>2. n.tipo = p.tipo /\ n.anterior = p.anterior /\ n.versao = p.versao /\ n.obj = o
        /\ n.licencas = {}
    BY DEF F!NovaLinha
  <2> QED BY <2>1, <2>2, Numeros
<1>5. j \in F!JobTipo /\ j # Nada /\ j.obj = Nada
  <2>1. j \in F!JobTipo
    BY DEF F!JobTipo, F!ObjetoOuNada
  <2> QED BY <2>1, Numeros
<1> HIDE DEF n, j
<1>6. arquivos'[o] = n /\ \A b \in F!Objetos \ {o} : arquivos'[b] = arquivos[b]
  BY <1>0, <1>1, <1>2 DEF Tabelas
<1>7. /\ F!Vivos' = F!Vivos \cup {o}
      /\ F!Previas' = IF p.tipo = "previa" THEN F!Previas \cup {o} ELSE F!Previas
  <2>1. F!Vivos' = F!Vivos \cup {o}
    BY <1>2, <1>4, <1>6 DEF F!Vivos, F!Objetos
  <2>2. \A b \in F!Vivos : b \in F!Objetos /\ b # o
    BY <1>3 DEF F!Vivos
  <2> QED BY <1>2, <1>3, <1>4, <1>6, <2>1, <2>2 DEF F!Previas
<1>8. \A b \in F!Vivos : arquivos'[b] = arquivos[b]
  BY <1>3, <1>6 DEF F!Vivos
<1>9. /\ \A b \in F!Objetos \ {o} : jobs'[b] = jobs[b]
      /\ jobs'[o] = IF p.tipo = "previa" THEN j ELSE jobs[o]
  BY <1>0, <1>1, <1>2 DEF Tabelas
<1>10. o \notin F!Previas /\ jobs[o] = Nada
  BY <1>0, <1>2, <1>3 DEF Tabelas, F!Previas
<1>11. \A b \in F!Previas : b \in F!Objetos \ {o} /\ jobs'[b] = jobs[b]
  BY <1>0, <1>9, <1>10, Job
<1>12. Tabelas'
  <2>1. arquivos' \in [F!Objetos -> F!LinhaTipo \cup {Nada}] /\ jobs' \in [F!Objetos -> F!JobTipo \cup {Nada}]
    BY <1>0, <1>1, <1>2, <1>4, <1>5 DEF Tabelas
  <2>2. \A b \in F!Objetos : jobs'[b] # Nada <=> b \in F!Previas'
    BY <1>0, <1>2, <1>5, <1>7, <1>9, <1>10 DEF Tabelas
  <2>3. entregas' = F!Vivos' \ F!Previas'
    BY <1>0, <1>1, <1>2, <1>3, <1>7, <1>10 DEF Tabelas
  <2> QED BY <2>1, <2>2, <2>3 DEF Tabelas, F!Objetos, F!LinhaTipo, F!JobTipo, F!ObjetoOuNada
<1>13. /\ pedido' \in [Pedidos -> F!PedidoTipo \cup {Nada}]
       /\ \A s \in Pedidos : F!Na(s, "gravar")' => F!Na(s, "gravar") /\ pedido'[s] = pedido[s] /\ s # r
       /\ Seguem
       /\ \A s \in Pedidos \ {r} : pedido'[s] = pedido[s]
       /\ pedido'[r] # Nada => pedido'[r].obj = p.obj /\ pedido'[r].fase \in {"listar", "conferir"}
  <2> DEFINE q(f) == [p EXCEPT !.fase = f]
  <2>1. \A f \in {"listar", "conferir"} : q(f) \in F!PedidoTipo /\ q(f).obj = p.obj /\ q(f).fase = f
    BY <1>2 DEF F!PedidoTipo
  <2>2. \/ pedido' = [pedido EXCEPT ![r] = q("listar")]
        \/ pedido' = [pedido EXCEPT ![r] = q("conferir")]
        \/ pedido' = [pedido EXCEPT ![r] = Nada]
    BY <1>0 DEF F!Gravar, Atores
  <2> HIDE DEF q
  <2>3. /\ pedido' \in [Pedidos -> F!PedidoTipo \cup {Nada}]
        /\ \A s \in Pedidos : F!Na(s, "gravar")' => F!Na(s, "gravar") /\ pedido'[s] = pedido[s] /\ s # r
        /\ Seguem
    BY <1>1, <2>1, <2>2, PedidoAnda
  <2>4. pedido \in [Pedidos -> F!PedidoTipo \cup {Nada}]
    BY <1>0 DEF Atores
  <2> QED BY <2>1, <2>2, <2>3, <2>4
<1>14. \A s \in Pedidos : ~(F!Na(s, "gravar")')
  BY <1>0, <1>3, <1>13 DEF Travados
<1>15. Atores'
  BY <1>0, <1>1, <1>3, <1>13 DEF Atores, F!PedidoTipo, F!WorkerTipo, F!Objetos, F!ObjetoOuNada
<1>16. Armazem'
  BY <1>0, <1>1 DEF Armazem, F!Objetos
<1>17. worker # Nada => worker.fase # "comprimir"
  BY <1>0, <1>3, PortalConstantes DEF Travados, PortalAssumption
<1>18. Travados'
  BY <1>0, <1>1, <1>7, <1>14, <1>17 DEF Travados
<1>19. /\ F!Referencias(o)' = {o} /\ \A b \in F!Vivos : F!Referencias(b)' = F!Referencias(b)
  <2>1. F!Referencias(o)' = {o}
    BY <1>4, <1>5, <1>6, <1>7, <1>9, <1>10, <1>12, NomesDepois
  <2>2. \A b \in F!Vivos : b \in F!Vivos' /\ (b \in F!Previas' <=> b \in F!Previas)
    BY <1>3, <1>7
  <2> QED BY <1>0, <1>8, <1>11, <1>12, <2>1, <2>2, MesmosNomes
<1>20. Novos'
  <2>1. o < objeto
    BY <1>0, <1>1 DEF Novos
  <2>2. \A a \in F!Vivos' : a < objeto' /\ \A x \in F!Referencias(a)' : x < objeto'
    BY <1>0, <1>1, <1>7, <1>19, <2>1 DEF Novos
  <2>3. \A s \in Pedidos : pedido'[s] # Nada => pedido'[s].obj < objeto'
    BY <1>0, <1>1, <1>13 DEF Novos, Seguem
  <2> QED BY <1>0, <1>1, <2>2, <2>3 DEF Novos
<1>21. Base'
  BY <1>12, <1>15, <1>16, <1>18, <1>20 DEF Base
<1> QED BY <1>1, <1>2, <1>3, <1>4, <1>5, <1>6, <1>7, <1>8, <1>9, <1>11, <1>13, <1>14, <1>19, <1>21

-----------------------------------------------------------------------------
(* The quota and the history. *)

LEMMA PassoMenor ==
    ASSUME Base, F!HistoricoInteiro, PassoArquivos,
           ~ \E r \in Pedidos, anterior \in F!Previas \cup {Nada} : F!Salvar(r, "previa", anterior),
           ~ \E r \in Pedidos : F!Salvar(r, "entrega", Nada) \/ F!Gravar(r)
    PROVE  Base' /\ Encolhe
<1>1. CASE \E r \in Pedidos : \/ F!NaoGravar(r) \/ F!Conferir(r) \/ F!Morrer(r) \/ F!NaoGravarLicenca(r)
                              \/ F!Listar(r) \/ F!ReplacePrevious(r) \/ F!Reemitir(r) \/ F!GravarLicenca(r)
  BY <1>1, PassoNaoGravar, PassoListar, PassoReplace, PassoReemitir, PassoGravarLicenca
<1>2. CASE \/ \E a \in F!Vivos : \/ F!ApagarArquivo(a) \/ F!Anexar(a) \/ F!RegenerarPrevia(a)
                                 \/ F!TagSalvar(a) \/ F!TagErro(a)
           \/ \E a \in F!Vivos, menor, tagMenor \in BOOLEAN : F!ComprimirSalvar(a, menor, tagMenor)
  BY <1>2, PassoApagarArquivo, PassoAnexar, PassoEstado, PassoTagSalvar, PassoComprimirSalvar
<1>3. CASE F!TagGravar \/ F!TagFalhar \/ F!TagConfirmar \/ F!Reiniciar \/ F!IniciarLote \/ F!ComprimirGravar
  BY <1>3, PassoTagGravar, PassoTagFalhar, PassoLargar, PassoLote, PassoComprimir
<1>4. CASE F!ExcluirEntrega
  BY <1>4, PassoExcluirEntrega
<1>5. CASE F!EntregarProducao \/ F!FecharConcluidos
  <2>1. UNCHANGED <<arquivos, jobs, entregas, objetos, objeto, pedido, trava, worker, incertos>>
    BY <1>5 DEF F!EntregarProducao, F!FecharConcluidos
  <2> QED BY <2>1, PassoQuieto
<1> QED BY <1>1, <1>2, <1>3, <1>4, <1>5 DEF PassoArquivos

Primeiras == {a \in F!Previas : arquivos[a].versao = 1}

Cota ==
    /\ Cardinality(Primeiras) <= MaxArquivos
    /\ \A a \in F!Previas : arquivos[a].versao <= MaxVersoes
    /\ Cardinality(entregas) <= MaxEntregas

(* What a request is about to save was allowed, and still is unless the     *)
(* version before is gone, which stops it.                                  *)
Prevista(p) ==
    /\ p.anterior = Nada => p.versao = 1
    /\ p.anterior # Nada => p.tipo = "previa" /\ p.versao > 1 /\ p.versao <= MaxVersoes
    /\ p.anterior \in F!Vivos => /\ p.anterior \in F!Previas
                                 /\ \A b \in F!Vivos : arquivos[b].anterior # p.anterior
                                 /\ p.versao = arquivos[p.anterior].versao + 1
    /\ p.tipo = "entrega" => Cardinality(entregas) < MaxEntregas
    /\ p.tipo = "previa" /\ p.anterior = Nada => Cardinality(Primeiras) < MaxArquivos

Historia ==
    /\ \A a \in F!Vivos : arquivos[a].versao > 0
    /\ F!HistoricoInteiro /\ Cota
    /\ \A r \in Pedidos : F!Na(r, "gravar") => Prevista(pedido[r])

(* The cardinality of the module of the files is that of the library. *)
LEMMA MesmaCardinalidade == ASSUME NEW S PROVE F!Cardinality(S) = Cardinality(S)
BY DEF F!Cardinality, Cardinality

LEMMA CotaPrimeiras == F!CotaRespeitada <=> Cota
<1>1. F!Cardinality({a \in F!Previas : arquivos[a].versao = 1}) = Cardinality(Primeiras)
  BY MesmaCardinalidade DEF Primeiras
<1>2. F!Cardinality(entregas) = Cardinality(entregas)
  BY MesmaCardinalidade
<1> QED BY <1>1, <1>2 DEF F!CotaRespeitada, Cota

LEMMA CotaPedida ==
    ASSUME NEW t, NEW anterior, F!DentroDaCota(t, anterior)
    PROVE  /\ t = "entrega" => Cardinality(entregas) < MaxEntregas
           /\ t # "entrega" /\ anterior = Nada => Cardinality(Primeiras) < MaxArquivos
           /\ t # "entrega" /\ anterior # Nada => F!Versao(anterior) <= MaxVersoes
<1>1. F!Cardinality({a \in F!Previas : arquivos[a].versao = 1}) = Cardinality(Primeiras)
  BY MesmaCardinalidade DEF Primeiras
<1>2. F!Cardinality(entregas) = Cardinality(entregas)
  BY MesmaCardinalidade
<1> QED BY <1>1, <1>2 DEF F!DentroDaCota

LEMMA Finitos == ASSUME Base PROVE IsFiniteSet(F!Objetos) /\ IsFiniteSet(Primeiras) /\ IsFiniteSet(entregas)
<1>1. IsFiniteSet(F!Objetos)
  <2>1. 0 \in Int /\ MaxObjetos - 1 \in Int
    BY PortalConstantes DEF PortalAssumption
  <2> QED BY <2>1, FS_Interval DEF F!Objetos
<1>2. Primeiras \subseteq F!Objetos /\ entregas \subseteq F!Objetos
  BY DEF Primeiras, F!Previas, F!Vivos, Base, Tabelas
<1> QED BY <1>1, <1>2, FS_Subset

LEMMA HistoriaMenor ==
    ASSUME Base, Historia, Base', Encolhe
    PROVE  Historia'
<1>0. /\ \A a \in F!Vivos : arquivos[a].versao > 0
      /\ F!HistoricoInteiro /\ Cota
      /\ \A r \in Pedidos : F!Na(r, "gravar") => Prevista(pedido[r])
  BY DEF Historia
<1>1. /\ F!Vivos' \subseteq F!Vivos
      /\ \A a \in F!Vivos' : /\ arquivos'[a].tipo = arquivos[a].tipo
                             /\ arquivos'[a].anterior = arquivos[a].anterior
                             /\ arquivos'[a].versao = arquivos[a].versao
      /\ \A a \in F!Vivos' : arquivos[a].anterior \in F!Previas => arquivos[a].anterior \in F!Vivos'
      /\ \A r \in Pedidos : F!Na(r, "gravar")' => F!Na(r, "gravar") /\ pedido'[r] = pedido[r]
  BY DEF Encolhe
<1>2. \A a \in F!Vivos' : a \in F!Previas' <=> a \in F!Previas
  BY <1>1 DEF F!Previas
<1>3. F!Previas' \subseteq F!Previas /\ F!Previas' \subseteq F!Vivos'
  BY <1>2 DEF F!Previas
<1>4. Primeiras' \subseteq Primeiras
  BY <1>1, <1>3 DEF Primeiras
<1>5. entregas' \subseteq entregas
  BY <1>1, <1>2 DEF Base, Tabelas
<1>6. /\ Cardinality(Primeiras) \in Nat /\ Cardinality(entregas) \in Nat
      /\ Cardinality(Primeiras') \in Nat /\ Cardinality(entregas') \in Nat
      /\ Cardinality(Primeiras') <= Cardinality(Primeiras) /\ Cardinality(entregas') <= Cardinality(entregas)
  BY <1>4, <1>5, Finitos, FS_Subset, FS_CardinalityType
<1>7. MaxArquivos \in Nat /\ MaxEntregas \in Nat
  BY PortalConstantes DEF PortalAssumption
<1>8. Cota'
  <2>1. /\ Cardinality(Primeiras) <= MaxArquivos
        /\ \A a \in F!Previas : arquivos[a].versao <= MaxVersoes
        /\ Cardinality(entregas) <= MaxEntregas
    BY <1>0 DEF Cota
  <2>2. Cardinality(Primeiras') <= MaxArquivos /\ Cardinality(entregas') <= MaxEntregas
    BY <1>6, <1>7, <2>1
  <2>3. \A a \in F!Previas' : arquivos'[a].versao <= MaxVersoes
    BY <1>1, <1>3, <2>1
  <2> QED BY <2>2, <2>3 DEF Cota
<1>9. F!HistoricoInteiro'
  <2> SUFFICES ASSUME NEW a \in F!Vivos', arquivos'[a].anterior # Nada
               PROVE  /\ arquivos'[a].anterior \in F!Previas'
                      /\ arquivos'[a].versao = arquivos'[arquivos'[a].anterior].versao + 1
                      /\ \A b \in F!Vivos' \ {a} : arquivos'[b].anterior # arquivos'[a].anterior
    BY DEF F!HistoricoInteiro
  <2>1. /\ a \in F!Vivos /\ arquivos'[a].anterior = arquivos[a].anterior
        /\ arquivos[a].anterior \in F!Previas
        /\ arquivos[a].versao = arquivos[arquivos[a].anterior].versao + 1
        /\ \A b \in F!Vivos \ {a} : arquivos[b].anterior # arquivos[a].anterior
    BY <1>0, <1>1 DEF F!HistoricoInteiro
  <2>2. arquivos[a].anterior \in F!Vivos' /\ arquivos[a].anterior \in F!Previas'
    BY <1>1, <1>2, <2>1
  <2> QED BY <1>1, <2>1, <2>2
<1>10. ASSUME NEW r \in Pedidos, F!Na(r, "gravar")' PROVE Prevista(pedido[r])'
  <2> DEFINE p == pedido[r]
  <2>1. F!Na(r, "gravar") /\ pedido'[r] = p /\ Prevista(p)
    BY <1>0, <1>1, <1>10
  <2>2. p.anterior \in F!Vivos' => /\ p.anterior \in F!Previas'
                                   /\ \A b \in F!Vivos' : arquivos'[b].anterior # p.anterior
                                   /\ p.versao = arquivos'[p.anterior].versao + 1
    BY <1>1, <1>2, <2>1 DEF Prevista
  <2>3. p.tipo = "entrega" => Cardinality(entregas') < MaxEntregas
    BY <1>6, <1>7, <2>1 DEF Prevista
  <2>4. p.tipo = "previa" /\ p.anterior = Nada => Cardinality(Primeiras') < MaxArquivos
    BY <1>6, <1>7, <2>1 DEF Prevista
  <2> QED BY <2>1, <2>2, <2>3, <2>4 DEF Prevista
<1>11. \A a \in F!Vivos' : arquivos'[a].versao > 0
  BY <1>0, <1>1
<1> QED BY <1>8, <1>9, <1>10, <1>11 DEF Historia

LEMMA HistoriaSalvar ==
    ASSUME Base, Historia, NEW r \in Pedidos, NEW t \in {"previa", "entrega"},
           NEW anterior \in F!Previas \cup {Nada}, F!Salvar(r, t, anterior), t = "entrega" => anterior = Nada
    PROVE  Base' /\ Historia'
<1>0. /\ \A a \in F!Vivos : arquivos[a].versao > 0
      /\ F!HistoricoInteiro /\ Cota
      /\ \A s \in Pedidos : F!Na(s, "gravar") => Prevista(pedido[s])
  BY DEF Historia
<1>1. anterior # Nada => anterior \in F!Vivos /\ arquivos[anterior].versao \in Nat
  BY Job, Linha DEF Base
<1>2. anterior # Nada => F!Versao(anterior) = arquivos[anterior].versao + 1 /\ F!Versao(anterior) \in Nat
  BY <1>1 DEF F!Versao
<1>3. /\ Base' /\ F!Vivos' = F!Vivos /\ F!Previas' = F!Previas
      /\ UNCHANGED <<arquivos, entregas>>
      /\ pedido'[r].tipo = t /\ pedido'[r].anterior = anterior /\ pedido'[r].versao = F!Versao(anterior)
      /\ \A s \in Pedidos \ {r} : ~(F!Na(s, "gravar")')
  BY <1>2, PassoSalvar
<1>4. Primeiras' = Primeiras
  BY <1>3 DEF Primeiras
<1>5. Cota' /\ F!HistoricoInteiro'
  BY <1>0, <1>3, <1>4 DEF Cota, F!HistoricoInteiro
<1>6. /\ anterior # Nada => anterior \in F!Previas /\ ~(F!Substituido(anterior))
      /\ F!DentroDaCota(t, anterior)
  BY DEF F!Salvar
<1>7. Prevista(pedido[r])'
  <2>1. anterior = Nada => F!Versao(anterior) = 1
    BY DEF F!Versao
  <2>2. anterior # Nada => t = "previa" /\ F!Versao(anterior) > 1 /\ F!Versao(anterior) <= MaxVersoes
    BY <1>0, <1>1, <1>2, <1>6, CotaPedida
  <2>3. anterior \in F!Vivos => /\ anterior \in F!Previas
                                /\ \A b \in F!Vivos : arquivos[b].anterior # anterior
                                /\ F!Versao(anterior) = arquivos[anterior].versao + 1
    <3>1. Nada \notin F!Vivos
      BY Numeros DEF F!Vivos
    <3> QED BY <1>2, <1>6, <3>1 DEF F!Substituido
  <2>4. t = "entrega" => Cardinality(entregas) < MaxEntregas
    BY <1>6, CotaPedida
  <2>5. t = "previa" /\ anterior = Nada => Cardinality(Primeiras) < MaxArquivos
    BY <1>6, CotaPedida
  <2> QED BY <1>3, <1>4, <2>1, <2>2, <2>3, <2>4, <2>5 DEF Prevista
<1>8. \A s \in Pedidos : F!Na(s, "gravar")' => Prevista(pedido[s])'
  BY <1>3, <1>7
<1> QED BY <1>0, <1>3, <1>5, <1>8 DEF Historia

LEMMA HistoriaGravar ==
    ASSUME Base, Historia, NEW r \in Pedidos, F!Gravar(r)
    PROVE  Base' /\ Historia'
<1> DEFINE p == pedido[r]
           o == p.obj
<1>0. /\ \A a \in F!Vivos : arquivos[a].versao > 0
      /\ F!HistoricoInteiro /\ Cota
      /\ \A s \in Pedidos : F!Na(s, "gravar") => Prevista(pedido[s])
  BY DEF Historia
<1>1. /\ Base'
      /\ F!Vivos' = F!Vivos \cup {o} /\ o \notin F!Vivos
      /\ F!Previas' = IF p.tipo = "previa" THEN F!Previas \cup {o} ELSE F!Previas
      /\ arquivos'[o].tipo = p.tipo /\ arquivos'[o].anterior = p.anterior /\ arquivos'[o].versao = p.versao
      /\ \A b \in F!Vivos : arquivos'[b] = arquivos[b]
      /\ p.anterior # Nada => p.anterior \in F!Vivos
      /\ \A s \in Pedidos : ~(F!Na(s, "gravar")')
      /\ p.tipo = "entrega" => p.anterior = Nada
  BY PassoGravar
<1>2. F!Na(r, "gravar") /\ Prevista(p)
  BY <1>0 DEF F!Gravar
<1>3. /\ p.tipo \in {"previa", "entrega"} /\ p.versao \in Nat /\ p.anterior \in F!ObjetoOuNada
      /\ MaxVersoes \in Nat /\ MaxVersoes >= 1 /\ MaxArquivos \in Nat /\ MaxEntregas \in Nat
  BY <1>2, Pedida, PortalConstantes DEF Base, F!Na, PortalAssumption
<1> HIDE DEF p, o
<1>4. \A a \in F!Previas : a \in F!Vivos /\ a # o
  BY <1>1 DEF F!Previas
<1>5. entregas' = IF p.tipo = "entrega" THEN entregas \cup {o} ELSE entregas
  BY <1>1, <1>3, <1>4 DEF Base, Tabelas
<1>6. Primeiras' = IF p.tipo = "previa" /\ p.anterior = Nada THEN Primeiras \cup {o} ELSE Primeiras
  <2>1. p.tipo = "previa" => (p.versao = 1 <=> p.anterior = Nada)
    BY <1>2 DEF Prevista
  <2>2. \A a \in F!Previas : arquivos'[a] = arquivos[a]
    BY <1>1, <1>4
  <2> QED BY <1>1, <1>3, <2>1, <2>2 DEF Primeiras
<1>7. Cota'
  <2>1. /\ Cardinality(Primeiras) <= MaxArquivos
        /\ \A a \in F!Previas : arquivos[a].versao <= MaxVersoes
        /\ Cardinality(entregas) <= MaxEntregas
    BY <1>0 DEF Cota
  <2>2. /\ IsFiniteSet(Primeiras) /\ IsFiniteSet(entregas)
        /\ Cardinality(Primeiras) \in Nat /\ Cardinality(entregas) \in Nat
    BY Finitos, FS_CardinalityType
  <2>3. Cardinality(Primeiras') <= MaxArquivos
    <3>1. CASE p.tipo = "previa" /\ p.anterior = Nada
      <4>1. Cardinality(Primeiras) < MaxArquivos
        BY <1>2, <3>1 DEF Prevista
      <4>2. Cardinality(Primeiras \cup {o}) = IF o \in Primeiras THEN Cardinality(Primeiras) ELSE Cardinality(Primeiras) + 1
        BY <2>2, FS_AddElement
      <4> QED BY <1>3, <1>6, <2>2, <3>1, <4>1, <4>2
    <3>2. CASE ~(p.tipo = "previa" /\ p.anterior = Nada)
      BY <1>6, <2>1, <3>2
    <3> QED BY <3>1, <3>2
  <2>4. Cardinality(entregas') <= MaxEntregas
    <3>1. CASE p.tipo = "entrega"
      <4>1. Cardinality(entregas) < MaxEntregas
        BY <1>2, <3>1 DEF Prevista
      <4>2. Cardinality(entregas \cup {o}) = IF o \in entregas THEN Cardinality(entregas) ELSE Cardinality(entregas) + 1
        BY <2>2, FS_AddElement
      <4> QED BY <1>3, <1>5, <2>2, <3>1, <4>1, <4>2
    <3>2. CASE p.tipo # "entrega"
      BY <1>5, <2>1, <3>2
    <3> QED BY <3>1, <3>2
  <2>5. p.versao <= MaxVersoes
    BY <1>2, <1>3 DEF Prevista
  <2>6. \A a \in F!Previas' : arquivos'[a].versao <= MaxVersoes
    BY <1>1, <1>4, <2>1, <2>5
  <2> QED BY <2>3, <2>4, <2>6 DEF Cota
<1>8. F!HistoricoInteiro'
  <2> SUFFICES ASSUME NEW a \in F!Vivos', arquivos'[a].anterior # Nada
               PROVE  /\ arquivos'[a].anterior \in F!Previas'
                      /\ arquivos'[a].versao = arquivos'[arquivos'[a].anterior].versao + 1
                      /\ \A b \in F!Vivos' \ {a} : arquivos'[b].anterior # arquivos'[a].anterior
    BY DEF F!HistoricoInteiro
  <2>1. CASE a = o
    <3>1. /\ p.anterior \in F!Vivos /\ p.anterior \in F!Previas
          /\ \A b \in F!Vivos : arquivos[b].anterior # p.anterior
          /\ p.versao = arquivos[p.anterior].versao + 1
      BY <1>1, <1>2, <2>1 DEF Prevista
    <3>2. p.anterior \in F!Previas' /\ arquivos'[p.anterior] = arquivos[p.anterior]
      BY <1>1, <3>1
    <3>3. \A b \in F!Vivos' \ {o} : b \in F!Vivos /\ arquivos'[b] = arquivos[b]
      BY <1>1
    <3> QED BY <1>1, <2>1, <3>1, <3>2, <3>3
  <2>2. CASE a # o
    <3>1. a \in F!Vivos /\ arquivos'[a] = arquivos[a]
      BY <1>1, <2>2
    <3>2. /\ arquivos[a].anterior \in F!Previas
          /\ arquivos[a].versao = arquivos[arquivos[a].anterior].versao + 1
          /\ \A b \in F!Vivos \ {a} : arquivos[b].anterior # arquivos[a].anterior
      BY <1>0, <3>1 DEF F!HistoricoInteiro
    <3>3. arquivos[a].anterior \in F!Previas' /\ arquivos'[arquivos[a].anterior] = arquivos[arquivos[a].anterior]
      BY <1>1, <1>4, <3>2
    <3>4. p.anterior # arquivos[a].anterior
      BY <1>1, <1>2, <1>4, <3>1, <3>2 DEF Prevista
    <3> QED BY <1>1, <3>1, <3>2, <3>3, <3>4
  <2> QED BY <2>1, <2>2
<1>9. p.versao > 0
  BY <1>2, <1>3 DEF Prevista
<1>10. \A a \in F!Vivos' : arquivos'[a].versao > 0
  BY <1>0, <1>1, <1>9
<1> QED BY <1>1, <1>7, <1>8, <1>10 DEF Historia

-----------------------------------------------------------------------------
(* The objects: each is named by one row, the worker or one request, and by *)
(* two of them only while what a commit did is being looked for.            *)

(* A request that still has an object of its own.                           *)
Espera(r) == pedido[r] # Nada /\ pedido[r].fase \in {"gravar", "licenca", "conferir"}

(* The objects the worker wrote.                                            *)
Proprios == IF worker = Nada THEN {} ELSE IF worker.fase = "comprimir" THEN F!Novos ELSE {worker.obj}

Separados ==
    /\ \A a \in F!Previas : arquivos[a].licencas = {} /\ arquivos[a].obj # jobs[a].obj
    /\ \A a, b \in F!Vivos : \A x \in F!Referencias(a) : x \in F!Referencias(b) => a = b

DoWorker == worker # Nada =>
    /\ \A a \in F!Vivos : \A x \in F!Referencias(a) : x \in Proprios =>
           worker.fase = "conferir" /\ a = worker.arq /\ a \in F!Previas
    /\ worker.fase # "conferir" => Proprios \subseteq objetos
    /\ worker.fase = "conferir" /\ worker.arq \in F!Previas /\ worker.obj \notin incertos
           => jobs[worker.arq].estado = "pronto"
    /\ worker.fase = "comprimir" => worker.obj # worker.tag /\ worker.tag # arquivos[worker.arq].obj

DosPedidos ==
    \A r \in Pedidos : Espera(r) =>
        /\ \A a \in F!Vivos : pedido[r].obj \in F!Referencias(a) =>
               pedido[r].fase = "conferir" /\ pedido[r].obj = arquivos[a].obj
        /\ pedido[r].obj \notin Proprios
        /\ \A s \in Pedidos \ {r} : Espera(s) => pedido[s].obj # pedido[r].obj
        /\ pedido[r].fase # "conferir" => pedido[r].obj \in objetos
        /\ pedido[r].fase = "gravar" /\ worker # Nada => worker.arq # pedido[r].obj

Guardados == Separados /\ DoWorker /\ DosPedidos /\ F!SemReferenciaMorta

(* A step, by the row d that it gives the objects of T, which no other      *)
(* names, and by the objects R that it may remove from the storage.         *)
Antes(b, x) == b \in F!Vivos /\ x \in F!Referencias(b)

Passa(d, T) ==
    /\ \A b \in F!Vivos' : \A x \in F!Referencias(b)' : Antes(b, x) \/ (b = d /\ x \in T)
    /\ \A b, x : x \in T /\ Antes(b, x) => b = d
    /\ T \subseteq objetos

Nomeiam ==
    /\ \A b \in F!Previas' : arquivos'[b].licencas = {} /\ arquivos'[b].obj # jobs'[b].obj
    /\ \A b \in F!Vivos' : b \in F!Vivos /\ arquivos[b].obj \in F!Referencias(b)'
                               => arquivos'[b].obj = arquivos[b].obj

Retira(R) ==
    /\ objetos \ R \subseteq objetos' /\ incertos \subseteq incertos'
    /\ \A b \in F!Vivos' : \A x \in F!Referencias(b)' : x \in R => x \in objetos' \/ x \in incertos'

Esperam(d, T, R) ==
    \A s \in Pedidos : Espera(s)' =>
        /\ Espera(s) /\ pedido'[s].obj = pedido[s].obj
        /\ pedido'[s].fase = pedido[s].fase \/ pedido'[s].fase = "conferir"
        /\ pedido[s].obj \in T => pedido'[s].fase = "conferir" /\ pedido[s].obj = arquivos'[d].obj
        /\ pedido'[s].fase # "conferir" => pedido[s].obj \notin R
        /\ pedido[s].obj \notin Proprios'
        /\ pedido'[s].fase = "gravar" /\ worker' # Nada => worker'.arq # pedido[s].obj

LEMMA GuardadosSeguem ==
    ASSUME Guardados, NEW d, NEW T, NEW R, Passa(d, T), Nomeiam, Retira(R), Esperam(d, T, R), DoWorker'
    PROVE  Guardados'
<1>0. Separados /\ DosPedidos /\ F!SemReferenciaMorta
  BY DEF Guardados
<1>1. Separados'
  <2>1. ASSUME NEW a \in F!Vivos', NEW b \in F!Vivos', NEW x, x \in F!Referencias(a)', x \in F!Referencias(b)'
        PROVE  a = b
    <3>1. /\ Antes(a, x) \/ (a = d /\ x \in T)
          /\ Antes(b, x) \/ (b = d /\ x \in T)
      BY <2>1 DEF Passa
    <3>2. Antes(a, x) /\ Antes(b, x) => a = b
      BY <1>0 DEF Separados, Antes
    <3> QED BY <3>1, <3>2 DEF Passa
  <2> QED BY <2>1 DEF Separados, Nomeiam
<1>2. F!SemReferenciaMorta'
  <2>1. ASSUME NEW b \in F!Vivos', NEW x, x \in F!Referencias(b)', x \notin incertos' PROVE x \in objetos'
    <3>1. x \in objetos
      BY <1>0, <2>1 DEF Passa, Antes, Retira, F!SemReferenciaMorta
    <3> QED BY <2>1, <3>1 DEF Retira
  <2> QED BY <2>1 DEF F!SemReferenciaMorta
<1>3. DosPedidos'
  <2> SUFFICES ASSUME NEW r \in Pedidos, Espera(r)'
               PROVE  /\ \A a \in F!Vivos' : pedido'[r].obj \in F!Referencias(a)' =>
                             pedido'[r].fase = "conferir" /\ pedido'[r].obj = arquivos'[a].obj
                      /\ pedido'[r].obj \notin Proprios'
                      /\ \A s \in Pedidos \ {r} : Espera(s)' => pedido'[s].obj # pedido'[r].obj
                      /\ pedido'[r].fase # "conferir" => pedido'[r].obj \in objetos'
                      /\ pedido'[r].fase = "gravar" /\ worker' # Nada => worker'.arq # pedido'[r].obj
    BY DEF DosPedidos
  <2>1. /\ Espera(r) /\ pedido'[r].obj = pedido[r].obj
        /\ pedido'[r].fase = pedido[r].fase \/ pedido'[r].fase = "conferir"
        /\ pedido[r].obj \in T => pedido'[r].fase = "conferir" /\ pedido[r].obj = arquivos'[d].obj
        /\ pedido'[r].fase # "conferir" => pedido[r].obj \notin R
        /\ pedido[r].obj \notin Proprios'
        /\ pedido'[r].fase = "gravar" /\ worker' # Nada => worker'.arq # pedido[r].obj
    BY DEF Esperam
  <2>2. /\ \A a \in F!Vivos : pedido[r].obj \in F!Referencias(a) =>
               pedido[r].fase = "conferir" /\ pedido[r].obj = arquivos[a].obj
        /\ \A s \in Pedidos \ {r} : Espera(s) => pedido[s].obj # pedido[r].obj
        /\ pedido[r].fase # "conferir" => pedido[r].obj \in objetos
    BY <1>0, <2>1 DEF DosPedidos
  <2>3. ASSUME NEW a \in F!Vivos', pedido'[r].obj \in F!Referencias(a)'
        PROVE  pedido'[r].fase = "conferir" /\ pedido'[r].obj = arquivos'[a].obj
    <3>1. CASE Antes(a, pedido[r].obj)
      <4>1. pedido[r].fase = "conferir" /\ pedido[r].obj = arquivos[a].obj /\ a \in F!Vivos
        BY <2>2, <3>1 DEF Antes
      <4> QED BY <2>1, <2>3, <4>1 DEF Nomeiam
    <3>2. CASE a = d /\ pedido[r].obj \in T
      BY <2>1, <3>2
    <3> QED BY <2>1, <2>3, <3>1, <3>2 DEF Passa
  <2>4. \A s \in Pedidos \ {r} : Espera(s)' => pedido'[s].obj # pedido'[r].obj
    BY <2>1, <2>2 DEF Esperam
  <2>5. pedido'[r].fase # "conferir" => pedido'[r].obj \in objetos'
    BY <2>1, <2>2 DEF Retira
  <2> QED BY <2>1, <2>3, <2>4, <2>5
<1> QED BY <1>1, <1>2, <1>3 DEF Guardados

(* The worker goes on with what it has. *)
LEMMA WorkerSegue ==
    ASSUME Guardados, NEW d, NEW T, NEW R, Passa(d, T), Retira(R), UNCHANGED worker,
           \A b \in F!Vivos' : b \in F!Previas => b \in F!Previas',
           \A b : worker # Nada /\ worker.fase = "comprimir" /\ b = worker.arq
                      => F!Referencias(b)' = F!Referencias(b) /\ arquivos'[b].obj = arquivos[b].obj,
           \A x \in T : x \notin Proprios,
           worker # Nada /\ worker.fase # "conferir" => \A x \in R : x \notin Proprios,
           worker # Nada /\ worker.fase = "conferir" /\ worker.arq \in F!Previas' /\ worker.obj \notin incertos'
               => jobs'[worker.arq].estado = "pronto"
    PROVE  DoWorker' /\ Proprios' = Proprios
<1>0. DoWorker
  BY DEF Guardados
<1>1. Proprios' = Proprios
  <2>1. ASSUME NEW a, a = worker.arq, worker # Nada, worker.fase = "comprimir" PROVE F!Novos' = F!Novos
    <3>1. F!Referencias(a)' = F!Referencias(a)
      BY <2>1
    <3>2. F!Novos' = F!Destino \ F!Referencias(a)'
      BY <2>1 DEF F!Novos, F!Destino
    <3> QED BY <2>1, <3>1, <3>2 DEF F!Novos
  <2> QED BY <2>1 DEF Proprios
<1>2. CASE worker = Nada
  BY <1>1, <1>2 DEF DoWorker
<1>3. CASE worker # Nada
  <2>1. \A a \in F!Vivos' : \A x \in F!Referencias(a)' : x \in Proprios' =>
            worker'.fase = "conferir" /\ a = worker'.arq /\ a \in F!Previas'
    BY <1>0, <1>1, <1>3 DEF DoWorker, Passa, Antes
  <2>2. worker'.fase # "conferir" => Proprios' \subseteq objetos'
    BY <1>0, <1>1, <1>3 DEF DoWorker, Retira
  <2>3. worker'.fase = "comprimir" => worker'.obj # worker'.tag /\ worker'.tag # arquivos'[worker'.arq].obj
    BY <1>0, <1>3 DEF DoWorker
  <2> QED BY <1>1, <1>3, <2>1, <2>2, <2>3 DEF DoWorker
<1> QED BY <1>1, <1>2, <1>3

(* The rows left keep what they name. *)
LEMMA NadaPassa ==
    ASSUME Base, Guardados, F!Vivos' \subseteq F!Vivos,
           \A b \in F!Vivos' : b \in F!Previas' <=> b \in F!Previas,
           \A b \in F!Vivos' : /\ F!Referencias(b)' = F!Referencias(b)
                               /\ arquivos'[b].obj = arquivos[b].obj
                               /\ b \in F!Previas => /\ arquivos'[b].licencas = arquivos[b].licencas
                                                     /\ jobs'[b].obj = jobs[b].obj
    PROVE  Passa(Nada, {}) /\ Nomeiam
<1>1. F!Previas' \subseteq F!Vivos'
  BY DEF F!Previas
<1> QED BY <1>1 DEF Passa, Nomeiam, Antes, Guardados, Separados

(* The requests go on, or one of them gives up, and the worker lets go or   *)
(* goes on.                                                                 *)
LEMMA PedidosParados ==
    ASSUME Guardados, NEW d, NEW T, NEW R,
           \A s \in Pedidos : Espera(s)' =>
               /\ Espera(s) /\ pedido'[s].obj = pedido[s].obj
               /\ pedido'[s].fase = pedido[s].fase \/ pedido'[s].fase = "conferir"
               /\ pedido[s].obj \notin T
               /\ pedido'[s].fase # "conferir" => pedido[s].obj \notin R,
           Proprios' \subseteq Proprios, worker' # Nada => worker # Nada /\ worker'.arq = worker.arq
    PROVE  Esperam(d, T, R)
BY DEF Guardados, DosPedidos, Esperam

LEMMA SemPedidos ==
    ASSUME UNCHANGED pedido
    PROVE  \A s \in Pedidos : Espera(s)' => /\ Espera(s) /\ pedido'[s].obj = pedido[s].obj
                                            /\ pedido'[s].fase = pedido[s].fase
BY DEF Espera

(* The rows keep what they name, and R is named by none of them. *)
LEMMA NadaRetira ==
    ASSUME NEW R, objetos \ R \subseteq objetos', incertos \subseteq incertos',
           \A b \in F!Vivos' : \A x \in F!Referencias(b)' : x \in R => x \in incertos'
    PROVE  Retira(R)
BY DEF Retira

(* The requests that go on or give up: only one that failed, and only if    *)
(* its row was not saved, takes its object back.                            *)
LEMMA GuardaPedido ==
    ASSUME Base, Guardados, NEW r \in Pedidos,
           F!NaoGravar(r) \/ F!Conferir(r) \/ F!Morrer(r) \/ F!NaoGravarLicenca(r) \/ F!Listar(r)
    PROVE  Guardados'
<1> DEFINE o == pedido[r].obj
           R == IF \/ F!Na(r, "conferir") /\ ~(F!Persistido(pedido[r]))
                   \/ F!Na(r, "licenca")
                THEN {o} ELSE {}
           q == [pedido[r] EXCEPT !.fase = "conferir"]
           l == [pedido[r] EXCEPT !.fase = "substituir", !.lista = entregas \ {o}]
<1>0. Separados /\ DoWorker /\ DosPedidos /\ Tabelas /\ Atores
  BY DEF Guardados, Base
<1>1. UNCHANGED <<arquivos, jobs, entregas, objeto, worker, incertos>> /\ pedido[r] # Nada
  BY DEF F!NaoGravar, F!Conferir, F!Morrer, F!NaoGravarLicenca, F!Listar, F!Na
<1>2. objetos \ R \subseteq objetos'
  <2>1. CASE F!Conferir(r)
    BY <2>1 DEF F!Conferir
  <2>2. CASE F!NaoGravarLicenca(r)
    BY <2>2 DEF F!NaoGravarLicenca, F!Sobram
  <2>3. CASE F!NaoGravar(r) \/ F!Morrer(r) \/ F!Listar(r)
    BY <2>3 DEF F!NaoGravar, F!Morrer, F!Listar
  <2> QED BY <2>1, <2>2, <2>3
<1>3. pedido[r] \in F!PedidoTipo
  BY <1>0, <1>1, Pedida
<1>4. /\ q.obj = o /\ q.fase = "conferir"
      /\ l.obj = o /\ l.fase = "substituir"
  BY <1>3 DEF F!PedidoTipo
<1>5. \/ pedido' = [pedido EXCEPT ![r] = Nada]
      \/ pedido' = [pedido EXCEPT ![r] = q] /\ F!Na(r, "gravar")
      \/ pedido' = [pedido EXCEPT ![r] = l]
  BY <1>0 DEF F!NaoGravar, F!Conferir, F!Morrer, F!NaoGravarLicenca, F!Listar, Atores
<1> HIDE DEF q, l
<1>6. /\ \A s \in Pedidos \ {r} : pedido'[s] = pedido[s]
      /\ \/ pedido'[r] = Nada
         \/ pedido'[r] = q /\ F!Na(r, "gravar")
         \/ pedido'[r] = l
  BY <1>0, <1>5 DEF Atores
<1>7. /\ F!Vivos' = F!Vivos /\ F!Previas' = F!Previas
      /\ \A b \in F!Vivos : F!Referencias(b)' = F!Referencias(b)
  BY <1>1, LinhasFicam
<1>8. \A b \in F!Vivos : \A x \in F!Referencias(b) : x \notin R
  <2> SUFFICES ASSUME NEW b \in F!Vivos, o \in F!Referencias(b), R # {} PROVE FALSE
    OBVIOUS
  <2>1. Espera(r)
    BY DEF Espera, F!Na
  <2>2. pedido[r].fase = "conferir" /\ o = arquivos[b].obj
    BY <1>0, <2>1 DEF DosPedidos
  <2>3. ~(F!Persistido(pedido[r]))
    BY <2>2 DEF F!Na
  <2> QED BY <2>2, <2>3 DEF F!Persistido
<1>9. R # {} => Espera(r) /\ R = {o}
  BY DEF Espera, F!Na
<1>10. \A x \in R : x \notin Proprios
  BY <1>0, <1>9 DEF DosPedidos
<1>11. R # {} => ~(F!Na(r, "gravar"))
  BY DEF F!Na
<1> HIDE DEF R
<1>12. \A b \in F!Vivos : arquivos'[b] = arquivos[b] /\ jobs'[b] = jobs[b]
  BY <1>1
<1>13. Passa(Nada, {}) /\ Nomeiam
  BY <1>7, <1>12, NadaPassa
<1>14. Retira(R)
  BY <1>1, <1>2, <1>7, <1>8, NadaRetira
<1>15. DoWorker' /\ Proprios' = Proprios
  <2>1. \A b : worker # Nada /\ worker.fase = "comprimir" /\ b = worker.arq
                 => F!Referencias(b)' = F!Referencias(b) /\ arquivos'[b].obj = arquivos[b].obj
    BY <1>1 DEF F!Referencias
  <2>2. worker # Nada /\ worker.fase = "conferir" /\ worker.arq \in F!Previas' /\ worker.obj \notin incertos'
            => jobs'[worker.arq].estado = "pronto"
    BY <1>0, <1>1, <1>7 DEF DoWorker
  <2> QED BY <1>1, <1>7, <1>10, <1>13, <1>14, <2>1, <2>2, WorkerSegue
<1>16. Esperam(Nada, {}, R)
  <2>1. ASSUME NEW s \in Pedidos, Espera(s)'
        PROVE  /\ Espera(s) /\ pedido'[s].obj = pedido[s].obj
               /\ pedido'[s].fase = pedido[s].fase \/ pedido'[s].fase = "conferir"
               /\ pedido'[s].fase # "conferir" => pedido[s].obj \notin R
    <3>1. CASE s = r
      BY <1>1, <1>4, <1>6, <2>1, <3>1 DEF Espera, F!Na
    <3>2. CASE s # r
      <4>1. pedido'[s] = pedido[s] /\ Espera(s)
        BY <1>6, <2>1, <3>2 DEF Espera
      <4>2. pedido[s].obj \notin R
        BY <1>0, <1>9, <3>2, <4>1 DEF DosPedidos
      <4> QED BY <4>1, <4>2
    <3> QED BY <3>1, <3>2
  <2> QED BY <1>1, <1>15, <2>1, PedidosParados
<1> QED BY <1>13, <1>14, <1>15, <1>16, GuardadosSeguem

(* What a row that goes named, nothing else names. *)
LEMMA GuardaSemLinha ==
    ASSUME Base, Base', Guardados, NEW a \in F!Vivos, F!Apagar(a), ~(F!EmUso(a)), UNCHANGED <<worker, incertos>>,
           \A s \in Pedidos : Espera(s)' => Espera(s) /\ pedido'[s] = pedido[s]
    PROVE  Guardados'
<1> DEFINE R == F!Referencias(a)
<1>0. Separados /\ DoWorker /\ DosPedidos /\ Tabelas /\ Atores /\ Travados
  BY DEF Guardados, Base
<1>1. /\ arquivos' = [arquivos EXCEPT ![a] = Nada] /\ jobs' = [jobs EXCEPT ![a] = Nada]
      /\ objetos \ R \subseteq objetos'
  BY DEF F!Apagar, F!Sobram
<1>2. F!Vivos' = F!Vivos \ {a} /\ F!Previas' = F!Previas \ {a} /\ \A b \in F!Vivos' : arquivos'[b] = arquivos[b]
  BY <1>0, <1>1, Removida
<1>3. \A b \in F!Vivos' : jobs'[b] = jobs[b] /\ b \in F!Vivos /\ (b \in F!Previas' <=> b \in F!Previas)
  BY <1>0, <1>1, <1>2, Linha DEF Tabelas
<1>4. \A b \in F!Vivos' : F!Referencias(b)' = F!Referencias(b)
  BY <1>2, <1>3, MesmosNomes DEF Base
<1> HIDE DEF R
<1>5. \A b \in F!Vivos' : \A x \in F!Referencias(b) : x \notin R
  BY <1>0, <1>2 DEF Separados, R
<1>6. Passa(Nada, {}) /\ Nomeiam
  BY <1>2, <1>3, <1>4, NadaPassa
<1>7. Retira(R)
  BY <1>1, <1>4, <1>5, NadaRetira
<1>8. DoWorker' /\ Proprios' = Proprios
  <2>1. \A b : worker # Nada /\ worker.fase = "comprimir" /\ b = worker.arq
                 => F!Referencias(b)' = F!Referencias(b) /\ arquivos'[b].obj = arquivos[b].obj
    <3> SUFFICES ASSUME worker # Nada, worker.fase = "comprimir", NEW b, b = worker.arq
                 PROVE  F!Referencias(b)' = F!Referencias(b) /\ arquivos'[b].obj = arquivos[b].obj
      OBVIOUS
    <3>1. b \in F!Previas /\ b # a
      BY <1>0 DEF Travados, F!EmUso
    <3>2. b \in F!Vivos'
      BY <1>0, <1>2, <3>1, Job
    <3> QED BY <1>2, <1>4, <3>2
  <2>2. worker # Nada /\ worker.fase # "conferir" => \A x \in R : x \notin Proprios
    BY <1>0 DEF DoWorker, R
  <2>3. worker # Nada /\ worker.fase = "conferir" /\ worker.arq \in F!Previas' /\ worker.obj \notin incertos'
            => jobs'[worker.arq].estado = "pronto"
    <3>1. \A b \in F!Previas' : b \in F!Previas /\ b \in F!Vivos'
      BY <1>0, <1>2, Job
    <3> QED BY <1>0, <1>3, <3>1 DEF DoWorker
  <2> QED BY <1>3, <1>6, <1>7, <2>1, <2>2, <2>3, WorkerSegue
<1>9. Esperam(Nada, {}, R)
  <2>1. ASSUME NEW s \in Pedidos, Espera(s)', pedido'[s].fase # "conferir" PROVE pedido[s].obj \notin R
    BY <1>0, <2>1 DEF DosPedidos, R
  <2> QED BY <1>8, <2>1, PedidosParados
<1> QED BY <1>6, <1>7, <1>8, <1>9, GuardadosSeguem

LEMMA GuardaRemocao ==
    ASSUME Base, Base', Guardados, F!HistoricoInteiro,
           \/ F!ExcluirEntrega
           \/ \E a \in F!Vivos : F!ApagarArquivo(a)
           \/ \E r \in Pedidos : F!ReplacePrevious(r) /\ \E a \in entregas : F!Apagar(a)
    PROVE  Guardados'
<1>0. \A a \in entregas : a \in F!Vivos /\ ~(F!EmUso(a))
  BY EntregaSolta
<1>1. ASSUME NEW a \in F!Vivos, F!Apagar(a), ~(F!EmUso(a)), UNCHANGED <<pedido, worker, incertos>> PROVE Guardados'
  <2>1. \A s \in Pedidos : Espera(s)' => Espera(s) /\ pedido'[s] = pedido[s]
    BY <1>1 DEF Espera
  <2> QED BY <1>1, <2>1, GuardaSemLinha
<1>2. ASSUME NEW r \in Pedidos, F!ReplacePrevious(r), NEW a \in entregas, F!Apagar(a) PROVE Guardados'
  <2>1. pedido[r] # Nada /\ pedido[r].fase = "substituir" /\ UNCHANGED <<worker, incertos>>
    BY <1>2 DEF F!ReplacePrevious, F!Na
  <2>2. pedido[r] \in F!PedidoTipo /\ pedido \in [Pedidos -> F!PedidoTipo \cup {Nada}]
    BY <2>1, Pedida DEF Base, Atores
  <2>3. \/ pedido' = [pedido EXCEPT ![r] = Nada]
        \/ \E b \in pedido[r].lista : pedido' = [pedido EXCEPT ![r].lista = @ \ {b}]
    BY <1>2 DEF F!ReplacePrevious
  <2>4. (\A s \in Pedidos \ {r} : pedido'[s] = pedido[s]) /\ (pedido'[r] = Nada \/ pedido'[r].fase = "substituir")
    BY <2>1, <2>2, <2>3 DEF F!PedidoTipo
  <2>5. \A s \in Pedidos : Espera(s)' => Espera(s) /\ pedido'[s] = pedido[s]
    BY <2>4 DEF Espera
  <2> QED BY <1>0, <1>2, <2>1, <2>5, GuardaSemLinha
<1>3. CASE F!ExcluirEntrega
  BY <1>0, <1>1, <1>3 DEF F!ExcluirEntrega, F!Remove
<1>4. CASE \E a \in F!Vivos : F!ApagarArquivo(a)
  BY <1>1, <1>4 DEF F!ApagarArquivo
<1> QED BY <1>2, <1>3, <1>4

(* The rows keep what they name and nothing leaves the storage.             *)
LEMMA GuardaIgual ==
    ASSUME Base, Guardados, F!Vivos' = F!Vivos, F!Previas' = F!Previas,
           \A b \in F!Vivos : F!Referencias(b)' = F!Referencias(b) /\ arquivos'[b].obj = arquivos[b].obj,
           \A b \in F!Previas : /\ arquivos'[b].licencas = arquivos[b].licencas
                                /\ jobs'[b].obj = jobs[b].obj,
           \A s \in Pedidos : Espera(s)' => Espera(s) /\ pedido'[s] = pedido[s],
           worker' \in {worker, Nada}, objetos \subseteq objetos', incertos \subseteq incertos',
           worker # Nada /\ worker' = worker /\ worker.fase = "conferir" /\ worker.arq \in F!Previas
               => jobs'[worker.arq].estado = jobs[worker.arq].estado \/ worker.obj \in incertos'
    PROVE  Guardados'
<1> DEFINE R == {}
<1>0. DoWorker /\ Tabelas /\ Travados
  BY DEF Guardados, Base
<1>1. Passa(Nada, {}) /\ Nomeiam
  BY NadaPassa
<1>2. Retira(R)
  BY NadaRetira
<1>3. DoWorker' /\ Proprios' \subseteq Proprios
  <2>1. CASE worker' = Nada
    BY <2>1 DEF DoWorker, Proprios
  <2>2. CASE worker' = worker
    <3>1. \A b : worker # Nada /\ worker.fase = "comprimir" /\ b = worker.arq
                   => F!Referencias(b)' = F!Referencias(b) /\ arquivos'[b].obj = arquivos[b].obj
      BY <1>0, Job DEF Travados
    <3>2. worker # Nada /\ worker.fase = "conferir" /\ worker.arq \in F!Previas' /\ worker.obj \notin incertos'
              => jobs'[worker.arq].estado = "pronto"
      BY <1>0, <2>2 DEF DoWorker
    <3> HIDE DEF R
    <3>3. \A x : x \notin {} /\ x \notin R
      BY DEF R
    <3> QED BY <1>1, <1>2, <2>2, <3>1, <3>2, <3>3, WorkerSegue
  <2> QED BY <2>1, <2>2
<1>4. Esperam(Nada, {}, R)
  <2>1. worker' # Nada => worker # Nada /\ worker'.arq = worker.arq
    OBVIOUS
  <2> QED BY <1>3, <2>1, PedidosParados
<1> HIDE DEF R
<1> QED BY <1>1, <1>2, <1>3, <1>4, GuardadosSeguem

LEMMA GuardaEstado ==
    ASSUME Base, Guardados,
           \/ F!IniciarLote \/ F!Reiniciar \/ F!TagConfirmar \/ F!EntregarProducao \/ F!FecharConcluidos
           \/ \E a \in F!Vivos : F!Anexar(a) \/ F!TagErro(a) \/ F!RegenerarPrevia(a)
    PROVE  Guardados'
<1>0. ASSUME UNCHANGED pedido PROVE \A s \in Pedidos : Espera(s)' => Espera(s) /\ pedido'[s] = pedido[s]
  BY <1>0 DEF Espera
<1>1. ASSUME UNCHANGED arquivos
      PROVE  /\ \A b \in F!Vivos : arquivos'[b].obj = arquivos[b].obj
             /\ \A b \in F!Previas : arquivos'[b].licencas = arquivos[b].licencas
  BY <1>1
<1>2. CASE F!IniciarLote \/ \E a \in F!Vivos : F!TagErro(a) \/ F!RegenerarPrevia(a)
  <2>1. UNCHANGED <<arquivos, pedido, objetos, worker>>
    BY <1>2 DEF F!IniciarLote, F!TagErro, F!RegenerarPrevia
  <2>2. /\ F!Vivos' = F!Vivos /\ F!Previas' = F!Previas /\ incertos \subseteq incertos'
        /\ \A b \in F!Vivos : F!Referencias(b)' = F!Referencias(b)
        /\ \A b \in F!Previas : jobs'[b].obj = jobs[b].obj
        /\ \A b \in F!Previas : jobs'[b].estado = jobs[b].estado \/ F!EmDuvida({b}) \subseteq incertos'
    BY <1>2, PassoLote, PassoEstado
  <2>3. worker # Nada /\ worker.fase = "conferir" /\ worker.arq \in F!Previas
            => jobs'[worker.arq].estado = jobs[worker.arq].estado \/ worker.obj \in incertos'
    BY <2>2 DEF F!EmDuvida
  <2> QED BY <1>0, <1>1, <2>1, <2>2, <2>3, GuardaIgual
<1>3. CASE F!Reiniciar \/ F!TagConfirmar \/ F!EntregarProducao \/ F!FecharConcluidos
  <2>1. UNCHANGED <<arquivos, jobs, entregas, pedido, objetos, incertos>> /\ worker' \in {worker, Nada}
    BY <1>3 DEF F!Reiniciar, F!TagConfirmar, F!EntregarProducao, F!FecharConcluidos
  <2>2. /\ F!Vivos' = F!Vivos /\ F!Previas' = F!Previas
        /\ \A b \in F!Vivos : F!Referencias(b)' = F!Referencias(b)
    BY <2>1, LinhasFicam
  <2>3. /\ \A b : jobs'[b].obj = jobs[b].obj /\ jobs'[b].estado = jobs[b].estado
        /\ objetos \subseteq objetos' /\ incertos \subseteq incertos'
    BY <2>1
  <2> QED BY <1>0, <1>1, <2>1, <2>2, <2>3, GuardaIgual
<1>4. ASSUME NEW a \in F!Vivos, F!Anexar(a) PROVE Guardados'
  <2>1. UNCHANGED <<jobs, pedido, objetos, worker, incertos>>
    BY <1>4 DEF F!Anexar
  <2>2. /\ F!Vivos' = F!Vivos /\ F!Previas' = F!Previas
        /\ \A b \in F!Vivos : F!Referencias(b)' = F!Referencias(b)
        /\ \A b \in F!Vivos : arquivos'[b].obj = arquivos[b].obj /\ arquivos'[b].licencas = arquivos[b].licencas
    BY <1>4, PassoAnexar
  <2>3. /\ \A b : jobs'[b].obj = jobs[b].obj /\ jobs'[b].estado = jobs[b].estado
        /\ objetos \subseteq objetos' /\ incertos \subseteq incertos'
    BY <2>1
  <2>4. \A b \in F!Previas : arquivos'[b].licencas = arquivos[b].licencas
    BY <2>2 DEF F!Previas
  <2> QED BY <1>0, <2>1, <2>2, <2>3, <2>4, GuardaIgual
<1> QED BY <1>2, <1>3, <1>4

(* Nobody names an object that is not written yet. *)
LEMMA Fresco ==
    ASSUME Base, NEW x \in Nat, x >= objeto
    PROVE  /\ \A b \in F!Vivos : x \notin F!Referencias(b) /\ x # b
           /\ \A r \in Pedidos : pedido[r] # Nada => pedido[r].obj # x
           /\ worker # Nada => worker.arq # x
           /\ x \notin Proprios
<1>0. objeto \in Nat /\ Novos /\ Tabelas /\ Atores /\ x # Nada
  BY PortalConstantes DEF Base, Armazem, PortalAssumption
<1>1. \A b \in F!Vivos : x \notin F!Referencias(b) /\ x # b
  <2>1. \A b \in F!Vivos : b \in Nat /\ F!Referencias(b) \subseteq Nat
    BY <1>0, Linha, Nomes, Numeros
  <2> QED BY <1>0, <2>1 DEF Novos
<1>2. \A r \in Pedidos : pedido[r] # Nada => pedido[r].obj # x
  <2>1. \A r \in Pedidos : pedido[r] # Nada => pedido[r].obj \in Nat
    BY <1>0, Pedida, Numeros
  <2> QED BY <1>0, <2>1 DEF Novos
<1>3. worker # Nada => worker.arq # x /\ worker.obj # x /\ worker.tag # x
  <2>1. worker # Nada => /\ worker.arq \in Nat /\ worker.obj \in Nat
                         /\ worker.tag # Nada => worker.tag \in Nat
    BY <1>0, Trabalhando, Numeros DEF F!ObjetoOuNada
  <2> QED BY <1>0, <2>1 DEF Novos
<1>4. x \notin Proprios
  BY <1>3 DEF Proprios, F!Novos, F!Destino
<1> QED BY <1>1, <1>2, <1>3, <1>4

(* The worker takes objects nobody names. *)
LEMMA GuardaTomada ==
    ASSUME Base, Guardados, UNCHANGED <<arquivos, jobs, entregas, pedido, incertos>>, objetos \subseteq objetos',
           NEW a \in F!Vivos, worker' # Nada, worker'.arq = a, worker'.fase # "conferir",
           \A x \in Proprios' : x \in Nat /\ x >= objeto /\ x \in objetos',
           worker'.fase = "comprimir" => worker'.obj # worker'.tag /\ worker'.tag # arquivos[a].obj
    PROVE  Guardados'
<1>0. DosPedidos /\ Travados
  BY DEF Guardados, Base
<1>1. /\ F!Vivos' = F!Vivos /\ F!Previas' = F!Previas
      /\ \A b \in F!Vivos : F!Referencias(b)' = F!Referencias(b)
  BY LinhasFicam
<1>2. \A b \in F!Vivos : arquivos'[b] = arquivos[b] /\ jobs'[b] = jobs[b]
  OBVIOUS
<1>3. Passa(Nada, {}) /\ Nomeiam
  BY <1>1, <1>2, NadaPassa
<1>4. \A x \in Proprios' : /\ \A b \in F!Vivos : x \notin F!Referencias(b)
                           /\ \A r \in Pedidos : pedido[r] # Nada => pedido[r].obj # x
  BY Fresco
<1> DEFINE R == {}
<1>5. Retira(R)
  BY NadaRetira
<1>6. DoWorker'
  <2>1. \A b \in F!Vivos' : \A x \in F!Referencias(b)' : x \notin Proprios'
    BY <1>1, <1>4
  <2>2. worker'.fase = "comprimir" => worker'.obj # worker'.tag /\ worker'.tag # arquivos'[worker'.arq].obj
    BY <1>2
  <2> QED BY <2>1, <2>2 DEF DoWorker
<1>7. Esperam(Nada, {}, R)
  <2> SUFFICES ASSUME NEW s \in Pedidos, Espera(s)'
               PROVE  /\ Espera(s) /\ pedido'[s] = pedido[s] /\ pedido[s].obj \notin Proprios'
                      /\ pedido[s].fase = "gravar" => a # pedido[s].obj
    BY DEF Esperam
  <2>1. Espera(s) /\ pedido'[s] = pedido[s] /\ pedido[s] # Nada
    BY DEF Espera
  <2>2. pedido[s].fase = "gravar" => pedido[s].obj \notin F!Vivos
    BY <1>0, <2>1 DEF Travados, F!Na, F!Vivos
  <2> QED BY <1>4, <2>1, <2>2
<1> HIDE DEF R
<1> QED BY <1>3, <1>5, <1>6, <1>7, GuardadosSeguem

LEMMA GuardaTagSalvar ==
    ASSUME Base, Guardados, NEW a \in F!Vivos, F!TagSalvar(a)
    PROVE  Guardados'
<1>1. /\ UNCHANGED <<arquivos, jobs, entregas, pedido, incertos>> /\ objetos' = objetos \cup {objeto}
  BY DEF F!TagSalvar
<1>2. worker' # Nada /\ worker'.obj = objeto /\ worker'.arq = a /\ worker'.fase = "tag"
  BY PassoTagSalvar
<1>3. objeto \in Nat
  BY DEF Base, Armazem
<1>4. \A x \in Proprios' : x \in Nat /\ x >= objeto /\ x \in objetos'
  BY <1>1, <1>2, <1>3 DEF Proprios
<1> QED BY <1>1, <1>2, <1>4, GuardaTomada

LEMMA GuardaComprimirSalvar ==
    ASSUME Base, Guardados, NEW a \in F!Vivos, NEW menor \in BOOLEAN, NEW tagMenor \in BOOLEAN,
           F!ComprimirSalvar(a, menor, tagMenor)
    PROVE  Guardados'
<1>0. Separados /\ Tabelas
  BY DEF Guardados, Base
<1>1. UNCHANGED <<arquivos, jobs, entregas, pedido, incertos>>
  BY DEF F!ComprimirSalvar
<1>2. /\ a \in F!Previas /\ objetos \subseteq objetos'
      /\ worker' # Nada /\ worker'.arq = a /\ worker'.fase = "comprimir"
      /\ worker'.obj = arquivos[a].obj \/ (worker'.obj = objeto /\ objeto \in objetos')
      /\ \/ worker'.tag = jobs[a].obj
         \/ worker'.tag \in objetos' /\ worker'.tag >= objeto /\ worker'.tag # worker'.obj
      /\ Base'
  BY PassoComprimirSalvar
<1>3. objeto \in Nat /\ objetos' \subseteq Nat
  BY <1>2, Numeros DEF Base, Armazem
<1>4. objeto \notin F!Referencias(a) /\ \A x \in Nat : x >= objeto => x \notin F!Referencias(a)
  BY <1>3, Fresco
<1>5. arquivos[a].obj \in F!Referencias(a) /\ (jobs[a].obj # Nada => jobs[a].obj \in F!Referencias(a))
  BY <1>0, <1>2, Nomes
<1>6. objeto # Nada /\ arquivos[a].obj # jobs[a].obj
  BY <1>0, <1>2, <1>3, PortalConstantes DEF Separados, PortalAssumption
<1>7. worker'.obj # worker'.tag /\ worker'.tag # arquivos[a].obj
  <2>1. CASE worker'.tag = jobs[a].obj
    BY <1>2, <1>4, <1>5, <1>6, <2>1
  <2>2. CASE worker'.tag \in objetos' /\ worker'.tag >= objeto /\ worker'.tag # worker'.obj
    BY <1>3, <1>4, <1>5, <2>2
  <2> QED BY <1>2, <2>1, <2>2
<1>8. F!Referencias(a)' = F!Referencias(a)
  BY <1>1 DEF F!Referencias
<1>9. Proprios' = {worker'.obj, worker'.tag} \ ({Nada} \cup F!Referencias(a))
  <2>1. ASSUME NEW b, b = worker'.arq PROVE F!Novos' = ({worker'.obj, worker'.tag} \ {Nada}) \ F!Referencias(b)'
    BY <2>1 DEF F!Novos, F!Destino, F!Referencias
  <2> QED BY <1>2, <1>8, <2>1 DEF Proprios
<1>10. \A x \in Proprios' : x \in Nat /\ x >= objeto /\ x \in objetos'
  <2> SUFFICES ASSUME NEW x \in Proprios' PROVE x >= objeto /\ x \in objetos'
    BY <1>3
  <2>1. x # Nada /\ x \notin F!Referencias(a) /\ (x = worker'.obj \/ x = worker'.tag)
    BY <1>9
  <2>2. CASE x = worker'.obj
    BY <1>2, <1>3, <1>5, <2>1, <2>2
  <2>3. CASE x = worker'.tag
    BY <1>2, <1>5, <2>1, <2>3
  <2> QED BY <2>1, <2>2, <2>3
<1> QED BY <1>1, <1>2, <1>7, <1>10, GuardaTomada

(* A request writes the next object, and waits to save it.                  *)
LEMMA GuardaPedida ==
    ASSUME Base, Base', Guardados, NEW r \in Pedidos,
           F!Vivos' = F!Vivos, F!Previas' = F!Previas,
           \A b \in F!Vivos : F!Referencias(b)' = F!Referencias(b),
           UNCHANGED <<arquivos, jobs, worker, incertos>>, objetos' = objetos \cup {objeto},
           pedido'[r] # Nada, pedido'[r].fase \in {"gravar", "licenca"}, pedido'[r].obj = objeto,
           \A s \in Pedidos \ {r} : pedido'[s] = pedido[s]
    PROVE  Guardados'
<1>0. Separados /\ DoWorker /\ DosPedidos /\ F!SemReferenciaMorta /\ objeto \in Nat
  BY DEF Guardados, Base, Armazem
<1>1. /\ \A b \in F!Vivos : objeto \notin F!Referencias(b)
      /\ \A s \in Pedidos : pedido[s] # Nada => pedido[s].obj # objeto
      /\ worker # Nada => worker.arq # objeto
      /\ objeto \notin Proprios
  BY <1>0, Fresco
<1> DEFINE R == {}
<1>2. Passa(Nada, {}) /\ Nomeiam
  BY NadaPassa
<1>3. Retira(R)
  BY NadaRetira
<1>4. \A x : x \notin R /\ x \notin {}
  OBVIOUS
<1> HIDE DEF R
<1>5. DoWorker' /\ Proprios' = Proprios
  <2>1. \A b : worker # Nada /\ worker.fase = "comprimir" /\ b = worker.arq
                 => F!Referencias(b)' = F!Referencias(b) /\ arquivos'[b].obj = arquivos[b].obj
    BY DEF F!Referencias
  <2>2. worker # Nada /\ worker.fase = "conferir" /\ worker.arq \in F!Previas' /\ worker.obj \notin incertos'
            => jobs'[worker.arq].estado = "pronto"
    BY <1>0 DEF DoWorker
  <2> QED BY <1>2, <1>3, <1>4, <2>1, <2>2, WorkerSegue
<1>6. Separados'
  BY <1>0 DEF Separados
<1>7. F!SemReferenciaMorta'
  BY <1>0 DEF F!SemReferenciaMorta
<1>8. DosPedidos'
  <2> SUFFICES ASSUME NEW s \in Pedidos, Espera(s)'
               PROVE  /\ \A a \in F!Vivos' : pedido'[s].obj \in F!Referencias(a)' =>
                             pedido'[s].fase = "conferir" /\ pedido'[s].obj = arquivos'[a].obj
                      /\ pedido'[s].obj \notin Proprios'
                      /\ \A t \in Pedidos \ {s} : Espera(t)' => pedido'[t].obj # pedido'[s].obj
                      /\ pedido'[s].fase # "conferir" => pedido'[s].obj \in objetos'
                      /\ pedido'[s].fase = "gravar" /\ worker' # Nada => worker'.arq # pedido'[s].obj
    BY DEF DosPedidos
  <2>1. \A t \in Pedidos \ {r} : Espera(t)' => Espera(t) /\ pedido[t] # Nada /\ pedido'[t] = pedido[t]
    BY DEF Espera
  <2>2. CASE s = r
    <3>1. \A t \in Pedidos \ {r} : Espera(t)' => pedido'[t].obj # objeto
      BY <1>1, <2>1
    <3> QED BY <1>1, <1>5, <2>2, <3>1
  <2>3. CASE s # r
    <3>1. Espera(s) /\ pedido'[s] = pedido[s] /\ pedido[s].obj # objeto
      BY <1>1, <2>1, <2>3
    <3>2. /\ \A a \in F!Vivos : pedido[s].obj \in F!Referencias(a) =>
                 pedido[s].fase = "conferir" /\ pedido[s].obj = arquivos[a].obj
          /\ pedido[s].obj \notin Proprios
          /\ \A t \in Pedidos \ {s} : Espera(t) => pedido[t].obj # pedido[s].obj
          /\ pedido[s].fase # "conferir" => pedido[s].obj \in objetos
          /\ pedido[s].fase = "gravar" /\ worker # Nada => worker.arq # pedido[s].obj
      BY <1>0, <3>1 DEF DosPedidos
    <3>3. \A t \in Pedidos \ {s} : Espera(t)' => pedido'[t].obj # pedido'[s].obj
      BY <2>1, <3>1, <3>2
    <3> QED BY <1>5, <3>1, <3>2, <3>3
  <2> QED BY <2>2, <2>3
<1> QED BY <1>5, <1>6, <1>7, <1>8 DEF Guardados

LEMMA GuardaSalvar ==
    ASSUME Base, Guardados, NEW r \in Pedidos, NEW t \in {"previa", "entrega"}, NEW anterior \in F!Previas \cup {Nada},
           F!Salvar(r, t, anterior), t = "entrega" => anterior = Nada
    PROVE  Guardados'
<1>1. anterior # Nada => F!Versao(anterior) \in Nat
  <2>1. anterior # Nada => anterior \in F!Vivos /\ arquivos[anterior].versao \in Nat
    BY Job, Linha DEF Base
  <2> QED BY <2>1 DEF F!Versao
<1>2. /\ Base' /\ F!Vivos' = F!Vivos /\ F!Previas' = F!Previas
      /\ \A b \in F!Vivos : F!Referencias(b)' = F!Referencias(b)
      /\ UNCHANGED <<arquivos, jobs, worker, incertos>> /\ objetos' = objetos \cup {objeto}
      /\ pedido'[r] # Nada /\ pedido'[r].fase = "gravar" /\ pedido'[r].obj = objeto
      /\ \A s \in Pedidos \ {r} : pedido'[s] = pedido[s]
  BY <1>1, PassoSalvar
<1> QED BY <1>2, GuardaPedida

LEMMA GuardaReemitir ==
    ASSUME Base, Guardados, NEW r \in Pedidos, F!Reemitir(r)
    PROVE  Guardados'
<1>1. /\ Base' /\ F!Vivos' = F!Vivos /\ F!Previas' = F!Previas
      /\ \A b \in F!Vivos : F!Referencias(b)' = F!Referencias(b)
      /\ UNCHANGED <<arquivos, jobs, worker, incertos>> /\ objetos' = objetos \cup {objeto}
      /\ pedido'[r] # Nada /\ pedido'[r].fase = "licenca" /\ pedido'[r].obj = objeto
      /\ \A s \in Pedidos \ {r} : pedido'[s] = pedido[s]
  BY PassoReemitir
<1> QED BY <1>1, GuardaPedida

(* The row is saved: its object is the request's, which looks no more or    *)
(* finds it.                                                                *)
LEMMA GuardaGravar ==
    ASSUME Base, Guardados, NEW r \in Pedidos, F!Gravar(r), NEW o, o = pedido[r].obj
    PROVE  Guardados'
<1> DEFINE R == {}
           T == {o}
<1>0. Separados /\ DoWorker /\ DosPedidos /\ Tabelas /\ Atores /\ Travados
  BY DEF Guardados, Base
<1>1. F!Na(r, "gravar") /\ pedido[r] # Nada /\ pedido[r].fase = "gravar" /\ Espera(r)
  BY DEF F!Gravar, F!Na, Espera
<1>2. /\ Base'
      /\ F!Vivos' = F!Vivos \cup {o} /\ o \notin F!Vivos /\ o \in F!Objetos
      /\ F!Previas' = IF pedido[r].tipo = "previa" THEN F!Previas \cup {o} ELSE F!Previas
      /\ arquivos'[o].obj = o
      /\ \A b \in F!Vivos : arquivos'[b] = arquivos[b]
      /\ \A b \in F!Previas : jobs'[b] = jobs[b]
      /\ \A b \in F!Vivos : F!Referencias(b)' = F!Referencias(b)
      /\ F!Referencias(o)' = {o} /\ arquivos'[o].licencas = {}
      /\ pedido[r].tipo = "previa" => jobs'[o].obj = Nada
      /\ UNCHANGED <<objetos, worker, incertos>>
      /\ \A s \in Pedidos : ~(F!Na(s, "gravar")')
      /\ \A s \in Pedidos \ {r} : pedido'[s] = pedido[s]
      /\ pedido'[r] # Nada => pedido'[r].obj = o /\ pedido'[r].fase \in {"listar", "conferir"}
  BY PassoGravar
<1>3. /\ \A a \in F!Vivos : o \notin F!Referencias(a)
      /\ o \notin Proprios /\ o \in objetos
      /\ worker # Nada => worker.arq # o
      /\ \A s \in Pedidos \ {r} : Espera(s) => pedido[s].obj # o
  BY <1>0, <1>1 DEF DosPedidos
<1>4. \A b \in F!Previas : b \in F!Vivos /\ b # o
  BY <1>2 DEF F!Previas
<1>5. Passa(o, T)
  <2>1. \A b \in F!Vivos' : \A x \in F!Referencias(b)' : Antes(b, x) \/ (b = o /\ x \in T)
    BY <1>2 DEF Antes
  <2> QED BY <1>3, <2>1 DEF Passa, Antes
<1>6. Nomeiam
  <2>1. ASSUME NEW b \in F!Previas' PROVE arquivos'[b].licencas = {} /\ arquivos'[b].obj # jobs'[b].obj
    <3>1. CASE b \in F!Previas
      BY <1>0, <1>2, <1>4, <3>1 DEF Separados
    <3>2. CASE b \notin F!Previas
      <4>1. b = o /\ pedido[r].tipo = "previa"
        BY <1>2, <3>2
      <4> QED BY <1>2, <4>1, Numeros
    <3> QED BY <3>1, <3>2
  <2> QED BY <1>2, <2>1 DEF Nomeiam
<1>7. Retira(R) /\ \A x : x \notin R
  BY <1>2, NadaRetira
<1> HIDE DEF R
<1>8. DoWorker' /\ Proprios' = Proprios
  <2>1. \A b : worker # Nada /\ worker.fase = "comprimir" /\ b = worker.arq
                 => F!Referencias(b)' = F!Referencias(b) /\ arquivos'[b].obj = arquivos[b].obj
    BY <1>0, <1>2, <1>4 DEF Travados
  <2>2. worker # Nada /\ worker.fase = "conferir" /\ worker.arq \in F!Previas' /\ worker.obj \notin incertos'
            => jobs'[worker.arq].estado = "pronto"
    BY <1>0, <1>2, <1>3 DEF DoWorker
  <2>3. \A b \in F!Vivos' : b \in F!Previas => b \in F!Previas'
    BY <1>2
  <2>4. \A x \in T : x \notin Proprios
    BY <1>3
  <2> QED BY <1>2, <1>5, <1>7, <2>1, <2>2, <2>3, <2>4, WorkerSegue
<1>9. Esperam(o, T, R)
  <2> SUFFICES ASSUME NEW s \in Pedidos, Espera(s)'
               PROVE  /\ Espera(s) /\ pedido'[s].obj = pedido[s].obj
                      /\ pedido'[s].fase = pedido[s].fase \/ pedido'[s].fase = "conferir"
                      /\ pedido[s].obj \in T => pedido'[s].fase = "conferir" /\ pedido[s].obj = arquivos'[o].obj
                      /\ pedido[s].obj \notin Proprios'
                      /\ pedido'[s].fase # "gravar"
    BY <1>7 DEF Esperam
  <2>1. pedido'[s].fase # "gravar"
    BY <1>2 DEF F!Na, Espera
  <2>2. CASE s = r
    BY <1>1, <1>2, <1>3, <1>8, <2>1, <2>2 DEF Espera
  <2>3. CASE s # r
    <3>1. Espera(s) /\ pedido'[s] = pedido[s]
      BY <1>2, <2>3 DEF Espera
    <3> QED BY <1>0, <1>3, <1>8, <2>1, <2>3, <3>1 DEF DosPedidos
  <2> QED BY <2>2, <2>3
<1> HIDE DEF T
<1> QED BY <1>5, <1>6, <1>7, <1>8, <1>9, GuardadosSeguem


(* The tag is ready: it is what the row names, and the one before is the    *)
(* one removed.                                                             *)
LEMMA GuardaTagGravar ==
    ASSUME Base, Guardados, F!TagGravar, NEW a, a = worker.arq
    PROVE  Guardados'
<1> DEFINE R == {jobs[a].obj}
           T == {worker.obj}
           q == [worker EXCEPT !.fase = "conferir"]
<1>0. Separados /\ DoWorker /\ DosPedidos /\ Tabelas /\ Atores /\ F!SemReferenciaMorta
  BY DEF Guardados, Base
<1>1. /\ F!Vivos' = F!Vivos /\ F!Previas' = F!Previas
      /\ a \in F!Previas /\ jobs'[a].obj = worker.obj /\ jobs'[a].estado = "pronto"
      /\ \A b \in F!Vivos \ {a} : F!Referencias(b)' = F!Referencias(b)
      /\ F!Referencias(a)' = {arquivos[a].obj, worker.obj} \cup arquivos[a].licencas
  BY PassoTagGravar
<1>2. /\ worker # Nada /\ worker.fase = "tag" /\ UNCHANGED <<arquivos, pedido, incertos>>
      /\ objetos \ R \subseteq objetos'
      /\ worker' = Nada \/ (worker' = q /\ UNCHANGED objetos)
      /\ jobs' = [jobs EXCEPT ![a].estado = "pronto", ![a].obj = worker.obj]
  BY DEF F!TagGravar
<1>3. q.fase = "conferir" /\ q.obj = worker.obj /\ q.arq = a
  BY <1>0, <1>2, Trabalhando DEF F!WorkerTipo
<1>4. a \in F!Vivos /\ arquivos[a].obj \in F!Referencias(a) /\ arquivos[a].licencas = {}
      /\ jobs[a].obj \in F!Referencias(a) \cup {Nada} /\ arquivos[a].obj # jobs[a].obj
  BY <1>0, <1>1, Job, Nomes DEF Separados
<1>5. Proprios = {worker.obj} /\ worker.obj \in objetos /\ \A b \in F!Vivos : worker.obj \notin F!Referencias(b)
  BY <1>0, <1>2 DEF DoWorker, Proprios
<1> HIDE DEF q
<1>6. Proprios' \subseteq Proprios /\ (worker' # Nada => worker # Nada /\ worker'.arq = worker.arq)
  BY <1>2, <1>3, <1>5 DEF Proprios
<1>7. Passa(a, T)
  <2>1. \A b \in F!Vivos' : \A x \in F!Referencias(b)' : Antes(b, x) \/ (b = a /\ x \in T)
    BY <1>1, <1>4 DEF Antes
  <2> QED BY <1>5, <2>1 DEF Passa, Antes
<1>8. Nomeiam
  <2>1. \A b \in F!Previas \ {a} : jobs'[b] = jobs[b]
    BY <1>0, <1>2, Job DEF Tabelas
  <2>2. arquivos[a].obj # worker.obj
    BY <1>4, <1>5
  <2> QED BY <1>0, <1>1, <1>2, <2>1, <2>2 DEF Nomeiam, Separados
<1>9. Retira(R)
  <2> SUFFICES ASSUME NEW b \in F!Vivos', jobs[a].obj \in F!Referencias(b)'
               PROVE  jobs[a].obj \in objetos' \/ jobs[a].obj \in incertos'
    BY <1>2 DEF Retira
  <2>1. jobs[a].obj # Nada
    <3>1. F!Referencias(b)' \subseteq F!Objetos
      BY <1>0, <1>1, <1>2, <1>4, Nomes, Trabalhando
    <3> QED BY <3>1, Numeros
  <2>2. CASE b = a
    BY <1>1, <1>4, <1>5, <2>1, <2>2
  <2>3. CASE b # a
    BY <1>0, <1>1, <1>4, <2>1, <2>3 DEF Separados
  <2> QED BY <2>2, <2>3
<1>10. DoWorker'
  <2>1. CASE worker' = Nada
    BY <2>1 DEF DoWorker
  <2>2. CASE worker' = q
    <3>1. worker' # Nada => Proprios' = {worker.obj}
      BY <1>3, <2>2 DEF Proprios
    <3>2. \A b \in F!Vivos' : worker.obj \in F!Referencias(b)' => b = a
      BY <1>1, <1>5
    <3> QED BY <1>1, <1>3, <2>2, <3>1, <3>2 DEF DoWorker
  <2> QED BY <1>2, <2>1, <2>2
<1>11. Esperam(a, T, R)
  <2>1. ASSUME NEW s \in Pedidos, Espera(s)'
        PROVE  /\ Espera(s) /\ pedido'[s].obj = pedido[s].obj /\ pedido'[s].fase = pedido[s].fase
               /\ pedido[s].obj \notin T
               /\ pedido'[s].fase # "conferir" => pedido[s].obj \notin R
    <3>1. Espera(s) /\ pedido'[s] = pedido[s] /\ pedido[s] # Nada
      BY <1>2, <2>1 DEF Espera
    <3>2. pedido[s].obj \notin T
      BY <1>0, <1>5, <3>1 DEF DosPedidos
    <3>3. pedido[s].fase # "conferir" => pedido[s].obj \notin R
      <4>1. pedido[s].obj # Nada
        BY <1>0, <3>1, Pedida, Numeros
      <4> QED BY <1>0, <1>4, <3>1, <4>1 DEF DosPedidos
    <3> QED BY <3>1, <3>2, <3>3
  <2> HIDE DEF T, R
  <2> QED BY <1>6, <2>1, PedidosParados
<1> HIDE DEF T, R
<1> QED BY <1>7, <1>8, <1>9, <1>10, <1>11, GuardadosSeguem

(* The tag could not be saved, or the worker did not find it ready. *)
LEMMA GuardaTagFalhar ==
    ASSUME Base, Guardados, F!TagFalhar
    PROVE  Guardados'
<1> DEFINE R == {worker.obj}
<1>0. DoWorker /\ DosPedidos /\ Tabelas /\ Atores /\ Travados
  BY DEF Guardados, Base
<1>1. /\ F!Vivos' = F!Vivos /\ F!Previas' = F!Previas
      /\ \A b \in F!Vivos : F!Referencias(b)' = F!Referencias(b)
  BY PassoTagFalhar
<1>2. /\ worker # Nada /\ worker' = Nada /\ UNCHANGED <<arquivos, pedido, incertos>>
      /\ objetos \ R \subseteq objetos'
      /\ worker.fase = "tag" \/ (worker.fase = "conferir" /\ ~(F!Pronto))
      /\ jobs' = IF worker.arq \in F!Pendentes THEN [jobs EXCEPT ![worker.arq].estado = "erro"] ELSE jobs
  BY DEF F!TagFalhar
<1>3. Proprios = {worker.obj}
  BY <1>2 DEF Proprios
<1>4. \A b \in F!Previas : jobs'[b].obj = jobs[b].obj
  <2>1. \A b \in F!Previas : jobs[b] \in F!JobTipo /\ b \in F!Objetos
    BY <1>0, Job
  <2> QED BY <1>0, <1>2, <2>1 DEF F!JobTipo, Tabelas
<1>5. Passa(Nada, {}) /\ Nomeiam
  BY <1>1, <1>2, <1>4, NadaPassa
<1>6. Retira(R)
  <2> SUFFICES ASSUME NEW b \in F!Vivos', worker.obj \in F!Referencias(b)' PROVE worker.obj \in incertos'
    BY <1>2, NadaRetira
  <2>1. worker.fase = "conferir" /\ b = worker.arq /\ b \in F!Previas
    BY <1>0, <1>1, <1>2, <1>3 DEF DoWorker
  <2>2. jobs[worker.arq].estado # "pronto"
    BY <1>2, <2>1 DEF F!Pronto
  <2> QED BY <1>0, <1>2, <2>1, <2>2 DEF DoWorker
<1>7. DoWorker' /\ Proprios' = {}
  BY <1>2 DEF DoWorker, Proprios
<1>8. Esperam(Nada, {}, R)
  <2>1. ASSUME NEW s \in Pedidos, Espera(s)'
        PROVE  Espera(s) /\ pedido'[s] = pedido[s] /\ pedido[s].obj \notin R
    BY <1>0, <1>2, <1>3, <2>1 DEF Espera, DosPedidos
  <2> HIDE DEF R
  <2> QED BY <1>2, <1>7, <2>1, PedidosParados
<1> HIDE DEF R
<1> QED BY <1>5, <1>6, <1>7, <1>8, GuardadosSeguem

(* What was compressed takes the place of what it was made of, which goes;  *)
(* or it goes itself, which the history keeps if the row names it.          *)
LEMMA GuardaComprimir ==
    ASSUME Base, Guardados, F!ComprimirGravar, NEW a, a = worker.arq
    PROVE  Guardados'
<1>0. Separados /\ DoWorker /\ DosPedidos /\ Tabelas /\ Atores
  BY DEF Guardados, Base
<1>1. /\ F!Vivos' = F!Vivos /\ F!Previas' = F!Previas
      /\ a \in F!Previas /\ worker' = Nada
      /\ \A b \in F!Vivos \ {a} : F!Referencias(b)' = F!Referencias(b) /\ arquivos'[b].obj = arquivos[b].obj
      /\ arquivos'[a].licencas = arquivos[a].licencas
  BY PassoComprimir
<1>2. /\ worker # Nada /\ worker.fase = "comprimir" /\ UNCHANGED pedido
      /\ \A b \in F!Previas \ {a} : jobs'[b].obj = jobs[b].obj /\ arquivos'[b].licencas = arquivos[b].licencas
  <2>1. \A b \in F!Previas \ {a} : b \in F!Objetos
    BY <1>0, Job
  <2> QED BY <1>0, <2>1 DEF F!ComprimirGravar, F!Comprimir, Tabelas
<1>3. a \in F!Vivos /\ arquivos[a].licencas = {}
  BY <1>0, <1>1, Job DEF Separados
<1>4. /\ Proprios = F!Novos /\ F!Novos \subseteq objetos
      /\ \A b \in F!Vivos : \A x \in F!Referencias(b) : x \notin F!Novos
      /\ worker.obj # worker.tag /\ worker.tag # arquivos[a].obj
  BY <1>0, <1>2 DEF DoWorker, Proprios
<1>5. DoWorker' /\ Proprios' = {}
  BY <1>1 DEF DoWorker, Proprios
<1>6. ASSUME NEW R, R \subseteq F!Novos \/ R \subseteq F!Antigos, NEW s \in Pedidos, Espera(s)'
      PROVE  Espera(s) /\ pedido'[s] = pedido[s] /\ (pedido[s].fase # "conferir" => pedido[s].obj \notin R)
             /\ pedido[s].obj \notin F!Novos
  <2>1. Espera(s) /\ pedido'[s] = pedido[s]
    BY <1>2, <1>6 DEF Espera
  <2>2. F!Antigos \subseteq F!Referencias(a)
    BY DEF F!Antigos
  <2> QED BY <1>0, <1>3, <1>4, <1>6, <2>1, <2>2 DEF DosPedidos
<1>7. CASE /\ arquivos'[a].obj = arquivos[a].obj /\ jobs'[a].obj = jobs[a].obj
           /\ F!Referencias(a)' = F!Referencias(a)
           /\ objetos \ F!Novos \subseteq objetos' /\ incertos' = incertos
  <2> DEFINE R == F!Novos
  <2>1. Passa(Nada, {}) /\ Nomeiam
    BY <1>1, <1>2, <1>7, NadaPassa
  <2>2. Retira(R)
    BY <1>1, <1>4, <1>7, NadaRetira
  <2>3. Esperam(Nada, {}, R)
    BY <1>1, <1>5, <1>6, PedidosParados
  <2> HIDE DEF R
  <2> QED BY <1>5, <2>1, <2>2, <2>3, GuardadosSeguem
<1>8. ASSUME arquivos'[a].obj = worker.obj, jobs'[a].obj = worker.tag,
             F!Referencias(a)' = F!Destino \cup arquivos[a].licencas,
             NEW R, R \subseteq F!Novos \/ R \subseteq F!Antigos,
             Retira(R)
      PROVE  Guardados'
  <2> DEFINE T == F!Novos
  <2>1. F!Referencias(a)' = F!Destino /\ F!Novos = F!Destino \ F!Referencias(a)
    BY <1>3, <1>8 DEF F!Novos
  <2>2. Passa(a, T)
    <3>1. \A b \in F!Vivos' : \A x \in F!Referencias(b)' : Antes(b, x) \/ (b = a /\ x \in T)
      BY <1>1, <1>3, <2>1 DEF Antes
    <3> QED BY <1>4, <3>1 DEF Passa, Antes
  <2>3. Nomeiam
    <3>1. \A b \in F!Previas' : arquivos'[b].licencas = {} /\ arquivos'[b].obj # jobs'[b].obj
      <4>1. \A b \in F!Previas : b \in F!Vivos
        BY <1>0, Job
      <4> QED BY <1>0, <1>1, <1>2, <1>3, <1>4, <1>8, <4>1 DEF Separados
    <3>2. arquivos[a].obj \in F!Referencias(a)' => arquivos'[a].obj = arquivos[a].obj
      <4>1. arquivos[a].obj \in F!Destino => arquivos[a].obj = worker.obj
        BY <1>4 DEF F!Destino
      <4> QED BY <1>8, <2>1, <4>1
    <3> QED BY <1>1, <3>1, <3>2 DEF Nomeiam
  <2>4. Esperam(a, T, R)
    <3>1. ASSUME NEW s \in Pedidos, Espera(s)'
          PROVE  /\ Espera(s) /\ pedido'[s] = pedido[s] /\ pedido[s].obj \notin T
                 /\ pedido[s].fase # "conferir" => pedido[s].obj \notin R
      BY <1>6, <1>8, <3>1
    <3> HIDE DEF T
    <3> QED BY <1>1, <1>5, <3>1, PedidosParados
  <2> HIDE DEF T
  <2> QED BY <1>5, <1>8, <2>2, <2>3, <2>4, GuardadosSeguem
<1>9. ASSUME arquivos'[a].obj = worker.obj, jobs'[a].obj = worker.tag,
             F!Referencias(a)' = F!Destino \cup arquivos[a].licencas,
             objetos \ F!Antigos \subseteq objetos', incertos' = incertos
      PROVE  Guardados'
  <2>1. \A x \in F!Antigos : x \in F!Referencias(a) /\ x \notin F!Referencias(a)'
    BY <1>3, <1>9 DEF F!Antigos
  <2>2. \A b \in F!Vivos' : \A x \in F!Referencias(b)' : x \notin F!Antigos
    <3> SUFFICES ASSUME NEW b \in F!Vivos', NEW x \in F!Referencias(b)', x \in F!Antigos PROVE FALSE
      OBVIOUS
    <3>1. b # a /\ x \in F!Referencias(b) /\ x \in F!Referencias(a)
      BY <1>1, <2>1
    <3> QED BY <1>0, <1>1, <1>3, <3>1 DEF Separados
  <2>3. Retira(F!Antigos)
    BY <1>9, <2>2 DEF Retira
  <2> QED BY <1>8, <1>9, <2>3
<1>10. ASSUME arquivos'[a].obj = worker.obj, jobs'[a].obj = worker.tag,
              F!Referencias(a)' = F!Destino \cup arquivos[a].licencas,
              objetos \ F!Novos \subseteq objetos', incertos' = incertos \cup (F!Novos \ objetos')
       PROVE  Guardados'
  <2>1. Retira(F!Novos)
    BY <1>10 DEF Retira
  <2> QED BY <1>8, <1>10, <2>1
<1> QED BY <1>7, <1>9, <1>10, PassoComprimir

(* The licence is kept with its delivery; unanswered, it goes, and the      *)
(* history keeps that it did.                                               *)
LEMMA GuardaGravarLicenca ==
    ASSUME Base, Guardados, NEW r \in Pedidos, F!GravarLicenca(r),
           NEW d, d = pedido[r].anterior, NEW o, o = pedido[r].obj
    PROVE  Guardados'
<1> DEFINE T == {o}
           R == {o}
<1>0. Separados /\ DoWorker /\ DosPedidos /\ Tabelas /\ Travados
  BY DEF Guardados, Base
<1>1. /\ F!Vivos' = F!Vivos /\ F!Previas' = F!Previas
      /\ d \in F!Vivos /\ d \notin F!Previas
      /\ \A b \in F!Vivos \ {d} : F!Referencias(b)' = F!Referencias(b)
      /\ \A b \in F!Vivos : arquivos'[b].obj = arquivos[b].obj
      /\ \A b \in F!Previas : arquivos'[b] = arquivos[b]
      /\ F!Referencias(d)' = F!Referencias(d) \cup {o}
      /\ UNCHANGED <<jobs, worker>>
      /\ pedido'[r] = Nada /\ \A s \in Pedidos \ {r} : pedido'[s] = pedido[s]
  BY PassoGravarLicenca
<1>2. /\ pedido[r] # Nada /\ pedido[r].fase = "licenca" /\ Espera(r)
      /\ objetos \ R \subseteq objetos' /\ incertos \subseteq incertos'
      /\ o \in objetos => o \in objetos' \/ o \in incertos'
  BY DEF F!GravarLicenca, F!Na, Espera
<1>3. /\ o \in objetos /\ o \notin Proprios
      /\ \A b \in F!Vivos : o \notin F!Referencias(b)
      /\ \A s \in Pedidos \ {r} : Espera(s) => pedido[s].obj # o
  BY <1>0, <1>2 DEF DosPedidos
<1>4. Passa(d, T)
  <2>1. \A b \in F!Vivos' : \A x \in F!Referencias(b)' : Antes(b, x) \/ (b = d /\ x \in T)
    BY <1>1 DEF Antes
  <2> QED BY <1>3, <2>1 DEF Passa, Antes
<1>5. Nomeiam
  BY <1>0, <1>1 DEF Nomeiam, Separados
<1>6. Retira(R)
  BY <1>2, <1>3 DEF Retira
<1>7. DoWorker' /\ Proprios' = Proprios
  <2>1. \A b : worker # Nada /\ worker.fase = "comprimir" /\ b = worker.arq
                 => F!Referencias(b)' = F!Referencias(b) /\ arquivos'[b].obj = arquivos[b].obj
    <3>1. \A b : worker # Nada /\ worker.fase = "comprimir" /\ b = worker.arq => b \in F!Vivos /\ b # d
      BY <1>0, <1>1, Job DEF Travados
    <3> QED BY <1>1, <3>1
  <2>2. worker # Nada /\ worker.fase = "conferir" /\ worker.arq \in F!Previas' /\ worker.obj \notin incertos'
            => jobs'[worker.arq].estado = "pronto"
    BY <1>0, <1>1, <1>2 DEF DoWorker
  <2>3. \A x : x \in T \/ x \in R => x \notin Proprios
    BY <1>3
  <2> HIDE DEF T, R
  <2> QED BY <1>1, <1>4, <1>6, <2>1, <2>2, <2>3, WorkerSegue
<1>8. Esperam(d, T, R)
  <2>1. ASSUME NEW s \in Pedidos, Espera(s)'
        PROVE  Espera(s) /\ pedido'[s] = pedido[s] /\ pedido[s].obj # o
    BY <1>1, <1>3, <2>1 DEF Espera
  <2> QED BY <1>1, <1>7, <2>1, PedidosParados
<1> HIDE DEF T, R
<1> QED BY <1>4, <1>5, <1>6, <1>7, <1>8, GuardadosSeguem

(* A replacement that removes nothing. *)
LEMMA GuardaReplace ==
    ASSUME Base, Guardados, NEW r \in Pedidos, F!ReplacePrevious(r), UNCHANGED <<arquivos, jobs, entregas, objetos>>
    PROVE  Guardados'
<1>1. pedido[r] # Nada /\ pedido[r].fase = "substituir" /\ UNCHANGED <<worker, incertos>>
  BY DEF F!ReplacePrevious, F!Na
<1>2. pedido[r] \in F!PedidoTipo /\ pedido \in [Pedidos -> F!PedidoTipo \cup {Nada}]
  BY <1>1, Pedida DEF Base, Atores
<1>3. \/ pedido' = [pedido EXCEPT ![r] = Nada]
      \/ \E b \in pedido[r].lista : pedido' = [pedido EXCEPT ![r].lista = @ \ {b}]
  BY DEF F!ReplacePrevious
<1>4. (\A s \in Pedidos \ {r} : pedido'[s] = pedido[s]) /\ (pedido'[r] = Nada \/ pedido'[r].fase = "substituir")
  BY <1>1, <1>2, <1>3 DEF F!PedidoTipo
<1>5. \A s \in Pedidos : Espera(s)' => Espera(s) /\ pedido'[s] = pedido[s]
  BY <1>4 DEF Espera
<1>6. /\ F!Vivos' = F!Vivos /\ F!Previas' = F!Previas
      /\ \A b \in F!Vivos : F!Referencias(b)' = F!Referencias(b)
  BY LinhasFicam
<1>7. /\ \A b : arquivos'[b] = arquivos[b] /\ jobs'[b] = jobs[b]
      /\ objetos \subseteq objetos' /\ incertos \subseteq incertos' /\ worker' = worker
  BY <1>1
<1> QED BY <1>5, <1>6, <1>7, GuardaIgual
-----------------------------------------------------------------------------
ArquivosInv == Base /\ Bandeiras /\ Historia /\ Guardados

LEMMA IniciaArquivos == F!Init => ArquivosInv
<1> SUFFICES ASSUME F!Init PROVE ArquivosInv
  OBVIOUS
<1>1. F!Vivos = {} /\ F!Previas = {} /\ entregas = {} /\ Primeiras = {}
  BY DEF F!Init, F!Vivos, F!Previas, Primeiras, F!Objetos
<1>2. MaxObjetos \in Nat /\ MaxArquivos \in Nat /\ MaxEntregas \in Nat
  BY PortalConstantes DEF PortalAssumption
<1>3. Tabelas
  BY <1>1 DEF F!Init, Tabelas
<1>4. Armazem /\ Atores
  BY <1>2 DEF F!Init, Armazem, Atores
<1>5. \A r \in Pedidos : pedido[r] = Nada /\ ~(F!Na(r, "gravar"))
  BY DEF F!Init, F!Na
<1>6. worker = Nada
  BY DEF F!Init
<1>7. Travados /\ Novos
  BY <1>1, <1>5, <1>6 DEF Travados, Novos
<1>8. Bandeiras
  BY DEF F!Init, Bandeiras
<1>9. Historia
  <2>1. Cardinality({}) = 0
    BY FS_EmptySet
  <2> QED BY <1>1, <1>2, <1>5, <2>1 DEF Historia, Cota, F!HistoricoInteiro
<1>10. Guardados
  BY <1>1, <1>5, <1>6 DEF Guardados, Separados, DoWorker, DosPedidos, Espera, F!SemReferenciaMorta
<1> QED BY <1>3, <1>4, <1>7, <1>8, <1>9, <1>10 DEF ArquivosInv, Base

LEMMA PassoDosArquivos == ASSUME ArquivosInv, PassoArquivos PROVE ArquivosInv'
<1>0. Base /\ Bandeiras /\ Historia /\ Guardados /\ F!HistoricoInteiro
  BY DEF ArquivosInv, Historia
<1>1. CASE \E r \in Pedidos, anterior \in F!Previas \cup {Nada} : F!Salvar(r, "previa", anterior)
  <2>1. PICK r \in Pedidos, anterior \in F!Previas \cup {Nada} : F!Salvar(r, "previa", anterior)
    BY <1>1
  <2>2. Base' /\ Historia' /\ Guardados'
    BY <1>0, <2>1, HistoriaSalvar, GuardaSalvar
  <2>3. Bandeiras'
    BY <1>0, <2>1 DEF F!Salvar, Bandeiras
  <2> QED BY <2>2, <2>3 DEF ArquivosInv
<1>2. CASE \E r \in Pedidos : F!Salvar(r, "entrega", Nada)
  <2>1. PICK r \in Pedidos : F!Salvar(r, "entrega", Nada)
    BY <1>2
  <2>2. Base' /\ Historia' /\ Guardados'
    BY <1>0, <2>1, HistoriaSalvar, GuardaSalvar
  <2>3. Bandeiras'
    BY <1>0, <2>1 DEF F!Salvar, Bandeiras
  <2> QED BY <2>2, <2>3 DEF ArquivosInv
<1>3. CASE \E r \in Pedidos : F!Gravar(r)
  <2>1. PICK r \in Pedidos : F!Gravar(r)
    BY <1>3
  <2>2. Base' /\ Historia' /\ Guardados'
    BY <1>0, <2>1, HistoriaGravar, GuardaGravar
  <2>3. Bandeiras'
    BY <1>0, <2>1 DEF F!Gravar, Bandeiras
  <2> QED BY <2>2, <2>3 DEF ArquivosInv
<1>4. CASE /\ ~ \E r \in Pedidos, anterior \in F!Previas \cup {Nada} : F!Salvar(r, "previa", anterior)
           /\ ~ \E r \in Pedidos : F!Salvar(r, "entrega", Nada) \/ F!Gravar(r)
  <2>1. Base' /\ Historia'
    BY <1>0, <1>4, PassoMenor, HistoriaMenor
  <2>2. Guardados'
    <3>1. ASSUME NEW r \in Pedidos, \/ F!NaoGravar(r) \/ F!Conferir(r) \/ F!Morrer(r) \/ F!NaoGravarLicenca(r)
                                   \/ F!Listar(r) \/ F!ReplacePrevious(r) \/ F!Reemitir(r) \/ F!GravarLicenca(r)
          PROVE  Guardados'
      <4>1. CASE F!NaoGravar(r) \/ F!Conferir(r) \/ F!Morrer(r) \/ F!NaoGravarLicenca(r) \/ F!Listar(r)
        BY <1>0, <4>1, GuardaPedido
      <4>2. CASE F!ReplacePrevious(r)
        <5>1. (\E a \in entregas : F!Apagar(a)) \/ UNCHANGED <<arquivos, jobs, entregas, objetos>>
          BY <4>2 DEF F!ReplacePrevious, F!Remove
        <5> QED BY <1>0, <2>1, <4>2, <5>1, GuardaRemocao, GuardaReplace
      <4>3. CASE F!Reemitir(r)
        BY <1>0, <4>3, GuardaReemitir
      <4>4. CASE F!GravarLicenca(r)
        BY <1>0, <4>4, GuardaGravarLicenca
      <4> QED BY <3>1, <4>1, <4>2, <4>3, <4>4
    <3>2. CASE F!ExcluirEntrega \/ \E a \in F!Vivos : F!ApagarArquivo(a)
      BY <1>0, <2>1, <3>2, GuardaRemocao
    <3>3. CASE \/ F!IniciarLote \/ F!Reiniciar \/ F!TagConfirmar \/ F!EntregarProducao \/ F!FecharConcluidos
               \/ \E a \in F!Vivos : F!Anexar(a) \/ F!TagErro(a) \/ F!RegenerarPrevia(a)
      BY <1>0, <3>3, GuardaEstado
    <3>4. CASE \/ \E a \in F!Vivos : F!TagSalvar(a)
               \/ \E a \in F!Vivos, menor, tagMenor \in BOOLEAN : F!ComprimirSalvar(a, menor, tagMenor)
      BY <1>0, <3>4, GuardaTagSalvar, GuardaComprimirSalvar
    <3>5. CASE F!TagGravar \/ F!TagFalhar \/ F!ComprimirGravar
      BY <1>0, <3>5, GuardaTagGravar, GuardaTagFalhar, GuardaComprimir
    <3> QED BY <1>4, <3>1, <3>2, <3>3, <3>4, <3>5 DEF PassoArquivos
  <2>3. Bandeiras'
    <3>1. CASE F!IniciarLote \/ F!FecharConcluidos \/ F!EntregarProducao
      BY <1>0, <3>1 DEF Bandeiras, F!IniciarLote, F!FecharConcluidos, F!EntregarProducao
    <3>2. CASE UNCHANGED <<lote, entregue>>
      BY <1>0, <3>2 DEF Bandeiras
    <3> QED BY <1>4, <3>1, <3>2 DEF PassoArquivos, F!NaoGravar, F!Conferir, F!Morrer, F!Listar, F!ReplacePrevious,
          F!Reemitir, F!GravarLicenca, F!NaoGravarLicenca,
          F!ApagarArquivo, F!Anexar, F!RegenerarPrevia, F!TagSalvar, F!TagErro, F!ComprimirSalvar,
          F!ExcluirEntrega, F!TagGravar, F!TagFalhar, F!TagConfirmar, F!Reiniciar, F!ComprimirGravar
  <2> QED BY <2>1, <2>2, <2>3 DEF ArquivosInv
<1> QED BY <1>1, <1>2, <1>3, <1>4

LEMMA NadaMudaArquivos == ASSUME ArquivosInv, UNCHANGED varsF PROVE ArquivosInv'
<1>0. Base /\ Bandeiras /\ Historia /\ Guardados
  BY DEF ArquivosInv
<1>1. UNCHANGED <<arquivos, jobs, entregas, objetos, objeto, pedido, trava, worker, lote, entregue, incertos>>
  BY DEF varsF
<1>2. /\ Base' /\ Encolhe /\ F!Vivos' = F!Vivos /\ F!Previas' = F!Previas
      /\ \A a \in F!Vivos : F!Referencias(a)' = F!Referencias(a)
  BY <1>0, <1>1, PassoQuieto
<1>3. Historia'
  BY <1>0, <1>2, HistoriaMenor
<1>4. Guardados'
  <2>1. \A b : arquivos'[b] = arquivos[b] /\ jobs'[b] = jobs[b]
    BY <1>1
  <2>2. \A s \in Pedidos : Espera(s)' => Espera(s) /\ pedido'[s] = pedido[s]
    BY <1>1 DEF Espera
  <2>3. worker' = worker /\ objetos \subseteq objetos' /\ incertos \subseteq incertos'
    BY <1>1
  <2> QED BY <1>0, <1>2, <2>1, <2>2, <2>3, GuardaIgual
<1>5. Bandeiras'
  BY <1>0, <1>1 DEF Bandeiras
<1> QED BY <1>2, <1>3, <1>4, <1>5 DEF ArquivosInv

LEMMA ForaDosArquivos ==
    ASSUME [Passo]_<<parte, vars, varsAcesso, varsF, varsBriefing, varsP, varsB, varsE, varsNewsletter>>
    PROVE  PassoArquivos \/ UNCHANGED varsF
BY DEF Passo, PassoProposta, PassoAcesso, PassoAtendimento, PassoPoliticas, PassoBeats, PassoPortfolio,
       PassoNewsletter, NaProposta, NoAcesso, NoAtendimento, NaConversa, NasPoliticas, NosBeats,
       NoPortfolio, NaNewsletter

LEMMA InvarianteArquivos == Portal => []ArquivosInv
<1>1. Inicio => ArquivosInv
  BY IniciaArquivos DEF Inicio
<1>2. ArquivosInv /\ [Passo]_<<parte, vars, varsAcesso, varsF, varsBriefing, varsP, varsB, varsE,
                               varsNewsletter>> => ArquivosInv'
  BY ForaDosArquivos, PassoDosArquivos, NadaMudaArquivos
<1> QED BY <1>1, <1>2, PTL DEF Portal

(* However many uploads run at the same time, and whatever is removed       *)
(* between their check and their commit, the previews, their versions and   *)
(* the deliveries stay within what the contract gives.                      *)
THEOREM CotaFica == Portal => []CotaRespeitada
<1>1. ArquivosInv => CotaRespeitada
  BY CotaPrimeiras DEF ArquivosInv, Historia, CotaRespeitada
<1> QED BY <1>1, InvarianteArquivos, PTL

(* Every version names the one it replaced, which is there, is one version  *)
(* older and was replaced by no other.                                      *)
THEOREM HistoriaFica == Portal => []HistoricoInteiro
<1>1. ArquivosInv => HistoricoInteiro
  BY DEF ArquivosInv, Historia, HistoricoInteiro
<1> QED BY <1>1, InvarianteArquivos, PTL

(* Whatever dies, fails or overlaps, what a row of files, its tag or a      *)
(* licence names is in the storage, and so is the cover of a submission not *)
(* yet published and the image of a project.  What it does not say: of a    *)
(* tag asked again while the worker looks for its own, and of a compression,*)
(* a licence issued again or an image of a project whose commit was not     *)
(* answered, the object may be gone, and so may be the cover a published    *)
(* submission still names.                                                  *)
THEOREM NenhumaReferenciaMorta == Portal => []SemReferenciaMorta
<1>1. ArquivosInv => F!SemReferenciaMorta
  BY DEF ArquivosInv, Guardados
<1>2. PortfolioInv => E!CapaPresente
  BY DEF PortfolioInv, CapasNomeadas, ProjetosOK, E!CapaPresente
<1>3. ArquivosInv /\ PortfolioInv => SemReferenciaMorta
  BY <1>1, <1>2 DEF SemReferenciaMorta
<1> QED BY <1>3, InvarianteArquivos, InvariantePortfolio, PTL

-----------------------------------------------------------------------------
(* The portals side by side: what one of them does is a behaviour of its    *)
(* own specification, so what is proved of that holds here.                 *)

LEMMA DasPropostas == Portal => Spec
<1>1. Inicio => Init
  BY DEF Inicio
<1>2. ASSUME [Passo]_<<parte, vars, varsAcesso, varsF, varsBriefing, varsP, varsB, varsE, varsNewsletter>>
      PROVE  [Next]_vars
  <2>1. CASE PassoProposta
    BY <2>1 DEF PassoProposta, Next
  <2>2. CASE PassoAcesso \/ PassoArquivos \/ PassoAtendimento \/ PassoPoliticas \/ PassoBeats \/ PassoPortfolio
             \/ PassoNewsletter
    <3>1. UNCHANGED vars
      BY <2>2 DEF PassoAcesso, PassoArquivos, PassoAtendimento, PassoPoliticas, PassoBeats, PassoPortfolio,
         PassoNewsletter, NoAcesso, NosArquivos, CabePedido, CabeWorker, Comprimindo, ComAnexos, ComLote,
         NoAtendimento, NaConversa, NasPoliticas, NosBeats,
         NoPortfolio, NaNewsletter
    <3> QED BY <3>1
  <2> QED BY <1>2, <2>1, <2>2 DEF Passo
<1> QED BY <1>1, <1>2, PTL DEF Portal, Spec

LEMMA DosAcessos == Portal => SpecAcesso
<1>1. Inicio => InitAcesso
  BY DEF Inicio
<1>2. ASSUME [Passo]_<<parte, vars, varsAcesso, varsF, varsBriefing, varsP, varsB, varsE, varsNewsletter>>
      PROVE  [NextAcesso]_varsAcesso
  <2>1. CASE PassoAcesso
    BY <2>1 DEF PassoAcesso, NextAcesso
  <2>2. CASE PassoProposta \/ PassoArquivos \/ PassoAtendimento \/ PassoPoliticas \/ PassoBeats \/ PassoPortfolio
             \/ PassoNewsletter
    <3>1. UNCHANGED varsAcesso
      BY <2>2 DEF PassoProposta, PassoArquivos, PassoAtendimento, PassoPoliticas, PassoBeats, PassoPortfolio,
         PassoNewsletter, NaProposta, NosArquivos, CabePedido, CabeWorker, Comprimindo, ComAnexos, ComLote,
         NoAtendimento, NaConversa, NasPoliticas, NosBeats,
         NoPortfolio, NaNewsletter
    <3> QED BY <3>1
  <2> QED BY <1>2, <2>1, <2>2 DEF Passo
<1> QED BY <1>1, <1>2, PTL DEF Portal, SpecAcesso

LEMMA DasConversas == Portal => SpecBriefing
<1>1. Inicio => InitBriefing
  BY DEF Inicio
<1>2. ASSUME [Passo]_<<parte, vars, varsAcesso, varsF, varsBriefing, varsP, varsB, varsE, varsNewsletter>>
      PROVE  [NextBriefing]_varsBriefing
  <2>1. CASE PassoAtendimento
    <3>1. CASE \/ \E t \in Trabalhos, campos \in SUBSET Campos : Update(t, campos)
               \/ \E t \in Trabalhos : Submit(t)
      BY <3>1 DEF NextBriefing
    <3>2. CASE NextConversa /\ UNCHANGED <<briefing, orcamentos>>
      BY <3>2 DEF NextBriefing
    <3> QED BY <2>1, <3>1, <3>2 DEF PassoAtendimento, NaConversa, NextConversa
  <2>2. CASE PassoProposta \/ PassoAcesso \/ PassoArquivos \/ PassoPoliticas \/ PassoBeats \/ PassoPortfolio
             \/ PassoNewsletter
    <3>1. UNCHANGED varsBriefing
      BY <2>2 DEF PassoProposta, PassoAcesso, PassoArquivos, PassoPoliticas, PassoBeats, PassoPortfolio,
         PassoNewsletter, NaProposta, NoAcesso, NosArquivos, CabePedido, CabeWorker, Comprimindo, ComAnexos, ComLote,
         NasPoliticas, NosBeats, NoPortfolio, NaNewsletter
    <3> QED BY <3>1
  <2> QED BY <1>2, <2>1, <2>2 DEF Passo
<1> QED BY <1>1, <1>2, PTL DEF Portal, SpecBriefing

LEMMA DasCampanhas == Portal => SpecNewsletter
<1>1. Inicio => InitNewsletter
  BY DEF Inicio
<1>2. ASSUME [Passo]_<<parte, vars, varsAcesso, varsF, varsBriefing, varsP, varsB, varsE, varsNewsletter>>
      PROVE  [NextNewsletter]_varsNewsletter
  <2>1. CASE PassoNewsletter
    BY <2>1 DEF PassoNewsletter, NextNewsletter
  <2>2. CASE PassoProposta \/ PassoAcesso \/ PassoArquivos \/ PassoAtendimento \/ PassoPoliticas \/ PassoBeats
             \/ PassoPortfolio
    <3>1. UNCHANGED varsNewsletter
      BY <2>2 DEF PassoProposta, PassoAcesso, PassoArquivos, PassoAtendimento, PassoPoliticas, PassoBeats,
         PassoPortfolio, NaProposta, NoAcesso, NosArquivos, CabePedido, CabeWorker, Comprimindo, ComAnexos, ComLote,
         NoAtendimento, NaConversa, NasPoliticas,
         NosBeats, NoPortfolio
    <3> QED BY <3>1
  <2> QED BY <1>2, <2>1, <2>2 DEF Passo
<1> QED BY <1>1, <1>2, PTL DEF Portal, SpecNewsletter

(* Who publishes has room for a version more, and a promise is complete.    *)
Publicacoes ==
    /\ IsFiniteSet(publicando) /\ Len(globais) + Cardinality(publicando) <= MaxGlobais
    /\ obraContratada \in {"nenhuma", "direta", "avulsa", "comercial"}
    /\ prometido \in P!Completas \cup {Nada}

LEMMA PassoPublicacoes ==
    ASSUME PoliticasInv, Publicacoes, PassoPoliticas
    PROVE  Publicacoes'
<1>0. Catalogadas /\ Congelada /\ Len(globais) \in Nat /\ Cardinality(publicando) \in Nat
  BY FS_CardinalityType DEF PoliticasInv, Catalogadas, Publicacoes
<1>1. ASSUME NEW p \in P!Completas, P!Publicar(p) \/ P!Gravar(p) \/ P!NaoGravar(p) PROVE Publicacoes'
  <2>1. UNCHANGED <<obraContratada, prometido>>
    BY <1>1 DEF P!Publicar, P!Gravar, P!NaoGravar
  <2>2. CASE P!Publicar(p)
    <3>1. /\ publicando' = publicando \cup {p} /\ p \notin publicando /\ globais' = globais
          /\ Len(globais) + Cardinality(publicando) < MaxGlobais
      <4>1. P!Cardinality(publicando) = Cardinality(publicando)
        BY DEF P!Cardinality, Cardinality
      <4> QED BY <2>2, <4>1 DEF P!Publicar
    <3>2. IsFiniteSet(publicando') /\ Cardinality(publicando') = Cardinality(publicando) + 1
      BY <3>1, FS_AddElement DEF Publicacoes
    <3> QED BY <1>0, <2>1, <3>1, <3>2, PortalConstantes DEF Publicacoes, PortalAssumption
  <2>3. CASE P!Gravar(p) \/ P!NaoGravar(p)
    <3>1. /\ publicando' = publicando \ {p} /\ p \in publicando
          /\ globais' = Append(globais, p) \/ globais' = globais
      BY <2>3 DEF P!Gravar, P!NaoGravar
    <3>2. IsFiniteSet(publicando') /\ Cardinality(publicando') = Cardinality(publicando) - 1
      BY <3>1, FS_RemoveElement DEF Publicacoes
    <3>3. Len(globais') \in {Len(globais), Len(globais) + 1}
      BY <1>0, <3>1 DEF Catalogadas
    <3> QED BY <1>0, <2>1, <3>2, <3>3, PortalConstantes DEF Publicacoes, PortalAssumption
  <2> QED BY <1>1, <2>2, <2>3
<1>2. ASSUME UNCHANGED <<globais, publicando>>, obraContratada' \in {"nenhuma", "direta", "avulsa", "comercial"},
             prometido' \in P!Completas \cup {Nada}
      PROVE  Publicacoes'
  BY <1>2 DEF Publicacoes
<1>3. ASSUME P!Prometer PROVE prometido' \in P!Completas \cup {Nada}
  <2>1. CASE contrato.snapshot # Nada
    BY <1>3, <2>1 DEF P!Prometer, Publicacoes
  <2>2. CASE contrato.snapshot = Nada
    BY <1>3, <2>2 DEF P!Prometer, P!Completas
  <2> QED BY <2>1, <2>2
<1>4. CASE P!Enviar \/ \E ja \in BOOLEAN : P!Aceitar(ja)
  BY <1>2, <1>3, <1>4 DEF P!Enviar, P!Aceitar, Publicacoes
<1>5. CASE P!Reabrir \/ P!Liberar \/ P!CriarProducao \/ P!RemoverExcecao
           \/ (\E x \in P!Parciais : P!DefinirExcecao(x))
           \/ \E s \in Servicos, q \in P!Parciais : P!SalvarServico(s, q)
  BY <1>2, <1>5 DEF P!Reabrir, P!Liberar, P!CriarProducao, P!RemoverExcecao, P!DefinirExcecao, P!SalvarServico,
     Publicacoes
<1> QED BY <1>1, <1>4, <1>5 DEF PassoPoliticas

LEMMA InvariantePublicacoes == Portal => []Publicacoes
<1>1. Inicio => Publicacoes
  BY FS_EmptySet, PortalConstantes DEF Inicio, P!Init, Publicacoes, PortalAssumption
<1>2. ASSUME PoliticasInv, Publicacoes,
             [Passo]_<<parte, vars, varsAcesso, varsF, varsBriefing, varsP, varsB, varsE, varsNewsletter>>
      PROVE  Publicacoes'
  <2>1. CASE UNCHANGED varsP
    BY <1>2, <2>1 DEF Publicacoes, varsP
  <2> QED BY <1>2, <2>1, ForaDasPoliticas, PassoPublicacoes
<1> QED BY <1>1, <1>2, InvariantePoliticas, PTL DEF Portal

LEMMA TiposDasPoliticas == PoliticasInv /\ Publicacoes => P!TypeOK
<1> SUFFICES ASSUME PoliticasInv, Publicacoes PROVE P!TypeOK
  OBVIOUS
<1>1. globais \in Seq(P!Completas) /\ Len(globais) <= MaxGlobais
  <2>1. globais \in Seq(P!Completas) /\ Len(globais) \in Nat /\ Cardinality(publicando) \in Nat
    BY FS_CardinalityType DEF PoliticasInv, Catalogadas, Publicacoes
  <2> QED BY <2>1, PortalConstantes DEF Publicacoes, PortalAssumption
<1>2. publicando \subseteq P!Completas /\ proprias \in [Servicos -> P!Parciais]
  BY DEF PoliticasInv, Catalogadas
<1>3. /\ contrato.status \in {"rascunho", "enviada", "aceita"} /\ contrato.itens \subseteq Servicos
      /\ contrato.snapshot = Nada \/ contrato.snapshot \in [contrato.itens -> P!Completas]
  BY DEF PoliticasInv, Congelada
<1>4. linha.ha \in BOOLEAN /\ linha.contrato \in P!Completas \cup {Nada} /\ linha.excecao \in P!Parciais
  BY DEF PoliticasInv, Contratada
<1> QED BY <1>1, <1>2, <1>3, <1>4 DEF P!TypeOK, Publicacoes

LEMMA TiposDoPortfolio == PortfolioInv => E!TypeOK
BY DEF PortfolioInv, Numeradas, Telas, Publicados, Publicas, CapasNomeadas, SubidasOK, Subidas, ProjetosOK,
   E!TypeOK

(* Everything the portals keep has its type, in every one of them.          *)
THEOREM TiposDosPortais == Portal => []TiposOK
<1>1. /\ ArquivosInv => F!TypeOK
      /\ BeatsInv => B!TypeOK
  BY TiposDosArquivos, TiposDosBeats DEF ArquivosInv, Base, BeatsInv
<1>2. /\ TypeOK /\ AcessoTypeOK /\ BriefingTypeOK /\ NewsletterTypeOK
      /\ F!TypeOK /\ P!TypeOK /\ B!TypeOK /\ E!TypeOK
      => TiposOK
  BY DEF TiposOK
<1>3. CampanhaInv => NewsletterTypeOK
  BY DEF CampanhaInv
<1> QED BY <1>1, <1>2, <1>3, TiposDasPoliticas, TiposDoPortfolio, TiposDaProposta, TiposDoAcesso,
       TiposDaConversa, InvarianteCampanha, InvarianteArquivos, InvarianteBeats, InvariantePoliticas,
       InvariantePublicacoes, InvariantePortfolio, DasPropostas, DosAcessos, DasConversas, DasCampanhas, PTL

=============================================================================
