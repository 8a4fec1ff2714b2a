------------------------------ MODULE Atendimento ------------------------------
(***************************************************************************)
(* One conversation by e-mail between a client, an assistant and the       *)
(* operators of the inbox.  The assistant answers on a lease: it claims a  *)
(* message, asks the model with no lock held and records the answer only   *)
(* if nothing changed; webhooks repeat, leases lapse, processes die and an *)
(* operator may step in at any point.                                      *)
(***************************************************************************)
EXTENDS Nulo, Naturals

CONSTANTS
    Operadores,
    Trabalhos,       \* requests that may hold an answer of the model
    MaxEntradas,     \* bound: messages of the client
    MaxTentativas,   \* max_attempts
    MaxMudancas,     \* bound: versions of the conversation
    MaxFichas        \* bound: claims

VARIABLES
    conversa,    \* status, mode, operator, version and claim
    entradas,    \* the client's messages, in order of arrival
    respostas,   \* what answers each message
    humanas,     \* messages written by operators, and whether they were mailed
    trabalho,    \* the claim each request works on
    fichas       \* the claims made

varsConversa == <<conversa, entradas, respostas, humanas, trabalho, fichas>>

N == 1..MaxEntradas
Chegadas == {m \in N : entradas[m] # Nada}
Ultima(m) == m \in Chegadas /\ \A n \in Chegadas : n <= m

InitConversa ==
    /\ conversa = [status |-> "open", modo |-> "autonomous", operador |-> Nada, versao |-> 0,
                   ficha |-> Nada, prazo |-> FALSE]
    /\ entradas = [m \in N |-> Nada]
    /\ respostas = [m \in N |-> Nada]
    /\ humanas = {}
    /\ trabalho = [t \in Trabalhos |-> Nada]
    /\ fichas = 0

-----------------------------------------------------------------------------
(* Whoever changes the conversation ends the claim on it. *)
Mudada == [conversa EXCEPT !.versao = @ + 1, !.ficha = Nada, !.prazo = FALSE]

PodeMudar == conversa.versao < MaxMudancas

Handoff(c) == IF c.status = "waiting_human" THEN c
              ELSE [c EXCEPT !.status = "waiting_human", !.modo = "human",
                             !.versao = @ + 1, !.ficha = Nada, !.prazo = FALSE]

Receive(m) ==
    /\ conversa.status # "closed"
    /\ entradas[m] = Nada
    /\ m = 1 \/ m - 1 \in Chegadas
    /\ entradas' = [entradas EXCEPT ![m] = [estado |-> "received", tentativas |-> 0]]
    /\ UNCHANGED <<conversa, respostas, humanas, trabalho, fichas>>

Concluida(m) == entradas[m].estado = "completed"

(* mutant: a later message may be answered before an earlier one *)
QualquerUma(m) == ~Concluida(m)

Primeira(m) == ~Concluida(m) /\ \A n \in Chegadas : n < m => Concluida(n)

Reservada == conversa.ficha # Nada /\ conversa.prazo

(* A webhook, or its repetition, takes up a message: nothing is left to do  *)
(* once an operator is in charge; too many attempts hand it over.           *)
Claim(t, m) ==
    /\ trabalho[t] = Nada
    /\ m \in Chegadas /\ ~Concluida(m)
    /\ conversa.status # "closed"
    /\ \/ /\ conversa.status # "open" \/ conversa.modo = "human"
          /\ entradas' = [entradas EXCEPT ![m].estado = "completed"]
          /\ UNCHANGED <<conversa, trabalho, fichas>>
       \/ /\ conversa.status = "open" /\ conversa.modo # "human"
          /\ ~Reservada /\ Primeira(m)
          /\ entradas[m].tentativas >= MaxTentativas
          /\ PodeMudar
          /\ conversa' = Handoff(conversa)
          /\ entradas' = [entradas EXCEPT ![m].estado = "completed"]
          /\ UNCHANGED <<trabalho, fichas>>
       \/ /\ conversa.status = "open" /\ conversa.modo # "human"
          /\ ~Reservada /\ Primeira(m)
          /\ entradas[m].tentativas < MaxTentativas
          /\ fichas < MaxFichas
          /\ conversa' = [conversa EXCEPT !.ficha = fichas, !.prazo = TRUE]
          /\ entradas' = [entradas EXCEPT ![m] = [estado |-> "processing", tentativas |-> @.tentativas + 1]]
          /\ trabalho' = [trabalho EXCEPT ![t] =
                             [tipo |-> "process", msg |-> m, ficha |-> fichas,
                              versao |-> conversa.versao, modo |-> conversa.modo]]
          /\ fichas' = fichas + 1
    /\ UNCHANGED <<respostas, humanas>>

(* The operator asks for a draft of the answer to the last message.         *)
Suggest(t, m) ==
    /\ trabalho[t] = Nada
    /\ conversa.operador # Nada
    /\ conversa.status = "open" /\ conversa.modo = "copilot"
    /\ Ultima(m)
    /\ respostas[m] # Nada => respostas[m].tipo = "suggestion"
    /\ ~Reservada /\ fichas < MaxFichas
    /\ conversa' = [conversa EXCEPT !.ficha = fichas, !.prazo = TRUE]
    /\ trabalho' = [trabalho EXCEPT ![t] = [tipo |-> "suggest", msg |-> m, ficha |-> fichas,
                                            versao |-> conversa.versao, modo |-> conversa.modo]]
    /\ fichas' = fichas + 1
    /\ UNCHANGED <<entradas, respostas, humanas>>

VencerPrazo ==
    /\ conversa.prazo
    /\ conversa' = [conversa EXCEPT !.prazo = FALSE]
    /\ UNCHANGED <<entradas, respostas, humanas, trabalho, fichas>>

(* The process, or its answer, is lost. *)
Perder(t) ==
    /\ trabalho[t] # Nada
    /\ trabalho' = [trabalho EXCEPT ![t] = Nada]
    /\ UNCHANGED <<conversa, entradas, respostas, humanas, fichas>>

-----------------------------------------------------------------------------
(* mutant: the answer is recorded whoever holds the conversation by then *)
QualquerDono(k) == conversa.status # "closed"

(* The claim is still the conversation's, and nothing changed since. *)
Vale(k) ==
    /\ conversa.ficha = k.ficha /\ conversa.versao = k.versao
    /\ conversa.status = "open" /\ conversa.modo = k.modo
    /\ conversa.prazo

Solta == [conversa EXCEPT !.ficha = Nada, !.prazo = FALSE]

Esgotada(m) == entradas[m].tentativas >= MaxTentativas

Decisoes == {"reply", "handoff", "no_action", "error"}

(* In copilot mode what would be a reply is a draft; a message has at most  *)
(* one of them.                                                             *)
Tipo(k) == IF k.modo = "copilot" THEN "suggestion" ELSE "reply"

Complete(t, decisao) ==
    LET k == trabalho[t]
        m == k.msg
    IN  /\ k # Nada /\ k.tipo = "process"
        /\ Vale(k)
        /\ IF decisao = "handoff" \/ (decisao = "error" /\ Esgotada(m))
           THEN PodeMudar /\ conversa' = Handoff(Solta) ELSE conversa' = Solta
        /\ entradas' = [entradas EXCEPT ![m].estado =
                           IF decisao = "error" /\ ~Esgotada(m) THEN "failed" ELSE "completed"]
        /\ decisao = "reply" => respostas[m] = Nada
        /\ respostas' = IF decisao = "reply"
                        THEN [respostas EXCEPT ![m] = [tipo |-> Tipo(k), enviada |-> FALSE]]
                        ELSE respostas
        /\ trabalho' = [trabalho EXCEPT ![t] = IF decisao = "reply" /\ Tipo(k) = "reply"
                                               THEN [k EXCEPT !.tipo = "send"] ELSE Nada]
        /\ UNCHANGED <<humanas, fichas>>

(* A draft that another message overtook is dropped. *)
CompleteSuggest(t) ==
    LET k == trabalho[t]
    IN  /\ k # Nada /\ k.tipo = "suggest"
        /\ Vale(k)
        /\ conversa' = Solta
        /\ respostas' = IF Ultima(k.msg)
                        THEN [respostas EXCEPT ![k.msg] = [tipo |-> "suggestion", enviada |-> FALSE]]
                        ELSE respostas
        /\ trabalho' = [trabalho EXCEPT ![t] = Nada]
        /\ UNCHANGED <<entradas, humanas, fichas>>

(* A repeated webhook finds the reply and mails it if the robot is still in *)
(* charge. *)
Reencontrar(t, m) ==
    /\ trabalho[t] = Nada
    /\ m \in Chegadas /\ Concluida(m)
    /\ respostas[m] # Nada /\ respostas[m].tipo = "reply" /\ ~respostas[m].enviada
    /\ conversa.status = "open" /\ conversa.modo = "autonomous"
    /\ trabalho' = [trabalho EXCEPT ![t] = [tipo |-> "send", msg |-> m, ficha |-> 0,
                                            versao |-> conversa.versao, modo |-> conversa.modo]]
    /\ UNCHANGED <<conversa, entradas, respostas, humanas, fichas>>

(* Mailed once: the key of the e-mail is the message.                       *)
Send(t) ==
    /\ trabalho[t] # Nada /\ trabalho[t].tipo = "send"
    /\ respostas' = [respostas EXCEPT ![trabalho[t].msg].enviada = TRUE]
    /\ trabalho' = [trabalho EXCEPT ![t] = Nada]
    /\ UNCHANGED <<conversa, entradas, humanas, fichas>>

-----------------------------------------------------------------------------
(* The operators. *)

Assign(o) ==
    /\ conversa.status # "closed" /\ conversa.operador = Nada
    /\ PodeMudar
    /\ conversa' = [Mudada EXCEPT !.operador = o, !.status = "open", !.modo = "human"]
    /\ UNCHANGED <<entradas, respostas, humanas, trabalho, fichas>>

SetMode(modo) ==
    /\ conversa.status # "closed" /\ conversa.operador # Nada
    /\ conversa.modo # modo \/ conversa.status = "waiting_human"
    /\ PodeMudar
    /\ conversa' = [Mudada EXCEPT !.status = "open", !.modo = modo]
    /\ UNCHANGED <<entradas, respostas, humanas, trabalho, fichas>>

Aproveitavel(m) == Ultima(m) /\ respostas[m] # Nada /\ respostas[m].tipo = "suggestion"

(* A message of the operator's, or a draft; the draft is deleted once it is *)
(* mailed.                                                                  *)
SendMessage(m) ==
    /\ conversa.status # "closed" /\ conversa.operador # Nada
    /\ PodeMudar
    /\ m # Nada => Aproveitavel(m)
    /\ conversa' = [Mudada EXCEPT !.status = "open",
                                  !.modo = IF @ = "copilot" THEN @ ELSE "human"]
    /\ \E enviada \in BOOLEAN :
          /\ humanas' = humanas \cup {[numero |-> conversa.versao, de |-> m, enviada |-> enviada]}
          /\ respostas' = IF m # Nada /\ enviada THEN [respostas EXCEPT ![m] = Nada] ELSE respostas
    /\ UNCHANGED <<entradas, trabalho, fichas>>

RetryMessage(h) ==
    /\ conversa.operador # Nada
    /\ ~h.enviada
    /\ humanas' = (humanas \ {h}) \cup {[h EXCEPT !.enviada = TRUE]}
    /\ UNCHANGED <<conversa, entradas, respostas, trabalho, fichas>>

IgnoreSuggestion(m) ==
    /\ conversa.operador # Nada
    /\ respostas[m] # Nada /\ respostas[m].tipo = "suggestion"
    /\ respostas' = [respostas EXCEPT ![m] = Nada]
    /\ UNCHANGED <<conversa, entradas, humanas, trabalho, fichas>>

Close ==
    /\ conversa.status # "closed" /\ conversa.operador # Nada
    /\ PodeMudar
    /\ conversa' = [Mudada EXCEPT !.status = "closed"]
    /\ UNCHANGED <<entradas, respostas, humanas, trabalho, fichas>>

-----------------------------------------------------------------------------
NextConversa ==
    \/ \E m \in N : Receive(m) \/ IgnoreSuggestion(m)
    \/ \E t \in Trabalhos : \/ \E m \in N : Claim(t, m) \/ Suggest(t, m) \/ Reencontrar(t, m)
                            \/ \E d \in Decisoes : Complete(t, d)
                            \/ CompleteSuggest(t) \/ Send(t) \/ Perder(t)
    \/ VencerPrazo \/ Close
    \/ \E o \in Operadores : Assign(o)
    \/ \E modo \in {"human", "copilot"} : SetMode(modo)
    \/ \E m \in N \cup {Nada} : SendMessage(m)
    \/ \E h \in humanas : RetryMessage(h)

SpecConversa == InitConversa /\ [][NextConversa]_varsConversa

-----------------------------------------------------------------------------
ConversaTipo ==
    [status : {"open", "waiting_human", "closed"}, modo : {"autonomous", "copilot", "human"},
     operador : Operadores \cup {Nada}, versao : 0..MaxMudancas, ficha : (0..MaxFichas) \cup {Nada},
     prazo : BOOLEAN]
EntradaTipo == [estado : {"received", "processing", "failed", "completed"},
                tentativas : 0..MaxTentativas]
RespostaTipo == [tipo : {"reply", "suggestion"}, enviada : BOOLEAN]
HumanaTipo == [numero : 0..MaxMudancas, de : N \cup {Nada}, enviada : BOOLEAN]
TrabalhoTipo == [tipo : {"process", "suggest", "send"}, msg : N, ficha : 0..MaxFichas,
                 versao : 0..MaxMudancas, modo : {"autonomous", "copilot"}]

(* The bounds are numbers, and a row that is not there is no row. *)
AtendimentoAssumption ==
    /\ MaxEntradas \in Nat /\ MaxTentativas \in Nat /\ MaxMudancas \in Nat /\ MaxFichas \in Nat
    /\ Nada \notin Nat
    /\ Nada \notin EntradaTipo /\ Nada \notin RespostaTipo /\ Nada \notin TrabalhoTipo
ASSUME AtendimentoConstantes == AtendimentoAssumption

ConversaTypeOK ==
    /\ conversa \in ConversaTipo
    /\ entradas \in [N -> EntradaTipo \cup {Nada}]
    /\ respostas \in [N -> RespostaTipo \cup {Nada}]
    /\ humanas \subseteq HumanaTipo
    /\ trabalho \in [Trabalhos -> TrabalhoTipo \cup {Nada}]
    /\ fichas \in 0..MaxFichas

(* Once an operator took the conversation, or it was handed over or closed, *)
(* the assistant writes no reply, whatever it was still thinking about.     *)
RoboCalado ==
    [][\A m \in N : respostas'[m] # Nada /\ respostas'[m].tipo = "reply" /\ respostas[m] = Nada
          => conversa.status = "open" /\ conversa.operador = Nada]_varsConversa

(* The client is answered in the order they wrote.                          *)
RespondeEmOrdem ==
    \A m, n \in Chegadas : n < m /\ respostas[m] # Nada /\ respostas[m].tipo = "reply" => Concluida(n)

(* A draft becomes a message only for what the client last wrote.           *)
SugestaoAtual ==
    [][\A h \in humanas' \ humanas :
          h.numero = conversa.versao /\ h.de # Nada => Ultima(h.de)]_varsConversa
=============================================================================
