------------------------------ MODULE Newsletter -------------------------------
(***************************************************************************)
(* A campaign of the newsletter: one request walks over the subscribers    *)
(* and commits after each of them, while they come and go, other           *)
(* administrators press send or save, the provider fails or does not       *)
(* answer, and the process may stop.                                       *)
(***************************************************************************)
EXTENDS Nulo

CONSTANTS
    Inscritos,   \* who may subscribe
    Versoes,     \* what the campaign may say; one of them is the first draft
    PrimeiroTexto

VARIABLES
    ativo,       \* each subscriber's row: Nada, or whether it is active
    campanha,    \* status and text
    remessas,    \* the row of each subscriber's delivery
    vez,         \* the request that sends: the delivery it is at, and how far
    lida,        \* another administrator's screen read the campaign as a draft
    recebidas    \* what came to whom

varsNewsletter == <<ativo, campanha, remessas, vez, lida, recebidas>>

Ativos == {i \in Inscritos : ativo[i] = TRUE}
Remessas == {i \in Inscritos : remessas[i] # Nada}
Pendentes == {i \in Inscritos : remessas[i] = "pending"}

InitNewsletter ==
    /\ ativo = [i \in Inscritos |-> Nada]
    /\ campanha = [status |-> "draft", texto |-> PrimeiroTexto]
    /\ remessas = [i \in Inscritos |-> Nada]
    /\ vez = Nada
    /\ lida = FALSE
    /\ recebidas = {}

-----------------------------------------------------------------------------
Inscrever(i) ==
    /\ ativo[i] # TRUE
    /\ ativo' = [ativo EXCEPT ![i] = TRUE]
    /\ UNCHANGED <<campanha, remessas, vez, lida, recebidas>>

(* By the link of the e-mail, or by an administrator. *)
Cancelar(i) ==
    /\ ativo[i] = TRUE
    /\ ativo' = [ativo EXCEPT ![i] = FALSE]
    /\ UNCHANGED <<campanha, remessas, vez, lida, recebidas>>

(* The campaign is read without a lock and written by a later statement.    *)
Ler ==
    /\ campanha.status = "draft"
    /\ lida' = TRUE
    /\ UNCHANGED <<ativo, campanha, remessas, vez, recebidas>>

AtualizarCampanha(v) ==
    /\ lida
    /\ campanha' = [campanha EXCEPT !.texto = v]
    /\ lida' = FALSE
    /\ UNCHANGED <<ativo, remessas, vez, recebidas>>

(* The row of the campaign is locked until it says "sending" and every      *)
(* active subscriber has a delivery.                                        *)
EnviarCampanha ==
    /\ campanha.status = "draft"
    /\ Ativos # {}
    /\ campanha' = [campanha EXCEPT !.status = "sending"]
    /\ remessas' = [i \in Inscritos |-> IF i \in Ativos THEN "pending" ELSE Nada]
    /\ vez' = [de |-> Nada, resposta |-> "nenhuma"]
    /\ UNCHANGED <<ativo, lida, recebidas>>

(* Looked up again when the turn comes. *)
Recebe(i) == ativo[i] = TRUE

Vez(i) ==
    /\ vez # Nada /\ vez.de = Nada
    /\ remessas[i] = "pending"
    /\ IF Recebe(i)
       THEN vez' = [de |-> i, resposta |-> "chamando"] /\ UNCHANGED remessas
       ELSE remessas' = [remessas EXCEPT ![i] = "skipped"] /\ UNCHANGED vez
    /\ UNCHANGED <<ativo, campanha, lida, recebidas>>

(* The provider takes the e-mail and says so, takes it without an answer in *)
(* time, or does not take it.                                               *)
Chamar(chegou, respondeu) ==
    /\ vez # Nada /\ vez.resposta = "chamando"
    /\ respondeu => chegou
    /\ recebidas' = IF chegou THEN recebidas \cup {[por |-> vez.de, texto |-> campanha.texto]}
                    ELSE recebidas
    /\ vez' = [vez EXCEPT !.resposta = IF respondeu THEN "aceita" ELSE "sem"]
    /\ UNCHANGED <<ativo, campanha, remessas, lida>>

(* mutant: no answer is taken for a delivery *)
TudoEnviado(resposta) == "sent"

(* Only an answer with the provider's id counts. *)
Desfecho(resposta) == IF resposta = "aceita" THEN "sent" ELSE "failed"

Registrar ==
    /\ vez # Nada /\ vez.resposta \in {"aceita", "sem"}
    /\ remessas' = [remessas EXCEPT ![vez.de] = Desfecho(vez.resposta)]
    /\ vez' = [de |-> Nada, resposta |-> "nenhuma"]
    /\ UNCHANGED <<ativo, campanha, lida, recebidas>>

Concluir ==
    /\ vez # Nada /\ vez.de = Nada
    /\ Pendentes = {}
    /\ campanha' = [campanha EXCEPT !.status =
                       IF \E i \in Remessas : remessas[i] = "sent" THEN "sent" ELSE "failed"]
    /\ vez' = Nada
    /\ UNCHANGED <<ativo, remessas, lida, recebidas>>

(* The process stops; nothing takes up the rest of the campaign.            *)
Interromper ==
    /\ vez # Nada
    /\ vez' = Nada
    /\ UNCHANGED <<ativo, campanha, remessas, lida, recebidas>>

NextNewsletter ==
    \/ \E i \in Inscritos : Inscrever(i) \/ Cancelar(i) \/ Vez(i)
    \/ \E v \in Versoes : AtualizarCampanha(v)
    \/ \E chegou, respondeu \in BOOLEAN : Chamar(chegou, respondeu)
    \/ Ler \/ EnviarCampanha \/ Registrar \/ Concluir \/ Interromper

SpecNewsletter == InitNewsletter /\ [][NextNewsletter]_varsNewsletter

-----------------------------------------------------------------------------
VezTipo == [de : Inscritos \cup {Nada}, resposta : {"nenhuma", "chamando", "aceita", "sem"}]

(* The first text is one of the texts; Nada is no row and no status. *)
NewsletterAssumption ==
    /\ PrimeiroTexto \in Versoes
    /\ Nada \notin Inscritos /\ Nada \notin VezTipo
    /\ Nada \notin {"pending", "sent", "failed", "skipped"}
ASSUME NewsletterConstantes == NewsletterAssumption

NewsletterTypeOK ==
    /\ ativo \in [Inscritos -> BOOLEAN \cup {Nada}]
    /\ campanha \in [status : {"draft", "sending", "sent", "failed"}, texto : Versoes]
    /\ remessas \in [Inscritos -> {"pending", "sent", "failed", "skipped", Nada}]
    /\ vez \in VezTipo \cup {Nada}
    /\ lida \in BOOLEAN
    /\ recebidas \subseteq [por : Inscritos, texto : Versoes]

Recebeu(i) == \E r \in recebidas : r.por = i

(* What the administrator reads about a campaign is true of the mailboxes:  *)
(* whoever is listed as sent received it, and in one wording; whoever      *)
(* is listed as skipped did not; a campaign that ended as sent reached      *)
(* somebody; and of the deliveries still listed as pending at most the one  *)
(* the sender was at came to a mailbox.                                     *)
RelatorioFiel ==
    /\ \A i \in Inscritos :
          /\ remessas[i] = "sent" => Recebeu(i)
          /\ Recebeu(i) => remessas[i] \in {"sent", "failed", "pending"}
    /\ \A r, s \in recebidas : r.por = s.por => r = s
    /\ campanha.status = "sent" => recebidas # {}
    /\ campanha.status \in {"sent", "failed"} => Pendentes = {}
    /\ \A i, j \in Pendentes : Recebeu(i) /\ Recebeu(j) => i = j
=============================================================================
