------------------------------- MODULE Briefing --------------------------------
(***************************************************************************)
(* What the assistant notes down of a request while it talks to a client,  *)
(* and the one budget the conversation becomes when the client confirms.   *)
(* Both tools run inside a turn of the assistant, each in a transaction of *)
(* its own: what they wrote stays when the turn is lost, and the turn that *)
(* takes up the message again may call them again.                         *)
(***************************************************************************)
EXTENDS Atendimento, FiniteSets

CONSTANTS
    Campos,       \* what the client must say: a service or interest, a name (the
                  \* address is the one they write from)
    Confirmam     \* the messages that ask for the budget in so many words

VARIABLES
    briefing,     \* the draft: which message said each field
    orcamentos    \* the budgets made of it

varsBriefing == <<varsConversa, briefing, orcamentos>>

InitBriefing ==
    /\ InitConversa
    /\ briefing = Nada
    /\ orcamentos = {}

-----------------------------------------------------------------------------
(* The client's last message, and a turn that still holds the conversation. *)
Autorizado(k) ==
    /\ k # Nada /\ k.tipo = "process"
    /\ Vale(k) /\ k.modo = "autonomous"
    /\ Ultima(k.msg)

Vazio == [dados |-> [c \in Campos |-> Nada], submetido |-> FALSE]
Anotado == IF briefing = Nada THEN Vazio ELSE briefing

Faltam == {c \in Campos : Anotado.dados[c] = Nada}

(* Each field is taken from the message at hand; the others stay.           *)
Update(t, campos) ==
    LET k == trabalho[t]
    IN  /\ Autorizado(k)
        /\ campos # {}
        /\ ~Anotado.submetido
        /\ briefing' = [Anotado EXCEPT !.dados =
                           [c \in Campos |-> IF c \in campos THEN k.msg ELSE @[c]]]
        /\ UNCHANGED <<varsConversa, orcamentos>>

(* mutant: the turn is retried and the tool starts again *)
AindaQueEnviado == briefing # Nada

(* A second call finds the budget and changes nothing.                      *)
PorEnviar == briefing # Nada /\ ~briefing.submetido

Submit(t) ==
    LET k == trabalho[t]
    IN  /\ PorEnviar
        /\ Autorizado(k)
        /\ k.msg \in Confirmam
        /\ Faltam = {}
        /\ briefing' = [briefing EXCEPT !.submetido = TRUE]
        /\ orcamentos' = orcamentos \cup
               {[numero |-> Cardinality(orcamentos) + 1, dados |-> briefing.dados, msg |-> k.msg]}
        /\ UNCHANGED varsConversa

NextBriefing ==
    \/ NextConversa /\ UNCHANGED <<briefing, orcamentos>>
    \/ \E t \in Trabalhos : \/ Submit(t)
                            \/ \E campos \in SUBSET Campos : Update(t, campos)

SpecBriefing == InitBriefing /\ [][NextBriefing]_varsBriefing

-----------------------------------------------------------------------------
BriefingTipo == [dados : [Campos -> N \cup {Nada}], submetido : BOOLEAN]

BriefingAssumption == AtendimentoAssumption /\ Nada \notin BriefingTipo
ASSUME BriefingConstantes == BriefingAssumption

BriefingTypeOK ==
    /\ ConversaTypeOK
    /\ briefing \in BriefingTipo \cup {Nada}
    /\ \A o \in orcamentos : o.numero \in Nat /\ o.dados \in [Campos -> N] /\ o.msg \in N

(* A conversation makes one budget, however often its turns are lost and    *)
(* taken up again; the draft stays what the budget was made of, and it says *)
(* nothing the client said only after confirming it.                        *)
PedidoUnico ==
    /\ \A o, p \in orcamentos : o = p
    /\ orcamentos # {} <=> briefing # Nada /\ briefing.submetido
    /\ \A o \in orcamentos :
          o.dados = briefing.dados /\ \A c \in Campos : o.dados[c] <= o.msg
=============================================================================
