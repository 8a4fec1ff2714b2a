---------------------------- MODULE CatalogoBeats -----------------------------
(***************************************************************************)
(* A beat in the catalog: sent by its producer, reviewed, edited, mixed    *)
(* again with a tag, withdrawn, reserved and sold.  Whoever changes the    *)
(* beat holds its row, so an operation is one step; a purchase is two, for *)
(* its budget is committed before the beat is reserved.                    *)
(***************************************************************************)
EXTENDS Nulo, Naturals

CONSTANTS
    Compras,        \* the purchases that may be made
    Exclusivas,     \* those of the exclusive licence
    MaxConteudo,    \* bound: versions of the beat
    MaxObjetos      \* bound: objects in the storage

VARIABLES
    beat,        \* its row
    objetos,     \* the objects of the storage
    proximo,     \* the name of the next object
    incerto,     \* a commit was answered with an error and stood
    pedidos,     \* how far each purchase came
    licencas,    \* its licence
    pagas        \* the purchases whose charge is paid

vars == <<beat, objetos, proximo, incerto, pedidos, licencas, pagas>>

SemLicenca == [status |-> "nenhuma", motivo |-> Nada, conteudo |-> 0, caducou |-> FALSE]

Init ==
    /\ beat = [status |-> "inexistente", conteudo |-> 0, original |-> Nada, previa |-> Nada,
               fila |-> "nao"]
    /\ objetos = {}
    /\ proximo = 1
    /\ incerto = FALSE
    /\ pedidos = [c \in Compras |-> "nao"]
    /\ licencas = [c \in Compras |-> SemLicenca]
    /\ pagas = {}

-----------------------------------------------------------------------------
Guardado == beat.status \in {"revisao", "aprovado", "rejeitado", "vendido"}

Viva(c) == licencas[c].status \in {"reservada", "adquirida"}

Prometido == \E c \in Compras : Viva(c)

VendidaAOutra(c) == \E d \in Exclusivas \ {c} : licencas[d].status = "adquirida"

(* The row changes and the files it no longer names are deleted.  When the  *)
(* commit stood but was answered with an error, the new ones are instead.   *)
(* One that failed leaves everything as it was.                             *)
Salvar(novo, novos, velhos, respondeu) ==
    /\ beat' = novo
    /\ objetos' = IF respondeu THEN (objetos \cup novos) \ velhos ELSE objetos
    /\ incerto' = (incerto \/ ~respondeu)

Create(respondeu) ==
    /\ beat.status = "inexistente"
    /\ proximo + 1 <= MaxObjetos
    /\ Salvar([status |-> "revisao", conteudo |-> 1, original |-> proximo,
               previa |-> proximo + 1, fila |-> "nao"],
              {proximo, proximo + 1}, {}, respondeu)
    /\ proximo' = proximo + 2
    /\ UNCHANGED <<pedidos, licencas, pagas>>

Review(decisao) ==
    /\ Guardado /\ beat.status # "vendido"
    /\ decisao = "rejeitado" => ~Prometido
    /\ beat' = [beat EXCEPT !.status = decisao]
    /\ UNCHANGED <<objetos, proximo, incerto, pedidos, licencas, pagas>>

(* mutant: a beat somebody reserved may be edited *)
SempreEditavel == Guardado /\ beat.status # "vendido"

Editavel == Guardado /\ beat.status # "vendido" /\ ~Prometido

(* By the studio or the producer, back to review.  The details a producer   *)
(* may correct in the catalog are not part of what is sold.                 *)
Edit ==
    /\ Editavel
    /\ beat.conteudo < MaxConteudo
    /\ beat' = [beat EXCEPT !.status = "revisao", !.conteudo = @ + 1]
    /\ UNCHANGED <<objetos, proximo, incerto, pedidos, licencas, pagas>>

(* With another recording, and so another preview. *)
EditArquivos(respondeu) ==
    /\ Editavel
    /\ beat.conteudo < MaxConteudo
    /\ proximo + 1 <= MaxObjetos
    /\ Salvar([beat EXCEPT !.status = "revisao", !.conteudo = @ + 1, !.original = proximo,
                           !.previa = proximo + 1],
              {proximo, proximo + 1}, {beat.original, beat.previa}, respondeu)
    /\ proximo' = proximo + 2
    /\ UNCHANGED <<pedidos, licencas, pagas>>

(* Only while nobody ever asked for it. *)
ProducerDelete ==
    /\ Guardado /\ beat.status # "vendido"
    /\ \A c \in Compras : pedidos[c] = "nao"
    /\ beat' = [beat EXCEPT !.status = "excluido"]
    /\ objetos' = objetos \ {beat.original, beat.previa}
    /\ UNCHANGED <<proximo, incerto, pedidos, licencas, pagas>>

-----------------------------------------------------------------------------
(* The tagged preview. *)

(* For the administrator, or the worker if it is queued. *)
Remixar(respondeu) ==
    /\ Guardado
    /\ beat.original \in objetos
    /\ proximo <= MaxObjetos
    /\ Salvar([beat EXCEPT !.previa = proximo,
                           !.fila = IF @ = "pendente" THEN "pronto" ELSE @],
              {proximo}, {beat.previa}, respondeu)
    /\ proximo' = proximo + 1
    /\ UNCHANGED <<pedidos, licencas, pagas>>

FalharFila ==
    /\ Guardado
    /\ beat.fila = "pendente"
    /\ beat' = [beat EXCEPT !.fila = "erro"]
    /\ UNCHANGED <<objetos, proximo, incerto, pedidos, licencas, pagas>>

IniciarLote ==
    /\ Guardado
    /\ beat.fila # "pendente"
    /\ beat' = [beat EXCEPT !.fila = "pendente"]
    /\ UNCHANGED <<objetos, proximo, incerto, pedidos, licencas, pagas>>

-----------------------------------------------------------------------------
(* The licences. *)

RequestLicense(c) ==
    /\ beat.status = "aprovado"
    /\ pedidos[c] = "nao"
    /\ pedidos' = [pedidos EXCEPT ![c] = "orcamento"]
    /\ UNCHANGED <<beat, objetos, proximo, incerto, licencas, pagas>>

(* The same request repeated gets here too. *)
ReserveForProposal(c) ==
    /\ pedidos[c] = "orcamento"
    /\ beat.status = "aprovado"
    /\ pedidos' = [pedidos EXCEPT ![c] = "proposta"]
    /\ licencas' = [licencas EXCEPT ![c] = [SemLicenca EXCEPT !.status = "reservada",
                                                              !.conteudo = beat.conteudo]]
    /\ UNCHANGED <<beat, objetos, proximo, incerto, pagas>>

Cancelada(l, motivo) == [l EXCEPT !.status = "cancelada", !.motivo = motivo, !.caducou = TRUE]

ExpireReservations(c) ==
    /\ licencas[c].status = "reservada"
    /\ c \notin pagas
    /\ licencas' = [licencas EXCEPT ![c] = Cancelada(@, "expirada")]
    /\ UNCHANGED <<beat, objetos, proximo, incerto, pedidos, pagas>>

ReleaseReservation(c) ==
    /\ licencas[c].status = "reservada"
    /\ licencas' = [licencas EXCEPT ![c] = Cancelada(@, "admin")]
    /\ UNCHANGED <<beat, objetos, proximo, incerto, pedidos, pagas>>

(* What a payment finds: a reservation that the exclusive of another did    *)
(* not overtake, or a lapsed one of a beat that is still in the catalog.    *)
Concede(c) ==
    /\ ~VendidaAOutra(c)
    /\ \/ licencas[c].status = "reservada"
       \/ licencas[c].motivo \in {"expirada", "admin"} /\ beat.status = "aprovado"

(* On every change of a charge that is paid; otherwise it only flags the    *)
(* payment.                                                                 *)
ConfirmPaid(c) ==
    /\ pedidos[c] = "proposta"
    /\ pagas' = pagas \cup {c}
    /\ IF Concede(c)
       THEN /\ licencas' = [licencas EXCEPT ![c].status = "adquirida", ![c].motivo = Nada]
            /\ beat' = IF c \in Exclusivas THEN [beat EXCEPT !.status = "vendido"] ELSE beat
       ELSE UNCHANGED <<licencas, beat>>
    /\ UNCHANGED <<objetos, proximo, incerto, pedidos>>

RevokeReverted(c) ==
    /\ c \in pagas
    /\ pagas' = pagas \ {c}
    /\ licencas' = IF licencas[c].status = "adquirida"
                   THEN [licencas EXCEPT ![c] = Cancelada(@, "pagamento_revertido")]
                   ELSE licencas
    /\ UNCHANGED <<beat, objetos, proximo, incerto, pedidos>>

Relist ==
    /\ beat.status = "vendido"
    /\ \A c \in Exclusivas : licencas[c].status # "adquirida"
    /\ beat' = [beat EXCEPT !.status = "aprovado"]
    /\ UNCHANGED <<objetos, proximo, incerto, pedidos, licencas, pagas>>

-----------------------------------------------------------------------------
Next ==
    \/ \E respondeu \in BOOLEAN :
           Create(respondeu) \/ EditArquivos(respondeu) \/ Remixar(respondeu)
    \/ \E decisao \in {"aprovado", "rejeitado"} : Review(decisao)
    \/ Edit \/ ProducerDelete \/ FalharFila \/ IniciarLote \/ Relist
    \/ \E c \in Compras : \/ RequestLicense(c) \/ ReserveForProposal(c)
                          \/ ExpireReservations(c) \/ ReleaseReservation(c)
                          \/ ConfirmPaid(c) \/ RevokeReverted(c)

Spec == Init /\ [][Next]_vars

-----------------------------------------------------------------------------
Objetos == 1..MaxObjetos

TypeOK ==
    /\ beat \in [status : {"inexistente", "revisao", "aprovado", "rejeitado", "vendido", "excluido"},
                 conteudo : 0..MaxConteudo, original : Objetos \cup {Nada},
                 previa : Objetos \cup {Nada}, fila : {"nao", "pendente", "pronto", "erro"}]
    /\ objetos \subseteq Objetos
    /\ proximo \in 1..(MaxObjetos + 1)
    /\ incerto \in BOOLEAN
    /\ pedidos \in [Compras -> {"nao", "orcamento", "proposta"}]
    /\ licencas \in [Compras -> [status : {"nenhuma", "reservada", "adquirida", "cancelada"},
                                 motivo : {Nada, "expirada", "admin", "pagamento_revertido"},
                                 conteudo : 0..MaxConteudo, caducou : BOOLEAN]]
    /\ pagas \subseteq Compras

(* A beat somebody reserved or owns stays approved or sold; whose           *)
(* reservation never lapsed gets what was reserved, however the purchases,  *)
(* payments, refunds, edits and reviews interleave; and its files are there *)
(* to be downloaded, unless a commit stood that was answered with an error. *)
PromessaMantida ==
    \A c \in Compras : Viva(c) =>
        /\ beat.status \in {"aprovado", "vendido"}
        /\ ~licencas[c].caducou => licencas[c].conteudo = beat.conteudo
        /\ ~incerto => {beat.original, beat.previa} \subseteq objetos
===============================================================================
