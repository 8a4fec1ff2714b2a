------------------------------- MODULE Checkout -------------------------------
(***************************************************************************)
(* Charges, payments and what they release.  One action per transaction or *)
(* provider call of checkout_service, mercado_pago_service,                *)
(* mercado_pago_webhook_service, financeiro_admin_service and the licence  *)
(* part of beat_service.  A transaction that holds the row lock of its     *)
(* charge from its first read to its commit is one step; a request that    *)
(* calls the provider is one step per call, with `trava` recording the     *)
(* locks it keeps meanwhile and `req` the answers read without a lock.     *)
(***************************************************************************)
EXTENDS Financeiro, Provedor, FiniteSetsExt

CONSTANTS
    SemCobranca,    \* model value: the charge of a row not yet inserted
    Finalidade,     \* Finalidade[c] \in {"producao", "creditos"}
    Licenca,        \* Licenca[c] \in {"nenhuma", "lease", "exclusivo"}
    Modos,          \* subset of {"quitar", "parcial"}: direct Pix of the admin
    Parciais,       \* amounts an admin may type for a partial direct Pix
    MaxReq,         \* bound: requests of clients and administrators in flight
    MaxWeb          \* bound: webhook requests in flight

ASSUME CheckoutAssumption ==
    /\ SemCobranca \notin Cobrancas
    /\ Finalidade \in [Cobrancas -> {"producao", "creditos"}]
    /\ Licenca \in [Cobrancas -> {"nenhuma", "lease", "exclusivo"}]
    /\ Modos \subseteq {"quitar", "parcial"}
    /\ Parciais \subseteq Nat \ {0}
    /\ MaxReq \in Nat /\ MaxWeb \in Nat

VARIABLES
    pag,       \* table `pagamentos`
    cobr,      \* cobrancas.status; "nenhuma" before the beat is requested
    env,       \* the request that creates the order of a payment
    ord,       \* status of the order at the provider
    aviso,     \* a notification the backend has not acknowledged with 200
    req,       \* reconciliation requests in flight
    trava,     \* who keeps the locks of a charge across provider calls
    producao,  \* the production of the charge's budget exists
    lotes,     \* the credit lots of the charge exist
    lic,       \* beats: the licence of the charge's proposal
    beat       \* the beat all licences of this instance are about

efeitos == <<producao, lotes, lic, beat>>
externo == <<env, ord, aviso, req, trava>>
vars == <<pag, cobr, env, ord, aviso, req, trava, producao, lotes, lic, beat>>

-----------------------------------------------------------------------------
Vazio == [cob |-> SemCobranca, tipo |-> "integral", valor |-> 0, status |-> "nenhum",
          metodo |-> "pix", ordem |-> FALSE, rec |-> "nenhuma", antiga |-> FALSE]

PagamentoRec ==
    [cob: Cobrancas, tipo: PagamentoTipo, valor: Nat, status: PagamentoStatus,
     metodo: {"pix", "cartao", "pix_direto"}, ordem: BOOLEAN,
     rec: {"nenhuma", "required", "conflict"}, antiga: BOOLEAN]

Envio == {"nao", "aberta", "voando", "atrasada", "fim"}
Passo == {"livre", "criando", "cancelar", "reler", "confirmar"}
Leitura == OrdemStatus \cup {"sem_ordem", "excedente"}

LicencaRec == [status: {"nenhuma", "reservada", "adquirida", "cancelada"},
               motivo: {"nenhum", "expirada", "admin", "pagamento_revertido"},
               vencida: BOOLEAN]

Livre == [dono |-> 0, passo |-> "livre"]

TypeOK ==
    /\ pag \in [Pagamentos -> PagamentoRec \cup {Vazio}]
    /\ cobr \in [Cobrancas -> CobrancaStatus \cup {"nenhuma"}]
    /\ env \in [Pagamentos -> Envio \cup OrdemStatus]
    /\ ord \in [Pagamentos -> OrdemStatus \cup {"none"}]
    /\ aviso \in [Pagamentos -> BOOLEAN]
    /\ req \subseteq [p: Pagamentos, ver: Leitura, web: BOOLEAN]
    /\ trava \in [Cobrancas -> [dono: Pagamentos \cup {0}, passo: Passo]]
    /\ producao \in [Cobrancas -> BOOLEAN]
    /\ lotes \in [Cobrancas -> BOOLEAN]
    /\ lic \in [Cobrancas -> LicencaRec]
    /\ beat \in {"aprovado", "fora", "vendido"}

SemLicenca == [status |-> "nenhuma", motivo |-> "nenhum", vencida |-> FALSE]

(* A charge exists from the acceptance of its proposal; a beat charge only
   once the licence is requested from the catalog (SolicitarLicenca). *)
Init ==
    /\ pag = [p \in Pagamentos |-> Vazio]
    /\ cobr = [c \in Cobrancas |-> IF Licenca[c] = "nenhuma" THEN "pendente" ELSE "nenhuma"]
    /\ env = [p \in Pagamentos |-> "nao"]
    /\ ord = [p \in Pagamentos |-> "none"]
    /\ aviso = [p \in Pagamentos |-> FALSE]
    /\ req = {}
    /\ trava = [c \in Cobrancas |-> Livre]
    /\ producao = [c \in Cobrancas |-> FALSE]
    /\ lotes = [c \in Cobrancas |-> FALSE]
    /\ lic = [c \in Cobrancas |-> SemLicenca]
    /\ beat = "aprovado"

-----------------------------------------------------------------------------
Usado(p) == pag[p].status # "nenhum"
DoProvedor(p) == Usado(p) /\ pag[p].metodo # "pix_direto"
Destravada(c) == trava[c].passo = "livre"

(* Rows get increasing ids. *)
Proximo(p) == ~Usado(p) /\ \A q \in Pagamentos : q < p => Usado(q)

Pendentes(c) == {p \in Pagamentos :
                    DoProvedor(p) /\ pag[p].cob = c /\ pag[p].status = "pendente"}

-----------------------------------------------------------------------------
(* What follows a payment change, inside the transaction that makes it.
   `mem` are the payments as the session holds them after the change, `banco`
   the rows a query sees: the session does not flush before it queries. *)

ExclusivoSemDono(c) == FALSE  \* mutant: the sale is only looked at when reserving

ExclusivoDeOutro(c) ==
    \E d \in Cobrancas \ {c} : Licenca[d] = "exclusivo" /\ lic[d].status = "adquirida"

(* A licence that a paid charge still has to serve. *)
AguardaPagamento(c) ==
    \/ lic[c].status = "reservada"
    \/ lic[c].status = "cancelada" /\ lic[c].motivo \in {"expirada", "admin"}

SoBeatFora(c) == lic[c].status = "cancelada" /\ beat # "aprovado"  \* mutant

Indisponivel(c) ==
    \/ ExclusivoDeOutro(c)
    \/ lic[c].status = "cancelada" /\ beat # "aprovado"

FlagPaymentConflict(mem, banco, c) ==
    IF Aprovados(banco, c) = {} THEN mem
    ELSE [mem EXCEPT ![Max(Aprovados(banco, c))] = [@ EXCEPT !.rec = "conflict"]]

NuncaRevoga(c, paga) == FALSE  \* mutant: a refund leaves the licence
Revogada(c, paga) == ~paga /\ lic[c].status = "adquirida"

ConfirmPaid(c, paga, mem, banco) ==
    LET atende == AguardaPagamento(c) /\ ~Indisponivel(c)
    IN  /\ pag' = IF paga /\ AguardaPagamento(c) /\ Indisponivel(c)
                  THEN FlagPaymentConflict(mem, banco, c) ELSE mem
        /\ lic' = CASE paga /\ atende ->
                         [lic EXCEPT ![c] = [@ EXCEPT !.status = "adquirida", !.motivo = "nenhum"]]
                    [] Revogada(c, paga) ->
                         [lic EXCEPT ![c] = [@ EXCEPT !.status = "cancelada",
                                                      !.motivo = "pagamento_revertido"]]
                    [] OTHER -> lic
        /\ beat' = IF paga /\ atende /\ Licenca[c] = "exclusivo" THEN "vendido" ELSE beat

FinanciamentoValido(pg, c) ==
    /\ Politica[c] = "integral"
    /\ \A p \in Pagamentos : pg[p].cob = c => pg[p].rec = "nenhuma"
    /\ ValorPago(pg, c) = Total[c]

(* The production, or for a purchase of credits its lots: once and for good.
   Without a minimum the transaction raises and is rolled back, unless the
   production is already there. *)
LiberarSoPaga(c, pg) ==  \* mutant: the production waits for the whole total
    /\ producao' = [producao EXCEPT ![c] = @ \/ StatusCalculado(pg, c) = "paga"]
    /\ UNCHANGED lotes

Liberar(c, pg) ==
    IF Finalidade[c] = "creditos"
    THEN /\ lotes' = [lotes EXCEPT ![c] = @ \/ FinanciamentoValido(pg, c)]
         /\ UNCHANGED producao
    ELSE /\ producao[c] \/ TemMinimo(c)
         /\ producao' = [producao EXCEPT ![c] = @ \/ CondicaoInicio(pg, c)]
         /\ UNCHANGED lotes

(* sincronizar_status and avaliar_cobranca_bloqueada.  Overpayment raises in
   the first, so no transaction that overpays gets this far. *)
AvaliarCobranca(c, mem, banco) ==
    LET status == StatusCalculado(mem, c)
    IN  /\ ~AcimaDoTotal(mem, c)
        /\ cobr' = [cobr EXCEPT ![c] = status]
        /\ ConfirmPaid(c, status = "paga", mem, banco)
        /\ Liberar(c, pag')

-----------------------------------------------------------------------------
(* A provider answer applied to a payment. *)

(* _persistir_resultado keeps the reconciliation flag, _apply_reconciliation
   clears it; both learn the order id. *)
ComResultado(p, novo, rec) ==
    [pag EXCEPT ![p] = [@ EXCEPT !.status = SafeTransition(pag[p].status, novo),
                                 !.ordem = TRUE, !.rec = rec]]

Reconciliado(p, s) == ComResultado(p, Recebido(s), "nenhuma")

Excede(p, s) ==
    /\ ~NaoSuportado(s)
    /\ AcimaDoTotal(Reconciliado(p, s), pag[p].cob)

(* The conflict that identity or state validation raises is committed. *)
ApplyReconciliation(p, s) ==
    IF NaoSuportado(s)
    THEN /\ pag' = [pag EXCEPT ![p] = [@ EXCEPT !.rec = "conflict"]]
         /\ UNCHANGED <<cobr, efeitos>>
    ELSE AvaliarCobranca(pag[p].cob, Reconciliado(p, s), pag)

-----------------------------------------------------------------------------
(* The checkout: one attempt per charge, then its order at the provider. *)

TentativaRecente(c) ==
    \E p \in Pagamentos :
        /\ pag[p].cob = c
        /\ \/ pag[p].status = "aprovado"
           \/ pag[p].status = "pendente" /\ ~pag[p].antiga

(* expire_reservations over the licences of the charges in cs. *)
Expiradas(cs) ==
    [c \in Cobrancas |->
        IF c \in cs /\ lic[c].status = "reservada" /\ lic[c].vencida /\ ~TentativaRecente(c)
        THEN [lic[c] EXCEPT !.status = "cancelada", !.motivo = "expirada"]
        ELSE lic[c]]

(* checkout_blocked_reason, after its own expirations. *)
CheckoutBloqueado(c) ==
    \/ Expiradas({c})[c].status = "cancelada"
    \/ lic[c].status = "reservada" /\ ExclusivoDeOutro(c)

(* A refused checkout commits the expiration it found. *)
RecusarCheckout(c) ==
    /\ Destravada(c)
    /\ CheckoutBloqueado(c)
    /\ Expiradas({c}) # lic
    /\ lic' = Expiradas({c})
    /\ UNCHANGED <<pag, cobr, producao, lotes, beat, externo>>

Inserido(p, c, tipo, valor, status, metodo) ==
    [pag EXCEPT ![p] = [cob |-> c, tipo |-> tipo, valor |-> valor, status |-> status,
                        metodo |-> metodo, ordem |-> FALSE, rec |-> "nenhuma",
                        antiga |-> FALSE]]

(* _get_or_create_attempt when it creates: locks the charge, commits the
   attempt without order and without any lock left. *)
GetOrCreateAttempt(c, tipo, metodo) ==
    /\ Destravada(c)
    /\ cobr[c] # "nenhuma"
    /\ ~CheckoutBloqueado(c)
    /\ Pendentes(c) = {}
    /\ OpcaoDaPolitica(pag, c, tipo)
    /\ Pagavel(pag, c, tipo)
    /\ \E p \in Pagamentos :
        /\ Proximo(p)
        /\ pag' = Inserido(p, c, tipo, ValorParaPagamento(pag, c, tipo), "pendente", metodo)
        /\ env' = [env EXCEPT ![p] = "aberta"]
    /\ UNCHANGED <<cobr, ord, aviso, req, trava, efeitos>>

(* _tentativa: a second transaction locks payment and charge, and keeps both
   while the provider is called. *)
EnviarInicia(p) ==
    /\ env[p] = "aberta"
    /\ Destravada(pag[p].cob)
    /\ ~pag[p].ordem
    /\ env' = [env EXCEPT ![p] = "voando"]
    /\ trava' = [trava EXCEPT ![pag[p].cob] = [dono |-> p, passo |-> "criando"]]
    /\ UNCHANGED <<pag, cobr, ord, aviso, req, efeitos>>

(* The provider creates the order, while the request waits or after it gave up. *)
ProvedorCria(p, s) ==
    /\ env[p] \in {"voando", "atrasada"}
    /\ s \in OrdemInicial(pag[p].metodo)
    /\ ord' = [ord EXCEPT ![p] = s]
    /\ env' = [env EXCEPT ![p] = IF @ = "voando" THEN s ELSE "fim"]
    /\ aviso' = [aviso EXCEPT ![p] = Notificado(s)]
    /\ UNCHANGED <<pag, cobr, req, trava, efeitos>>

Solta(c) == trava' = [trava EXCEPT ![c] = Livre]
Encerra(p) == env' = [env EXCEPT ![p] = "fim"]

(* _persistir_resultado with the order the provider answered. *)
EnviarResposta(p) ==
    LET mem == ComResultado(p, Recebido(env[p]), pag[p].rec)
    IN  /\ env[p] \in OrdemStatus
        /\ IF AcimaDoTotal(mem, pag[p].cob)
           THEN UNCHANGED <<pag, cobr, efeitos>>
           ELSE AvaliarCobranca(pag[p].cob, mem, pag)
        /\ Encerra(p)
        /\ Solta(pag[p].cob)
        /\ UNCHANGED <<ord, aviso, req>>

(* _persistir_resultado with a refusal the provider gives no order for. *)
EnviarRejeitada(p) ==
    LET mem == [pag EXCEPT ![p].status = SafeTransition(@, "recusado")]
    IN  /\ env[p] = "voando"
        /\ AvaliarCobranca(pag[p].cob, mem, pag)
        /\ Encerra(p)
        /\ Solta(pag[p].cob)
        /\ UNCHANGED <<ord, aviso, req>>

(* The request ends without an answer: timeout, provider unavailable or rate
   limited, process stopped, and before the call also a charge that became a
   test.  Locks go with the transaction; the attempt stays pending without
   order, and a call already sent may still reach the provider. *)
EnviarFalha(p) ==
    /\ env[p] \in {"aberta", "voando"} \cup OrdemStatus
    /\ env' = [env EXCEPT ![p] = IF @ = "voando" THEN "atrasada" ELSE "fim"]
    /\ IF env[p] = "aberta" THEN UNCHANGED trava ELSE Solta(pag[p].cob)
    /\ UNCHANGED <<pag, cobr, ord, aviso, req, efeitos>>

(* Orders move on at the provider. *)
ProvedorMuda(p, s) ==
    /\ s \in OrdemSeguinte(pag[p].metodo, ord[p])
    /\ ord' = [ord EXCEPT ![p] = s]
    /\ aviso' = [aviso EXCEPT ![p] = @ \/ Notificado(s)]
    /\ UNCHANGED <<pag, cobr, env, req, trava, efeitos>>

-----------------------------------------------------------------------------
(* Reconciliation: the order is read without any lock, then applied. *)

(* reconcile_payment, from recuperar or from the admin: reads the local order
   id, ends its transaction and asks the provider. *)
ReconcilePayment(p) ==
    /\ Usado(p)
    /\ Cardinality({r \in req : ~r.web}) < MaxReq
    /\ req' = req \cup {[p |-> p, ver |-> IF pag[p].ordem THEN ord[p] ELSE "sem_ordem",
                         web |-> FALSE]}
    /\ UNCHANGED <<pag, cobr, env, ord, aviso, trava, efeitos>>

(* process_webhook up to the query of reconcile_order; the payment is found by
   its order id or by its external reference. *)
ReconcileOrder(p) ==
    /\ aviso[p]
    /\ Cardinality({r \in req : r.web}) < MaxWeb
    /\ req' = req \cup {[p |-> p, ver |-> ord[p], web |-> TRUE]}
    /\ aviso' = [aviso EXCEPT ![p] = FALSE]
    /\ UNCHANGED <<pag, cobr, env, ord, trava, efeitos>>

(* _apply_reconciliation; a webhook is then finished (processed or conflict),
   unless the process stops in between and the provider notifies again. *)
ReqAplica(r) ==
    /\ r \in req
    /\ r.ver \in OrdemStatus
    /\ Destravada(pag[r.p].cob)
    /\ IF Excede(r.p, r.ver)
       THEN /\ req' = (req \ {r}) \cup {[r EXCEPT !.ver = "excedente"]}
            /\ UNCHANGED <<pag, cobr, efeitos>>
       ELSE /\ ApplyReconciliation(r.p, r.ver)
            /\ req' = req \ {r}
    /\ \E perdida \in BOOLEAN : aviso' = [aviso EXCEPT ![r.p] = @ \/ (r.web /\ perdida)]
    /\ UNCHANGED <<env, ord, trava>>

(* _mark_reconciliation in a transaction of its own: it locks the payment row
   and overwrites the flag, whatever happened since. *)
ReqMarca(r) ==
    /\ r \in req
    /\ r.ver \in {"sem_ordem", "excedente"}
    /\ trava[pag[r.p].cob].dono # r.p
    /\ pag' = [pag EXCEPT ![r.p] = [@ EXCEPT !.rec =
                  IF r.ver = "sem_ordem" THEN "required" ELSE "conflict"]]
    /\ req' = req \ {r}
    /\ UNCHANGED <<cobr, env, ord, aviso, trava, efeitos>>

(* The request fails or its process stops; an unacknowledged notification is
   delivered again. *)
FalhaEsquece(r) ==  \* mutant: the notification was acknowledged too early
    /\ r \in req
    /\ req' = req \ {r}
    /\ UNCHANGED <<pag, cobr, env, ord, aviso, trava, efeitos>>

ReqFalha(r) ==
    /\ r \in req
    /\ req' = req \ {r}
    /\ aviso' = [aviso EXCEPT ![r.p] = @ \/ r.web]
    /\ UNCHANGED <<pag, cobr, env, ord, trava, efeitos>>

-----------------------------------------------------------------------------
(* cancelar_pix_pendente: payment and charge stay locked over its calls. *)

(* The outcome of one query under the lock: a pending order keeps `depois`,
   any other one is applied and ends the request.  Overpayment rolls back and
   marks the payment. *)
Reconcilia(c, p, s, depois) ==
    IF s = "action_required"
    THEN depois
    ELSE /\ Solta(c)
         /\ IF Excede(p, s)
            THEN /\ req' = req \cup {[p |-> p, ver |-> "excedente", web |-> FALSE]}
                 /\ UNCHANGED <<pag, cobr, efeitos>>
            ELSE ApplyReconciliation(p, s) /\ UNCHANGED req

CancelarPixPendente(p) ==
    LET c == pag[p].cob
        segue == /\ trava' = [trava EXCEPT ![c] = [dono |-> p, passo |-> "cancelar"]]
                 /\ UNCHANGED <<pag, cobr, req, efeitos>>
    IN  /\ Usado(p)
        /\ pag[p].metodo = "pix"
        /\ pag[p].status = "pendente"
        /\ Destravada(c)
        /\ p = Max(Pendentes(c))
        /\ pag[p].rec # "conflict"
        /\ pag[p].ordem
        /\ Reconcilia(c, p, ord[p], segue)
        /\ UNCHANGED <<env, ord, aviso>>

(* provider.cancel_order: done, accepted but not yet visible, or refused (409)
   because the order is no longer cancelable. *)
CancelOrder(c) ==
    LET p == trava[c].dono
    IN  /\ trava[c].passo = "cancelar"
        /\ IF ord[p] = "action_required"
           THEN /\ \E feito \in BOOLEAN :
                    /\ ord' = [ord EXCEPT ![p] = IF feito THEN "canceled" ELSE @]
                    /\ aviso' = [aviso EXCEPT ![p] = @ \/ feito]
                /\ trava' = [trava EXCEPT ![c] = [@ EXCEPT !.passo = "confirmar"]]
           ELSE /\ trava' = [trava EXCEPT ![c] = [@ EXCEPT !.passo = "reler"]]
                /\ UNCHANGED <<ord, aviso>>
        /\ UNCHANGED <<pag, cobr, env, req, efeitos>>

(* The query after a 409 (reler) or after an accepted cancellation
   (confirmar); only the latter marks an order that is still pending. *)
DaPorCancelado(p, passo) ==  \* mutant: accepted is taken for cancelled
    IF passo = "confirmar" THEN [pag EXCEPT ![p] = [@ EXCEPT !.status = "cancelado"]] ELSE pag

SemConfirmacao(p, passo) ==
    IF passo = "confirmar" THEN [pag EXCEPT ![p] = [@ EXCEPT !.rec = "required"]] ELSE pag

ConfirmarCancelamento(c) ==
    LET p == trava[c].dono
        segue == /\ Solta(c)
                 /\ pag' = SemConfirmacao(p, trava[c].passo)
                 /\ UNCHANGED <<cobr, req, efeitos>>
    IN  /\ trava[c].passo \in {"reler", "confirmar"}
        /\ Reconcilia(c, p, ord[p], segue)
        /\ UNCHANGED <<env, ord, aviso>>

(* A call to the provider fails: rollback, nothing recorded. *)
CancelarFalha(c) ==
    /\ trava[c].passo \in {"cancelar", "reler", "confirmar"}
    /\ Solta(c)
    /\ UNCHANGED <<pag, cobr, env, ord, aviso, req, efeitos>>

-----------------------------------------------------------------------------
(* The administrator: a Pix received directly, and its annulment.  Both flush
   before they evaluate the charge. *)

ValorManual(c, modo, valor) == IF modo = "quitar" THEN Total[c] - ValorPago(pag, c) ELSE valor

TipoManual(c, valor) ==
    IF ValorPago(pag, c) # 0 THEN "saldo"
    ELSE IF valor = Total[c] THEN "integral" ELSE "entrada"

RegistrarPixManual(c, modo, valor) ==
    LET v == ValorManual(c, modo, valor)
    IN  /\ Destravada(c)
        /\ cobr[c] # "nenhuma"
        /\ Pendentes(c) = {}
        /\ ValorPago(pag, c) < Total[c]
        /\ modo = "parcial" => v < Total[c] - ValorPago(pag, c)
        /\ \E p \in Pagamentos :
            LET mem == Inserido(p, c, TipoManual(c, v), v, "aprovado", "pix_direto")
            IN  Proximo(p) /\ AvaliarCobranca(c, mem, mem)
        /\ UNCHANGED externo

AnulavelComLotes(p) ==  \* mutant: the credits are not looked at
    /\ Usado(p)
    /\ pag[p].metodo = "pix_direto"
    /\ pag[p].status = "aprovado"

Anulavel(p) ==
    /\ Usado(p)
    /\ pag[p].metodo = "pix_direto"
    /\ pag[p].status = "aprovado"
    /\ ~lotes[pag[p].cob]

AnularPixManual(p) ==
    LET c == pag[p].cob
        mem == [pag EXCEPT ![p] = [@ EXCEPT !.status = "cancelado", !.rec = "nenhuma"]]
    IN  /\ Anulavel(p)
        /\ Destravada(c)
        /\ AvaliarCobranca(c, mem, mem)
        /\ UNCHANGED externo

-----------------------------------------------------------------------------
(* Beats: reservations do not hold the beat, the first payment decides. *)

(* request_license up to the accepted purchase: reserve_for_proposal expires
   the beat's lapsed reservations and adds this one; the charge now exists. *)
SolicitarLicenca(c) ==
    /\ Licenca[c] # "nenhuma"
    /\ cobr[c] = "nenhuma"
    /\ beat = "aprovado"
    /\ lic' = [Expiradas(Cobrancas) EXCEPT ![c] =
                  [status |-> "reservada", motivo |-> "nenhum", vencida |-> FALSE]]
    /\ cobr' = [cobr EXCEPT ![c] = "pendente"]
    /\ UNCHANGED <<pag, producao, lotes, beat, externo>>

(* Listing the catalog commits the expirations it finds. *)
ExpireReservations ==
    /\ Expiradas(Cobrancas) # lic
    /\ lic' = Expiradas(Cobrancas)
    /\ UNCHANGED <<pag, cobr, producao, lotes, beat, externo>>

ReleaseReservation(c) ==
    /\ lic[c].status = "reservada"
    /\ lic' = [lic EXCEPT ![c] = [@ EXCEPT !.status = "cancelada", !.motivo = "admin"]]
    /\ UNCHANGED <<pag, cobr, producao, lotes, beat, externo>>

Relist ==
    /\ beat = "vendido"
    /\ ~\E c \in Cobrancas : Licenca[c] = "exclusivo" /\ lic[c].status = "adquirida"
    /\ beat' = "aprovado"
    /\ UNCHANGED <<pag, cobr, producao, lotes, lic, externo>>

(* review refusing, or edit returning the beat to review: not while a licence
   is reserved or acquired. *)
RetirarBeat ==
    /\ beat = "aprovado"
    /\ \E c \in Cobrancas : Licenca[c] # "nenhuma"
    /\ \A c \in Cobrancas : lic[c].status \notin {"reservada", "adquirida"}
    /\ beat' = "fora"
    /\ UNCHANGED <<pag, cobr, producao, lotes, lic, externo>>

AprovarBeat ==
    /\ beat = "fora"
    /\ beat' = "aprovado"
    /\ UNCHANGED <<pag, cobr, producao, lotes, lic, externo>>

(* Time: the 48 hours of a reservation, the 24 hours of grace of an attempt. *)
VenceReserva(c) ==
    /\ lic[c].status = "reservada"
    /\ ~lic[c].vencida
    /\ lic' = [lic EXCEPT ![c] = [@ EXCEPT !.vencida = TRUE]]
    /\ UNCHANGED <<pag, cobr, producao, lotes, beat, externo>>

EnvelheceTentativa(p) ==
    /\ pag[p].status = "pendente"
    /\ lic[pag[p].cob].status = "reservada"
    /\ ~pag[p].antiga
    /\ pag' = [pag EXCEPT ![p] = [@ EXCEPT !.antiga = TRUE]]
    /\ UNCHANGED <<cobr, efeitos, externo>>

-----------------------------------------------------------------------------
Cliente(c) ==
    \/ \E tipo \in PagamentoTipo, metodo \in Metodos : GetOrCreateAttempt(c, tipo, metodo)
    \/ RecusarCheckout(c)
    \/ SolicitarLicenca(c)

Envios(p) ==
    \/ EnviarInicia(p)
    \/ EnviarResposta(p)
    \/ EnviarRejeitada(p)
    \/ EnviarFalha(p)

MercadoPago(p) ==
    \E s \in OrdemStatus : ProvedorCria(p, s) \/ ProvedorMuda(p, s)

Conciliacao(p) ==
    \/ ReconcilePayment(p)
    \/ ReconcileOrder(p)

Requisicao(r) == ReqAplica(r) \/ ReqMarca(r) \/ ReqFalha(r)

Cancelamento(c) == CancelOrder(c) \/ ConfirmarCancelamento(c) \/ CancelarFalha(c)

Admin(c) == \E modo \in Modos, valor \in Parciais \cup {0} : 
                /\ modo = "quitar" <=> valor = 0
                /\ RegistrarPixManual(c, modo, valor)

Catalogo ==
    \/ ExpireReservations
    \/ Relist
    \/ RetirarBeat
    \/ AprovarBeat
    \/ \E c \in Cobrancas : ReleaseReservation(c) \/ VenceReserva(c)

Next ==
    \/ \E c \in Cobrancas : Cliente(c) \/ Cancelamento(c) \/ Admin(c)
    \/ \E p \in Pagamentos :
        \/ Envios(p)
        \/ MercadoPago(p)
        \/ Conciliacao(p)
        \/ CancelarPixPendente(p)
        \/ AnularPixManual(p)
        \/ EnvelheceTentativa(p)
    \/ \E r \in req : Requisicao(r)
    \/ Catalogo

Spec == Init /\ [][Next]_vars

-----------------------------------------------------------------------------
(* Safety. *)

(* No charge is ever paid beyond its total, whatever late or repeated answer
   the provider gives, and its status is the one its payments add up to: the
   two facts sincronizar_status keeps on every path that changes a payment. *)
NuncaSobrepago ==
    \A c \in Cobrancas :
        /\ ValorPago(pag, c) <= Total[c]
        /\ cobr[c] # "nenhuma" => cobr[c] = StatusCalculado(pag, c)

(* A charge has at most one attempt open at the provider, also when two
   requests start together, an attempt is abandoned or a cancellation is in
   doubt (_get_or_create_attempt, _safe_transition). *)
UmaTentativa ==
    \A c \in Cobrancas, p, q \in Pagamentos :
        p \in Pendentes(c) /\ q \in Pendentes(c) => p = q

(* A production starts as soon as the minimum of its policy is paid, on every
   path: checkout answer, webhook, reconciliation, direct Pix. *)
LiberaQuandoPaga ==
    \A c \in Cobrancas :
        Finalidade[c] = "producao" /\ cobr[c] # "nenhuma" /\ CondicaoInicio(pag, c) => producao[c]

(* Money that was collected or can still be. *)
Arrecadavel(p) ==
    IF DoProvedor(p)
    THEN ord[p] \in {"action_required", "processed"} \/ env[p] \in {"aberta", "voando", "atrasada"}
    ELSE pag[p].status = "aprovado"

Arrecadacao(c) ==
    Soma([p \in Pagamentos |->
            IF pag[p].cob = c /\ Arrecadavel(p) THEN pag[p].valor ELSE 0], MaxPagamentos)

(* A client is never asked for more than the total: what was collected and what
   open orders, delayed creations and direct Pix can still collect fit in it.
   Needs a provider that does not revive an order it reported dead. *)
NaoCobraDuasVezes == \A c \in Cobrancas : Arrecadacao(c) <= Total[c]

(* A payment the backend calls refused or cancelled is one the provider cannot
   collect any more: the checkout opens another attempt on the strength of it
   (cancelar_pix_pendente confirms before it releases the charge). *)
DesfechoConfirmado ==
    \A p \in Pagamentos :
        DoProvedor(p) /\ pag[p].status \in {"recusado", "cancelado"} =>
            /\ ord[p] \in {"none", "failed", "expired", "canceled"}
            /\ env[p] # "atrasada"

(* A notification on its way: not acknowledged, or being processed. *)
Avisado(p) == aviso[p] \/ \E r \in req : r.p = p /\ r.web

(* Money at the provider is never forgotten: once every notification of a
   processed order was acknowledged and its request ended, the payment is
   approved here (process_webhook acknowledges only what it applied). *)
DinheiroVisto ==
    \A p \in Pagamentos :
        ord[p] = "processed" /\ ~Avisado(p) /\ env[p] = "fim" => pag[p].status = "aprovado"

(* A chargeback or partial refund whose notification was acknowledged stays
   visible on the payment until someone deals with it. *)
EstornoSinalizado ==
    \A p \in Pagamentos :
        NaoSuportado(ord[p]) /\ ~aviso[p] /\ req = {} => pag[p].rec # "nenhuma"

(* An attempt whose creation was lost before it reached the provider can still
   be resolved: sent again, cancelled or reconciled. *)
TentativaRetomavel ==
    \A p \in Pagamentos :
        pag[p].status = "pendente" /\ env[p] = "fim" /\ ord[p] = "none" =>
            ENABLED (Next /\ (env'[p] # "fim" \/ pag'[p].status # "pendente"))

(* Credits are granted the moment their charge is fully financed, without any
   pending reconciliation, and they never lose that backing except by a refund
   of the provider: an annulment is refused once they exist. *)
CreditosFinanciados ==
    \A c \in Cobrancas : Finalidade[c] = "creditos" =>
        /\ FinanciamentoValido(pag, c) => lotes[c]
        /\ lotes[c] => \/ ValorPago(pag, c) = Total[c]
                       \/ \E p \in Pagamentos : pag[p].cob = c /\ pag[p].status = "reembolsado"

-----------------------------------------------------------------------------
(* Safety of licences. *)

(* An exclusive licence is held by one charge at most, and its beat is out of
   the catalog, across late payments, refunds and relisting. *)
ExclusivoUnico ==
    \A c, d \in Cobrancas :
        Licenca[c] = "exclusivo" /\ lic[c].status = "adquirida" =>
            /\ beat = "vendido"
            /\ Licenca[d] = "exclusivo" /\ lic[d].status = "adquirida" => c = d

(* Whoever holds a licence has paid its charge in full, also after refunds,
   annulments and repeated notifications. *)
LicencaSoPaga == \A c \in Cobrancas : lic[c].status = "adquirida" => cobr[c] = "paga"

(* No licence is granted on a beat whose exclusive another charge holds. *)
NadaSobreExclusivo ==
    [][\A c, d \in Cobrancas :
          /\ lic[c].status # "adquirida" /\ lic'[c].status = "adquirida"
          /\ c # d /\ Licenca[d] = "exclusivo"
          => lic[d].status # "adquirida"]_lic

(* A charge that is paid while its licence waits, lapsed or released, either
   gets the licence or is flagged for a human decision (confirm_paid). *)
PagamentoTardioSinalizado ==
    \A c \in Cobrancas :
        cobr[c] = "paga" /\ AguardaPagamento(c) =>
            \E p \in Pagamentos : pag[p].cob = c /\ pag[p].rec = "conflict"

(* A charge that is paid again after its licence was revoked either gets the
   licence back or is flagged (confirm_paid keeps licences in step). *)
RepagamentoSinalizado ==
    \A c \in Cobrancas :
        cobr[c] = "paga" /\ lic[c].motivo = "pagamento_revertido" =>
            \E p \in Pagamentos : pag[p].cob = c /\ pag[p].rec = "conflict"

-----------------------------------------------------------------------------
(* The refinement: the ledger this specification implements. *)

FaseDe(status) ==
    CASE status = "nenhum" -> "nenhum"
      [] status = "pendente" -> "aberto"
      [] status = "aprovado" -> "recebido"
      [] status = "reembolsado" -> "devolvido"
      [] OTHER -> "encerrado"

OrigemDe(metodo) == IF metodo = "pix_direto" THEN "direta" ELSE "provedor"

Conta ==
    [p \in Pagamentos |->
        [cob |-> pag[p].cob, valor |-> pag[p].valor,
         fase |-> FaseDe(pag[p].status), origem |-> OrigemDe(pag[p].metodo)]]

Pago == [c \in Cobrancas |-> ValorPago(pag, c)]

Contabil == INSTANCE Livro WITH conta <- Conta, pago <- Pago, situacao <- cobr

(* Every transaction of the code books at most one movement of one payment, and
   the status it derives from a fresh sum is the one the running balance gives
   (sincronizar_status against registrar, _safe_transition and annulment). *)
ImplementaLivro == Contabil!Spec

-----------------------------------------------------------------------------
(* Liveness.  A request to the provider ends: the HTTP call has a timeout and
   the request then answers or fails.  Mercado Pago repeats a notification until
   it gets a 200, so a query that fails is made again and succeeds at last; a
   request that waits for a row lock is served when the lock is free again and
   again; the process stops between query and commit a finite number of times.
   Clients, administrators and the orders of the provider may stop for ever. *)
AplicaAviso(p) == \E r \in req : r.p = p /\ r.web /\ ReqAplica(r)
MarcaAviso(p) == \E r \in req : r.p = p /\ r.web /\ ReqMarca(r)

Justica ==
    /\ \A p \in Pagamentos :
        /\ WF_vars(EnviarResposta(p) \/ EnviarFalha(p))
        /\ SF_vars(ReconcileOrder(p))
        /\ SF_vars(AplicaAviso(p))
        /\ SF_vars(MarcaAviso(p))
    /\ \A c \in Cobrancas : WF_vars(Cancelamento(c))
    /\ <>[][\A r \in req : ~ReqFalha(r)]_vars

FairSpec == Spec /\ Justica

(* Whatever is lost on the way - the answer to the creation, notifications,
   queries, the process itself - money that stays at the provider ends up
   approved here or flagged as a conflict (process_webhook, reconcile_order). *)
ReconhecePago ==
    \A p \in Pagamentos :
        ord[p] = "processed" ~>
            \/ pag[p].status = "aprovado"
            \/ pag[p].rec = "conflict"
            \/ ord[p] # "processed"

(* An attempt that died at the provider does not block its charge for ever: it
   stops being pending, and another one may be opened (the pending guard of
   _get_or_create_attempt, the mapping of _provider_state). *)
TentativaMortaSolta ==
    \A p \in Pagamentos :
        ord[p] \in {"failed", "expired", "canceled"} ~>
            pag[p].status # "pendente" \/ ord[p] = "processed"
=============================================================================
