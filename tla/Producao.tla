------------------------------- MODULE Producao -------------------------------
(***************************************************************************)
(* A production from its creation to the payment of its producers: where   *)
(* its money comes from (a proposal, units of a lot of credits, or an      *)
(* amount agreed by hand), the stages of its contract, and the payouts.    *)
(*                                                                         *)
(* Requests hold the budget, charge, lot, production and stage rows until  *)
(* they commit, so each is one step, but for the one that overwrites a row *)
(* it only read: the change of an agreed amount.                           *)
(***************************************************************************)
EXTENDS Centavos

CONSTANTS
    Producoes,
    Alocacoes,      \* identities of the allocations still to be made
    Produtores,
    Ninguem,
    Coordenador,    \* who answers for every stage at first
    Unidades,       \* units of the lot of credits
    ValorLote,      \* its value in cents
    ValorProposta,  \* the value of every proposal
    Pesos,          \* weights of the stages of a line
    Dependentes,    \* the stages that wait for the one before
    Incluidas,      \* review rounds the contract includes
    ExigirAdmin,    \* whether only the administrator grants more
    Valores         \* bound: amounts agreed by hand

ASSUME ProducaoAssumption ==
    /\ Ninguem \notin Produtores \cup Producoes
    /\ Coordenador \in Produtores \cup {Ninguem}
    /\ {Unidades, ValorLote, ValorProposta} \subseteq Nat \ {0}
    /\ Incluidas \in Nat
    /\ Pesos \in Seq(Nat)
    /\ Dependentes \subseteq DOMAIN Pesos \ {1}
    /\ Producoes \cap Alocacoes = {} /\ IsFiniteSet(Alocacoes)

VARIABLES
    producao,    \* producao[p]: its status
    diretas,     \* the productions created directly, with their budget
    trabalho,    \* trabalho[p]: it has files, or a checklist of its own
    proposta,    \* proposta[p]: the proposal of its budget
    financiado,  \* financiado[o]: origin o is settled and nothing is in dispute
    aloc,        \* aloc[a]: an allocation of the lot and its last movement
    etapa,       \* etapa[e]: a stage of an origin
    repasse,     \* repasse[e]: what a producer is owed for it
    legado,      \* legado[p]: the amount agreed by hand
    definindo    \* the productions locked by a request that changes the agreed amount

vars == <<producao, diretas, trabalho, proposta, financiado, aloc, etapa, repasse, legado, definindo>>

-----------------------------------------------------------------------------
Lote == "lote"
PoolLote == ParteProdutor(ValorLote)
Origens == Producoes \cup Alocacoes
Posicoes == DOMAIN Pesos
Etapas == Origens \X Posicoes

StatusProducao == {"aguardando_inicio", "em_producao", "revisao", "finalizado", "entregue"}
StatusEtapa == {"pendente", "em_andamento", "em_revisao", "concluida"}
EstadoAlocacao == {"nenhuma", "reservada", "consumida", "devolvida", "estornada"}

SemEtapa == [status |-> "inexistente", responsavel |-> Ninguem, executor |-> Ninguem,
             iniciada |-> FALSE, revisoes |-> 0]
SemAlocacao == [producao |-> Ninguem, unidades |-> 0, valor |-> 0, produtor |-> 0,
                estado |-> "nenhuma"]
SemRepasse == [estado |-> "nenhum", produtor |-> Ninguem, bruto |-> 0, parcela |-> 0]
SemLegado == [estado |-> "nenhum", valor |-> 0]

Init ==
    /\ producao = [p \in Producoes |-> "inexistente"]
    /\ diretas = {}
    /\ trabalho = [p \in Producoes |-> FALSE]
    /\ proposta = [p \in Producoes |-> "nenhuma"]
    /\ financiado = [o \in Producoes \cup {Lote} |-> o = Lote]
    /\ aloc = [a \in Alocacoes |-> SemAlocacao]
    /\ etapa = [e \in Etapas |-> SemEtapa]
    /\ repasse = [e \in Etapas |-> SemRepasse]
    /\ legado = [p \in Producoes |-> SemLegado]
    /\ definindo = {}

-----------------------------------------------------------------------------
(* Nobody holds the production's row between two steps. *)
Livre(p) == p \notin definindo

Vigentes == {a \in Alocacoes : aloc[a].estado \in {"reservada", "consumida"}}
AlocadasEm(p) == {a \in Alocacoes : aloc[a].producao = p}
VigentesEm(p) == AlocadasEm(p) \cap Vigentes

ProducaoDe(e) == IF e[1] \in Producoes THEN e[1] ELSE aloc[e[1]].producao
Existe(e) == etapa[e].status # "inexistente"

(* The stages that count: those of a returned allocation do not. *)
EtapasDe(p) ==
    {e \in Etapas : Existe(e) /\ ProducaoDe(e) = p /\ e[1] \in Producoes \cup Vigentes}

(* Work that a change of financing would leave without an owner. *)
TemTrabalho(p) ==
    \/ trabalho[p]
    \/ \E e \in Etapas : /\ Existe(e) /\ ProducaoDe(e) = p
                         /\ e[1] \in Producoes \/ etapa[e].iniciada

(* mutant: units already used are on the shelf again *)
UsoSoReservado(campo) ==
    FoldFunction(+, 0, [a \in {b \in Vigentes : aloc[b].estado = "reservada"} |-> aloc[a][campo]])

Uso(campo) == FoldFunction(+, 0, [a \in Vigentes |-> aloc[a][campo]])

NovasEtapas(o) ==
    [e \in Etapas |-> IF e[1] = o
                      THEN [SemEtapa EXCEPT !.status = "pendente", !.responsavel = Coordenador]
                      ELSE etapa[e]]

-----------------------------------------------------------------------------
(* Contracts. *)

CriarProducao(p) ==
    /\ producao[p] = "inexistente"
    /\ producao' = [producao EXCEPT ![p] = "aguardando_inicio"]
    /\ UNCHANGED <<diretas, trabalho, proposta, financiado, aloc, etapa, repasse, legado, definindo>>

(* The budget comes with it, so nobody has proposed anything yet. *)
CriarDireta(p) ==
    /\ producao[p] = "inexistente"
    /\ proposta[p] = "nenhuma"
    /\ producao' = [producao EXCEPT ![p] = "aguardando_inicio"]
    /\ diretas' = diretas \cup {p}
    /\ UNCHANGED <<trabalho, proposta, financiado, aloc, etapa, repasse, legado, definindo>>

CriarProposta(p) ==
    /\ proposta[p] = "nenhuma"
    /\ AlocadasEm(p) = {}
    /\ proposta' = [proposta EXCEPT ![p] = "rascunho"]
    /\ UNCHANGED <<producao, diretas, trabalho, financiado, aloc, etapa, repasse, legado, definindo>>

Instanciar(p) == etapa' = IF EtapasDe(p) = {} THEN NovasEtapas(p) ELSE etapa

(* A production created directly takes the contract when it is accepted. *)
Aprovar(p) ==
    /\ proposta[p] = "rascunho"
    /\ producao[p] = "inexistente" \/ p \in diretas
    /\ Livre(p)
    /\ proposta' = [proposta EXCEPT ![p] = "aceita"]
    /\ IF producao[p] = "inexistente" THEN UNCHANGED etapa ELSE Instanciar(p)
    /\ UNCHANGED <<producao, diretas, trabalho, financiado, aloc, repasse, legado, definindo>>

LiberarProducao(p) ==
    /\ proposta[p] = "aceita"
    /\ producao[p] = "inexistente"
    /\ producao' = [producao EXCEPT ![p] = "aguardando_inicio"]
    /\ Instanciar(p)
    /\ UNCHANGED <<diretas, trabalho, proposta, financiado, aloc, repasse, legado, definindo>>

(* A proposal is frozen when it is sent, so a production created directly   *)
(* may take its stages from one that nobody has accepted yet.               *)
Gerar(p) ==
    /\ producao[p] # "inexistente"
    /\ proposta[p] # "nenhuma"
    /\ Livre(p)
    /\ EtapasDe(p) = {}
    /\ Instanciar(p)
    /\ UNCHANGED <<producao, diretas, trabalho, proposta, financiado, aloc, repasse, legado, definindo>>

(* The charge behind an origin is settled, refunded, disputed, reconciled. *)
Conciliar(o) ==
    /\ o \in Producoes => proposta[o] = "aceita"
    /\ financiado' = [financiado EXCEPT ![o] = ~@]
    /\ UNCHANGED <<producao, diretas, trabalho, proposta, aloc, etapa, repasse, legado, definindo>>

-----------------------------------------------------------------------------
(* Credits. *)

(* mutant: the contract of the target's budget is not looked at *)
BloquearSemContrato(p) == financiado[Lote] /\ legado[p].estado = "nenhum" /\ Livre(p)

Bloquear(p) ==
    /\ financiado[Lote]
    /\ proposta[p] = "nenhuma"
    /\ legado[p].estado = "nenhum"
    /\ Livre(p)

Alocar(a, p, q) ==
    /\ aloc[a].estado = "nenhuma"
    /\ ~TemTrabalho(p)
    /\ LET restantes == Unidades - Uso("unidades")
       IN  /\ q <= restantes
           /\ aloc' = [aloc EXCEPT ![a] =
                [producao |-> p, unidades |-> q, estado |-> "reservada",
                 valor |-> ReservarParcela(ValorLote - Uso("valor"), q, restantes),
                 produtor |-> ReservarParcela(PoolLote - Uso("produtor"),
                                              q, restantes)]]
    /\ etapa' = NovasEtapas(a)
    /\ UNCHANGED <<diretas, trabalho, proposta, financiado, repasse, legado, definindo>>

Reservar(a, p, q) ==
    /\ producao[p] = "aguardando_inicio"
    /\ Bloquear(p)
    /\ Alocar(a, p, q)
    /\ UNCHANGED producao

CriarProducaoDeCreditos(a, p, q) ==
    /\ producao[p] = "inexistente"
    /\ Bloquear(p)
    /\ producao' = [producao EXCEPT ![p] = "aguardando_inicio"]
    /\ Alocar(a, p, q)

Movimentado(a, estado) ==
    /\ aloc' = [aloc EXCEPT ![a].estado = estado]
    /\ UNCHANGED <<producao, diretas, trabalho, proposta, financiado, etapa, repasse, legado, definindo>>

Consumir(a) ==
    LET p == aloc[a].producao IN
    /\ aloc[a].estado = "reservada"
    /\ Bloquear(p)
    /\ producao[p] \in {"em_producao", "revisao"}
    /\ Movimentado(a, "consumida")

(* Units go back to the lot, used or not, while no work was done. *)
Devolver(a) ==
    LET p == aloc[a].producao IN
    /\ a \in Vigentes
    /\ proposta[p] = "nenhuma" /\ legado[p].estado = "nenhum" /\ Livre(p)
    /\ producao[p] = "aguardando_inicio"
    /\ ~TemTrabalho(p)
    /\ Movimentado(a, IF aloc[a].estado = "reservada" THEN "devolvida" ELSE "estornada")

-----------------------------------------------------------------------------
(* Progress. *)

MudarStatus(p, s) ==
    /\ producao[p] \notin {"inexistente", s}
    /\ Livre(p)
    /\ producao' = [producao EXCEPT ![p] = s]
    /\ UNCHANGED <<diretas, trabalho, proposta, financiado, aloc, etapa, repasse, legado, definindo>>

(* The coordinator's progress is written without a lock, over a status read *)
(* before; as the administrator may set any status, a late write reaches no *)
(* state that this does not.                                                *)
(* mutant: the portal takes the status of a stage for the production's *)
TransicoesSemValidar(s) == {"concluida"}

TransicoesCoordenador(s) ==
    CASE s = "em_producao" -> {"revisao"}
      [] s \in {"aguardando_inicio", "revisao"} -> {"em_producao"}
      [] OTHER -> {}

AtualizarAndamento(p) ==
    /\ producao[p] # "inexistente"
    /\ Livre(p)
    /\ \E s \in TransicoesCoordenador(producao[p]) : producao' = [producao EXCEPT ![p] = s]
    /\ UNCHANGED <<diretas, trabalho, proposta, financiado, aloc, etapa, repasse, legado, definindo>>

(* Files and the checklist come and go; credits must be in force for them. *)
Trabalhar(p) ==
    /\ producao[p] # "inexistente"
    /\ AlocadasEm(p) = {} \/ (VigentesEm(p) # {} /\ financiado[Lote]) \/ trabalho[p]
    /\ trabalho' = [trabalho EXCEPT ![p] = ~@]
    /\ UNCHANGED <<producao, diretas, proposta, financiado, aloc, etapa, repasse, legado, definindo>>

-----------------------------------------------------------------------------
(* Stages. *)

Anterior(e) == <<e[1], e[2] - 1>>
Seguinte(e) == <<e[1], e[2] + 1>>

Vizinha(v) == v \in Etapas /\ Existe(v)

EsperaAnterior(e) ==
    /\ e[2] \in Dependentes
    /\ Vizinha(Anterior(e))
    /\ etapa[Anterior(e)].status # "concluida"

SeguinteComecou(e) ==
    /\ etapa[e].status = "concluida"
    /\ Vizinha(Seguinte(e))
    /\ e[2] + 1 \in Dependentes
    /\ etapa[Seguinte(e)].status # "pendente"

(* mutant: a concluded stage reopens whatever came after it *)
BloqueioSoDaAnterior(e, destino) == destino # "pendente" /\ EsperaAnterior(e)

BloqueioDependencia(e, destino) ==
    \/ destino # "pendente" /\ EsperaAnterior(e)
    \/ SeguinteComecou(e)

(* mutant: reserved credits are enough to start *)
BloqueioSoFinanceiro(e) == e[1] \in Alocacoes /\ ~financiado[Lote]

BloqueioCreditos(e) ==
    /\ e[1] \in Alocacoes
    /\ aloc[e[1]].estado # "consumida" \/ ~financiado[Lote]

Transicoes(status) ==
    CASE status = "pendente" -> {"em_andamento"}
      [] status = "em_andamento" -> {"em_revisao", "concluida", "pendente"}
      [] status = "em_revisao" -> {"em_andamento", "concluida"}
      [] status = "concluida" -> {"em_andamento"}

TransicoesProdutor(status) ==
    CASE status = "pendente" -> {"em_andamento"}
      [] status = "em_andamento" -> {"em_revisao"}
      [] status = "em_revisao" -> {"em_andamento"}
      [] status = "concluida" -> {}

(* Rounds count up to the ones included: past them they are all extra. *)
Revisao(e, destino) == etapa[e].status = "em_revisao" /\ destino = "em_andamento"

(* mutant: a stage with a payout may be reopened *)
SemTravaDeRepasse(e) == FALSE

RepasseRegistrado(e) == repasse[e].estado # "nenhum"

Permitida(e, papel, destino) ==
    IF papel = "admin" THEN destino \in Transicoes(etapa[e].status)
    ELSE /\ papel = etapa[e].responsavel
         /\ destino \in TransicoesProdutor(etapa[e].status)
         /\ Revisao(e, destino) /\ ExigirAdmin => etapa[e].revisoes < Incluidas

Passada(e, destino) ==
    [etapa[e] EXCEPT !.status = destino,
                     !.iniciada = @ \/ destino = "em_andamento",
                     !.executor = IF destino = "concluida" THEN etapa[e].responsavel ELSE Ninguem,
                     !.revisoes = IF Revisao(e, destino) /\ @ < Incluidas THEN @ + 1 ELSE @]

Atualizar(e, papel, destino) ==
    LET p == ProducaoDe(e) IN
    /\ Existe(e) /\ e \in EtapasDe(p)
    /\ Livre(p)
    /\ ~RepasseRegistrado(e) /\ ~BloqueioCreditos(e)
    /\ Permitida(e, papel, destino)
    /\ ~BloqueioDependencia(e, destino)
    /\ etapa' = [etapa EXCEPT ![e] = Passada(e, destino)]
    /\ UNCHANGED <<producao, diretas, trabalho, proposta, financiado, aloc, repasse, legado, definindo>>

Atribuir(e, u) ==
    LET p == ProducaoDe(e) IN
    /\ Existe(e) /\ e \in EtapasDe(p)
    /\ Livre(p)
    /\ etapa[e].status # "concluida"
    /\ etapa[e].responsavel # u
    /\ etapa' = [etapa EXCEPT ![e].responsavel = u]
    /\ UNCHANGED <<producao, diretas, trabalho, proposta, financiado, aloc, repasse, legado, definindo>>

(* A stage leaves the contract under no lock; the payout's reference to it *)
(* makes the row itself refuse.                                            *)
Excluir(e) ==
    /\ Existe(e)
    /\ e[1] \in Producoes
    /\ ~RepasseRegistrado(e)
    /\ etapa' = [etapa EXCEPT ![e] = SemEtapa]
    /\ UNCHANGED <<producao, diretas, trabalho, proposta, financiado, aloc, repasse, legado, definindo>>

-----------------------------------------------------------------------------
(* Payouts per stage. *)

PoolProposta == ParteProdutor(ValorProposta)
BrutosProposta == Distribuir(ValorProposta, Pesos)
ParcelasProposta == Distribuir(PoolProposta, BrutosProposta)

BrutosDe(o) ==
    IF o \in Producoes THEN BrutosProposta ELSE Distribuir(aloc[o].valor, Pesos)
ParcelasDe(o) ==
    IF o \in Producoes THEN ParcelasProposta ELSE Distribuir(aloc[o].produtor, BrutosDe(o))

Bruto(e) == BrutosDe(e[1])[e[2]]
Parcela(e) == ParcelasDe(e[1])[e[2]]

(* The production's single origin, settled in full. *)
OrigemCreditos(p) ==
    /\ proposta[p] = "nenhuma"
    /\ \A a \in VigentesEm(p) : aloc[a].estado = "consumida"
    /\ financiado[Lote]
    /\ \A e \in EtapasDe(p) : e[1] \in Alocacoes

OrigemProposta(p) ==
    /\ proposta[p] = "aceita"
    /\ EtapasDe(p) = {p} \X Posicoes
    /\ financiado[p]

Contexto(p) ==
    /\ producao[p] # "inexistente"
    /\ legado[p].estado = "nenhum"
    /\ EtapasDe(p) # {}
    /\ IF AlocadasEm(p) # {} THEN OrigemCreditos(p) ELSE OrigemProposta(p)

AReceber(e) ==
    /\ etapa[e].status = "concluida"
    /\ producao[ProducaoDe(e)] = "finalizado"
    /\ etapa[e].executor # Ninguem

Registro(e) == [estado |-> "emitido", produtor |-> etapa[e].executor,
                bruto |-> Bruto(e), parcela |-> Parcela(e)]

Confere(e) == [repasse[e] EXCEPT !.estado = "emitido"] = Registro(e)

Emitir(p) ==
    LET elegiveis == {e \in EtapasDe(p) : Bruto(e) > 0 /\ AReceber(e)} IN
    /\ Livre(p)
    /\ Contexto(p)
    /\ elegiveis # {}
    /\ \A e \in elegiveis : RepasseRegistrado(e) => Confere(e)
    /\ repasse' = [e \in Etapas |-> IF e \in elegiveis /\ ~RepasseRegistrado(e)
                                    THEN Registro(e) ELSE repasse[e]]
    /\ UNCHANGED <<producao, diretas, trabalho, proposta, financiado, aloc, etapa, legado, definindo>>

Pagar(e) ==
    LET p == ProducaoDe(e) IN
    /\ repasse[e].estado = "emitido"
    /\ Livre(p)
    /\ Contexto(p)
    /\ AReceber(e) /\ Confere(e) /\ repasse[e].parcela > 0
    /\ repasse' = [repasse EXCEPT ![e].estado = "pago"]
    /\ UNCHANGED <<producao, diretas, trabalho, proposta, financiado, aloc, etapa, legado, definindo>>

-----------------------------------------------------------------------------
(* The payout agreed by hand. *)

DefinirNovo(p, v) ==
    /\ producao[p] # "inexistente"
    /\ Livre(p)
    /\ AlocadasEm(p) = {}
    /\ legado[p].estado = "nenhum"
    /\ ~\E e \in Etapas : Existe(e) /\ ProducaoDe(e) = p
    /\ legado' = [legado EXCEPT ![p] = [estado |-> "definido", valor |-> v]]
    /\ UNCHANGED <<producao, diretas, trabalho, proposta, financiado, aloc, etapa, repasse, definindo>>

(* The production is locked; the payout itself is only read. *)
LerDefinido(p) ==
    /\ Livre(p)
    /\ legado[p].estado = "definido"
    /\ definindo' = definindo \cup {p}
    /\ UNCHANGED <<producao, diretas, trabalho, proposta, financiado, aloc, etapa, repasse, legado>>

GravarDefinido(p, v) ==
    /\ p \in definindo
    /\ definindo' = definindo \ {p}
    /\ legado' = [legado EXCEPT ![p].valor = v]
    /\ UNCHANGED <<producao, diretas, trabalho, proposta, financiado, aloc, etapa, repasse>>

PassarLegado(p, de, para) ==
    /\ legado[p].estado = de
    /\ legado' = [legado EXCEPT ![p].estado = para]
    /\ UNCHANGED <<producao, diretas, trabalho, proposta, financiado, aloc, etapa, repasse, definindo>>

Release(p) == PassarLegado(p, "definido", "liberado")
MarkPaid(p) == PassarLegado(p, "liberado", "pago")

Correct(p, v) ==
    /\ legado[p].estado # "nenhum"
    /\ legado' = [legado EXCEPT ![p].valor = v]
    /\ UNCHANGED <<producao, diretas, trabalho, proposta, financiado, aloc, etapa, repasse, definindo>>

-----------------------------------------------------------------------------
Contratar(p) ==
    \/ CriarProducao(p) \/ CriarDireta(p) \/ CriarProposta(p) \/ Aprovar(p) \/ LiberarProducao(p) \/ Gerar(p)

Remunerar(p) ==
    \/ Emitir(p)
    \/ LerDefinido(p) \/ Release(p) \/ MarkPaid(p)
    \/ \E v \in Valores : DefinirNovo(p, v) \/ GravarDefinido(p, v) \/ Correct(p, v)

Next ==
    \/ \E p \in Producoes :
        \/ Contratar(p) \/ Remunerar(p)
        \/ AtualizarAndamento(p) \/ Trabalhar(p)
        \/ \E s \in StatusProducao : MudarStatus(p, s)
    \/ \E o \in Producoes \cup {Lote} : Conciliar(o)
    \/ \E a \in Alocacoes :
        \/ Consumir(a) \/ Devolver(a)
        \/ \E p \in Producoes, q \in 1..Unidades :
               Reservar(a, p, q) \/ CriarProducaoDeCreditos(a, p, q)
    \/ \E e \in Etapas :
        \/ Excluir(e) \/ Pagar(e)
        \/ \E u \in Produtores \cup {Ninguem} : Atribuir(e, u)
        \/ \E papel \in Produtores \cup {"admin"}, d \in StatusEtapa : Atualizar(e, papel, d)

Spec == Init /\ [][Next]_vars

-----------------------------------------------------------------------------
TypeOK ==
    /\ producao \in [Producoes -> StatusProducao \cup {"inexistente"}]
    /\ diretas \subseteq Producoes
    /\ trabalho \in [Producoes -> BOOLEAN]
    /\ proposta \in [Producoes -> {"nenhuma", "rascunho", "aceita"}]
    /\ financiado \in [Producoes \cup {Lote} -> BOOLEAN]
    /\ aloc \in [Alocacoes -> [producao : Producoes \cup {Ninguem}, unidades : Nat,
                              valor : Nat, produtor : Nat, estado : EstadoAlocacao]]
    /\ etapa \in [Etapas -> [status : StatusEtapa \cup {"inexistente"},
                             responsavel : Produtores \cup {Ninguem},
                             executor : Produtores \cup {Ninguem},
                             iniciada : BOOLEAN, revisoes : 0..Incluidas]]
    /\ repasse \in [Etapas -> [estado : {"nenhum", "emitido", "pago"},
                               produtor : Produtores \cup {Ninguem},
                               bruto : Nat, parcela : Nat]]
    /\ legado \in [Producoes -> [estado : {"nenhum", "definido", "liberado", "pago"},
                                 valor : Valores \cup {0}]]
    /\ definindo \subseteq Producoes

(* One origin owes the producer of a production: units of a lot never stand *)
(* beside a proposal or an amount agreed by hand, and what was agreed by    *)
(* hand is never owed again stage by stage.                                 *)
OrigemUnica ==
    \A p \in Producoes :
        /\ AlocadasEm(p) # {} => proposta[p] = "nenhuma" /\ legado[p].estado = "nenhum"
        /\ legado[p].estado # "nenhum" =>
              \A e \in Etapas : ProducaoDe(e) = p => repasse[e].estado = "nenhum"

Alocado(campo) ==
    FoldFunction(+, 0, [a \in {b \in Alocacoes : aloc[b].estado \in {"reservada", "consumida"}}
                           |-> aloc[a][campo]])

(* Reservations never take more units, cents or producer cents than the lot *)
(* has; the last units take the last cents; and what is left of the pool is *)
(* never more than what is left of the value, or no reservation could be    *)
(* computed.                                                                *)
LoteNaoExcede ==
    /\ Alocado("unidades") <= Unidades
    /\ Alocado("valor") <= ValorLote
    /\ Alocado("produtor") <= PoolLote
    /\ PoolLote - Alocado("produtor") <= ValorLote - Alocado("valor")
    /\ Alocado("unidades") = Unidades =>
           Alocado("valor") = ValorLote /\ Alocado("produtor") = PoolLote

Devido(es, campo) == FoldFunction(+, 0, [e \in es |-> repasse[e][campo]])

(* Whatever was reserved, returned and reserved again, the payouts issued   *)
(* for a lot or for a contract add up to no more than its value and its 80%.*)
RepasseNaoExcede ==
    /\ Devido(Alocacoes \X Posicoes, "bruto") <= ValorLote
    /\ Devido(Alocacoes \X Posicoes, "parcela") <= PoolLote
    /\ \A p \in Producoes :
          /\ Devido({p} \X Posicoes, "bruto") <= ValorProposta
          /\ Devido({p} \X Posicoes, "parcela") <= PoolProposta

(* A stage that waits for the one before it never runs while that one is    *)
(* not concluded, however either of them moves or is reopened.              *)
DependenciaRespeitada ==
    \A e \in Etapas : Existe(e) /\ EsperaAnterior(e) => etapa[e].status = "pendente"

(* A payout's stage stays in the contract, concluded, by the one it is owed *)
(* to, and the units that finance it stay used.                             *)
RegistroFiel ==
    \A e \in Etapas : repasse[e].estado # "nenhum" =>
        /\ etapa[e].status = "concluida"
        /\ etapa[e].executor = repasse[e].produtor
        /\ e[1] \in Alocacoes => aloc[e[1]].estado = "consumida"

(* Work begins only on units already used, and units go back to the lot     *)
(* only if nobody ever worked on their stages.                              *)
TrabalhoFinanciado ==
    \A e \in Etapas : e[1] \in Alocacoes /\ etapa[e].iniciada =>
        aloc[e[1]].estado = "consumida"

(* The code's own message to who tries: an agreed payout that was released  *)
(* changes only by the audited correction.                                  *)
LiberadoSoPorCorrecao ==
    [][\A p \in Producoes :
          legado[p].estado \in {"liberado", "pago"} /\ legado'[p].valor # legado[p].valor
              => \E v \in Valores : Correct(p, v)]_vars
=============================================================================
