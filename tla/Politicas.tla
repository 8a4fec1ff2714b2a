------------------------------ MODULE Politicas -------------------------------
(***************************************************************************)
(* The policies of the portal.  Each key has an option the client prefers  *)
(* (TRUE) and another one.  The studio publishes versions of a default,    *)
(* each service overrides some keys, a proposal freezes what its services  *)
(* resolve to when it is sent, the production takes that as its contract,  *)
(* and the administrator makes exceptions.                                 *)
(***************************************************************************)
EXTENDS Nulo, Naturals, Sequences, FiniteSets

CONSTANTS
    Chaves,         \* the keys
    EntregaFinal,   \* the key that releases the final files before they are paid
    Padrao,         \* the default of the system
    Servicos,       \* the services of the catalog
    MaxVersoes      \* bound: versions of the default

VARIABLES
    globais,      \* the versions of the default
    publicando,   \* the defaults of requests that found their base current
    proprias,     \* what each service overrides
    contrato,     \* the proposal
    linha,        \* the policies kept with the production
    producao,     \* how the production came to be
    prometido     \* what the client was sent, key by key

vars == <<globais, publicando, proprias, contrato, linha, producao, prometido>>

Completas == [Chaves -> BOOLEAN]
Parciais == [Chaves -> BOOLEAN \cup {Nada}]
Nenhuma == [k \in Chaves |-> Nada]

(* A production without a row of policies. *)
SemLinha == [ha |-> FALSE, contrato |-> Nada, excecao |-> Nenhuma]

GlobalAtual == IF globais = <<>> THEN Padrao ELSE globais[Len(globais)]

Sobrepor(base, parcial) == [k \in Chaves |-> IF parcial[k] = Nada THEN base[k] ELSE parcial[k]]

Resolver(s) == Sobrepor(GlobalAtual, proprias[s])

(* The option the client prefers wins when services disagree. *)
Agregar(snapshot) == [k \in Chaves |-> \E s \in DOMAIN snapshot : snapshot[s][k]]

(* The proposals of before the snapshots were sent without one. *)
Init ==
    /\ globais = <<>>
    /\ publicando = {}
    /\ proprias = [s \in Servicos |-> Nenhuma]
    /\ contrato \in [status : {"rascunho", "enviada"}, itens : SUBSET Servicos, snapshot : {Nada}]
    /\ linha = SemLinha
    /\ producao \in {"nenhuma", "direta"}
    /\ contrato.status = "enviada" => producao = "nenhuma"
    /\ prometido = Nada

-----------------------------------------------------------------------------
(* The catalog. *)

Liberada(p) == p[EntregaFinal] = TRUE

(* A new default or one of before.  The base is compared with the version   *)
(* in force, and the number given later: a version published in between is  *)
(* followed, unseen.                                                        *)
Publicar(p) ==
    /\ ~Liberada(p)
    /\ p # GlobalAtual \/ globais = <<>>
    /\ p \notin publicando
    /\ Len(globais) + Cardinality(publicando) < MaxVersoes
    /\ publicando' = publicando \cup {p}
    /\ UNCHANGED <<globais, proprias, contrato, linha, producao, prometido>>

Gravar(p) ==
    /\ p \in publicando
    /\ globais' = Append(globais, p)
    /\ publicando' = publicando \ {p}
    /\ UNCHANGED <<proprias, contrato, linha, producao, prometido>>

(* The number was taken by another request, or the process died. *)
NaoGravar(p) ==
    /\ p \in publicando
    /\ publicando' = publicando \ {p}
    /\ UNCHANGED <<globais, proprias, contrato, linha, producao, prometido>>

SalvarServico(s, parcial) ==
    /\ ~Liberada(parcial)
    /\ parcial # proprias[s]
    /\ proprias' = [proprias EXCEPT ![s] = parcial]
    /\ UNCHANGED <<globais, publicando, contrato, linha, producao, prometido>>

-----------------------------------------------------------------------------
(* The contract. *)

Congelado(m) ==
    IF m.snapshot # Nada THEN m ELSE [m EXCEPT !.snapshot = [s \in m.itens |-> Resolver(s)]]

(* The client is promised what is in force when the values are frozen. *)
Prometer == prometido' = IF contrato.snapshot # Nada THEN prometido
                         ELSE [k \in Chaves |-> \E s \in contrato.itens : Resolver(s)[k]]

Enviar ==
    /\ contrato.status = "rascunho"
    /\ contrato' = [Congelado(contrato) EXCEPT !.status = "enviada"]
    /\ Prometer
    /\ UNCHANGED <<globais, publicando, proprias, linha, producao>>

(* Expired and without a production, it is a draft again. *)
Reabrir ==
    /\ contrato.status = "enviada"
    /\ producao = "nenhuma"
    /\ contrato' = [contrato EXCEPT !.status = "rascunho", !.snapshot = Nada]
    /\ prometido' = Nada
    /\ UNCHANGED <<globais, publicando, proprias, linha, producao>>

(* mutant: the contract is what the services offer now *)
InstanciarDeHoje(m) ==
    IF linha.ha \/ m.itens = {} THEN linha
    ELSE [SemLinha EXCEPT !.ha = TRUE, !.contrato = Agregar([s \in m.itens |-> Resolver(s)])]

(* A row that is there already is left as it is. *)
Instanciar(m) ==
    IF linha.ha \/ DOMAIN m.snapshot = {} THEN linha
    ELSE [SemLinha EXCEPT !.ha = TRUE, !.contrato = Agregar(m.snapshot)]

(* Accepted without a charge, or before the second pipeline, the production *)
(* starts at once; one the studio made for the budget takes the contract.   *)
Aceitar(ja) ==
    /\ contrato.status = "enviada"
    /\ producao \in {"nenhuma", "direta"}
    /\ contrato' = [Congelado(contrato) EXCEPT !.status = "aceita"]
    /\ Prometer
    /\ producao' = IF producao = "nenhuma" /\ ja THEN "comercial" ELSE producao
    /\ linha' = IF producao' = "nenhuma" THEN linha ELSE Instanciar(contrato')
    /\ UNCHANGED <<globais, publicando, proprias>>

(* The payment starts the production. *)
Liberar ==
    /\ contrato.status = "aceita"
    /\ producao = "nenhuma"
    /\ producao' = "comercial"
    /\ linha' = Instanciar(contrato)
    /\ UNCHANGED <<globais, publicando, proprias, contrato, prometido>>

(* By hand, without a contract: nothing starts another one afterwards. *)
CriarProducao ==
    /\ producao = "nenhuma"
    /\ producao' = "avulsa"
    /\ UNCHANGED <<globais, publicando, proprias, contrato, linha, prometido>>

-----------------------------------------------------------------------------
(* The exceptions of the administrator. *)

DefinirExcecao(e) ==
    /\ producao # "nenhuma"
    /\ e # Nenhuma
    /\ linha' = [linha EXCEPT !.ha = TRUE, !.excecao = e]
    /\ UNCHANGED <<globais, publicando, proprias, contrato, producao, prometido>>

RemoverExcecao ==
    /\ linha.excecao # Nenhuma
    /\ linha' = [linha EXCEPT !.excecao = Nenhuma]
    /\ UNCHANGED <<globais, publicando, proprias, contrato, producao, prometido>>

(* What is in force: exception, contract, default of the studio or of the  *)
(* system.                                                                 *)
Vigentes == Sobrepor(IF linha.contrato # Nada THEN linha.contrato ELSE GlobalAtual, linha.excecao)

-----------------------------------------------------------------------------
Next ==
    \/ \E p \in Completas : Publicar(p) \/ Gravar(p) \/ NaoGravar(p)
    \/ \E s \in Servicos, parcial \in Parciais : SalvarServico(s, parcial)
    \/ Enviar \/ Reabrir \/ Liberar \/ CriarProducao \/ RemoverExcecao
    \/ \E ja \in BOOLEAN : Aceitar(ja)
    \/ \E e \in Parciais : DefinirExcecao(e)

Spec == Init /\ [][Next]_vars

-----------------------------------------------------------------------------
TypeOK ==
    /\ globais \in Seq(Completas) /\ Len(globais) <= MaxVersoes
    /\ publicando \subseteq Completas
    /\ proprias \in [Servicos -> Parciais]
    /\ contrato.status \in {"rascunho", "enviada", "aceita"}
    /\ contrato.itens \subseteq Servicos
    /\ contrato.snapshot = Nada \/ contrato.snapshot \in [contrato.itens -> Completas]
    /\ linha.ha \in BOOLEAN
    /\ linha.contrato \in Completas \cup {Nada}
    /\ linha.excecao \in Parciais
    /\ producao \in {"nenhuma", "direta", "avulsa", "comercial"}
    /\ prometido \in Completas \cup {Nada}

(* A contract says, key by key, what the service most favourable to the     *)
(* client offered when the proposal was sent, whatever was published,       *)
(* restored or overridden since.  Only an exception differs from it, and    *)
(* only an exception releases the final files before they are paid.         *)
ValeOEnviado ==
    /\ linha.contrato # Nada => \A k \in Chaves :
           Vigentes[k] = IF linha.excecao[k] # Nada THEN linha.excecao[k] ELSE prometido[k]
    /\ Vigentes[EntregaFinal] => linha.excecao[EntregaFinal] = TRUE

(* A production made by hand for a budget takes the policies of the proposal *)
(* accepted for it: "the proposal becomes its contract", and an exception    *)
(* "can be removed (back to the contract)".                                  *)
VoltaAoContrato ==
    (/\ contrato.status = "aceita"
     /\ contrato.itens # {}
     /\ producao = "direta"
     /\ linha.excecao = Nenhuma) => Vigentes = prometido
===============================================================================
