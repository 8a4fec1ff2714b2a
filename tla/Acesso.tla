-------------------------------- MODULE Acesso ---------------------------------
(***************************************************************************)
(* How a client gets and keeps an account of the portal: the public signup,*)
(* the studio's invitation and the recovery of a password, which share one *)
(* row of cliente_acessos with a single token.  The token is committed     *)
(* first and mailed afterwards, so that links overtake each other, arrive  *)
(* late or never.                                                          *)
(***************************************************************************)
EXTENDS Nulo, Naturals

CONSTANTS
    Emails,
    MaxToken     \* bound: links made

VARIABLES
    cliente,     \* the record of the client
    conta,       \* the account tied to it
    acesso,      \* its row of cliente_acessos
    correio,     \* the link a request is about to mail
    caixa,       \* the links that reached an inbox
    proximo,     \* the next link
    mortos       \* history: links consumed, revoked or replaced

varsAcesso == <<cliente, conta, acesso, correio, caixa, proximo, mortos>>

Cliente(e, estudio) ==
    [email |-> e, ativo |-> TRUE, contrato |-> "nenhum", emails |-> {}, estudio |-> estudio]

InitAcesso ==
    /\ cliente = Nada /\ conta = "nenhuma" /\ acesso = Nada
    /\ correio = Nada /\ caixa = {} /\ proximo = 0 /\ mortos = {}

-----------------------------------------------------------------------------
(* A new token replaces the one before, and revives a revoked row. *)
ComToken(a, finalidade) ==
    [a EXCEPT !.finalidade = finalidade, !.token = proximo, !.prazo = "valido",
              !.consumido = FALSE, !.revogado = FALSE]

(* mutant: a renewed row keeps its token *)
ComTokenVelho(a, finalidade) ==
    IF a.token < proximo THEN [ComToken(a, finalidade) EXCEPT !.token = a.token]
                         ELSE ComToken(a, finalidade)

Renovado(a, finalidade) == ComToken(a, finalidade)

AcessoNovo(origem, e, ligado) ==
    [origem |-> origem, email |-> e, usuario |-> "nenhum", verificado |-> FALSE,
     ligado |-> ligado, finalidade |-> "verificacao", token |-> proximo,
     prazo |-> "valido", consumido |-> FALSE, revogado |-> FALSE]

Emitir(a, finalidade) ==
    /\ proximo < MaxToken
    /\ correio = Nada
    /\ acesso' = Renovado(a, finalidade)
    /\ correio' = [token |-> proximo, finalidade |-> finalidade]
    /\ proximo' = proximo + 1
    /\ mortos' = IF acesso = Nada THEN mortos ELSE mortos \cup {acesso.token}

Utilizavel(t) ==
    acesso # Nada /\ acesso.token = t /\ ~acesso.consumido /\ ~acesso.revogado
        /\ acesso.prazo = "valido"

-----------------------------------------------------------------------------
(* Signup. *)

(* A new client; or one the studio already had, with no access yet, joins.  *)
RequestSignup(e) ==
    /\ acesso = Nada
    /\ \/ /\ cliente = Nada
          /\ cliente' = Cliente(e, FALSE)
          /\ Emitir(AcessoNovo("public_signup", e, FALSE), "verificacao")
       \/ /\ cliente # Nada
          /\ cliente.email = e /\ cliente.ativo /\ conta = "nenhuma"
          /\ Emitir(AcessoNovo("public_signup", e, TRUE), "verificacao")
          /\ UNCHANGED cliente
    /\ UNCHANGED <<conta, caixa>>

ResendSignup(e) ==
    /\ acesso # Nada
    /\ acesso.email = e /\ acesso.origem = "public_signup"
    /\ acesso.usuario = "nenhum" /\ ~acesso.consumido
    /\ cliente.ativo /\ cliente.email = e /\ conta = "nenhuma"
    /\ Emitir(acesso, "verificacao")
    /\ UNCHANGED <<cliente, conta, caixa>>

-----------------------------------------------------------------------------
(* Invitation, under the locks of budget, proposal and access. *)

ContextoComercial ==
    /\ cliente # Nada
    /\ cliente.contrato \in {"enviada", "aceita"}
    /\ cliente.emails = {cliente.email}

Convidavel(resend) ==
    acesso # Nada =>
        /\ acesso.usuario = "nenhum"
        /\ acesso.email = cliente.email
        /\ ~acesso.consumido
        /\ resend \/ acesso.revogado \/ acesso.prazo # "valido"

Invite(resend) ==
    /\ ContextoComercial
    /\ cliente.ativo
    /\ conta = "nenhuma"
    /\ Convidavel(resend)
    /\ Emitir(IF acesso = Nada THEN AcessoNovo("admin_invite", cliente.email, FALSE) ELSE acesso,
              "convite")
    /\ UNCHANGED <<cliente, conta, caixa>>

Revoke ==
    /\ ContextoComercial
    /\ conta = "nenhuma"
    /\ acesso # Nada /\ ~acesso.consumido
    /\ acesso' = [acesso EXCEPT !.revogado = TRUE]
    /\ mortos' = mortos \cup {acesso.token}
    /\ UNCHANGED <<cliente, conta, correio, caixa, proximo>>

-----------------------------------------------------------------------------
(* Delivery, after the commit; it may fail, or the process die. *)

Entregavel ==
    correio.finalidade = "recuperacao" =>
        /\ acesso # Nada
        /\ acesso.token = correio.token /\ acesso.finalidade = "recuperacao"
        /\ cliente.email = acesso.email

Deliver ==
    /\ correio # Nada
    /\ \/ Entregavel /\ caixa' = caixa \cup {correio.token}
       \/ UNCHANGED caixa
    /\ correio' = Nada
    /\ UNCHANGED <<cliente, conta, acesso, proximo, mortos>>

-----------------------------------------------------------------------------
(* The link opened. *)

AccessByToken(t) ==
    /\ acesso # Nada /\ acesso.token = t
    /\ \/ acesso.origem = "admin_invite" /\ acesso.finalidade = "convite"
       \/ acesso.origem = "public_signup" /\ acesso.finalidade = "verificacao"

Activate(t) ==
    /\ AccessByToken(t) /\ Utilizavel(t)
    /\ cliente.ativo /\ cliente.email = acesso.email
    /\ conta = "nenhuma"
    /\ conta' = "ativa"
    /\ acesso' = [acesso EXCEPT !.usuario = "atual", !.consumido = TRUE, !.verificado = TRUE]
    /\ mortos' = mortos \cup {t}
    /\ UNCHANGED <<cliente, correio, caixa, proximo>>

(* mutant: asking again forgets that the account was activated *)
SoConsumido == acesso.consumido

CicloAtivado == acesso.finalidade = "recuperacao" \/ acesso.consumido

ContaDoAcesso ==
    /\ acesso.usuario = "atual" /\ acesso.verificado
    /\ conta = "ativa" /\ cliente.ativo
    /\ cliente.email = acesso.email

EligibleRecovery(e) == acesso # Nada /\ acesso.email = e /\ ContaDoAcesso /\ CicloAtivado

PreparePasswordRecovery(e) ==
    /\ EligibleRecovery(e)
    /\ Emitir(acesso, "recuperacao")
    /\ UNCHANGED <<cliente, conta, caixa>>

ResetPassword(t) ==
    /\ acesso # Nada /\ acesso.finalidade = "recuperacao" /\ Utilizavel(t)
    /\ ContaDoAcesso
    /\ acesso' = [acesso EXCEPT !.consumido = TRUE]
    /\ mortos' = mortos \cup {t}
    /\ UNCHANGED <<cliente, conta, correio, caixa, proximo>>

-----------------------------------------------------------------------------
(* Time: a link expires, and a month later its row may be cleaned up. *)

VencerLink ==
    /\ acesso # Nada
    /\ \/ acesso.prazo = "valido" /\ acesso' = [acesso EXCEPT !.prazo = "vencido"]
       \/ acesso.prazo = "vencido" /\ acesso' = [acesso EXCEPT !.prazo = "antigo"]
    /\ UNCHANGED <<cliente, conta, correio, caixa, proximo, mortos>>

(* mutant: a signup that joined a client of the studio is not told apart *)
SemLigacao ==
    acesso.origem = "public_signup" /\ cliente.contrato = "nenhum" /\ conta = "nenhuma"

SoDoCadastro ==
    /\ acesso.origem = "public_signup" /\ ~acesso.ligado
    /\ cliente.contrato = "nenhum" /\ conta = "nenhuma"

CleanupExpired ==
    /\ acesso # Nada
    /\ acesso.usuario = "nenhum" /\ acesso.prazo = "antigo"
    /\ acesso' = Nada
    /\ cliente' = IF SoDoCadastro THEN Nada ELSE cliente
    /\ mortos' = mortos \cup {acesso.token}
    /\ UNCHANGED <<conta, correio, caixa, proximo>>

-----------------------------------------------------------------------------
(* The studio. *)

CriarCliente(e) ==
    /\ cliente = Nada
    /\ cliente' = Cliente(e, TRUE)
    /\ UNCHANGED <<conta, acesso, correio, caixa, proximo, mortos>>

(* Budgets find the client by e-mail, or create it. *)
ResolverParaOrcamento(e) ==
    /\ cliente # Nada => cliente.email = e /\ cliente.contrato = "nenhum"
    /\ cliente' = [(IF cliente = Nada THEN Cliente(e, TRUE) ELSE cliente)
                      EXCEPT !.contrato = "orcamento", !.emails = {e}]
    /\ UNCHANGED <<conta, acesso, correio, caixa, proximo, mortos>>

(* The proposal freezes the e-mail the client has. *)
AvancarContrato ==
    /\ cliente # Nada
    /\ \/ /\ cliente.contrato = "orcamento"
          /\ cliente' = [cliente EXCEPT !.contrato = "enviada", !.emails = @ \cup {cliente.email}]
       \/ /\ cliente.contrato = "enviada"
          /\ cliente' = [cliente EXCEPT !.contrato = "aceita"]
    /\ UNCHANGED <<conta, acesso, correio, caixa, proximo, mortos>>

AtualizarCliente ==
    /\ cliente # Nada
    /\ \E e \in Emails, ativo \in BOOLEAN :
          cliente' = [cliente EXCEPT !.email = e, !.ativo = ativo]
    /\ UNCHANGED <<conta, acesso, correio, caixa, proximo, mortos>>

(* Accounts made, switched on and off, or untied by a change of role. *)
AtualizarConta ==
    /\ cliente # Nada
    /\ \/ /\ conta = "nenhuma"
          /\ conta' = "ativa"
          /\ \/ UNCHANGED acesso
             \/ /\ acesso # Nada /\ acesso.usuario = "outro"
                /\ acesso' = [acesso EXCEPT !.usuario = "atual"]
       \/ /\ conta # "nenhuma"
          /\ conta' = IF conta = "ativa" THEN "inativa" ELSE "ativa"
          /\ UNCHANGED acesso
       \/ /\ conta # "nenhuma"
          /\ conta' = "nenhuma"
          /\ acesso' = IF acesso # Nada /\ acesso.usuario = "atual"
                       THEN [acesso EXCEPT !.usuario = "outro"] ELSE acesso
    /\ UNCHANGED <<cliente, correio, caixa, proximo, mortos>>

-----------------------------------------------------------------------------
NextAcesso ==
    \/ \E e \in Emails : \/ RequestSignup(e) \/ ResendSignup(e)
                         \/ PreparePasswordRecovery(e)
                         \/ CriarCliente(e) \/ ResolverParaOrcamento(e)
    \/ \E resend \in BOOLEAN : Invite(resend)
    \/ \E t \in caixa : Activate(t) \/ ResetPassword(t)
    \/ Revoke \/ Deliver \/ VencerLink \/ CleanupExpired
    \/ AvancarContrato \/ AtualizarCliente \/ AtualizarConta

SpecAcesso == InitAcesso /\ [][NextAcesso]_varsAcesso

-----------------------------------------------------------------------------
Tokens == 0..(MaxToken - 1)
Finalidades == {"verificacao", "convite", "recuperacao"}

ClienteTipo ==
    [email : Emails, ativo : BOOLEAN, emails : SUBSET Emails, estudio : BOOLEAN,
     contrato : {"nenhum", "orcamento", "enviada", "aceita"}]

(* A row that is not there is no row. *)
AcessoAssumption == MaxToken \in Nat /\ Nada \notin ClienteTipo
ASSUME AcessoConstantes == AcessoAssumption

AcessoTipo ==
    [origem : {"public_signup", "admin_invite"}, email : Emails,
     usuario : {"nenhum", "atual", "outro"}, verificado : BOOLEAN, ligado : BOOLEAN,
     finalidade : Finalidades, token : Tokens, prazo : {"valido", "vencido", "antigo"},
     consumido : BOOLEAN, revogado : BOOLEAN]

AcessoTypeOK ==
    /\ cliente \in ClienteTipo \cup {Nada}
    /\ conta \in {"nenhuma", "ativa", "inativa"}
    /\ acesso \in AcessoTipo \cup {Nada}
    /\ correio \in [token : Tokens, finalidade : Finalidades] \cup {Nada}
    /\ caixa \subseteq Tokens /\ proximo \in 0..MaxToken /\ mortos \subseteq Tokens

(* A link that was consumed, revoked or replaced is never good again,       *)
(* however the row it lived in is renewed, revived or recreated.            *)
LinkGastoMorto == \A t \in mortos : ~Utilizavel(t)

(* Whoever activated an account through a link can always ask for a new     *)
(* password, whatever was asked, opened, expired or untied before.          *)
SempreRecuperavel == acesso # Nada /\ ContaDoAcesso => EligibleRecovery(acesso.email)

(* Cleaning up signups never deletes a client of the studio, nor one with   *)
(* a budget or an account.                                                  *)
ClienteDoEstudioFica ==
    [][cliente # Nada /\ (cliente.estudio \/ cliente.contrato # "nenhum" \/ conta # "nenhuma")
          => cliente' # Nada]_varsAcesso
=============================================================================
