---------------------------- MODULE ContatosProofs ----------------------------
(***************************************************************************)
(* Proofs about the ways the studio meets its clients, for every number of *)
(* addresses, links, messages, turns, operators, subscribers and texts:    *)
(* Acesso, the links a client receives; Newsletter, the campaigns; and     *)
(* Atendimento with Briefing, the conversation with the assistant and the  *)
(* request it writes down.  The three share no state.                      *)
(***************************************************************************)
EXTENDS Acesso, Briefing, Newsletter, FiniteSetTheorems, TLAPS

(* A link made: what every request for one does to the tokens. *)
LEMMA LinkNovo ==
    ASSUME AcessoAssumption, AcessoTypeOK, NEW a, NEW f \in Finalidades, Emitir(a, f),
           proximo \in Tokens => a \in AcessoTipo
    PROVE  /\ proximo \in Tokens /\ proximo' = proximo + 1 /\ proximo' \in 0..MaxToken
           /\ a \in AcessoTipo
           /\ acesso' \in AcessoTipo /\ acesso' = ComToken(a, f)
           /\ correio' \in [token : Tokens, finalidade : Finalidades]
           /\ mortos' = IF acesso = Nada THEN mortos ELSE mortos \cup {acesso.token}
           /\ mortos' \subseteq Tokens
<1>1. proximo \in Tokens /\ proximo' = proximo + 1 /\ proximo' \in 0..MaxToken
  BY DEF AcessoAssumption, AcessoTypeOK, Emitir, Tokens
<1>2. a \in AcessoTipo
  BY <1>1
<1>3. acesso' = ComToken(a, f)
  BY DEF Emitir, Renovado
<1>4. acesso' \in AcessoTipo
  BY <1>1, <1>2, <1>3 DEF ComToken, AcessoTipo
<1>5. correio' \in [token : Tokens, finalidade : Finalidades]
  BY <1>1 DEF Emitir
<1>6. mortos' = IF acesso = Nada THEN mortos ELSE mortos \cup {acesso.token}
  BY DEF Emitir
<1>7. acesso # Nada => acesso.token \in Tokens
  BY DEF AcessoTypeOK, AcessoTipo
<1> QED BY <1>1, <1>2, <1>3, <1>4, <1>5, <1>6, <1>7 DEF AcessoTypeOK

LEMMA AcessoNovoTipo ==
    ASSUME proximo \in Tokens, NEW o \in {"public_signup", "admin_invite"},
           NEW e \in Emails, NEW l \in BOOLEAN
    PROVE  AcessoNovo(o, e, l) \in AcessoTipo
BY DEF AcessoNovo, AcessoTipo, Finalidades

LEMMA ClienteNovoTipo ==
    ASSUME NEW e \in Emails, NEW b \in BOOLEAN
    PROVE  Cliente(e, b) \in ClienteTipo
BY DEF Cliente, ClienteTipo

-----------------------------------------------------------------------------
(* Types. *)

LEMMA IniciaTipos == AcessoAssumption /\ InitAcesso => AcessoTypeOK
BY DEF AcessoAssumption, InitAcesso, AcessoTypeOK, Tokens

(* The actions that make a link. *)
LEMMA PedidosTipos ==
    ASSUME AcessoAssumption, AcessoTypeOK, NEW e \in Emails, NEW r \in BOOLEAN,
           RequestSignup(e) \/ ResendSignup(e) \/ PreparePasswordRecovery(e) \/ Invite(r)
    PROVE  AcessoTypeOK'
<1>1. CASE RequestSignup(e)
  <2>1. CASE cliente = Nada /\ cliente' = Cliente(e, FALSE)
             /\ Emitir(AcessoNovo("public_signup", e, FALSE), "verificacao")
    BY <1>1, <2>1, LinkNovo, AcessoNovoTipo, ClienteNovoTipo DEF RequestSignup, AcessoTypeOK, Finalidades
  <2>2. CASE Emitir(AcessoNovo("public_signup", e, TRUE), "verificacao") /\ UNCHANGED cliente
    BY <1>1, <2>2, LinkNovo, AcessoNovoTipo DEF RequestSignup, AcessoTypeOK, Finalidades
  <2> QED BY <1>1, <2>1, <2>2 DEF RequestSignup
<1>2. CASE ResendSignup(e)
  <2>1. acesso \in AcessoTipo /\ Emitir(acesso, "verificacao")
    BY <1>2 DEF ResendSignup, AcessoTypeOK
  <2> QED BY <1>2, <2>1, LinkNovo DEF ResendSignup, AcessoTypeOK, Finalidades
<1>3. CASE PreparePasswordRecovery(e)
  <2>1. acesso \in AcessoTipo /\ Emitir(acesso, "recuperacao")
    BY <1>3 DEF PreparePasswordRecovery, EligibleRecovery, AcessoTypeOK
  <2> QED BY <1>3, <2>1, LinkNovo DEF PreparePasswordRecovery, AcessoTypeOK, Finalidades
<1>4. CASE Invite(r)
  <2> DEFINE a == IF acesso = Nada THEN AcessoNovo("admin_invite", cliente.email, FALSE) ELSE acesso
  <2>1. cliente.email \in Emails
    BY <1>4 DEF Invite, ContextoComercial, AcessoTypeOK, ClienteTipo
  <2>2. Emitir(a, "convite") /\ UNCHANGED <<cliente, conta, caixa>>
    BY <1>4 DEF Invite
  <2>3. proximo \in Tokens => a \in AcessoTipo
    BY <2>1, AcessoNovoTipo DEF AcessoTypeOK
  <2> HIDE DEF a
  <2> QED BY <2>2, <2>3, LinkNovo DEF AcessoTypeOK, Finalidades
<1> QED BY <1>1, <1>2, <1>3, <1>4

(* The studio's changes to a client it has. *)
LEMMA ClienteMuda ==
    ASSUME AcessoAssumption, AcessoTypeOK, cliente # Nada,
           \/ \E e \in Emails : ResolverParaOrcamento(e)
           \/ AvancarContrato \/ AtualizarCliente
    PROVE  cliente' \in ClienteTipo /\ cliente' # Nada /\ cliente'.estudio = cliente.estudio
<1>1. cliente \in ClienteTipo /\ (cliente' \in ClienteTipo => cliente' # Nada)
  BY DEF AcessoTypeOK, AcessoAssumption
<1>2. ASSUME NEW e \in Emails, ResolverParaOrcamento(e)
      PROVE  cliente' \in ClienteTipo /\ cliente'.estudio = cliente.estudio
  <2>1. cliente' = [cliente EXCEPT !.contrato = "orcamento", !.emails = {e}]
    BY <1>2 DEF ResolverParaOrcamento
  <2> QED BY <1>1, <2>1 DEF ClienteTipo
<1>3. CASE AvancarContrato
  <2> DEFINE es == cliente.emails \cup {cliente.email}
  <2>1. es \in SUBSET Emails
    BY <1>1 DEF ClienteTipo
  <2>2. \/ cliente' = [cliente EXCEPT !.contrato = "enviada", !.emails = es]
        \/ cliente' = [cliente EXCEPT !.contrato = "aceita"]
    BY <1>3 DEF AvancarContrato
  <2> HIDE DEF es
  <2> QED BY <1>1, <2>1, <2>2 DEF ClienteTipo
<1>4. CASE AtualizarCliente
  BY <1>1, <1>4 DEF AtualizarCliente, ClienteTipo
<1> QED BY <1>1, <1>2, <1>3, <1>4

LEMMA PassoTipos == AcessoAssumption /\ AcessoTypeOK /\ [NextAcesso]_varsAcesso => AcessoTypeOK'
<1> SUFFICES ASSUME AcessoAssumption, AcessoTypeOK, [NextAcesso]_varsAcesso PROVE AcessoTypeOK'
  OBVIOUS
<1>1. ASSUME NEW e \in Emails, RequestSignup(e) \/ ResendSignup(e) \/ PreparePasswordRecovery(e)
      PROVE  AcessoTypeOK'
  BY <1>1, PedidosTipos
<1>2. ASSUME NEW r \in BOOLEAN, Invite(r) PROVE AcessoTypeOK'
  <2>1. cliente.email \in Emails
    BY <1>2 DEF Invite, ContextoComercial, AcessoTypeOK, ClienteTipo
  <2> QED BY <1>2, <2>1, PedidosTipos
<1>3. ASSUME NEW e \in Emails, CriarCliente(e) PROVE AcessoTypeOK'
  BY <1>3, ClienteNovoTipo DEF CriarCliente, AcessoTypeOK
<1>4. ASSUME NEW e \in Emails, ResolverParaOrcamento(e) PROVE AcessoTypeOK'
  <2>1. CASE cliente = Nada
    <3>1. Cliente(e, TRUE) \in ClienteTipo
      BY ClienteNovoTipo
    <3>2. cliente' = [Cliente(e, TRUE) EXCEPT !.contrato = "orcamento", !.emails = {e}]
      BY <1>4, <2>1 DEF ResolverParaOrcamento
    <3>3. cliente' \in ClienteTipo
      BY <3>1, <3>2 DEF ClienteTipo
    <3> QED BY <1>4, <3>3 DEF ResolverParaOrcamento, AcessoTypeOK
  <2>2. CASE cliente # Nada
    BY <1>4, <2>2, ClienteMuda DEF ResolverParaOrcamento, AcessoTypeOK
  <2> QED BY <2>1, <2>2
<1>5. ASSUME NEW t \in caixa, Activate(t) PROVE AcessoTypeOK'
  BY <1>5 DEF Activate, AccessByToken, AcessoTypeOK, AcessoTipo
<1>6. ASSUME NEW t \in caixa, ResetPassword(t) PROVE AcessoTypeOK'
  BY <1>6 DEF ResetPassword, AcessoTypeOK, AcessoTipo
<1>7. CASE Revoke
  BY <1>7 DEF Revoke, AcessoTypeOK, AcessoTipo
<1>8. CASE Deliver
  BY <1>8 DEF Deliver, AcessoTypeOK
<1>9. CASE VencerLink
  BY <1>9 DEF VencerLink, AcessoTypeOK, AcessoTipo
<1>10. CASE CleanupExpired
  BY <1>10 DEF CleanupExpired, AcessoTypeOK, AcessoTipo
<1>11. CASE AvancarContrato
  BY <1>11, ClienteMuda DEF AvancarContrato, AcessoTypeOK
<1>12. CASE AtualizarCliente
  BY <1>12, ClienteMuda DEF AtualizarCliente, AcessoTypeOK
<1>13. CASE AtualizarConta
  BY <1>13 DEF AtualizarConta, AcessoTypeOK, AcessoTipo
<1>14. CASE UNCHANGED varsAcesso
  BY <1>14 DEF varsAcesso, AcessoTypeOK
<1> QED BY <1>1, <1>2, <1>3, <1>4, <1>5, <1>6, <1>7, <1>8, <1>9, <1>10, <1>11, <1>12, <1>13,
           <1>14 DEF NextAcesso

(* Every variable keeps its type. *)
THEOREM TiposDoAcesso == SpecAcesso => []AcessoTypeOK
<1>1. InitAcesso => AcessoTypeOK
  BY IniciaTipos, AcessoConstantes
<1>2. AcessoTypeOK /\ [NextAcesso]_varsAcesso => AcessoTypeOK'
  BY PassoTipos, AcessoConstantes
<1> QED BY <1>1, <1>2, PTL DEF SpecAcesso

-----------------------------------------------------------------------------
(* The invariant. *)

(* Links are numbered as they are made; the dead ones and the one in the    *)
(* row are older than the next; a dead one in the row is of no use.         *)
Numerados ==
    /\ acesso # Nada => acesso.token < proximo
    /\ \A t \in mortos : t < proximo
    /\ acesso # Nada /\ acesso.token \in mortos => acesso.consumido \/ acesso.revogado

(* A row that ever had an account was consumed, or is being recovered.      *)
Ativado ==
    acesso # Nada /\ acesso.usuario # "nenhum" => CicloAtivado

(* A row is of a client; a signup that joined nobody is of a client it made. *)
Vinculado ==
    acesso # Nada =>
        /\ cliente # Nada
        /\ acesso.origem = "public_signup" /\ ~acesso.ligado => ~cliente.estudio

AcessoInv == AcessoTypeOK /\ Numerados /\ Ativado /\ Vinculado

LEMMA IniciaIInv == AcessoAssumption /\ InitAcesso => AcessoInv
BY IniciaTipos DEF InitAcesso, AcessoInv, Numerados, Ativado, Vinculado

(* What a request for a link does to the invariant: the row it renews is    *)
(* of a client, and keeps its purpose unless it never had an account.       *)
LEMMA LinkNovoIInv ==
    ASSUME AcessoAssumption, AcessoInv, NEW a, NEW f \in Finalidades, Emitir(a, f),
           proximo \in Tokens => a \in AcessoTipo,
           a.usuario # "nenhum" => f = "recuperacao",
           AcessoTypeOK', cliente' # Nada,
           a.origem = "public_signup" /\ ~a.ligado => ~cliente'.estudio
    PROVE  AcessoInv'
<1>1. /\ proximo \in Tokens /\ proximo' = proximo + 1
      /\ a \in AcessoTipo
      /\ acesso' = ComToken(a, f)
      /\ mortos' = IF acesso = Nada THEN mortos ELSE mortos \cup {acesso.token}
  BY LinkNovo DEF AcessoInv
<1>2. proximo \in Nat /\ mortos \subseteq Nat /\ (acesso # Nada => acesso.token \in Nat)
  BY <1>1 DEF AcessoInv, AcessoTypeOK, AcessoTipo, Tokens, AcessoAssumption
<1>3. /\ acesso'.token = proximo /\ acesso'.finalidade = f /\ acesso'.usuario = a.usuario
      /\ acesso'.origem = a.origem /\ acesso'.ligado = a.ligado
  BY <1>1 DEF ComToken, AcessoTipo
<1>4. Numerados'
  BY <1>1, <1>2, <1>3 DEF AcessoInv, Numerados
<1>5. Ativado'
  BY <1>3 DEF Ativado, CicloAtivado
<1>6. Vinculado'
  BY <1>3 DEF Vinculado
<1> QED BY <1>4, <1>5, <1>6 DEF AcessoInv

LEMMA PedidosIInv ==
    ASSUME AcessoAssumption, AcessoInv, AcessoTypeOK', NEW e \in Emails, NEW r \in BOOLEAN,
           RequestSignup(e) \/ ResendSignup(e) \/ PreparePasswordRecovery(e) \/ Invite(r)
    PROVE  AcessoInv'
<1> USE DEF Finalidades
<1>1. CASE RequestSignup(e)
  <2> DEFINE n(l) == AcessoNovo("public_signup", e, l)
  <2>1. ASSUME NEW l \in BOOLEAN, proximo \in Tokens PROVE n(l) \in AcessoTipo
    BY <2>1, AcessoNovoTipo
  <2>2. \A l \in BOOLEAN : n(l).usuario = "nenhum" /\ n(l).ligado = l
    BY DEF AcessoNovo
  <2>3. CASE cliente' = Cliente(e, FALSE) /\ Emitir(n(FALSE), "verificacao")
    <3>1. cliente' # Nada /\ ~cliente'.estudio
      BY <2>3, ClienteNovoTipo DEF AcessoAssumption, Cliente
    <3> HIDE DEF n
    <3> QED BY <2>1, <2>2, <2>3, <3>1, LinkNovoIInv
  <2>4. CASE cliente # Nada /\ Emitir(n(TRUE), "verificacao") /\ UNCHANGED cliente
    <3> HIDE DEF n
    <3> QED BY <2>1, <2>2, <2>4, LinkNovoIInv
  <2> QED BY <1>1, <2>3, <2>4 DEF RequestSignup
<1>2. CASE ResendSignup(e)
  <2>1. acesso # Nada /\ acesso.usuario = "nenhum" /\ Emitir(acesso, "verificacao")
        /\ UNCHANGED cliente
    BY <1>2 DEF ResendSignup
  <2> QED BY <2>1, LinkNovoIInv DEF AcessoInv, AcessoTypeOK, Vinculado
<1>3. CASE PreparePasswordRecovery(e)
  <2>1. acesso # Nada /\ Emitir(acesso, "recuperacao") /\ UNCHANGED cliente
    BY <1>3 DEF PreparePasswordRecovery, EligibleRecovery
  <2> QED BY <2>1, LinkNovoIInv DEF AcessoInv, AcessoTypeOK, Vinculado
<1>4. CASE Invite(r)
  <2> DEFINE n == AcessoNovo("admin_invite", cliente.email, FALSE)
             a == IF acesso = Nada THEN n ELSE acesso
  <2>1. cliente # Nada /\ cliente.email \in Emails
    BY <1>4 DEF Invite, ContextoComercial, AcessoInv, AcessoTypeOK, ClienteTipo
  <2>2. Emitir(a, "convite") /\ UNCHANGED cliente
    BY <1>4 DEF Invite
  <2>3. proximo \in Tokens => a \in AcessoTipo
    BY <2>1, AcessoNovoTipo DEF AcessoInv, AcessoTypeOK
  <2>4. n.usuario = "nenhum" /\ n.origem = "admin_invite"
    BY DEF AcessoNovo
  <2>5. acesso # Nada => acesso.usuario = "nenhum"
    BY <1>4 DEF Invite, Convidavel
  <2> HIDE DEF n
  <2>6. /\ a.usuario = "nenhum"
        /\ a.origem = "public_signup" /\ ~a.ligado => ~cliente.estudio
    BY <2>4, <2>5 DEF AcessoInv, Vinculado
  <2> HIDE DEF a
  <2> QED BY <2>1, <2>2, <2>3, <2>6, LinkNovoIInv
<1> QED BY <1>1, <1>2, <1>3, <1>4

(* A row whose token, origin and account stay, and that is consumed or      *)
(* recovered whenever it was.                                               *)
LEMMA MesmoLink ==
    ASSUME AcessoInv, AcessoTypeOK', UNCHANGED proximo,
           acesso' # Nada =>
               /\ acesso # Nada
               /\ acesso'.token = acesso.token /\ acesso'.origem = acesso.origem
               /\ acesso'.ligado = acesso.ligado /\ acesso'.finalidade = acesso.finalidade
               /\ acesso.consumido => acesso'.consumido
               /\ acesso.revogado => acesso'.revogado
               /\ acesso'.usuario # "nenhum" => acesso.usuario # "nenhum" \/ acesso'.consumido
               /\ cliente' # Nada /\ (cliente'.estudio => cliente.estudio)
               /\ acesso.token \in mortos' \ mortos => acesso'.consumido \/ acesso'.revogado,
           \A t \in mortos' \ mortos : acesso # Nada /\ t = acesso.token
    PROVE  AcessoInv'
<1>1. Numerados'
  BY DEF AcessoInv, Numerados
<1>2. Ativado'
  BY DEF AcessoInv, Ativado, CicloAtivado
<1>3. Vinculado'
  BY DEF AcessoInv, Vinculado
<1> QED BY <1>1, <1>2, <1>3 DEF AcessoInv

LEMMA PassoIInv == AcessoAssumption /\ AcessoInv /\ [NextAcesso]_varsAcesso => AcessoInv'
<1> SUFFICES ASSUME AcessoAssumption, AcessoInv, [NextAcesso]_varsAcesso PROVE AcessoInv'
  OBVIOUS
<1>0. AcessoTypeOK /\ AcessoTypeOK'
  BY PassoTipos DEF AcessoInv
<1>1. ASSUME NEW e \in Emails, RequestSignup(e) \/ ResendSignup(e) \/ PreparePasswordRecovery(e)
      PROVE  AcessoInv'
  BY <1>0, <1>1, PedidosIInv
<1>2. ASSUME NEW r \in BOOLEAN, Invite(r) PROVE AcessoInv'
  <2>1. cliente.email \in Emails
    BY <1>0, <1>2 DEF Invite, ContextoComercial, AcessoTypeOK, ClienteTipo
  <2> QED BY <1>0, <1>2, <2>1, PedidosIInv
<1>3. ASSUME NEW e \in Emails, CriarCliente(e) PROVE AcessoInv'
  BY <1>0, <1>3, MesmoLink DEF CriarCliente, AcessoInv, Vinculado
<1>4. ASSUME NEW e \in Emails, ResolverParaOrcamento(e) PROVE AcessoInv'
  <2>1. CASE cliente = Nada
    BY <1>0, <1>4, <2>1, MesmoLink DEF ResolverParaOrcamento, AcessoInv, Vinculado
  <2>2. CASE cliente # Nada
    BY <1>0, <1>4, <2>2, ClienteMuda, MesmoLink DEF ResolverParaOrcamento
  <2> QED BY <2>1, <2>2
<1>5. ASSUME NEW t \in caixa, Activate(t) PROVE AcessoInv'
  <2>1. acesso \in AcessoTipo /\ acesso # Nada /\ acesso.token = t
    BY <1>0, <1>5 DEF Activate, AccessByToken, AcessoTypeOK
  <2>2. /\ acesso'.token = acesso.token /\ acesso'.origem = acesso.origem
        /\ acesso'.ligado = acesso.ligado /\ acesso'.finalidade = acesso.finalidade
        /\ acesso'.consumido /\ acesso'.revogado = acesso.revogado
    BY <1>5, <2>1 DEF Activate, AcessoTipo
  <2> QED BY <1>0, <1>5, <2>1, <2>2, MesmoLink DEF Activate, AcessoInv, Vinculado
<1>6. ASSUME NEW t \in caixa, ResetPassword(t) PROVE AcessoInv'
  <2>1. acesso \in AcessoTipo /\ acesso # Nada /\ acesso.token = t
    BY <1>0, <1>6 DEF ResetPassword, Utilizavel, AcessoTypeOK
  <2>2. /\ acesso'.token = acesso.token /\ acesso'.origem = acesso.origem
        /\ acesso'.ligado = acesso.ligado /\ acesso'.finalidade = acesso.finalidade
        /\ acesso'.consumido /\ acesso'.revogado = acesso.revogado
        /\ acesso'.usuario = acesso.usuario
    BY <1>6, <2>1 DEF ResetPassword, AcessoTipo
  <2> QED BY <1>0, <1>6, <2>1, <2>2, MesmoLink DEF ResetPassword, AcessoInv, Vinculado
<1>7. CASE Revoke
  <2>1. acesso \in AcessoTipo /\ acesso # Nada
    BY <1>0, <1>7 DEF Revoke, AcessoTypeOK
  <2>2. /\ acesso'.token = acesso.token /\ acesso'.origem = acesso.origem
        /\ acesso'.ligado = acesso.ligado /\ acesso'.finalidade = acesso.finalidade
        /\ acesso'.consumido = acesso.consumido /\ acesso'.revogado
        /\ acesso'.usuario = acesso.usuario
    BY <1>7, <2>1 DEF Revoke, AcessoTipo
  <2> QED BY <1>0, <1>7, <2>1, <2>2, MesmoLink DEF Revoke, AcessoInv, Vinculado
<1>8. CASE Deliver
  BY <1>0, <1>8, MesmoLink DEF Deliver, AcessoInv, Vinculado
<1>9. CASE VencerLink
  <2>1. acesso \in AcessoTipo /\ acesso # Nada
    BY <1>0, <1>9 DEF VencerLink, AcessoTypeOK
  <2>2. /\ acesso'.token = acesso.token /\ acesso'.origem = acesso.origem
        /\ acesso'.ligado = acesso.ligado /\ acesso'.finalidade = acesso.finalidade
        /\ acesso'.consumido = acesso.consumido /\ acesso'.revogado = acesso.revogado
        /\ acesso'.usuario = acesso.usuario
    BY <1>9, <2>1 DEF VencerLink, AcessoTipo
  <2> QED BY <1>0, <1>9, <2>1, <2>2, MesmoLink DEF VencerLink, AcessoInv, Vinculado
<1>10. CASE CleanupExpired
  BY <1>0, <1>10, MesmoLink DEF CleanupExpired
<1>11. CASE AvancarContrato
  BY <1>0, <1>11, ClienteMuda, MesmoLink DEF AvancarContrato
<1>12. CASE AtualizarCliente
  BY <1>0, <1>12, ClienteMuda, MesmoLink DEF AtualizarCliente
<1>13. CASE AtualizarConta
  <2>1. acesso' # Nada =>
            /\ acesso # Nada
            /\ acesso'.token = acesso.token /\ acesso'.origem = acesso.origem
            /\ acesso'.ligado = acesso.ligado /\ acesso'.finalidade = acesso.finalidade
            /\ acesso'.consumido = acesso.consumido /\ acesso'.revogado = acesso.revogado
            /\ acesso'.usuario # "nenhum" => acesso.usuario # "nenhum"
    BY <1>0, <1>13 DEF AtualizarConta, AcessoTypeOK, AcessoTipo
  <2> QED BY <1>0, <1>13, <2>1, MesmoLink DEF AtualizarConta, AcessoInv, Vinculado
<1>14. CASE UNCHANGED varsAcesso
  BY <1>0, <1>14, MesmoLink DEF varsAcesso, AcessoInv, Vinculado
<1> QED BY <1>1, <1>2, <1>3, <1>4, <1>5, <1>6, <1>7, <1>8, <1>9, <1>10, <1>11, <1>12, <1>13,
           <1>14 DEF NextAcesso

LEMMA InvarianteAcesso == SpecAcesso => []AcessoInv
<1>1. InitAcesso => AcessoInv
  BY IniciaIInv, AcessoConstantes
<1>2. AcessoInv /\ [NextAcesso]_varsAcesso => AcessoInv'
  BY PassoIInv, AcessoConstantes
<1> QED BY <1>1, <1>2, PTL DEF SpecAcesso

-----------------------------------------------------------------------------
(* The theorems. *)

(* A link that was consumed, revoked or replaced is never good again,       *)
(* however many requests, mails and cleanups come after.                    *)
THEOREM LinksMortos == SpecAcesso => []LinkGastoMorto
<1>1. AcessoInv => LinkGastoMorto
  BY DEF AcessoInv, Numerados, LinkGastoMorto, Utilizavel
<1> QED BY <1>1, InvarianteAcesso, PTL

(* Whoever activated an account through a link can always recover it.       *)
THEOREM Recuperacao == SpecAcesso => []SempreRecuperavel
<1>1. AcessoInv => SempreRecuperavel
  BY DEF AcessoInv, Ativado, SempreRecuperavel, EligibleRecovery, ContaDoAcesso
<1> QED BY <1>1, InvarianteAcesso, PTL

(* No step, the cleanup of signups least of all, deletes a client of the    *)
(* studio, or one with a budget or an account.                              *)
THEOREM ClientesFicam == SpecAcesso => ClienteDoEstudioFica
<1> DEFINE Fica == cliente # Nada /\ (cliente.estudio \/ cliente.contrato # "nenhum" \/ conta # "nenhuma")
                      => cliente' # Nada
<1>1. ASSUME AcessoInv, AcessoInv', [NextAcesso]_varsAcesso PROVE [Fica]_varsAcesso
  <2> SUFFICES ASSUME cliente # Nada, cliente' = Nada,
                      cliente.estudio \/ cliente.contrato # "nenhum" \/ conta # "nenhuma"
               PROVE  FALSE
    OBVIOUS
  <2>1. CASE CleanupExpired
    BY <1>1, <2>1 DEF CleanupExpired, SoDoCadastro, AcessoInv, Vinculado
  <2>2. CASE (\E e \in Emails : ResolverParaOrcamento(e)) \/ AvancarContrato \/ AtualizarCliente
    BY <1>1, <2>2, ClienteMuda, AcessoConstantes DEF AcessoInv
  <2>3. ~CleanupExpired /\ ~AvancarContrato /\ ~AtualizarCliente
            /\ (\A e \in Emails : ~ResolverParaOrcamento(e))
        => UNCHANGED cliente
    BY <1>1 DEF NextAcesso, varsAcesso, RequestSignup, ResendSignup, PreparePasswordRecovery, CriarCliente,
                Invite, Activate, ResetPassword, Revoke, Deliver, VencerLink, AtualizarConta
  <2> QED BY <2>1, <2>2, <2>3
<1> QED BY <1>1, InvarianteAcesso, PTL DEF SpecAcesso, ClienteDoEstudioFica

-----------------------------------------------------------------------------
(* Module Newsletter: what is listed of a campaign is true of the mailboxes. *)

-----------------------------------------------------------------------------
(* Nothing was sent of a draft. *)
RascunhoOK ==
    campanha.status = "draft" =>
        vez = Nada /\ recebidas = {} /\ \A i \in Inscritos : remessas[i] = Nada

(* The delivery the sender is at is pending, and in the mailbox if the      *)
(* provider said so.                                                        *)
VezOK ==
    vez # Nada =>
        /\ campanha.status = "sending"
        /\ vez.de = Nada <=> vez.resposta = "nenhuma"
        /\ vez.de # Nada =>
              /\ remessas[vez.de] = "pending"
              /\ vez.resposta = "chamando" => ~Recebeu(vez.de)
              /\ vez.resposta = "aceita" => Recebeu(vez.de)

(* No other pending delivery is in a mailbox. *)
SoAVez ==
    \A i \in Inscritos : Recebeu(i) /\ remessas[i] = "pending" => vez = Nada \/ vez.de = i

CampanhaInv == NewsletterTypeOK /\ RascunhoOK /\ VezOK /\ SoAVez /\ RelatorioFiel

LEMMA IniciaCampanha == NewsletterAssumption /\ InitNewsletter => CampanhaInv
<1> SUFFICES ASSUME NewsletterAssumption, InitNewsletter PROVE CampanhaInv
  OBVIOUS
<1>1. NewsletterTypeOK
  BY DEF InitNewsletter, NewsletterTypeOK, NewsletterAssumption
<1>2. \A i \in Inscritos : remessas[i] = Nada /\ ~Recebeu(i)
  BY DEF InitNewsletter, Recebeu
<1>3. RascunhoOK /\ VezOK /\ SoAVez
  BY <1>2 DEF InitNewsletter, RascunhoOK, VezOK, SoAVez
<1>4. RelatorioFiel
  BY <1>2 DEF InitNewsletter, RelatorioFiel, Pendentes, NewsletterAssumption
<1> QED BY <1>1, <1>3, <1>4 DEF CampanhaInv

(* Steps that touch neither the deliveries, nor the mailboxes, nor the      *)
(* status.                                                                  *)
LEMMA SoInscricoes ==
    ASSUME CampanhaInv, NewsletterTypeOK', campanha'.status = campanha.status, UNCHANGED <<remessas, recebidas>>,
           vez' = vez \/ vez' = Nada, vez' # vez => campanha.status = "sending"
    PROVE  CampanhaInv'
<1>1. \A i \in Inscritos : Recebeu(i)' = Recebeu(i)
  BY DEF Recebeu
<1>2. RascunhoOK' /\ VezOK' /\ SoAVez'
  BY <1>1 DEF CampanhaInv, RascunhoOK, VezOK, SoAVez, NewsletterTypeOK, Recebeu
<1>3. RelatorioFiel'
  BY <1>1 DEF CampanhaInv, RelatorioFiel, Pendentes
<1> QED BY <1>2, <1>3 DEF CampanhaInv

LEMMA PassoLeve ==
    ASSUME NewsletterAssumption, CampanhaInv,
           \/ \E i \in Inscritos : Inscrever(i) \/ Cancelar(i)
           \/ \E v \in Versoes : AtualizarCampanha(v)
           \/ Ler \/ Interromper \/ UNCHANGED varsNewsletter
    PROVE  CampanhaInv'
<1>1. NewsletterTypeOK'
  BY DEF CampanhaInv, NewsletterTypeOK, Inscrever, Cancelar, AtualizarCampanha, Ler, Interromper, varsNewsletter
<1>2. campanha'.status = campanha.status
  BY DEF CampanhaInv, NewsletterTypeOK, Inscrever, Cancelar, AtualizarCampanha, Ler, Interromper, varsNewsletter
<1>3. UNCHANGED <<remessas, recebidas>>
  BY DEF Inscrever, Cancelar, AtualizarCampanha, Ler, Interromper, varsNewsletter
<1>4. vez' = vez \/ (vez' = Nada /\ vez # Nada)
  BY DEF Inscrever, Cancelar, AtualizarCampanha, Ler, Interromper, varsNewsletter
<1>5. vez' # vez => campanha.status = "sending"
  BY <1>4 DEF CampanhaInv, VezOK
<1> QED BY <1>1, <1>2, <1>3, <1>4, <1>5, SoInscricoes

LEMMA PassoEnviarCampanha == ASSUME NewsletterAssumption, CampanhaInv, EnviarCampanha PROVE CampanhaInv'
<1>1. NewsletterTypeOK'
  BY DEF CampanhaInv, NewsletterTypeOK, EnviarCampanha, Ativos, VezTipo
<1>2. recebidas = {} /\ recebidas' = {} /\ vez' = [de |-> Nada, resposta |-> "nenhuma"]
  BY DEF CampanhaInv, RascunhoOK, EnviarCampanha
<1>3. \A i \in Inscritos : ~Recebeu(i)' /\ remessas'[i] \in {"pending", Nada}
  BY <1>2 DEF Recebeu, EnviarCampanha
<1>4. campanha'.status = "sending"
  BY DEF EnviarCampanha, CampanhaInv, NewsletterTypeOK
<1>5. RascunhoOK' /\ SoAVez'
  BY <1>3, <1>4 DEF RascunhoOK, SoAVez
<1>6. VezOK'
  BY <1>2, <1>4 DEF VezOK
<1>7. RelatorioFiel'
  BY <1>2, <1>3, <1>4 DEF RelatorioFiel, Pendentes, NewsletterAssumption
<1> QED BY <1>1, <1>5, <1>6, <1>7 DEF CampanhaInv

LEMMA PassoVez == ASSUME NewsletterAssumption, CampanhaInv, NEW i \in Inscritos, Vez(i) PROVE CampanhaInv'
<1>1. NewsletterTypeOK'
  BY DEF CampanhaInv, NewsletterTypeOK, Vez, VezTipo
<1>2. /\ vez # Nada /\ vez.de = Nada /\ vez.resposta = "nenhuma" /\ campanha.status = "sending"
      /\ remessas[i] = "pending" /\ ~Recebeu(i) /\ i # Nada
  BY DEF CampanhaInv, Vez, VezOK, SoAVez, NewsletterAssumption
<1>3. \A j \in Inscritos : Recebeu(j)' = Recebeu(j)
  BY DEF Vez, Recebeu
<1>4. UNCHANGED <<campanha, recebidas>> /\ RascunhoOK'
  BY <1>2 DEF Vez, RascunhoOK
<1>5. CASE vez' = [de |-> i, resposta |-> "chamando"] /\ UNCHANGED remessas
  <2>1. vez'.de = i /\ vez'.resposta = "chamando"
    BY <1>5
  <2>2. ~Recebeu(vez.de)'
    BY <1>2, <1>4, <2>1 DEF Recebeu
  <2>3. VezOK'
    BY <1>2, <1>4, <1>5, <2>1, <2>2 DEF VezOK
  <2>4. \A j \in Inscritos : remessas[j] = "pending" => ~Recebeu(j)
    BY <1>2 DEF CampanhaInv, SoAVez, NewsletterAssumption
  <2>5. SoAVez'
    BY <1>3, <1>5, <2>4 DEF SoAVez
  <2>6. RelatorioFiel'
    BY <1>3, <1>4, <1>5 DEF CampanhaInv, RelatorioFiel, Pendentes
  <2> QED BY <1>1, <1>4, <2>3, <2>5, <2>6 DEF CampanhaInv
<1>6. CASE remessas' = [remessas EXCEPT ![i] = "skipped"] /\ UNCHANGED vez
  <2>1. remessas'[i] = "skipped" /\ \A j \in Inscritos \ {i} : remessas'[j] = remessas[j]
    BY <1>6 DEF CampanhaInv, NewsletterTypeOK
  <2>2. VezOK' /\ SoAVez'
    BY <1>2, <1>3, <1>4, <1>6, <2>1 DEF CampanhaInv, VezOK, SoAVez
  <2>3. RelatorioFiel'
    BY <1>2, <1>3, <1>4, <1>6, <2>1 DEF CampanhaInv, RelatorioFiel, Pendentes
  <2> QED BY <1>1, <1>4, <2>2, <2>3 DEF CampanhaInv
<1> QED BY <1>5, <1>6 DEF Vez

LEMMA PassoChamar ==
    ASSUME NewsletterAssumption, CampanhaInv, NEW chegou \in BOOLEAN, NEW respondeu \in BOOLEAN,
           Chamar(chegou, respondeu)
    PROVE  CampanhaInv'
<1>0. PICK d \in Inscritos : d = vez.de
  BY DEF CampanhaInv, NewsletterTypeOK, Chamar, VezOK, VezTipo
<1> DEFINE nova == [por |-> d, texto |-> campanha.texto]
           depois == IF respondeu THEN "aceita" ELSE "sem"
<1>1. /\ vez # Nada /\ vez \in VezTipo /\ vez.resposta = "chamando" /\ campanha.status = "sending"
      /\ vez.de = d /\ remessas[d] = "pending" /\ ~Recebeu(d)
  BY <1>0 DEF CampanhaInv, NewsletterTypeOK, Chamar, VezOK, VezTipo
<1>2. vez' = [vez EXCEPT !.resposta = depois] /\ UNCHANGED <<ativo, campanha, remessas, lida>>
  BY DEF Chamar
<1>3. vez' \in VezTipo /\ vez'.de = d /\ vez'.resposta = depois /\ depois \in {"aceita", "sem"}
  BY <1>1, <1>2 DEF VezTipo
<1>4. nova.por = d /\ nova \in [por : Inscritos, texto : Versoes]
  BY <1>1 DEF CampanhaInv, NewsletterTypeOK
<1>5. recebidas' = (IF chegou THEN recebidas \cup {nova} ELSE recebidas)
  BY <1>0 DEF Chamar
<1> HIDE DEF nova, depois
<1>6. NewsletterTypeOK'
  BY <1>2, <1>3, <1>4, <1>5 DEF CampanhaInv, NewsletterTypeOK, VezTipo
<1>7. \A i \in Inscritos : i # d => (Recebeu(i)' <=> Recebeu(i))
  BY <1>4, <1>5 DEF Recebeu
<1>8. (Recebeu(d)' <=> chegou) /\ (depois = "aceita" => chegou)
  BY <1>1, <1>4, <1>5 DEF Recebeu, Chamar, depois
<1>9. vez' # Nada
  BY <1>3 DEF NewsletterAssumption
<1>10. RascunhoOK'
  BY <1>1, <1>2 DEF RascunhoOK
<1>11. VezOK'
  BY <1>1, <1>2, <1>3, <1>8, <1>9 DEF VezOK, NewsletterAssumption, Recebeu
<1>12. SoAVez'
  BY <1>1, <1>2, <1>3, <1>7 DEF CampanhaInv, SoAVez
<1>13. \A r, s \in recebidas' : r.por = s.por => r = s
  <2>1. \A r \in recebidas : r.por # d /\ r.por \in Inscritos
    BY <1>1 DEF Recebeu, CampanhaInv, NewsletterTypeOK
  <2> QED BY <1>4, <1>5, <2>1 DEF CampanhaInv, RelatorioFiel
<1>14. \A i \in Inscritos : Recebeu(i) /\ remessas[i] = "pending" => FALSE
  BY <1>1 DEF CampanhaInv, SoAVez
<1>15. RelatorioFiel'
  BY <1>1, <1>2, <1>7, <1>8, <1>13, <1>14 DEF CampanhaInv, RelatorioFiel, Pendentes
<1> QED BY <1>6, <1>10, <1>11, <1>12, <1>15 DEF CampanhaInv

LEMMA PassoRegistrar == ASSUME NewsletterAssumption, CampanhaInv, Registrar PROVE CampanhaInv'
<1>0. PICK d \in Inscritos : d = vez.de
  BY DEF CampanhaInv, NewsletterTypeOK, Registrar, VezOK, VezTipo
<1> DEFINE fim == Desfecho(vez.resposta)
<1>1. /\ vez # Nada /\ vez.resposta \in {"aceita", "sem"} /\ campanha.status = "sending"
      /\ remessas[d] = "pending" /\ (vez.resposta = "aceita" => Recebeu(d))
  BY <1>0 DEF CampanhaInv, NewsletterTypeOK, Registrar, VezOK, VezTipo
<1>2. fim \in {"sent", "failed"} /\ (fim = "sent" => Recebeu(d))
  BY <1>1 DEF Desfecho
<1>3. /\ remessas' = [remessas EXCEPT ![d] = fim]
      /\ vez' = [de |-> Nada, resposta |-> "nenhuma"]
      /\ UNCHANGED <<ativo, campanha, lida, recebidas>>
  BY <1>0 DEF Registrar
<1> HIDE DEF fim
<1>4. remessas'[d] = fim /\ \A j \in Inscritos \ {d} : remessas'[j] = remessas[j]
  BY <1>1, <1>3 DEF CampanhaInv, NewsletterTypeOK
<1>5. \A j \in Inscritos : Recebeu(j)' = Recebeu(j)
  BY <1>3 DEF Recebeu
<1>6. NewsletterTypeOK'
  BY <1>2, <1>3 DEF CampanhaInv, NewsletterTypeOK, VezTipo
<1>7. RascunhoOK' /\ VezOK'
  BY <1>1, <1>3 DEF RascunhoOK, VezOK
<1>8. SoAVez'
  BY <1>0, <1>1, <1>2, <1>4, <1>5 DEF CampanhaInv, SoAVez
<1>9. RelatorioFiel'
  BY <1>1, <1>2, <1>3, <1>4, <1>5 DEF CampanhaInv, RelatorioFiel, Pendentes
<1> QED BY <1>6, <1>7, <1>8, <1>9 DEF CampanhaInv

LEMMA PassoConcluir == ASSUME NewsletterAssumption, CampanhaInv, Concluir PROVE CampanhaInv'
<1>1. vez # Nada /\ campanha.status = "sending" /\ Pendentes = {} /\ vez' = Nada
  BY DEF CampanhaInv, VezOK, Concluir
<1>2. UNCHANGED <<ativo, remessas, lida, recebidas>>
  BY DEF Concluir
<1>3. \A j \in Inscritos : Recebeu(j)' = Recebeu(j)
  BY <1>2 DEF Recebeu
<1>4. /\ campanha'.status \in {"sent", "failed"} /\ campanha'.texto = campanha.texto
      /\ campanha' \in [status : {"draft", "sending", "sent", "failed"}, texto : Versoes]
      /\ campanha'.status = "sent" => \E i \in Remessas : remessas[i] = "sent"
  BY DEF Concluir, CampanhaInv, NewsletterTypeOK
<1>5. NewsletterTypeOK'
  BY <1>1, <1>2, <1>4 DEF CampanhaInv, NewsletterTypeOK
<1>6. RascunhoOK' /\ VezOK' /\ SoAVez'
  BY <1>1, <1>4 DEF RascunhoOK, VezOK, SoAVez
<1>7. campanha'.status = "sent" => recebidas # {}
  BY <1>4 DEF CampanhaInv, RelatorioFiel, Recebeu, Remessas
<1>8. RelatorioFiel'
  BY <1>1, <1>2, <1>3, <1>4, <1>7 DEF CampanhaInv, RelatorioFiel, Pendentes
<1> QED BY <1>5, <1>6, <1>8 DEF CampanhaInv

LEMMA InvarianteCampanha == SpecNewsletter => []CampanhaInv
<1>1. ASSUME CampanhaInv, [NextNewsletter]_varsNewsletter PROVE CampanhaInv'
  BY <1>1, PassoLeve, PassoEnviarCampanha, PassoVez, PassoChamar, PassoRegistrar, PassoConcluir, NewsletterConstantes DEF NextNewsletter
<1>2. InitNewsletter => CampanhaInv
  BY IniciaCampanha, NewsletterConstantes
<1> QED BY <1>1, <1>2, PTL DEF SpecNewsletter

(* Whatever the provider answers, whoever leaves meanwhile and wherever the *)
(* sending stops, what is listed as sent, skipped or ended is true.         *)
THEOREM Relatorio == SpecNewsletter => []RelatorioFiel
<1>1. CampanhaInv => RelatorioFiel
  BY DEF CampanhaInv
<1> QED BY <1>1, InvarianteCampanha, PTL

-----------------------------------------------------------------------------
(* The conversation. *)

-----------------------------------------------------------------------------
(* The invariant. *)

(* A claim is younger than what was handed out, and only an open            *)
(* conversation that no person answers has one.                             *)
FichaOK ==
    /\ conversa.ficha # Nada =>
           /\ conversa.ficha < fichas
           /\ conversa.status = "open" /\ conversa.modo # "human"
    /\ \A t \in Trabalhos :
           trabalho[t] # Nada /\ trabalho[t].tipo # "send" => trabalho[t].ficha < fichas

(* The assistant is alone until an operator comes. *)
ModoOK == conversa.modo = "autonomous" => conversa.operador = Nada

(* Messages arrive in order, and only those that arrived are answered.      *)
ChegadaOK ==
    /\ \A m \in Chegadas, n \in N : n < m => n \in Chegadas
    /\ \A m \in N \ Chegadas : respostas[m] = Nada

(* What a request works on, while the conversation is still on its claim:   *)
(* the first message that was not dealt with, or one without a reply.       *)
Cabe(k) ==
    /\ k.msg \in Chegadas
    /\ k.tipo = "process" /\ k.ficha = conversa.ficha => Primeira(k.msg)
    /\ k.tipo = "suggest" /\ k.ficha = conversa.ficha /\ respostas[k.msg] # Nada
           => respostas[k.msg].tipo = "suggestion"
    /\ k.tipo = "send" => respostas[k.msg] # Nada /\ respostas[k.msg].tipo = "reply"

TrabalhoOK == \A t \in Trabalhos : trabalho[t] # Nada => Cabe(trabalho[t])

(* The messages of operators are numbered by versions gone by.              *)
HumanasOK == \A h \in humanas : h.numero < conversa.versao

ConversaInv == ConversaTypeOK /\ FichaOK /\ ModoOK /\ ChegadaOK /\ TrabalhoOK /\ HumanasOK /\ RespondeEmOrdem

LEMMA IniciaConversa == AtendimentoAssumption /\ InitConversa => ConversaInv
<1> SUFFICES ASSUME AtendimentoAssumption, InitConversa PROVE ConversaInv
  OBVIOUS
<1>1. conversa \in ConversaTipo /\ conversa.ficha = Nada /\ conversa.operador = Nada
  BY DEF AtendimentoAssumption, InitConversa, ConversaTipo
<1>2. Chegadas = {}
  BY DEF InitConversa, Chegadas
<1>3. ConversaTypeOK
  BY <1>1 DEF AtendimentoAssumption, InitConversa, ConversaTypeOK
<1> QED BY <1>1, <1>2, <1>3 DEF InitConversa, ConversaInv, FichaOK, ModoOK, ChegadaOK, TrabalhoOK, HumanasOK,
                                RespondeEmOrdem

-----------------------------------------------------------------------------
(* The parts of a state. *)

LEMMA EntradaUsada ==
    ASSUME ConversaTypeOK, NEW m \in Chegadas PROVE m \in N /\ entradas[m] \in EntradaTipo
BY DEF ConversaTypeOK, Chegadas

LEMMA TrabalhoUsado ==
    ASSUME ConversaTypeOK, NEW t \in Trabalhos, trabalho[t] # Nada PROVE trabalho[t] \in TrabalhoTipo
BY DEF ConversaTypeOK

LEMMA RespostaUsada ==
    ASSUME ConversaTypeOK, NEW m \in N, respostas[m] # Nada PROVE respostas[m] \in RespostaTipo
BY DEF ConversaTypeOK

LEMMA MudadaFatos ==
    ASSUME AtendimentoAssumption, ConversaTypeOK, PodeMudar
    PROVE  /\ Mudada \in ConversaTipo /\ Mudada.ficha = Nada
           /\ Mudada.versao = conversa.versao + 1 /\ Mudada.operador = conversa.operador
           /\ Mudada.status = conversa.status /\ Mudada.modo = conversa.modo
<1> DEFINE v == conversa.versao + 1
<1>1. v \in 0..MaxMudancas
  BY DEF AtendimentoAssumption, ConversaTypeOK, PodeMudar, ConversaTipo
<1>2. Mudada = [conversa EXCEPT !.versao = v, !.ficha = Nada, !.prazo = FALSE]
  BY DEF Mudada
<1> HIDE DEF v
<1>3. /\ Mudada \in ConversaTipo /\ Mudada.ficha = Nada
      /\ Mudada.versao = v /\ Mudada.operador = conversa.operador
      /\ Mudada.status = conversa.status /\ Mudada.modo = conversa.modo
  BY <1>1, <1>2 DEF ConversaTypeOK, ConversaTipo
<1> QED BY <1>3 DEF v

LEMMA SoltaFatos ==
    ASSUME ConversaTypeOK
    PROVE  /\ Solta \in ConversaTipo /\ Solta.ficha = Nada
           /\ Solta.versao = conversa.versao /\ Solta.operador = conversa.operador
           /\ Solta.status = conversa.status /\ Solta.modo = conversa.modo
BY DEF ConversaTypeOK, Solta, ConversaTipo

LEMMA HandoffFatos ==
    ASSUME AtendimentoAssumption, PodeMudar, ConversaTypeOK,
           NEW c \in ConversaTipo, c.versao = conversa.versao, c.status = "open"
    PROVE  /\ Handoff(c) \in ConversaTipo /\ Handoff(c).ficha = Nada
           /\ Handoff(c).versao = conversa.versao + 1
           /\ Handoff(c).modo = "human"
<1> DEFINE v == c.versao + 1
<1>1. v \in 0..MaxMudancas
  BY DEF AtendimentoAssumption, ConversaTypeOK, PodeMudar, ConversaTipo
<1>2. Handoff(c) = [c EXCEPT !.status = "waiting_human", !.modo = "human",
                             !.versao = v, !.ficha = Nada, !.prazo = FALSE]
  BY DEF Handoff
<1> HIDE DEF v
<1>3. /\ Handoff(c) \in ConversaTipo /\ Handoff(c).ficha = Nada
      /\ Handoff(c).versao = v /\ Handoff(c).modo = "human"
  BY <1>1, <1>2 DEF ConversaTipo
<1> QED BY <1>3 DEF v

-----------------------------------------------------------------------------
(* Steps that leave the messages and their answers alone. *)

(* The conversation is let go, and may change hands.                        *)
LEMMA SoConversa ==
    ASSUME AtendimentoAssumption, ConversaInv, conversa' \in ConversaTipo,
           conversa'.ficha = Nada \/ (conversa'.ficha = conversa.ficha
               /\ conversa'.status = conversa.status /\ conversa'.modo = conversa.modo),
           ModoOK', conversa.versao <= conversa'.versao,
           UNCHANGED <<entradas, respostas, humanas, trabalho, fichas>>
    PROVE  ConversaInv'
<1>1. ConversaTypeOK'
  BY DEF ConversaInv, ConversaTypeOK
<1>2. FichaOK'
  BY DEF ConversaInv, FichaOK
<1>3. ChegadaOK' /\ RespondeEmOrdem'
  BY DEF ConversaInv, ChegadaOK, RespondeEmOrdem, Chegadas, Concluida
<1>4. HumanasOK'
  <2>1. \A h \in humanas : h.numero \in Nat
    BY DEF ConversaInv, ConversaTypeOK, HumanaTipo
  <2>2. conversa.versao \in Nat /\ conversa'.versao \in Nat
    BY DEF ConversaInv, ConversaTypeOK, ConversaTipo
  <2> QED BY <2>1, <2>2 DEF ConversaInv, HumanasOK
<1>5. TrabalhoOK'
  <2> SUFFICES ASSUME NEW t \in Trabalhos, trabalho'[t] # Nada PROVE Cabe(trabalho[t])'
    BY DEF TrabalhoOK
  <2>1. trabalho[t].ficha # Nada /\ Cabe(trabalho[t])
    BY TrabalhoUsado DEF ConversaInv, TrabalhoOK, TrabalhoTipo, AtendimentoAssumption
  <2> QED BY <2>1 DEF Cabe, Primeira, Chegadas, Concluida
<1> QED BY <1>1, <1>2, <1>3, <1>4, <1>5 DEF ConversaInv

LEMMA PassosConversa ==
    ASSUME AtendimentoAssumption, ConversaInv,
           \/ VencerPrazo \/ Close \/ \E o \in Operadores : Assign(o)
           \/ \E modo \in {"human", "copilot"} : SetMode(modo)
    PROVE  ConversaInv'
<1>1. conversa \in ConversaTipo /\ conversa.versao \in Nat /\ conversa.versao <= conversa.versao + 1
  BY DEF ConversaInv, ConversaTypeOK, ConversaTipo
<1>2. CASE VencerPrazo
  <2>1. conversa' = [conversa EXCEPT !.prazo = FALSE]
    BY <1>2 DEF VencerPrazo
  <2>2. /\ conversa' \in ConversaTipo /\ conversa'.ficha = conversa.ficha
        /\ conversa'.status = conversa.status /\ conversa'.modo = conversa.modo
        /\ conversa'.operador = conversa.operador /\ conversa'.versao = conversa.versao
    BY <1>1, <2>1 DEF ConversaTipo
  <2> QED BY <1>1, <1>2, <2>2, SoConversa DEF VencerPrazo, ConversaInv, ModoOK
<1> DEFINE md == Mudada
<1>3. ASSUME PodeMudar
      PROVE  /\ md \in ConversaTipo /\ md.ficha = Nada
             /\ md.versao = conversa.versao + 1 /\ md.operador = conversa.operador
             /\ md.modo = conversa.modo
  BY <1>3, MudadaFatos DEF ConversaInv
<1>4. CASE Close
  <2>1. conversa' = [md EXCEPT !.status = "closed"] /\ PodeMudar
    BY <1>4 DEF Close
  <2> HIDE DEF md
  <2>2. /\ conversa' \in ConversaTipo /\ conversa'.ficha = Nada
        /\ conversa'.versao = conversa.versao + 1
        /\ conversa'.operador = conversa.operador /\ conversa'.modo = conversa.modo
    BY <1>3, <2>1 DEF ConversaTipo
  <2> QED BY <1>1, <1>4, <2>2, SoConversa DEF Close, ConversaInv, ModoOK
<1>5. ASSUME NEW o \in Operadores, Assign(o) PROVE ConversaInv'
  <2>1. conversa' = [md EXCEPT !.operador = o, !.status = "open", !.modo = "human"] /\ PodeMudar
    BY <1>5 DEF Assign
  <2> HIDE DEF md
  <2>2. /\ conversa' \in ConversaTipo /\ conversa'.ficha = Nada
        /\ conversa'.versao = conversa.versao + 1 /\ conversa'.modo = "human"
    BY <1>3, <2>1 DEF ConversaTipo
  <2> QED BY <1>1, <1>5, <2>2, SoConversa DEF Assign, ModoOK
<1>6. ASSUME NEW x \in {"human", "copilot"}, SetMode(x) PROVE ConversaInv'
  <2>1. conversa' = [md EXCEPT !.status = "open", !.modo = x] /\ PodeMudar
    BY <1>6 DEF SetMode
  <2> HIDE DEF md
  <2>2. /\ conversa' \in ConversaTipo /\ conversa'.ficha = Nada
        /\ conversa'.versao = conversa.versao + 1 /\ conversa'.modo = x
    BY <1>3, <2>1 DEF ConversaTipo
  <2> QED BY <1>1, <1>6, <2>2, SoConversa DEF SetMode, ModoOK
<1> QED BY <1>2, <1>4, <1>5, <1>6

LEMMA PassoPerder == ASSUME AtendimentoAssumption, ConversaInv, NEW t \in Trabalhos, Perder(t) PROVE ConversaInv'
<1>1. /\ trabalho' \in [Trabalhos -> TrabalhoTipo \cup {Nada}]
      /\ \A u \in Trabalhos : trabalho'[u] # Nada => trabalho'[u] = trabalho[u]
  BY DEF ConversaInv, ConversaTypeOK, Perder
<1>2. UNCHANGED <<conversa, entradas, respostas, humanas, fichas>>
  BY DEF Perder
<1>3. ConversaTypeOK' /\ FichaOK' /\ ModoOK'
  BY <1>1, <1>2 DEF ConversaInv, ConversaTypeOK, FichaOK, ModoOK
<1>4. ChegadaOK' /\ HumanasOK' /\ RespondeEmOrdem'
  BY <1>2 DEF ConversaInv, ChegadaOK, HumanasOK, RespondeEmOrdem, Chegadas, Concluida
<1>5. TrabalhoOK'
  BY <1>1, <1>2 DEF ConversaInv, TrabalhoOK, Cabe, Primeira, Chegadas, Concluida
<1> QED BY <1>3, <1>4, <1>5 DEF ConversaInv

LEMMA PassoRetry == ASSUME AtendimentoAssumption, ConversaInv, NEW h \in humanas, RetryMessage(h) PROVE ConversaInv'
<1>1. h \in HumanaTipo /\ h.numero < conversa.versao
  BY DEF ConversaInv, ConversaTypeOK, HumanasOK
<1> DEFINE g == [h EXCEPT !.enviada = TRUE]
<1>2. g \in HumanaTipo /\ g.numero = h.numero
  BY <1>1 DEF HumanaTipo
<1>3. humanas' = (humanas \ {h}) \cup {g}
  BY DEF RetryMessage
<1> HIDE DEF g
<1>4. UNCHANGED <<conversa, entradas, respostas, trabalho, fichas>>
  BY DEF RetryMessage
<1>5. ConversaTypeOK' /\ FichaOK' /\ ModoOK' /\ HumanasOK'
  BY <1>1, <1>2, <1>3, <1>4 DEF ConversaInv, ConversaTypeOK, FichaOK, ModoOK, HumanasOK
<1>6. ChegadaOK' /\ RespondeEmOrdem' /\ TrabalhoOK'
  BY <1>4 DEF ConversaInv, ChegadaOK, RespondeEmOrdem, TrabalhoOK, Cabe, Primeira, Chegadas, Concluida
<1> QED BY <1>5, <1>6 DEF ConversaInv

-----------------------------------------------------------------------------
(* Steps that change answers. *)

(* Drafts come and go, on messages that arrived; replies stay.              *)
LEMMA SoRespostas ==
    ASSUME AtendimentoAssumption, ConversaInv, ConversaTypeOK', FichaOK', ModoOK', HumanasOK',
           UNCHANGED <<entradas, fichas>>,
           \A u \in Trabalhos : trabalho'[u] # Nada => trabalho'[u] = trabalho[u],
           conversa'.ficha \in {conversa.ficha, Nada},
           \A n \in N : \/ respostas'[n] = respostas[n]
                        \/ /\ respostas[n] = Nada \/ respostas[n].tipo = "suggestion"
                           /\ respostas'[n] = Nada \/ respostas'[n].tipo = "suggestion"
                           /\ n \in Chegadas
    PROVE  ConversaInv'
<1>1. Chegadas' = Chegadas /\ \A n \in N : Concluida(n)' = Concluida(n)
  BY DEF Chegadas, Concluida
<1>2. ChegadaOK'
  BY <1>1 DEF ConversaInv, ChegadaOK
<1>3. RespondeEmOrdem'
  BY <1>1 DEF ConversaInv, RespondeEmOrdem, Chegadas
<1>4. TrabalhoOK'
  <2> SUFFICES ASSUME NEW t \in Trabalhos, trabalho'[t] # Nada PROVE Cabe(trabalho[t])'
    BY DEF TrabalhoOK
  <2>1. trabalho'[t] = trabalho[t] /\ trabalho[t] \in TrabalhoTipo
    BY TrabalhoUsado DEF ConversaInv
  <2>2. trabalho[t].ficha # Nada /\ trabalho[t].msg \in N
    BY <2>1 DEF TrabalhoTipo, AtendimentoAssumption
  <2>3. Cabe(trabalho[t])
    BY <2>1 DEF ConversaInv, TrabalhoOK
  <2>4. trabalho[t].ficha = conversa'.ficha => trabalho[t].ficha = conversa.ficha
    BY <2>2
  <2>5. trabalho[t].tipo = "process" /\ trabalho[t].ficha = conversa'.ficha
            => Primeira(trabalho[t].msg)'
    BY <2>1, <2>3, <2>4 DEF Cabe, Primeira, Chegadas, Concluida
  <2> QED BY <1>1, <2>1, <2>2, <2>3, <2>4, <2>5 DEF Cabe
<1> QED BY <1>2, <1>3, <1>4 DEF ConversaInv

LEMMA PassoIgnore ==
    ASSUME AtendimentoAssumption, ConversaInv, NEW m \in N, IgnoreSuggestion(m) PROVE ConversaInv'
<1>1. m \in Chegadas /\ respostas[m] # Nada /\ respostas[m].tipo = "suggestion"
  BY DEF ConversaInv, ChegadaOK, IgnoreSuggestion
<1>2. UNCHANGED <<conversa, entradas, humanas, trabalho, fichas>>
      /\ respostas' = [respostas EXCEPT ![m] = Nada]
  BY DEF IgnoreSuggestion
<1>3. ConversaTypeOK' /\ FichaOK' /\ ModoOK' /\ HumanasOK'
  BY <1>2 DEF ConversaInv, ConversaTypeOK, FichaOK, ModoOK, HumanasOK
<1>4. /\ respostas'[m] = Nada
      /\ \A n \in N : n # m => respostas'[n] = respostas[n]
  BY <1>2 DEF ConversaInv, ConversaTypeOK
<1> QED BY <1>1, <1>2, <1>3, <1>4, SoRespostas

LEMMA PassoSendMessage ==
    ASSUME AtendimentoAssumption, ConversaInv, NEW m \in N \cup {Nada}, SendMessage(m) PROVE ConversaInv'
<1> DEFINE md == Mudada
           x == IF md.modo = "copilot" THEN md.modo ELSE "human"
<1>1. /\ md \in ConversaTipo /\ md.ficha = Nada /\ md.versao = conversa.versao + 1
      /\ md.operador = conversa.operador /\ md.modo = conversa.modo
  BY MudadaFatos DEF ConversaInv, SendMessage
<1>2. /\ conversa' = [md EXCEPT !.status = "open", !.modo = x]
      /\ UNCHANGED <<entradas, trabalho, fichas>>
      /\ m # Nada => Aproveitavel(m)
  BY DEF SendMessage
<1>3. x \in {"copilot", "human"}
  OBVIOUS
<1> HIDE DEF md, x
<1>4. /\ conversa' \in ConversaTipo /\ conversa'.ficha = Nada
      /\ conversa'.versao = conversa.versao + 1 /\ conversa'.modo # "autonomous"
  BY <1>1, <1>2, <1>3 DEF ConversaTipo
<1>5. PICK enviada \in BOOLEAN :
          /\ humanas' = humanas \cup {[numero |-> conversa.versao, de |-> m, enviada |-> enviada]}
          /\ respostas' = IF m # Nada /\ enviada THEN [respostas EXCEPT ![m] = Nada] ELSE respostas
  BY DEF SendMessage
<1>6. conversa.versao \in 0..MaxMudancas /\ conversa.versao \in Nat
  BY DEF ConversaInv, ConversaTypeOK, ConversaTipo
<1> DEFINE g == [numero |-> conversa.versao, de |-> m, enviada |-> enviada]
<1>7. g \in HumanaTipo /\ g.numero = conversa.versao
  BY <1>6 DEF HumanaTipo
<1> HIDE DEF g
<1>8. humanas' = humanas \cup {g}
  BY <1>5 DEF g
<1>9. /\ respostas' \in [N -> RespostaTipo \cup {Nada}]
      /\ \A n \in N : respostas'[n] = respostas[n] \/ (n = m /\ m # Nada /\ respostas'[n] = Nada)
  BY <1>5 DEF ConversaInv, ConversaTypeOK
<1>10. ConversaTypeOK'
  BY <1>2, <1>4, <1>7, <1>8, <1>9 DEF ConversaInv, ConversaTypeOK
<1>11. HumanasOK'
  <2>1. \A h \in humanas : h.numero \in Nat /\ h.numero < conversa.versao
    BY DEF ConversaInv, ConversaTypeOK, HumanaTipo, HumanasOK
  <2> QED BY <1>4, <1>6, <1>7, <1>8, <2>1 DEF HumanasOK
<1>12. FichaOK' /\ ModoOK'
  BY <1>2, <1>4 DEF ConversaInv, FichaOK, ModoOK
<1>13. m # Nada => m \in Chegadas /\ respostas[m].tipo = "suggestion"
  BY <1>2 DEF Aproveitavel, Ultima
<1> QED BY <1>2, <1>4, <1>9, <1>10, <1>11, <1>12, <1>13, SoRespostas

(* The reply is mailed; it stays the reply.                                 *)
LEMMA PassoSend == ASSUME AtendimentoAssumption, ConversaInv, NEW t \in Trabalhos, Send(t) PROVE ConversaInv'
<1> DEFINE m == trabalho[t].msg
           r == [respostas[m] EXCEPT !.enviada = TRUE]
<1>1. /\ m \in N /\ m \in Chegadas
      /\ respostas[m] # Nada /\ respostas[m].tipo = "reply" /\ respostas[m] \in RespostaTipo
  BY EntradaUsada, RespostaUsada DEF ConversaInv, TrabalhoOK, Cabe, Send
<1>2. r \in RespostaTipo /\ r.tipo = "reply"
  BY <1>1 DEF RespostaTipo
<1>3. /\ respostas' = [respostas EXCEPT ![m] = r]
      /\ trabalho' = [trabalho EXCEPT ![t] = Nada]
      /\ UNCHANGED <<conversa, entradas, humanas, fichas>>
  BY DEF Send
<1> HIDE DEF m, r
<1>4. r # Nada
  BY <1>2 DEF AtendimentoAssumption
<1>5. ConversaTypeOK'
  BY <1>1, <1>2, <1>3 DEF ConversaInv, ConversaTypeOK
<1>6. FichaOK' /\ ModoOK' /\ HumanasOK'
  BY <1>3 DEF ConversaInv, ConversaTypeOK, FichaOK, ModoOK, HumanasOK
<1>7. \A n \in N : respostas'[n] = IF n = m THEN r ELSE respostas[n]
  BY <1>1, <1>3 DEF ConversaInv, ConversaTypeOK
<1>8. Chegadas' = Chegadas /\ \A n \in N : Concluida(n)' = Concluida(n)
  BY <1>3 DEF Chegadas, Concluida
<1>9. ChegadaOK'
  BY <1>1, <1>7, <1>8 DEF ConversaInv, ChegadaOK
<1>10. RespondeEmOrdem'
  BY <1>1, <1>7, <1>8 DEF ConversaInv, RespondeEmOrdem, Chegadas
<1>11. TrabalhoOK'
  <2> SUFFICES ASSUME NEW u \in Trabalhos, trabalho'[u] # Nada PROVE Cabe(trabalho[u])'
    BY DEF TrabalhoOK
  <2>1. trabalho'[u] = trabalho[u] /\ trabalho[u] \in TrabalhoTipo
    BY <1>3, TrabalhoUsado DEF ConversaInv, ConversaTypeOK
  <2>2. trabalho[u].msg \in N /\ Cabe(trabalho[u])
    BY <2>1 DEF ConversaInv, TrabalhoOK, TrabalhoTipo
  <2>3. trabalho[u].tipo = "process" /\ trabalho[u].ficha = conversa'.ficha
            => Primeira(trabalho[u].msg)'
    BY <1>3, <2>1, <2>2 DEF Cabe, Primeira, Chegadas, Concluida
  <2> QED BY <1>1, <1>2, <1>3, <1>4, <1>7, <1>8, <2>1, <2>2, <2>3 DEF Cabe
<1> QED BY <1>5, <1>6, <1>9, <1>10, <1>11 DEF ConversaInv

LEMMA PassoReencontrar ==
    ASSUME AtendimentoAssumption, ConversaInv, NEW t \in Trabalhos, NEW m \in N, Reencontrar(t, m)
    PROVE  ConversaInv'
<1> DEFINE k == [tipo |-> "send", msg |-> m, ficha |-> 0, versao |-> conversa.versao,
                 modo |-> conversa.modo]
<1>1. conversa.versao \in 0..MaxMudancas /\ conversa.modo = "autonomous"
  BY DEF ConversaInv, ConversaTypeOK, ConversaTipo, Reencontrar
<1>2. k \in TrabalhoTipo /\ k.tipo = "send" /\ k.msg = m
  BY <1>1 DEF TrabalhoTipo, AtendimentoAssumption
<1>3. /\ trabalho' = [trabalho EXCEPT ![t] = k]
      /\ UNCHANGED <<conversa, entradas, respostas, humanas, fichas>>
      /\ m \in Chegadas /\ respostas[m] # Nada /\ respostas[m].tipo = "reply"
  BY DEF Reencontrar
<1> HIDE DEF k
<1>4. \A u \in Trabalhos : trabalho'[u] = IF u = t THEN k ELSE trabalho[u]
  BY <1>3 DEF ConversaInv, ConversaTypeOK
<1>5. ConversaTypeOK'
  BY <1>2, <1>3 DEF ConversaInv, ConversaTypeOK
<1>6. FichaOK' /\ ModoOK' /\ HumanasOK'
  BY <1>2, <1>3, <1>4 DEF ConversaInv, FichaOK, ModoOK, HumanasOK
<1>7. ChegadaOK' /\ RespondeEmOrdem'
  BY <1>3 DEF ConversaInv, ChegadaOK, RespondeEmOrdem, Chegadas, Concluida
<1>8. TrabalhoOK'
  <2> SUFFICES ASSUME NEW u \in Trabalhos, trabalho'[u] # Nada PROVE Cabe(trabalho[u])'
    BY DEF TrabalhoOK
  <2>1. CASE u = t
    BY <1>2, <1>3, <1>4, <2>1 DEF Cabe, Chegadas
  <2>2. CASE u # t
    BY <1>3, <1>4, <2>2 DEF ConversaInv, TrabalhoOK, Cabe, Primeira, Chegadas, Concluida
  <2> QED BY <2>1, <2>2
<1> QED BY <1>5, <1>6, <1>7, <1>8 DEF ConversaInv

LEMMA PassoReceive ==
    ASSUME AtendimentoAssumption, ConversaInv, NEW m \in N, Receive(m) PROVE ConversaInv'
<1> DEFINE r == [estado |-> "received", tentativas |-> 0]
<1>1. r \in EntradaTipo /\ r # Nada /\ r.estado = "received"
  BY DEF EntradaTipo, AtendimentoAssumption
<1>2. /\ entradas' = [entradas EXCEPT ![m] = r] /\ m \notin Chegadas
      /\ m = 1 \/ m - 1 \in Chegadas
      /\ UNCHANGED <<conversa, respostas, humanas, trabalho, fichas>>
  BY DEF Receive, Chegadas
<1> HIDE DEF r
<1>3. \A n \in N : entradas'[n] = IF n = m THEN r ELSE entradas[n]
  BY <1>2 DEF ConversaInv, ConversaTypeOK
<1>4. Chegadas' = Chegadas \cup {m}
  BY <1>1, <1>3 DEF Chegadas
<1>5. \A n \in Chegadas : Concluida(n)' = Concluida(n) /\ n < m
  <2> SUFFICES ASSUME NEW n \in Chegadas PROVE Concluida(n)' = Concluida(n) /\ n < m
    OBVIOUS
  <2>1. n \in N /\ n # m
    BY <1>2 DEF Chegadas
  <2>2. ~(m < n)
    BY <1>2 DEF ConversaInv, ChegadaOK
  <2> QED BY <1>3, <2>1, <2>2 DEF N, Concluida, AtendimentoAssumption
<1>6. ConversaTypeOK'
  BY <1>1, <1>2 DEF ConversaInv, ConversaTypeOK
<1>7. FichaOK' /\ ModoOK' /\ HumanasOK'
  BY <1>2 DEF ConversaInv, FichaOK, ModoOK, HumanasOK
<1>8. ChegadaOK'
  <2>1. \A n \in N : n < m => n \in Chegadas
    BY <1>2 DEF ConversaInv, ChegadaOK, N, AtendimentoAssumption
  <2> QED BY <1>2, <1>4, <2>1 DEF ConversaInv, ChegadaOK
<1>9. RespondeEmOrdem'
  <2>1. respostas[m] = Nada
    BY <1>2 DEF ConversaInv, ChegadaOK
  <2>2. \A n \in Chegadas : ~(m < n)
    BY <1>5 DEF Chegadas, N
  <2> QED BY <1>2, <1>4, <1>5, <2>1, <2>2 DEF ConversaInv, RespondeEmOrdem
<1>10. TrabalhoOK'
  <2> SUFFICES ASSUME NEW u \in Trabalhos, trabalho'[u] # Nada PROVE Cabe(trabalho[u])'
    BY DEF TrabalhoOK
  <2>1. Cabe(trabalho[u]) /\ trabalho[u].msg \in Chegadas /\ trabalho' = trabalho
    BY <1>2 DEF ConversaInv, TrabalhoOK, Cabe
  <2>2. Primeira(trabalho[u].msg) => Primeira(trabalho[u].msg)'
    <3>1. ~(m < trabalho[u].msg)
      BY <1>5, <2>1 DEF Chegadas, N
    <3> QED BY <1>3, <1>4, <1>5, <2>1, <3>1 DEF Primeira, Concluida, Chegadas
  <2> QED BY <1>2, <1>4, <2>1, <2>2 DEF Cabe
<1> QED BY <1>6, <1>7, <1>8, <1>9, <1>10 DEF ConversaInv

-----------------------------------------------------------------------------
(* Claims, and what comes of them. *)

(* A request whose claim the conversation is no longer on owes nothing.     *)
LEMMA CabeOutro ==
    ASSUME AtendimentoAssumption, ConversaInv, NEW u \in Trabalhos, trabalho[u] # Nada,
           trabalho'[u] = trabalho[u],
           trabalho[u].tipo # "send" => trabalho[u].ficha # conversa'.ficha,
           Chegadas' = Chegadas,
           \A n \in N : respostas[n] # Nada /\ respostas[n].tipo = "reply"
                          => respostas'[n] # Nada /\ respostas'[n].tipo = "reply"
    PROVE  Cabe(trabalho[u])'
<1>1. Cabe(trabalho[u]) /\ trabalho[u].msg \in N
  BY TrabalhoUsado DEF ConversaInv, TrabalhoOK, TrabalhoTipo
<1> QED BY <1>1 DEF Cabe

(* A message that was not dealt with changes its state.                     *)
LEMMA EntradaMuda ==
    ASSUME AtendimentoAssumption, ConversaInv, NEW m \in Chegadas, ~Concluida(m), NEW r \in EntradaTipo,
           entradas' = [entradas EXCEPT ![m] = r],
           \A n \in N : n # m => respostas'[n] = respostas[n],
           \/ respostas'[m] = respostas[m]
           \/ respostas'[m] = Nada \/ respostas'[m].tipo # "reply"
           \/ Primeira(m)
    PROVE  /\ entradas' \in [N -> EntradaTipo \cup {Nada}]
           /\ Chegadas' = Chegadas /\ entradas'[m] = r
           /\ \A n \in N : n # m => Concluida(n)' = Concluida(n)
           /\ ChegadaOK' /\ RespondeEmOrdem'
<1>1. m \in N /\ r # Nada
  BY DEF Chegadas, AtendimentoAssumption
<1>2. \A n \in N : entradas'[n] = IF n = m THEN r ELSE entradas[n]
  BY <1>1 DEF ConversaInv, ConversaTypeOK
<1>3. Chegadas' = Chegadas
  BY <1>1, <1>2 DEF Chegadas
<1>4. \A n \in N : n # m => Concluida(n)' = Concluida(n)
  BY <1>2 DEF Concluida
<1>5. ChegadaOK'
  BY <1>3 DEF ConversaInv, ChegadaOK
<1>6. RespondeEmOrdem'
  <2> SUFFICES ASSUME NEW a \in Chegadas, NEW b \in Chegadas, b < a,
                      respostas'[a] # Nada, respostas'[a].tipo = "reply"
               PROVE  Concluida(b)'
    BY <1>3 DEF RespondeEmOrdem
  <2>1. a \in N /\ b \in N
    BY DEF Chegadas
  <2>2. CASE respostas'[a] = respostas[a]
    <3>1. Concluida(b)
      BY <2>2 DEF ConversaInv, RespondeEmOrdem
    <3> QED BY <1>4, <2>1, <3>1
  <2>3. CASE a = m /\ Primeira(m)
    <3>1. Concluida(b) /\ b # m
      BY <2>1, <2>3 DEF Primeira, N
    <3> QED BY <1>4, <2>1, <3>1
  <2> QED BY <2>1, <2>2, <2>3
<1>7. entradas' \in [N -> EntradaTipo \cup {Nada}]
  BY <1>1 DEF ConversaInv, ConversaTypeOK
<1> QED BY <1>1, <1>2, <1>3, <1>4, <1>5, <1>6, <1>7

(* The conversation is let go as a message is dealt with.                   *)
LEMMA EntradaLarga ==
    ASSUME AtendimentoAssumption, ConversaInv, NEW m \in Chegadas, ~Concluida(m), NEW r \in EntradaTipo,
           entradas' = [entradas EXCEPT ![m] = r],
           UNCHANGED <<respostas, humanas, trabalho, fichas>>,
           conversa' \in ConversaTipo, conversa'.ficha = Nada,
           conversa.versao <= conversa'.versao, ModoOK'
    PROVE  ConversaInv'
<1>1. /\ entradas' \in [N -> EntradaTipo \cup {Nada}]
      /\ Chegadas' = Chegadas /\ ChegadaOK' /\ RespondeEmOrdem'
  BY EntradaMuda
<1>2. ConversaTypeOK'
  BY <1>1 DEF ConversaInv, ConversaTypeOK
<1>3. FichaOK'
  BY DEF ConversaInv, FichaOK
<1>4. HumanasOK'
  <2>1. \A h \in humanas : h.numero \in Nat
    BY DEF ConversaInv, ConversaTypeOK, HumanaTipo
  <2>2. conversa.versao \in Nat /\ conversa'.versao \in Nat
    BY DEF ConversaInv, ConversaTypeOK, ConversaTipo
  <2> QED BY <2>1, <2>2 DEF ConversaInv, HumanasOK
<1>5. TrabalhoOK'
  <2> SUFFICES ASSUME NEW u \in Trabalhos, trabalho'[u] # Nada PROVE Cabe(trabalho[u])'
    BY DEF TrabalhoOK
  <2>1. trabalho[u].ficha # Nada
    BY TrabalhoUsado DEF ConversaInv, TrabalhoTipo, AtendimentoAssumption
  <2> QED BY <1>1, <2>1, CabeOutro
<1> QED BY <1>1, <1>2, <1>3, <1>4, <1>5 DEF ConversaInv

LEMMA PassoClaim ==
    ASSUME AtendimentoAssumption, ConversaInv, NEW t \in Trabalhos, NEW m \in N, Claim(t, m)
    PROVE  ConversaInv'
<1>1. m \in Chegadas /\ ~Concluida(m) /\ entradas[m] \in EntradaTipo
      /\ UNCHANGED <<respostas, humanas>>
  BY EntradaUsada DEF ConversaInv, Claim
<1>2. conversa \in ConversaTipo /\ conversa.versao \in Nat
  BY DEF ConversaInv, ConversaTypeOK, ConversaTipo
<1> DEFINE r == [entradas[m] EXCEPT !.estado = "completed"]
<1>3. r \in EntradaTipo
  BY <1>1 DEF EntradaTipo
<1>4. CASE /\ conversa.status # "open" \/ conversa.modo = "human"
           /\ entradas' = [entradas EXCEPT ![m] = r]
           /\ UNCHANGED <<conversa, trabalho, fichas>>
  <2> HIDE DEF r
  <2>1. conversa.ficha = Nada /\ ModoOK'
    BY <1>4 DEF ConversaInv, FichaOK, ModoOK
  <2>2. /\ conversa' \in ConversaTipo /\ conversa'.ficha = Nada
        /\ conversa.versao <= conversa'.versao
    BY <1>2, <1>4, <2>1
  <2>3. UNCHANGED <<respostas, humanas, trabalho, fichas>>
    BY <1>1, <1>4
  <2> QED BY <1>1, <1>3, <1>4, <2>1, <2>2, <2>3, EntradaLarga
<1>5. CASE /\ conversa.status = "open" /\ PodeMudar
           /\ conversa' = Handoff(conversa)
           /\ entradas' = [entradas EXCEPT ![m] = r]
           /\ UNCHANGED <<trabalho, fichas>>
  <2> HIDE DEF r
  <2>1. /\ conversa' \in ConversaTipo /\ conversa'.ficha = Nada
        /\ conversa'.versao = conversa.versao + 1 /\ conversa'.modo = "human"
    BY <1>2, <1>5, HandoffFatos DEF ConversaInv
  <2>2. ModoOK' /\ conversa.versao <= conversa'.versao
    BY <1>2, <2>1 DEF ModoOK
  <2>3. UNCHANGED <<respostas, humanas, trabalho, fichas>>
    BY <1>1, <1>5
  <2> QED BY <1>1, <1>3, <1>5, <2>1, <2>2, <2>3, EntradaLarga
<1> DEFINE q == [estado |-> "processing", tentativas |-> entradas[m].tentativas + 1]
           k == [tipo |-> "process", msg |-> m, ficha |-> fichas,
                 versao |-> conversa.versao, modo |-> conversa.modo]
<1>6. CASE /\ conversa.status = "open" /\ conversa.modo # "human"
           /\ Primeira(m) /\ entradas[m].tentativas < MaxTentativas
           /\ fichas < MaxFichas
           /\ conversa' = [conversa EXCEPT !.ficha = fichas, !.prazo = TRUE]
           /\ entradas' = [entradas EXCEPT ![m] = q]
           /\ trabalho' = [trabalho EXCEPT ![t] = k]
           /\ fichas' = fichas + 1
  <2>1. fichas \in 0..MaxFichas /\ fichas \in Nat /\ fichas' \in 0..MaxFichas
    BY <1>6 DEF ConversaInv, ConversaTypeOK, AtendimentoAssumption
  <2>2. q \in EntradaTipo /\ q.estado = "processing"
    BY <1>1, <1>6 DEF EntradaTipo, AtendimentoAssumption
  <2>3. k \in TrabalhoTipo /\ k # Nada /\ k.tipo = "process" /\ k.msg = m /\ k.ficha = fichas
    BY <1>2, <1>6, <2>1 DEF TrabalhoTipo, ConversaTipo, AtendimentoAssumption
  <2>4. /\ conversa' \in ConversaTipo /\ conversa'.ficha = fichas
        /\ conversa'.status = "open" /\ conversa'.modo = conversa.modo
        /\ conversa'.versao = conversa.versao /\ conversa'.operador = conversa.operador
    BY <1>2, <1>6, <2>1 DEF ConversaTipo
  <2> HIDE DEF q, k, r
  <2>5. /\ entradas' \in [N -> EntradaTipo \cup {Nada}] /\ entradas'[m] = q
        /\ Chegadas' = Chegadas /\ ChegadaOK' /\ RespondeEmOrdem'
        /\ \A n \in N : n # m => Concluida(n)' = Concluida(n)
    BY <1>1, <1>6, <2>2, EntradaMuda
  <2>6. \A u \in Trabalhos : trabalho'[u] = IF u = t THEN k ELSE trabalho[u]
    BY <1>6 DEF ConversaInv, ConversaTypeOK
  <2>7. ConversaTypeOK'
    BY <1>1, <1>6, <2>1, <2>3, <2>4, <2>5 DEF ConversaInv, ConversaTypeOK
  <2>8. \A u \in Trabalhos : trabalho[u] # Nada => trabalho[u].ficha \in Nat
    BY TrabalhoUsado DEF ConversaInv, TrabalhoTipo
  <2>9. FichaOK'
    BY <1>6, <2>1, <2>3, <2>4, <2>6, <2>8 DEF ConversaInv, FichaOK
  <2>10. ModoOK' /\ HumanasOK'
    BY <1>1, <2>4 DEF ConversaInv, ModoOK, HumanasOK
  <2>11. TrabalhoOK'
    <3> SUFFICES ASSUME NEW u \in Trabalhos, trabalho'[u] # Nada PROVE Cabe(trabalho[u])'
      BY DEF TrabalhoOK
    <3>1. CASE u = t
      <4>1. Primeira(trabalho[u].msg)'
        BY <1>1, <1>6, <2>2, <2>3, <2>5, <2>6, <3>1 DEF Primeira, Concluida, Chegadas
      <4> QED BY <1>1, <2>3, <2>5, <2>6, <3>1, <4>1 DEF Cabe
    <3>2. CASE u # t
      <4>1. trabalho[u].tipo # "send" => trabalho[u].ficha # conversa'.ficha
        BY <2>1, <2>4, <2>6, <2>8, <3>2 DEF ConversaInv, FichaOK
      <4> QED BY <1>1, <2>5, <2>6, <3>2, <4>1, CabeOutro
    <3> QED BY <3>1, <3>2
  <2> QED BY <2>5, <2>7, <2>9, <2>10, <2>11 DEF ConversaInv
<1> QED BY <1>4, <1>5, <1>6 DEF Claim

LEMMA PassoSuggest ==
    ASSUME AtendimentoAssumption, ConversaInv, NEW t \in Trabalhos, NEW m \in N, Suggest(t, m)
    PROVE  ConversaInv'
<1> DEFINE k == [tipo |-> "suggest", msg |-> m, ficha |-> fichas,
                 versao |-> conversa.versao, modo |-> conversa.modo]
<1>1. /\ m \in Chegadas /\ (respostas[m] # Nada => respostas[m].tipo = "suggestion")
      /\ conversa.status = "open" /\ conversa.modo = "copilot" /\ fichas < MaxFichas
      /\ conversa' = [conversa EXCEPT !.ficha = fichas, !.prazo = TRUE]
      /\ trabalho' = [trabalho EXCEPT ![t] = k] /\ fichas' = fichas + 1
      /\ UNCHANGED <<entradas, respostas, humanas>>
  BY DEF Suggest, Ultima
<1>2. conversa \in ConversaTipo /\ conversa.versao \in Nat
  BY DEF ConversaInv, ConversaTypeOK, ConversaTipo
<1>3. fichas \in 0..MaxFichas /\ fichas \in Nat /\ fichas' \in 0..MaxFichas
  BY <1>1 DEF ConversaInv, ConversaTypeOK, AtendimentoAssumption
<1>4. k \in TrabalhoTipo /\ k # Nada /\ k.tipo = "suggest" /\ k.msg = m /\ k.ficha = fichas
  BY <1>1, <1>2, <1>3 DEF TrabalhoTipo, ConversaTipo, AtendimentoAssumption
<1>5. /\ conversa' \in ConversaTipo /\ conversa'.ficha = fichas
      /\ conversa'.status = "open" /\ conversa'.modo = "copilot"
      /\ conversa'.versao = conversa.versao
  BY <1>1, <1>2, <1>3 DEF ConversaTipo
<1> HIDE DEF k
<1>6. \A u \in Trabalhos : trabalho'[u] = IF u = t THEN k ELSE trabalho[u]
  BY <1>1 DEF ConversaInv, ConversaTypeOK
<1>7. ConversaTypeOK'
  BY <1>1, <1>3, <1>4, <1>5 DEF ConversaInv, ConversaTypeOK
<1>8. \A u \in Trabalhos : trabalho[u] # Nada => trabalho[u].ficha \in Nat
  BY TrabalhoUsado DEF ConversaInv, TrabalhoTipo
<1>9. FichaOK'
  BY <1>1, <1>3, <1>4, <1>5, <1>6, <1>8 DEF ConversaInv, FichaOK
<1>10. ModoOK' /\ HumanasOK' /\ ChegadaOK' /\ RespondeEmOrdem' /\ Chegadas' = Chegadas
  BY <1>1, <1>5 DEF ConversaInv, ModoOK, HumanasOK, ChegadaOK, RespondeEmOrdem, Chegadas, Concluida
<1>11. TrabalhoOK'
  <2> SUFFICES ASSUME NEW u \in Trabalhos, trabalho'[u] # Nada PROVE Cabe(trabalho[u])'
    BY DEF TrabalhoOK
  <2>1. CASE u = t
    BY <1>1, <1>4, <1>6, <1>10, <2>1 DEF Cabe
  <2>2. CASE u # t
    <3>1. trabalho[u].tipo # "send" => trabalho[u].ficha # conversa'.ficha
      BY <1>3, <1>5, <1>6, <1>8, <2>2 DEF ConversaInv, FichaOK
    <3> QED BY <1>1, <1>6, <1>10, <2>2, <3>1, CabeOutro
  <2> QED BY <2>1, <2>2
<1> QED BY <1>7, <1>9, <1>10, <1>11 DEF ConversaInv

LEMMA PassoComplete ==
    ASSUME AtendimentoAssumption, ConversaInv, NEW t \in Trabalhos, NEW d \in Decisoes, Complete(t, d)
    PROVE  ConversaInv'
<1> DEFINE k == trabalho[t]
           m == trabalho[t].msg
           r == [entradas[m] EXCEPT !.estado = IF d = "error" /\ ~Esgotada(m) THEN "failed"
                                               ELSE "completed"]
<1>1. /\ k # Nada /\ k \in TrabalhoTipo /\ k.tipo = "process" /\ k.ficha # Nada
      /\ k.ficha = conversa.ficha /\ conversa.status = "open" /\ k.modo = conversa.modo
  BY TrabalhoUsado DEF ConversaInv, Complete, Vale, TrabalhoTipo, AtendimentoAssumption
<1>2. m \in Chegadas /\ m \in N /\ Primeira(m) /\ ~Concluida(m) /\ entradas[m] \in EntradaTipo
  BY <1>1, EntradaUsada DEF ConversaInv, TrabalhoOK, Cabe, Primeira, TrabalhoTipo
<1>3. r \in EntradaTipo
  BY <1>2 DEF EntradaTipo
<1>4. entradas' = [entradas EXCEPT ![m] = r] /\ UNCHANGED <<humanas, fichas>>
  BY DEF Complete
<1>5. /\ conversa' \in ConversaTipo /\ conversa'.ficha = Nada
      /\ conversa.versao <= conversa'.versao /\ ModoOK'
  <2>1. /\ Solta \in ConversaTipo /\ Solta.ficha = Nada
        /\ Solta.versao = conversa.versao /\ Solta.operador = conversa.operador
        /\ Solta.status = "open" /\ Solta.modo = conversa.modo
    BY <1>1, SoltaFatos DEF ConversaInv
  <2>2. conversa.versao \in Nat
    BY DEF ConversaInv, ConversaTypeOK, ConversaTipo
  <2>3. CASE conversa' = Solta
    BY <2>1, <2>2, <2>3 DEF ConversaInv, ModoOK
  <2>4. CASE conversa' = Handoff(Solta) /\ PodeMudar
    <3>1. /\ conversa' \in ConversaTipo /\ conversa'.ficha = Nada
          /\ conversa'.versao = conversa.versao + 1 /\ conversa'.modo = "human"
      BY <2>1, <2>4, HandoffFatos DEF ConversaInv
    <3> QED BY <2>2, <3>1 DEF ModoOK
  <2> QED BY <2>3, <2>4 DEF Complete
<1> DEFINE nova == [tipo |-> Tipo(k), enviada |-> FALSE]
<1>6. nova \in RespostaTipo /\ nova # Nada /\ nova.tipo = Tipo(k)
  <2>1. Tipo(k) \in {"reply", "suggestion"}
    BY DEF Tipo
  <2>2. nova \in RespostaTipo /\ nova.tipo = Tipo(k)
    BY <2>1 DEF RespostaTipo
  <2> QED BY <2>2 DEF AtendimentoAssumption
<1>7. /\ d = "reply" => respostas[m] = Nada
      /\ respostas' = IF d = "reply" THEN [respostas EXCEPT ![m] = nova] ELSE respostas
  BY DEF Complete
<1> DEFINE envia == [k EXCEPT !.tipo = "send"]
<1>8. envia \in TrabalhoTipo /\ envia.tipo = "send" /\ envia.msg = m /\ envia.ficha = k.ficha
  BY <1>1 DEF TrabalhoTipo
<1>9. trabalho' = [trabalho EXCEPT ![t] = IF d = "reply" /\ Tipo(k) = "reply" THEN envia ELSE Nada]
  BY DEF Complete
<1> HIDE DEF r, nova, envia, m
<1>10. /\ respostas' \in [N -> RespostaTipo \cup {Nada}]
       /\ \A n \in N : respostas'[n] = IF n = m /\ d = "reply" THEN nova ELSE respostas[n]
  BY <1>2, <1>6, <1>7 DEF ConversaInv, ConversaTypeOK
<1>11. /\ entradas' \in [N -> EntradaTipo \cup {Nada}]
       /\ Chegadas' = Chegadas /\ ChegadaOK' /\ RespondeEmOrdem'
  BY <1>2, <1>3, <1>4, <1>10, EntradaMuda
<1>12. /\ trabalho' \in [Trabalhos -> TrabalhoTipo \cup {Nada}]
       /\ trabalho'[t] # Nada => trabalho'[t] = envia /\ d = "reply" /\ Tipo(k) = "reply"
       /\ \A u \in Trabalhos : u # t => trabalho'[u] = trabalho[u]
  BY <1>8, <1>9 DEF ConversaInv, ConversaTypeOK
<1>13. ConversaTypeOK'
  BY <1>4, <1>5, <1>10, <1>11, <1>12 DEF ConversaInv, ConversaTypeOK
<1>14. FichaOK'
  BY <1>4, <1>5, <1>8, <1>12 DEF ConversaInv, FichaOK
<1>15. HumanasOK'
  <2>1. \A h \in humanas : h.numero \in Nat
    BY DEF ConversaInv, ConversaTypeOK, HumanaTipo
  <2>2. conversa.versao \in Nat /\ conversa'.versao \in Nat
    BY <1>5 DEF ConversaInv, ConversaTypeOK, ConversaTipo
  <2> QED BY <1>4, <1>5, <2>1, <2>2 DEF ConversaInv, HumanasOK
<1>16. TrabalhoOK'
  <2> SUFFICES ASSUME NEW u \in Trabalhos, trabalho'[u] # Nada PROVE Cabe(trabalho[u])'
    BY DEF TrabalhoOK
  <2>1. CASE u = t
    BY <1>2, <1>6, <1>8, <1>10, <1>11, <1>12, <2>1 DEF Cabe
  <2>2. CASE u # t
    <3>1. trabalho'[u] = trabalho[u] /\ trabalho[u].ficha # Nada
      BY <1>12, <2>2, TrabalhoUsado DEF ConversaInv, TrabalhoTipo, AtendimentoAssumption
    <3>2. \A n \in N : respostas[n] # Nada /\ respostas[n].tipo = "reply"
                       => respostas'[n] # Nada /\ respostas'[n].tipo = "reply"
      BY <1>7, <1>10
    <3> QED BY <1>5, <1>11, <3>1, <3>2, CabeOutro
  <2> QED BY <2>1, <2>2
<1> QED BY <1>5, <1>11, <1>13, <1>14, <1>15, <1>16 DEF ConversaInv

LEMMA PassoCompleteSuggest ==
    ASSUME AtendimentoAssumption, ConversaInv, NEW t \in Trabalhos, CompleteSuggest(t)
    PROVE  ConversaInv'
<1> DEFINE m == trabalho[t].msg
           nova == [tipo |-> "suggestion", enviada |-> FALSE]
<1>1. /\ trabalho[t] # Nada /\ trabalho[t] \in TrabalhoTipo /\ trabalho[t].tipo = "suggest"
      /\ trabalho[t].ficha = conversa.ficha
  BY TrabalhoUsado DEF ConversaInv, CompleteSuggest, Vale
<1>2. /\ m \in Chegadas /\ m \in N
      /\ respostas[m] # Nada => respostas[m].tipo = "suggestion"
  BY <1>1 DEF ConversaInv, TrabalhoOK, Cabe, TrabalhoTipo
<1>3. /\ conversa' = Solta
      /\ respostas' = IF Ultima(m) THEN [respostas EXCEPT ![m] = nova] ELSE respostas
      /\ trabalho' = [trabalho EXCEPT ![t] = Nada]
      /\ UNCHANGED <<entradas, humanas, fichas>>
  BY DEF CompleteSuggest
<1>4. nova \in RespostaTipo /\ nova.tipo = "suggestion"
  BY DEF RespostaTipo
<1> HIDE DEF m, nova
<1>5. /\ conversa' \in ConversaTipo /\ conversa'.ficha = Nada
      /\ conversa'.versao = conversa.versao /\ conversa'.modo = conversa.modo
      /\ conversa'.operador = conversa.operador
  BY <1>3, SoltaFatos DEF ConversaInv
<1>6. /\ respostas' \in [N -> RespostaTipo \cup {Nada}]
      /\ \A n \in N : respostas'[n] = respostas[n] \/ (n = m /\ respostas'[n].tipo = "suggestion")
  BY <1>2, <1>3, <1>4 DEF ConversaInv, ConversaTypeOK
<1>7. /\ trabalho' \in [Trabalhos -> TrabalhoTipo \cup {Nada}]
      /\ \A u \in Trabalhos : trabalho'[u] # Nada => trabalho'[u] = trabalho[u]
  BY <1>3 DEF ConversaInv, ConversaTypeOK
<1>8. ConversaTypeOK'
  BY <1>3, <1>5, <1>6, <1>7 DEF ConversaInv, ConversaTypeOK
<1>9. FichaOK' /\ ModoOK' /\ HumanasOK'
  BY <1>3, <1>5, <1>7 DEF ConversaInv, FichaOK, ModoOK, HumanasOK
<1> QED BY <1>2, <1>3, <1>5, <1>6, <1>7, <1>8, <1>9, SoRespostas

-----------------------------------------------------------------------------
LEMMA PassoAtende == AtendimentoAssumption /\ ConversaInv /\ [NextConversa]_varsConversa => ConversaInv'
<1> SUFFICES ASSUME AtendimentoAssumption, ConversaInv, [NextConversa]_varsConversa PROVE ConversaInv'
  OBVIOUS
<1>1. ASSUME NEW m \in N, Receive(m) \/ IgnoreSuggestion(m) PROVE ConversaInv'
  BY <1>1, PassoReceive, PassoIgnore
<1>2. ASSUME NEW t \in Trabalhos, NEW m \in N, Claim(t, m) \/ Suggest(t, m) \/ Reencontrar(t, m)
      PROVE  ConversaInv'
  BY <1>2, PassoClaim, PassoSuggest, PassoReencontrar
<1>3. ASSUME NEW t \in Trabalhos, NEW d \in Decisoes, Complete(t, d) PROVE ConversaInv'
  BY <1>3, PassoComplete
<1>4. ASSUME NEW t \in Trabalhos, CompleteSuggest(t) \/ Send(t) \/ Perder(t) PROVE ConversaInv'
  BY <1>4, PassoCompleteSuggest, PassoSend, PassoPerder
<1>5. CASE VencerPrazo \/ Close
  BY <1>5, PassosConversa
<1>6. ASSUME NEW o \in Operadores, Assign(o) PROVE ConversaInv'
  BY <1>6, PassosConversa
<1>7. ASSUME NEW modo \in {"human", "copilot"}, SetMode(modo) PROVE ConversaInv'
  BY <1>7, PassosConversa
<1>8. ASSUME NEW m \in N \cup {Nada}, SendMessage(m) PROVE ConversaInv'
  BY <1>8, PassoSendMessage
<1>9. ASSUME NEW h \in humanas, RetryMessage(h) PROVE ConversaInv'
  BY <1>9, PassoRetry
<1>10. CASE UNCHANGED varsConversa
  <2>1. conversa \in ConversaTipo /\ conversa.versao \in Nat /\ ModoOK'
    BY <1>10 DEF ConversaInv, ConversaTypeOK, ConversaTipo, ModoOK, varsConversa
  <2>2. conversa.versao <= conversa.versao
    BY <2>1
  <2> QED BY <1>10, <2>1, <2>2, SoConversa DEF varsConversa
<1> QED BY <1>1, <1>2, <1>3, <1>4, <1>5, <1>6, <1>7, <1>8, <1>9, <1>10 DEF NextConversa

LEMMA InvarianteConversa == SpecConversa => []ConversaInv
<1>1. InitConversa => ConversaInv
  BY IniciaConversa, AtendimentoConstantes
<1>2. ConversaInv /\ [NextConversa]_varsConversa => ConversaInv'
  BY PassoAtende, AtendimentoConstantes
<1> QED BY <1>1, <1>2, PTL DEF SpecConversa

-----------------------------------------------------------------------------
(* The theorems. *)

(* The client is answered in the order they wrote, whatever is repeated,    *)
(* lost or late.                                                            *)
THEOREM EmOrdem == SpecConversa => []RespondeEmOrdem
<1>1. ConversaInv => RespondeEmOrdem
  BY DEF ConversaInv
<1> QED BY <1>1, InvarianteConversa, PTL

(* The assistant writes a reply only while it is alone in charge.           *)
THEOREM Calado == SpecConversa => RoboCalado
<1> DEFINE Cala == \A m \in N : respostas'[m] # Nada /\ respostas'[m].tipo = "reply" /\ respostas[m] = Nada
                       => conversa.status = "open" /\ conversa.operador = Nada
<1>1. ASSUME ConversaInv, [NextConversa]_varsConversa PROVE [Cala]_varsConversa
  <2> SUFFICES ASSUME NEW m \in N, respostas'[m] # Nada, respostas'[m].tipo = "reply",
                      respostas[m] = Nada
               PROVE  conversa.status = "open" /\ conversa.operador = Nada
    OBVIOUS
  <2>1. ASSUME NEW t \in Trabalhos, NEW d \in Decisoes, Complete(t, d)
        PROVE  conversa.status = "open" /\ conversa.operador = Nada
    <3> DEFINE k == trabalho[t]
               nova == [tipo |-> Tipo(k), enviada |-> FALSE]
    <3>1. /\ k # Nada /\ conversa.status = "open" /\ k.modo = conversa.modo
          /\ respostas' = IF d = "reply" THEN [respostas EXCEPT ![k.msg] = nova] ELSE respostas
      BY <2>1 DEF Complete, Vale
    <3>2. nova.tipo = Tipo(k) /\ k.modo \in {"autonomous", "copilot"}
      BY <3>1, TrabalhoUsado, <1>1 DEF ConversaInv, TrabalhoTipo
    <3> HIDE DEF nova
    <3>3. respostas'[m] = nova
      BY <1>1, <3>1 DEF ConversaInv, ConversaTypeOK
    <3>4. Tipo(k) = "reply"
      BY <3>2, <3>3
    <3>5. k.modo = "autonomous"
      BY <3>2, <3>4 DEF Tipo
    <3> QED BY <1>1, <3>1, <3>5 DEF ConversaInv, ModoOK
  <2>2. ASSUME NEW t \in Trabalhos, Send(t) PROVE FALSE
    <3>1. respostas[trabalho[t].msg] # Nada /\ trabalho[t] # Nada
      BY <1>1, <2>2 DEF ConversaInv, TrabalhoOK, Cabe, Send
    <3>2. trabalho[t].msg # m
      BY <3>1
    <3>3. respostas'[m] = respostas[m]
      BY <1>1, <2>2, <3>2 DEF Send, ConversaInv, ConversaTypeOK
    <3> QED BY <3>3
  <2>3. ASSUME NEW t \in Trabalhos, CompleteSuggest(t) PROVE FALSE
    <3> DEFINE nova == [tipo |-> "suggestion", enviada |-> FALSE]
    <3>1. nova.tipo = "suggestion"
      OBVIOUS
    <3>2. respostas' = respostas \/ respostas' = [respostas EXCEPT ![trabalho[t].msg] = nova]
      BY <2>3 DEF CompleteSuggest
    <3> HIDE DEF nova
    <3>3. respostas'[m] = respostas[m] \/ respostas'[m] = nova
      BY <1>1, <3>2 DEF ConversaInv, ConversaTypeOK
    <3> QED BY <3>1, <3>3
  <2>4. ASSUME \/ \E n \in N : IgnoreSuggestion(n)
               \/ \E n \in N \cup {Nada} : SendMessage(n)
        PROVE  FALSE
    <3>1. respostas'[m] = respostas[m] \/ respostas'[m] = Nada
      BY <1>1, <2>4 DEF ConversaInv, ConversaTypeOK, IgnoreSuggestion, SendMessage
    <3> QED BY <3>1
  <2>5. UNCHANGED respostas
        \/ (\E t \in Trabalhos, d \in Decisoes : Complete(t, d))
        \/ (\E t \in Trabalhos : Send(t) \/ CompleteSuggest(t))
        \/ (\E n \in N : IgnoreSuggestion(n)) \/ (\E n \in N \cup {Nada} : SendMessage(n))
    BY <1>1 DEF NextConversa, varsConversa, Receive, Claim, Suggest, Reencontrar, Perder, VencerPrazo, Close, Assign,
                SetMode, RetryMessage
  <2> QED BY <2>1, <2>2, <2>3, <2>4, <2>5
<1> QED BY <1>1, InvarianteConversa, PTL DEF SpecConversa, RoboCalado

(* A draft becomes a message only if the client did not write since.        *)
THEOREM DraftAtual == SpecConversa => SugestaoAtual
<1> DEFINE Atual == \A h \in humanas' \ humanas :
                        h.numero = conversa.versao /\ h.de # Nada => Ultima(h.de)
<1>1. ASSUME ConversaInv, [NextConversa]_varsConversa PROVE [Atual]_varsConversa
  <2> SUFFICES ASSUME NEW g \in humanas' \ humanas, g.numero = conversa.versao, g.de # Nada
               PROVE  Ultima(g.de)
    OBVIOUS
  <2>1. ASSUME NEW n \in N \cup {Nada}, SendMessage(n) PROVE Ultima(g.de)
    <3>1. PICK enviada \in BOOLEAN :
              humanas' = humanas \cup {[numero |-> conversa.versao, de |-> n, enviada |-> enviada]}
      BY <2>1 DEF SendMessage
    <3>2. g.de = n
      BY <3>1
    <3> QED BY <2>1, <3>2 DEF SendMessage, Aproveitavel
  <2>2. ASSUME NEW h \in humanas, RetryMessage(h) PROVE FALSE
    <3>1. h \in HumanaTipo /\ h.numero < conversa.versao /\ conversa.versao \in Nat
      BY <1>1 DEF ConversaInv, ConversaTypeOK, HumanasOK, ConversaTipo
    <3>2. g = [h EXCEPT !.enviada = TRUE]
      BY <2>2 DEF RetryMessage
    <3>3. g.numero = h.numero /\ h.numero \in Nat
      BY <3>1, <3>2 DEF HumanaTipo
    <3> QED BY <3>1, <3>3
  <2>3. UNCHANGED humanas
        \/ (\E n \in N \cup {Nada} : SendMessage(n)) \/ (\E h \in humanas : RetryMessage(h))
    BY <1>1 DEF NextConversa, varsConversa, Receive, IgnoreSuggestion, Claim, Suggest, Reencontrar, Complete,
                CompleteSuggest, Send, Perder, VencerPrazo, Close, Assign, SetMode
  <2> QED BY <2>1, <2>2, <2>3
<1> QED BY <1>1, InvarianteConversa, PTL DEF SpecConversa, SugestaoAtual

-----------------------------------------------------------------------------
(* Module Briefing: the conversation makes one budget of what the client
   confirmed. *)


(* Only what the client wrote was noted down. *)
DadosOK ==
    /\ briefing \in BriefingTipo \cup {Nada}
    /\ briefing # Nada =>
          \A c \in Campos : briefing.dados[c] # Nada => briefing.dados[c] \in Chegadas

BriefingInv == ConversaInv /\ DadosOK /\ PedidoUnico

LEMMA IniciaBriefing == BriefingAssumption /\ InitBriefing => BriefingInv
<1> SUFFICES ASSUME BriefingAssumption, InitBriefing PROVE BriefingInv
  OBVIOUS
<1>1. ConversaInv
  BY IniciaConversa DEF BriefingAssumption, InitBriefing
<1>2. DadosOK /\ PedidoUnico
  BY DEF InitBriefing, DadosOK, PedidoUnico
<1> QED BY <1>1, <1>2 DEF BriefingInv

(* A message that came stays. *)
LEMMA ChegadasFicam ==
    ASSUME AtendimentoAssumption, ConversaInv, [NextConversa]_varsConversa
    PROVE  Chegadas \subseteq Chegadas'
<1>1. SUFFICES ASSUME NEW m \in Chegadas PROVE entradas'[m] # Nada
  BY DEF Chegadas
<1>2. m \in N /\ entradas \in [N -> EntradaTipo \cup {Nada}] /\ entradas[m] # Nada
  BY DEF ConversaInv, ConversaTypeOK, Chegadas
<1>3. entradas' \in [N -> EntradaTipo \cup {Nada}]
  BY PassoAtende DEF ConversaInv, ConversaTypeOK
<1>4. ASSUME NEW n \in N, NEW x, x # Nada, entradas' = [entradas EXCEPT ![n] = x]
      PROVE  entradas'[m] # Nada
  BY <1>2, <1>4
<1>5. CASE UNCHANGED entradas
  BY <1>2, <1>5
<1>6. ASSUME NEW n \in N, Receive(n) PROVE entradas'[m] # Nada
  BY <1>2, <1>6 DEF Receive, AtendimentoAssumption
<1>7. ASSUME NEW t \in Trabalhos, NEW n \in N, Claim(t, n) PROVE entradas'[m] # Nada
  <2>1. n \in N /\ entradas[n] \in EntradaTipo
    BY <1>2, <1>7 DEF Claim, Chegadas
  <2>2. [entradas[n] EXCEPT !.estado = "completed"] \in EntradaTipo
    BY <2>1 DEF EntradaTipo
  <2>3. CASE entradas' = [entradas EXCEPT ![n].estado = "completed"]
    BY <1>2, <2>1, <2>2, <2>3 DEF AtendimentoAssumption
  <2> DEFINE novo == [estado |-> "processing", tentativas |-> entradas[n].tentativas + 1]
  <2>4. CASE entradas[n].tentativas < MaxTentativas /\ entradas' = [entradas EXCEPT ![n] = novo]
    <3>1. novo \in EntradaTipo
      BY <2>1, <2>4 DEF EntradaTipo, AtendimentoAssumption
    <3> HIDE DEF novo
    <3> QED BY <1>2, <2>4, <3>1 DEF AtendimentoAssumption
  <2>5. \/ entradas' = [entradas EXCEPT ![n].estado = "completed"]
        \/ entradas[n].tentativas < MaxTentativas /\ entradas' = [entradas EXCEPT ![n] = novo]
    BY <1>7 DEF Claim
  <2> HIDE DEF novo
  <2> QED BY <2>3, <2>4, <2>5
<1>8. ASSUME NEW t \in Trabalhos, NEW d \in Decisoes, Complete(t, d) PROVE entradas'[m] # Nada
  <2> DEFINE n == trabalho[t].msg
             x == IF d = "error" /\ ~Esgotada(n) THEN "failed" ELSE "completed"
  <2>1. n \in N /\ entradas[n] \in EntradaTipo
    BY <1>2, <1>8 DEF Complete, ConversaInv, TrabalhoOK, Cabe, Chegadas
  <2>2. entradas' = [entradas EXCEPT ![n].estado = x] /\ x \in {"failed", "completed"}
    BY <1>8 DEF Complete
  <2> HIDE DEF n, x
  <2>3. [entradas[n] EXCEPT !.estado = x] \in EntradaTipo
    BY <2>1, <2>2 DEF EntradaTipo
  <2> QED BY <1>2, <2>1, <2>2, <2>3 DEF AtendimentoAssumption
<1>9. UNCHANGED entradas
      \/ (\E n \in N : Receive(n)) \/ (\E t \in Trabalhos, n \in N : Claim(t, n))
      \/ (\E t \in Trabalhos, d \in Decisoes : Complete(t, d))
  BY DEF NextConversa, varsConversa, IgnoreSuggestion, Suggest, Reencontrar, CompleteSuggest, Send, Perder, VencerPrazo,
         Close, Assign, SetMode, SendMessage, RetryMessage
<1> QED BY <1>5, <1>6, <1>7, <1>8, <1>9

(* The steps of the conversation itself.                                    *)
LEMMA PassoConversa ==
    ASSUME BriefingAssumption, BriefingInv, [NextConversa]_varsConversa, UNCHANGED <<briefing, orcamentos>>
    PROVE  BriefingInv'
<1>1. ConversaInv'
  BY PassoAtende DEF BriefingAssumption, BriefingInv
<1>2. DadosOK'
  BY ChegadasFicam DEF BriefingAssumption, BriefingInv, DadosOK
<1>3. PedidoUnico'
  BY DEF BriefingInv, PedidoUnico
<1> QED BY <1>1, <1>2, <1>3 DEF BriefingInv

LEMMA PassoUpdate ==
    ASSUME BriefingAssumption, BriefingInv, NEW t \in Trabalhos, NEW campos \in SUBSET Campos,
           Update(t, campos)
    PROVE  BriefingInv'
<1> DEFINE k == trabalho[t]
<1>1. ConversaInv' /\ Chegadas' = Chegadas
  BY DEF Update, varsConversa, BriefingInv, ConversaInv, ConversaTypeOK, FichaOK, ModoOK, ChegadaOK, TrabalhoOK, HumanasOK,
         RespondeEmOrdem, Chegadas, Cabe, Primeira, Concluida
<1>2. k.msg \in Chegadas /\ k.msg \in N
  BY DEF Update, Autorizado, Ultima, Chegadas
<1>3. Anotado \in BriefingTipo
  BY DEF Anotado, Vazio, BriefingInv, DadosOK, BriefingTipo
<1>4. \A c \in Campos : Anotado.dados[c] # Nada => Anotado.dados[c] \in Chegadas
  BY DEF Anotado, Vazio, BriefingInv, DadosOK
<1> DEFINE dados == [c \in Campos |-> IF c \in campos THEN k.msg ELSE Anotado.dados[c]]
<1>5. briefing' = [Anotado EXCEPT !.dados = dados]
  BY DEF Update
<1>6. dados \in [Campos -> N \cup {Nada}]
  BY <1>2, <1>3 DEF BriefingTipo
<1>7. \A c \in Campos : dados[c] # Nada => dados[c] \in Chegadas
  BY <1>2, <1>4
<1> HIDE DEF dados
<1>8. briefing' \in BriefingTipo /\ briefing'.dados = dados /\ ~briefing'.submetido
  BY <1>3, <1>5, <1>6 DEF BriefingTipo, Update
<1>9. DadosOK'
  BY <1>1, <1>7, <1>8 DEF DadosOK
<1>10. orcamentos = {}
  BY DEF Update, Anotado, BriefingInv, PedidoUnico
<1>11. PedidoUnico'
  BY <1>8, <1>10 DEF PedidoUnico, Update
<1> QED BY <1>1, <1>9, <1>11 DEF BriefingInv

LEMMA PassoSubmit ==
    ASSUME BriefingAssumption, BriefingInv, NEW t \in Trabalhos, Submit(t)
    PROVE  BriefingInv'
<1> DEFINE k == trabalho[t]
           novo == [numero |-> Cardinality(orcamentos) + 1, dados |-> briefing.dados, msg |-> k.msg]
<1>1. ConversaInv' /\ Chegadas' = Chegadas
  BY DEF Submit, varsConversa, BriefingInv, ConversaInv, ConversaTypeOK, FichaOK, ModoOK, ChegadaOK, TrabalhoOK, HumanasOK,
         RespondeEmOrdem, Chegadas, Cabe, Primeira, Concluida
<1>2. briefing # Nada /\ briefing \in BriefingTipo /\ ~briefing.submetido
  BY DEF Submit, PorEnviar, BriefingInv, DadosOK
<1>3. briefing' \in BriefingTipo /\ briefing'.dados = briefing.dados /\ briefing'.submetido
  BY <1>2 DEF Submit, BriefingTipo
<1>4. orcamentos' = {novo}
  BY <1>2 DEF Submit, BriefingInv, PedidoUnico
<1>5. \A c \in Campos : briefing.dados[c] <= k.msg
  <2> SUFFICES ASSUME NEW c \in Campos PROVE briefing.dados[c] <= k.msg
    OBVIOUS
  <2>1. briefing.dados[c] # Nada
    BY <1>2 DEF Submit, Faltam, Anotado
  <2>2. briefing.dados[c] \in Chegadas
    BY <1>2, <2>1 DEF BriefingInv, DadosOK
  <2> QED BY <2>2 DEF Submit, Autorizado, Ultima
<1>6. DadosOK'
  BY <1>1, <1>2, <1>3 DEF DadosOK, BriefingInv
<1>7. novo.dados = briefing.dados /\ novo.msg = k.msg
  OBVIOUS
<1> HIDE DEF novo
<1>8. PedidoUnico'
  BY <1>2, <1>3, <1>4, <1>5, <1>7 DEF PedidoUnico, BriefingAssumption
<1> QED BY <1>1, <1>6, <1>8 DEF BriefingInv

LEMMA InvarianteBriefing == SpecBriefing => []BriefingInv
<1>1. ASSUME BriefingInv, [NextBriefing]_varsBriefing PROVE BriefingInv'
  <2>1. CASE NextConversa /\ UNCHANGED <<briefing, orcamentos>>
    BY <1>1, <2>1, PassoConversa, BriefingConstantes
  <2>2. CASE UNCHANGED varsBriefing
    BY <1>1, <2>2, PassoConversa, BriefingConstantes DEF varsBriefing
  <2>3. ASSUME NEW t \in Trabalhos, NEW campos \in SUBSET Campos, Update(t, campos) PROVE BriefingInv'
    BY <1>1, <2>3, PassoUpdate, BriefingConstantes
  <2>4. ASSUME NEW t \in Trabalhos, Submit(t) PROVE BriefingInv'
    BY <1>1, <2>4, PassoSubmit, BriefingConstantes
  <2> QED BY <1>1, <2>1, <2>2, <2>3, <2>4 DEF NextBriefing
<1>2. InitBriefing => BriefingInv
  BY IniciaBriefing, BriefingConstantes
<1> QED BY <1>1, <1>2, PTL DEF SpecBriefing

(* However often turns are lost, repeated or overtaken, the conversation    *)
(* makes one budget, of what the client had said when confirming.           *)
THEOREM Pedido == SpecBriefing => []PedidoUnico
<1>1. BriefingInv => PedidoUnico
  BY DEF BriefingInv
<1> QED BY <1>1, InvarianteBriefing, PTL

(* A budget has a number, and says of every field with which message it came. *)
OrcamentosOK == \A o \in orcamentos : o.numero \in Nat /\ o.dados \in [Campos -> N] /\ o.msg \in N

LEMMA PassoOrcamentos ==
    ASSUME BriefingInv, OrcamentosOK, [NextBriefing]_varsBriefing
    PROVE  OrcamentosOK'
<1>1. CASE UNCHANGED orcamentos
  BY <1>1 DEF OrcamentosOK
<1>2. ASSUME NEW t \in Trabalhos, Submit(t) PROVE OrcamentosOK'
  <2> DEFINE k == trabalho[t]
  <2>1. briefing \in BriefingTipo /\ orcamentos = {} /\ k.msg \in N
    BY <1>2 DEF Submit, PorEnviar, Autorizado, Ultima, Chegadas, BriefingInv, DadosOK, PedidoUnico
  <2>2. briefing.dados \in [Campos -> N]
    <3>1. \A c \in Campos : briefing.dados[c] # Nada
      BY <1>2 DEF Submit, PorEnviar, Faltam, Anotado
    <3> QED BY <2>1, <3>1 DEF BriefingTipo
  <2>3. orcamentos' = {[numero |-> Cardinality({}) + 1, dados |-> briefing.dados, msg |-> k.msg]}
    BY <1>2, <2>1 DEF Submit
  <2>4. Cardinality({}) + 1 \in Nat
    BY FS_EmptySet
  <2> HIDE DEF k
  <2> QED BY <2>1, <2>2, <2>3, <2>4 DEF OrcamentosOK
<1>3. CASE \E t \in Trabalhos : \E campos \in SUBSET Campos : Update(t, campos)
  BY <1>1, <1>3 DEF Update
<1> QED BY <1>1, <1>2, <1>3 DEF NextBriefing, varsBriefing

(* Conversation, turns, the draft and the budget made of it keep their type. *)
THEOREM TiposDaConversa == SpecBriefing => []BriefingTypeOK
<1>1. InitBriefing => OrcamentosOK
  BY DEF InitBriefing, OrcamentosOK
<1>2. BriefingInv /\ OrcamentosOK => BriefingTypeOK
  BY DEF BriefingInv, ConversaInv, DadosOK, OrcamentosOK, BriefingTypeOK
<1> QED BY <1>1, <1>2, PassoOrcamentos, InvarianteBriefing, PTL DEF SpecBriefing
=============================================================================
