# Formal verification of the MIRAI HIT studio backend

The repository is a commercial platform of a music studio: proposals, charges, payments through
Mercado Pago, productions, credits, a beat catalog, producers' payouts, client portals and an
assistant.  The backend (`src/backend`, FastAPI and SQLAlchemy on PostgreSQL) holds all of the state;
the frontend is presentation.  Several worker processes serve requests and webhooks at once, each with
its own transaction, and coordinate only through row locks (`SELECT ... FOR UPDATE`) and unique keys.

This directory models the part of it where money is at stake, and says what was model-checked (TLC) and
what was proved (TLAPS).

## 1. Inventory

State is rows of the database; "calls" are function calls inside one transaction unless said otherwise.

| component | state | operations | hard because |
|---|---|---|---|
| charges and payments (`financial_service`) | `cobrancas`, `pagamentos` | sum, balance, what may be paid next, status | derived values that several paths must keep in step |
| Mercado Pago (`mercado_pago_service`, `integrations/mercado_pago`) | order id, status and reconciliation flag of a payment; the order at the provider | create, query, cancel, reconcile | calls time out, answers are old when applied, locks are held over calls |
| webhooks (`mercado_pago_webhook_service`) | `provider_webhook_events` | register, reconcile, finish | repeated, late, reordered; crash between two commits |
| checkout (`checkout_service`) | an attempt per charge | pay by Pix or card, poll, cancel | concurrent clients, ambiguous outcomes |
| financial administration (`financeiro_admin_service`) | a direct Pix | record, annul, reconcile | undoes what already had effects |
| release (`producao_liberacao_service`) | `producoes` | start a production when its minimum is paid | called on every payment change |
| credit wallet (`carteira_creditos_service`) | credit lots | grant when fully financed | must not be granted on doubtful money, nor lost |
| beat licences (`beat_service`) | licence, beat | reserve, lapse, release, sell, revoke, relist | many reservations, first payment wins, late payments |
| proposals (`proposta_service`, `proposta_comercial_service`, `proposta_snapshot_service`, `proposta_documento_service`) | draft, version, frozen snapshot, document, status, validity | draft, revise, print, send, approve, accept, refuse, buy in the catalog, reopen | client and administrator act at once, from screens that may be old; the e-mail leaves before the commit |
| classification of tests (`classificacao_service`) | a flag of the chain of a proposal | set apart, take back | must not race a payment |
| production stages (`producao_etapa_service`) | stages of a production | instantiate, start, review, conclude, reopen, assign, remove | dependencies, reopening, long sequences |
| credit allocation (`credito_alocacao_service`, `credito_producao_service`) | allocations of a lot, their movements | reserve, consume, return, create a production | cents of a unit, refunds under a reservation |
| payouts (`repasse_etapa_service`, `repasse_produtor_service`) | one amount per stage, or one per production | issue and pay; define, release, pay, correct | what is owed may lose its stage or its money |
| policies (`politica_service`) | versions of a default, overrides, a row per production | publish, override, freeze, except | a contract outlives what is published |
| client access (`client_access_service`, `cliente_service`) | one row with one token per client | sign up, invite, recover, activate, revoke, clean up | tokens replaced while mail is under way |
| files, deliveries, quota (`producao_arquivo_service`, `producao_entrega_service`, `cota_arquivo_service`, `arquivos_admin_service`) | rows, objects of the storage | upload, version, deliver, issue a licence again, replace, remove, compress | database and object store fail apart |
| previews (`audio_tag_service`, `previa_lote_service`) | jobs, a batch | tag, regenerate, retry | a worker outlives the rows it reads |
| catalog of beats (`beat_service`) | beat, its files | create, review, edit, mix again, delete | edited while it is being sold |
| portfolio submissions (`portfolio_envio_service`, the images of `routers/projetos.py`) | submission, project, cover | send, edit, withdraw, review; replace or remove a project's image | reviewed from an old screen; the image of a project is the cover a submission named |
| AI conversations (`ai_conversation_service`, `ai_inbox_service`, `ai_email_service`) | lease, version, messages | receive, claim, answer, suggest, take over, hand over, close | workers die with a lease, people step in |
| the request the assistant writes down (`ai_briefing_service`) | a draft per conversation | update, submit | tools of a turn that may be lost and repeated |
| newsletter (`newsletter_service`) | subscribers, campaign, deliveries | subscribe, leave, save, send | one request with a commit per subscriber |
| storage adapters, catalog prices, users, dashboards, AI knowledge, scripts, frontend | | | see section 5 |

How they interact.  Every change of a payment - the answer to its creation, a reconciliation, a
cancellation, a direct Pix, an annulment - ends in the same two calls within its transaction:
`sincronizar_status` recomputes the status of the charge, `avaliar_cobranca_bloqueada` confirms or revokes
the beat licence and releases the production or the credits.  All of them lock payment and charge first.
Only the query to the provider is different: a reconciliation asks *before* it locks; the creation and the
cancellation keep the locks while they ask.

An accepted proposal is where the parts meet: it freezes its snapshot and the policies of its services, makes
the charge, and is the origin of stages, credits or a beat's licence.  A production draws its money from exactly one
of three origins (a proposal, units of credit lots, an amount agreed by hand), and its payouts follow its stages.
Files, conversations, submissions and campaigns hang on rows of their own and meet the rest only through ids.

What makes each part correct is listed with its properties in section 3; everything hard to test is in
`PROJECT.json` under `hazards`, at its line, with the property that covers it or the reason why none does.

## 2. Modules

| module | models | notes |
|---|---|---|
| `Nulo` | the value of a NULL column | extended by the modules of the portals |
| `Somas` | Python's `sum()` over rows | a recursive function, so that proofs can use it |
| `Financeiro` | `financial_service`, the start condition, the options of a policy | pure operators on a table of payments |
| `Provedor` | the life of an order at Mercado Pago (external) and `_provider_state`, `_safe_transition` | |
| `Checkout` | the interacting system: checkout, provider calls, webhooks, reconciliation, cancellation, direct Pix, release, credits, licences | composes the two above |
| `Livro` | abstract specification: a ledger with a running balance | independent of requests, notifications and licences |
| `Centavos` | `distribuir_centavos`, `distribuir_pool`, `reservar_parcela`: how cents are shared | pure operators |
| `Producao` | a production from its creation to its payouts: origin, stages, allocations, both kinds of payout | extends `Centavos` |
| `Propostas` | the proposal from draft to answer, its document, e-mails and screens, its charge and production, its classification | |
| `Acesso` | the one access row of a client, the mail that carries its token, the account | |
| `Arquivos` | the files of a production, the storage, requests between object and commit, licences issued again, the preview worker, the batch, compression | |
| `Atendimento` | one conversation: messages, turns of the assistant under a lease, operators | |
| `Briefing` | the tools `update` and `submit` inside those turns | extends `Atendimento` |
| `Politicas` | default, overrides, what a proposal freezes, the production's contract and exceptions | |
| `CatalogoBeats` | a beat's text and files, and the purchases that meet them | the money side is in `Checkout` |
| `Portfolio` | a producer's submission, its cover, the administrator's screen, the image of the project it becomes | |
| `Newsletter` | subscribers, one campaign, the request that sends it | |
| `MCPagamentos`, `MCCreditos`, `MCBeats`, `MCProducao`, `MCPortal`, `MCExcecao` | the instances TLC checks | `MCPortal` puts eight modules side by side |
| `SomasProofs`, `CheckoutProofs`, `CobrancaProofs` | the proofs about the financial core: sums and folds; types, one attempt, no overpayment and the refinement of the ledger; licences, release, credits and outcomes | each extends the one before |
| `ProducaoProofs` | the proofs about `Centavos` and `Producao` | extends `SomasProofs` |
| `PropostasProofs`, `ContatosProofs` | the proofs about `Propostas`; about `Acesso`, `Newsletter`, `Atendimento` and `Briefing` | |
| `PortalProofs`, `ArquivosProofs` | the proofs about `Politicas`, `CatalogoBeats` and `Portfolio`; about `Arquivos` and the portals together | stated of `MCPortal`'s specification, the second extends the first and the two above |

### The financial core

**State.**  `pag` is the table of payments (charge, kind, amount, status, method, whether the order id is
known, reconciliation flag, whether the 24 h of grace have passed); `cobr` the stored status of each charge;
`lic`, `beat`, `producao`, `lotes` what payments release.  `ord` is the truth at the provider; `env` the request
that creates an order: `aberta` (attempt committed, nothing sent), `voando` (sent), an order status (answered,
not yet stored), `atrasada` (nobody waits for the answer, the provider may still create it), `fim`.
`aviso` is a notification not yet acknowledged; `req` holds reconciliations that already have the provider's
answer and no lock; `trava` says which payment's request keeps the locks of a charge across calls.

**Atomicity.**  A transaction that locks its charge before it reads and keeps the lock to its commit is one
action.  A request that calls the provider is one action per call, because anything may happen in between:
`GetOrCreateAttempt` (commit), `EnviarInicia` (locks), `ProvedorCria`, then `EnviarResposta`, `EnviarRejeitada` or
`EnviarFalha`; `ReconcilePayment` or `ReconcileOrder` (query), then `ReqAplica`, `ReqMarca` or `ReqFalha`;
`CancelarPixPendente`, `CancelOrder`, `ConfirmarCancelamento` or `CancelarFalha`.  A crash of the process is
the `...Falha` action of whatever it was doing; between an applied answer and the end of its webhook event it is
the `perdida` choice of `ReqAplica`.

**Sessions.**  The application's sessions are created with `autoflush=False`, so a query inside a transaction
does not see a change that is only in memory.  `ConfirmPaid` therefore takes two tables: `mem`, the objects of the
session, and `banco`, the rows a query reads.  On the provider's paths `banco` is the state before the step; direct
Pix and annulment flush first.

**The provider** is external.  An order may be paid, fail, expire or be cancelled; a processed one may be
refunded or charged back (`PosPago`); `Tardio` says whether an order reported failed or expired may still be
processed.  Notifications repeat until acknowledged.

**Abstractions.**  The amounts and currency the provider reports are those of the payment; statuses the code
treats alike are one; the deduplication key and the signature of a webhook are left out (a repetition is one
more notification).  A charge starts existing with its proposal accepted, a beat charge with the request of
the licence.  The status `cancelada` of a charge is never assigned by the code and is not in the model.  The
second pipeline (`COMMERCIAL_PIPELINE_V2_ENABLED`) is taken as enabled, which `docs/COMMERCIAL_V2_ROLLOUT_RUNBOOK.md`
puts into production.

### The other modules

In all of them a transaction that locks what it changes is one action, and a request that gives its locks up,
or that does something outside the database, is one action per part.

- **`Producao`.**  `producao`, `proposta`, `financiado`, `aloc`, `etapa`, `repasse`, `legado` are rows; a stage is a pair
  of its origin (the production itself, for a contract, or an allocation of credits) and its position.  Reservation,
  creation from credits, consumption, return, instantiation and the four moves of a stage each lock budget,
  charge, lot, production and stages, hence one action.  `Conciliar` is what payments do to an origin: its financing
  comes and goes.  The one exception is `repasse_produtor_service.define`, which reads the agreed amount without its
  lock: `LerDefinido`, `GravarDefinido`.
- **`Propostas`.**  `prop` is the row, `envio` the copy the request that is sending has in memory while the e-mail is
  under way (`Enviar`, then `ConfirmarEnvio` or `FalharEnvio`; the budget and the proposal stay locked, `Livre`), `emails` what
  reached the client, `tela` the version the client's screen shows.  Contents are members of a set with a total each:
  paid work, free work, credits, a beat.
- **`Acesso`.**  One client, its account and its access with one token; `correio` is the mail whose token is committed and
  that is not yet delivered, `caixa` the tokens the client received, `mortos` those that were used, replaced or revoked.
- **`Arquivos`.**  A request writes the object (`Salvar`), commits the row (`Gravar`) or not (`NaoGravar`), and, when the
  answer to the commit is lost, looks again (`Conferir`) before it compensates; a process may die between
  any two (`Morrer`).  A delivery that is corrected gets its licence issued again (`Reemitir`, `GravarLicenca`,
  `NaoGravarLicenca`): the chain of its versions is `licencas`, and a failed commit removes the new object unseen.  The worker
  takes the first pending job with `SKIP LOCKED`, renders, commits; when it finds none to take it compresses a preview of a
  delivered production, the file and the tag that is ready, in one commit (`ComprimirSalvar`, `ComprimirGravar`).  Jobs may
  still be pending then: asked meanwhile, or locked.  A row's `Referencias` are its object, its tag's and its licences.
  `incertos` are objects that were removed without looking at what was saved, in the three cases of section 6.
- **`Atendimento`, `Briefing`.**  A turn of the assistant claims a message under a lease (`Claim`), thinks with no lock,
  may call `Update` and `Submit`, and completes; `versao` is the optimistic version, `ficha` the claim token, and
  `VencerPrazo` lets the lease lapse.  Operators assign, set the mode, write, use or drop a suggestion, close.
- **`Politicas`.**  `globais` is the list of published defaults, `proprias` the overrides, `contrato.snapshot` what each
  service resolved to when the proposal was sent, `linha` the production's row, and `prometido` the promise
  made to the client, which only the property reads.
- **`CatalogoBeats`.**  The beat, the objects of its files, and the purchases; a purchase is two steps because its
  budget is committed before the reservation.
- **`Portfolio`.**  Cover and row as in `Arquivos`; `vista` and `aberta` are the screens of administrator and producer.
  An approval makes a project with the submission's cover as its image; `publicacoes` is one record for each project
  ever made.  From then on the image is the project's: a new one is stored (`SubirImagem`) and committed (`TrocarImagem`)
  or not, it is removed, or goes with the project, and the object before is removed although the submission still names
  it.  `incertas` are new images removed after a commit that was not answered.
- **`Newsletter`.**  `vez` is the request that sends: which delivery it is at and what the provider said.  The
  campaign is read again after each commit, and a save that read it as a draft writes without a lock.

## 3. What the runs check

| run | instance | properties |
|---|---|---|
| `pagamentos` | one charge of 3 cents in two instalments, two payments, Pix and direct Pix, late approvals, refunds, a client's and a webhook's request in flight | `TypeOK`, `NuncaSobrepago`, `UmaTentativa`, `LiberaQuandoPaga`; every step refines the ledger (`ImplementaLivro`) |
| `creditos` | one purchase of credits, Pix and card, refunds and chargebacks, no revival of dead orders | `NaoCobraDuasVezes`, `DesfechoConfirmado`, `DinheiroVisto`, `CreditosFinanciados` |
| `avisos` | the same purchase under `FairSpec` | `ReconhecePago`, `TentativaMortaSolta` |
| `beats` | two exclusives and a lease of one beat, card and direct Pix | `ExclusivoUnico`, `LicencaSoPaga`, `NadaSobreExclusivo` |
| `producao` | one production, two stages, a lot of two units | `OrigemUnica`, `LoteNaoExcede`, `RepasseNaoExcede`, `DependenciaRespeitada`, `RegistroFiel`, `TrabalhoFinanciado`, `TypeOK` |
| `portal` | eight portals side by side | below |
| `estorno`, `tardio`, `repagamento`, `retomada`, `repasse`, `excecao` | small | the disagreements of section 6, each with its counterexample |

What the properties of `producao` say, against everything one may do in any order: a production has one
origin of what it owes; reservations never take more units, cents or producer cents than the lot has and the
last unit takes exactly the rest; payouts add up to no more than what was paid; no stage is ahead of the one it
waits for, whichever of the two is reopened; a payout keeps its concluded stage and its used units; work begins only on
units already used, and a unit somebody worked on never goes back.

`portal` chooses one of eight portals in its initial state (`parte`); they share no state, so a behaviour is of
one of them and the run is the union of eight.  The files have two scenarios, `arquivos` and `compressao`: see the bounds.
The run has 372,920 distinct states.

| portal | properties |
|---|---|
| proposal | `AceitaOQueRecebeu`: what is accepted reached the client in that form; `ContratoFiel`: seen, frozen, charged and accepted are one; `EstadosCasados`: budget and proposal tell one story; `CobraSoAceita`; `AceiteDefinitivo`: an acceptance never changes |
| access | `LinkGastoMorto`: a used, replaced or revoked link is never good again; `SempreRecuperavel`: no order of links locks a client out; `ClienteDoEstudioFica`: the clean-up never deletes a real client |
| files | `SemReferenciaMorta`: what a row, its tag or a licence names is in the storage, but for what is removed unseen (section 6); `CotaRespeitada` under concurrent uploads; `HistoricoInteiro`: versions form chains without holes or forks |
| conversation | `RespondeEmOrdem`; `RoboCalado`: no reply after a person took over, whatever was being written; `PedidoUnico`: one budget per conversation, of what was said before it was confirmed, however often turns are lost |
| policies | `ValeOEnviado`: the contract is the best the services offered on the day it was sent |
| beat | `PromessaMantida`: who reserved gets the text and files reserved |
| portfolio | `PublicaOQueReviu`: published is what the administrator saw, and no submission becomes a second project; covers still to be published and images of projects exist (`CapaPresente`, part of `SemReferenciaMorta`) |
| newsletter | `RelatorioFiel`: sent, skipped, failed and ended mean what they say about the mailboxes |

`TiposOK` is the conjunction of the modules' type invariants.

Bounds.  Three cents are the smallest total whose half is not whole and that a partial direct Pix can split
in a third way; two payments are an attempt and its successor, which is where a late answer hurts; two
requests in flight are enough for one answer to overtake another.  In `beats`, the constraint `Limite` keeps the
instance within reach: as soon as the provider has a payment there are two payments in all and no lease; with direct Pix only there
are four, enough for a beat to be sold, annulled, relisted, sold again and annulled again.  The two exclusive charges
are interchangeable, hence the symmetry.  `MaxPagamentos` bounds rows, `MaxReq` and `MaxWeb` requests in flight; the
proofs need none of them small.

`producao`: eleven cents over two units and 70/30 leave a remainder in every division; seven cents do for the
contract; the second stage waits for the first; no review round is included, so the administrator must grant one;
two allocations (interchangeable) let one be returned while the other is used.

`portal`: three versions of a proposal (the one seen, the one revised, the one sent again), one change of the
catalog, classification (a flag of its own) once it is charged; two e-mail addresses and two tokens (one used or
replaced, one good); two requests (interchangeable), one file of two versions and one delivery; in `arquivos` three
objects for whoever comes first (`MaxUsados`), enough for a version and a delivery, or for a tag, its regeneration
and an upload, the production is not delivered, so nothing is compressed, and there is an attachment or a batch but
not both; in `compressao` the requests come one by one and have two objects (`MaxEnviados`), the worker five in all
(`MaxObjetos`), enough to tag a preview and compress both objects, with neither attachment nor batch; one operator,
two turns (interchangeable), two messages, two attempts each, three changes of version and two claims; two policy
keys, of which one may not be overridden, two services, both in the contract or none, and one publication; one
lease and one exclusive purchase, two texts of the beat and four files; one
submission made at most twice, two texts, two reviews and two covers or images; two fields of the request, any message may
confirm; two subscribers and two texts.  Each bound is the smallest at which the step its property is about can meet
a rival.  The mutants of `PROJECT.json` show that the cases happen.

Deadlock is not checked in `avisos` (a charge whose creation was lost really stops, see `retomada`) and in
`portal` and `excecao` (a refused proposal, a consumed bound or a campaign that ended are ends).

Fairness (`Justica`).  An HTTP call has a timeout, so whoever waits for the provider ends, with or without an
answer: weak fairness of `EnviarResposta \/ EnviarFalha` and of a cancellation.  Mercado Pago repeats a
notification until it gets a 200, so its query is made again and again, and a webhook that waits for a row lock
that is released again and again gets it: strong fairness of the query and of its two outcomes.  The process
does not crash for ever between query and commit.  Clients, administrators and the provider's orders owe
nothing.  The other modules state no fairness: whatever they promise to do eventually depends on a person or on
a worker nobody restarts (a campaign that stops is never taken up, a failed turn waits for the client's next retry).

`NaoCobraDuasVezes` and `DesfechoConfirmado` need `Tardio = FALSE`: a provider that collects an order it reported
dead can collect twice whatever the backend does.  With `Tardio = TRUE` the backend still never *books* more than the
total, which is `NuncaSobrepago`.

`PROJECT.json` lists for every property a mutant of the code's definition that breaks it.

## 4. What is proved

For every set of charges, proposals' contents, stages, requests, subscribers, messages, fields, every price and
every value of the bounds, from the assumptions on the constants alone.  Each module declares its assumptions as a
named `ASSUME` that TLC evaluates with the values of every run; no theorem has others, but for the three that say
`ASSUME ~Tardio`.

| module | theorems | assumptions on the constants |
|---|---|---|
| `SomasProofs` | lemmas on sums and on folds over finite sets | none |
| `CheckoutProofs` | `Tipos`, `TentativaUnica`, `SemExcesso`; `Refinamento`: `Spec => ImplementaLivro` | totals are positive, policies, purposes, licences and methods are those of the code, partial amounts are positive, bounds are natural numbers (`FinanceiroAssumption`, `ProvedorAssumption`, `CheckoutAssumption`) |
| `CobrancaProofs` | `ExclusivoDeUm`, `SemSobreposicao`, `LicencaPaga`, `LiberaPaga`, `CreditosComLastro`; with `~Tardio`: `DesfechoSeguro`, `SemCobrancaDupla`, `NadaEsquecido` | the same |
| `ProducaoProofs` | `DistribuirExata`, `TiposDaProducao`, `UmaOrigem`, `EtapasEmOrdem`, `RegistroSeguro`, `TrabalhoPago`, `LoteInteiro`, `RepasseCoberto` | a lot has units and a price, weights are natural numbers, the first stage waits for none, allocations are finitely many (`ProducaoAssumption`) |
| `PropostasProofs` | `TiposDaProposta`, `Casados`, `SoCobraAceita`, `Contrato`, `Recebido`, `Definitivo`, `TestePermanece` | totals are natural numbers, credits and beats cost something, `Nada` is none of the contents |
| `ContatosProofs` | `TiposDoAcesso`, `LinksMortos`, `Recuperacao`, `ClientesFicam`; `Relatorio`; `EmOrdem`, `Calado`, `DraftAtual`; `Pedido`, `TiposDaConversa` | bounds are natural numbers, the first text is a text, `Nada` is no row |
| `PortalProofs` | `Prometida`, `Promessa`, `Publicada`, `CapaFica` | bounds are natural numbers, the key of the final files is a key, `Nada` is no row (`PortalAssumption`) |
| `ArquivosProofs` | `CotaFica`, `HistoriaFica`, `NenhumaReferenciaMorta`, `TiposDosPortais` | the same, and the worker is no request |

Every invariant, action property and refinement a passing run checks is stated by one of these theorems; what is left
to TLC is liveness.

**The financial core.**  Changing a single term of a sum changes it by the difference and equal terms give equal
sums; the library's induction schemes take an operator and cannot be instantiated here, so `SomasProofs` proves its own
first-order induction over sets from the well-foundedness of `\subset`.  `TypeOK` of `Checkout` is not inductive: an
answer that arrives for a payment has to meet a row that exists and belongs to a charge.  `IInv == TypeOK /\ Ligado` adds
exactly that: orders, notifications, requests and locks refer to existing payments of the provider, an answered request
refers to an order that exists, and who keeps the locks of a charge is a payment of it.  `PassoLigado` shows that every
action keeps `IInv` and has one of six forms (`Forma`): nothing the ledger sees changes, a charge is issued, an attempt is
opened, a direct Pix is booked, one payment moves along `_safe_transition`, or a direct Pix is annulled.  The safety
theorems then need one argument per form instead of one per action: an attempt is opened only where none is pending and no
form makes a payment pending again; a form that changes approved rows recomputes the status and refuses what passes the
total.  The refinement maps a row to an account (its charge, amount, phase and origin) and the sum over approved rows
to the ledger's running balance.  `IInvLivro` adds `NuncaSobrepago`, because the ledger's status is that of its
balance, and `DiretoDefinitivo`, because a direct Pix that could be pending would be an attempt the ledger sees
and `_tentativa_atual` does not.

**Licences, release and credits** rest on the same forms.  For licences a step is one of two kinds (`FormaLicencas`): a
transaction on one charge, which grants only what `confirm_paid` found unsold and revokes what is no longer paid, or a
step of the catalog, which never grants and lets the beat return only when nobody owns it.  `ExclusivoUnico` and
`LicencaSoPaga` are then inductive next to `IInv`.  `LiberaQuandoPaga` needs the arithmetic: rows of other charges do not enter
a charge's sum, and the sum that decides is the one after the change.  `CreditosFinanciados`, charge by charge
(`Lastreada`), is inductive only next to `NuncaSobrepago`: a lot stays backed by exactly its total because what is paid in full
cannot be paid more.  Half of one cent has no minimum: `dividir_50_50` raises
(`financial_service.py:32-38`), so `CondicaoInicio` requires `TemMinimo`, which the proof brought up.

**Outcomes** (`DesfechoSeguro`, `SemCobrancaDupla`, `NadaEsquecido`).  `IInvCobranca == IInv /\ Vida /\ DiretoDefinitivo /\
Cabe /\ Visto`.  `Vida` relates what is known here to the order at the provider: an answer under way is one the order
had (`Depois`, an order only goes forward), a request still in flight has no order and a pending row, and the status of a row
agrees with its order (`Coerente`).  `Cabe` says that the rows that are approved or may still be collected do not commit
more than the total: a new attempt asks for what is open, and one that is called dead is dead.  `Visto` says that a processed
order is approved here or its notification is still to come.  They assume `~Tardio`, as the run `creditos` does: a
provider that processes an order it reported dead refutes each of them (`tardio`), whatever the backend does.  TLC checked
`IInvCobranca` on two instances (176,592 and 295,161 states) before the proof.

**Cents and productions.**  `DistribuirExata`: the largest-remainder split gives whole cents that add up to what is shared.  The
argument is that the floors leave as many cents as there are spare ones (`Vez` numbers the shares by remainder, no two
alike), with folds over finite sets reduced by induction over subsets.  `IInv` of `Producao` is `TypeOK`, the five
properties and three parts: `Iniciadas`, who began a stage is remembered, without which a reopened stage could lose the
work it stands for; `Vigencia`, an allocation in force takes some units and no more of the producers' pool than of its
value, which keeps the last share from being negative; `Calculado`, what is registered is what the split of its origin
says, so that payouts add up to at most what `DistribuirExata` gives.  TLC checked it on the run's instance (436,968 states)
first.  `Passada` names the row a transition leaves, for the proofs.

**Proposals.**  The five properties are inductive only together with what is in flight: a sent proposal has a
frozen text that was mailed (`TextoOK`); the copy a request is sending agrees with the row but for what sending changes
(`EnvioOK`); a screen never shows a version that does not exist yet, and one of the current version shows the
current text (`TelaOK`), which is why accepting from an old screen fails on the version check.

**Access.**  Tokens are numbered in the order they are made (`Numerados`): the row's token is alive only if it is none of
the dead ones, and a new one is new.  `Ativado` and `Vinculado` say that whoever has an account through a link has an
access tied to it whose cycle is closed, which is what the recovery asks for.

**Conversation.**  A claim that still counts is the youngest one and belongs to a turn that saw the current version
(`FichaOK`, `TrabalhoOK`); a person's presence excludes the autonomous mode (`ModoOK`); messages arrive without gaps
(`ChegadaOK`).  A reply needs the claim that counts, and taking over ends it.  The proof about `Briefing` extends this
invariant with `DadosOK`, what was noted down had arrived: as `Submit` needs the last message to be the confirming
one, nothing in the budget is younger than it.

**Newsletter.**  `VezOK` relates what the provider answered to the mailbox; `SoAVez` says that no other pending
delivery is in a mailbox, so that skipping a subscriber who left is true; `RascunhoOK` that nothing of a draft was sent.

**Policies.**  `Congelada`: what was frozen is complete and is what was promised, and an accepted proposal is frozen.
`Contratada`: a production with a contract has that promise, and a frozen one, which no reopening can take away because
it wants no production.  `Fechada` keeps every default, override and frozen value from releasing unpaid files, so that
only an exception can.

**Beats.**  `ArquivosDoBeat`: a beat that was not deleted has two files of its own with names given out already,
and they are in the storage unless an edit did not know what became of its commit.  `LicencaDoPedido` ties a licence to its
purchase, and a cancelled one lapsed.  `Segura`: while somebody reserves or owns, the beat stays approved or sold and, for
who never lapsed, with the content reserved.

**Portfolio.**  `Numeradas`: rows have numbers given out once; `Telas`: the administrator's screen shows the row or an
older version of it, and the same version is the same row, so that the version check is enough; `Publicados`: a
published submission stays, approved; `CapasNomeadas`, `SubidasOK`: a cover was named once, by an upload and
by the row of that request, so that compensating an upload takes nobody else's.  `ProjetosOK`, `Livres`: an image is of one
project at most, what a request read as the image before was of that project, and neither is the cover of an upload or of a
submission still to be published; so who replaces or removes an image takes that of no other project.  `CapaFica` follows; it
says nothing of the cover a published submission still names, and leaves out `incertas`.

**Files.**  `ArquivosInv == Base /\ Bandeiras /\ Historia /\ Guardados`.  `Base` is the type together with who holds
what: a request about to save holds the production and its row is not there, the worker that compresses holds it too
(`Travados`), and every object named anywhere was written already (`Novos`).  `Historia` adds to quota and chain what the
request under the lock was told (`Prevista`): the quota has room and the version it replaces is still the last one.
That is where the lock is used: `Encolhe` describes every other step (rows go, never one that a row left names, and nobody
else is about to save), and by it both survive until the commit.  `Guardados` is what compensation needs: no two
rows name the same object (`Separados`), the objects of the worker are named by no row but its own, and by that one only while it looks
for what became of its commit (`DoWorker`), and the object of a request that waits is named only by the row it is asking about
(`DosPedidos`); so who removes its own object takes nobody else's.  A step is described by the row that receives objects and the
objects that go: `Passa`, nothing else is named anew; `Retira`, what goes is named no more, or is in `incertos`; `Esperam`, who
waited waits for the same.  `GuardadosSeguem` shows once that such a step keeps `Guardados`, and each action has its `d`, `T` and `R`.
`NenhumaReferenciaMorta` therefore leaves out exactly the objects of `incertos` and `incertas`, which the code may lose.

**The portals together.**  A behaviour of `Portal` is one of `Propostas`, `Acesso`, `Briefing` and `Newsletter`
(`DasPropostas`, `DosAcessos`, `DasConversas`, `DasCampanhas`), so that what is proved of these holds of the run's
specification.  `TiposDosPortais` adds `Publicacoes` (who publishes has room for a version more) to the invariants above.

Only model-checked: liveness (`ReconhecePago`, `TentativaMortaSolta`), which is out of the prover's reach together with
`ENABLED`; the six disagreements, which are counterexamples; and what a recursive definition computes for every input,
which would need induction over data (`Soma` is a recursive function, of which the proofs use its equation and a
first-order induction over its index).  `TesteComHistorico` and `SugestaoAtual` are proved and no run repeats them.

## 5. Not modelled

- HTTP routing, schemas and their validation, permissions, listings, dashboards, audit records: one request reads
  or writes what a module's action already does, or changes nothing.  They are the larger part of the backend's lines.
- Storage adapters (`services/storage`) and the script that moves old files: input and output of services outside.
- Catalog of services, prices, combos, promotions: validated CRUD; what a proposal freezes of it is `Congelado`.
- Projects the administrator makes and edits (`criar_projeto`, but for the image of one made of a submission), their audio
  slots and their order; landing-page comparisons; users and sessions, rate limits, the choice among several clients with one contact.
- The assistant's knowledge, prompts and provider calls, the site's chat and the accounting of tokens: content.
- `credito_producao_service.sincronizar`, uploads of the administrator outside the quota, a change of the quota, moving a
  delivery to another stage (`producao_entrega_service.py:389-392`; the licence it issues again is modelled), `classificar_conta`.
- The deletion of a budget by the administrator (`routers/orcamentos.py:95-118`), which takes its proposal with it
  where no foreign key stops it: in `Propostas` and `Briefing` a budget stays.
- More than one preview worker: `main.py` starts one per process, and one process is modelled.
- Rendering of documents, audio, previews and e-mails; the welcome mail and the portals' notifications.
- Scripts, schema migrations and the frontend, which persists nothing: it shows answers of the backend and repeats its requests.
- The order in which row locks are taken inside one transaction: the modules take them in one step.  `confirm_paid`
  (licence, then beat) and `request_license` (beat, then licences), and the services listed in
  `classificacao_service.py:62`, rely on PostgreSQL to break what comments do not.

## 6. Disagreements found

With a run:

1. `tardio`: a payment that arrives through the provider after the exclusive of its beat was sold is approved and
   not flagged, against the comment in `beat_service.py:1217-1219`: the query of `_flag_payment_conflict` does not see
   the approval that is still only in the session.
2. `repagamento`: a licence revoked by an annulment is neither granted nor flagged when the charge is paid again.
3. `estorno`: an answer read before a chargeback and applied after it erases the conflict the chargeback left.
4. `retomada`: an attempt whose creation was lost can never be sent again, cancelled or reconciled, while the
   documentation asks the caller to reuse it.
5. `repasse`: an agreed amount that was released meanwhile is overwritten without the audited correction that
   `repasse_produtor_service.py:192` asks for, because `define` reads it under the production's lock only.
6. `excecao`: a production made by hand that got an exception before its proposal was accepted never gets the
   contract's policies, against `politica_service.py:12-13`.

Noticed while modelling, and kept in the models as the code has them:

- Two deliveries of one stage saved together each remove the other as an earlier one (`producao_entrega_service.py:411-412`).
- An object is removed without looking at what was saved, so that a row may name one that is gone, in three places of the
  files (`incertos`): by the worker, when the tag is asked again before it looks for its own
  (`audio_tag_service.py:445-454`), and when the commit of a compression goes unanswered (`arquivos_admin_service.py:511-515`);
  by the request that issues a licence again, when its commit goes unanswered (`producao_entrega_service.py:378-384`).  The
  upload of a project's image does the same (`routers/projetos.py:220-226`, `incertas`), and `beat_service` when `refresh`
  fails after a commit that stood (`incerto`).
- Replacing or removing a project's image, or the project, removes the cover that the published submission still names
  (`routers/projetos.py:228-231`, `253-257`, `307-311`): `CapaPresente` does not hold it to one.
- `review` of a beat has no version check; a purchase whose reservation lapsed and is paid late may get an edited
  beat (`caducou`); the budget of a purchase is committed before its reservation and stays if that fails.
- Two publications of policies at once are told apart by a unique key only, and the loser is told to try again.
- An invitation re-issued over a public signup has a purpose that `_access_by_token` does not accept
  (`client_access_service.py:1076-1093`; see `docs/roadmap-3.0/auditoria/S02_IDENTIDADE_ACESSO.md:51`).
- A reply recorded just before an operator takes over is e-mailed just after; a first message that failed and nobody
  retries holds back the later ones.
- A campaign whose process stops stays `sending` for ever; a save that read it as a draft may change its text while it
  is being sent (`newsletter_service.py:163-169`), so two subscribers may get different texts.
- An extra production created for a budget after its proposal was accepted never gets the proposal's contract.
- The landing-page comparison acts on a project read before its advisory lock; `usuario_service.atualizar` reads without a lock.

## 7. Plan

Done: every module of section 2, their runs, and the proofs of section 4.

Left, in this order:

1. The composition of `Propostas` with `Checkout`: the charge an acceptance makes is the one that is paid, and the
   production it releases the one `Producao` runs.  Today the three meet in `Conciliar`, `AceitarCliente` and the constants.
2. Two deliveries of one stage saved together (`producao_entrega_service.py:411-412`) as a run of its own.
3. Landing-page comparisons, moving a delivery to another stage and the migration of stored files.
4. The order of row locks inside a transaction, as a model of its own over the lock sequences of the services.
