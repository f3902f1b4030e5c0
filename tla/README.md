# Formal models of groceryclaw v2

groceryclaw takes supplier invoices that shop owners send by Telegram, reads
their lines, matches the lines to products, asks the owner where it is unsure,
and makes a purchase order in KiotViet. It also lets an assistant (MCP, Alexa)
reorder goods by voice. This directory holds TLA+ models of the parts that run
concurrently and keep state, TLC instances that check them, and TLAPS proofs
that hold for every value of the constants.

## 1. The system

| Part | State it keeps | Operations | What is hard |
|---|---|---|---|
| Gateway (`apps/gateway`) | `platform_users`, `tenant_users`, `invite_codes`, `inbound_events`; a replay cache per process | webhook or polling, onboarding, replay cache, event dedupe, enqueue | several replicas; updates redelivered; cache set before the work is done; a stored event whose job was never enqueued |
| Job queue (`packages/common/src/bullmq-lite.ts`) | a Redis list and a sorted set of stored jobs | add, promote delayed jobs, pop, retry, fail | no command is atomic with the next; workers sweep the same delayed jobs; a popped job lives in one process's memory |
| Parsing jobs (`process-image-invoice.ts`, `process-excel-invoice.ts`) | `canonical_invoices` and their items | download, read, store under a fingerprint, notify, enqueue `MAP_RESOLVE` | commit before enqueue; a fingerprint that depends on OCR or on the clock |
| Invoice pipeline (`mapping-resolve.ts`, `process-confirm-mapping.ts`, `kiotviet-sync.ts`) | `mapping_dictionary`, `resolved_invoice_items`, `pending_confirmations`, `idempotency_keys`, `sync_results`; purchase orders at KiotViet | map, ask, answer, skip, reject, sync | READ COMMITTED transactions that count each other's rows; jobs enqueued before the commit; calls outside that may have happened |
| Mini app (`apps/miniapp`) | the same tables | item actions, submit, search, prices | check and update apart from each other; concurrent with the chat |
| Notifier (`notifier.ts`, `telegram-adapter.ts`) | `pending_notifications`, dead letters in `jobs` | send, defer, flush, expire questions, replay a dead letter | a flush inside a transaction that the notification it sends begins and ends too; retries after a send whose answer was lost |
| MCP server: OAuth (`apps/mcp-server/src/oauth`) | `web_accounts`, `oauth_clients`, codes and families of tokens | sign up and in, register, consent, exchange, refresh, revoke, link a shop, delete, clean up | a rotation against a revocation; a consent under way while the shop is linked; guesses counted after they are looked up |
| MCP server: sessions and tools (`http.ts`, `tools.ts`, `stores/`) | the sessions map, a token cache; drafts, rules, sample shops | initialize, call a tool, close; draft, confirm, remember, forget, refill | a token revoked between two awaits; a limit looked at before what it limits is there; expiry against confirmation |
| Reorder planning (`tools.ts`) | none: stock and rules in, orders out | suggest, draft | rounding, packs, rules that contradict each other |
| Alexa simulator (`apps/alexa-simulator`) | conversations with history and a pending draft; what the model may cost | one turn, of several rounds with a model and the tools | overlapping turns of one conversation; a call made again after its answer was lost; a model that proposes anything |
| Admin API (`apps/admin`) | tenants, invites, `secret_versions`, permissions, audit rows, cached keys | create, patch, invite, set and revoke credentials, permit | each statement is a transaction of its own; keys that change; faults between two statements |
| Product sync (`process-product-sync.ts`) | `product_cache`, a token cache | read page after page, write | the list changes while it is read at a growing offset |
| XML invoices (`process-inbound.ts`) | `canonical_invoices` and items, `jobs` | fetch, parse, store, complete | the same job twice, the same invoice twice; an invoice and its lines are several statements |
| Polling and chatbot (`telegram-poller.ts`, gateway polling, `CHATBOT_REPLY`) | an offset in memory; `inbound_events` | fetch a batch, handle, answer | the offset moves before the update is handled; an answer whose confirmation is lost |

How they interact. The gateway and the mini app enqueue jobs; worker processes
(two replicas in `infra/k8s/base`, six in production) pop one job at a time,
because the loop calls `redis-cli` synchronously and awaits the processor.
Jobs enqueue jobs: `PROCESS_IMAGE_INVOICE`/`PROCESS_EXCEL_INVOICE` →
`MAP_RESOLVE` → (`CONFIRM_MAPPING` per answer) → `KIOTVIET_SYNC`. All of them
meet in one PostgreSQL database, at READ COMMITTED, each job in one
transaction of `runTenantScopedTransaction`. Answers to a `COMMIT` can be lost
(`query_timeout` in `pg.ts`), in which case the job counts as failed.

The MCP server is reached by apps with OAuth tokens and by the voice simulator
with an operator's token; it has its own tables in the same database, and reads
the shop's. The notifier, the product sync, the XML job and the admin API meet the
invoice pipeline only in rows that the pipeline takes as given (credentials,
products, switches).

The properties that make it correct are listed with the modules; the places
where the code is exposed are the `hazards` of `PROJECT.json`, each at its line.

## 2. The modules

| Module | Models | Runs |
|---|---|---|
| `InvoicePipeline` | mapping, answers, mini app, expiry of questions, sync | `pipeline_*` |
| `JobQueue` | the queue, one Redis command per step | `queue_delivery` |
| `JobDelivery` | what the queue promises: at-least-once, n faults lose at most n jobs | refined by `JobQueue` |
| `TelegramUpdates` | the updates and file jobs that the gateway and the workers share | |
| `Gateway` | onboarding, replay cache, event dedupe, enqueue | through `InvoiceIntake` |
| `InvoiceParsing` | the two parsing jobs | through `InvoiceIntake` |
| `InvoiceIntake` | the composition: `Gateway` extended, `InvoiceParsing` instantiated over the same `inbox` | `intake`, `intake_retried_sheet` |
| `OAuthGrants` | accounts, apps, codes, families of tokens | through `AssistantService` |
| `ToolCalls` | the tool calls that sessions and tools share | |
| `McpSessions` | bearer tokens, sessions, requests; extends `OAuthGrants` | through `AssistantService` |
| `VoiceReorder` | the tools that write: drafts and rules | through `AssistantService` |
| `AssistantService` | the composition: `McpSessions` extended, `VoiceReorder` instantiated over the same calls | `assistant` |
| `Notifier`, `ProductSync`, `XmlInvoices`, `AdminApi`, `ReorderPlanning`, `VoiceSimulator`, `TelegramChats` | one service each | through `BackOffice` |
| `BackOffice` | instantiates the seven; `part` says which of them a behaviour runs | `back_office` |
| `InvoicePipelineProofs`, `JobQueueProofs`, `InvoiceIntakeProofs`, `GrantProofs`, `AssistantProofs`, `BoundProofs`, `BackOfficeProofs`, `WorkerProofs` | theorems | |
| `MC*` | instances for TLC | |

An operator whose comment begins with "Mutant of" is not part of the model: it
is the wrong version of a definition, kept to show that a property notices it.

### InvoicePipeline

One invoice of one tenant. `item` is `resolved_invoice_items.status` by line,
`row` is `pending_confirmations.status` by line and by the mapping run that
asked, `hinted` the rows with a suggestion, `late` those past `expires_at`,
`dict` the dictionary entry of each line, `key` the idempotency key, `results`
the statuses in `sync_results`, `orders` the purchase orders KiotViet has made,
`queue` the waiting jobs, and `ctx` what each process remembers between two
steps.

A transaction is split where another process can get in between:

| Code | Steps |
|---|---|
| `processMapResolve` | `TakeMap` (tier 1 reads) → `WriteMap` (upserts, locks, sync enqueued) → `CommitMap` |
| `processConfirmMapping` | `TakeConfirm` (lookup of the question) → `Decide` (updates, count, sync enqueued) → `CommitDecision` |
| `processItemAction` and its route | `Tap` → `Decide` → `CommitDecision` → `EnqueueFromTap` |
| submit route | `Submit` |
| `processKiotvietSync` | `TakeSync` → `PostOrder` (one attempt) → `CommitSync` or `GiveUp` |
| expiry in `processFlushPendingNotificationsJob` | `FlushExpired` |

`Seen` is the READ COMMITTED view of a deciding transaction (committed rows and
its own update); `Holds` and `Free` are row locks. `Close` is a COMMIT whose
answer may be lost, `RollBack` a failed transaction, `Crash` the end of a
process, `DeliverTwice` the duplicate that two sweeping workers can make of a
retried job (`JobQueue!RemoveDue`).

Abstractions. The row locks of a mapping run are taken in one step and held
from `WriteMap`; a deadlock abort is one of its rollbacks. The retry delay is
left to `JobQueue`. `FlushExpired` is one step:
`db-session.ts` sends its statements to the pool, but the worker awaits each and
the pool hands out the client released last, so the two updates normally share
one connection, one transaction and one `now()`. When another query of the
process takes that client in between, they do not: the order in which the pool
hands out clients is not modelled (it is a hazard without a property). Only tests
enqueue `FLUSH_PENDING_NOTIFICATIONS`; it can happen at any time in the model.
The shop has sync enabled and credentials. Messages to the owner, audit logs
and prices are left out.

### JobQueue

`wait` is the list, `delayed` the sorted set, `ripe` its due members, `hand`
what each worker process has read from Redis and not yet written back. Each of
`ZRANGEBYSCORE`, `ZREM`, `RPUSH`, `BRPOP` and `ZADD` is a step of its own. A
stored job is its JSON, so equal copies coincide in the set and not in the
list. `CommandFails` is a `redis-cli` that returned an error, with or without
having had its effect.

`Status` maps this state to `JobDelivery`; TLC checks the refinement with the
liveness of the abstract specification (`Delivered`).

### Gateway, InvoiceParsing, InvoiceIntake

`Gateway` splits a request at its awaits: `Resolve`, then for an unlinked user
`CheckUser`, `ClaimCode`, `Join` (the statements of `consume_invite_code`, with
the row lock of the user that the upsert takes and the lock of the code that
`FOR UPDATE SKIP LOCKED` takes), for a linked one `Insert`, `Touch`, `Enqueue`.
`cache` is per process, `events` is shared. `Forget` is the time to live of a
replay key. `Fail` and `Restart` are the faults. Limits and lockouts refuse a
code, which the model does at any time. Polling delivers an update once
whatever became of it, which is a subset of what the webhook allows.

`InvoiceParsing` has one step per read, commit or enqueue of the two
processors. `reading` is what the fingerprint depends on besides the file: the
reading of a vision model, or the clock in the number of an Excel invoice.
`invoices` remembers which update each fingerprint was stored for, `mapped` how
often `MAP_RESOLVE` was enqueued for it.

### OAuthGrants, McpSessions, VoiceReorder, AssistantService

`OAuthGrants`. A family is a code and the tokens it becomes: `code[f]` is the row
of the code (account, app, scopes, the shop at the time of consent, used or not),
`token[f]` the pairs of access and refresh token in the order they were made, each
with what became of it and how old it is. `doing` is what each request has read
and not yet written.

| Code | Steps |
|---|---|
| `login` in `server.ts` (`findCredentials`, scrypt, `recordLogin`) | `LogIn` → `CheckedLogIn` |
| consent page and `createCode` | `Allow` → `CreateCode` |
| token endpoint, `consumeCode` and `issueTokens` | `Exchange` → `Issue` |
| `rotateRefreshToken` | `Refresh` → `Rotated` |
| `revokeToken`, `revokeGrant` | `RevokeToken` or `RevokeGrant` → `Revoke` |
| `linkInvite` | `Link` → `Linked` |
| sign-up, registration, logout, deletion, cleanup | `SignUp`, `Register`, `LogOut`, `DeleteAccount`, `CleanUp` |

An UPDATE that revokes works on a snapshot while a rotation or an exchange inserts;
such transactions are split into the snapshot and the commit, and wait for the row
locks of rotations they have seen (`Locked`). PKCE, redirect addresses and client
authentication are abstracted to whether the proof is right, scopes to the two
that matter.

`McpSessions`. A request resolves its token (`EnterWithGrant`, `EnterWithToken`),
may fill a sample shop afresh (`Freshen`), then opens a session (`Initialize` →
`Opened`) or uses one (`UseSession`) and runs a tool (`CallTool` → `Return`).
`cached` is `tokenCache`, `session` the sessions map, `Sweep` the timer that drops
idle ones, `Restart` the process.

`VoiceReorder`. A tool is one transaction: `CreateDraft`; `BeginConfirm` (its `now()`
is the start) → `LockDrafts` (`FOR UPDATE`) → `ConfirmDrafts`; `BeginRemember` (the
count) → `Remember` (the insert); `Forget`. `Refill` and `CloseShop` are the
deletions of `Freshen` and `DeleteAccount`. Tools that only read are one step
that changes nothing.

`AssistantService` joins the three where they meet: a token that is revoked while
its request runs, and a shop refilled, linked or deleted under a running tool.

### BackOffice

Seven services that share no state the models would show; each behaviour runs one
(`part`), with the others at rest. What is common to them is how they are split:
one step for each statement or call to somebody outside, because each is awaited.

`Notifier`. `rows` are the `pending_notifications` in their order, `job` what each
worker does, `sends` and `lost` history. A notification goes through `WindowCheck`,
`Allowed` or `Denied`, and `Sent`, `SentUnheard`, `NotTaken` or `Refused`; a deferral
through `ScanCoalesced`, `DeleteCoalesced`, `ScanSurplus`, `CommitDeferral`; a flush
through `BeginFlush` and the same send as a notification, whose COMMIT or ROLLBACK
ends the flush's transaction as well. Dead letters are recorded (`RecordLetter`) and
replayed by `scripts/v2/dlq_replay.mjs` (`MarkQueued`, `Requeue`).

`ProductSync`. `listed` is KiotViet's list, `run` the sync of each worker with its
offset, page and uncommitted rows. The shop adds, reprices and removes products
and changes its credentials at any time. `base` and `removed` are history.

`XmlInvoices`. One step per transaction, fetch or enqueue of the job. `Fetched` and
`SafeUrl` are the checks of the safe fetcher, `Parses`, `Fingerprint` and `LinesOf`
what the parser makes of a document. A transaction that has inserted a fingerprint
makes others of the same fingerprint wait, as the unique key does (`KeyFree`).

`AdminApi`. One step per statement of each route: `Receive`, `Authorize` (with
`fetchJwks`), the routes, `Audit`. `ReadVersion`, `RotateActive` and `InsertSecret`
are the three statements that replace a shop's credentials.

`ReorderPlanning`. `suggest_reorder` and `create_reorder_draft` from stock and rules
to orders by supplier: lines, rules, grouping. Daily sales are counted in tenths.
Lines are kept by what they stand for, a place in the wish or a product, and in
which order a draft lists them is left out; the order of the rules is kept, because
the oldest preference decides. The properties compare the result with a formula
stated apart from the code.

`VoiceSimulator`. `turn` is what a turn has in hand, `talk` a conversation's history
and pending draft, `drafts` those at the shop. `Begin`, `ListTools`, `Converse` or
`ConverseByRules` or `FallBack`, then `Block` or `CallTool` (`CallAgain` after a lost
answer) and `Returned` for each call, until the turn is spoken. What the model
proposes is any member of a set.

`TelegramChats`. `offset` and `batch` are the poller's memory, `kept` what Telegram
still has, `handling` the update at work; `StoreEvent` and `EnqueueReply` the gateway in
polling mode, `BeginReply` to `Notify` the job `CHATBOT_REPLY`.

## 3. What the runs show

| Run | Instance | Question | Answer |
|---|---|---|---|
| `pipeline_one_worker` | 1 worker, 3 lines (one known by SKU), 4 answers, no fault | Does the pipeline carry an invoice to the right order, whatever the owner answers? | Yes: `SettledMeansSynced`, `OrderMatchesInvoice`, `NoOrderWhileAsking`, `ProcessedOnce` |
| `pipeline_faults` | 1 worker, 2 lines, 2 runs, 1 answer, one fault, one crash, one expiry, fair | What do failures cost? | One extra order per fault or crash at most; the key tells the truth; the owner's words stay; a sync is answered |
| `pipeline_two_workers` | 2 workers, mini app, 1 line, 2 runs, a duplicate delivery, a fault, an expiry | Can an interleaving strand a line? | No: `PendingHasQuestion` |
| `pipeline_write_skew` | 2 workers, 2 lines, 2 answers | Is the sync always triggered? | No (finding 1) |
| `pipeline_lost_answer` | 1 worker, 1 line, one fault | At most one order? | No (finding 2) |
| `pipeline_tap_sync` | 1 worker, mini app, 1 line, fair | Is a sync announced by the mini app answered? | No (finding 3) |
| `pipeline_wrong_line` | 1 worker, 2 lines, 1 answer, one fault | Does an answer stay with its question? | No (finding 4) |
| `queue_delivery` | 2 workers, 4 jobs (one without retries, one without delay), one fault, fair | At-least-once delivery? | Yes, and a fault loses at most one job |
| `intake` | 2 replicas, 2 workers, 3 users, 2 shops, 8 updates in 4 scenarios, 2 faults | From Telegram to an invoice to be mapped | Holds: joins, dedupe, storing and mapping |
| `intake_retried_sheet` | as `intake`, one sheet, one fault | One invoice per file? | No (finding 5) |
| `assistant` | 1 account, 1 shop, 2 apps, 2 operator tokens, 2 requests to each side, 1 session allowed, in 7 scenarios | Who may do what, and for how long? | All eight hold: guesses, refresh tokens, revocation, consent, tools, sessions, drafts, rules |
| `back_office` | 7 services: 5 scenarios of the notifier, 3 product lists, 4 sets of XML files, 8 situations of the admin API, about 1,700 plans, 4 conversations, 7 inboxes | What do the services promise, whatever is interrupted, repeated or reordered? | All nine hold |

The bounds. Three lines are needed for a known, an answered and a skipped one
at once; two for every race of two answers; two mapping runs for questions of
different runs about one line. Two workers and one mini app request are enough
for the races of two actors and the flush. One fault shows each single failure
at each step; the bounds that count failures (`DuplicatesCostFaults`, proved for
any number) do not depend on it. Four jobs give each kind of retry and two of
one kind. The scenarios of the intake (`Arrivals`) put together the updates that
meet: two codes for one user and two users for one code, a join with photos that
follow it, an update delivered twice, two sheets. `Scenarios` includes messages
of two chats with the same number. Every action fires in some passing run, and
for every property there is a small change of the model, of the kind a bug in
the code would be, that TLC finds to break it.

The scenarios of `assistant` (`ABounds`): two requests to the authorization server
at a time with expiry, for a rotation against a revocation or a link; from
sign-up to tokens with an app named by a URL and a request that dies; nine guesses
over a lock period by two requests; tool calls while the grant is revoked, linked or
deleted; a call across midnight or an idle session; two operator tokens, then the
same with a restart. One session is allowed and three have room, so that exceeding
the limit is possible; one rule is allowed and there are three.

The inputs of `back_office`: the notifier meets coalescing over its limit, rows that
expire under a flush, lost answers, two flushes at once, and the interaction window.
The product lists have three products, one without a code, and pages of two. The XML
files are an invoice sent twice with different units, an event without a file, a
number that cannot be read, a URL that is refused. The admin situations have up to
three operators setting the same credentials while another revokes them, a
provider that changes its key, two shops, and each switch turned off. The plans go
through 72 kinds of stock and each pair of rules. The conversations are a plan
taken up with two yeses, a no, an order that sounds like a yes, and a question that
sounds like one, the last two with a model that proposes to confirm at once. One
conversation is kept, so that a second one evicts it. One or two faults show each
single failure at each step; the bounds that count them (`AnswersCostFaults`,
`ToldOnce`, `SyncCovers`) do not depend on how many there are.

Fairness. `InvoicePipeline!Fairness`: a worker's loop polls for ever and goes on
with what it has begun, and a request handler runs to its end, both weakly fair.
Nothing obliges the owner to answer, a fault to happen or time to pass.
`JobQueue!Fairness` adds that the delay of a retried job ends. `BRPOP` takes the
newest job, so an endless stream of new jobs could starve an old one; the model
adds each job once, and promises nothing about such a stream.
`AssistantSpec` and `BackOfficeSpec` state no fairness: their properties are safety
only. Nothing in those services waits for another step to happen, and what the
code promises in time (a timer's sweep, a retry) is the queue's promise, checked
there.
Deadlock is not checked where the bounds stop the system (`CHECK_DEADLOCK FALSE`);
`queue_delivery` checks it, because workers poll for ever.

## 4. Findings

| | Where | What |
|---|---|---|
| 1 | `process-confirm-mapping.ts:325` | Two answers decided at once each count the other's line as pending; nobody syncs. |
| 2 | `kiotviet-sync.ts:243` | A timed-out `POST /purchaseorders` is repeated without an idempotency key. |
| 3 | `apps/miniapp/src/server.ts:285` | The mini app's sync job is dropped as an invalid envelope. |
| 4 | `process-confirm-mapping.ts:116` | A retried reply to a closed question decides the only other open one. |
| 5 | `excel-invoice.ts:229` | The clock in an Excel invoice's number defeats its fingerprint. |

Met while modelling, and part of what the models allow, without a run of their
own:

- the sync is enqueued before the deciding transaction commits
  (`process-confirm-mapping.ts:333`): a fast second worker can sync the old lines
  or find none;
- the mini app checks a line's status and updates it later
  (`routes/confirm.ts:76`), so a tap and an answer can both decide it;
- when the enqueue fails after the event row was stored, or in the time the
  replay key lives, the redelivered update is answered 200 and lost
  (`gateway/src/server.ts:302`, `:325`): `AcceptedIsIssued` and
  `AcceptedBecomesInvoice` are stated for executions without a fault;
- the dedupe key has the shop and the message number, not the chat, and numbers
  are unique per chat only: `AcceptedBecomesInvoice` says one of the bearers of a
  number is served, not each;
- a photo whose invoice was committed but whose `MAP_RESOLVE` was not enqueued is
  never mapped, because the retry takes it for a duplicate
  (`process-image-invoice.ts:251`); `UnmappedCostFaults` counts this against faults;
- when the answer to the commit of `consume_invite_code` is lost, the user is told
  that the code is invalid although he is linked;
- when the last open question of an invoice expires, nothing looks again whether
  the resolved lines can be synced (`notifier.ts:405`).

Grants and tools:

- a rotation overlapping a revocation inserts a pair that the revocation's snapshot
  misses, and a code used again between `consumeCode` and `issueTokens` revokes
  nothing, after which tokens are issued (`docs/ops/SECRETS.md:61` says that reuse
  revokes the family): `RevokedStaysDead` is about families for which nothing was
  being issued;
- a consent that is still becoming a code or tokens survives `linkInvite`:
  `ConsentHolds` excepts exactly these;
- when the answer to a refresh is lost, the client's retry is a reuse and revokes the
  family; rotated tokens that were cleaned up are not recognized as reuse any more;
- limits are looked at before what they limit is stored: failed guesses, sessions
  and rules exceed theirs by one for each other request on its way, as the proved
  bounds say;
- a confirmation that began in time and waited for the row lock succeeds after another
  was told that the draft had expired; the memory store answers two concurrent
  confirmations with a success each;
- refilling a sample shop drops its confirmed orders too; a withdrawn operator token
  is accepted as long as `tokenCache` remembers it.

Notifier and jobs around the pipeline:

- the interaction window is looked up with several statements in one query, whose
  result is a list without `rows`: with `WORKER_INTERACTION_WINDOW_ENFORCED` at its
  default every notification to a known user fails;
- the COMMIT of a notification sent by a flush ends the flush's transaction: the
  update to "flushed" then matches no row, and the row is sent again by every later
  flush. `ToldOnce` therefore counts what a notification's own job sent;
- a replayed dead letter lacks the fields of a job and is dropped, though its row says
  "queued" (`docs/ops/RETRY_POLICY.md:21`: "Replay should be safe");
- `PROCESS_INBOUND_EVENT` and the sync of products enqueue jobs that lack a field the
  envelope's validation requires, which drops them;
- cached KiotViet tokens are used after the credentials were replaced; products taken
  out of the shop stay active in `product_cache`; a product taken out while a sync
  reads moves another across the offset, which `SyncCovers` counts;
- two operators who set credentials at once: the second insert fails on the unique
  version, possibly after it rotated the first one's, which leaves no active version;
  `OneActiveSecret` says there are never two.

Conversations and chats:

- a draft made in a turn that then fails, or in an overlapping turn, is pending though
  nobody heard of it, and the next "yes" confirms it; a call made again after a lost
  answer makes a second draft. `OneYesOneOrder` holds nevertheless: the draft was
  there before the turn of the "yes", and it is only one;
- in a plan, a product that needs reordering with a suggested quantity of zero is
  dropped, a cap applies to each line (two names of one product exceed it), and a cap
  need not be whole packs;
- the poller's offset is lost with the process, so that the last batch is answered
  again; the gateway's polling is saved from this by its event rows.

## 5. What is proved

Every theorem is about the specification of its module's system (`Spec`, `IntakeSpec`,
`AssistantSpec`, `BackOfficeSpec`), for all constants that satisfy the assumptions
named in the modules (`ConstantsAssumption`, `QueueAssumption`, `NoCopyAssumption`,
`UpdatesAssumption`, `GatewayAssumption`, `IntakeAssumption`, `GrantAssumption`,
`SessionAssumption`, `RulesAssumption`; `InvoiceParsing` needs none of its own). Those of
`BackOffice` say what it is given: `InboxAssumption` how polling is set up,
`WorkersAssumption` that finitely many workers put notifications off up to a limit,
`ListsAssumption` that KiotViet lists no code twice (its codes are unique; an entry
without one may be repeated), `RequestsAssumption` that stock, wish and rules have the
types of `store.ts`. TLC evaluates all of them. The bounds are constants too, so the
theorems hold for any value of them.

`InvoicePipelineProofs`

- `TypeCorrect`: `TypeOK`. The invariant adds `ContextOK`, what a context
  carries in each phase: a mapping run's number and plan, a decision's line and
  verdict.
- `NoLineStranded`: `PendingHasQuestion`. Inductive together with the types: only
  three commits change lines or rows (lemma `WhoWritesLines`), and each that leaves a
  line pending leaves it a question.
- `KeyFollowsOrder`: `KeyMeansOrder`, strengthened by `RecordedOrder`: a sync about
  to record a success has an order.
- `LoneWorkerOrders`: `DuplicatesCostFaults` for a single worker (`LoneWorker`).
  The invariant has the order that is paid for by nothing: it is there when the
  key is, or when the worker is about to write it (`Covered`), and the
  worker is never at its POST while the key is there (`PostedWithoutKey`). With two
  workers the statement is false: both can read no key.
- `LoneWorkerSyncs`, `LoneWorkerOrdersAll`, `NoEarlyOrder`, `LinesProcessedOnce`:
  `SettledMeansSynced`, `OrderMatchesInvoice`, `NoOrderWhileAsking` and `ProcessedOnce`
  for one worker process, as long as nothing failed and the mini app did nothing
  (`Calm`). The first two say so of each state, `[](Calm => ...)`; the third and fourth,
  which are about steps, take the bounds of the run that checks them
  (`MaxFaults = MaxCrashes = MaxTaps = 0`); the first also needs that no question has
  expired, since nothing looks at an invoice after its last question did. They share
  `CalmInv`: there is one mapping job before anything is stored and none after
  (`MapFirst`); an open question is the only one of a line that waits (`OneQuestion`); who
  decides holds an open question, before any order, and enqueues the sync when it was
  the last (`DecidesOpen`); a sync is on its way only when no line is pending, and
  nothing changes lines behind it (`SyncLast`); and what is settled without an expiry
  has its sync ahead of it or behind it (`SyncOwed`). With two workers these are false:
  finding 1 shows it for the first.
- `TaughtStays`: `OwnerTeaches` for one worker without the mini app, whatever fails or is
  retried. `Untaught`: what a run has planned to write over is not the owner's, since a
  run reads the dictionary and writes it with no other write in between.

`JobQueueProofs`

- `TypeCorrect`: `TypeOK`, with what a hand holds by phase (`HandOK`).
- `AttemptsHold`: `AttemptsRespected`: no copy, stored or in hand, has reached its
  bound, since every new copy is an old one or a retried one (`NewCopies`).
- `NothingIsLost`: `NothingLost`: without faults each step keeps a copy of every
  unanswered job (`KeptCopies`).
- `DeliversSafely`: `Spec => Delivery!Safety`, the refinement of `JobDelivery` without its
  liveness. The initial state maps to the initial state, and each step to an addition,
  an answer, a fault or a stutter; for the steps that lose copies the proof counts
  what is lost against the faults.

`InvoiceIntakeProofs`: one invariant, `IntakeInv`, in six parts.

- `TypeCorrect`: `IntakeTypeOK`, from `GatewayTypes` and `ParsingTypes`, which add
  what a request and a worker hold by phase.
- `LinkedOnce`: `OneTenantOneUse`, from `JoinInv`: two requests never both hold the
  lock of one user or of one code (`Locks`), and a request that has passed a check
  still finds it true.
- `EnqueuedOnce`: `OneJobPerMessage`, from `EventInv`: the request that inserted an
  event is the only one that will enqueue for it, and nothing was enqueued yet.
- `NothingSwallowed`: `AcceptedIsIssued`, from `ServedInv`: without a fault, a key in
  a cache or in the events is enqueued or in the hands of a request.
- `MappedOnce`: `PhotoMappedOnce`, and `MappedAfterCommit`: `MappedIsStored`, from
  `MapInv`: at most one worker owes a fingerprint its mapping (`Owes`), and only
  when it is stored and not mapped.
- `StoredOnce`: `InvoicesCostFaults`, `UnmappedPaidFor`: `UnmappedCostFaults`, and
  `AcceptedArrives`: `AcceptedBecomesInvoice`, from a second invariant, `FileInv`. A file
  job is live in one place, in the queue or in one worker's hands (`OneLive`); what was
  stored for an update, and one more while its live job may still store it, is at most
  one more than the faults (`PaidFor`); an invoice that nobody owes its mapping was
  forgotten by a fault of its own (`FewForgotten`); and without a fault whatever was
  issued is under way or has arrived (`NoneDropped`).

`GrantProofs`: one invariant, `GrantInv`, what is true of a family (`FamiliesOK`) and of
the requests at work on it (`HandlersOK`).

- `OneRefresh`: `OneRefreshToken`. Only a code that is used up has tokens; its first
  pair is made by one request alone, and a rotation holds the pair that refreshes,
  alone (`Alone`), because `rotateRefreshToken` locks its row.
- `RevokedDead`: `RevokedStaysDead`. A revocation that met nothing on its way leaves no
  live token and nobody who will issue one; what a revocation has seen is used up, so
  that nothing can begin for it between its snapshot and its commit.

- `ConsentKept`: `ConsentHolds`. A family is for the shop its account has (`Settled`), or
  over for good (`Over`), or its account was linked with a consent under way.

`AssistantProofs`

- `CallsHome`: `CallsStayHome`. Sessions work for the shop of the key that opened them,
  requests for that of the token they came with, and tools run only for a request that
  waits for them (`HomeInv`).
- `ConfirmedOnce`: `ConfirmedOnceTogether`. The drafts of a group share one state, and a
  confirmation that holds their row locks holds drafts of its shop, alone
  (`DraftInv`).

`BoundProofs`: limits that are looked at before they are used up. Each invariant adds
what is on its way to what is there, and bounds the sum.

- `GuessesCapped`: `GuessesBounded`, `SessionsCapped`: `SessionsBounded`, `RulesCapped`:
  `RulesBounded`.

`BackOfficeProofs`

- `XmlWhole`: `XmlStoredWhole`, from `XmlInv`: who inserts a fingerprint does so alone and
  knows whether it is there; documents with one fingerprint have the same line
  numbers, so that the lines of one are complete whichever of them wrote the row.
- `OneYes`: `OneYesOneOrder`, from `VoiceInv`: a turn holds the draft that was pending when
  it began, a pending draft is of its conversation, and whatever a turn has confirmed
  is what it held, after a yes (`ConfirmedBy`). A conversation may be shared by any
  number of turns, and the model may propose anything.
- `OneActive`: `OneActiveSecret`, from `AdminInv`: versions count up from one without a
  gap (`RowsOK`), so that a handler about to insert the version it counted either meets
  that version, and is refused, or finds nothing active (`HandlerOK`).
- `AnswersPaidFor`: `AnswersCostFaults`, from `ChatInv`: a message is in one place at a time, with
  the gateway, in the queue or at a worker (`OneJob`), what was said is accounted for
  by faults, restarts and the attempt under way (`Accounted`), and what Telegram has
  forgotten has been reached (`Reached`).
- `NeedsAreOrdered`: `SuggestionsLast`, and `RulesObeyed`: `RulesKept`. `PlanInv` gives
  lines and orders of each stage as functions of the request, so that what is left is
  the arithmetic of packs: rounding up is the least multiple that suffices
  (`Division`, `Multiples`), and a cap is the least of a non-empty finite set.

`WorkerProofs`

- `SentOrPutOff`: `ToldOnce`, from `NoteInv`: a notification is on its way at most once, as a
  job or in one worker's hands (`OneWay`); sends, a committed row and one more while it is on
  its way are at most one more than what was lost after Telegram had taken it (`Told`);
  and what a worker is about to commit or delete is its own row, or one it has seen
  replaced (`Ready`).
- `PutOffKept`: `PendingKept`, which adds how many may be pending (`LimitInv`). The limit
  is not inductive by itself: a deferral that is about to commit did not see what
  others committed since it counted. The invariant therefore assigns to each such
  worker a set of others that may have come in between (`Overlaps`), closed downwards
  and never containing itself, by whose size the worker may exceed the limit; so
  `|Workers| - 1` is what can be too many at any time.
- `SyncMissesRemovals`: `SyncCovers`. That a finished sync has missed at most as many
  products as were removed is not inductive: a removal in front moves what comes
  after it below the offset. `SyncInv` bounds what would be missed by a sync that had
  read up to `r`, for every `r` up to the end of its page (`Misses`): one removal moves one
  product below each `r`, and what is added in front only moves products to places
  that are still to be read.

Only model-checked: `SyncAnswered` and `Delivered`, because liveness under fairness, and
ENABLED, are beyond the prover; and that the code does not keep the five statements of the
findings. No module uses RECURSIVE operators, or needs an induction over data.

## 6. What is not modelled, and what is left

The plan of the first version is done, and everything that changes rows or queues in
the running v2 program is in a module. What could still be added:

1. Theorems: what the invoice pipeline still keeps with several workers, the mini app and
   failures where the statements for one worker fail, such as that an order holds only
   lines that were resolved when its sync read them; and abstract specifications of
   the grants and of the intake that their modules implement, as `JobDelivery` is for
   the queue.
2. The connection pool under `db-session.ts`: the order in which clients are handed
   out, to see two tenants' statements on one client.

Not modelled, because nothing there is kept or runs concurrently: the mini app's
search, prices and login; the columns of the Excel parser; cryptography; the ranking
of a product search; metrics, readiness and health servers; the markup of pages and
speech. Left out because it is not part of the running program: the legacy n8n
workflows, deployment, scripts other than `dlq_replay.mjs`, and the client package of
the MCP server.
