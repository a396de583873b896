# Buying Bot Platform: specification and proofs

TLA+ models of the platform's business logic: stock, carts, prices, checkout, payment,
fulfilment, the outbox, notifications, accounts and sessions, the rate limiter, the
catalogue with its cache and images, categories and search, imports, product sources,
the knowledge base and the shopping assistant, the processes with their configuration,
and the pages of the shop and of its administrators. They are translated from the
TypeScript sources under `src/`; line references are to those files (`jobs` is
`src/packages/database/src/jobs`, `api` is `src/apps/api/src`, `worker` is
`src/apps/worker/src`, `ai` is `src/apps/ai-service/src`, `web` is `src/apps/web`,
`admin` is `src/apps/admin`). TLC checks small instances; TLAPS proves what it can
for every instance.

    tlc -config Inventory_stock.cfg MCInventory.tla     # one run
    tlapm InventoryProofs.tla                           # one module's proofs

## 1. The system

An API (NestJS), a worker (timers in one Node process, possibly several) and an AI
service share one PostgreSQL database through Prisma, and a Redis. Nothing coordinates
them but the database: every interactive transaction runs at READ COMMITTED, so each
statement sees whatever is committed when it runs, and most handlers are not
transactions at all. The API talks to the worker through rows of `outbox_messages`; a
payment provider calls webhooks; customers retry requests under the same
`Idempotency-Key`; the page of the assistant reads a stream that the API relays. The
pages of the shop and of the administrators are React components that keep what their
last call answered and may have several calls under way.

| Component | State | Operations | Interacts with | What must hold |
|---|---|---|---|---|
| Inventory | `inventory_balances` (on_hand, reserved, version), `inventory_movements`, `reservations` | `adjust`, `reserve`, `release`, `commitToSale` (`api/inventory/inventory.service.ts`), the stock part of `confirmPaymentForOrder`, `expireHeldReservations` (`jobs/commerce-jobs.ts`) | called by checkout, cancel, webhooks, worker timer | no over-reservation, rows explained by the journal, a hold ends exactly once, and does end |
| Cart | `carts`, `cart_lines` | `getOrCreateCart`, `addLine`, `updateLine`, `removeLine`, `getCartView`, `mergeOnLogin` (`api/cart/cart.service.ts`) | login, checkout, offers | no unit lost or invented |
| Pricing | `promotions`, `coupons` | `pricing.service.ts`, `financial-calculation.engine.ts`, `money.ts` | cart view, checkout | totals are the sums of their parts, discounts stay within the goods |
| Checkout | `idempotency_records`, `orders` | `checkout` (`api/checkout/checkout.service.ts`), cart edits | reserves through Inventory, writes outbox messages | a retry finds its order, own answers, every line held |
| Orders, payments, fulfilment | statuses of `orders`, `payments`, `payment_attempts`, `payment_transactions`, `webhook_receipts`, `digital_fulfillments` | `initiatePaymentFromOutbox`, `handleEscrowWebhook`, `applyEscrowReceipt`, `confirmPaymentForOrder`, `cancelBeforePay`, `markReady`, `markDelivered` | outbox, provider, Inventory, administrators | paid means captured, an accepted webhook settles its order, items queued once, delivered means completed |
| Outbox | `outbox_messages` (status, attempts) | `publishPendingOutbox`, `requeueFailedOutbox` (worker timer and admin endpoint) | every producer; handlers in the worker | nothing lost, attempts bounded, everything ends |
| Notifications | `notification_intents`, `notification_deliveries` | `createIntent`, `processPendingIntents` (API), `processNotificationIntents` (worker) | e-mail provider | sent once, ends |
| Accounts | `users`, `sessions`, reset and verification tokens, MFA factors, recovery codes, API keys, the cookies of a browser | `AuthService`, the guards, `patchCustomerStatus` (`api/auth`, `api/admin`) | mail, browsers | a reset closes the old sessions, one set of recovery codes, each spent once |
| Rate limiter | a counter in Redis, one in each process | `RedisRateLimiter.consume` (`api/common/rate-limit`) | Redis | a bound on every stretch of a window |
| Catalogue and media | products, offers, search documents, `media_assets`, the product cache in Redis and memory, the object store | `api/catalog/catalog.service.ts`, `product-cache.ts` | visitors, administrators | no stale cache entry, no READY image without its object |
| Search and listings | the same tables, read in several statements | `listProducts`, `searchProducts`, `compareProducts`, `getAvailability`, `checkStock`, `getPriceHistory` | visitors, the assistant | pages meet everything once, nothing shown that was never on sale |
| Categories and their seeds | `categories` | `createCategory`, `updateCategory`, the taxonomy page, `seedDigitalShopTaxonomy` at every start | administrators, processes that start | a start leaves the roots standing |
| CSV import | `catalog_imports`, `catalog_import_rows` | `submitCatalogImport`, `worker/catalog-import.ts` | outbox | redelivery adds nothing twice |
| Product sources | `product_sources`, `source_sync_runs`, `source_product_records`, offers | `packages/product-sources/src/ingest/run-sync.ts`, `product-sources.service.ts` | outbox, network | the records tell what the source lists |
| Knowledge base | `knowledge_documents`, `knowledge_chunks`, embeddings | `knowledge.service.ts`, `worker/knowledge-ingest.ts`, `chunkText` | outbox, AI service | READY means all of it is there |
| AI assistant | conversations, messages, `tool_executions`, the page's thread, the limits read from what was said | `api/ai/ai.service.ts`, the agent of `ai`, the assistant page | cart, search, model | page, conversation, cart and audit agree; searches keep the limits named last |
| Processes | requests under way, exit code, database and Redis up or not | bootstrap, readiness and `installGracefulShutdown` of the API, the worker and the AI service | the configuration, every request | a clean exit cuts nothing off |
| Configuration | one environment file | the three schemas of `packages/config`, `normalizeDeploymentEnv` | the processes | what the API accepts protects the whole deployment |
| Store pages | what the product, cart, checkout and order pages and the header hold; calls under way | `web/app`, `SiteHeader` | API | a page at rest shows the cart, a final status is shown |
| Admin pages | the forms of a product, stock and fulfilments, `AdminShell` | `admin/app` | API, another administrator | "Saved" means stored as typed |
| Demo seeds, shared packages | see `PROJECT.json` | | | not modelled: commands run by hand, types |

What is hard here: two handlers interleaved between their reads and their writes;
webhooks that overtake the job that caused them; timers that overlap themselves
(`setInterval` with an unawaited promise, `worker/app.ts:189-262`); processes that die
between two commits; an at-least-once outbox in front of handlers that write one
statement at a time; retries under a key that was half used; caches filled after the
read and emptied after the write; pages cut out of an answer while the shop changes;
streams that are given up by one end while the other goes on; calls of a page answered
out of order. `PROJECT.json` lists these hazards line by line with the property that
covers each.

## 2. Modules

| Module | What it is |
|---|---|
| `StockLedger` | abstract: a row per (sku, location), a journal; a step posts one movement under a new key and keeps the CHECK constraints |
| `Inventory` | detailed: transactions of requests and job ticks, statement by statement; refines `StockLedger` |
| `Orders` | one order from the committed checkout to delivery |
| `Checkout` | requests of customers against carts, idempotency records, holds and orders |
| `Outbox` | publisher ticks and requeuers over messages |
| `Notifications` | worker ticks and API runs over intents |
| `Cart` | requests of customers and guests, one action per statement, the merge in its transaction |
| `Sums` | the sum of a sequence, as the loop of `reduce` |
| `Pricing` | a quote against promotions and coupons that are created meanwhile; the engine rule by rule, its arithmetic as operators |
| `Accounts` | requests of browsers against accounts, sessions, tokens, factors, codes and cookies |
| `RateLimiter` | requests against one key, command by command, with Redis and processes failing |
| `Catalogue` | requests of administrators and visitors; cache of two layers; images |
| `Search` | a visit that goes through the pages of one query, statement by statement, while the shop changes; the other answers about price and stock as operators |
| `Advisor` | extends `Search`: what the assistant reads from a conversation, the searches it makes and the cards it shows |
| `Taxonomy` | category rows, seedings at each start, requests of administrators |
| `ImportJob` | deliveries of one import message over the rows of one file |
| `SourceSync` | runs over one source, page by page and item by item, while the source changes |
| `Assistant` | the page, each turn in the API and in the agent |
| `Knowledge` | deliveries of one ingest message; `chunkText` |
| `Environment` | what the three services make of one environment file |
| `Services` | extends `Environment`: the life of one process from bootstrap to exit |
| `StorePages` | the storefront in one tab: product, cart, checkout, order page, header |
| `AdminPages` | the administrators' pages in one tab |
| `InventoryProofs`, `OrdersProofs` | theorems about the module of that name |
| `BackgroundProofs` | theorems about `Outbox`, `Notifications` and `Services` |
| `StorefrontProofs` | theorems about `Checkout`, `Cart`, `Pricing`, `Assistant` and `Knowledge` |
| `PagesProofs` | theorems about `StorePages` and `AdminPages` |
| `AccessProofs` | theorems about `Accounts` and `RateLimiter` |
| `CatalogueProofs` | theorems about `Catalogue`, `ImportJob`, `Taxonomy` and `SourceSync` |
| `SearchProofs` | theorems about `Search` and `Advisor` |
| `MCInventory`, `MCOrders` | instances of one module for TLC |
| `MCOrderPage`, `MCBackground`, `MCStorefront`, `MCAccess`, `MCCatalogue` | hosts: several modules that share no state, for TLC |

A host declares the variables of its modules side by side, and its variable
`component`, chosen in the initial state and never changed, says which of them moves;
the others stay in an initial state. So one run explores each of them as if it were
alone, and the states are the sum, not the product. `MCAccess` and `MCCatalogue` also choose
a `topic`: the group of calls the requests may make. A call outside the topic would only
add requests that touch other tables. `MCOrderPage` is `Orders` with the order page of
`StorePages`; `MCBackground` is `Outbox`, `Notifications` and `Services`; `MCStorefront`
is `Checkout`, `Cart`, `Assistant`, `Knowledge` and `Pricing`; `MCAccess` is
`Accounts` and `RateLimiter` with `StorePages` and `AdminPages`; `MCCatalogue` is
`Catalogue`, `ImportJob`, `SourceSync`, `Search` with `Advisor`, and `Taxonomy`.

### How a transaction becomes actions

Each read of a transaction is an action that copies what it saw into the record of
its process (`tx[p]`, `req[p]`, `run[r]`, `job[d]`). All writes up to the commit are one
action: the first write takes the row lock, other writers wait for the commit and
then re-evaluate their `WHERE`, so nobody sees the writes one at a time. A
`WHERE version = ...` is a guard on the current row; a unique index or a CHECK is a
guard whose failure is a separate action or outcome (`AdjustDuplicate`, `WriteRejected`,
`CommitRejected`, `Refused`). Where the code writes outside a transaction
(`cancelBeforePay`, `markReady`, `publishPendingOutbox`, notification claims, most of
cart, catalogue, import, sync, seeding, ingest and the assistant), each statement is an
action. `Crash`, `Abort`, `Stop`, `Die` and `UpdateThrows` are a lost process, a failing
statement, or a commit whose answer is lost.

* **Inventory.** `balance`, `movements`, `reservations` are the tables; `tx[p].pc` is
  the next statement and `tx[p].snap` the row read. `CallX` starts an operation,
  `ReadStatus`, `FindMovement`, `MatchHeld`, `ReadBalance` are its reads, `WriteAdjust`,
  `WriteReserve`, `WriteFinish` its writes and commit. `batch[j]` is what a tick's
  `findMany` returned. Time is left out: any set of HELD reservations may be expired
  when a tick looks. The branch for a missing balance (`commerce-jobs.ts:35-42`) is
  unreachable, since no code deletes a balance, and is left out.
* **Orders.** A line is its reservation plus the kinds of movements made for it, which
  play the row's version and the idempotency keys. `locked` is the row lock a
  confirmation takes on payment and attempt before it reads the reservation
  (`commerce-jobs.ts:181-212`). Other orders share only stock rows: what they can do
  is make a transaction fail, `Abort`.
* **Checkout.** A `reserve` or `release` is one action, because `Inventory` has its
  statements and `StockLedger` its effect; so is `getOrCreateCart`, which `Cart` has.
  `Expire` stands for the expiry job and for a cancel. Amounts are in `Pricing`.
* **Outbox.** `tick[t].todo` is the batch still to visit. `found[r]` is what a requeue's
  search returned. `availableAt` is left out (a message may always be due), and the
  requeuer's own limit (50 or 100) is above the number of messages.
* **Notifications.** As Outbox, with the claim `updateMany ... where status = PENDING`,
  and with two callers that select differently (`Eligible`).
* **Services, Environment.** A value of the file is absent, blank, or set, a secret short or
  long, a flag one of the words `booleanFromEnv` meets; intervals, addresses and names,
  which only have to parse, are one field. Processes meet nowhere but in the database and
  Redis, so a behaviour follows one of them, under one file. `busy` counts requests or ticks under way and
  `cut` notes that the process ended with some; `ForceExit` is the timer of `shutdown.ts:28`.
* **Cart.** `wanted` and `owed` keep, per offer, the units ever asked for and the units
  the ACTIVE carts should hold; `raced` notes that a merge wrote from a reading another
  request had overtaken (`cart.service.ts:283` has neither lock nor version).
* **Pricing.** Amounts are integers of minor units, as in the code, and `mulRational`'s
  rounding is the code's. `quote.pc` separates the three queries, between which rows are created.
* **Accounts.** A session, token or code carries in ghost fields what the properties ask:
  the password it was opened with, the enrolment that made it, whether it was `raced`.
  Hashes and random tokens are the rows they name; guessing one is not modelled.
* **RateLimiter.** `now` counts ticks; `admitted[c][t]` is how many requests counter c had let
  through up to tick t.
* **Catalogue.** A product's `ver` counts its updates; a cache entry has the `ver` and the
  price it was made from, and `raced` if the code has no means to know that it is stale.
* **Search.** Where the SQL gives no order, or an order with ties, the answer is any of the
  sequences it allows, and two statements of one request may differ. Creation times, by which a listing is
  ordered and nothing else, are taken to be distinct. Filters and sort
  that the code applies to a page after it was cut are applied there. `onSale` and `steady`
  are ghosts: what was on sale at some moment of the request, and that nothing changed during the visit.
* **Advisor.** An utterance is the set of phrases `extractBudget` matches in it and the words
  left over. `Merged` is the loop over the history. A model may ask for any of `ModelArgs`.
* **Taxonomy.** Rows are a sequence, archived and never deleted; `touched[b]` is a ghost, the roots
  on whose slug a request or another seeding has written since seeding b began.
* **ImportJob, SourceSync, Knowledge.** A delivery's `pc` is the next statement of the
  handler; `cut` and `overlapped` note that a delivery died or that two ran at once, and
  `settled` that the last run read the source as it is and skipped no item. `Reach` is how many items a
  run can read: `MaxFetches` pages (500 in the code), or one of a source without pages. `Chunked` is `chunkText`, its loop a function of
  the paragraph reached.
* **Assistant.** A turn has one record in the API and one in the agent. The page may stop
  reading, the API may time out and the agent may go on; `rough` notes that
  a turn was stopped, failed or lost its answer, or that a page was truncated. A completion may ask
  for several tools, which run one after the other (`NextCall`); one that has written its line may
  still fail when it reads the cart back (`RunTool`), and is then recorded as failed.
* **StorePages, AdminPages.** A call has a place (`calls`, `requests`), which goes on when the page that
  made it is left; it is sent, carried out by the API or lost, and answered at any later
  moment. The API is reduced to what the pages read of it: the one line of each cart, orders and
  the status of the last payment; one product, its offers, images and stock and two
  fulfilments. Changes from elsewhere (another tab, the worker, another administrator) are
  actions. `unseen`, `unheard`, `rough` and `foreign` note what a page cannot know, `overtaken` that a
  refresh of the badge was answered after a newer one, and `crossed` that a file was chosen while a row of
  requests ran: its input is not disabled, and its `finally` enables the other buttons.

## 3. Runs

| Run | States | What it shows |
|---|---|---|
| `Inventory_stock` | 497k | requests p1, p2 and a job tick use all finishing operations on two units: `StockLedger` is implemented, no reserved unit leaks |
| `Inventory_admin` | 59k | a row that does not exist yet, three keys, reuse of keys and references, `rollback`: admitted writes satisfy the CHECKs, the journal explains the balance |
| `Inventory_expiry` | 15k | liveness: every hold ends with two overlapping ticks, one of which may die |
| `Inventory_double_release` | violation | see 5 |
| `Orders_capture` | 1.55M | two different captures, a cancel, an expiry tick, two lines, every participant may fail: `PaidMeansCaptured`, `OneFulfillmentPerItem`, `FulfilledIsSold` |
| `Orders_settle` | 27k | four webhooks (exact, wrong amount with the same transaction, failed, unknown) and an administrator: `AcceptedPaymentSettles`, `DeliveredIsCompleted`. *Order page:* overlapping loads that fail and answer out of order: `FinalStatusIsShown` |
| `Orders_stale_cancel` | violation | see 5 |
| `Background` | 189k | *Outbox:* three messages, two ticks (one failing), a requeuer, a batch of two, a ceiling of two: `PublishedIsHandled`, `AttemptsBounded`, `OutboxDrains`. *Notifications:* three intents of two channels, two ticks (one failing), one API run, a batch of one: `SentOnce`, `EmailsEndUnlessAbandoned`. *Services:* the three processes under 46 files, with signals, outages and seeds that fail: `ServicesFitTogether`, `CleanExitIsWhole` |
| `Storefront` | 1.29M | *Cart:* three requests of a customer and of a guest who logs in, with an offer withdrawn and a cart checked out in between: `CartsHoldWhatIsOwed`. *Checkout:* a customer with a retry and another one with the same key, two offers, edits, expiries, failures: `RetryFindsTheOrder`, `OrderIsCovered`. *Pricing:* six baskets, up to three rows of eleven promotions, one of them above 100%, and three coupons created meanwhile: `QuoteAddsUp`. *Assistant:* two turns, completions of up to two tools that add to the cart and may fail after it, stops, timeouts and deaths: `ShownIsTheConversation`, `StoredAnswersAreWhole`. *Knowledge:* six documents, two deliveries: `ReadyIsWhole` |
| `Access` | 895k | *Accounts:* three requests, a customer, one who registers, an administrator, two browsers; login against reset, enrolment against challenge, verification against suspension: `LiveSessionsKnowThePassword`, `CodeSpentOnce`. *RateLimiter:* two requests at once, four in all, two processes, Redis failing between any two commands: `WindowBound`. *StorePages:* a visitor with and one without a cookie, two calls and two refreshes at once: `PagesShowTheCart`. *AdminPages:* every page, two places, another administrator, lost and failing requests: `SaveIsWhole` |
| `Catalogue` | 891k | *Catalogue:* three requests; reads against updates and renames, creations against each other, prices, uploads against deletions: `CacheIsFresh`, `ReadyMediaIsStored`. *ImportJob:* two deliveries of four rows: `OneProductPerNamedRow`. *SourceSync:* two runs over three items, one of them faulty and one sold out, two pages of one item at most, a change of the source: `RecordsFollowTheSource`. *Search:* eight queries over three products in a tree of three categories, an edit at any moment: `PagesCoverTheQuery`, `ShownWasOnSale`. *Advisor:* two questions of six, the deterministic provider and a model: `LastLimitHolds`, `CardsAreTheLatest`. *Taxonomy:* two seedings of two roots, two requests: `SeededRootsStand` |
| `Catalogue_archived_root` | violation | see 5 |

The type invariants (`TypeOK`, and `BackgroundTypeOK`, `StorefrontTypeOK`, `AccessTypeOK`,
`CatalogueTypeOK` of the hosts) hold in the same instances: put one in the INVARIANTS line of the
run. `Storefront` with `Components = {"assistant"}`, `SPECIFICATION FairSpec` and the property
`EveryWaitEnds` shows that a page that waits gets an answer or sees the stream end though
the model may never answer.

**Bounds.** Two writers and one more actor suffice for every race here: a transaction
compares what it read with what one other commit left, and a third actor can only
make a second such commit. Two units of stock allow two simultaneous holds, the
smallest case in which a double release is not refused by the CHECK itself. Two keys
bound the calls of one run, with one key used again. Two lines separate the primary
line from the others. Limits of one or two are smaller than the number of rows, so
that a batch leaves something behind, and the ceiling of two leaves room for one
retry. `MaxEdits`, `MaxTurns`, `MaxChanges`, `MaxRequests`, `MaxEvents`, `MaxSaid`, `MaxRows`,
`MaxTime`, `Prepared` and `Total` bound otherwise endless customers, administrators and
clocks. `MaxHistory` is 2 where the code has 24, and two turns already exceed it;
`MaxMessages` 3 of the assistant's page is filled by two questions. The window of two ticks
and the limit of two let a burst straddle two windows, and four requests are a full limit
in each. The baskets hold a line that is free, lines of a cent, a price in another currency
and a net price; the promotions every type, stackable and not, with codes, minimum spend and
expired windows. `MaxChars` 4 and `OverlapChars` 1 give a paragraph that fits, one that does
not, one of several slices, and an end that is all overlap. The files and feeds have a row
that names slug and SKU, one that names neither, a repeated row and a rejected one; the pages
of the source are of one item, so that a change falls between two pages, and `MaxFetches` is 2 (the code has 500), so that
the source may list an item that no run reaches. `MaxCalls` 2 is the fewest tools with one after another. The shop of `Search`
has a product in two places, one of two variants with an open price window and one that is
unlimited; pages of one and two products leave a rest. The environment files vary, around a
complete one, the variables that the same guard reads. The pages see three events in all, one less for
a visitor without a cookie: a click, what changes meanwhile, and what goes wrong with the call.

**Symmetry.** Model values are permuted only where the definitions treat them alike:
requests in `MCStorefront`, `MCAccess` and `MCCatalogue`. The requests of `Checkout` have an actor
and a key by number, and the limiter's slots are numbers, so the permutation does not touch them.

**Patient clients.** `PatientMerge` in `Cart` is an assumption about clients: a browser does not
merge twice at once. Without it `NothingInvented` is false (5); `CartsHoldWhatIsOwed` does not need
it. Requests of one key overlap freely in `Checkout`: `RetryFindsTheOrder` is what holds of them
all the same, and `OneOrderPerKey` what does not (5).

**Fairness.** The worker's timers fire for ever (`worker/app.ts:189-262`), so a sound
tick is weakly fair. A reservation that stays HELD is matched by a tick infinitely
often, but a tick may look when others are due first, hence strong fairness of
`FindExpired` in `Inventory`. A handler or request that has started goes on unless it
fails. Nothing is assumed of customers, administrators, providers, models, failing
processes or the API's notification run. `EmailsEndUnlessAbandoned` also needs that a
started run goes on until it dies. `FinalStatusIsShown` assumes that the order page's interval fires (weakly
fair) and that not all of its loads fail for ever: reading and showing are strongly
fair, because each may be overtaken by a failure. `EveryWaitEnds` needs the API's event loop with its
30 s timer (`Serve`) and the page's reader (`Receive`, `Finish`), and nothing of the
agent. `HoldsEnd` holds where no release races the job, as in `Inventory_expiry`; with
one it does not (5). In `MCOrderPage` each component's fairness is assumed only where it
runs: that of the other would exclude every behaviour.

`CHECK_DEADLOCK FALSE` appears where an instance may come to rest: orders that are
done, all messages published, every request answered.

## 4. Proofs

Proved by TLAPS for all values of the constants that meet the named assumptions
(`ConstantsAssumption`, `OrdersAssumption`, `OutboxAssumption`, `NotificationsAssumption`,
`AccountsAssumption`, `LimiterConstants`, `CatalogueAssumption`, `ImportConstants`,
`SyncAssumption`, `TaxonomyAssumption`, `SearchConstants`, `AdvisorConstants`, `PricingAssumption`, `CartAssumption`,
`StoreConstants`: types of the constants, finite sets of ticks
and lines, disjoint sets of actors, calls that a controller accepts). `Checkout`
needs none. Where a theorem has a hypothesis of its own it is in the
table. A column says whether a run checks the property, too.

| Theorem | Statement | Run |
|---|---|---|
| `InventoryProofs.TypeCorrect` | `Spec => []TypeOK` |  |
| `InventoryProofs.Fencing` | `Spec => []SnapshotFence` |  |
| `InventoryProofs.NoOverReservation` | `Spec => []AdmissionSuffices` | `Inventory_admin` |
| `InventoryProofs.VersionIsJournalLength` | `Spec => []VersionCountsMovements` |  |
| `InventoryProofs.Serialised` | `Spec => LedgerImplemented` | `Inventory_stock` |
| `InventoryProofs.FinalIsJournalled` | `Spec => []FinalStatusHasMovement` |  |
| `InventoryProofs.NoHoldLeaks` | `Spec => []NoLeakedHold` | `Inventory_stock` |
| `InventoryProofs.JournalIsComplete` | `Spec => []JournalExplainsBalance` | `Inventory_admin` |
| `BackgroundProofs.OutboxTypes` | `OutboxSpec => []OutboxTypeOK` |  |
| `BackgroundProofs.NothingLost` | `OutboxSpec => []PublishedIsHandled` | `Background` |
| `BackgroundProofs.CeilingHolds` | `OutboxSpec => []CeilingIsFinal` |  |
| `BackgroundProofs.BoundedAttempts` | `OutboxSpec => []AttemptsBounded` | `Background` |
| `BackgroundProofs.NotifyTypes` | `Spec => []TypeOK` |  |
| `BackgroundProofs.NeverSentTwice` | `Spec => []SentOnce` | `Background` |
| `BackgroundProofs.ExactDeliveries` | `Spec => []DeliveriesAreExact` |  |
| `BackgroundProofs.ServicesTypes` | `MaxBusy \in Nat, Seeds \in Nat \ {0}` : `ServicesSpec => []ServicesTypeOK` |  |
| `BackgroundProofs.WholeExits` | `MaxBusy \in Nat, Seeds \in Nat \ {0}` : `ServicesSpec => []CleanExitIsWhole` | `Background` |
| `BackgroundProofs.FilesFitTogether` | `Files \subseteq EnvFile` : `ServicesSpec => []ServicesFitTogether` | `Background` |
| `StorefrontProofs.TypeCorrect` | `Spec => []TypeOK` |  |
| `StorefrontProofs.OwnAnswers` | `Spec => []AnswerIsOwn` |  |
| `StorefrontProofs.OrdersCovered` | `Spec => []OrderIsCovered` | `Storefront` |
| `StorefrontProofs.OneOrder` | `Spec => []RetryFindsTheOrder` | `Storefront` |
| `StorefrontProofs.CartInvariant` | `CartSpec => []CartInv` |  |
| `StorefrontProofs.CartTypes` | `CartSpec => []CartTypeOK` |  |
| `StorefrontProofs.CartsAddUp` | `CartSpec => []CartsHoldWhatIsOwed` | `Storefront` |
| `StorefrontProofs.PricingInvariant` | `PricingSpec => []PricingInv` |  |
| `StorefrontProofs.QuotesAddUp` | `PricingSpec => []QuoteAddsUp` | `Storefront` |
| `StorefrontProofs.AssistantTypes` | `MaxTurns \in Nat, MaxHistory \in Nat, MaxRounds \in Nat, MaxCalls \in Nat` : `AssistantSpec => []AssistantTypeOK` |  |
| `StorefrontProofs.WholeAnswers` | `MaxTurns \in Nat, MaxHistory \in Nat, MaxRounds \in Nat, MaxCalls \in Nat` : `AssistantSpec => []StoredAnswersAreWhole` | `Storefront` |
| `StorefrontProofs.ShownIsStored` | `MaxTurns \in Nat, MaxHistory \in Nat, MaxRounds \in Nat, MaxCalls \in Nat` : `AssistantSpec => []ShownIsTheConversation` | `Storefront` |
| `StorefrontProofs.ReadyDocuments` | `MaxChars \in Nat, OverlapChars \in Nat, OverlapChars < MaxChars, Texts \subseteq Seq(Nat)` : `KnowledgeSpec => []ReadyIsWhole` | `Storefront` |
| `OrdersProofs.TypeCorrect` | `Spec => []TypeOK` |  |
| `OrdersProofs.PaidIsCaptured` | `Spec => []PaidMeansCaptured` | `Orders_capture` |
| `OrdersProofs.ProcessedIsCaptured` | `Spec => []ProcessedMeansCaptured` |  |
| `OrdersProofs.QueuedAtMostOnce` | `Spec => []OneFulfillmentPerItem` | `Orders_capture` |
| `OrdersProofs.QueuedIsSold` | `Spec => []FulfilledIsSold` | `Orders_capture` |
| `AccessProofs.TypeCorrect` | `Spec => []TypeOK` |  |
| `AccessProofs.SessionsKnowThePassword` | `Spec => []LiveSessionsKnowThePassword` | `Access` |
| `AccessProofs.CodesSpentOnce` | `Spec => []CodeSpentOnce` | `Access` |
| `AccessProofs.LimiterTypes` | `LimiterSpec => []LimiterTypeOK` |  |
| `AccessProofs.BoundedBursts` | `LimiterSpec => []WindowBound` | `Access` |
| `PagesProofs.StoreInvariant` | `StoreSpec => []StoreInv` |  |
| `PagesProofs.PagesShow` | `StoreSpec => []PagesShowTheCart` | `Access` |
| `PagesProofs.AdminInvariant` | `AdminSpec => []AdminInv` |  |
| `PagesProofs.SavesAreWhole` | `AdminSpec => []SaveIsWhole` | `Access` |
| `CatalogueProofs.TypeCorrect` | `Spec => []TypeOK` |  |
| `CatalogueProofs.FreshCache` | `Spec => []CacheIsFresh` | `Catalogue` |
| `CatalogueProofs.StoredMedia` | `Spec => []ReadyMediaIsStored` | `Catalogue` |
| `CatalogueProofs.ImportTypes` | `ImportSpec => []ImportTypeOK` |  |
| `CatalogueProofs.OneProductEach` | `ImportSpec => []OneProductPerNamedRow` | `Catalogue` |
| `CatalogueProofs.TaxonomyTypes` | `TaxonomySpec => []TaxonomyTypeOK` |  |
| `CatalogueProofs.RootsStand` | `TaxonomySpec => []SeededRootsStand` | `Catalogue` |
| `CatalogueProofs.RecordsTell` | `SyncSpec => []RecordsFollowTheSource` | `Catalogue` |
| `SearchProofs.ShowsWhatSells` | `SearchSpec => []ShownWasOnSale` | `Catalogue` |
| `SearchProofs.PagesMeetAll` | `SearchSpec => []PagesCoverTheQuery` | `Catalogue` |
| `SearchProofs.SearchesKeepLimits` | `AdvisorSpec => []LastLimitHolds` | `Catalogue` |
| `SearchProofs.CardsShowTheLatest` | `AdvisorSpec => []CardsAreTheLatest` | `Catalogue` |

None of the properties is inductive: each depends on what a process read two statements
earlier. Every proof has an invariant that says so, a lemma for each action, and lemmas
for what a step of one process leaves alone in the others.

*Inventory.* `IInv` adds `TxOK` (a transaction about to write passed the admission test
on its snapshot), `Fence` (a snapshot is never newer than the row and equals it while
the versions agree) and `RowsOK`. `LocalStep` shows that a step of one process that
leaves the tables alone keeps all of it, so that only the three writes need an argument
of their own: they raise the version, which makes every other snapshot of that row
stale. `Serialised` maps each write to one `Post` and every other step to a stutter.
`Counted` counts movements by row for `VersionIsJournalLength`. `FinalIsJournalled`
adds `AllTraced`: a transaction that ends a reservation works under the key of that end
with the reservation's own stock and quantity, so that the movement it posts is the one
the status asks for. The two sums, `NoLeakedHold` and `JournalExplainsBalance`, add up
quantities over a table. A sum is counted: `Units(S, qty)` is the set of pairs of an element
and a unit of it, whose cardinality is the sum, and the library's facts about unions and
products of finite sets say what one more element, one fewer or another set with the same
units adds. `HoldsCounted` is that the row reserves at most the units of its HELD
reservations, `Journalled` that the units of each kind of movement make up the row.

*Orders.* `PlacesOK` says what a task at each statement has found and stays true:
captures, queued items and the movements of the primary line are never taken back
(`Grown`). A confirmation with the verdict PAID has the sale on record, one that settles
has the capture. `OneFulfillmentPerItem` follows because a confirmation creates the
missing fulfilments in the transaction that holds the row lock. `DeliveredIsCompleted` is
false in general (`Orders_two_admins`), so it is no theorem: `Orders_settle` checks it where
one administrator, whose calls do not fail, delivers.

*Checkout.* `RequestOK`: of the lines a request has read, those not left to reserve
have a reservation of its cart among those it holds; orders inherit this, and rows keep
their owner (`AllKept`). For `OneOrder`, `known` notes how many orders there were when a request
looked up its key. `Keyed` says that every order is recorded under its key and that a request still
under way looked before the first order of its key was made; so one that looks later is answered
with that order. Requests of one key that looked before it may each make one, and the theorem
does not say otherwise.

*Outbox.* `BoundedAttempts` is an argument about debts. A tick that holds a message
will count one attempt for it, a failing one perhaps two (its update commits, the
answer is lost, and the message is then marked FAILED). `DebtBounded` charges these
attempts in advance: attempts plus the holders of a message plus the failing holders
that have not given it up stay below `MaxAttempts` plus the number of ticks plus the
number of failing ones. Taking a message needs attempts below the ceiling
(`CeilingIsFinal`), every other step pays a debt or leaves it.

*Notifications.* No intent goes back to PENDING, so a row's one attempt can be told from its
status, and the claim lets one run through (`OneHolder`). What that run has still to do
is not done yet (`ClaimedIsUnsent`, `SentIsUndelivered`).

*Services.* `Orderly` says that the API and the AI service come to leave the database only with
nothing under way and exist without an exit code until they end. `FilesFitTogether`
is about the schemas alone, for any set of files.

*Accounts.* `SessionOK` and `PlaceOK` say that a session, and a login about to store one,
has the account's password unless a reset overtook it: the reset's transaction revokes
every session there is and marks the logins in flight. `CodesOK` says that a spent code
is marked or gone; it does not come back because each generation of codes is written
by one request, which then ends (`Generations`). A challenge is exempt (`raced`) only if it held the
unused row when another one redeemed it (`Holds`); one that reads later must not find it.

*RateLimiter.* `BoundedBursts` is for any limits and any length of the window. What is proved of
a counter does not depend on where it lives: `Bounded` (no stretch of a window lets through
twice the limit), `NoWindow` (none is open, and fewer than the limit were let through in what
may still share a stretch with the next tick) and `Opened` (one was opened at c and n requests
have asked since). A request numbered by Redis within the limit counts from then on
(`Numbered`), though it is admitted statements later, or never.

*Catalogue.* `CacheOK` is about each entry at its key: it is current and the key is
one of the product's two, or an update owes the removal of this very key (`Owed`).
An update makes the entries under both keys stale and owes them; dropping a key pays,
dying marks what was owed. A reader that loaded the product before the update is marked
when the update commits. `MediaOK` orders the writes: an upload records its row last, a
deletion marks it before it touches the object.

*ImportJob.* `ItemsNamed` and `NamesDiffer`: a product keeps the slug and the SKU of the row that
made it, both are unique among products, and an offer is only on a product that has its SKU
(`JobOK` says so of a delivery about to write one). So a row that names its slug has one product,
whatever else delivers the file.

*Taxonomy.* `StandInv`: a root that a seeding is past stands, unless touched. `FoundInv`: the row a
seeding found is still that of its root, unless touched. The difficult case is a seeding that writes
on a row which has become that of another root; `ForeignInv` says that the request which renamed it
is known to every seeding.

*SourceSync.* What a run has fetched are the first items of the source as it is, up to `Limit`, unless
the source changed meanwhile (`HasRead`). Runs that overlap read the same items then, so none
records what another one marks absent (`Recent`), and one that skips nothing has recorded the items it
is past (`HasRecorded`); at its end the records tell what lies within reach (`Told`). Later runs keep
that as long as all of them read the source as it is (`AllFresh`).

*Search.* SQL leaves the order of ties open, so that two statements may see two orders. A page is a
stretch of such an order; what the first n pages hold together is given without it (`FirstOf`): the
hits with fewer than n pages of hits that must come before them. `CoverInv` says that a visit has seen
those that the filters leave, each once; at the last page they are all. `SaleInv` follows each
product from where it was matched to where it is shown.

*Advisor.* `Merged` goes through the history backwards and keeps the first limit of each kind it
meets, which is shown to be the last one named, by induction. `LimitsInv` carries it through
the provider and the tool, each of which puts its part together again, and the second attempt.
`CardsOK` is kept by every merge: one product one card, as found last, complete up to `MaxCards`.

*Assistant.* `AssistantInv` follows a question from the page to the history: the agent hears of
it after it is stored, an answer is stored when its stream has come to its end, and the turn is then over.
For `ShownIsStored`, `Smooth` is what holds while nothing is stopped, lost or cut short: a
conversation holds the questions of the turns that have stored theirs and the answers of those that are
closed (`ConvsHold`), the page shows the questions of its conversation and all answers but the one it waits for
(`PageHolds`), and the conversation of that question is the page's own, or one nobody else has (`OwnConv`).

*Knowledge.* `chunkText` is a loop over paragraphs that carries what is not yet in a chunk.
`ChunkedHolds` is, by induction over the paragraphs, that no character is lost and every chunk is
within `MaxChars`, for any text and any limits whose overlap is smaller. `Alone` is then that the
delivery under way has written the chunks before the place it has reached and nothing else is there.

*Pricing.* `PricingInv` has three parts. `Balanced`: what the lines cost, what they bear and what the
adjustments add up to change together by the same amount, rule by rule; the allocation gives the
last line what the floored shares leave, so a sum is kept whatever they were. The engine counts a
discount only if it is positive, so the lines bear no more than the discount. That they bear all of it
is said of quotes whose promotions take at most 100 % off (`Modest`, a condition on what was applied
and not on what may be created): then a line never has a negative total while item rules remain (a cart
rule may leave one), no rule takes less than nothing, and each takes at most what is left. With a promotion of
more it is false (`LinesBearTheDiscount`, section 5). `PricingAssumption` says that amounts and rates are integers and not negative,
as the schemas admit them.

*Cart.* A cart's line is found by its pair, so everything rests on the pair having one live row
(`CartTypeOK`, which `Rewritten`, `LineAdded` and `Merged` keep) and on rows never moving. A request
between two statements holds rows that exist: its cart, the line that an update found, which is of
that cart and that offer, and in a merge another cart than its own (the guard of
`cart.service.ts:260`; without it the merge would convert the cart it has filled). The sum over the
carts then moves by the one cart that a statement touches (`TotalMoves`), and by two in the commit of a
merge: what was written is what both held, unless `raced`.

*StorePages.* A page may show what is no longer so while the answer that corrects it is under way.
`Seen` says which calls these are: an edit or an order that the API has carried out and whose answer
the page will still take. `Alone` makes it one: the cart page sends no second call before the first is
answered. The header needs its newest refresh only (`Heard`): an older one that answers later is
overwritten. One that answers last stays (`Ends`, `overtaken`), and the theorem says nothing of the badge then:
`SiteHeader.tsx:52` has no sequence check (`BadgeShowsTheCart`, section 5).

*AdminPages.* A save is several requests, and `ToCome` says which of them are still to be executed.
`SaveOK` follows one save: what is not to come is stored as the form said, and a price still to come
meets the offers it was planned for, none or the first. That they are still the same is `Known` (what a
loaded page knows of the offer is so, unless its own save has changed it and will load it again)
with `OneRow` (one row of requests at a time outside an order's page), which rests on the disabled
buttons (`BusyOK`). `Whole` is all of it, as long as none of `rough`, `foreign` and `crossed` holds: an
upload ends with the buttons enabled, whatever else runs (`OneOfferUndisturbed`, section 5).

**Induction.** The provers have no induction scheme for a predicate, but `<` on Nat is
well-founded as a statement about sets: "the numbers for which it fails have a least one", which is what the
loops (`chunkText`, `Merged`, the merge of cards, the sums of a quote and of the carts) use. The window that wins is there
by induction on the number of windows.

**Only model-checked.** Liveness and anything with `ENABLED`, which the provers cannot do:
`HoldsEnd`, `AcceptedPaymentSettles`, `FinalStatusIsShown`, `OutboxDrains`,
`EmailsEndUnlessAbandoned`. `DeliveredIsCompleted` holds only under the conditions of its run. Every other
invariant and safety property that a passing run checks is a theorem.

## 5. Where the code departs from its documents

Three of these are runs, with a property TLC finds violated:

* `Inventory_double_release` / `ReservedIsHeld`. `release` and the expiry job read the
  reservation's status without a lock and update it unconditionally
  (`inventory.service.ts:326`, `commerce-jobs.ts:66`). Different idempotency keys do not
  collide, so the same units are given back twice. ADR-0011 line 450.
* `Orders_stale_cancel` / `PaidNotCancelled`. `cancelBeforePay` sets CANCELLED from a
  status it read before several releases (`checkout.service.ts:464`). ADR-0011 line 557.
* `Catalogue_archived_root` / `BootsSucceed`. An administrator archives a seeded category; the
  next start looks for it among the live rows only, inserts it again and is refused by the
  unique slug, and so is every later one (`seed-digital-taxonomy.ts:63`, whose line 5 says
  "Idempotent.").

The others have their property in a module, and are run by hand; each ends in a
counterexample. These have a configuration beside the module (`MCInventory`, `MCOrders`,
`MCAccess`):

| Configuration | Property | What happens |
|---|---|---|
| `Inventory_first_adjust` | `AcknowledgedIsRecorded` | the loser of two first adjustments is answered as an idempotent repeat and recorded nowhere (`inventory.service.ts:170`; SRS line 139) |
| `Orders_lost_webhook` | `AcceptedPaymentSettles` | a receipt whose application fails is never applied: `reconcilePendingPayments` has no caller, in spite of the comment at `payments.service.ts:215` |
| `Orders_partial_sale` | `SoldWhole` | only the first line's reservation is sold (`commerce-jobs.ts:215`; SRS line 141) |
| `Orders_late_mark` | `AttemptStaysConfirmed` | the worker's INITIATED overwrites CONFIRMED (`payment-initiate.ts:177`; ADR-0011 line 813) |
| `Orders_two_charges` | `OneCharge` | overlapping ticks both ask the provider (`payment-initiate.ts:56`; ADR-0011 line 555) |
| `Orders_late_capture` | `LateCaptureIsHeld` | a capture after a cancel throws and the order stays CANCELLED (`commerce-jobs.ts:160`; ADR-0011 line 501) |
| `Orders_two_admins` | `DeliveredIsCompleted` | `markReady` writes FULFILLING after the other administrator completed the order (`digital-fulfillment.service.ts:153`; ADR-0011 line 806) |
| `Accounts_two_enrolments` | `OneSetOfCodes` | an administrator who enrols while a confirmation runs ends with codes of two answers |

For these, put the property in place of the INVARIANTS and PROPERTIES of the configuration, leave
out SYMMETRY for an action property, and set `Components` to the one named (and any other
constant as said):

| Configuration | Component | Property | What happens |
|---|---|---|---|
| `Inventory_expiry`, `Requests = {p1, p2}`, `Jobs = {j1}`, `Crashing = {}`, `Ops <- CancelOps` | | `HoldsEnd` | after a double release the CHECK refuses another hold's expiry for ever (`commerce-jobs.ts:44`; SRS line 142) |
| `Inventory_stock` | | `FinalStatusIsFinal` | a payment makes COMMITTED a reservation released meanwhile (`commerce-jobs.ts:253`; ADR-0011 line 833) |
| `Storefront` | checkout | `OneOrderPerKey` | two simultaneous requests both miss the record and create two orders (`checkout.service.ts:55`; ADR-0011 line 610) |
| `Storefront`, `Quantities = {1, 2}` | checkout | `OrderHoldsItsQuantity` | a retry reuses a hold with its old quantity (`inventory.service.ts:198`; ADR-0011 line 507) |
| `Storefront`, `Actor <- OneCustomer`, `Key <- TwoKeys` | checkout | `HoldServesOneOrder` | two orders rest on one hold (`inventory.service.ts:198`; ADR-0011 line 509) |
| `Storefront`, `PatientMerge = FALSE` | cart | `NothingInvented` | two merges of one guest each add the guest's units (`cart.service.ts:283`) |
| `Storefront` | pricing | `DiscountWithinGoods` | a promotion may take off more than 100% (`pricing.schemas.ts:12`), and the quote is refused or the lines are given for less than nothing |
| `Storefront` | pricing | `LinesBearTheDiscount` | after it, the next item promotion takes a negative discount off the lines, which the engine does not count (`financial-calculation.engine.ts:186`) |
| `Storefront` | pricing | `NoNegativeLine` | a line of a discounted cart gets a negative total; ADR-0012 forbids negative money |
| `Storefront` | pricing | `NoPromotionTwice` | the promotion behind a coupon is applied again by itself (ADR-0012, section 9) |
| `Storefront` | pricing | `CouponLimit` | `redeemedCount` is never increased (`pricing.service.ts:153`) |
| `Storefront` | assistant | `CartMatchesAudit` | a tool writes the line and fails when it reads the cart back (`cart.service.ts:195`, `:209`), which is recorded as FAILED (`ai.service.ts:268`); or the API dies before the row |
| `Storefront` | assistant | `QuestionIsSeen` | the history is the oldest 24 messages, so a long one lacks the question (`ai.service.ts:519`) |
| `Storefront` | assistant | `AnswersAreSeen`, `OrderIsKept` | an answer is stored after the page has seen its end, behind the next question |
| `Storefront` | assistant | `OneConversationPerThread` | stopping the first question leaves the page without its conversation |
| `Storefront` | knowledge | `ReadyIsAlwaysWhole` | of two deliveries one deletes what the other wrote and the document is READY |
| `Storefront` | knowledge | `CitedIsReady` | the vector search does not ask for the document's status |
| `Storefront` | knowledge | `EveryChunkAdds` | a last slice may be nothing but the overlap of the one before |
| `Background` | notifications | `EmailsEnd` | an intent claimed by a run that died stays PROCESSING (`notifications.ts:30`; ADR-0014 line 125) |
| `Background` | notifications | `FailedIsRetried` | a FAILED intent is never tried again (`notifications.ts:71`; ADR-0014 line 99) |
| `Background` | services | `NoUnsafeDefaults`, `DoubleStaysOut` | the worker's schema takes a default secret, and the test double, in production (`config/index.ts:535`, `:138`) |
| `Background` | services | `SwitchStopsPayments`, `BlankKeysStart` | nothing but the API's schema reads `PAYMENTS_ENABLED`, and a blank key is refused whatever it says (ESCROW_CONFIGURATION line 16, SECRETS_MANAGEMENT line 33) |
| `Background` | services | `EnabledRailCharges` | with M-Pesa as the provider the worker does nothing |
| `Background` | services | `OneEmbedding` | worker and AI service may embed with different models |
| `Background` | services | `ReadyIsSeeded`, `LimiterIsShared` | an API that found the database or Redis down once is ready later, without seeds, counting in memory |
| `Background` | services | `ReadyCanWork`, `TicksEnd` | a worker reports ready without its database and leaves it under its ticks |
| `Orders_settle` | page | `PaidIsShown` | CONFIRMED is none of the statuses the page takes for success (`orders/[id]/page.tsx:159`) |
| `Orders_settle` | page | `StatusNeverGoesBack` | an older load answers last |
| `Access` | accounts | `OnlyTheNewPasswordOpens` | a login that read the old password stores its session after the reset |
| `Access` | accounts | `DisabledUntilRestored` | `verifyEmail` activates an account an administrator suspended (`auth.service.ts:429`) |
| `Access` | limiter | `CountersExpire` | a request that fails between `incr` and `pexpire` leaves a key that never expires (`rate-limiter.ts:86-88`) |
| `Access` | storefront | `BadgeShowsTheCart` | a refresh of the badge that read the cart before an edit is answered last (`SiteHeader.tsx:52`) |
| `Access` | storefront | `NoStrandedCart` | simultaneous requests without a cookie each make a cart |
| `Access` | storefront | `FailedMeansNoOrder` | a checkout whose answer is lost is reported as failed and made its order |
| `Access` | backoffice | `OneOffer`, `OneProductPerForm` | what is tried again after a lost answer is made again, under a new key |
| `Access`, `MaxDeeds = 4` | backoffice | `OneOfferUndisturbed` | a file chosen during a save enables the buttons when its upload ends, and a second save makes a second offer (`catalog/[id]/page.tsx:401`, `:443`) |
| `Access`, `MaxDeeds = 4` | backoffice | `SavedMeansPriced` | a save before the page has loaded leaves the price out and says "Saved" |
| `Access` | backoffice | `StatusSurvives`, `DeliveredIsFinal` | a form writes back the status it loaded; `markReady` asks for none (`digital-fulfillment.service.ts:145`) |
| `Catalogue` | catalogue | `CacheIsNeverStale` | a reader fills the cache after the invalidation of an update it overlapped |
| `Catalogue` | catalogue | `CachedPriceIsCurrent` | an offer changes without an invalidation |
| `Catalogue` | catalogue | `OnSaleHasOffer` | the offer is withdrawn after, or between the check and, the publication |
| `Catalogue` | catalogue | `RenamesAreKept` | an update that does not mention the slug writes the one it had read |
| `Catalogue` | catalogue | `DocumentsNameTheCategory` | renaming a category leaves the search documents |
| `Catalogue` | import | `OneProductPerRow` | a redelivered import creates rows without a slug again |
| `Catalogue` | import | `ReportedRowsAreAlwaysWhole` | a row cut off half-way is found by the next delivery and reported ok |
| `Catalogue` | sync | `ListedIsAvailable` | what is listed beyond the pages a run reads, or beyond the first of a source without pages, is marked UNAVAILABLE by a SUCCESS (`run-sync.ts:97`, `paginated-port.ts:44`, `:60`) |
| `Catalogue` | sync | `ListedStaysAvailable` | pages are fetched by offset: a change in between hides an item that was listed all along |
| `Catalogue` | sync | `UnlistedIsNotForSale` | a record is marked absent and its offer stays active |
| `Catalogue` | sync | `OffersAreRecorded` | two runs each create an offer for one record |
| `Catalogue` | search | `PagesAlwaysCover`, `PagesAreInOrder` | ties, filters and sort are applied to a page after it was cut |
| `Catalogue` | search | `AnswersAlwaysAgree` | four answers about price and stock count variants and windows differently |
| `Catalogue` | search | `NoCycle`, `CountsAreListings` | `updateCategory` takes any parent; the number beside a category leaves out its subcategories |
| `Catalogue` | advisor | `CardsQuoteThePrice`, `CardsKeepTheMinimum` | a card shows the list price; without words the minimum is dropped |
| `Catalogue` | advisor | `WholeMessageCounts` | only the first kind of phrase in a message counts |
| `Catalogue`, `MaxSaid = 3` | advisor | `LastLimitAlwaysHolds`, `BudgetIsPossible` | the latest messages of a long conversation are not read; an old minimum stays beside a lower maximum |
| `Catalogue` | taxonomy | `EditsSurvive`, `RootsStayFive` | a start puts a root back as it was, and creates a renamed one again |
| `Catalogue` | taxonomy | `UnnamedSlugStays`, `NamesComeBack` | an update that overlaps a rename undoes it; the slug of an archived category is taken for free and refused |

## 6. Not modelled

`PROJECT.json` gives the reason per component. Within the modelled ones: the M-Pesa
adapter and the legacy webhook (the same confirmation behind another parser),
`reconcilePendingPayments`, `processCatalogImport` and `processIngestDocument` (no
caller outside tests), creation of fulfilments by an administrator, individual
permissions, security events, the network protocols of the product sources, price
alerts and quarantine reviews, retrieval over the knowledge base, the text of CSV files,
prompts and e-mails, the non-streaming chat, and the 32-bit range of the quantity
columns. Of the front ends: the forms of login and registration, the pages of search and
comparison, those rendered on the server, and the administrators' pages of imports, sources,
promotions, customers and the audit log, which are listings and forms of one request. Much of
the repository is of this kind (controllers that pass arguments on, schemas, the API client,
pages), which is why the mapped lines are a third of it.

## 7. Plan

What could be added, in this order:

1. `Orders` composed with `Inventory` in place of the abstract line, for two orders that
   share a row, and `Checkout` with `Cart`'s statements in place of its cart.
2. Retrieval over the knowledge base, as a function of the tables against a reference.
