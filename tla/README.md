# LootCodes seller fulfilment: a TLA+ verification of the admin API

LootCodes-Api-Admin is a Fastify/TypeScript service over one Supabase Postgres
database. It sells game keys on marketplaces (Eneba, Gamivo, G2A, Kinguin,
Digiseller), buys keys just in time (JIT) from providers (Bamboo, AppRoute,
WGCards) and keeps listings, stock, prices and the order book in step.

Its most valuable state is spread over five tables - `product_keys`,
`seller_key_provisions`, `seller_stock_reservations`, `orders` and
`transactions` - and no handler holds a lock or a transaction over more than one
call. Marketplaces repeat requests, requests overlap, crons run in the
background beside them, processes die between two awaits. This project models
that part first - what becomes of a key from the moment it is reserved until it
is sold, expired, cancelled, refunded or replaced - and around it how keys are bought and how
listings get their stock and price.

Paths below are relative to `src/` of the repository under test, so
`src/infra/...` is `src/src/infra/...` in PROJECT.json.

## Inventory of the system

| Component | State | Operations | Hard behaviour | What makes it correct | Here |
|---|---|---|---|---|---|
| Seller key operations (`src/infra/seller/seller-key-operations.service.ts`) | keys, provisions, reservations, orders, transactions | claim (own stock, source variants, JIT), provision, replay, record sale, release, return, refund ledger | every call is a transaction of its own; stored procedures raise; errors are logged and swallowed | a key has one holder; a sale is booked once; refunds follow keys; nothing stays blocked | `SellerDatabase`, `SellerKeyOperations` |
| Reservation expiry (`src/core/use-cases/seller/expire-reservations.use-case.ts`) | - | two sweeps over pending rows | releases rows it read earlier, without a second look | every pending row is settled, none that was closed reopens | `ReservationExpiry` |
| Eneba webhooks (`src/core/use-cases/seller-webhook/eneba/`) | provider metadata of the row | RESERVE, PROVIDE, CANCEL, replacement RESERVE | rows are found under two order ids; requests are repeated after timeouts | idempotence; the right row is picked | `EnebaFulfilment` |
| Eneba key reconciliation (`src/infra/seller/eneba-key-reconcile.service.ts`) | one scan of the tables | mark reported keys faulty, restock delivered keys Eneba does not list | works for minutes on what it read once, beside everything else; nothing schedules it | no buyer loses a key | `EnebaKeyReconcile` |
| Gamivo import API (`.../gamivo/`) | - | reservation, order, refund, keys, offer deactivation | cumulative refund counts, expiry by timestamp, failure path releases | replays give the same keys; refunds are exactly those announced | `GamivoFulfilment`; the deactivation in `ListingHealth` |
| Kinguin webhooks (`.../kinguin/`) | key uploads | BUYING, BOUGHT, CANCELED, REVERSED, RETURNED, REFUNDED | keys are uploaded before they are finalized | what is booked was uploaded; refunds follow keys | `KinguinFulfilment` |
| G2A webhooks (`.../g2a/`) | - | reserve, renew, order, cancel, inventory and its return | keys delivered at reservation; renewals; returns by key id, whoever has the key by then | G2A is not handed more than it asked for | `G2AFulfilment` |
| Digiseller delivery (`.../digiseller/`) | - | delivery, quantity check | answer first, book later; the answer may be lost | one set of keys per invoice | `DigisellerDelivery` |
| Procurement (`route-and-purchase-jit-offers.use-case.ts`, `buyer-manual-purchase.service.ts`, the buyers of Bamboo, AppRoute and WGCards) | `provider_purchase_attempts`, new keys | rank, check, record, order, poll, save, close; JIT and by hand | timeouts after an order, part of the codes not handed over or not saved | nothing received is lost, every order is on record | `Procurement`, `PurchaseContract` |
| Listing health, variant unavailability | counters and status of a listing | count, pause, trip, recover, propagate, manual stock | read-modify-write of counters, pushes that fail | a pause is not missed | `ListingHealth` |
| Declared stock and prices (`reconcile-seller-listings.use-case.ts` and its three phases) | declared quantity and price of a listing, stock and price on the marketplace | select, decide, push in batches, push one by one, save | the phases have routes of their own and overlap; decisions go stale; batches fail in part; pushes cross | the row says what the marketplace shows; nothing declared at a loss; what is sold out is hidden | `SellerPricing`, `ListingBooks`, `ListingSync` |
| Marketplace HTTP client, token managers | breaker, limiter, cached token | call, retry, refresh | half-open breaker, single flight | bounded probing, one refresh | not modelled |
| Price match, approvals, promo, referrals, support, users, orders back office | rows | CRUD | mostly rules in stored procedures | - | not modelled |
| Inventory back office, key encryption | keys | upload, export, sell by hand, burn, rotate | unconditional updates of keys read earlier | - | not modelled |
| HTTP routes, auth, DI, deploy | - | I/O | crons answer 202 and run in the background, so runs overlap requests | - | routes as requests; the rest only as interleaving |

Components interact through the database only: webhook handlers and the crons
call `SellerKeyOperations`, which calls the database; the JIT service puts
keys into stock as a side effect; RESERVE callbacks write the counters of a
listing the runs of the reconciliation read and the pricing run writes back. Events (`emitSellerEvent`,
`emitInventoryStockChanged`) and alerts are written after the fact and read by
none of the modelled code.

## Modules

Three groups, which share no variables: keys and reservations, purchases, and
listings.

| Module | Models |
|---|---|
| `SellerDatabase` | the tables and the contracts of the four stored procedures |
| `SellerKeyOperations` | `SellerKeyOperationsService`, one action per database call; the shared properties and the inductive invariant `KeyOpsInv` |
| `ReservationExpiry` | `ExpireReservationsUseCase` as a task of its own |
| `EnebaFulfilment` | the four Eneba handlers composed with the two above |
| `EnebaKeyReconcile` | `EnebaKeyReconcileService` beside `EnebaFulfilment`, with what Eneba lists as sold and reported as a state of its own |
| `GamivoFulfilment` | the Gamivo handlers composed with key operations and expiry |
| `MarketOrders` | what the three marketplaces below share: whose a reservation is, which keys its buyer was handed (`given`), answers that may be lost |
| `KinguinFulfilment`, `G2AFulfilment`, `DigisellerDelivery` | the handlers of one marketplace each |
| `MarketplaceFulfilment` | the three selling from one stock, with the sweep |
| `Procurement` | the JIT router and the manual purchase at three kinds of suppliers |
| `PurchaseContract` | abstract: what a purchase promises, without suppliers, polls or ranking |
| `SellerPricing` | the arithmetic of prices: floors, strategies, undercutting, corrections, the selector's ceiling and quantity |
| `ListingBooks` | the listing rows, what the marketplace shows, what stands behind a listing, the rivals |
| `ListingHealth` | callbacks that count outcomes, the breakers, the trip, manual stock, recovery |
| `ListingSync` | runs of `reconcile-seller-listings`, each with one phase: pricing, declared stock or remote stock |
| `Listings` | the three together, with restarts; their properties |
| `MCEneba`, `MCReconcile`, `MCGamivo`, `MCMarkets`, `MCProcurement`, `MCListings` | instances for TLC |
| `SellerKeyOperations_proofs` | what every step of the key operations does to `KeyOpsInv` |
| `SellerStock_proofs` | the same for the invariants that need some failures left out: holders of keys, sales on record, reservations at rest |
| `EnebaFulfilment_proofs`, `GamivoFulfilment_proofs`, `EnebaKeyReconcile_proofs`, `MarketplaceFulfilment_proofs` | the theorems about the four compositions |
| `Procurement_proofs` | the theorems about purchases, with the refinement |
| `Listings_proofs` | the theorems about listings, with the lemmas about prices |

### State: keys and reservations

| Variable | In the code |
|---|---|
| `keyState[k]` | `product_keys.key_state`; `"absent"` is a key that can still be bought |
| `keyOrder[k]` | `product_keys.order_id`, named by the reservation whose sale it is |
| `prov[r][k]` | status of the `seller_key_provisions` row of reservation `r` and key `k` |
| `resv[r]` | `seller_stock_reservations.status`, `"none"` while there is no row |
| `createdAt[r]` | order of creation, which Eneba's queries sort by |
| `orders[r]` | the `orders` row with idempotency key `seller:<r>` and the sums of its transactions, in units of one key's price |
| `pc[t]`, `job[t]` | where a running handler is and its local variables |
| `given[r]` (`MarketOrders`) | external: the keys a marketplace was handed |
| `ordered`, `items[t]` (`MarketOrders`) | G2A: rows with an order id; the provisions a return has still to take |
| `strayed` (`MarketOrders`) | history: rows of other marketplaces a G2A return took a key from |
| `sold`, `reported` (`EnebaKeyReconcile`) | external: what Eneba lists |
| `at`, `scan` (`EnebaKeyReconcile`) | where the reconciliation is, and its locals |

A *task* is one handler in progress. Each action is the code from one await to
the next, so anything another task does can come in between - that is where the
hazards are. A handler is a path through the labels of `SellerKeyOperations`:
`claim -> jit -> claim_retry`; `prov_read -> prov_finalize -> prov_decrypt ->
sale_check -> sale_insert -> sale_credit -> sale_link -> reply`;
`replay -> reply`; `release -> release_status`; `ret_read -> ret_restock ->
ret_flip* -> ret_totals -> ledger_read -> ledger_insert -> ledger_status ->
ret_final`; and for a replacement `repl_read -> repl_faulty -> repl_debit ->
claim`. Kinguin goes from the claim over `decryptPendingWithoutFinalize`, the
upload key by key and the finalize; Digiseller answers before the sale steps;
G2A's return of an inventory takes the delivered provisions of the keys it
names, whoever has them (`items`), and sets each key and then its provision. What a
failure does is the parameter `raised` of an action: Eneba
answers, Gamivo's POST /order releases the row as failed, the sweep goes on
with its next row.

The first read of a handler and the branch on the row's status are one action
(`Reserve`, `Provide`, `Cancel`, `Order`, `Refund`, ...). A request whose first
read leads to an answer without a change is not a step.

### State: purchases

| Variable | In the code |
|---|---|
| `offer`, `allowed` | the offers of the suppliers; auto-buy on and the variant not blocked |
| `status[<<b, p>>]` | `provider_purchase_attempts.status` of buy `b` at supplier `p` |
| `order`, `codes` | external: the order at the supplier and what it delivers |
| `stock` | hashes in `product_keys` |
| `buy[b]` | where a buy is: candidates left, codes handed over, still to save, saved and lost, verdict, what its caller was told |

The supplier is an actor of its own: it may complete an order after the buyer stopped waiting, hand
over a part of what it sold (`Delivered`), and the answer to an accepted order may be lost. Which
checks precede an order and how long is waited depends on the supplier's kind (`BambooQuote`,
`AppRouteEstimate`, `WgcardsChecks`, the three polls).

### State: listings

| Variable | In the code |
|---|---|
| `mode`, `row` | `seller_listings`: net or gross, smart pricing, follows its supplier, auto price; status, declared stock, price, counters |
| `shop`, `supply`, `rivals` | external: what the marketplace shows, the keys and offers behind a listing, competitors' prices |
| `task`, `run` | the callbacks and the runs, with what they read, planned and have left to do |
| `late` | saves of a declared stock that nobody awaits (`void this.persistSuccess(...)`) |
| `writers`, `doubt`, `spared` | history: who is between pushing and saving; where a push failed or two writers crossed; who was resumed by hand or missed its pause by a restart |
| `past[l]` | history: the runs that another run's price of `l` has overtaken since they loaded it |

`/internal/cron/seller-pricing`, `seller-declared-stock` and `seller-remote-stock`
(`internal-cron.routes.ts:190`, `:229`, `:296`; every 10, 5 and 15-30 minutes) start one phase
each, the first and the last in the background after a 202; administrators start prices
and stock on routes of their own (`seller-pricing.routes.ts:110`, `:124`). No run looks for
another. `run[t]` is one such run of the phase `PhaseOf[t]`; any number of them interleave call by call
with each other and with the callbacks. Within a run the order is the code's: load, decide for all,
correct prices and save them, push stock and save it, or push both one by one. A price is pushed
as `max(price, floor)` by the pricing run and saved unclamped (`seller-pricing.service.ts:325`,
`seller-auto-pricing.service.ts:815`). Corrected prices are saved whatever the marketplace answers,
unless it throws or, in a batch of the declared phase, takes none.

### External contracts

The SQL functions are not in the repository. `SellerDatabase` states what the
callers and their comments rely on, and these entries are external in the map:

* `claim_and_reserve_atomic` takes the wanted number of available keys of a
  pool or none, skips keys with a pending provision (the NOT EXISTS guard named
  at `seller-key-operations.service.ts:371`) and creates the reservation row,
  whose `external_reservation_id` is unique (comment at
  `handle-eneba-key-replacement-reserve.use-case.ts:154`).
* `finalize_seller_provisions_atomic` delivers all listed provisions or raises
  if one is not pending any more, and sets the row to provisioned.
* `release_seller_reserved_keys` frees the reserved keys and fails the pending
  provisions in one transaction (`seller-key-operations.service.ts:366-371`).
* `batch_restock_seller_keys` restocks the keys that are in a listed state.

If a deployed procedure promises less, the properties below say nothing about
it; that is the main assumption of the project. Marketplaces and suppliers are
external too and modelled from how the code uses them: their requests
(`MayStart`), what they were handed (`Give`, `Answer`), what Eneba lists
(`Hears`, `Withdraw`, `BuyerReports`), open orders (`Complete`), what a listing
shows (`Declare`, `PricesAnswered`, `ShopStock`).

### Failures

`Faults` selects what may go wrong in the key compositions: `crash` (the process
dies or an uncaught error ends a handler between any two calls), `rpc` (a
procedure raises), `read`, `refunds` and `write` (a query or update whose error
the code catches and logs), `decrypt`, and `market` (a call to the marketplace
fails, an upload is refused, an answer is lost). `Procurement` has `supplier`
(refused orders, lost answers, windows that pass), `database` (inserts that fail)
and `rates` (unknown exchange rates); that a purchase may stop for ever anywhere,
since its specification has no fairness, stands for a process that dies. `Listings` has
refused and lost pushes, transient errors and `Restart`.

## Runs

| Run | Instance | Shows |
|---|---|---|
| `EnebaOrders` | 2 orders (4 rows), 2 keys of which one in a source variant, 1 write-off, one request at a time beside the sweep, no two tasks about one order | `TypeOK`, `OneHolder`, `StockIsFree`, `SettledRowsAgree`, `SoldIsRecorded` |
| `EnebaOverlap` | 2 order ids of one substituted buyer, 1 key that is bought JIT and that either may claim, 2 requests and the sweep, any overlap, failing procedures and decryption | `SaleRecordedOnce`, `NeverReopened` |
| `EnebaFaults` | 1 order, 2 keys, 1 request overlapping the sweep, crashes and all caught errors, 1 write-off | `NoPhantomProvision`, `AnswersAreFinal` |
| `EnebaLive` | 1 order of 2 keys of which one is bought JIT, 1 request, sweep and key reconciliation overlapping, Eneba withdraws, reports, does not answer; fairness | `BuyersKeysStay`, `ReservationsSettle` |
| `GamivoOrders` | 2 reservations of 2 keys each over 3 keys, counts 1 and 2, serial, fairness | `StockIsFree`, `SettledRowsAgree`, `LedgerFollowsKeys`, `RefundedAsAnnounced`, `ReservationsSettle` |
| `GamivoFaults` | 1 reservation, 1 key, 2 requests and the sweep, every fault | `KeyOpsInv`, `NeverReopened` |
| `Markets` | one Kinguin sale of 2 keys, one G2A and one Digiseller sale of 1, 2 keys for all three, 1 request overlapping the sweep, refused uploads, lost answers, failing decryption | `DeliveredWasUploaded`, `GivenWithinQuantity`, `GivenIsFinal`, `KinguinBooksFollowKeys`, `SharedStockIsFree`, `NoPhantomProvision`, `NeverReopened`, the types |
| `Procurement` | a JIT buy and a manual one of 2 codes each, 2 suppliers, 3 tables of offers over all kinds, partial answers, every fault | `OrdersAreRecorded`, `NoReceivedCodeIsLost`, `CheapestFirst`, `StopsOnceSupplied`, the refinement `ContractKept`, the types |
| `Listings` | one listing from 4 starts, 2 callbacks or administrators and a run of each phase, any two of them in progress at once, 2 moves of the world; fairness | `BooksMatchShop`, `BreakersHold`, `NeverPricedBelowFloor`, `NeverDeclaredAtALoss`, `DryListingsHide`, the types |
| `EnebaDoubleCancel` | 2 orders, 1 key, overlap | violates `StockIsFree` |
| `EnebaReplacedResold` | 2 orders, 1 key, serial | violates `OnlyOwnKeysGoFaulty` |
| `GamivoDoubleOrder` | 1 reservation, 1 key, overlap | violates `DeliveredIsReplayable` |

**Bounds.** Two orders and one key are the smallest instance in which one order
can take what another one gave back; two requests and the sweep are what the
races need (no counterexample has more than two requests in progress). Two keys
per Gamivo reservation are the smallest number with a partial refund, three
keys over two such reservations make them compete. `MaxWriteOffs` bounds how
often Eneba asks for a replacement of one sale; without it the write-off sum
grows for ever. `RefundCounts` bounds the counts Gamivo announces; one
reservation only ever has one key refunded, so that a partly refunded order at
rest is reached. `EnebaFaults` switches the deadlock check off, because with
one order and the bound on write-offs the system may have nothing left to do.
`EnebaOrders` uses symmetry over requests and orders, which
no constant of that instance tells apart, `Procurement` over codes; the runs with
liveness use none.

`EnebaLive` has two keys and `MaxOrderBatch = 1`. Its one order of two keys is
delivered and withdrawn as a whole, but its two provisions are confirmed, reported and
restocked one by one. A second order beside the reconciliation is too much for a
liveness check in reasonable time; therefore substituted orders are
checked for safety (`EnebaOverlap`) and not for liveness.

`Markets` has fewer keys than the three sales ask for, so that they compete, and
two for Kinguin, so that one upload of two can fail.

`Procurement` has as many suppliers as it takes for a next candidate, and codes
that two orders may both deliver (a code already sold). `FewOffers` holds one
supplier cheaper than the other, two at one price, and one without a price beside
one above what `SalePrice` leaves after `MinMargin` and `Fees`. Every kind of
supplier is first once. The deadlock check is off: bought or refused, a buy is over.

`Listings` has thresholds of two, so that one lost count matters, and `MaxMoves`
bounds changes of supply and rivals, refused pushes, callbacks, manual settings
and restarts together. `MaxAtOnce = 2` bounds the runs and requests in progress at once: every pair of
them overlaps in every order, also several times in a row, and what the properties relate
- two writes of one field, a correction and its stock, a counter read and written back - a second
task suffices to cross. The proofs have no such bound. Its prices are a few cents with a commission of a fifth,
which makes every rounding of the real arithmetic happen; `FewRivals` has no rivals, a gap
above the floor and two rivals below it. The four starts are a smart net
listing, a smart gross one, a plain one whose supplier has no credit and one priced and stocked by
hand. The deadlock check is off because after the last move everything may be
at rest.

**Overlap.** With `Overlap = FALSE` no request starts, and the sweep takes no
row, while another task works for the same order. `OneHolder`, `StockIsFree`,
`SettledRowsAgree`, `LedgerFollowsKeys` and `RefundedAsAnnounced` are claimed under
that assumption only; the three violation runs and the list below show what overlaps
do to them. `Markets` has one request at a time, which the sweep may overlap. The other
safety properties hold for any overlap; what is proved of each, and without which
failures, is said under "What is proved".

**Fairness.** `FairSpec` assumes that a request, once started, goes on (the
event loop runs it to its answer) and that the cron keeps sweeping: EventBridge
posts to `/internal/cron/*` on a schedule, and `expires_at` of every pending row
passes some day. No fairness is assumed for requests to arrive, so a
reservation the marketplace abandons is settled by the sweep alone.
`ReservationsSettle` is checked without failing procedures and updates: a release that
fails on every sweep never settles its row. `FairReconcile` asks the same
of the webhooks and the sweep and nothing of the reconciliation, which no route starts: it may run at any
time or never. `Listings` assumes that every run that was started goes on to its end and that its route
is called again, and that every callback ends; it states this over the states in which they rest, which
is what weak fairness of `Reconciled(t)` and `Served(t)` comes to and is cheaper to check.
Restarts are bounded by `MaxMoves`, so they cannot starve the runs.

**Refinement.** `PurchaseContract` knows attempts, accepted orders, codes saved
and the answer given. `Procurement!Contract` maps `placed` to the attempts that have an
order at the supplier, `served` and `told` to what the buy has saved and was told.
Everything else of the purchase - ranking, guardrails, quotes, polls, the
supplier itself - is a stutter. `ContractKept` then says: no order without a pending
attempt on record, at most one order per attempt, codes saved only under an attempt
with an order, an attempt closed once and never as a success or a timeout unless there was an
order, "bought" exactly if something was saved.

**Mutants.** The operators whose comment begins with "Mutant of" are not part
of the specification. Each is a plausible bug in the code of the definition it
names (a status check dropped, the ledger debiting the whole amount again, a
cumulative count taken for a delta ...) and each checked property fails with
one of them in place; PROJECT.json pairs them.

## What the violation runs show

* **EnebaDoubleCancel.** Two overlapping CANCELs read the same delivered
  provision. The first restocks the key, another order reserves it, and the
  second restocks it again, because `seller_reserved` is a restockable state
  (`seller-key-operations.service.ts:776`). The key of a pending reservation is
  in available stock. (It cannot be claimed while that provision is pending,
  because the claim procedure skips it; a later PROVIDE sells it.)
* **EnebaReplacedResold.** After a CANCEL has put the key back in stock and another order has
  reserved or bought it, a replacement request for the first order marks that
  key faulty (`handle-eneba-key-replacement-reserve.use-case.ts:285`), without
  any overlap.
* **GamivoDoubleOrder.** Of two overlapping POST /order the loser marks the
  reservation failed although the winner delivered the keys
  (`handle-gamivo-order.use-case.ts:108`); later requests get a 500 instead of
  the replay that `.cursor/rules/marketplace-seller-webhooks.mdc:110` describes.

## What the models have and no run is spent on

Behaviour met while modelling, which the model reproduces or leaves out as stated
and no property contradicts. Places where a comment says otherwise are marked (*).

Keys and reservations:

* a PROVIDE that the expiry sweep overtakes after it has finalized leaves an expired row
  with delivered keys (`seller-key-operations.service.ts:376`);
* when decryption fails after finalizing, the sale is never recorded: the retry
  replays keys but records nothing (`:197-203`);
* a replacement's write-off and a later full refund together exceed the sale;
* two overlapping Gamivo refunds with one count take back too many keys;
* a failed read of the earlier refunds (`:893`) debits the cumulative amount once more;
* Kinguin: when an upload fails, keys already uploaded are released and sold again; when a read
  after the finalize fails (`handle-kinguin-webhook.use-case.ts:270`) the row is provisioned and its
  sale never booked, which violates `KinguinBooksFollowKeys` as soon as `Faults` has `read`; a
  repeated BUYING without stock buys by JIT again; REFUNDED keeps the keys;
* G2A: a late renewal marks a provisioned row expired; two overlapping POST /order both insert the
  sale; the return of an inventory looks for delivered provisions by key id alone
  (`handle-g2a-return-inventory.use-case.ts:43`), so one that is repeated after the key was sold
  again takes it from its next buyer, a Kinguin one included, and refunds that buyer's provision
  without a refund in the books; a lost reservation answer strands keys that were delivered with it;
* Digiseller: a delivery that fails after its claim leaves the row pending until the sweep.

Key reconciliation (`eneba-key-reconcile.service.ts`):

* a batch of orders that cannot be fetched is logged as "skipping batch" (`:259`), but its
  provisions count as orphans and are restocked (`:276`) (*). `BuyersKeysStay` is
  therefore about buyers whom Eneba named to the scan, no others;
* the comment at `:34` leaves the debit to a CANCEL that arrives later, but the row is
  `cancelled` by then and CANCEL ignores such rows (*);
* the comment at `:4` puts it into the seller-housekeeping cron, whose phases
  (`internal-cron.routes.ts:171`) do not contain it, nor do those of any other route (`:201`, `:259`,
  `:307`) (*). The model lets it run at any time and claims nothing that needs it to run: that orphans
  come back is not claimed;
* a key whose PROVIDE is still being answered is restocked as an orphan: nothing looks at
  the age of a provision; a reservation is cancelled when only some of its keys are orphans.

Purchases:

* after a timeout that can be recovered the router goes on to the next supplier, with a fresh idempotency
  key; an order whose answer is lost is closed as failed without a reference;
* "Poll getBuyCard until all cards are delivered or max attempts reached"
  (`wgcards-manual-buyer.ts:208`), but the first answer with any record ends the poll and blank
  cards are dropped (`:222-226`) (*); Bamboo takes the cards sold so far
  (`bamboo-manual-buyer.ts:450`), AppRoute drops masked vouchers and asks for them unhidden only
  when all are (`approute-manual-buyer.ts:349-350`). The attempt is a success, and codes sold and
  not handed over are neither in stock nor in `failed_ingestions`;
* JIT drops `failed_ingestions`; a code that is saved already counts as ingested;
* the daily limit reads transactions that no purchase writes, and reads before it acts; the
  block of a variant fails open, and reads `sales_blocked_at` where the admin route writes
  `sales_blocked`;
* when a rate is unknown the margin, the fees or the whole ceiling are left out, which the comment
  at `seller-jit-procurement.service.ts:91` calls conservative (*).

Listings:

* the remote phase loads paused listings too and declares positive stock on them
  (`seller-stock-sync.service.ts:627`), against `procurement-declared-stock-reconcile.service.ts:838`
  and the purpose of a tripped breaker (*). `DryListingsHide` and `BreakersHold` are about
  active listings;
* "Price corrections must be pushed BEFORE declaring stock so the listing is never sold below cost"
  (`procurement-declared-stock-reconcile.service.ts:391`) holds within a run only (*): a pricing run
  that decided on the cheaper supplier without credit pushes its lower price between another run's
  correction and its stock, and no push has failed. `NeverDeclaredAtALoss` excepts runs that were
  overtaken (`past`); without that exception TLC violates it in eight steps;
* the pricing run saves a price below the provider's floor while the marketplace asks the floor
  (`seller-auto-pricing.service.ts:815`); `BooksMatchShop` admits exactly that difference and is
  violated without it;
* a failed zero push after an out-of-stock trip is never repeated, although
  `listing-health.service.ts:349` says that the reconcile cron will (*);
* for a net listing without smart pricing or rivals `suggestPrice`
  (`seller-pricing.service.ts:188`) returns a price below the floor, which
  `seller-auto-pricing.service.ts:503` calls a violation (*). `NeverPricedBelowFloor`
  excepts exactly that, and speaks of the moment of the decision: rivals may move after it;
* a smart net listing with a published price of zero has no ratio between the two prices and is
  skipped (`seller-auto-pricing.service.ts:604`); a `margin_target` of 100% divides by zero, which
  nothing refuses (`ASSUME TargetMargin` leaves it out);
* the selector's ceiling multiplies by one minus the margin where its comment divides by one
  plus it, so a price that was just corrected may be corrected again (*);
* the database saves a price for items of a batch the marketplace refused; the stock sync
  corrects prices with `auto_sync_price = false`, and a failed count of keys is taken for none;
* listings that do not follow their supplier flip between the declared and the remote phase;
* overlapping callbacks lose counts; recovery does not reset the out-of-stock counter; a
  restart between the counters and the pause leaves a listing active at its threshold (`spared`);
* a run's push that crosses a callback's zero push or another run's, and a transient error after which the
  quantity is saved as shown (`late`), leave row and marketplace apart (`doubt`).

## What is proved

For every set of keys, reservations, orders, listings, buys, suppliers and tasks, from
the assumptions named in the modules: finite sets where the code counts or takes a least
one (keys, rows, tasks, `SuppliersFinite`), types of the constants, rows of Eneba are order
ids times sale and replacement, and a `margin_target` other than 100% (`TargetMargin`).

| Theorem | States | Overlap, faults |
|---|---|---|
| `EnebaKeyOps`, `GamivoKeyOps`, `GamivoInvariant` | `[]KeyOpsInv`; for Gamivo with `FailsAsFailed` | any |
| `EnebaTypes`, `GamivoTypes` | `[]TypeOK` | any |
| `EnebaNoPhantoms`, `GamivoNoPhantoms`, `MarketNoPhantoms` | `[]NoPhantomProvision` | any |
| `EnebaSaleOnce`, `GamivoSaleOnce` | `[]SaleRecordedOnce` | any |
| `EnebaAnswersFinal`, `GamivoAnswersFinal` | `[]AnswersAreFinal` | any |
| `EnebaNeverReopened`, `GamivoNeverReopened`, `MarketNeverReopened`, `ReconcileNeverReopens` | `NeverReopened` | any |
| `EnebaSoldIsRecorded` | `[]SoldIsRecorded` | any overlap; `Booked`: no crash, failed write, failed decryption |
| `EnebaStock`, `GamivoStock` | `[]StockInv` | `Orderly`: no overlap, crash, failed write |
| `EnebaOneHolder`, `GamivoOneHolder` | `[]OneHolder` | `Orderly` |
| `EnebaStockIsFree`, `GamivoStockIsFree` | `[]StockIsFree` | `Orderly` |
| `EnebaRowsRest`, `GamivoRowsRest` | `[]EnebaRestInv`, `[]GamivoRestInv` | `Calls`: no overlap, crash, failed procedure, write, decryption or read of refunds |
| `EnebaRowsAgree`, `GamivoRowsAgree` | `[]SettledRowsAgree` | `Calls` |
| `GamivoLedgerFollows` | `[]LedgerFollowsKeys` | `Calls` |
| `GamivoReplayable` | `[]DeliveredIsReplayable` | `Calls` |
| `GamivoRefundedAsAnnounced` | `[]RefundedAsAnnounced` | no overlap, any fault |
| `ReconcileInvariant`, `ReconcileKeepsPromises` | `[]ReconcileInv`; from it phantoms, sales, answers as above | any |
| `NamedBuyersKeep` | `BuyersKeysStay` | any |
| `MarketInvariant`, `MarketTypes` | `[](MarketInv /\ ItemsFinal)`, `[]MarketplaceTypeOK` | any |
| `KinguinHasItsKeys`, `NoneGivenTwice`, `AnswersStayFinal` | `[]DeliveredWasUploaded`, `[]GivenWithinQuantity`, `[]GivenIsFinal` | any |
| `MarketStock`, `MarketStockIsFree` | `[]StockInv`, `[]SharedStockIsFree` | `Serial`: one request at a time per row, or one worker beside the sweep; no failed write |
| `MarketBooks`, `KinguinBooksEven` | `[]BooksStaged`, `[]KinguinBooksFollowKeys` | `Reliable`: `Serial`, no failed procedure or read; rows no G2A return took keys from (`Counted`) |
| `PurchaseInvariant`, `ProcurementTypes` | `[]PurchaseInv`, `[]ProcurementTypeOK` | any |
| `OrdersRecorded`, `NothingReceivedIsLost`, `CheapestIsFirst`, `SuppliedBuysStop` | `OrdersAreRecorded`, `NoReceivedCodeIsLost`, `CheapestFirst`, `StopsOnceSupplied` | any |
| `PurchaseRefines` | `Spec => ContractKept` | any |
| `BooksInvariant`, `ListingTypes` | `[]BooksInv`, `[]ListingTypeOK` | any |
| `BooksAgree`, `BreakersNeverOverrun`, `PricesCoverFloors` | `BooksMatchShop`, `BreakersHold`, `NeverPricedBelowFloor` | any |
| `CostsAreCovered`, `StockIsDeclaredCovered` | `[]CostsCovered`, `NeverDeclaredAtALoss` | any; runs that were overtaken and unpriced listings are excepted by the formulas |

**Key operations.** None of the safety properties for any overlap is inductive alone: that
an answer holds only finalized keys depends on what the task read two calls
ago, and that a sale is booked once depends on no second task having got past
`finalize`. `KeyOpsInv` adds what a task relies on between its calls:
`Relies(l, j)` and `SaleRelies(l, j)` are predicates on a label and its locals
(a row being returned is *quiet*: it has no pending provision and never gets one
again; the keys of an answer are delivered or refunded; a row being sold has no
order yet), and `OneSeller` says that at most one task is between the finalize
and the sale credit of a row, because only one finalize of a row can succeed.

The database only moves one way: a quiet row stays quiet, a final
provision stays final, a closed row stays closed. That is `Monotone`. The
lemmas of `SellerKeyOperations_proofs` show, action by action, that a step
preserves `KeyOpsInv` and is `Monotone`; `OthersRely` and `StepKeeps` do the
part that is the same for all of them, that the other tasks still find what
they rely on. The two modules on top show the same of the handlers' first and
last steps and combine the cases; `NeverReopened` is a conjunct of `Monotone`.
Gamivo needs `FailsAsFailed` besides, because its failure path takes a task
from provisioning into the release with the status it has carried from the start.
TLC checks `KeyOpsInv` itself in `GamivoFaults`.

**Holders of keys** (`StockInv`). A return restocks the keys first and flips
their provisions one by one afterwards, so in between a key is free and still held.
`FreeIsUnheld` therefore excepts the keys a task is about to flip, `ReturnsOwnKeys` says that
these are keys of its row that nobody else holds, and `OneReturner` that no two tasks
return keys of one row. Each hypothesis of `Orderly` is needed: two overlapping CANCELs break
`OneReturner` and with it `StockIsFree` (run `EnebaDoubleCancel`), and a crash or a failed
update between the restock and the flip leaves a key in stock that a reservation still holds.

**Sales on record** (`RecordInv`). An order's status says whether its sale was booked, and a row that
was ever provisioned has an order or a task between its finalize and the order. Overlap does no harm
here, because of `OneSeller`; a crash, a failed insert or a failed decryption in that
stretch loses the sale, since the retry replays keys and books nothing, and `Booked` leaves those out.

**Reservations at rest** (`RestInv`). `Rests(r, U)` is what a row that nobody works on owes its
provisions, keys and order, a little more than `SettledRowsAgree` (the orders of replacements, the
rows in `U`, are never booked; every refund on the order is a key taken back). `Stage(l, j, U)` says
for each label how far from that the row of a task is: with the order still to insert, to credit or
to link, with keys restocked and not yet flipped, with the totals read but the debit not yet
written. `Alone` says that one task works on a row. A row nobody works on is left alone by every
step (`HeldStates` gives the state of each key it holds, so that no other row's claim, return or
replacement can touch it), and each action takes its own row from one stage to the next. Eneba adds
`FamilyAlone` (a task serves the original and the substituted order id together) and `NoEvents`;
Gamivo adds that no key is faulty. `LedgerFollowsKeys` and `DeliveredIsReplayable` are consequences.
The latter is what `GamivoDoubleOrder` violates: the theorem shows that the overlap is the only
thing missing there. A failed write, procedure or read of the earlier refunds in a return is logged
and the row closed all the same, which is why `Calls` excludes it.

**Announced refunds** (`AnnouncedInv`). At each label of a refund what was taken back, and
what the task means to take back with it, is at most an announced count. The count asked for is a
difference to what the refund read first, so nobody else may refund in between
(`Alone`), but no failure can make it more; the theorem needs `~Overlap` and nothing else.

**Reconciliation** (`ReconcileInv`). The phase writes keys, provisions and rows from an
old scan without being one of the tasks. Its writes are `Monotone` and leave `RowsMatchProvisions` true,
so the tasks find what they rely on; and no key that Eneba named to the scan is among those it means to restock.

**Kinguin, G2A, Digiseller** (`MarketInv`). A G2A order may book a row twice, so `KeyOpsInv` does not hold
with G2A in the composition. `MarketInv` has instead `Handed`: a row claims once and
at most its quantity, and what is final at Kinguin was uploaded, what G2A and Digiseller were given is
final. `MarketRelies` is the counterpart of `Relies`, and `ItemsFinal` what a return
relies on that works through provisions of any row: they stay final.

The common stock adds a `StockInv` of its own: a key has one keeper (`OneKeeper`), whose provision
says what the state of the key is (`KeptStates`), and whoever takes keys back, in a return or item
by item at G2A, takes keys that are delivered to the row it has in hand (`TakesOwnKeys`). For a G2A
return that row is whichever the key id led to, its own or a later buyer's: the provisions still to
take stay delivered because nobody works on their rows meanwhile (`ItemsAwait`), and as each key
goes back with the provision found for it, a key in stock has no live provision even when the wrong
buyer lost it. Nobody else works on a row in hand (`OneWorkerPerRow`): this is where `Serial` is
needed. TLC violates `SharedStockIsFree` with two overlapping workers, and with a failed write
between the key and its provision. The sweep needs no such exclusion: it releases pending
provisions, and a row in a return has none.

`BooksStaged` does for Kinguin what `Stage` does for Eneba and Gamivo: `Even` is a sale at rest,
booked in full and refunded key by key, `BookStage(l, j)` how far from it the row of a task at label
`l` is. All of Kinguin's returns are of the whole sale, which is why a failed read of the earlier
refunds does no harm here (`Sold`: the refunds are all or nothing), unlike at Gamivo. A claim, a
release and the sweep leave all books as they are (`ClaimSameBooks`, `ReleaseSameBooks`), a G2A or
Digiseller task those of every row but its own (`OthersBooks`), except that a G2A return strays into
a Kinguin row, which is then not `Counted` any more: its provision is refunded and no refund is
booked. A restock that fails for every key leaves them delivered and refunds them all the same, as
TLC shows with a failing procedure in the `Markets` run, and a failed read after the finalize leaves
the sale unbooked; hence `Reliable`.

**Purchases** (`PurchaseInv`). Per buy: suppliers not yet tried have no attempt (`Untried`), the
attempt in hand has exactly the status and the order its label says (`Placed`), each code handed
over is left, saved or lost (`Accounted`), the answer says what was saved (`Answered`), and what is
left of the ranking is in order of price, affordable and not cheaper than the one in hand
(`Sorted`). An induction over the number of offers is not needed: the ranking is a list that is
sorted when it is made, and only its tail is kept. `PurchaseRefines` then takes each step either to
a step of `PurchaseContract` or to a stutter.

**Listings** (`BooksInv`). Stock and price are each written twice, at the marketplace and in the
row, by any number of runs and callbacks at once. `Sound` says what row and marketplace have of a
field that nobody is between the two writes of and that is not in doubt, and what the only writer
has written already; a second writer or a late save makes the field doubtful (`Crossed`).
`WritersAreKnown` says who is between the two, `InOrder` that a run has left to do only what its
stage leaves, `HidesNothing` that a callback that has not declared anything will declare zero. For
the breakers `BreachesHandled` follows the counters a task has read and may yet write back, the
count the pricing run writes back with a price among them: each is below its threshold or has a task
on its way to the pause. The lemmas of the first part are about `SellerPricing`: every floor is an
amount, `UndercutCovers`, `SuggestedCovers` and `PositionedCovers` show for any rivals that what is
chosen is at least the floor it was chosen for.

**Costs** (`CostsCovered`). The remote phase declares a supplier's stock without looking at the
price when the selector accepts the offer; `CeilingMeansFloor` shows that the ceiling on costs and
the floor under prices, two formulas that round in opposite directions, agree whenever there is a
price, and `CorrectedCovers` that a corrected price is never below the floor. For a run that nobody
has overtaken at a listing (`t \notin past[l]`) `SeenNow` says that the price it loaded is still the
one recorded, `BooksInv` that the marketplace asks it or more unless a push is in doubt, and
`PlanCovers` carries the decision through the batch, its saving, the single corrections and the
single pushes. A listing without a price is excepted: the selector takes a price of zero for an
unknown one, accepts every offer and the remote phase declares its stock without a correction.

**Model-checked only.**

* `ReservationsSettle`, `DryListingsHide`: liveness under fairness
  is beyond the prover.
* The violated properties, of course, and what the SQL functions promise.

No module has a RECURSIVE operator, so all can be proved about.

## Abstractions

* Amounts are counted in keys. `total_amount` is the unit price times the
  number of keys and a refund target is a multiple of the unit price, so
  `Math.round` at `:888` is exact for whole numbers of keys.
* A RESERVE has one auction; the listing is active (an inactive one is refused
  before anything changes).
* The linking of keys to an order is one step for all keys; flipping provisions
  is one step per row. The per-key fallback of a restock is one step that may
  leave out any of the keys.
* "First by id" is any, since ids are random UUIDs. "Newest" is by creation.
* JIT procurement puts some number of new keys, at most the quantity, in the
  own pool or fails.
* The backstop sweep and the `expires_at` sweep select different rows and then
  do the same; both are the `Cron` task. One sweep runs at a time.
* `provider_metadata` (last realised net, last error), events
  and alerts are left out.
* The key reconciliation's three reads at the start are one step; rows are younger than
  `LOOKBACK_DAYS` and the listing is active; one provision stands for each hash.
* A G2A reservation is for one product; what Kinguin, G2A and Digiseller get for their keys is
  counted in keys as above.
* A supplier has one offer for the variant, a buy one variant, and prices are whole units in one currency.
* Listings: one marketplace with batches (Eneba's shape), declared stock, one currency;
  left out are the budget of paid price changes and its quota, dampening, oscillation,
  manual floors, realised net, caches, failing reads, excluded merchants, Kinguin's cap on
  quantities, listings with uploaded keys, and the propagation of an unavailable variant to its other listings.

## Not modelled

* **HTTP client, token managers.** Breaker, limiter, retries and cached tokens
  keep nothing in the database; to a handler a call is answered or fails, which the models let
  happen at any call. Beside the handlers the counters of the client are beyond what TLC explores. Seen while
  reading: on a 401 the Eneba client reloads its token from an empty cache, which changes
  nothing, so the retry repeats the old token; half-open lets every waiting request through and
  keeps the old failure count; the limiter is asked once for a call and all its retries.
* **Bamboo callback, recovery of timed-out orders.** The callback updates
  `provider_purchase_queue`, into which nothing in `src/` inserts; recovery is the stored
  procedure `claim_pending_provider_purchases`. Neither has code here to translate.
* **Inventory back office.** `manualSellKeys`, `bulkBurnAvailableKeys`, `updateAffectedKey` and
  `exportKeysCsv` read a key's state and update it unconditionally, so a webhook's claim in
  between is overwritten: the properties about keys are claimed for the webhooks, the sweep and the
  reconciliation only, with no administrator at the same keys.
* **Price match, approvals, promo, referrals, support, users, orders.** One or two database
  calls each around stored procedures that are not in the repository. Price match
  approval checks first and acts afterwards, so two approvals may cross.
* **Dead code.** `HandleKeyUploadOrder`, `MarketplaceRefund`, `InventoryCallback`,
  `ListingDeactivation` are registered and no route calls them.
* **Routes, authentication, DI, deployment.** I/O; the webhook routes appear as the requests
  (`Request`, `G2ARequest`).

## Plan

1. `MarketplaceClient` (breaker, limiter, single-flight token) as a module of its own, shown to implement
   an abstract cached token.

## Running the checks

    tlc -workers 2 -config EnebaOrders.cfg MCEneba
    tlapm EnebaFulfilment_proofs.tla

Each run's name is the name of its configuration; the module is `MCEneba`,
`MCReconcile` (`EnebaLive`), `MCGamivo`, `MCMarkets`, `MCProcurement` or `MCListings`.
The longest runs (`Procurement`, `Markets`, `EnebaOverlap`, `Listings`; up to five million distinct
states) take one to two minutes.
