# Verification of the digital store core

TLA+ models, model-checking runs and proofs for the store in this repository: an
HTTP service that takes orders for digital goods, has them paid by a payments
service, obtains codes from code services, keeps a balance, and is put back on
its feet by a recovery request after failures. Paths below are relative to the
repository.

## 1. The system

### Components

| Component | State | Operations |
|---|---|---|
| Orders, payments, balance (`app/models/{order,payment,balance}`, SQLite) | order rows (group, status, code), payment rows (status, event id), balance transactions (deposit per payment; charge and refund per order, unique indexes) | transactions, compare-and-set of a status, insert-or-ignore |
| Order creation (`actions/create_order.go`) | - | one transaction for the orders and the payment, then an event in `payments:init` |
| Payment start (`actions/init_payment.go`) | goroutine polling `payments:init` | POST to the payments service, status `init` to `await` |
| Payment result (`web/payments.go`, `actions/update_payment.go`) | goroutine polling `payments:update` | webhook to queue; settlement transaction; paid orders to `orders:paid` |
| Provider choice (`actions/choose_provider.go`) | goroutine polling `orders:paid` | event to the queue of the product type |
| Code delivery (`actions/get_code.go`, `models/issue`) | two goroutines (`get-issue:any`, `get-issue:giftcard`), issue rows | status to `delivering`, request with retries and fallback address, transaction with status, code and charge |
| Cancellation (`actions/cancel_order.go`) | - | one transaction in the HTTP handler: `cancelled` and refund |
| Recovery (`web/api.go`, `recoveryOrders`) | - | lists up to 500 unfinished orders, publishes their events again |
| Payments service stub (`mocks/payments`) | payment rows (status, event id) | create, decide and call the webhook, resend the webhook |
| Code service stub (`mocks/codes`) | codes, requests | hand out a code per request, generate codes, injected errors and delays |
| Queue and redis stub (`app/queue`) | FIFO lists in memory, locks | push, pop, poll |
| Catalogue and seeds (`models/product`, `cmd/api/seeds.go`) | product rows | filled from a file at the start; the products of a request looked up by sku |
| Composition (`cmd/api/main.go`) | - | starts the goroutines over one database and one set of queues |
| Read endpoints, static page | - | read rows; the balance of a user |
| Migrations, users | schema, user rows | start-up work of a library |

The parts talk through rows (SQLite serialises transactions), through the
in-memory queues (an event leaves its queue before its handler runs, and a
handler that fails only logs: at most once), and through HTTP. A crash of the
shop empties queues and goroutines and keeps the rows; the two services are
processes of their own.

### What is hard

- **Ordering.** The service knows the payment before the shop awaits it; webhooks
  come early, twice, late, or never; two requests may decide one payment.
- **Crashes and errors** between a commit and the publish after it, and between
  the two transactions of a delivery.
- **Retries.** A request may be served after its client gave up, a repetition
  may go to another address, only the last attempt's error is reported.
- **Stale data.** Events carry the row as it was read; recovery publishes rows
  as it listed them.
- **Races** of the two delivery goroutines over one code, and of cancellation
  with delivery.

`PROJECT.json` lists each hazard with its line and the properties aimed at it.

## 2. Modules

| Module | What it models |
|---|---|
| `Store` | rows, `payments:init`, `orders:paid`, the recovery requests, the common part of a crash; helper operations `UpdateStatus` (compare-and-set) and `CreateOrIgnore` |
| `PaymentFlow` | `Store` plus order creation, `InitPayment`, the payments service, webhooks, `UpdatePayment` |
| `PaymentContract` | what the payment side promises: a payment is opened with its orders, decided, and settled once, with orders and deposit in the same step |
| `Delivery` | `Store` plus `ChooseProvider`, `GetCodeForOrder`, issue rows, HTTP attempts, code services, `CancelOrder` |
| `DeliveryContract` | what the delivery side promises: an order is tried, delivered with an unused code or given up on, charged in the same step, cancelled against a refund |
| `Shop` | `PaymentFlow` and `Delivery` over one `Store`: one database, one set of queues, one process; amounts and the balance |
| `Catalogue` | seeding at the start of a process that may stop, and the lookup of a request's products |
| `RedisLists` | the lists of the redis stub as Go slices: backing array, length, capacity, pushes and pops at both ends |
| `RedisLocks` | its locks with their expiry, beside clients that release only their own running locks, and a clock |
| `RedisMock` | both under one mutex |
| `Deque` | what a list promises: a sequence |
| `MockQueue` | the queue over `RedisLists` as it is used: `Publish`, and one polling goroutine with its callback for each queue |
| `MCPaymentFlow`, `MCDelivery`, `MCShop`, `MCCatalogue` | instances for TLC |
| `Store_proofs`, `PaymentFlow_proofs`, `Delivery_proofs`, `Shop_proofs`, `RedisLists_proofs`, `RedisMock_proofs`, `MockQueue_proofs`, `Catalogue_proofs` | lemmas and theorems checked by TLAPS |

How they compose: `Store` is extended by both `PaymentFlow` and `Delivery`;
`Shop` extends `Store` and instantiates both over its variables, through
`PaymentFlow_proofs` and `Delivery_proofs`, so that their theorems are at hand
for its own. `RedisMock`
extends `RedisLists` and `RedisLocks` and implements `Deque`; `MockQueue`
instantiates `RedisLists`, and remembers in a history variable, `done`, what each
queue's callback has handled. The queues of `Store` and `Delivery` are sequences,
which is what these two justify.
`Catalogue` stands alone: products do not change after the start.

**Granularity.** A database transaction is one action; a handler is split at
every HTTP call and between transactions; pure computation joins the step that
follows or precedes it. A goroutine's place in its handler is a record with a
`stage`; for instance `updateWorker` goes idle -> list -> publish -> idle, and a
delivery `worker` goes idle -> find -> call -> save or fail -> (switch -> call
-> save or fail ->) finish -> idle. Database errors and lost calls are actions
of their own that a counter, `faults`, limits; so are crashes. A resent webhook
carries any decision the service has saved, since the service reads its row
and calls the shop some time later, when the row may hold another decision.

The code service writes its answer before its transaction commits, so an answer
may arrive and its grant be rolled back (`RolledBack`, a case of `BodyLost`: the
error that follows in the same body makes it unreadable). It also looks at the
number of updated rows before it looks at the error of the update, and so tells
a request out_of_stock with codes left (`TakenForEmpty`, with `WronglyEmpty` at
the shop).

**Data.** An order is the pair of its group and product (a request creates at
most one order per product), a payment is its group, an event id is the request
that decided the payment, a request id is the issue row's place among its
order's rows. A deposit, a charge and a refund are counted per row, as the unique
indexes do; `Shop` multiplies the counts with the prices of the products. An
`Issue` row has `status` and `err_reason` folded into one field. A decision's
status is a string of the URL: paid, failed, "new", which leaves the payment open
to a further decision, or any "other".

**Environments.** Alone, each side is checked against an environment that does
at least what the other side does. `PaymentFlow` takes events out of
`orders:paid` with `ConsumePaid`. `Delivery` gets its paid orders from
`GroupPaid`; `Announce` publishes a "paid" event of an order at any time after
its payment, whatever has become of the order since; `PaymentSideFails` counts a
failure on the other side. An order `Delivery` does not see yet is listed by
recovery as `created` (`Unseen`, `ListedRow`): it takes its share of the LIMIT and
is not announced. `Shop` has none of these and discharges them:
`ImplementsDelivery` shows that the whole shop is a `Delivery` whose environment
keeps to these actions, and `IInv` that the invariant of the payment
side survives what delivery does to its rows. `Release` in `RedisLocks` is a rule
for clients and no code: `DeleteLock` (`queue/redis.go:115`) checks no owner and
removes the lock of anybody. No component takes a lock, so nothing keeps the
rule or breaks it; `LeaseRecorded` and `LeaseExclusive` hold for clients that do.

**Recovery.** HTTP handlers run concurrently, so `Recoveries` is a set of recovery
requests, each with a listing of its own: it lists once and then publishes row by
row, while the rows, and the other requests, move on. The proofs are for any set;
TLC checks `payment_race` with two and the other runs with one.

**Variants.** Operators marked "Mistake" (`AnyStatus`, `Untried`, ...) are what a
plausible bug would make of the definition after them. No specification uses
them: each confirms that the run it belongs to notices that bug.

## 3. Runs

The configurations of the stores and of `Catalogue` set `CHECK_DEADLOCK FALSE`:
with bounded orders, decisions, faults and stops these systems come to rest once
all is done. `RedisMock` and `MockQueue` never rest, and TLC checks them for
deadlock.

| Run | Instance | Checks |
|---|---|---|
| `payment_race` | 1 group, 2 products, 2 decisions, 2 recovery requests, 2 faults | typing; `PaidAgreement`, `DepositMatchesPayment`, `OrdersFollowPayment`, `NoUnpaidAnnouncement`, `InitEventCarried`, `ServiceKnowsPayment`, `SettledIsFinal`; the inductive invariant `IInv` |
| `payment_progress` | 2 groups, 1 product, 1 decision each, 1 fault, listing of 1 | `PaymentFlow` implements `PaymentContract`; `DecisionReachesShop`, `ResendAnnounces`, `RecoveryAnnounces`, `PaymentStarted` |
| `delivery_retry` | 1 order, 2 attempts, 2 issue rows, 2 codes, 2 faults, separate provider databases | typing; `DeliveredWithItsCode`, `CodeFromRecordedAddress`, `OneOpenRequest`, `MoneyFollowsOrder`, `AnswersKept`; the inductive invariant `IInv` |
| `duplicate_codes` | 2 orders in 2 queues, services with one fixed code, a fallback with a pool, 1 fault | `NoSharedCode`; `Delivery` implements `DeliveryContract` |
| `shop` | 1 order, 1 attempt, 2 issue rows, a service with one fixed code, 1 fault | typing of both sides together; `BalanceExplained`, `NothingBeforePayment`; `Shop` implements `Delivery`; the inductive invariant `IInv` of both sides; `PaidOrderHandled`, `DecidedOrderHandled` |
| `redis_mock` | 1 list, 2 values, length 2, capacity 3; 1 key, 2 clients, ttl 0 to 2, clock to 4 | typing; `RedisMock` implements `Deque`; `LeaseRecorded`, `LeaseExclusive` |
| `queue_polling` | 2 queues, 3 events, one unreadable, a callback of one queue that may hang | typing; `HandledInOrder`, `EveryEventHandled` |
| `catalogue` | 3 products in the file, an unknown sku, requests of up to 3 skus, 3 stops | typing; `SeededInOrder`, `EachSkuOnce` |
| `init_not_recovered`, `refunded_order_delivered`, `second_code`, `address_after_timeout` | 1 order | what the repository says and the code does not do; section 5 |

**Bounds.** `MaxPending` (events in a queue; producers wait for room, the code's
queues are unbounded), `RecoveryLimit` (500 in the code), `MaxFaults`,
`MaxTries` (5 in the code), `MaxIssues` (issue rows of an order; a worker that
needs another row stops). Two decisions are enough for a race, two orders for
the loop over a group and for a shared code, two groups for confusion between
payments, two attempts for mixed outcomes of a retry. Two faults let a failure
hit the repair of another. `shop` allows one more issue row than faults, so that
the first handling of an order never meets the bound; it has one order, so no
other order's bound can block the queue. Symmetry is used in safety
runs only, over identities that no definition tells apart.

`shop` has one order, because both sides together leave no room for more; a
wrong amount, a lost event or a stale one still needs steps of both sides. Retries
and fallbacks are left to the runs of `Delivery`, which `ImplementsDelivery` carries over
to the shop. A list of capacity 3 (`MaxCap`) grows, is popped at its left end, which
gives up a place of its array, and grows again into a new array. Four ticks let the
longest lease run out and another client's begin and run out after it. Three
stops are one for each row of the seed file.

**Fairness.** Pollers are endless loops, so their steps are weakly fair; steps
that publish are strongly fair because a full queue, which only the model has,
may disable them again and again. `init_payment.go` uses a client without a
timeout, so the goroutine of `payments:init` may hang for ever: only
`PaymentStarted` and `InitRecovered` assume `InitFairness`, and everything else
holds beside a goroutine that hangs. In `MockQueue` the callbacks of the queues
in `Hanging` need not return. A fault is never forced. Resending a webhook and
recovery are requests of an operator, which the readme prescribes after failures.
They are not in the specification: each property that needs them has them as a
premise (`ResendFairness => ...`, `RecoveryFairness => ...`), and so says which
of them repairs what. Only `init_not_recovered` has them all in its specification:
not even together do they restart a payment.

A resent webhook repeats an announcement only while the service's row holds the
event the shop took; when two decisions race it may end with the other one, whose
webhook the shop rejects without announcing anything. `ResendAnnounces` says so
(the race itself is in `payment_race`). Recovery repairs that too, but only an
order its listing reaches: `RecoveryAnnounces` excludes the states in which as
many other orders qualify as the listing holds, and with a listing of one and two
payments these states happen. `DecisionReachesShop` excludes a decision with a
status the shop refuses ("new" or "other"), which the service accepts from any URL.

`shop` has a service that never runs out of codes. That a request told
out_of_stock is refused for ever when that answer was lost happens in
`delivery_retry`; `PaidOrderHandled` says nothing of it, and would count the order
as handled with `delivery_failed`.

## 4. Proofs

`tlapm M_proofs.tla` checks the proofs about module `M`, for every value of its
constants (users, groups, products, requests, recovery requests, codes, addresses, queues,
attempts, and every bound), from the assumptions that module states of them:
`StoreAssumption` (groups and products are finite, the null values are no values,
bounds are naturals), `DeliveryAssumption` (numbers of attempts and rows, every
queue's service has an address, addresses have databases), `ShopAssumption` (the
same for the shop, prices are numbers), `RedisLocksAssumption`,
`RedisListsAssumption`, `MockQueueAssumption` (null values, bounds),
`CatalogueAssumption` (the seed file repeats no sku).

The argument is the same everywhere: an invariant, `IInv`, that the initial states
satisfy and every step keeps; each conjunct of it has a lemma for this, with the
actions that disturb it as its cases; the other theorems follow from it. Those of
the payment side, of delivery and of the shop, the long ones, are also checked by
TLC as invariants of runs; the rest are a few conjuncts beside the properties. The
invariants stand at the head of the proof modules, which the MC modules of these
three extend.

### Payment side: `PaymentFlow_proofs`

`PaidAgreement` needs that every event waiting in `payments:update` was decided by
the service (`EventsDecided`). `ServiceKnowsPayment` needs the order in which traces
of a payment appear (`TracesInOrder`, `InitInOrder`) and that the service's row
carries the event of a decision (`ServiceRowDecided`); `NoUnpaidAnnouncement` needs the stale listings
to be of orders whose payments were settled for good. `InitEventCarried` counts
places; `OneCarrier` says the same without counting: the places exclude each
other, and each is of a payment in `init`.

| Theorem | States |
|---|---|
| `Invariance` | `Spec => []IInv` |
| `TypeCorrect`, `SettledByItsEvent`, `DepositIffPaid`, `OrdersAgreeWithPayment`, `AwaitedIsKnown`, `OnlyPaidAnnounced`, `InitEventsKept` | the invariants `TypeOK`, `PaidAgreement`, `DepositMatchesPayment`, `OrdersFollowPayment`, `ServiceKnowsPayment`, `NoUnpaidAnnouncement`, `InitEventCarried` |
| `SettledForGood` | the action property `SettledIsFinal` |
| `Refinement` | `PaymentFlow` implements `PaymentContract` |

### Delivery side: `Delivery_proofs`

Events may be stale but are never ahead of their order: `EventsKnown`. It gives
`OrdersInHand`: a goroutine works on an order of its own queue which has been moved
on from `paid`. So no two goroutines write the rows of one order, and an order
that is delivered or failed meanwhile is never made `paid` again. `RequestsInHand`
follows one request through its attempts: what a goroutine is about to save was
given, for this request, at the address its row records, and the row has no answer
yet. `CodeFromRecordedAddress` and `AnswersKept` rest on it, and `OneOpenRequest`
on it and on `OnlyLastOpen`. `RowsCoherent` and `RequestsOfPaid` tie codes and
requests to rows and paid orders, `MoneyOnce` and `OrdersArePaid` give
`MoneyFollowsOrder` its bounds. That an order waiting to be tried is not charged
for, its last conjunct, is what the balance needs.

| Theorem | States |
|---|---|
| `Invariance` | `Spec => []IInv` |
| `TypeCorrect`, `CodesNotShared`, `DeliveredOrdersHaveCodes`, `CodesHaveTheirAddress`, `MoneyIsAccounted`, `RequestsAreRepeated` | the invariants `TypeOK`, `NoSharedCode`, `DeliveredWithItsCode`, `CodeFromRecordedAddress`, `MoneyFollowsOrder`, `OneOpenRequest` |
| `AnswersAreKept` | the action property `AnswersKept` |
| `Refinement` | `Delivery` implements `DeliveryContract` |

### The shop: `Shop_proofs`

`IInv` is the two invariants together, that of delivery as delivery sees the rows
(`SeenOrders`, ...), with two facts neither side has alone: a payment belongs to a
user and has orders (`PaymentsHaveOrders`), and what `UpdatePayment` publishes are
existing orders read as `paid` (`PublishesPaid`). Two lemmas carry the proof: every
step of the payment side is, for delivery, a step of its environment or none; every
step of delivery keeps the invariant of the payment side, and moves no order back
before its payment. So all that is proved of a side alone holds in the shop, and
neither environment promised too much.

The balance is the one property about sums, for any prices and any number of
payments and orders. It is rewritten as the sum, over the orders of a user, of
what each has added to it (`BalanceByOrder`): its part of the deposit, less its
charge, plus its refund (`Net`). This is at least its price while it is held (to be
tried, or refunded), at most while it is owed, and zero otherwise (`NetBounds`), by the invariants of both
sides together: the payment side ties the deposit to the payment, delivery ties
charge and refund to the order. What is needed of sums is proved from the
definition of the community modules' folds (`SumRecursion`, `SumTakeOut`,
`SumUpTo`, `SumPlus`, `SumUnion`, `SumPart`). The library's induction theorems are
out of the installed provers' reach, so each of these is shown of a smallest
counterexample (`Smallest`), which the well-foundedness of strict inclusion gives.

| Theorem | States |
|---|---|
| `Invariance`, `TypeCorrect` | `IInv`, `TypeOK` |
| `PaymentSideStaysSound` | `PaymentSideHolds`: the invariant of the payment side, with delivery in full |
| `Refinement` | `ImplementsDelivery` |
| `PaymentComesFirst` | `NothingBeforePayment` |
| `DeliveryHoldsInShop` | `NoSharedCode`, `DeliveredWithItsCode`, `CodeFromRecordedAddress`, `MoneyFollowsOrder` of the rows of the shop |
| `BalanceIsExplained` | `BalanceExplained`, and that no balance is ever negative |
| `BothContracts` | the shop implements `PaymentContract` and, for paid orders, `DeliveryContract` |
| `AnswersAreKept`, `SettledForGood` | the action properties of both sides |

### Queues and catalogue

| Module | Theorem | States |
|---|---|---|
| `RedisMock_proofs` | `LocksInvariance`, `LeasesAreRecorded`, `MutualExclusion` | the table of locks holds every lease that runs (`LeaseRecorded`), so no two clients hold one key (`LeaseExclusive`) |
| | `ListsTypeCorrect`, `TypeCorrect`, `Refinement` | every slice is a window into its array (`TypeOK`), and `RedisMock` implements `Deque`, call by call |
| `MockQueue_proofs` | `Invariance`, `TypeCorrect`, `EventsInOrder` | what was published is what was handled, is in hand and waits, in this order (`HandledInOrder`) |
| `Catalogue_proofs` | `Invariance`, `TypeCorrect`, `CatalogueIsSeeded`, `LimitCutsNothing` | `IInv`, `TypeOK`, `SeededInOrder`, `EachSkuOnce` |

`RedisLists_proofs` has the lemmas about slices that the first two cite (`Slice`
pushes and pops as operations on the sequence in its window); `Store_proofs` those
about the rows and queues common to both sides of the shop. The catalogue's
invariant adds `BootAgrees`: a process that seeds has found an empty table and
written what stands in it. `EachSkuOnce` needs the rows to be no more than the
asked skus, a fact about finite sets: distinct rows match distinct places of the
list.

### Only model-checked

Every safety property a passing run checks is a theorem. Liveness is out of the
prover's reach: `DecisionReachesShop`, `ResendAnnounces`, `RecoveryAnnounces`,
`PaymentStarted`, `PaidOrderHandled`, `DecidedOrderHandled`, `EveryEventHandled`. So
are the four violations, which are single behaviours.

## 5. Where the program departs from its documentation

1. **Recovery never restarts a payment.** `web/api.go:186` "recovery init
   payments": the branch looks for a paid payment and then asks whether it is in
   `init` (`init_not_recovered`). The obvious repair, looking the payment up by
   `init`, would publish the init event of payments whose first event is still on
   its way; `InitEventCarried` notices that variant.
2. **A refunded order can be delivered.** A failed order is cancelled while a
   second event for it is in the delivery goroutine; the compare-and-set that
   fails is not looked at and the final update is unconditional
   (`refunded_order_delivered`; readme: queues exclude data races).
3. **Two codes for one order.** Two events of an order make two requests
   (`second_code`; readme: `Issue` prevents duplicate requests).
4. **A timed-out request is moved.** A timeout followed by a refused connection
   counts as unavailable, and the row moves to the fallback address although the
   main service may still serve it (`address_after_timeout`; `issue.go:42`). The
   run shows the move and no second code: its services share one database
   file, as in the readme's own deployment, where the repetition is recognised.

Two more have no run of their own, because a property of a passing run states
what does hold:

5. **A seeding that is interrupted is never completed.** `seedsProducts` writes
   row by row and skips the file whenever the table has a row
   (`cmd/api/seeds.go:42`; `readme.md:110` says the table is filled at the
   start). The second half of `SeededInOrder` needs its `stops = 0`.
6. **Recovery can be starved.** The listing is cut at 500 rows, has no order and
   always starts at the first row (`web/api.go:179`; `readme.md:9`). Orders whose
   payment is never decided stay in `created` and can fill it for ever.
   `RecoveryAnnounces` needs its second disjunct.

Two smaller things met on the way: at the instant `now = expiresAt` a lock counts
as free for `SetLock` and as held for `GetLock` (`RedisLocks` keeps both
conditions), and `getOrdersIssues`, which is not modelled, goes on after it has
answered with an error.

## 6. Plan

Done: `Store`, `PaymentFlow` and `Delivery` with their contracts, `Shop`, the queue
and the redis stub down to their slices and locks, the catalogue; their runs; and
proofs of every safety property they check.

Left: the liveness properties as theorems, once a prover for fairness is at hand.
Two recovery requests beside all of delivery or the whole shop are more states
than TLC visits in a few minutes; there the proofs stand alone.

Not modelled: migrations and the users table (no code reads or writes them once
the service runs); the static page and the read endpoints besides the balance
(each returns the rows of one statement); the services' own listings; an empty
`SEED_DATA_DIR`, with which the start only seeds nothing; currencies; waiting
times of polling and backoff (any interleaving is allowed); JSON and HTTP
formats; the code service going on after a request it cannot decode
(`mocks/codes/main.go:113`), which the shop never sends: its body is valid JSON of
a few hundred bytes; the gorm and SQLite libraries beyond the atomicity of a transaction.
