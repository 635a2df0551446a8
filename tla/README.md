# A verification project for the accounting backend

The repository is a NestJS backend over PostgreSQL (Prisma): sales, purchases,
stock, returns, vouchers, a catalogue, companies with their users, a general
ledger, reports, and the synchronisation of devices that work offline. It has no
queue, no scheduler and no cache. What makes it hard is that every handler is a
chain of `await`s on one shared database, that Prisma's interactive transactions
run under PostgreSQL's default READ COMMITTED, that most balances are read in one
statement and written, as an absolute value, in a later one, and that everything
besides stock and money is checked in one statement and inserted in another, with
no transaction around them.

This directory holds TLA+ models of the services that move stock and money, of
those that found and fill a company, of the reports and of the synchronisation;
TLC configurations that check them on small instances; and TLAPS proofs, for every
instance, of each safety property that the passing configurations check.

## 1. Inventory

| Component | State | Operations | Hard behaviour | Properties that make it correct | Modules |
|---|---|---|---|---|---|
| Balance rows (`prisma/schema.prisma`, PostgreSQL) | `StockBalance.quantity`; `balance` of Customer, Supplier, Cashbox; the movements and transactions beside them | read, set, increment, commit, roll back | row locks, stale reads, unique keys, deadlocks | a balance is the sum of its movements; a rolled back request leaves nothing | `RowStore` |
| Requests (every service below) | the awaits that are pending | interleaving, interruption, sending again | an order is half done when it fails, or arrives twice | an order is in the ledger whole and once, or not at all | `Requests`, `Bookkeeping`, `AtomicLedger` |
| Sales (`sales.service.ts`) | rows above | `createSale`, `createCustomer` | stock checked before the transaction opens; loop of read-then-set | no oversale, no lost update, the customer owes what is due | `Sales`, `Catalogue` |
| Purchases (`purchases.service.ts`) | rows above | `createPurchase`, `createSupplier` | read-then-set; two first purchases of a product | as above, for suppliers | `Purchases`, `Catalogue` |
| Stock movements, counts (`inventory.service.ts`) | rows above | `recordStockMovement`, `adjustStock`, `createWarehouse` | no transaction: two autocommitted writes; the difference of a count is computed from another read | no change without a movement | `Inventory`, `Tenancy` |
| Returns, adjustments (`return-adjustment.service.ts`) | rows above; returns of an invoice | `processReturn`, `processStockAdjustment` | check of earlier returns without a lock | returns never exceed the invoice; stock stays exact and non-negative | `Returns` |
| Transfers (`stock-transfer.service.ts`) | rows above | `transferStock` | two rows, locked in the order of the DTO | goods are conserved | `Transfers` |
| Vouchers, expenses (`voucher.service.ts`) | rows above | `processVoucher`, `processExpense` | read-then-set; party looked up after the cashbox is written | no overdraft; refused vouchers leave nothing | `Vouchers` |
| Synchronisation (`sync.service.ts`) | `SyncOperation`; a device's queue and cursor | `pushOperations`, `pullOperations` | retries, concurrent pushes, lost answers, crashes, out-of-order completion below a cursor | exactly once; acknowledged in the end; nothing missed | `Sync`, `Delivery` |
| Single statements (PostgreSQL) | rows under unique and foreign keys | check, find, insert, update, revoke | another handler between a check and the write it is for | what the keys alone guarantee | `Tables` |
| Users, companies (`users.service.ts`, `company.service.ts`) | companies, branches, warehouses, users, roles | create each | count, then insert; three inserts without a transaction | one first user; a refused request leaves nothing | `Tenancy` |
| Catalogue (`products.service.ts`) | products, barcodes, categories, brands, units | check, then insert | two inserts of one SKU; a barcode that is taken in another company | references stay within the company | `Catalogue` |
| General ledger (`accounting.service.ts`) | accounts, journal entries, cashboxes, expenses | create each | sums of lines within a tolerance | the books balance within it | `GeneralLedger` |
| Sessions (`auth.service.ts`) | refresh tokens with their user and device, devices with their user and branch | login, refresh, logout | check, then revoke; revoke, then look for a device | a token is spent once, and not by a refusal | `Sessions` |
| Permissions (guards, controllers) | none | which routes are open, whose company a DTO names | one route compares no company | a founded company is reached only through open routes | `Registry`, partly |
| Reports (`reports.service.ts`) | none | sums over sales, purchases, expenses | a report runs beside the requests it sums | what is reported as due was charged | `Reports`, partly |
| Analytics, performance, settings, audit, backup, printing, WhatsApp, notifications, HTTP layer | one row per call, or none | | | | not modelled |
| Quotations, currencies (`quotation.service.ts`, `currency.service.ts`) | none: in no Nest module | | | | not modelled |

How they interact: the trading services call nothing but Prisma and meet only in
the balance rows. `SyncService` calls `createProduct`, `createCustomer`,
`createSale` and `createPurchase` with the id the device chose. Reports read what
all of them write. The services that found and fill a company meet in the unique
keys of their tables, and in the rows that one of them looks for and another
creates. `VoucherService` and `StockTransferService` are registered in no Nest
module and reached from no controller; `ReturnAdjustmentService` is.

The hazards of the code, each at its line and with the properties about it, are
listed in `PROJECT.json` under `hazards`.

## 2. The bookkeeping model

```
RowStore <- Requests <- Sales, Purchases, Inventory, Transfers, Vouchers, Returns
                              <- Bookkeeping <- MCBookkeeping
                                 Bookkeeping <- Reports <- MCReports
                                 Bookkeeping implements AtomicLedger
```

The arrows are `EXTENDS`: the handlers share the variables of the store and of
the requests.

**`RowStore`** stands for PostgreSQL, which is not in the repository. A row has a
committed value (`table`), the uncommitted value of its lock holder (`draft`,
`holder`) and beside it the sum of its movements (`ledger`, and `posted` before
the commit). A `SELECT` (`Seen`) reads the last committed value or the request's
own; `INSERT`, `UPDATE` and `ON CONFLICT` wait for the lock (`Available`).
`SetFromRead` is the `update` or `create` of a value computed from an earlier
read, `Increment` is `{ increment }` or `{ decrement }`, `Autocommit` and
`InsertMovement` are the two statements of `recordStockMovement`, which has no
transaction. A balance change and the insert of its movement inside one
transaction are one step: no other request can tell them apart.
`tainted` and `stale` are history variables: they mark a row that was set from a
value no longer current. `owed` is what autocommitted changes have not yet
explained by a movement. `Statement(r)` and `StoreNext` gather the statements a
request may send; the modules above use them one by one, the proofs all at once.

**`Requests`** gives each request its DTO (`order`), the await it is suspended at
(`step`), the items its loop has left (`todo`) and its local variables (`seen`:
the balance read; `diff`: the quantity handed to `recordStockMovement`; `base`:
the quantities already returned). A request ends `done`, `rejected` (an
exception, after a rollback) or `interrupted` (timeout, lost connection, crash,
deadlock victim). References that validation looks up are never deleted by any
service, so orders with dangling references are left out, except for the party
of a voucher, which is looked up after a write.

A sale or a purchase may carry the id its client gave it. Two requests with the
same id are one document that was sent again, since the first answer was lost or
late: `InsertDocument` waits while another transaction holds the id and fails
when that one has committed, which is what the primary key does.

| Handler | Steps |
|---|---|
| `createSale` | `ReceiveSale`, `CheckStock` (one item each), `OpenSale`, `ReadSaleLine`/`WriteSaleLine` for each item, `ChargeCustomer`, `CommitSale` |
| `createPurchase` | `ReceivePurchase`, `OpenPurchase`, `ReadPurchaseLine`/`WritePurchaseLine`, `CreditSupplier`, `CommitPurchase` |
| `recordStockMovement` | `ReceiveMovement`, `ReadStock`, `WriteStock`, `LogMovement` |
| `adjustStock` | `ReceiveCount`, `CompareCount`, then the steps of `recordStockMovement` |
| `processReturn` | `ReceiveReturn`, `CheckReturn`, `TakeBackLine` or `SendBackLine` for each item, `CommitReturn` |
| `processStockAdjustment` | `ReceiveAdjustment`, `ReadAdjusted`, `WriteAdjusted`, `CommitAdjustment` |
| `transferStock` | `ReceiveTransfer`, `ReadSource`, `WriteSource`, `ReadTarget`, `WriteTarget`, `CommitTransfer` |
| `processVoucher`, `processExpense` | `ReceiveCash`, `ReadCashbox`, `WriteCashbox`, `ReadParty`, `WriteParty`, `CommitCash` |

**`Bookkeeping`** composes them, adds interruptions of any running request and
PostgreSQL's deadlock detector (`WaitsFor`, `Deadlocked`, `DeadlockVictim`: every
member of a cycle may be the victim), and states the properties.

**`AtomicLedger`** is what the services promise of the movements and party
transactions they keep: an order is entered whole, in one step, and at most
once for each request. `Bookkeeping` implements it (`RecordsOrdersOnce`) with `ledger` as the book
and the requests answered with success as the recorded orders. What an order
enters follows from the DTO alone (`Effect`), except for the row that a count
or an adjustment says the quantity of, which depends on the balance it finds and
is left open (`CountedRows`).

**`Reports`** adds the sales reports, each a single statement over the committed
sales that pass its filter (`SalesReport`). `DueReportedIsCharged` compares one
column of the sales table with the transactions of customers, which receipts lower
and sales without a customer do not raise. The summaries of `getDashboardSummary`
and `getFinancialSummary` read their figures in several statements, so the profit
may mix two states of the books; what they say of either state is nothing the
repository promises, and they are not modelled.

Abstractions. Amounts and quantities are integers (the code has `Float`). A
price, a discount or a tax rate appears only through `grandTotal`. Invoices have
no numbers: a collision of numbers, which are eight digits of the clock, is one of
the reasons of `Interrupted`. An interrupted commit is taken as rolled back. The
invoices that are returned were committed before the model starts. Vouchers and
transfers have positive amounts, although their interfaces validate nothing. The
serial numbers of a transfer are left out: nothing else reads them. A tenant is one
company; every query of these services is confined to its tenant. The lines of an
order carry their row, warehouse included; `OneWarehouse` says that sales, purchases
and returns have one warehouse for all their lines, as their DTOs do.

## 3. The registry model

```
Tables <- Tenancy <- Catalogue <- GeneralLedger <-+
          Tenancy <- Sessions                   <-+- Registry <- MCRegistry
```

These services open no transaction over more than one statement, so what matters
is only which statements they send, in which order.

**`Tables`** stands for PostgreSQL again: rows, each named by its unique key (the
table, the company, the code) and carrying the request that inserted it; the
foreign keys they hold (`links`); the refresh tokens that are `revoked`; the row
that a request has looked up for its next insert (`found`). A handler is a sequence of statements, and a request is at one of them:

| Statement | In the code | Outcome |
|---|---|---|
| `Absent`, `Empty`, `Present`, `Valid` | a query, then `if (…) throw` | on, or refused |
| `Require` | a condition on the DTO, then `throw` | on, or refused |
| `Find`, `Live` | a query, then `if (…) { … }` | the next statement, or the one after it |
| `Insert` | `create` | on, or failed at a unique or foreign key |
| `TryInsert` | `create(…).catch(() => {})` | on, in any case |
| `Revoke` | `update` of `revokedAt`, unconditional | on |
| `Update` | `update` of the foreign keys of a row that was found | on |
| `Pick` | `findFirst` of a row that the next insert refers to, then `throw` | on, or refused |

Between any two statements other requests run, and a request may be interrupted
there; what it has written stays. `overtaken` is history: the requests that
passed a check which another request made untrue before they acted on it.
`KeyOf(table)` is what an id in a DTO may name: a row of that table, of any
company, whether it exists or not.

**`Tenancy`**, **`Catalogue`**, **`GeneralLedger`** and **`Sessions`** give one script
for each operation: `CreateCompany`, `CreateBranch`, `CreateWarehouse`,
`CreateUser`, `CreateRole`; `CreateCategory`, `CreateBrand`, `CreateUnit`,
`CreateProduct`, `CreateCustomer`, `CreateSupplier`; `CreateAccount`,
`CreateCashbox`, `CreateExpense`, `CreateJournalEntry`; `Login`, `Refresh`,
`Logout`. Names, prices, addresses and passwords are left out: nothing is decided
by them except that a login with a wrong password is refused, which is a login
that does not arrive. `Login` gives a new device the company, the user and the
user's branch, and one that is there the user; `Refresh` takes the device of the
token, or, after it has revoked a token whose device was deleted from the database,
looks for one of the user (`DeviceOf`, `Pick`). Amounts of a journal entry are counted in units of the
tolerance 0.001, so `Tolerance` is 1 in the instance.

**`Registry`** runs them side by side and says which of them may arrive
(`Permitted`, `OwnCompany`): the routes of `/auth`, `POST /companies` and
`POST /users` are open; every other one wants a user with its permission. No
service gives a user a role, so only companies that had such a user from the
start (`Staffed`) use them. The controllers compare the company of the DTO with
the user's, all but that of `POST /users/roles`.

`OneFirstUserUnlessOvertaken` speaks of a registration that counted no user and
was not overtaken: beside its user there is no other of the company, except one by
a registration that was. The users that were there from the start are no
registrations, but a registration that was not overtaken excludes them too.
`TrialBalance` sums over `EntriesOf(tenant)`, the requests whose entry is in the
table.

`UnsuccessfulLeavesNothing` is as strong as the code allows, and has two exceptions.
A new company or branch stays, incomplete, and the request fails, if another row
holds the very key of its default branch or warehouse (`DefaultTaken`):
`createCompany` and `createBranch` check only their own code. And `refresh` revokes
the token it was given before it looks for a device (`auth.service.ts:57-59`): a
token without one (`Deviceless`) is spent though the request is refused. All the
other operations check everything before their first write.

`ReferencesInTenant` excepts the author of a journal entry, which
`createJournalEntry` takes as given; `EveryReferenceInTenant` does not, and is
refuted. `TrialBalanceWithinTolerance` says what the code checks: the comment at
`accounting.service.ts:76` allows each entry a margin of 0.001, while
`docs/specifications/04_ACCOUNTING_ENGINE.md` (lines 10 and 39) asks for equality.

## 4. The synchronisation model

**`Sync`** models `pushOperations` await by await: `FindOperation`, `MarkSyncing`
and, for a new operation, `InsertOperation` (its number is taken before its row can
be seen), `ApplyOperation` (parsing, the supported types, the look for the entity),
`CreateEntity` (the call of another service, which may refuse, fail, find its id
taken, or commit with its answer lost), `MarkSynced` or `MarkFailed`, `Respond`. A
statement of the `try` block that fails (`Fault`) goes to the `catch` block, one
outside it ends the request; `Interrupt` kills a request or loses its answer.
`Pull` is `pullOperations`, one statement. `StartPush` is the device, which is
external: it sends its queue, in order, until all of it is reported as SYNCED,
and does not wait for a push that it has given up.

**`Delivery`** is what this promises: the rows and effects of an entity are committed
at most once, and an operation is acknowledged only when they are. `created` counts
how often they were, so that a second creation shows. `Sync` implements it with
`created` and `acked` as they are. What keeps the count at one is the id of the
device, which is the primary key; a service that did not take it over would create
a second row, which is the mutant of this property.

A device is always `ACTIVE` (`auth.service.ts` sets nothing else) and no service
writes the statuses `PENDING` or `CONFLICT`, so those branches are not in the
model. `late` is a history variable: the operations that were not SYNCED when a
device's cursor passed them.

## 5. Runs

`MCBookkeeping`, `MCRegistry` and `MCSync` define the orders, DTOs and queues; a
`.cfg` picks one set. Each request carries any order of the set, so every
combination, repetition and interleaving occurs. In `MCBookkeeping` there are two
warehouses, two products, one customer, supplier and cashbox; one of the four
stock rows does not exist. In `MCRegistry` one company is at work, another has
rows that the first must not reach, and a third is being founded.

| Run | Instance | Shows |
|---|---|---|
| `guarded` | 3 requests, `GuardedOrders`: returns, transfers, vouchers, expenses | No overdraft of stock or cashbox; goods are neither lost nor created; an invoice is over-returned only in a race; refused requests leave nothing in the ledger |
| `mixed` | 3 requests, `MixedOrders`: every kind of order | All handlers on the same rows implement `AtomicLedger`; balances drift only by stale overwrites, and those that are only incremented are exact; a document sent again is recorded once; the unpaid part of the sales report is what customers are charged with, receipts counted back; orphan changes come only from interrupted movements |
| `answered` | 3 requests, `CrossingOrders`, fairness | Every request ends, also in a deadlock |
| `sync_impatient` | 1 device, 2 concurrent pushes, 2 operations of one entity, 2 faults, fairness | Effects at most once, SYNCED means applied, acknowledged in the end |
| `sync_two_devices` | 2 devices, 4 operations, one unsupported, 1 fault | A cursor misses only operations that finish late |
| `registry` | 3 requests, 25 DTOs over three companies | References stay within a company, but for the author of a journal entry; one first user, and a token spent once, unless a check was overtaken; an answer that is an error changes nothing, but for the two exceptions of section 3; the trial balance is within the tolerance |

Runs that TLC refutes, each against a sentence of the documentation quoted in
`PROJECT.json`:

| Run | Violated | Shortest story |
|---|---|---|
| `oversell` | `NeverNegative` | one sale with two items of the same product, or two sales, each checked alone |
| `lost_update` | `BalanceIsSumOfMovements` | two requests read the same balance, both set it |
| `over_return` | `ReturnsWithinInvoice` | two returns read the earlier returns before either commits |
| `orphan_change` | `NoChangeWithoutMovement` | `recordStockMovement` stops between its two writes |
| `sync_missed` | `NothingMissed` | operation 2 is SYNCED and pulled while operation 1 is still SYNCING |
| `foreign_user` | `EveryReferenceInTenant` | a journal entry of one company names a user of another as its author |

Bounds. A lost update, an over-return, a document sent again, two first users and
a token refreshed twice need two requests; a deadlock cycle of three, a waiter
outside a cycle, and an observer of a race need three. The orders visit two rows
in both orders, create a missing row twice, repeat a product in one invoice, pay
more than the total, and are refused at the second line. The DTOs meet on a SKU, a
barcode, a role, a token, a device and the default code of a branch; they name rows of
another company, rows that only another request creates, and rows that do not
exist. There are DTOs for 14 of the 18 operations: brands, units and cashboxes have
the two statements of a category, and a supplier the one of a customer. `Limit = 1` makes every page of a pull a partial one. `MaxFaults`
bounds how often requests of `Sync` die or their statements fail; `Bookkeeping` and `Registry` need no such
bound, since a request does not start again. `Request` is a symmetry set in
`guarded`, `mixed`, `registry` and `foreign_user`, and in no liveness run.

Deadlock is checked everywhere. `AtRest` is the stutter of a system whose requests
have all ended, so a state in which some request is stuck would be reported.

Fairness. `WF_vars(Handler(r))`: Node's event loop runs the continuation of every
statement that has answered, and PostgreSQL grants a lock that is free.
`WF_vars(DeadlockVictim(r))`: the deadlock detector always runs
(`deadlock_timeout`). Locks are granted in the order of requests only in a model
of PostgreSQL's queues; weak fairness suffices because a request holds a lock
for finitely many steps and never starts again. In `Sync`, `WF_vars(StartPush(p))`
says that a device retries what is not acknowledged: this is what
`docs/specifications/09_SYNC_ENGINE.md` asks of it, not something the repository
does. Interruptions are never forced and never fair.

## 6. Proofs

`tlapm` checks these for every set of requests, rows, orders, invoices, devices,
operations, companies and DTOs that satisfies the assumptions named in the modules:

| Assumption | Says | Why the code justifies it |
|---|---|---|
| `RowStoreAssumption` | rows of different tables differ; `Null` is no row; a party or cashbox has a balance | ids are UUIDs; `balance Float @default(0)` |
| `RequestsAssumption` | orders have the fields of their DTO; the invoices of sales and of purchases differ | the interfaces in `dto/`; two tables |
| `BookkeepingAssumption` | warehouses, customers and invoices are finitely many | they are rows of tables |
| `TablesAssumption`, `TenancyAssumption`, `GeneralLedgerAssumption`, `RegistryAssumption` | keys and DTOs have their fields; an id that the database makes up for a request is no code anybody chose | `@default(uuid())`, the DTO classes |
| `SyncAssumption` | each device has a queue of operations, each push a sender; a page has room; the operations are finitely many | `sync.dto.ts`; a device has queued what it has |

The set of requests may be infinite: that those which have arrived are finitely many
is proved, not assumed, where something is summed over them.

```
SumProofs <- BookkeepingProofs <- SafetyProofs <- LedgerProofs <- BookProofs <- ReportsProofs
          <- RegistryProofs                          SyncProofs
```

| Module | Theorem | Statement |
|---|---|---|
| `BookkeepingProofs` | `StoreStepInv` | every statement keeps `StoreInv` |
| | `TypeCorrectness` | `Spec => []TypeOK` |
| | `DriftCause` | `Spec => []DriftOnlyFromStaleOverwrite` |
| `SafetyProofs` | `ReturnsBounded` | `Spec => []ReturnsWithinInvoiceUnlessRaced` |
| | `GuardedNeverNegative` | `GuardedOrders` implies `Spec => []NeverNegative` |
| `LedgerProofs` | `ResentOnce` | `Spec => []ResentIsRecordedOnce` |
| | `IncrementsStayExact` | `Spec => []ExactWithoutOverwriters` |
| | `OrphansExplained` | `Spec => []OrphanOnlyFromInterruption` |
| `BookProofs` | `ImplementsAtomicLedger` | `Spec => RecordsOrdersOnce` |
| | `GoodsKept` | `GoodsOrders` implies `Spec => []GoodsAccountedFor` |
| `ReportsProofs` | `DueIsCharged` | `Spec => []DueReportedIsCharged` |
| `RegistryProofs` | `Invariant` | `Spec => []RegistryInv` |
| | `ReferencesStay` | `Spec => []ReferencesInTenant` |
| | `OneFirstUser` | `Spec => []OneFirstUserUnlessOvertaken` |
| | `NothingLeft` | `Spec => []UnsuccessfulLeavesNothing` |
| | `TokensSpentOnce` | `Spec => []TokenSpentOnceUnlessOvertaken` |
| | `BooksBalanced` | `Spec => []TrialBalanceWithinTolerance` |
| `SyncProofs` | `PullableIsApplied` | `Spec => []SyncedIsApplied` |
| | `ImplementsDelivery` | `Spec => DeliversExactlyOnce` |
| | `SyncTypeCorrectness` | `Spec => []TypeOK` |
| | `PullsMissNothingElse` | `Spec => []MissedOnlyWhenLate` |

**Balances.** `DriftOnlyFromStaleOverwrite` speaks of committed values and is not
inductive: a commit copies `draft` and `posted`. `StoreInv` adds that a free row has
neither (`FreeRows`) and that the draft of a locked, untainted row differs from its
committed value by exactly the movements posted (`HeldRows`). Each statement of
`RowStore` is proved to keep it once, and each action of each service is mapped to a
statement: `Inv == StoreInv /\ SessionTypeOK /\ ReturnsTypeOK`.

* `ReturnsBounded` needs what a running return knows: its lines are within the
  quantities it read (`base`), and unless the invoice is `raced`, those are still the
  ones returned.
* `GuardedNeverNegative` extends non-negativity to drafts and to values read and
  checked but not yet written. `GuardedOrders` leaves out the sale and the
  movements, for which the property is false (`oversell`).
* `ResentOnce` is strengthened to requests that have inserted the document and not
  ended badly: two with the same id are never both past `InsertDocument`. Only that
  step enters this set, and it tests it (`InsertStep`).
* `IncrementsStayExact` follows from `DriftOnlyFromStaleOverwrite` once rows that
  are tainted, stale or owed a movement are shown to be overwritten by some
  request (`ExactInv`). That an action disturbs nothing but the rows of its order
  is `Confined(Touched(r))`; for a sale it also needs that the lines its loop has
  left are lines of its order (`LoopLines`).
* `OrphansExplained`: that `owed` is not zero says nothing of how much each request
  owes, so two requests between their writes could cancel out. `OwedInv` says it
  exactly: `owed` is the sum of `diff` over the requests about to insert their
  movement on the row, unless one was stopped there.

**Sums.** What the services promise of money is mostly a sum. The fold that
`SumFunctionOnSet` of the community modules is made of computes one element at a time
in an order left open; `SumProofs` derives from its definition that it does not
depend on that order (`SumUnfold`), and the lemmas the rest needs: adding, removing
or changing one element, adding two sums, splitting a set, bounding a sum by another,
renumbering a sequence by one, and grouping the lines of an order by their row. They
are proved by induction over finite sets, in the form of a set of subsets that is
shown to be everything (`SubsetInduction`).

* `ImplementsAtomicLedger` is the refinement. `BookInv` says that in an open
  transaction what the request has posted on a row (`Entered`) and what its handler
  has still to add (`Left`, from the step and the lines that `todo` has left) make up
  the `Effect` of the order. A commit happens where nothing is left, and adds exactly
  the posted; a rollback adds nothing. The movement of `recordStockMovement` is the
  case without a transaction: its `diff` is the quantity of the order until it is
  logged. A voucher that reaches its second row has a party. Every step is then
  `Record(r, o)` of the abstract specification, or a stutter (`StepRecords`).
* `GoodsKept` adds the effects of a record over all warehouses. A transfer adds zero,
  also within one warehouse; a return adds the quantity of its lines for each
  product, which is what `returned` grows by in the same step (`GoodsStep`). With
  `DriftOnlyFromStaleOverwrite` the sums of movements become balances. `GoodsOrders`
  names the orders the property is about; sales, purchases and movements change the
  goods by themselves.
* `DueIsCharged`: only a step that records an order changes the sums of the property,
  and both sides by the same (`DueInv`). That step is taken apart with
  `ImplementsAtomicLedger`'s lemma, which gives the effect of the order on each
  customer (`EffectOnCustomer`).

**Registry.** The handlers are data: `Execute` runs whatever statements `Script`
gave. `WellFormed` says what is true of the script of every operation, among it that
a reference is looked for before it is inserted, that no check follows a write that
could leave something behind, and that a revocation follows the check of that token;
it is proved for each of the 18 operations. `RegistryInv` then says, of any handler
with such a script, what the statements behind it have established for good
(`Passed`: rows never disappear), what they have established unless it was overtaken
(`StillTrue`), and whose every row and revocation is (`RowsWritten`,
`TokensRevoked`). A step is one of three kinds to it: one row is added, one token is
revoked, or neither, and then at most the references of a device change or a row is
looked up. `NothingLeft` needs of a refresh that it looks for a device only if its
token has none (`PicksDeviceless`), which stays true because no step changes what a
token refers to (`TokenLinksKept`), and that its insert cannot fail: what it refers to
is there (`HoldersThere`, `FoundThere`) and its key is new (`OwnTokens`).
`ReferencesStay` needs that the looked-up device is of the company (`FoundThere`).
`BooksBalanced` adds that every entry has passed `Balanced`, and sums.

**Synchronisation.** `SyncInv` says that a push that is about to mark an operation
SYNCED, and every operation in an answer, has its entity, and that no entity was
created twice. `created` only grows, so a later FAILED or a concurrent push cannot break
it. `PullsMissNothingElse` rests on
`PullInv`: numbers are given once and upwards, so an operation numbered later lies
beyond every cursor; and a page is a prefix of what is visible (`PageIsPrefix`), so a
cursor that moves to its last operation passes nothing but the page and what was not
SYNCED. That a page has a greatest number uses `SyncAssumption`, and induction over
finite sets of numbers as the minimum of a well-founded order (`FiniteHasMax`).

Only model-checked: liveness (`Answered`, `Acknowledged`), which is beyond the prover
(fairness and `ENABLED`). That the properties of the refuted runs are false is shown
by TLC's counterexamples; their weaker counterparts above are what is proved.

## 7. Not modelled

* Analytics, performance and the summaries of the reports service read and sum the
  tables in several statements, or answer figures of the process; the inventory report lists balances, and the export of a report
  formats one.
* Settings are one upsert per key that no other service reads; the audit log is
  one insert. Neither has a state that another operation could find inconsistent.
* Backup, printing, WhatsApp and notifications read rows and write files, texts
  and messages.
* Quotations and currencies are registered in no module: one insert, and a table
  of rates in the source.
* The HTTP layer maps a route to one service method, validates a DTO's types and
  wraps the answer. Permissions are told apart only as far as a route wants one
  or not.
* Floating point: quantities and amounts are integers, so rounding is not seen,
  except for the tolerance of a journal entry.
* The serial numbers of a transfer, and the numbers of invoices.

## 8. Plan

Next, in this order:

1. The safety part of the liveness properties: that a request whose next statement
   waits belongs to a cycle of `Deadlocked` or waits for one that does not wait, and
   that a running request always has a step of its own when its row is free. With
   them `Answered` rests on fairness alone.
2. Action properties worth a theorem: a recorded movement is never changed again, and
   an acknowledged operation stays acknowledged and SYNCED or is marked FAILED only
   by a push that started before.
3. The continuity of `balanceAfter` on a stock card, which needs the movements of
   a row as a sequence instead of their sum.
