# Verification of the ISP inventory system

TLA+ models of the server of the ISP inventory system (`server/src`), the TLC
configurations that check them on small instances, and TLAPS proofs of the
properties that should hold for every instance. Paths below are relative to
`src/server/src/` unless they start with `src/`.

## 1. The system

The server is one Express process on PostgreSQL. A request runs through
permission and branch-scope checks, a controller, mostly one explicit
transaction (`db/transactions.ts`, `withTransaction`), and a refresh of the
in-memory mirrors. Requests interleave at every `await`; READ COMMITTED
transactions interleave at every statement that takes no lock. Four tables
describe the same goods from four sides and must agree:

* `inventory_stock`: usable quantity, damaged quantity, quantity expected, per
  branch and product;
* `serial_log`: status, branch and source document of every serialised unit;
* `transaction_logs`: the movement ledger, one row per change of quantity;
* `gl_journals`: the value of the goods in the general ledger.

| Component | State | Operations | What is hard | What makes it correct |
|---|---|---|---|---|
| Stock operations (`inventory.controller.ts`) | operation row, both pools, register, ledger, journals | create (six types), three reversal routes, receipt of a pullout | the reversal's status check is made before the transaction, without a lock | no pool below zero; a unit has one holder; a reversal gives back what was taken; the four tables agree |
| Serial gate and lifecycle (`serialGate`, `serialOperationLifecycle`, `damage` services) | register rows | lock and check, issue, quarantine, restore, land | two documents that want one unit; a late restore of a unit that moved on | custody: take what is free, give back only what one holds |
| Shipments (`shipments.controller.ts`) | shipment row, reservations, register, ledger, journals | dispatch, receive, cancel, undo of a receipt | receive acts on an unlocked read; flips go by status only; row ids are per leg | stock, reservations, register and journals follow the shipment's status; no unit is stranded |
| Approvals (`misc.controller.ts`) | queue row; acts on the tables of the others | request, approve, reject | a second path to cancel and undo, without the direct route's locks | an approved act does what the direct route would do |
| General ledger (`accounting.service.ts`, `accountingClosing.service.ts`) | years, periods, journals | post, contra, opening balances, open and close period, close and reopen year | check, then act, in concurrent transactions; advisory and row locks | one contra, one opening, one closing journal; nothing left in income and expense after a close |
| Procurement and sales (`procurement.controller.ts`, `sales.controller.ts`) | orders, bills, invoices, returns; stock, register, ledger, journals | order, bill, deletion, sale, void, return, approval and cancellation of a return | documents that reverse each other, validated on reads made before the transaction | stock, register, ledger and journals follow the documents that stand; a unit at a customer or a vendor is there through a document that stands |
| Payments and receipts (the same controllers, `paymentPosting.service.ts`) | balance and payment status of an invoice, payment rows, journals | pay, reverse one, reverse all, legacy payment | a reversal's list is read before its transaction | the balance is the sum of the posted payments; one contra per payment |
| Customer devices (CPE) and the assets that carry them (`inventory.controller.ts`, `cpeAssetLifecycle.service.ts`) | device records, assets, register, stock, ledger, value | deploy, assign, release, collect (three routes), exchange | a deployment is two transactions; the routes repeat each other | a unit is counted in and out once; an asset names a unit that is out |
| Mirrors, cache refresh, event stream (`runtimeState.ts`, `cacheRefreshHook.ts`, `sse.ts`) | copies of tables in memory, a refresh chain, open streams, two version counters | refresh after each write, broadcast, handshake, bootstrap | overlapping refreshes, failed loads, lost events, restart | a mirror lags only while a refresh is owed |
| Synchronisation in the web client (`App.tsx`, `sync.ts`, `bootstrapSlices.ts`) | rows on the screen, the requests under way, the last version seen | reconnect, debounce, slice and full refresh, poll | answers out of order, superseded requests | a screen is stale only while a refresh is on its way or a failure is shown; it catches up |
| Caps on event streams (`middleware/sseRateLimit.ts`) | hits per address | take and give back a slot | closed sockets are noticed late | no slot leaks; a tab gets its stream back |
| Cash close, payroll, depreciation, warranty | documents and journals | post, void, pay, supersede | repeated posting | one journal per document and period |
| Document numbers | a counter row per branch, type and day | issue | in-memory fallback | numbers never repeat |
| Authentication, permissions | tokens, overrides | check | | a request passes only with its right |
| Master data, reports, PDF, search, screens | | CRUD and queries | | |

The server also has a demo mode that works on the mirrors alone when PostgreSQL
is down. It is sequential, answers for no durable data, and is not modelled.

## 2. Modules

| Module | Content |
|---|---|
| `StockOps` | stock operations, reversals, receipts |
| `StockOpsConservation` | the sums that relate pools, ledger, register and journals to the operations |
| `Custody` | abstract specification: units are free or in the custody of one holder |
| `StockOpsCustody` | the refinement mapping from `StockOps` to `Custody` |
| `Shipments` | transfers between branches, approvals on them, competing sales |
| `ShipmentsConservation` | the sums that relate stock, reservations, register, ledger and journals to the shipments |
| `Ledger` | periods, years, journals, contra, opening balances, close |
| `Trade` | purchase orders, bills, sales, returns of both |
| `TradeConservation` | the sums that relate stock, ledger, register and journals to the documents |
| `Settlement` | payments, receipts, their reversals, balances |
| `Devices` | customer devices, the assets and records that carry them |
| `Sync` | mirrors, event stream and the screens that follow them |
| `MCStockOps`, `MCShipments`, `MCLedger`, `MCTrade`, `MCSettlement`, `MCDevices`, `MCSync` | instances for TLC |
| `Sums` | theorems about sums over finite sets, which the conservation proofs rest on |
| `StockOpsProofs`, `ShipmentsProofs`, `LedgerProofs`, `TradeProofs`, `SettlementProofs`, `DevicesProofs`, `SyncProofs` | theorems |

### How a request becomes steps

A transaction that locks everything it decides on is one action: it reads,
decides and writes what no other transaction can touch in between. A request
that decides on a read made before its transaction is two actions, the check
(`CheckReverse`, `CheckReceive`, `CheckCancel`, ...) and the transaction; what
the request remembers in between is its entry in `req` (in `Ledger`, `tx`). The
second action repeats exactly the checks that the code repeats under its lock,
and no more. Between the two the request may vanish: `Abandon` and `Rollback`
are the throw, the lost connection and the stopped process, all of which roll
the transaction back as a whole.

### StockOps

`qoh`, `dmg` are the two pools, `reg` the register, `status` and `body` the
operation rows, `ledger` the movement rows by id, `journal` the number of
journals, contras and receipt journals of an operation. `post_stockOperations`
is the create transaction (stock lock, availability by product and pool, serial
gate, stock change, journal, issue or quarantine of the units, ledger).
`post_reverse` reverses a damage report, `post_reverseConsumable` a consumable
issue, `reverseIssuedOperation` a pullout or a stock-out; `post_receive` lands a
pullout. A row id of the ledger is what the code builds it from, so `ON CONFLICT
DO NOTHING` drops what the code would drop: the id of a receipt row contains the
product and not the operation, because the query that feeds it selects no id, so of
a usable and a damaged line of one product only the first (`FirstLine`) leaves a row,
and of two receipts too. A received
damaged-pool line is credited to the usable pool, as `PULLOUT_RECEIVE_STOCK_SQL`
does.

A request has one line per product and pool. Average cost, damage records and
warranty rows are left out; no decision of these handlers depends on them.
`ReceiveTypes` is limited to pullouts: the receive button exists on the pullout
screen only.

### Shipments

`qoh` and `incoming` are stock and reservation, `got` the receipt recorded on the
line. Dispatch is one step. Receive, cancel and undo check first and act later;
cancel and undo look at the status again under the lock, receive does not, and
the approvals (`CheckApproval`, `approveUndo`, `approveCancel`) read the row
without a lock and write neither ledger rows nor the register, as in
`post_process`. A receipt is a quantity and a set of ticked serials: nothing in
the handler ties the two together, so neither does the model; `ReceiptsOf` says
which receipts an instance allows. `claimInvoiceSerials` is a sale, which
competes for units and rewrites their source. One line per shipment (lines are
handled one after the other in one transaction), constant unit cost (a journal is
a count). `MaxJournals` bounds the journals of a shipment and so the number of
receive-undo rounds.

### Ledger

`period` is the status of the month's period (`NONE`: no row yet), `gl` the
journals, `tx` the transactions in progress with what they have read. The locks
are operators named after the statements that take them. A posting checks its
period (creating it when it is missing), then inserts; the foreign key to the
year makes it wait for a close that holds the year's row, and the close waits for
uncommitted period rows of its year. A journal's lines are balanced or the posting
throws, so what remains of them is the net effect on income and expense. `post_journal`
hands the whole request body on, so a voucher posted by hand may declare any source
and name any journal as the one it reverses; `byCaller` remembers these. `route` tells
the system's own contra and opening postings, which lock and check, from the others.

### Trade

`qoh`, `incoming`, `reg` and `moved` are stock, reservation, register and the sum
of the movement rows; `order`, `bill`, `sale` and `ret` the documents, `items` the
line of a bill, which a second post of its id overwrites while stock, register and
order stay (`PI_UPSERT_SQL`). The deletion takes out the line its check read. A bill
inserts the serials it lists, takes up again units that the vendor had back, and is
refused for one that is already there (`registerPurchaseSerials`). A
sale claims its units and deducts under its own guards, and its void decides again
under the row lock, so both are one step; bills, deletions and returns validate
first and act later, which is two. A return above the approval threshold (`Held`)
is a `DRAFT` without effect until `post_returnApprove`.

Documents have one line and share a branch. Unit cost is positive and constant, so
a journal is a count. `BillLines` are the lines a request may carry for a bill.
Repeating the id of an invoice or a return is not modelled; repeating the id of a bill
is, unless the bill was deleted.

### Settlement

`paid` and `settled` are the two columns of an invoice, `pay` and `journal` the
payments and their entries. Both columns are the request's when an invoice is created
or a bill posted again: any amount, below zero too, beside any status (`Init`,
`post_purchaseInvoices`). Payments and reversals derive the status from the new
balance. `post_reverse` and `post_reversePayments` act on a list read earlier and look
again only at the payments' own status. `direct` remembers what was recorded without a
payment row, `stated` the invoices whose status is still the body's, `late` the
receipts that were posted on a void invoice.

### Devices

`cdr` is the device record of a serial, `asset` the fixed asset that carries a
unit, `rows` the ids of the movement rows, which decide whether a collection is
credited. `post_assets` is the first transaction of a deployment (the unit leaves
the stock), `upsertAsset` the second; `deployUnserialised` is the first one of a
request without a serial number. The asset's id is the request's and may be in use;
`recs` are the ids whose record exists, the one collision the database refuses.
Statuses of a record are grouped as the handlers tell them apart (`RecordStatuses`),
and each may be posted (`CheckDevice`). `patch_status2` collects through the record,
`patch_status` by unassigning the asset, `post_customerDevices` by a release in the
directory; `post_exchange` swaps two units. Not modelled: the registration of an asset
that is not taken from stock, a record posted under another record's id.

### Sync

The rows of a slice are the number of writes they contain. On the server a write
commits, is announced to the open streams (by the writers in `InTx` before the
commit, as `logAudit` does with a transaction's client) and waits for its own refresh
of all mirrors in `chain`. A writer in `Silent` broadcasts nothing (an approved
request), the event of one in `Aside` resolves to a domain without the slice it changed
(a deployment says `FIXED_ASSETS`), the event of one in `Unlisted` to none, which makes
the tab fetch everything. A handler that throws after its commit (`ErrorAfterCommit`)
is answered at once: no refresh, and no event unless it was sent before. In a tab, events gather in `burst` until the timer fires;
`slice` and `full` are the requests under way, `painted` the version the gate
compares. A handshake and a poll carry `version`, an event the counter of `sse.ts`.
Losses, failed requests and loads, restarts and the limiter's hour are actions that
draw on `MaxUpsets`.

### History variables

`known` in `Trade`, `Settlement` and `Devices`, `byCaller` in `Ledger`, `stated` and
`late` in `Settlement`, `gap` and `late` in `Sync` decide nothing: no guard and no
other variable depends on them; nor do any on `direct` in `Settlement`, but for the
bound `MaxLegacy`. They record where one of the defects of section 3.2 has struck, or
what a request body decided, so that the properties can say: and nothing else goes
wrong. Each is set by the actions, and under the conditions, that bring the defect
about. `skipped` in `Sync` is of the same kind.

## 3. Runs

| Run | Instance | Result |
|---|---|---|
| `stockops_conc` | 3 operations on 2 units, 2 concurrent requests, reversals and receipts | `NoNegativeStock`, `UnitsHeldOnce`, `ImplementsCustody` hold (92,589 states) |
| `stockops_reverse` | 4 operations of all types, both pools, one reversal at a time | `StockFollowsOperations`, `LedgerExplainsStock`, `RegisterMatchesStock`, `JournalsFollowOperations` hold (38,820) |
| `stockops_receive` | 3 operations, 2 requests that keep apart, reversals and receipts | `StockFollowsOperations`, `RegisterMatchesStock` hold (12,041) |
| `ledger_journals` | 1 year of 2 months, 4 journals, 2 transactions, vouchers of any declared source | `TypeOK`, `ReversedAtMostOnce`, `OneOpeningPerBranch`, `ClosedOncePerYear`, `CloseLeavesNoResidue` hold (664,901) |
| `shipments_conc` | 2 shipments that want one unit, 2 requests, sales | `NoUnitStranded` holds (264,040) |
| `shipments_seq` | 2 shipments, 2 requests on different ones, full receipts, approvals, sales | `StockFollowsShipments`, `IncomingMatchesTransit`, `RegisterMatchesStock`, `JournalsFollowShipments`, `LedgerExplainsStock` hold (3,129) |
| `trade` | 1 unit and 1 quantity-only product, an order, 2 bills (one with a choice of lines), 2 sales, 3 returns, 2 requests | `AssignedByLiveSale`, `ReturnedByLiveReturn`, `StockFollowsDocuments`, `LedgerExplainsStock`, `RegisterMatchesStock`, `JournalsFollowDocuments` hold (1,852,700) |
| `settlement` | a bill with 2 payments, legacy payments and re-posts, 2 invoices with 2 receipts, any status stated, 2 requests | `PaidIsPayments`, `StatusFollowsBalance`, `JournalsFollowPayments`, `VoidedCarriesOnlyLate` hold (1,063,836) |
| `devices` | 2 units, 2 assets, 2 requests, every status | `ValueFollowsStock`, `LedgerExplainsStock`, `RegisterMatchesStock`, `AssetNamesUnitOut` hold (2,687,342) |
| `devices_double_credit` | the same | `NeverCreditedTwice` violated |
| `sync` | 1 tab, 2 slices, 5 kinds of writer, 2 writes, 1 upset | `TypeOK`, `MirrorLagsOnlyIfOwed`, `StaleOnlyIfOwed`, `NoSlotLeaked` and, under fairness, `ScreenCatchesUp`, `StreamReopens` hold (1,047,215) |
| `sync_gap` | 1 tab, 1 write, 1 lost connection | `GapsAreFilled` violated, under the same fairness |

The type invariants of `StockOps`, `Shipments`, `Trade`, `Settlement` and `Devices`,
and `NoNegativeStock` of `Shipments` and `Trade`, are proved (section 4), so no run
lists them.

The two violations are disagreements between the code and what a comment beside it
says:

* `sync_gap`: there are two counters called `dataVersion`. The one in `sse.ts` moves
  with every broadcast; the handshake, the version poll and the bootstrap carry the
  one in `runtimeState.ts`, which is set at boot and moves with the company profile
  only. A change announced while the stream is down is therefore not noticed at the
  reconnect, although `App.tsx` says that such changes "are never silently missed".
* `devices_double_credit`: the id of a collection row is the asset's, or the record's
  when no asset is found. A collection between the two transactions of a deployment
  uses the record's id, the next one the asset's, and stock is credited twice, although
  `cpeAssetLifecycle.service.ts` says that every later path "never credits again".

### 3.1 Bounds, fairness, deadlock

Two requests at a time are enough for every race between one check and one
transaction; three operations let a unit be taken, given back and taken again while a
request on the first operation is still in flight, which is the longest chain the
attribution by source has to survive; four let the reversals run over a damage report,
a disposal that drains its pool, and two more. Two units tell "this unit" from
"another unit of the product". Four journals are a posting, its close, a posting after
the reopen and a second close, or a voucher, its contra and two more; `OneDeclared`
lets one of them declare a source or an original of its own. `MaxJournals` of 2 allows a receipt and its contra, of 5
two full rounds. In `trade` the unit can be bought, sold, taken back by either of two
returns (one held and restockable, one neither), sold again or sent to the vendor, while
an order and its bill move the other product; `OrderQuantities` of one is enough, since
a reservation is only added to and clamped; the seven journals of its `MaxJournals`
are enough for a bill, a sale, a return, its cancellation and a second round. In
`settlement` payments and the legacy route exceed the bill's total, so all three
payment states occur; the body of a re-post says -1, 0 or 2 of 3 beside any status;
`MaxLegacy` bounds the route that leaves no row. In `devices`, `MaxRows` of 4 lets both
units go out and come back under ids of their own, `MaxStock` is one more than the units there are, so a double
credit is seen and not repeated; `UntilStruck` follows a behaviour until a known defect
has struck a unit, because from then on the properties but `ValueFollowsStock` and
`LedgerExplainsStock` say nothing. In `sync`, `MaxWrites` of 2 makes two refreshes
overlap and one answer overtake another; `MaxUpsets` of 1 is any one fault at any
moment. Two faults in a row are not covered by a run. Symmetry is used over operations,
workers, journals, units and assets where no action tells them apart, and not in the
run with liveness.

Fairness is assumed in `Sync` only. It is weak fairness of each thing that is waited
for: a handler goes on (it commits, rolls back, announces or fails), the refresh goes on
(a load or the response), the server learns of a closed socket, a tab's timer fires, and
each of its requests is answered and received. Users,
faults, the version poll and the limiter's hour are not fair. All of it is what Node,
the browser and TCP promise while they run; a request that is not answered is one of the
faults. The other components claim no liveness: a request runs to its end or rolls back,
and nothing retries on its own.

Deadlock is checked for `Ledger`. It is off elsewhere: the instances run out of
documents, operations or writes, and then nothing is left to do.

### 3.2 What the passing runs leave out, and why

The conservation properties hold only within limits, because the code breaks the sums
outside them. The limits are deliberate; each names a disagreement, which the model has
as well.

Stock operations, named in `StockOpsConservation`
* A cancelled pullout can still be received (`inventory.controller.ts:2560` refuses
  `RECEIVED` only); its units are then credited at both ends. The same happens when a
  reversal passes its check before a receipt commits; two reversals that passed their
  checks both credit the stock. `Apart` keeps these out: no request shares its operation
  with a reversal, and none receives what was cancelled. It is the constraint of
  `stockops_receive`; `stockops_reverse` has one request at a time and no receipts.
* The ids of pullout receipts do not contain the operation, so a second receipt of one
  product loses its row, and so does the second line of a receipt with a usable and a
  damaged line of it (`OneReceiptLinePerProduct`); `LedgerExplainsStock` is checked
  without receipts, and proved with them.
* A manual adjustment that raises one product and lowers another nets their values in
  its journal (`stockPosting.service.ts:131`) and posts none when they cancel out. The
  model counts journals, and requests are one way (`OneWayAssumption`).
* A manual adjustment of a serial-tracked product names no units
  (`inventory.controller.ts:1376`), and a damaged-pool pullout line is credited to the
  usable pool on receipt, though its unit stays quarantined. `UnitsNamed` keeps both
  from serial-tracked products.

Shipments, named in `ShipmentsConservation`
* Two receipts of one shipment: the receive transaction does not look at the status again
  (`shipments.repo.ts:343`). `Apart`: no two requests in flight are on one shipment.
* A shipment received short can be cancelled, which gives everything back to the source.
  `WholeReceipts`: a receipt counts what was sent.
* A second receipt repeats the ledger row's id and the row is dropped
  (`shipments.controller.ts:55`); approvals write no rows. `LedgerExplainsStock` excepts
  both. Approvals move no serials either, so in `shipments_seq` and in the theorem about
  the register shipments with serials go by the direct routes (`SerialsGoDirect`).
* Cancelling after a unit travelled on re-stamps it, since the flip filters on the status
  only (`shipments.controller.ts:966`).
* The undo of a receipt counts quantity, not units; with units of two shipments at the
  branch, or sold ones replaced by others, it takes the wrong one's quantity.
  `UndoFindsUnits` says that an undo which finds the quantity finds its units;
  `shipments_seq` keeps all units of a product on one shipment, where that holds.
* A full quantity with a serial left unticked closes the shipment and strands that unit.
  `CarefulDesk`, one tick per counted unit, keeps it out of `shipments_conc`,
  `shipments_seq` and the theorems about units.

Ledger
* A close sums all earlier years and locks only its own, so a posting into an earlier year
  can slip between the sum and the commit: `CloseLeavesNoResidue` is stated of a year
  before which there is none (`FirstYear`).
* The period's status is read without a lock (`accounting.service.ts:241`) and the year's
  flag not at all, so a journal can commit into a period closed meanwhile.

* A voucher posted by hand may declare itself a contra, an opening or a closing journal
  (`accounting.controller.ts:400`), and only the index on opening journals refuses one:
  `ReversedAtMostOnce` and `ClosedOncePerYear` are said of the journals that reversal and
  close post themselves, and say also that these respect the declared ones.

Trade, in `known.stock`, `known.register` and `known.rows`
* Two posts of one bill id, or two deletions of one bill, both move the stock; a bill can
  be deleted under a posted return. A bill posted again with other lines moves nothing,
  and its deletion takes out lines that were never received.
* Deleting a bill writes a positive movement row (`PURCHASE_INVOICE_CANCELLED`):
  `LedgerExplainsStock` excepts products with a deleted bill (`known.rows`).
* A return that is not restockable sets its unit `IN_STOCK`; a cancelled return leaves the
  unit `SOLD`, and the void of the invoice then gives back the quantity without the unit.
  A bill deleted after a unit's row has gone with another bill takes the quantity of a unit
  that is not there.
* Returned quantities are summed before the transaction, so two returns of a quantity-only
  line can exceed the invoice. The instance has one return per such line.
* Receiving a bill does not release the order's reservation; no property is claimed of
  `incoming` here beyond its type.

Settlement, in `known`, `stated` and `late`
* Amount and status of a bill or an invoice are the request's, and neither is checked
  against the other: `StatusFollowsBalance` speaks from the first payment, receipt or
  reversal on, until the bill is posted again. An amount below zero is clamped away by
  the first reversal; `PaidIsPayments` excepts it.
* A payment between the read and the reset of a bulk reversal is wiped from the balance and
  stays `POSTED`; re-posting a bill resets its balance; a bill can be deleted with payments
  on it; a receipt can be posted on a void invoice.

Devices, in `known.units` and `known.row`
* A closed record counts as an assignment; the proof of a deployment outlives it and
  switches off stock change and gate; the previous status is read before the transaction;
  a repeated exchange restocks again; an unassignment uses the serial the mirror showed; a
  deployed asset can be disposed of; and a collection inside a deployment is the violated
  property. A row id repeats when a record is assigned or released a second time
  (`inventory.controller.ts:2976`).
* Every posted status but `IN_STOCK` is an assignment to the stock row, so a unit posted
  as collected or exchanged is counted out while the register keeps it on the shelf, or
  where it was. An exchanged unit's record can be patched without any move of stock.
* An asset id may be deployed again (`inventory.controller.ts:677`): the second movement
  row is dropped, and both units share one collection credit. A unit unassigned from an
  asset that was credited before comes back without a credit.
* A deployment without a serial number takes quantity and no unit.

Sync, in `gap` and `late`
* A change announced before its commit, an answer painted after a newer one, and a change
  no stream carried leave a screen stale until the next refresh. So do a change that is
  not broadcast at all (`misc.controller.ts:379-651`) and one whose domain leaves out its
  slice (`ASSETS`, `App.tsx:1393`), from the commit on (`late`).
* A request that fails after a commit refreshes no mirror and sends no event
  (`cacheRefreshHook.ts:22`): the mirror lags (`skipped`) and the screen is stale (`late`)
  until the next write refreshes them.
* A mirror is not replaced by an empty result for the loads that ask for
  `rows.length > 0`; the model counts writes and has no empty tables.

## 4. Proofs

Every invariant and action property that a passing run checks is also a theorem, for any
branches, products, units, documents, journals, tabs, bounds and number of concurrent
requests that satisfy the named assumptions of the modules. The exceptions are the two
liveness properties of `Sync`.

The assumptions are the types of the constants; that sets of documents, operations,
shipments, units, journals and tabs are finite; that requests have passed the handler's
validation; that receipts name dispatched serials, at most as many as the quantity; that
years are intervals of months; that a return names units of its original; and that register
and stock agree at the start (`OpeningAssumption`; in `Trade` a serial-tracked product
starts with none). TLC evaluates all of them on the instances. A theorem that needs one of
the limits of section 3.2 has it as a hypothesis: limits on the constants as `ASSUME`, limits
on the state as a conjunct (`Spec /\ []Apart => []P`).

`Sums` is what the conservation theorems stand on. A sum is `SumFunctionOnSet` of the
community modules, a recursive function that picks its own order. The module shows that the
recursion has a solution (`SumEmpty`, `SumType`), that a sum is any one term plus the others
(`SumRemove`, `SumAdd`), and from that how it changes with one term (`SumChange`), over a
disjoint union (`SumUnion`) and not at all (`SumSame`). Induction over finite sets takes the
form of `MinimalSubset`: a set of subsets of a finite set that is not empty has a minimal
member, so a smallest counterexample exists and is refuted. That form needs no operator
parameter, which the provers could not instantiate.

### Types and bounds

* `TypeCorrect` (all seven proof modules): the type invariants, which are inductive. In
  `Shipments` the type says more than types: a delivered shipment carries one of its receipts,
  and a request in flight has a shipment that exists. In `Trade` it says that
  reservations stay at zero or above, in `Devices` that both pools do. Balances in
  `Settlement` are integers: a body may state any.
* `StockNeverNegative` (`StockOpsProofs`, `ShipmentsProofs`, `TradeProofs`): a draw is
  guarded by a re-check on the locked row or by the `WHERE` of the update;
  everything else adds. Inductive with `TypeOK`.

### Custody of units

* `StockOpsProofs!UnitCustody`: `UnitsHeldOnce`. Inductive together with `TypeOK` and
  `ReceivesPullouts` (a receipt in flight is for a pullout); the proof turns on the
  converse half of `UnitsHeldOnce`, that an open operation's units are all attributed to
  it: without it a restore could leave a unit behind.
* `StockOpsProofs!RegisterImplementsCustody`: `StockOps` implements `Custody` under
  `StockOpsCustody`. A create is `Take` of the units it names, a reversal is `GiveBack`, a
  receipt `Deliver`; a check, an abandoned request or a late reversal of what is already
  closed is a stutter or a `LetGo` of nothing.
* `ShipmentsProofs!UnitsNeverStranded`: with one tick per counted unit (`CarefulDesk`) and
  no approvals (`DirectRoutesOnly`), a unit in transit is on a shipment that can still be
  received or cancelled, although receive acts on a stale status. It needs
  `NoApprovedCancel`, that no approved cancel is in flight.
* `TradeProofs!AssignedByLive`, `ReturnedByLive`: `AssignedByLiveSale` and
  `ReturnedByLiveReturn` are inductive with `TypeOK`. A void releases every unit its
  invoice has claimed and that is still with the customer, so no assignment survives its
  sale; a cancelled purchase return takes its units out of the vendor's hands. Neither
  argument uses what a check saw, so any number of stale checks may race.
* `DevicesProofs!AssetsNameUnitsOut`: `AssetNamesUnitOut`, a part of `UnitsAgree` below.

### Conservation

Each proof has the same plan. The steps are reduced to a few shapes (one operation opens or
closes, one shipment moves, one document changes, nothing is written); of each shape one
lemma says how the term of that document changes, and `Sums` carries the change over to the
sum. What an invariant needs beyond the types is that a request in flight still sees what
its check saw, or that it does not matter.

* `StockOpsProofs!StockIsOperations`, `BooksFollowOperations`: while requests keep `Apart`.
  The strengthening is `InOrder`: a reversal in flight is still for an operation that may be
  reversed, and what was received is a pullout.
* `StockOpsProofs!RowsExplainStock`: with `OneReceiptLinePerProduct`. Rows are dropped on a
  repeated id, so it needs `RowsNamed` (an id tells the operation and leg its row stands
  for), from which every insert that matters is fresh.
* `StockOpsProofs!RegisterFollowsStock`: with `UnitsNamed`. The number of units on a shelf
  changes with the quantity because the serial gate and the flips touch the units named, and
  `UnitsHeldOnce` says that a restore finds them all.
* `ShipmentsProofs!BooksFollowShipments`, `StockIsShipments`, `IncomingIsTransit`: while
  requests keep `Apart`, with `WholeReceipts`. The strengthening is `OnTrack`: no shipment is
  short, and the status on which a receipt or an approval decided still stands. That makes
  the release of a reservation exact, so its clamp at zero never hides anything.
* `ShipmentsProofs!RowsExplainStock`: the same, with its own `RowsNamed`.
* `ShipmentsProofs!RegisterFollowsStock`: with `CarefulDesk`, `SerialsGoDirect` and
  `UndoFindsUnits` too. The strengthening is `OnRoad`: the units of a shipment on the road
  are in transit, and on no other such shipment, so a receipt or a cancellation flips as
  many units as it counts.
* `TradeProofs!StockIsDocuments`, `BooksFollowDocuments`, `RowsExplainStock`: with
  `CancelSaw`, that a cancellation in flight saw a return that had been entered, and
  `FreshBill`, that a bill which never was has no journals. A bill
  that is posted again or deleted with a line that is no longer its own strikes both
  products, so outside `known` the line a request carries is the bill's.
* `TradeProofs!RegisterFollowsStock`: with `DamagedIsKnown` (a posted return that is not
  restockable has struck its product) and `AssignedByLiveSale`, which makes the units of a
  void those the invoice claimed.
* `SettlementProofs!BalanceIsPayments`, `VoidKeepsOnlyLate`: with `ListsAreOfDoc` (the list
  a reversal read names one payment, or payments of its bill) and `VoidedWasUnpaid`; that
  a balance outside `known` is not below zero (`RecordedIsNatural`) keeps the clamp of a
  reversal from hiding anything. The
  payments still `POSTED` under the lock are what a balance loses, however old the list.
* `DevicesProofs!RegisterFollowsStock`, `AssetsNameUnitsOut`: `UnitsAgree`, which says that
  until a defect strikes an asset id is used once, a tag is on one record, and records,
  assets, register and stock row tell one story (`Sound`).
* `DevicesProofs!ValueFollows`, `LedgerExplains`: every route that changes the stock row
  posts the same change, and writes a row with an id of its own unless the history says
  that the id was used before. Inductive with `TypeOK`.

### Books and balances

* `LedgerProofs!OneContraPerVoucher`, `OneOpening`, `OneCloseEntry`: each needs one
  strengthening, that a transaction which has passed its check is alone with its lock and
  the check still holds (`ReversalLockHeld`, `OpeningLockHeld`, `CloseLockHeld`); a voucher
  that declares itself a contra or a closing journal waits, through its foreign keys, for
  the row locks of a reversal or close in progress, and the index refuses a second
  opening. The lemma
  `StepIsOneOf` reduces every step to starting, committing or ending a transaction, so each
  theorem looks at five cases.
* `LedgerProofs!CloseIsExact`: the action property `CloseLeavesNoResidue`. The strengthening
  is `ReadStands`: what a close has summed is still what the journals add up to, because the
  year's row is locked from the sum to the commit and a posting into the year waits for it.
  The closing journals then cancel the sum branch by branch.
* `SettlementProofs!StatusIsDerived`, `JournalsReversedOnce`: every payment and
  reversal derives the status from the balance it writes, whatever stood there before, and
  `stated` holds the invoices none has touched since a body wrote them; a reversal, single or bulk, posts its
  contra only for payments that are still `POSTED` under the lock. Inductive with `TypeOK`.

### Synchronisation

* `SyncProofs!SlotsGivenBack`: `NoSlotLeaked` is inductive with `TypeOK`; each step changes
  the number of open streams by at most one and the limiter's count with it.
* `SyncProofs!MirrorIsOwed`: with `ChainWaits` (a queued refresh belongs to a request that
  waits for it, once each). A load that begins after a commit contains it, and a refresh
  that began before never stands in for that commit's own.
* `SyncProofs!ScreenIsOwed`: with `StreamsClean`, `NobodyAhead` (no answer and no screen
  has more rows than were committed, or a later version) and `GateDropsOld` (an answer that
  the version gate drops has nothing to add). `Untold` puts a slice into `late` at the
  commit that no event follows, for the tabs that do not fetch it anyway. These are why superseded requests,
  the gate and a reconnect lose nothing besides what `gap` and `late` name.

### Only model-checked

`ScreenCatchesUp` and `StreamReopens`: that the debts of `Sync` are paid in the end is
liveness under fairness, out of the prover's reach. The two violated properties are refuted
on their instances. That the limits of section 3.2 are needed is argued there, at the line
of code that breaks the sum, and not proved.

## 5. Plan

What is left, in order:

1. Approval queue: its own status and double processing (`misc.controller.ts:330`), the
   physical stock audit and the customer-device approvals, composed with `Shipments` and
   `Devices`; the dual approval of serial corrections.
2. Requests that repeat an id: an operation (`inventory.repo.ts:710`) and a shipment
   (`shipments.controller.ts:432`) are written over, and the first moves its stock again.
3. One register shared by operations, shipments, sales and devices, with `Custody` as its
   specification.
4. Document numbers with the in-memory fallback; daily cash close; payroll runs;
   depreciation; warranty.
5. The rollover of stock into a new year, with the check of `is_closed` outside its
   transaction (`routes/fiscal.routes.ts:100`) and the switch of the current year, whose
   database error is logged only (`admin.controller.ts:1060`).
6. Proofs: `UndoFindsUnits` from a condition on the manifests, so that it need not be a
   hypothesis; the composition of item 3 as an implementation of `Custody`.

## 6. Not modelled

Demo mode; money amounts, average cost and rounding; the two calendars; permission and
branch-scope checks (a modelled request is one that passed them); reports, search, PDF,
settings and master data; boot and schema migration; a second server process; the screens
of the web client, which make up most of the repository's lines and only decide which
requests arrive. The models take requests from what a handler accepts and not from what a
screen offers, with these exceptions: the id of an operation, a shipment, an invoice or a
return is used once, and that of a deleted bill not again; only pullouts are received
(`ReceiveTypes`); a line names a product once per pool; a device record is posted under
its own id, and an asset outside the stock is not registered. The client's one protocol,
how it keeps its rows current, is in `Sync`.
