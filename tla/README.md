# ERP-Server: stock, orders, points and tills in TLA+

ERP-Server is a NestJS server over Prisma and PostgreSQL for a multi-branch
trading company: stock, sales, tills, accounts and statutory filing. This
directory models the stock documents and the posting engine they share, the
sale orders that reserve stock and the bills that deliver them, the points of a
loyalty wallet, and the cash of a till session; it checks them with TLC and
proves the invariants of the stock documents and of the till with TLAPS. All source paths
below are relative to `src/src/modules/stocks/` unless they say otherwise.

## 1. Inventory

| Component | State it keeps | Operations | What makes it correct |
|---|---|---|---|
| Stock voucher lifecycle (`stock-voucher/stock-voucher.service.ts`) | header status, deleted flag, lines, status trail | save, save-and-post, post, cancel, soft delete | one request wins a document; ledger, accounts and trail say what the header says |
| Posting engine (`stock-voucher/stock-voucher-posting.helper.ts`, `posting/stock-posting.service.ts`) | ledger, balances, lots, transit rows | `postStockVoucher`, `cancelStockVoucher`, `recallTransferOut`, `settleTransitShort`, rebuilds | balances are sums of the ledger under every interleaving; policy on negative stock holds |
| Stock transfer (`stock-transfer/`) | despatch and receipt headers, transit rows, transit-in figures | despatch, receive, short-settle, recall, cancel | nothing over-received, nothing lost, header and rows agree |
| Physical count (`physical-stock-voucher/`, `save`/`validate` of the voucher service) | sheets, book figures, freezes | save with freeze, post, cancel | a posted count leaves the book at what was counted |
| Lot totals and repair (`refreshLotTotals`, `posting/stock-admin.service.ts`) | lot total and lot status | rebuild at every post, admin rebuild | total is the sum over branches, status follows the total |
| Sales stock (`../sales/posting/sales-stock.service.ts`) | shadow vouchers | post, cancel | same as the voucher lifecycle |
| Stock accounts (`posting/stock-accounts-posting.service.ts`) | accounts vouchers | post, reverse, short settlement | an accounts voucher stands exactly while its document does |
| Stock reservation (`../sales/posting/stock-reservation.service.ts`) | reservations, reserved figures | reserve, release, consume | the reserved figure is the open reservations; nothing is held for a line that needs none |
| Sale order, bill, returns, delivery challan, held sales (`../sales/`) | document machines over the above | lifecycle operations | a document and its stock, loyalty and money move together |
| Loyalty ledger (`../sales/posting/loyalty-ledger.service.ts`, `../sales/loyalty/members/`) | ledger rows, lot balances, wallet | earn, redeem, reverse, claw back, adjust, drain | points are never spent twice; the wallet is exact when it is drawn on |
| Till (`../till/services/`) | sessions, safe, movements, approvals, day close | open, count, hand over, close, drop, pick up | one session per drawer; ledgers and drawer tie through close, receipt and reopen |
| Receipts, payments, bill adjustment (`../accountsModule/`, `src/src/common/posting/`) | open bills, allocations, vouchers | allocate, amend, reverse | a bill is never settled beyond its amount |
| Cheques, tender settlement | registers | deposit, bounce, reissue, settle | each instrument is settled once |
| Numbering (`src/src/common/Sequence/`) | counters | next number | no number twice |
| GST client (`../gst/client/`) | tokens, lease | authenticate, refresh | one refresh at a time |
| Purchase, reports, masters, settings, print, auth, audit, cache, seeds | rows and queries | CRUD and reads | out of scope here, see section 9 |

How they interact: the services call each other inside one
`prisma.$transaction`; nothing is messaged. All sharing is through PostgreSQL
rows at READ COMMITTED, the header row lock (`SELECT ... FOR UPDATE`) and an
advisory lock per (company, branch, item). What is hard is therefore: reads made
before the transaction or before a lock and used after it; two transactions on
one holding; documents that touch several items or several branches and so
several locks; figures derived from rows another transaction is writing; and the
loss of the connection half way. `PROJECT.json` lists each such place under
`hazards`, with its line.

## 2. The modelling of a request

Every module uses one pattern. A request (`Req`) is a process with a program
counter `pc`:

1. an *arrival* action is what the code does before its transaction: the reads
   without a lock and the refusals that depend on them. A refused request
   changes nothing and is not a step;
2. `LockHeader` (`LockIn`, `LockOut`) is `FOR UPDATE` on the header, and the
   status read again under it;
3. the item locks, one at a time, in the order the code takes them;
4. the checks (`Preflight`, `CheckDrift`, `Guard`, ...) and `Apply`, which
   computes the figures the rebuild statement would write, from the committed
   rows and the transaction's own;
5. a `Commit...` action makes everything the transaction wrote visible and
   releases its locks; `Rollback`, reached by a refusal, or `Abort` at any step
   (exception, lost connection, crash of the server) forgets it.

Uncommitted writes live in the request (`form`, `calc`, `hand`, `row`, `tx`,
`mine`, `arg`), because no other transaction can see them. A read and the write that rests on it are
separate steps exactly where the code holds no lock between them.

Quantities are small integers; the stored columns are exact decimals, so no
rounding is lost by that.

## 3. Modules

| Module | Models |
|---|---|
| `StockVoucher` | `save`, `post`, `cancel`, `softDelete` of a stock document, `SalesStockService.post` / `cancel`, and the engine beneath: ledger rows and their mirrors, balance rebuild, negative-stock policy, accounts voucher, status trail |
| `StockTransfer` | despatch, receipt in parts, short settlement, recall, same-branch transfer and its cancel |
| `StockCount` | count sheets, book figure, drift check, freeze guard, superseded check, beside movements |
| `LotTotal` | the lot row shared by the branches, and the repair |
| `StockBook` | abstract: a document is entered in one book once, all lines at a time, and struck out once; `StockVoucher` implements it |
| `SaleOrder` | orders (confirm, cancel, cancel of lines, save, amend, delete), reservations (reserve, release, consume), and bills as far as they draw on an order |
| `Loyalty` | one wallet: draws under its lock, earns and reversals without, the two caches beside the ledger rows |
| `Till` | sessions, counts, variances, movements, bags and their receipt, close and reopen, with the till cash ledger and the awaiting ledger |
| `MC...` | the small instances for TLC, one module per component |
| `SumLemmas` | what a sum over a finite set does, proved from its definition |
| `StockVoucherProofs` | types, locks, figures, status, openings and trail of `StockVoucher`, and that it implements `StockBook` |
| `StockTransferProofs`, `StockCountProofs`, `LotTotalProofs`, `SaleOrderProofs`, `LoyaltyProofs`, `TillProofs` | every safety property the runs of that component check |

Correspondence of state, `StockVoucher`: `status`, `deleted` are `svh_status`,
`svh_is_deleted`; `lines` are the `stock_voucher_item` rows; `ledger[i][d]` sums
the forward and the reversal rows document `d` has on holding `i`; `onHand` is
`sbl_on_hand_qty`; `books` the accounts voucher; `trail` counts the
`txn_status_log` rows. `StockTransfer`: `row` is `stock_transit`, `link` is
`svh_link_src_doc_id`, `transitIn` is `sbl_transit_in_qty`. `StockCount`:
`book`, `counted` are `svi_book_qty`, `svi_counted_qty`, `stamp` is
`tsl_changed_on` of the POSTED step, and `nth` is a history variable (the order
of the commits) that only the property reads. `LotTotal`: `lot` is the
`stock_lot` row. `SaleOrder`: `rsv[l]` are the `stock_reservation` rows of a
line, `reserved` is `sbl_reserved_qty`, `line` the quantities of
`sale_order_item`, `status` and `fulfil` are `so_status` and
`so_fulfil_status`. `Loyalty`: `ledger` is `loyalty_ledger`, with
`lld_consumed_points` as `used`; `wallet` is the balance the five buckets of
`loyalty_member` come to. `Till`: `ses` is `till_session`, `gap` the live
CLOSE-stage `till_variance`, `moves` the standing `till_cash_movement` rows,
`till` and `awaiting` the postings on the two ledgers. The `map` of `PROJECT.json` gives the lines of every definition.

Abstractions worth knowing:

- an `Item` of `StockVoucher` is one holding of one item in one branch, with its
  own advisory lock; two lots of one item share a lock in the code, which only
  adds exclusion;
- the preflight's tests of a document's own lines and of masters read nothing
  that another request of the model changes, so a refusal of theirs is covered
  by `Abort`;
- a request for a sale is the call of `SalesStockService` inside a bill's
  transaction; the rest of the bill is not modelled. The shadow of a document
  that has no stock lines does not exist, hence line lists with a quantity;
- a deleted document's lines are flagged too; nothing of the model reads them
  afterwards;
- `SaleOrder` keeps one holding per item and only as much of the stock as decides
  what is free; the stock side of a bill is `StockVoucher`. A bill draws on one
  order; an amend changes quantities and adds no lines;
- in `Loyalty` a statement that sums and then waits for the row it updates is two
  steps, because at READ COMMITTED the sum is of the statement's snapshot. Steps
  that only lock or write what nobody sees yet are joined to the read behind them;
- in `Till` an operation that locks its session row and touches no other session
  is one step. Open, close and reopen read outside that lock and are two. A bill
  locks nothing and is two. Only the cash tender is kept;
- in `StockCount` all freeze windows overlap; `Inside` says which documents are
  timed inside them.

## 4. Runs

Passing runs, with TLC's distinct states:

| Run | Shows | States |
|---|---|---|
| `StockVoucherRace` | `OnHandIsLedger`, `StatusMatchesLedger`, `OpenedOnce`, `TrailMatchesHeader`, `TypeOK`, `RefinesBook`, with two openings and an adjustment on one blocked holding | 293 018 |
| `StockVoucherSales` | `BlockedNeverNegative`, `NeverOverdraws`, `RequestsEnd`, `RefinesBook`, with a voucher and a sale on two items of different policy | 56 613 |
| `StockTransferParts` | `NeverOverReceived`, `HeaderMatchesRows`, `ReceiptsAddUp`, `TransferFinal`, with one despatch of two lots and two receipts | 73 k |
| `StockTransferMix` | `TransitInIsOpenRows`, `NothingLost`, `NeverNegative`, `RequestsEnd`, `TypeOK`, with two despatches into one godown and a transfer inside the branch | 100 040 |
| `StockCountLands` | `CountLands`, `BookIsSum`, `TypeOK`, with two sheets and a movement | 912 k |
| `LotTotalBranches` | `StatusFollowsTotal`, `FullRebuildRepairs`, `TypeOK`, with three requests in two branches | 4.9 k |
| `SaleOrderBilled` | `ReservedIsOpen`, `DeliveredIsBilled`, `HeaderTellsLines`, `HeldWithinNeed`, `TypeOK`, with two orders, two items and three bills | 481 k |
| `SaleOrderEdited` | `ReservedIsOpen` through saves, amends, cuts and deletes of two orders on one item | 580 k |
| `LoyaltyTills` | `SpentWithinEarned`, `CancelledSpentNothing`, `DrawLeavesExact`, `TypeOK`, with two bills of one member and every operation | 181 k |
| `TillDrawer` | `DrawerTies`, `CountStands`, `AwaitingTies`, `PendingTells`, `TypeOK`, with two sessions of one counter | 726 k |

Each property of a passing run has a mutant: an operator `X_Bug` defined before
`X` that changes the code's behaviour the way a plausible mistake would (a lock
that does not wait, a status not read again, one item locked instead of all) and
under which TLC finds the property violated.

Runs that end in a violation, each against a sentence of the source (quoted in
`findings`):

| Run | Property | What happens |
|---|---|---|
| `StockVoucherDelete` | `NoPostedDeleted` | delete reads DRAFT, a post commits, the delete's update flags the posted document |
| `TillReopen` | `OneDrawer` | a closed session is reopened while the next one of the counter waits for an approver: the check and the index know only live sessions |

What the new properties say:

- `RefinesBook` is refinement. The mapping takes a document's life from its
  header, its entry from its ledger rows and the on-hand figure as it is; then
  every step of `StockVoucher` (locks, checks, rebuilds, aborts) is a step of
  `StockBook` or none, the book's own rules on openings and negative stock
  included. The book adds and subtracts, the code recomputes.
- `HeaderTellsLines` and `HeldWithinNeed` are stated for orders on which clients
  only confirm, cancel and bill (`Steady`). With the other operations they do not
  hold, see below.
- `DrawLeavesExact` is an action property: two earns may leave the wallet's
  balance behind (neither locks it), but a transaction that holds the wallet's
  lock commits a balance equal to the sum of the ledger.
- `DrawerTies` compares ledger and drawer in every status: before the close the
  ledger is the expected cash; after it, the float left and whatever bills came
  after the final count.

Behaviours the models reach which a comment of the source rules out, or which a
reader of the code should know; no run is kept for them:

- two sheets created together for one godown both freeze it
  (`stock-voucher.service.ts:476`); a movement that passed the freeze guard lands
  inside the window (`posting/stock-posting.service.ts:247`); an older count is
  cancelled under a newer one, as the check runs before the locks
  (`stock-voucher.service.ts:3255`). `BookIsSum` and `CountLands` hold all the
  same: the drift check under the item lock protects the figures;
- the total of a lot may miss a branch until the lot moves again
  (`stock-voucher-posting.helper.ts:3114`); `FullRebuildRepairs` is the repair;
- cancel-lines racing a bill on *other* lines commits a roll-up of a state that
  never was, COMPLETED with a line open for one; the comment at
  `../sales/sale-order/sale-order.service.ts:1702` counts on a check constraint
  that only covers the lines cut;
- the roll-up moves `so_status` to COMPLETED and never back: an order whose last
  bill is cancelled is open again on its lines and refused by the next bill;
- a draft deleted while it is being confirmed leaves its reservations;
- a bill and a confirm may wait for each other: they take the item and the order
  in opposite order; the database ends one of them;
- the claw-back of a cancelled return stays: `reverseForCancel` reverses awards
  and redemptions only (`../sales/sale-return/sale-return.service.ts:1580` says
  otherwise).

## 5. Bounds

Two requests are enough for every pairwise race and keep the third party in the
committed rows; `LotTotal`, whose transactions are short, has three, so that a
rebuild can run beside two posts. Documents are used once each (an id is
ABSENT, then alive, then CANCELLED or deleted), which bounds every behaviour of
`StockVoucher` and `StockTransfer` without a counter. `MaxClock` bounds how many
count posts may begin, `MaxRevision` the amends of an order, `MaxWork` and
`MaxAdjs` the requests that change a wallet, `MaxBills`, `MaxCounts` and
`MaxGrants` the bills, counts and recounts of a session. With four such requests
a wallet is earned into, spent, and the spending bill amended, re-tendered or
cancelled; with one grant a session is closed, reopened and closed again. The
floats and counts of `TillDrawer` (0, 1, 3 with a tolerance of 1) give counts
that match, that are off within the tolerance, and beyond it either way. Quantities of one and two make a holding reach zero, go
negative, be received in part and be exhausted. Symmetry is declared on the
requests only, in runs without liveness: requests are interchangeable, and
nothing chooses among them.

## 6. Fairness

`FairSpec` asks strong fairness of `Advance(r)`: the server goes on with a
request it has accepted, and PostgreSQL's lock queues are first come, first
served, so a request that waits for a lock which is free again and again gets
it. Arrivals and aborts have no fairness. `StockTransfer` adds weak fairness of
`Victim(r)`: PostgreSQL's deadlock detector runs after `deadlock_timeout` and
rolls one of two crossing transactions back; a despatch and a recall can cross.
In `StockVoucher` no such help is needed: header first, then items in order.
Neither the requests nor the property say that a request *succeeds*.
`SaleOrder`, `Loyalty` and `Till` are checked for safety only: their transactions
can wait in a cycle which the database breaks, and whether a client tries again
is not in this code. `TillDrawer` and `TillReopen` switch deadlock checking off:
when both sessions are closed, received and out of bills nothing is left to do.

## 7. Proofs

Each theorem holds for every value of the constants (sets of documents, sites,
lots, sessions, requests, any quantities, policies and line lists) that meets
the named assumptions of its module. These say that quantities and money are
numbers, that sets summed over are finite (documents, sites, despatches,
receipts, sheets, movements, order lines, items, branches, sessions), that the
ends of a despatch are two different sites, that an order has a line and a bill
draws on lines of its order, and that `None` is none of the ids. How many
requests there are is left open; only `Loyalty` takes them to be finitely many,
because its type invariant bounds the counted requests.

| Module | Theorem | Statement |
|---|---|---|
| `StockVoucherProofs` | `TypeCorrect` | `Spec => []TypeOK` |
| | `BalanceIsLedger` | `Spec => []OnHandIsLedger` |
| | `BlockHolds` | `Spec => []BlockedNeverNegative` |
| | `OverdraftRefused` | `Spec => NeverOverdraws` |
| | `LedgerFollowsStatus` | `Spec => []StatusMatchesLedger` |
| | `OneOpening` | `Spec => []OpenedOnce` |
| | `TrailFollowsHeader` | `Spec => []TrailMatchesHeader` |
| | `ImplementsBook` | `Spec => RefinesBook` |
| `StockTransferProofs` | `TransferTypes` | `Spec => []TypeOK` |
| | `NoOverReceipt`, `HeaderFollowsRows` | `Spec => []NeverOverReceived`, `[]HeaderMatchesRows` |
| | `TransferIsFinal` | `Spec => TransferFinal` |
| | `ReceiptsTally` | `Spec => []ReceiptsAddUp` |
| | `TransitInExact`, `StockConserved` | `Spec => []TransitInIsOpenRows`, `[]NothingLost` |
| | `NoNegativeTransfer` | `Spec => []NeverNegative` |
| `StockCountProofs` | `CountTypes`, `BookAddsUp` | `Spec => []TypeOK`, `[]BookIsSum` |
| | `CountsLand` | `Spec => CountLands` |
| `LotTotalProofs` | `LotTypes`, `LotStatus` | `Spec => []TypeOK`, `[]StatusFollowsTotal` |
| | `FullRebuildExact` | `RepairsFindRows` implies `Spec => FullRebuildRepairs` |
| `SaleOrderProofs` | `SaleOrderTyped`, `ReservedFigureRight` | `Spec => []TypeOK`, `[]ReservedIsOpen` |
| | `DeliveredRight`, `HeaderRightAlways` | `Spec => []DeliveredIsBilled`, `[]HeaderTellsLines` |
| | `HeldRight` | `Spec => []HeldWithinNeed` |
| `LoyaltyProofs` | `LoyaltyTyped`, `NoDoubleSpend` | `Spec => []TypeOK`, `[]SpentWithinEarned` |
| | `CancelReturnsAll` | `Spec => []CancelledSpentNothing` |
| | `DrawRepairs` | `Spec => DrawLeavesExact` |
| `TillProofs` | `TillTypes`, `DrawerTied` | `Spec => []TypeOK`, `[]DrawerTies` |
| | `CountHolds`, `AwaitingTied`, `PendingTold` | `Spec => []CountStands`, `[]AwaitingTies`, `[]PendingTells` |

**Documents.** `OnHandIsLedger` is not inductive: that a commit leaves a sum
right depends on what the transaction computed some steps before, and that this
is still right depends on the locks. `LockInv` says which locks a stage implies
(`HdrHeld`, `ItemsHeld`) and which operations reach it (`StageOK`). `Fresh` says
that the figures waiting for a commit are the sums of the rows waiting with them
and pass the policy. The central lemma is `StepKeeps`: a step of one request
leaves alone every row another request has locked (`Kept`); with it each
invariant is shown for the acting request by cases on the action, and for every
other request once and for all. `BookInv` collects these; `NeverOverdraws` is an
action property drawn from the same invariant. `StatusInv` adds `Cleared`: what
the header check found still holds while the header is locked. `OpenInv` adds
`Vetted`: what the preflight of an opening found still holds while its items are
locked.

**Refinement.** With these invariants the mapping of `StockVoucher` to
`StockBook` is shown step by step: the initial states map to the empty book, a
commit of a post to an entry, a commit of a cancel to a strike, and every other
step leaves the mapped variables alone. The book's guards (once entered, never
entered again; no second opening; no blocked holding below zero) are what
`StatusInv`, `OpenInv` and `Fresh` say at the commit.

**Transfers** have four invariants, each resting on the one before: `LockInv`
(a stage implies its locks), `HeaderInv` (what was checked of the despatch under
its lock still holds, transit rows and header agree), `ReceiptInv` (the rows are
the sum of the receipts) and `StockInv` (the figures computed under the item
locks are fresh, the transit-in figures are the open rows, and stock here plus
stock between is constant).

**Counts**: `StageInv`, then `CountInv` (a request past the drift check has the
item locked and its book figure is the holding), then `SumInv` (a movement or
sheet lands once).

**Lot totals**: `StatusFollowsTotal` needs only that the row a transaction has in
hand follows its total (`FollowInv`). `FullRebuildRepairs` needs `RepairInv`: a
transaction that holds every branch knows the sum, because nobody else moves.
The hypothesis `RepairsFindRows` says that each branch list a repair is asked
for has a branch that holds the lot. It is needed: the repair locks the items it
finds in the committed ledger (`stock-voucher-posting.helper.ts:2855`), so one
that finds none takes no lock and rewrites the total from a stale sum; TLC shows
this with a lot held in one branch and a repair asked for the other.

**Orders** have three invariants, each resting on the one before. `LockInv` has
`ReservedIsOpen` in it and says what a request holds and carries: the rows it
locked are of its order (`OwnRows`), and every item whose rows it will change is
locked and its figure summed from the rows as they will be (`Marked`). `SumInv`
adds that the lines a bill is about to write are the ones the POSTED bills come
to (`Summed`), which stays so because the order is locked from the recompute to
the commit; `DeliveredIsBilled` and `HeaderTellsLines` are then what the commit
writes. `HoldInv` adds that the rows waiting for a commit fit into what the lines
will have pending (`Fits`): a confirm reserves a draft order's need, a cancel
releases what is live, a bill consumes what it takes. A line whose rows a bill
did not lock must have none that are live, and a draft order must have no bill
(`Whole`); without these two `HeldWithinNeed` is not kept. It and
`HeaderTellsLines` are about the orders nobody edits (`Steady`), as in the runs.

**Points.** `SpentWithinEarned` is not inductive: `redeem` picks lots by the sums
cached in `lld_consumed_points`, and earns, awards taken back and redemptions
given back write rows beside it without the wallet's lock. `IInv` says why that
is safe:

- the rows a request adds carry its own document, and one request works on a
  document at a time (`Alone`), so rows that two of them add never collide;
- a request without FOR UPDATE only gives (`Gives`): while somebody draws, what
  others commit can only leave more on a lot;
- a cached sum is at least what was drawn (`Sure`), and a sum waiting to be
  written covers what its own rows and the committed ones drew (`Covers`): a sum
  taken too early is too high, never too low. A draw that trusts it draws too
  little;
- while one request holds FOR UPDATE no other has KEY SHARE, hence no other has
  rows to commit (`Locked`).

`UndoInv` serves the cancelled bills: a reversal gives back exactly one
redemption and no redemption is given back twice (`Undoes`), and a bill is
cancelled with no redemption open. The sum of its redemptions and of their
reversals is zero because `of` is a bijection from the one set to the other.
`ExactInv` serves `DrawLeavesExact`: behind FOR UPDATE the sums a draw writes are
the sums of the rows it will leave (`Exact`), and a draw that was not refused has
rows to write, so that a wallet which was off is written again at its commit.

**The till.** Every step writes the rows of one session, so the invariant is a
predicate on those rows (`SessionOK`) with one on the transactions in flight
(`RequestOK`: what an open, close or reopen read is still so when it commits).
A step is shown to put rows in their place that satisfy it (`Updates`) and to
leave the session of every other transaction alone (`Spares`). `DrawerTies`
alone is not inductive: `closeIn` posts a variance computed at the count, so one
needs that the variance of a standing count is what was counted less what was
expected, that the hand-over is what was counted less the float left, and that a
session not closed has no hand-over (`CountOK`, `StageOK`). That a hand-over
which was not received has no difference (`MoveOK`) is what keeps
`PendingTells` and `AwaitingTies` through a reopen.

**Sums** are `SumFunction` of the community modules, a fold defined by CHOOSE.
Data induction is beyond the prover, so `SumLemmas` argues by least
counterexample: a set of finite subsets without a sum has a minimal member,
which contradicts the step. What the proofs need is that a sum over a finite set
of integers exists and is an integer, that the sum of zeros is zero, and what it
becomes when one value changes, one index is added or one is removed, when two
disjoint sets are joined, when the indices are renamed by a bijection, and when
every value is negated.

TLC also finds the inductive invariants of transfers, counts, lot totals, orders,
the wallet and the till to hold on the instances of the runs.

Not proved: liveness (`RequestsEnd`, in the runs `StockVoucherSales` and
`StockTransferMix`), because TLAPS does not handle fairness and ENABLED. It stays
with TLC. Every other property of a passing run is a theorem. The properties of
the two violation runs are false of the code and have no theorem.

## 8. Plan

Order of the work, the most depended-on first:

1. **done**: `StockVoucher` with its proofs, `StockTransfer`, `StockCount`,
   `LotTotal`.
2. **done**: `StockBook` and the refinement, by TLC; `SaleOrder` with the
   reservations; `Loyalty`; `Till`.
3. **done**: the proofs of every safety property of `StockVoucher`,
   `StockTransfer`, `StockCount`, `LotTotal`, `SaleOrder`, `Loyalty` and `Till`,
   the refinement of `StockBook` included.
4. The day close over the sessions, and the safe's own movements.
5. Bill adjustment: allocation and reversal against open bills; then cheques and
   tender settlement, which call it.
6. Numbering under concurrent saves, the lease of the GST client.

## 9. Not modelled

Costing (`rebuildLotCosts`, `rebuildItemCosts`): decimal arithmetic over the
ledger in movement order; its concurrency is that of the balance rebuild, its
arithmetic is better served by tests. Numbering, batch numbers, import, reasons,
crew and loading details, tax and charges: they refuse or decorate, and move no
stock. Reports, grids, lookups, print layout, settings, masters, authentication,
audit log, cache and seeds have no protocol of their own. Purchase posts through
the same engine as the modelled documents; its own document machine is left out.
Of the till, tenders other than cash, remittances, the safe's count and the day
close; of orders, advances, added lines, tax and the challan; of loyalty, schemes,
slabs and coupons, which only decide how many points an award is.

Most of the repository's 325 000 lines are such code: one service per master,
report, lookup or print block, each a validation, a query and a payload. They
hold no state between requests and share none, so there is nothing in them for a
model checker to interleave; the lines mapped are those of the subsystems whose
rows several requests write.
