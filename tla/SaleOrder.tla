----------------------------- MODULE SaleOrder -----------------------------
(***************************************************************************)
(* A sale order from its confirmation to the bills that deliver it:        *)
(* SaleOrderLifecycleService (post, cancel, amend, deleteDraft),           *)
(* SaleOrderService (save, softDelete, cancelOpenLines and the fulfilment  *)
(* recompute), StockReservationService (reserve, release, consume), and    *)
(* the part of BillLifecycleService (post, saveAndPost, cancel, amend)     *)
(* that draws on an order.                                                 *)
(*                                                                         *)
(* A request is one transaction at READ COMMITTED, an amend of an order    *)
(* three.  Its uncommitted writes stay in tx[r] and land in one commit.    *)
(* Locks, all held to the commit: the order row, the rows of a line's      *)
(* reservations, the advisory lock of an item, the bill row.  They are not *)
(* taken in one order everywhere; PostgreSQL's deadlock detector is one of *)
(* the causes of Abort.                                                    *)
(*                                                                         *)
(* An item has one holding, as in StockVoucher, where the stock side of a  *)
(* bill is modelled: here it only decides what is free.  A bill draws on   *)
(* one order.  The lines of an order are edited in quantity, not added.    *)
(***************************************************************************)
EXTENDS Integers, Sequences, FiniteSets, Functions

CONSTANTS
  Order,      \* so_id of the orders, saved as drafts at the start
  Line,       \* their lines, numbered in line order
  OrderOf,    \* the order of a line
  Item,       \* items, numbered in the order lockHoldingItems sorts them
  ItemOf,     \* the item of a line
  Want,       \* the quantity a line is first saved with
  Stock,      \* on-hand of an item at the start
  Bill,       \* sb_id of the bills
  Draft,      \* the lines each bill is first saved with: quantity per order line
  Rebill,     \* the line lists an amend may give a bill
  Edit,       \* the quantities an edit of an order may put on a line
  AllowOver,  \* sales.allow_over_order: may a bill take more than is pending?
  Offered,    \* the operations clients call on each order
  MaxRevision, \* bound: amends per order
  Req, None

OrderOp == {"confirm", "cancel", "cut", "save", "amend", "delete"}
BillOp == {"post", "savePost", "unpost", "rebill"}
Op == OrderOp \cup BillOp

LinesOf(o) == {l \in Line : OrderOf[l] = o}
Billed(f) == {l \in Line : f[l] > 0}
OrderOfBill(b) == OrderOf[CHOOSE l \in Billed(Draft[b]) : TRUE]

ASSUME LineAssumption ==
  /\ Line \subseteq Nat /\ IsFiniteSet(Line)
  /\ OrderOf \in [Line -> Order] /\ \A o \in Order : LinesOf(o) # {}
  /\ Want \in [Line -> Nat \ {0}]
ASSUME ItemAssumption ==
  /\ Item \subseteq Nat /\ IsFiniteSet(Item)
  /\ ItemOf \in [Line -> Item] /\ Stock \in [Item -> Nat]
ASSUME BillAssumption ==
  /\ IsFiniteSet(Bill) /\ Draft \in [Bill -> [Line -> Nat]]
  /\ \A b \in Bill : Billed(Draft[b]) # {} /\ Billed(Draft[b]) \subseteq LinesOf(OrderOfBill(b))
  /\ \A f \in Rebill : f \in [Line -> Nat] /\ Billed(f) # {}
ASSUME EditAssumption == Edit \subseteq Nat \ {0} /\ MaxRevision \in Nat /\ AllowOver \in BOOLEAN
ASSUME OfferedAssumption == Offered \in [Order -> SUBSET Op]
ASSUME NoneAssumption == None \notin Req

VARIABLES
  status,    \* so_status
  fulfil,    \* so_fulfil_status, the roll-up of the lines
  deleted,   \* so_is_deleted
  revision,  \* so_revision_no
  line,      \* sale_order_item: ordered, net, delivered and cancelled quantity
  rsv,       \* stock_reservation: the rows of a line, oldest first
  reserved,  \* stock_balance.sbl_reserved_qty of the item's holding
  bill,      \* sb_status and the lines of a bill
  orderLock, rowLock, itemLock, billLock,  \* holders of the locks
  tx         \* what each request is doing, and its uncommitted writes

rows == <<status, fulfil, deleted, revision, line, rsv, reserved, bill>>
locks == <<orderLock, rowLock, itemLock, billLock>>
vars == <<rows, locks, tx>>

NoQty == [l \in Line |-> 0]
NoLine == [qty |-> 0, net |-> 0, delivered |-> 0, cancelled |-> 0]
Idle ==
  [pc |-> "idle", op |-> "confirm", ord |-> CHOOSE o \in Order : TRUE,
   bil |-> CHOOSE b \in Bill : TRUE, form |-> NoQty, todo |-> {},
   rows |-> [l \in Line |-> << >>], marked |-> {}, calc |-> [i \in Item |-> 0],
   due |-> [l \in Line |-> NoLine], rev |-> 0]

-----------------------------------------------------------------------------
(* Lines and their roll-up. *)

\* soi_pending_qty is a generated column; ck_soi_qty_signs keeps it from going
\* below zero.
Pending(ln) == ln.net - ln.delivered - ln.cancelled

\* deriveLineStatus: DELIVERED or CANCELLED, nothing more to come.
Settled(ln) == ln.net > 0 /\ Pending(ln) <= 0

\* summariseOrderLines and deriveOrderStatus.
FulfilOf(o, lns) ==
  LET delivered == \E l \in LinesOf(o) : lns[l].delivered > 0
      settled == {l \in LinesOf(o) : Settled(lns[l])}
  IN CASE settled = LinesOf(o) /\ delivered -> "COMPLETED"
       [] settled = LinesOf(o) /\ ~delivered -> "CANCELLED"
       [] settled # LinesOf(o) /\ (settled # {} \/ delivered) -> "PARTIAL"
       [] OTHER -> "PENDING"

\* An open order keeps its so_status; a settled one takes the roll-up's word.
StatusOf(o, lns) ==
  IF FulfilOf(o, lns) \in {"COMPLETED", "CANCELLED"} THEN FulfilOf(o, lns) ELSE status[o]

-----------------------------------------------------------------------------
(* Reservations.  A row is OPEN, PARTIAL or CONSUMED as con is nothing, part  *)
(* or all of res, unless it is RELEASED (rel).                               *)

Least(a, b) == IF a < b THEN a ELSE b
OpenQty(rw) == IF rw.rel THEN 0 ELSE rw.res - rw.con
OpenOf(rws) == SumFunction([k \in DOMAIN rws |-> OpenQty(rws[k])])
Live(rws) == {k \in DOMAIN rws : ~rws[k].rel}

\* A quantity spread over the rows, oldest first, as far as each one reaches.
Spread(room, q) ==
  [k \in DOMAIN room |->
     LET before == SumFunction([j \in 1..(k - 1) |-> room[j]])
     IN IF q <= before THEN 0 ELSE Least(room[k], q - before)]

\* consume: a post takes from what is open, a cancel gives back what was taken.
Consumed(rws, q) ==
  LET take == Spread([k \in DOMAIN rws |-> OpenQty(rws[k])], q)
  IN [k \in DOMAIN rws |-> [rws[k] EXCEPT !.con = @ + take[k]]]
GivenBack(rws, q) ==
  LET give == Spread([k \in DOMAIN rws |-> IF rws[k].rel THEN 0 ELSE rws[k].con], q)
  IN [k \in DOMAIN rws |-> [rws[k] EXCEPT !.con = @ - give[k]]]

\* release, and the first step of reserve: OPEN and PARTIAL rows are RELEASED.
Released(rws) ==
  [k \in DOMAIN rws |-> IF OpenQty(rws[k]) > 0 THEN [rws[k] EXCEPT !.rel = TRUE] ELSE rws[k]]

\* The rows of a line as the transaction of r sees them.
View(r, l) == IF rowLock[l] = r THEN tx[r].rows[l] ELSE rsv[l]

\* reservationHoldingsOf: every item the order has a row on, RELEASED ones too.
Holdings(r) == {ItemOf[l] : l \in {k \in LinesOf(tx[r].ord) : View(r, k) # << >>}}

\* refreshReserved: the sum of the open rows of the holding.
ReservedOf(i, rws) ==
  SumFunction([l \in Line |-> IF ItemOf[l] = i THEN OpenOf(rws[l]) ELSE 0])

OnHand(i) ==
  Stock[i] - SumFunction([b \in Bill |->
    IF bill[b].status = "POSTED"
    THEN SumFunction([l \in Line |-> IF ItemOf[l] = i THEN bill[b].take[l] ELSE 0])
    ELSE 0])

-----------------------------------------------------------------------------
(* The fulfilment recompute of a bill's transaction. *)

\* The bill as it stands once the transaction of r is through.
BillAfter(r) ==
  IF tx[r].op = "unpost" THEN [bill[tx[r].bil] EXCEPT !.status = "CANCELLED"]
                         ELSE [status |-> "POSTED", take |-> tx[r].form]

\* Mutant: a cancelled bill still counts.
BilledQty_AnyStatus(r, l) ==
  SumFunction([b \in Bill |->
    LET now == IF b = tx[r].bil THEN BillAfter(r) ELSE bill[b]
    IN IF now.status # "DRAFT" THEN now.take[l] ELSE 0])

BilledQty(r, l) ==
  SumFunction([b \in Bill |->
    LET now == IF b = tx[r].bil THEN BillAfter(r) ELSE bill[b]
    IN IF now.status = "POSTED" THEN now.take[l] ELSE 0])

\* Mutant: an over-delivery is not settled on the line.
Recomputed_NoRaise(r) ==
  [l \in Line |->
    IF OrderOf[l] = tx[r].ord THEN [line[l] EXCEPT !.delivered = BilledQty(r, l)] ELSE line[l]]

\* The lines the bill names, before and after, and any other with billed
\* quantity are re-summed; an over-delivery raises the net quantity to what is
\* settled.
Recomputed(r) ==
  [l \in Line |->
    IF /\ OrderOf[l] = tx[r].ord
       /\ \/ BillAfter(r).take[l] > 0 \/ bill[tx[r].bil].take[l] > 0
          \/ BilledQty(r, l) > 0
    THEN LET new == [line[l] EXCEPT !.delivered = BilledQty(r, l)]
         IN IF Pending(new) < 0 THEN [new EXCEPT !.net = new.delivered + new.cancelled] ELSE new
    ELSE line[l]]

\* guardSources: the order is confirmed and the bill takes what is pending.  An
\* amend has put the bill back to DRAFT first, so its own quantity is free again.
Billable(r) ==
  LET o == tx[r].ord
      own(l) == IF tx[r].op = "rebill" THEN bill[tx[r].bil].take[l] ELSE 0
  IN /\ status[o] = "CONFIRMED" /\ ~deleted[o]
     /\ \A l \in Billed(tx[r].form) : AllowOver \/ tx[r].form[l] <= Pending(line[l]) + own(l)

-----------------------------------------------------------------------------
Init ==
  /\ status = [o \in Order |-> "DRAFT"]
  /\ fulfil = [o \in Order |-> "PENDING"]
  /\ deleted = [o \in Order |-> FALSE]
  /\ revision = [o \in Order |-> 0]
  /\ line = [l \in Line |-> [qty |-> Want[l], net |-> Want[l], delivered |-> 0, cancelled |-> 0]]
  /\ rsv = [l \in Line |-> << >>]
  /\ reserved = [i \in Item |-> 0]
  /\ bill = [b \in Bill |-> [status |-> "DRAFT", take |-> Draft[b]]]
  /\ orderLock = [o \in Order |-> None]
  /\ rowLock = [l \in Line |-> None]
  /\ itemLock = [i \in Item |-> None]
  /\ billLock = [b \in Bill |-> None]
  /\ tx = [r \in Req |-> Idle]

Goes(r, step) == tx' = [tx EXCEPT ![r].pc = step]

\* Locks are released and the uncommitted writes forgotten.
Release(r) ==
  /\ orderLock' = [o \in Order |-> IF orderLock[o] = r THEN None ELSE orderLock[o]]
  /\ rowLock' = [l \in Line |-> IF rowLock[l] = r THEN None ELSE rowLock[l]]
  /\ itemLock' = [i \in Item |-> IF itemLock[i] = r THEN None ELSE itemLock[i]]
  /\ billLock' = [b \in Bill |-> IF billLock[b] = r THEN None ELSE billLock[b]]
  /\ tx' = [tx EXCEPT ![r] = Idle]

Rollback(r) == Release(r) /\ UNCHANGED rows

\* The order row is free for r, to lock or to update.
OrderFree(r, o) == orderLock[o] \in {None, r}

-----------------------------------------------------------------------------
(* Requests. *)

\* POST /sale-orders/post, /cancel: the first thing they do is wait for the row.
OrderRequest(r, o, p) ==
  /\ tx[r].pc = "idle" /\ p \in {"confirm", "cancel"} /\ p \in Offered[o]
  /\ tx' = [tx EXCEPT ![r] = [Idle EXCEPT !.pc = "lock", !.op = p, !.ord = o]]
  /\ UNCHANGED <<rows, locks>>

\* PUT /cancel-lines: the lines are read, and the roll-up computed, without a
\* lock.  One line is named, or all of them.
ReadLines(r, o) ==
  /\ tx[r].pc = "idle" /\ "cut" \in Offered[o] /\ ~deleted[o]
  /\ \E named \in {LinesOf(o)} \cup {{l} : l \in LinesOf(o)} :
       LET moved == {l \in named : Pending(line[l]) > 0}
           after == [l \in Line |->
             IF l \in moved THEN [line[l] EXCEPT !.cancelled = @ + Pending(line[l])] ELSE line[l]]
       IN tx' = [tx EXCEPT ![r] = [Idle EXCEPT
                   !.pc = "commit", !.op = "cut", !.ord = o, !.todo = moved, !.due = after]]
  /\ UNCHANGED <<rows, locks>>

\* A save of an order has no status check; the update of the header row makes
\* it wait for whoever holds the row.
SaveRequest(r, o) ==
  /\ tx[r].pc = "idle" /\ "save" \in Offered[o]
  /\ \E l \in LinesOf(o), q \in Edit :
       tx' = [tx EXCEPT ![r] = [Idle EXCEPT
                !.pc = "save", !.op = "save", !.ord = o, !.form = [NoQty EXCEPT ![l] = q]]]
  /\ UNCHANGED <<rows, locks>>

\* amend, first transaction: the gates under the row lock, released at its end.
\* The client's base revision is the current one, or the amend is refused.
AmendGate(r, o) ==
  /\ tx[r].pc = "idle" /\ "amend" \in Offered[o] /\ revision[o] < MaxRevision
  /\ OrderFree(r, o) /\ ~deleted[o] /\ status[o] # "CANCELLED"
  /\ \E l \in LinesOf(o), q \in Edit :
       /\ q >= line[l].delivered
       /\ tx' = [tx EXCEPT ![r] = [Idle EXCEPT
                   !.pc = "save", !.op = "amend", !.ord = o, !.rev = revision[o],
                   !.form = [NoQty EXCEPT ![l] = q]]]
  /\ UNCHANGED <<rows, locks>>

\* deleteDraft reads the status without a lock.
DeleteRequest(r, o) ==
  /\ tx[r].pc = "idle" /\ "delete" \in Offered[o] /\ ~deleted[o] /\ status[o] = "DRAFT"
  /\ tx' = [tx EXCEPT ![r] = [Idle EXCEPT !.pc = "commit", !.op = "delete", !.ord = o]]
  /\ UNCHANGED <<rows, locks>>

\* lockHeader of a bill and the status gates behind it.  A save-and-post writes
\* the draft in its own transaction: it recomputes the order, and so locks it,
\* before the guards; an amend does so after it has unwound the stock.
BillRequest(r, b, p, f, step) ==
  /\ tx[r].pc = "idle" /\ p \in Offered[OrderOfBill(b)]
  /\ billLock[b] = None
  /\ billLock' = [billLock EXCEPT ![b] = r]
  /\ tx' = [tx EXCEPT ![r] = [Idle EXCEPT
              !.pc = step, !.op = p, !.ord = OrderOfBill(b), !.bil = b, !.form = f]]
  /\ UNCHANGED <<rows, orderLock, rowLock, itemLock>>

PostBill(r, b) == bill[b].status = "DRAFT" /\ BillRequest(r, b, "post", bill[b].take, "guard")
SavePostBill(r, b) == bill[b].status = "DRAFT" /\ BillRequest(r, b, "savePost", bill[b].take, "early")
CancelBill(r, b) == bill[b].status = "POSTED" /\ BillRequest(r, b, "unpost", NoQty, "items")
AmendBill(r, b) ==
  /\ bill[b].status = "POSTED"
  /\ \E f \in Rebill :
       Billed(f) \subseteq LinesOf(OrderOfBill(b)) /\ BillRequest(r, b, "rebill", f, "items")

-----------------------------------------------------------------------------
(* The transaction of an order. *)

\* SELECT ... FOR UPDATE, then the status gates.  A repeated confirm or cancel
\* answers as if it had worked.
LockOrder(r) ==
  LET o == tx[r].ord IN
  /\ tx[r].pc = "lock" /\ OrderFree(r, o)
  /\ IF \/ deleted[o]
        \/ tx[r].op = "confirm" /\ status[o] # "DRAFT"
        \/ tx[r].op = "cancel" /\ (\/ status[o] = "CANCELLED"
                                   \/ \E l \in LinesOf(o) : line[l].delivered > 0)
     THEN Rollback(r)
     ELSE /\ orderLock' = [orderLock EXCEPT ![o] = r]
          /\ tx' = [tx EXCEPT ![r] =
               CASE @.op = "confirm" -> [@ EXCEPT !.pc = "take", !.todo = LinesOf(o)]
                 [] @.op = "cancel" -> [@ EXCEPT !.pc = "release"]
                 [] OTHER -> [@ EXCEPT
                      !.todo = {l \in LinesOf(o) : Pending(line[l]) > 0},
                      !.pc = IF status[o] = "CONFIRMED" /\ \E l \in LinesOf(o) : Pending(line[l]) > 0
                             THEN "take" ELSE "commit"]]
          /\ UNCHANGED <<rows, rowLock, itemLock, billLock>>

\* The items the next lockHoldingItems call of r locks: those of the bill's
\* lines (the stock post, the unwind), or the order's holdings.
Need(r) ==
  CASE tx[r].pc = "items" ->
         {ItemOf[l] : l \in Billed(tx[r].form) \cup
            (IF tx[r].op \in {"unpost", "rebill"} THEN Billed(bill[tx[r].bil].take) ELSE {})}
    [] tx[r].pc \in {"take", "mark"} -> Holdings(r)
    [] OTHER -> {}

\* Mutant: the item lock does not exclude.
LockItem_NoWait(r) ==
  /\ \E i \in Need(r) :
       /\ itemLock[i] # r
       /\ itemLock' = [itemLock EXCEPT ![i] = r]
  /\ UNCHANGED <<rows, orderLock, rowLock, billLock, tx>>

\* lockHoldingItems: one item after the other, in sorted order.
LockItem(r) ==
  /\ \E i \in Need(r) :
       /\ itemLock[i] = None
       /\ \A j \in Need(r) : j < i => itemLock[j] = r
       /\ itemLock' = [itemLock EXCEPT ![i] = r]
  /\ UNCHANGED <<rows, orderLock, rowLock, billLock, tx>>

Locked(r) == \A i \in Need(r) : itemLock[i] = r

\* reserve, one line: its open rows are released, what is free is read, and a
\* row inserted for as much as there is.  Only an item the order already has a
\* row on is locked by now; of another the committed balance is read.
TakeLine(r) ==
  /\ tx[r].pc = "take" /\ Locked(r)
  /\ \E l \in tx[r].todo :
       LET i == ItemOf[l]
           kept == Released(View(r, l))
           seen == [k \in Line |-> IF k = l THEN kept ELSE View(r, k)]
           want == IF Pending(line[l]) > 0 THEN Pending(line[l]) ELSE line[l].qty
           free == OnHand(i) - (IF i \in Holdings(r) THEN ReservedOf(i, seen) ELSE reserved[i])
           new == IF free <= 0 THEN kept
                  ELSE Append(kept, [res |-> Least(free, want), con |-> 0, rel |-> FALSE])
       IN /\ \A k \in tx[r].todo : l <= k
          /\ rowLock[l] \in {None, r}
          /\ rowLock' = [rowLock EXCEPT ![l] = r]
          /\ tx' = [tx EXCEPT ![r].rows[l] = new, ![r].todo = @ \ {l}, ![r].pc = "mark"]
  /\ UNCHANGED <<rows, orderLock, itemLock, billLock>>

\* release: every open row of the order.
ReleaseRows(r) ==
  LET open == {l \in LinesOf(tx[r].ord) : OpenOf(rsv[l]) > 0} IN
  /\ tx[r].pc = "release"
  /\ \A l \in open : rowLock[l] = None
  /\ rowLock' = [l \in Line |-> IF l \in open THEN r ELSE rowLock[l]]
  /\ tx' = [tx EXCEPT ![r].rows = [l \in Line |-> IF l \in open THEN Released(rsv[l]) ELSE @[l]],
                      ![r].pc = IF open = {} THEN "commit" ELSE "mark"]
  /\ UNCHANGED <<rows, orderLock, itemLock, billLock>>

\* ensureBalanceRows and refreshReserved over the order's holdings.
Mark(r) ==
  /\ tx[r].pc = "mark" /\ Locked(r)
  /\ tx' = [tx EXCEPT ![r].marked = Holdings(r),
                      ![r].calc = [i \in Item |->
                         IF i \in Holdings(r) THEN ReservedOf(i, [l \in Line |-> View(r, l)]) ELSE 0],
                      ![r].pc = CASE tx[r].op \in BillOp -> "orders"
                                  [] tx[r].todo # {} -> "take"
                                  [] OTHER -> "commit"]
  /\ UNCHANGED <<rows, locks>>

-----------------------------------------------------------------------------
(* The transaction of a bill. *)

\* The recompute a save-and-post or an amend makes with the bill in DRAFT.  The
\* one made after the post overwrites what it writes.
EarlySync(r) ==
  LET o == tx[r].ord IN
  /\ tx[r].pc = "early" /\ OrderFree(r, o)
  /\ IF deleted[o] THEN Rollback(r)
     ELSE /\ orderLock' = [orderLock EXCEPT ![o] = r]
          /\ Goes(r, "guard")
          /\ UNCHANGED <<rows, rowLock, itemLock, billLock>>

\* guardSources locks nothing itself.
GuardSources(r) ==
  /\ tx[r].pc = "guard"
  /\ IF Billable(r)
     THEN Goes(r, IF tx[r].op = "rebill" THEN "consume" ELSE "items") /\ UNCHANGED <<rows, locks>>
     ELSE Rollback(r)

\* The stock is posted or unwound under the locks of the bill's items.
StockMoved(r) ==
  /\ tx[r].pc = "items" /\ Locked(r)
  /\ Goes(r, IF tx[r].op = "rebill" THEN "early" ELSE "consume")
  /\ UNCHANGED <<rows, locks>>

\* Mutant: a post leaves the reservations alone.
Taken_Nothing(r) == NoQty

\* What afterStatusChange takes from the reservations of a line.  The unwind
\* of an amend gives nothing back.
Taken(r) == IF tx[r].op = "unpost" THEN [l \in Line |-> 0 - bill[tx[r].bil].take[l]] ELSE tx[r].form

\* consume: the live rows of the lines, FOR UPDATE.
Consume(r) ==
  LET on == {l \in Line : Taken(r)[l] # 0 /\ Live(rsv[l]) # {}} IN
  /\ tx[r].pc = "consume"
  /\ \A l \in on : rowLock[l] = None
  /\ rowLock' = [l \in Line |-> IF l \in on THEN r ELSE rowLock[l]]
  /\ tx' = [tx EXCEPT
       ![r].rows = [l \in Line |->
          IF l \notin on THEN @[l]
          ELSE IF Taken(r)[l] > 0 THEN Consumed(rsv[l], Taken(r)[l])
                                  ELSE GivenBack(rsv[l], 0 - Taken(r)[l])],
       ![r].pc = IF on = {} THEN "orders" ELSE "mark"]
  /\ UNCHANGED <<rows, orderLock, itemLock, billLock>>

\* Mutant: the order row is not waited for.
SyncFulfilment_NoWait(r) ==
  LET o == tx[r].ord IN
  /\ tx[r].pc = "orders"
  /\ IF deleted[o] THEN Rollback(r)
     ELSE /\ orderLock' = [orderLock EXCEPT ![o] = r]
          /\ tx' = [tx EXCEPT ![r].due = Recomputed(r), ![r].pc = "commit",
                              ![r].todo = {l \in Line : Recomputed(r)[l] # line[l]}]
          /\ UNCHANGED <<rows, rowLock, itemLock, billLock>>

\* syncOneOrderFulfilment: the row lock, then the sums; the lines they change
\* are written.
SyncFulfilment(r) ==
  LET o == tx[r].ord IN
  /\ tx[r].pc = "orders" /\ OrderFree(r, o)
  /\ IF deleted[o] THEN Rollback(r)
     ELSE /\ orderLock' = [orderLock EXCEPT ![o] = r]
          /\ tx' = [tx EXCEPT ![r].due = Recomputed(r), ![r].pc = "commit",
                              ![r].todo = {l \in Line : Recomputed(r)[l] # line[l]}]
          /\ UNCHANGED <<rows, rowLock, itemLock, billLock>>

-----------------------------------------------------------------------------
(* Commits. *)

\* The reservation rows and the reserved figures of the transaction.
Land(r) ==
  /\ rsv' = [l \in Line |-> View(r, l)]
  /\ reserved' = [i \in Item |-> IF i \in tx[r].marked THEN tx[r].calc[i] ELSE reserved[i]]

\* The lines and the roll-up of the order.
Roll(o, lns) ==
  /\ line' = lns
  /\ fulfil' = [fulfil EXCEPT ![o] = FulfilOf(o, lns)]

CommitConfirm(r) ==
  /\ tx[r].pc = "commit" /\ tx[r].op = "confirm"
  /\ status' = [status EXCEPT ![tx[r].ord] = "CONFIRMED"]
  /\ Land(r) /\ Release(r)
  /\ UNCHANGED <<fulfil, deleted, revision, line, bill>>

\* cancel closes the open lines in the same transaction.
CommitCancel(r) ==
  LET o == tx[r].ord IN
  /\ tx[r].pc = "commit" /\ tx[r].op = "cancel"
  /\ status' = [status EXCEPT ![o] = "CANCELLED"]
  /\ Roll(o, [l \in Line |->
       IF OrderOf[l] = o THEN [line[l] EXCEPT !.cancelled = @ + Pending(line[l])] ELSE line[l]])
  /\ Land(r) /\ Release(r)
  /\ UNCHANGED <<deleted, revision, bill>>

\* cancel-lines writes what it read: ck_soi_qty_signs refuses a line that has
\* been billed meanwhile, and nothing else is looked at again.
CommitCut(r) ==
  LET o == tx[r].ord
      lns == [l \in Line |->
        IF l \in tx[r].todo THEN [line[l] EXCEPT !.cancelled = tx[r].due[l].cancelled] ELSE line[l]]
  IN
  /\ tx[r].pc = "commit" /\ tx[r].op = "cut" /\ OrderFree(r, o)
  /\ IF deleted[o] \/ \E l \in tx[r].todo : Pending(lns[l]) < 0
     THEN Rollback(r)
     ELSE /\ line' = lns
          /\ fulfil' = [fulfil EXCEPT ![o] = FulfilOf(o, tx[r].due)]
          /\ status' = [status EXCEPT ![o] =
               IF FulfilOf(o, tx[r].due) \in {"COMPLETED", "CANCELLED"}
               THEN FulfilOf(o, tx[r].due) ELSE @]
          /\ Release(r)
          /\ UNCHANGED <<deleted, revision, rsv, reserved, bill>>

\* save, and the second transaction of an amend.
CommitSave(r) ==
  LET o == tx[r].ord
      lns == [l \in Line |->
        IF tx[r].form[l] > 0 THEN [line[l] EXCEPT !.qty = tx[r].form[l], !.net = tx[r].form[l]]
                             ELSE line[l]]
  IN
  /\ tx[r].pc = "save" /\ OrderFree(r, o)
  /\ IF deleted[o] \/ \E l \in LinesOf(o) : Pending(lns[l]) < 0
     THEN Rollback(r)
     ELSE /\ line' = lns
          /\ IF tx[r].op = "amend" THEN Goes(r, "lock") /\ UNCHANGED locks ELSE Release(r)
          /\ UNCHANGED <<status, fulfil, deleted, revision, rsv, reserved, bill>>

\* The third transaction of an amend: the revision read in the first, plus one.
CommitAmend(r) ==
  /\ tx[r].pc = "commit" /\ tx[r].op = "amend"
  /\ revision' = [revision EXCEPT ![tx[r].ord] = tx[r].rev + 1]
  /\ Land(r) /\ Release(r)
  /\ UNCHANGED <<status, fulfil, deleted, line, bill>>

\* softDelete: nothing but so_is_deleted is asked again, and the reservations
\* stay as they are.
CommitDelete(r) ==
  LET o == tx[r].ord IN
  /\ tx[r].pc = "commit" /\ tx[r].op = "delete" /\ OrderFree(r, o)
  /\ IF deleted[o] THEN Rollback(r)
     ELSE /\ status' = [status EXCEPT ![o] = "CANCELLED"]
          /\ deleted' = [deleted EXCEPT ![o] = TRUE]
          /\ Release(r)
          /\ UNCHANGED <<fulfil, revision, line, rsv, reserved, bill>>

\* A bill is posted, cancelled or re-posted, and the order follows.
CommitBill(r) ==
  LET o == tx[r].ord IN
  /\ tx[r].pc = "commit" /\ tx[r].op \in BillOp
  /\ bill' = [bill EXCEPT ![tx[r].bil] = BillAfter(r)]
  /\ line' = [l \in Line |-> IF l \in tx[r].todo THEN tx[r].due[l] ELSE line[l]]
  /\ fulfil' = [fulfil EXCEPT ![o] = FulfilOf(o, tx[r].due)]
  /\ status' = [status EXCEPT ![o] = StatusOf(o, tx[r].due)]
  /\ Land(r) /\ Release(r)
  /\ UNCHANGED <<deleted, revision>>

\* A refusal of a right, a date or the stock policy, a deadlock the database
\* ends, a lost connection.  The transactions an amend has committed stay.
Abort(r) == tx[r].pc # "idle" /\ Rollback(r)

-----------------------------------------------------------------------------
Arrival(r) ==
  \/ \E o \in Order :
       \/ \E p \in OrderOp : OrderRequest(r, o, p)
       \/ ReadLines(r, o) \/ SaveRequest(r, o) \/ AmendGate(r, o) \/ DeleteRequest(r, o)
  \/ \E b \in Bill : PostBill(r, b) \/ SavePostBill(r, b) \/ CancelBill(r, b) \/ AmendBill(r, b)

Advance(r) ==
  \/ LockOrder(r) \/ LockItem(r) \/ TakeLine(r) \/ ReleaseRows(r) \/ Mark(r)
  \/ EarlySync(r) \/ GuardSources(r) \/ StockMoved(r) \/ Consume(r) \/ SyncFulfilment(r)
  \/ CommitConfirm(r) \/ CommitCancel(r) \/ CommitCut(r) \/ CommitSave(r)
  \/ CommitAmend(r) \/ CommitDelete(r) \/ CommitBill(r)

Next == \E r \in Req : Arrival(r) \/ Advance(r) \/ Abort(r)

Spec == Init /\ [][Next]_vars

-----------------------------------------------------------------------------
(* Properties. *)

Row == [res : Nat, con : Nat, rel : BOOLEAN]
LineRow == [qty : Nat, net : Nat, delivered : Nat, cancelled : Nat]
Pc == {"idle", "lock", "save", "take", "release", "mark", "early", "guard", "items",
       "consume", "orders", "commit"}

\* Every row and lock of the model has its type; quantities are never negative
\* (ck_soi_qty_signs, ck_srv_qty).
TypeOK ==
  /\ status \in [Order -> {"DRAFT", "CONFIRMED", "COMPLETED", "CANCELLED"}]
  /\ fulfil \in [Order -> {"PENDING", "PARTIAL", "COMPLETED", "CANCELLED"}]
  /\ deleted \in [Order -> BOOLEAN]
  /\ revision \in [Order -> Nat]
  /\ line \in [Line -> LineRow] /\ \A l \in Line : Pending(line[l]) >= 0
  /\ rsv \in [Line -> Seq(Row)] /\ \A l \in Line : \A k \in DOMAIN rsv[l] : rsv[l][k].con <= rsv[l][k].res
  /\ reserved \in [Item -> Int]
  /\ bill \in [Bill -> [status : {"DRAFT", "POSTED", "CANCELLED"}, take : [Line -> Nat]]]
  /\ orderLock \in [Order -> Req \cup {None}]
  /\ rowLock \in [Line -> Req \cup {None}]
  /\ itemLock \in [Item -> Req \cup {None}]
  /\ billLock \in [Bill -> Req \cup {None}]
  /\ \A r \in Req : tx[r].pc \in Pc /\ tx[r].op \in Op

\* The reserved figure of a balance, which the billing screen's available
\* quantity is generated from, is the sum of the open reservations after every
\* commit, however confirms, amends, cancels and bills of several orders on one
\* item interleave (refreshReserved under the item's advisory lock).
ReservedIsOpen == \A i \in Item : reserved[i] = ReservedOf(i, rsv)

\* What a line says was delivered is what the POSTED bills say, also when two
\* bills of one order are posted, cancelled or amended together
\* (syncOneOrderFulfilment re-sums behind the order row's lock).
DeliveredIsBilled ==
  \A l \in Line :
    line[l].delivered =
      SumFunction([b \in Bill |-> IF bill[b].status = "POSTED" THEN bill[b].take[l] ELSE 0])

\* Orders that are only confirmed, billed and cancelled: no edit, no cancel of
\* single lines, no delete races with them.
Steady(o) == Offered[o] \cap {"cut", "save", "amend", "delete"} = {}

HeaderRight(o) ==
  LET open == {l \in LinesOf(o) : Pending(line[l]) > 0}
      shipped == {l \in LinesOf(o) : line[l].delivered > 0}
  IN /\ fulfil[o] = "COMPLETED" => open = {} /\ shipped # {}
     /\ fulfil[o] = "CANCELLED" => open = {} /\ shipped = {}
     /\ fulfil[o] = "PARTIAL" => open # {} /\ (open # LinesOf(o) \/ shipped # {})
     /\ fulfil[o] = "PENDING" => open = LinesOf(o) /\ shipped = {}

\* so_fulfil_status, which no constraint of the database ties to the lines,
\* says what the lines say for an order whose bills come, go and change while
\* it is confirmed or cancelled.
HeaderTellsLines == \A o \in Order : Steady(o) => HeaderRight(o)

\* An order never keeps stock reserved that its lines have no use for any more:
\* what is open on a line is at most what is pending on it, after every
\* interleaving of posts, cancels and amends of its bills (consume, release).
HeldWithinNeed ==
  \A l \in Line : Steady(OrderOf[l]) => OpenOf(rsv[l]) <= Pending(line[l])

=============================================================================
