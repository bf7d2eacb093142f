--------------------------- MODULE StockTransfer ---------------------------
(***************************************************************************)
(* Stock transfers: StockTransferService (despatch, saveReceive, receive,  *)
(* settleShort), StockVoucherService.recall / cancel / softDelete on the   *)
(* transfer routes, and the transit half of the posting engine.            *)
(*                                                                         *)
(* A despatch to another branch ends IN_TRANSIT with one stock_transit row *)
(* per lot.  Receipts settle the rows, in several parts if need be; what   *)
(* never arrives is short-settled; a despatch nobody touched is recalled.  *)
(* A transfer inside one branch posts both halves at once.                 *)
(*                                                                         *)
(* Locks: the header rows of the receipt and of the despatch (FOR UPDATE), *)
(* then the advisory lock of the item in the branches touched.  One item   *)
(* is moved, in several lots, so that lock is one per branch; a despatch   *)
(* takes the destination's before the source's, a recall the other way     *)
(* round, and PostgreSQL's deadlock detector ends the wait that can cause. *)
(***************************************************************************)
EXTENDS Integers, FiniteSets, Functions

CONSTANTS
  Branch,    \* branches: the advisory lock of the item is per branch
  Site,      \* godowns
  BranchOf,  \* the branch of a godown
  Lot,       \* lots of the item
  Out, In,   \* TRANSFER_OUT and TRANSFER_IN voucher ids
  From, To,  \* the godowns a despatch moves between
  Load,      \* the quantity of each lot on a despatch
  Claim,     \* the line lists a receipt may carry: good and broken per lot
  Opening,   \* stock of each lot in each godown at the start
  Req, None

Count == [good : Nat, broken : Nat]

ASSUME FiniteAssumption == IsFiniteSet(Site) /\ IsFiniteSet(Out) /\ IsFiniteSet(In)
ASSUME SiteAssumption == BranchOf \in [Site -> Branch]
ASSUME OutAssumption ==
  /\ Out # {} /\ In # {}
  /\ From \in [Out -> Site] /\ To \in [Out -> Site]
  /\ \A o \in Out : From[o] # To[o]
ASSUME LoadAssumption ==
  /\ Load \in [Out -> [Lot -> Nat]]
  /\ \A o \in Out : \E l \in Lot : Load[o][l] > 0
ASSUME ClaimAssumption == \A c \in Claim : c \in [Lot -> Count]
ASSUME OpeningAssumption == Opening \in [Site -> [Lot -> Nat]]
ASSUME NoneAssumption == None \notin Req

VARIABLES
  outStatus,  \* svh_status of the despatch
  row,        \* stock_transit, per lot and despatch
  inStatus,   \* svh_status of the receipt; ABSENT before it is saved
  inDeleted,  \* svh_is_deleted of the receipt
  link,       \* svh_link_src_doc_id of the receipt
  claim,      \* lines of the receipt
  onHand,     \* stock_balance.sbl_on_hand_qty, all buckets of the lot
  transitIn,  \* stock_balance.sbl_transit_in_qty
  outLock, inLock,  \* holders of the header row locks
  itemLock,   \* holder of the item's advisory lock in each branch
  pc, op, out, inn,  \* step, operation, despatch and receipt of a request
  form,       \* the lines a receipt is saved with
  hand, calc  \* the on-hand and transit-in figures written, not yet committed

rows == <<outStatus, row, inStatus, inDeleted, link, claim, onHand, transitIn>>
locks == <<outLock, inLock, itemLock>>
reqs == <<pc, op, out, inn, form, hand, calc>>
vars == <<rows, locks, reqs>>

RowStatus == {"NONE", "IN_TRANSIT", "PARTIAL", "RECEIVED", "CANCELLED"}
Row == [status : RowStatus, received : Nat, damage : Nat]
NoRow == [status |-> "NONE", received |-> 0, damage |-> 0]
NoStock == [s \in Site |-> [l \in Lot |-> 0]]
NoClaim == [l \in Lot |-> [good |-> 0, broken |-> 0]]
Op == {"despatch", "keyIn", "keyInPost", "receive", "settle", "recall", "cancel", "delete"}

AnyOut == CHOOSE o \in Out : TRUE
AnyIn == CHOOSE n \in In : TRUE

Receives(o) == o \in {"receive", "keyInPost"}
SameBranch(o) == BranchOf[From[o]] = BranchOf[To[o]]

-----------------------------------------------------------------------------
(* What the queries compute. *)

Remaining(o, l, rw) == Load[o][l] - rw.received - rw.damage
Claimed(c, l) == c[l].good + c[l].broken
IsOpen(rw) == rw.status \in {"IN_TRANSIT", "PARTIAL"}

\* The lines a receipt posts: a save-and-post writes its own first.
Counted(r) == IF op[r] = "keyInPost" THEN form[r] ELSE claim[inn[r]]

\* refreshTransitIn: what is still on its way to the godown, over the rows of
\* one lot.
Inbound(s, l, rws) ==
  SumFunction([o \in Out |->
    IF To[o] = s /\ IsOpen(rws[o]) THEN Remaining(o, l, rws[o]) ELSE 0])

\* settleTransitRows: good lines are received, broken ones are damage.
Settled(o, l, rw, c) ==
  LET got == [rw EXCEPT !.received = @ + c[l].good, !.damage = @ + c[l].broken]
  IN [got EXCEPT !.status = IF Remaining(o, l, got) <= 0 THEN "RECEIVED" ELSE "PARTIAL"]

\* The transit row of a lot as the transaction of r leaves it.
RowAfter(r, l) ==
  LET o == out[r]  rw == row[l][o] IN
  CASE op[r] = "despatch" ->
         IF SameBranch(o) \/ Load[o][l] = 0 THEN NoRow ELSE [NoRow EXCEPT !.status = "IN_TRANSIT"]
    [] Receives(op[r]) ->
         IF Claimed(Counted(r), l) = 0 THEN rw ELSE Settled(o, l, rw, Counted(r))
    [] op[r] = "settle" ->
         IF rw.status = "PARTIAL" THEN [rw EXCEPT !.status = "RECEIVED"] ELSE rw
    [] op[r] = "recall" ->
         IF rw.status = "IN_TRANSIT" THEN [rw EXCEPT !.status = "CANCELLED"] ELSE rw
    [] OTHER -> rw

Seen(r, l) == [row[l] EXCEPT ![out[r]] = RowAfter(r, l)]

\* Mutant: only the lots of this receipt are looked at.
NothingLeft_OnReceipt(r) ==
  \A l \in Lot : Claimed(Counted(r), l) > 0 => Remaining(out[r], l, RowAfter(r, l)) <= 0

\* Nothing of the despatch is left to arrive once r commits.
NothingLeft(r) ==
  \A l \in Lot : RowAfter(r, l).status # "NONE" => Remaining(out[r], l, RowAfter(r, l)) <= 0

OutAfter(r) ==
  CASE op[r] = "despatch" -> IF SameBranch(out[r]) THEN "POSTED" ELSE "IN_TRANSIT"
    [] Receives(op[r]) -> IF NothingLeft(r) THEN "RECEIVED" ELSE outStatus[out[r]]
    [] op[r] = "settle" -> "RECEIVED"
    [] OTHER -> "CANCELLED"

\* The ledger rows: what the transaction adds to a lot in a godown.
Delta(r, s, l) ==
  LET o == out[r]
      leaves == IF s = From[o] THEN 0 - Load[o][l] ELSE 0
      arrives == IF s = To[o] THEN Load[o][l] ELSE 0
  IN CASE op[r] = "despatch" -> leaves + (IF SameBranch(o) THEN arrives ELSE 0)
       [] Receives(op[r]) -> IF s = To[o] THEN Claimed(Counted(r), l) ELSE 0
       [] op[r] = "recall" -> 0 - leaves
       [] op[r] = "cancel" -> 0 - leaves - arrives
       [] OTHER -> 0

-----------------------------------------------------------------------------
(* What is checked under the header locks. *)

\* assertReceivable: the despatch is in transit and no lot is over-claimed.
Receivable(o, c) ==
  /\ outStatus[o] = "IN_TRANSIT"
  /\ \A l \in Lot : Claimed(c, l) > 0 =>
       /\ row[l][o].status # "NONE"
       /\ Claimed(c, l) <= Remaining(o, l, row[l][o])

\* Mutant: the header's status is not asked for.
Settleable_NoStatus(o) ==
  \A l \in Lot : row[l][o].status # "IN_TRANSIT"

\* settleTransitShort: something was received against every row.
Settleable(o) ==
  /\ outStatus[o] = "IN_TRANSIT"
  /\ \A l \in Lot : row[l][o].status # "IN_TRANSIT"

\* Mutant: neither the rows nor the receipts are looked at.
Recallable_NoTouched(o) == outStatus[o] = "IN_TRANSIT"

\* recallTransferOut: no row touched, no live receipt, a draft one included.
Recallable(o) ==
  /\ outStatus[o] = "IN_TRANSIT"
  /\ \A l \in Lot : row[l][o].status \in {"NONE", "IN_TRANSIT"}
  /\ \A n \in In : ~(inStatus[n] # "ABSENT" /\ ~inDeleted[n] /\ link[n] = o)

Allowed(r) ==
  CASE op[r] = "despatch" -> outStatus[out[r]] = "DRAFT"
    [] Receives(op[r]) -> Receivable(out[r], Counted(r))
    [] op[r] = "settle" -> Settleable(out[r])
    [] op[r] = "recall" -> Recallable(out[r])
    [] OTHER -> outStatus[out[r]] = "POSTED"

-----------------------------------------------------------------------------
Init ==
  /\ outStatus = [o \in Out |-> "DRAFT"]
  /\ row = [l \in Lot |-> [o \in Out |-> NoRow]]
  /\ inStatus = [n \in In |-> "ABSENT"]
  /\ inDeleted = [n \in In |-> FALSE]
  /\ link = [n \in In |-> AnyOut]
  /\ claim = [n \in In |-> NoClaim]
  /\ onHand = Opening
  /\ transitIn = NoStock
  /\ outLock = [o \in Out |-> None]
  /\ inLock = [n \in In |-> None]
  /\ itemLock = [b \in Branch |-> None]
  /\ pc = [r \in Req |-> "idle"]
  /\ op = [r \in Req |-> "despatch"]
  /\ out = [r \in Req |-> AnyOut]
  /\ inn = [r \in Req |-> AnyIn]
  /\ form = [r \in Req |-> NoClaim]
  /\ hand = [r \in Req |-> NoStock]
  /\ calc = [r \in Req |-> [l \in Lot |-> 0]]

(* A request arrives, with the checks it makes before its transaction. *)
Arrive(r, o, n, what, c, next) ==
  /\ pc[r] = "idle"
  /\ pc' = [pc EXCEPT ![r] = next]
  /\ op' = [op EXCEPT ![r] = what]
  /\ out' = [out EXCEPT ![r] = o]
  /\ inn' = [inn EXCEPT ![r] = n]
  /\ form' = [form EXCEPT ![r] = c]
  /\ UNCHANGED <<rows, outLock, itemLock, hand, calc>>

DespatchRequest(r, o) ==
  /\ outStatus[o] = "DRAFT"
  /\ Arrive(r, o, AnyIn, "despatch", NoClaim, "out")
  /\ UNCHANGED inLock

\* saveReceive, with or without the post: despatch and open rows are read
\* without a lock.  The row of a new receipt is invisible until the commit.
KeyInRequest(r, o, n, what, c) ==
  /\ what \in {"keyIn", "keyInPost"}
  /\ Receivable(o, c)
  /\ \E l \in Lot : Claimed(c, l) > 0
  /\ \/ /\ inStatus[n] = "ABSENT" /\ inLock[n] = None
        /\ Arrive(r, o, n, what, c, IF what = "keyIn" THEN "commit" ELSE "out")
        /\ inLock' = [inLock EXCEPT ![n] = r]
     \/ /\ inStatus[n] # "ABSENT" /\ BranchOf[To[o]] = BranchOf[To[link[n]]]
        /\ Arrive(r, o, n, what, c, "in")
        /\ UNCHANGED inLock

ReceiveRequest(r, n) ==
  /\ inStatus[n] = "DRAFT" /\ ~inDeleted[n]
  /\ Arrive(r, AnyOut, n, "receive", NoClaim, "in")
  /\ UNCHANGED inLock

SettleRequest(r, o) ==
  /\ Arrive(r, o, AnyIn, "settle", NoClaim, "out")
  /\ UNCHANGED inLock

RecallRequest(r, o) ==
  /\ outStatus[o] = "IN_TRANSIT"
  /\ Arrive(r, o, AnyIn, "recall", NoClaim, "out")
  /\ UNCHANGED inLock

\* cancel: a draft is refused on the transfer routes, and so is a posted
\* receipt; only a POSTED same-branch pair gets as far as the header lock.
CancelRequest(r, o) ==
  /\ outStatus[o] \in {"POSTED", "IN_TRANSIT", "RECEIVED"}
  /\ Arrive(r, o, AnyIn, "cancel", NoClaim, "out")
  /\ UNCHANGED inLock

\* softDelete of a receipt: DRAFT is read without a lock.
DeleteRequest(r, n) ==
  /\ inStatus[n] = "DRAFT"
  /\ Arrive(r, AnyOut, n, "delete", NoClaim, "in")
  /\ UNCHANGED inLock

-----------------------------------------------------------------------------
(* The transaction. *)

Release(r) ==
  /\ outLock' = [o \in Out |-> IF outLock[o] = r THEN None ELSE outLock[o]]
  /\ inLock' = [n \in In |-> IF inLock[n] = r THEN None ELSE inLock[n]]
  /\ itemLock' = [b \in Branch |-> IF itemLock[b] = r THEN None ELSE itemLock[b]]
  /\ pc' = [pc EXCEPT ![r] = "idle"]
  /\ op' = [op EXCEPT ![r] = "despatch"]
  /\ out' = [out EXCEPT ![r] = AnyOut]
  /\ inn' = [inn EXCEPT ![r] = AnyIn]
  /\ form' = [form EXCEPT ![r] = NoClaim]
  /\ hand' = [hand EXCEPT ![r] = NoStock]
  /\ calc' = [calc EXCEPT ![r] = [l \in Lot |-> 0]]

Rollback(r) == Release(r) /\ UNCHANGED rows

\* Mutant: the receipt's status is not read again.
DraftIn_Always(n) == TRUE

\* loadForWrite and assertDraft of the receipt; a delete does not look again.
DraftIn(n) == inStatus[n] = "DRAFT" /\ ~inDeleted[n]

LockIn(r) ==
  LET n == inn[r] IN
  /\ pc[r] = "in" /\ inLock[n] = None
  /\ IF DraftIn(n) \/ op[r] = "delete"
     THEN /\ inLock' = [inLock EXCEPT ![n] = r]
          /\ pc' = [pc EXCEPT ![r] = IF Receives(op[r]) THEN "out" ELSE "commit"]
          /\ out' = [out EXCEPT ![r] = IF op[r] = "receive" THEN link[n] ELSE @]
          /\ UNCHANGED <<rows, outLock, itemLock, op, inn, form, hand, calc>>
     ELSE Rollback(r)

\* Mutant: the despatch is read without FOR UPDATE.
LockOut_NoWait(r) ==
  /\ pc[r] = "out"
  /\ IF Allowed(r)
     THEN /\ outLock' = [outLock EXCEPT ![out[r]] = r]
          /\ pc' = [pc EXCEPT ![r] = "first"]
          /\ UNCHANGED <<rows, inLock, itemLock, op, out, inn, form, hand, calc>>
     ELSE Rollback(r)

\* lockHeaderInStatus / assertReceivable: the despatch row, then the checks.
LockOut(r) ==
  /\ pc[r] = "out" /\ outLock[out[r]] = None
  /\ IF Allowed(r)
     THEN /\ outLock' = [outLock EXCEPT ![out[r]] = r]
          /\ pc' = [pc EXCEPT ![r] = "first"]
          /\ UNCHANGED <<rows, inLock, itemLock, op, out, inn, form, hand, calc>>
     ELSE Rollback(r)

\* The branches whose item lock r takes, in its order.
First(r) ==
  IF op[r] \in {"recall", "cancel"} THEN BranchOf[From[out[r]]] ELSE BranchOf[To[out[r]]]
Second(r) ==
  CASE op[r] = "despatch" -> BranchOf[From[out[r]]]
    [] op[r] = "recall" -> BranchOf[To[out[r]]]
    [] OTHER -> First(r)

\* Mutant: the item's lock does not exclude.
LockFirst_NoWait(r) ==
  /\ pc[r] = "first"
  /\ itemLock' = [itemLock EXCEPT ![First(r)] = r]
  /\ pc' = [pc EXCEPT ![r] = "second"]
  /\ UNCHANGED <<rows, outLock, inLock, op, out, inn, form, hand, calc>>

LockFirst(r) ==
  /\ pc[r] = "first" /\ itemLock[First(r)] = None
  /\ itemLock' = [itemLock EXCEPT ![First(r)] = r]
  /\ pc' = [pc EXCEPT ![r] = "second"]
  /\ UNCHANGED <<rows, outLock, inLock, op, out, inn, form, hand, calc>>

\* Mutant: the second lock is not granted to the holder of the first.
LockSecond_NotReentrant(r) ==
  /\ pc[r] = "second" /\ itemLock[Second(r)] = None
  /\ itemLock' = [itemLock EXCEPT ![Second(r)] = r]
  /\ pc' = [pc EXCEPT ![r] = "apply"]
  /\ UNCHANGED <<rows, outLock, inLock, op, out, inn, form, hand, calc>>

LockSecond(r) ==
  /\ pc[r] = "second" /\ itemLock[Second(r)] \in {None, r}
  /\ itemLock' = [itemLock EXCEPT ![Second(r)] = r]
  /\ pc' = [pc EXCEPT ![r] = "apply"]
  /\ UNCHANGED <<rows, outLock, inLock, op, out, inn, form, hand, calc>>

\* transitHoldingsOf: the lots whose transit-in figure is recomputed.
Refreshes(r, l) == ~SameBranch(out[r]) /\ Load[out[r]][l] > 0

\* Mutant: only what comes back or arrives is judged, not a despatch.
Blocks_NotDespatch(r, new) ==
  op[r] # "despatch" /\ \E s \in Site, l \in Lot : new[s][l] < 0

\* assertNegativeStockPolicy: a transfer never leaves a godown negative,
\* whatever the item's policy, nor does its cancellation.
Blocks(r, new) == \E s \in Site, l \in Lot : new[s][l] < 0

\* writeTransitRows / settleTransitRows, refreshTransitIn and the rebuild.
Apply(r) ==
  /\ pc[r] = "apply"
  /\ LET new == [s \in Site |-> [l \in Lot |->
                  IF Delta(r, s, l) # 0 THEN onHand[s][l] + Delta(r, s, l) ELSE 0]]
     IN IF Blocks(r, new)
        THEN Rollback(r)
        ELSE /\ hand' = [hand EXCEPT ![r] = new]
             /\ calc' = [calc EXCEPT ![r] = [l \in Lot |->
                   IF Refreshes(r, l) THEN Inbound(To[out[r]], l, Seen(r, l)) ELSE 0]]
             /\ pc' = [pc EXCEPT ![r] = "commit"]
             /\ UNCHANGED <<rows, locks, op, out, inn, form>>

\* despatch, receive, settleShort, recall and the same-branch cancel.
CommitMove(r) ==
  LET o == out[r] IN
  /\ pc[r] = "commit" /\ op[r] \notin {"keyIn", "delete"}
  /\ outStatus' = [outStatus EXCEPT ![o] = OutAfter(r)]
  /\ row' = [l \in Lot |-> Seen(r, l)]
  /\ onHand' = [s \in Site |-> [l \in Lot |->
                  IF Delta(r, s, l) # 0 THEN hand[r][s][l] ELSE onHand[s][l]]]
  /\ transitIn' = [transitIn EXCEPT ![To[o]] =
                     [l \in Lot |-> IF Refreshes(r, l) THEN calc[r][l] ELSE @[l]]]
  /\ IF Receives(op[r])
     THEN /\ inStatus' = [inStatus EXCEPT ![inn[r]] = "POSTED"]
          /\ link' = [link EXCEPT ![inn[r]] = o]
          /\ claim' = [claim EXCEPT ![inn[r]] = Counted(r)]
     ELSE UNCHANGED <<inStatus, link, claim>>
  /\ Release(r)
  /\ UNCHANGED inDeleted

CommitKeyIn(r) ==
  /\ pc[r] = "commit" /\ op[r] = "keyIn"
  /\ inStatus' = [inStatus EXCEPT ![inn[r]] = "DRAFT"]
  /\ link' = [link EXCEPT ![inn[r]] = out[r]]
  /\ claim' = [claim EXCEPT ![inn[r]] = form[r]]
  /\ Release(r)
  /\ UNCHANGED <<outStatus, row, inDeleted, onHand, transitIn>>

\* Mutant: the delete is a status instead of a flag.
CommitDelete_Status(r) ==
  /\ pc[r] = "commit" /\ op[r] = "delete"
  /\ inStatus' = [inStatus EXCEPT ![inn[r]] = "DELETED"]
  /\ Release(r)
  /\ UNCHANGED <<outStatus, row, inDeleted, link, claim, onHand, transitIn>>

CommitDelete(r) ==
  /\ pc[r] = "commit" /\ op[r] = "delete"
  /\ inDeleted' = [inDeleted EXCEPT ![inn[r]] = TRUE]
  /\ Release(r)
  /\ UNCHANGED <<outStatus, row, inStatus, link, claim, onHand, transitIn>>

\* An exception, a lost connection or a crash of the server.
Abort(r) == pc[r] # "idle" /\ Rollback(r)

\* Two requests hold the item lock the other one waits for: after
\* deadlock_timeout PostgreSQL rolls one of them back.
WaitsFor(r, q) == pc[r] = "second" /\ itemLock[Second(r)] = q
Victim(r) == (\E q \in Req \ {r} : WaitsFor(r, q) /\ WaitsFor(q, r)) /\ Rollback(r)

-----------------------------------------------------------------------------
Arrival(r) ==
  \/ \E o \in Out :
       \/ DespatchRequest(r, o) \/ SettleRequest(r, o)
       \/ RecallRequest(r, o) \/ CancelRequest(r, o)
       \/ \E n \in In, c \in Claim, what \in Op : KeyInRequest(r, o, n, what, c)
  \/ \E n \in In : ReceiveRequest(r, n) \/ DeleteRequest(r, n)

Advance(r) ==
  \/ LockIn(r) \/ LockOut(r) \/ LockFirst(r) \/ LockSecond(r) \/ Apply(r)
  \/ CommitMove(r) \/ CommitKeyIn(r) \/ CommitDelete(r)

Next == \E r \in Req : Arrival(r) \/ Advance(r) \/ Abort(r) \/ Victim(r)

Spec == Init /\ [][Next]_vars

\* The server works on what it accepted, a free lock is granted to a waiter
\* again and again, and the deadlock detector runs.
FairSpec == Spec /\ \A r \in Req : SF_vars(Advance(r)) /\ WF_vars(Victim(r))

-----------------------------------------------------------------------------
(* Properties. *)

OutStatus == {"DRAFT", "IN_TRANSIT", "RECEIVED", "POSTED", "CANCELLED"}
Pc == {"idle", "in", "out", "first", "second", "apply", "commit"}

\* Every row, lock and request has its type (stock_voucher, stock_transit,
\* stock_balance).
TypeOK ==
  /\ outStatus \in [Out -> OutStatus]
  /\ row \in [Lot -> [Out -> Row]]
  /\ inStatus \in [In -> {"ABSENT", "DRAFT", "POSTED"}]
  /\ inDeleted \in [In -> BOOLEAN]
  /\ link \in [In -> Out]
  /\ claim \in [In -> [Lot -> Count]]
  /\ onHand \in [Site -> [Lot -> Int]]
  /\ transitIn \in [Site -> [Lot -> Int]]
  /\ outLock \in [Out -> Req \cup {None}]
  /\ inLock \in [In -> Req \cup {None}]
  /\ itemLock \in [Branch -> Req \cup {None}]
  /\ pc \in [Req -> Pc]
  /\ op \in [Req -> Op]
  /\ out \in [Req -> Out]
  /\ inn \in [Req -> In]
  /\ form \in [Req -> [Lot -> Count]]
  /\ hand \in [Req -> [Site -> [Lot -> Int]]]
  /\ calc \in [Req -> [Lot -> Int]]

\* No lot of a despatch is ever received beyond what was sent, whichever
\* receipts, short-settlements and recalls race for it, and the status of the
\* row says how much of it has arrived (assertReceivable under the despatch's
\* row lock, settleTransitRows).
NeverOverReceived ==
  \A l \in Lot, o \in Out :
    LET rw == row[l][o]  got == rw.received + rw.damage IN
    /\ got <= Load[o][l]
    /\ rw.status = "PARTIAL" => 0 < got /\ got < Load[o][l]
    /\ rw.status = "RECEIVED" => 0 < got
    /\ rw.status \notin {"PARTIAL", "RECEIVED"} => got = 0

\* The despatch's header and its transit rows agree: IN_TRANSIT as long as a
\* row is open and no longer, RECEIVED with every row closed, CANCELLED only
\* with nothing of it received (settleTransitRows, settleTransitShort,
\* recallTransferOut).
HeaderMatchesRows ==
  \A o \in Out :
    LET live == {l \in Lot : row[l][o].status # "NONE"} IN
    /\ outStatus[o] \in {"DRAFT", "POSTED"} => live = {}
    /\ outStatus[o] = "IN_TRANSIT" => \E l \in live : IsOpen(row[l][o])
    /\ outStatus[o] = "RECEIVED" => \A l \in live : row[l][o].status = "RECEIVED"
    /\ outStatus[o] = "CANCELLED" => \A l \in live : row[l][o].status = "CANCELLED"

\* sbl_transit_in_qty of every holding is what its open transit rows still
\* have to bring, after every commit of two despatches to one godown
\* (refreshTransitIn under the item lock).
TransitInIsOpenRows ==
  \A s \in Site, l \in Lot : transitIn[s][l] = Inbound(s, l, row[l])

\* Nothing is made or lost between two godowns: what is on hand everywhere,
\* plus what a despatch sent and nobody received, is what was there at the
\* start.  A recall that crossed a receipt would count the goods twice.
NothingLost ==
  \A l \in Lot :
    LET standing == SumFunction([s \in Site |-> onHand[s][l]])
        moving == SumFunction([o \in Out |->
          IF row[l][o].status \in {"NONE", "CANCELLED"} THEN 0 ELSE Remaining(o, l, row[l][o])])
    IN standing + moving = SumFunction([s \in Site |-> Opening[s][l]])

\* The posted receipts of a despatch add up to its transit rows, so a receipt
\* posts once and against the despatch it names (svh_link_src_doc_id).
ReceiptsAddUp ==
  \A l \in Lot, o \in Out :
    row[l][o].received + row[l][o].damage =
      SumFunction([n \in In |-> IF inStatus[n] = "POSTED" /\ link[n] = o THEN Claimed(claim[n], l) ELSE 0])

\* A transfer and its cancellation leave no godown below zero, whatever the
\* item's policy (assertDespatchable's lots, refuseNegative).
NeverNegative == \A s \in Site, l \in Lot : onHand[s][l] >= 0

\* A posted receipt, and a despatch closed or recalled, stay as they are: no
\* step reopens or changes them.
TransferFinal ==
  [][/\ \A n \in In : inStatus[n] = "POSTED" =>
          inStatus'[n] = "POSTED" /\ claim'[n] = claim[n] /\ link'[n] = link[n]
     /\ \A o \in Out : outStatus[o] \in {"RECEIVED", "CANCELLED"} =>
          outStatus'[o] = outStatus[o] /\ \A l \in Lot : row'[l][o] = row[l][o]]_vars

\* Every accepted request comes to an end, the crossing item locks of a
\* despatch and a recall included.
RequestsEnd == \A r \in Req : (pc[r] # "idle") ~> (pc[r] = "idle")

=============================================================================
