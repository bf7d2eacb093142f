---------------------------- MODULE StockVoucher ----------------------------
(***************************************************************************)
(* The life of a stock document: StockVoucherService (save, post, cancel,  *)
(* softDelete), StockPostingService and the posting engine they share      *)
(* (stock-voucher-posting.helper.ts), together with the shadow vouchers    *)
(* SalesStockService posts through the same engine.                        *)
(*                                                                         *)
(* Every HTTP request is a process.  It reads without a lock before its    *)
(* transaction opens, then runs one PostgreSQL transaction at READ         *)
(* COMMITTED: the header row lock (SELECT ... FOR UPDATE), the advisory    *)
(* lock of every item it touches, the preflight, the rebuild of the        *)
(* balances from the ledger, and the commit.  Nothing of a transaction is  *)
(* visible to the others before its commit, so the uncommitted writes are  *)
(* kept in the request (form, calc) and land in one Commit action; a       *)
(* refusal, an exception or a lost connection rolls back.                  *)
(*                                                                         *)
(* An Item stands for one holding of one item in one branch: its advisory  *)
(* lock is (company, branch, item).  Items are numbered because the locks  *)
(* are taken in sorted order.                                              *)
(***************************************************************************)
EXTENDS Integers, FiniteSets, Functions

CONSTANTS
  Doc,        \* voucher ids, the ones not yet created included
  KindOf,     \* the voucher type each id is used for
  Item,       \* items with one holding each, numbered in lock order
  Policy,     \* stp_allow_negative of each item (WARN changes no state: ALLOW)
  Sheet,      \* the line lists a save may carry: signed base quantity per item
  Perpetual,  \* cogs_mode: does a stock post write an accounts voucher?
  Req,        \* concurrent requests
  None        \* no holder of a lock

Kind == {"OPENING", "ADJUST", "SALE"}
Op == {"save", "savePost", "post", "sale", "cancelDraft", "cancel", "delete"}
Step == {"CREATED", "POSTED", "CANCELLED"}

\* Lists are functions on Item.  Each has a line with a quantity, and its value
\* does not net to nothing, so under PERPETUAL its post has accounts legs.
ASSUME ItemAssumption == Item \subseteq Nat
ASSUME DocAssumption == Doc # {} /\ IsFiniteSet(Doc) /\ KindOf \in [Doc -> Kind]
ASSUME PolicyAssumption == Policy \in [Item -> {"BLOCK", "ALLOW"}]
ASSUME SheetAssumption == \A f \in Sheet : f \in [Item -> Int] /\ \E i \in Item : f[i] # 0
ASSUME NoneAssumption == None \notin Req
ASSUME PerpetualAssumption == Perpetual \in BOOLEAN

VARIABLES
  status,    \* svh_status; ABSENT before the row is committed
  deleted,   \* svh_is_deleted
  lines,     \* stock_voucher_item: signed quantity per item, 0 for no line
  ledger,    \* stock_ledger: per item and document, Σ forward and Σ reversal rows
  onHand,    \* stock_balance.sbl_on_hand_qty
  books,     \* the accounts voucher of the document
  trail,     \* txn_status_log: how many rows of each step a document has (the
             \* DELETED step a soft delete adds is left out: nothing reads it)
  hdrLock,   \* holder of the header row lock
  itemLock,  \* holder of the per-item advisory lock
  pc, op, doc,  \* the step, the operation and the document of a request
  form,      \* the lines a save carries
  calc       \* the on-hand figures the rebuild wrote, not yet committed

rows == <<status, deleted, lines, ledger, onHand, books, trail>>
locks == <<hdrLock, itemLock>>
reqs == <<pc, op, doc, form, calc>>
vars == <<rows, locks, reqs>>

NoLines == [i \in Item |-> 0]
AnyDoc == CHOOSE d \in Doc : TRUE
NoRow == [fwd |-> 0, rev |-> 0]
Row == [fwd : Int, rev : Int]

-----------------------------------------------------------------------------
(* What the queries compute. *)

\* rebuildBalances: the sum of every live ledger row of the holding.
OnHandOf(rws) == SumFunction([d \in Doc |-> rws[d].fwd + rws[d].rev])

\* A live forward row no mirror stands against (unreversedLedgerRow).
Unreversed(i, d) == ledger[i][d].fwd # 0 /\ ledger[i][d].rev = 0

IsVoucher(d) == KindOf[d] # "SALE"

\* Does the operation write ledger rows?
Moves(o) == o \in {"savePost", "post", "sale", "cancel"}

\* The lines the transaction of r acts on: a save writes its own first.
Acting(r) == IF op[r] \in {"save", "savePost", "sale"} THEN form[r] ELSE lines[doc[r]]

\* touchedHoldings: a post lands on its lines, a cancel on its ledger rows.
Need(r) ==
  IF op[r] = "cancel" THEN {i \in Item : ledger[i][doc[r]].fwd # 0}
                      ELSE {i \in Item : Acting(r)[i] # 0}

\* writeReversalLedger: every forward row gets its mirror.
Mirror(rw) == [fwd |-> rw.fwd, rev |-> 0 - rw.fwd]

\* writeLedger: the document's rows of an item after the write.
NewRow(r, i) ==
  IF op[r] = "cancel"
  THEN Mirror(ledger[i][doc[r]])
  ELSE [fwd |-> Acting(r)[i], rev |-> 0]

\* The holding's rows as the transaction's own statement sees them.
Seen(r, i) == [ledger[i] EXCEPT ![doc[r]] = NewRow(r, i)]

\* Mutant: the cancel of a voucher is judged by the item's policy alone.
ForceBlock_CancelFree(r) == KindOf[doc[r]] = "ADJUST" /\ op[r] # "cancel"

\* assertNegativeStockPolicy: when is a negative holding refused?
ForceBlock(r) ==
  \/ KindOf[doc[r]] = "ADJUST" /\ op[r] # "cancel"
  \/ IsVoucher(doc[r]) /\ op[r] = "cancel"
Refuses(r, i) == ForceBlock(r) \/ Policy[i] = "BLOCK"

\* Mutant: the status is not read again under the header lock.
HeaderOk_NoRecheck(r) == TRUE

\* assertDraft and lockHeaderInStatus, under the header lock.
HeaderOk(r) ==
  LET d == doc[r] IN
  CASE op[r] \in {"save", "savePost", "post", "cancelDraft"}
         -> status[d] = "DRAFT" /\ ~deleted[d]
    [] op[r] = "cancel" -> status[d] = "POSTED" /\ ~deleted[d]
    [] OTHER -> TRUE

\* Mutant: the preflight does not look for another opening.
AlreadyOpened_Never(r) == FALSE

\* validate: only an opening looks at other documents' rows.
AlreadyOpened(r) ==
  /\ KindOf[doc[r]] = "OPENING"
  /\ \E i \in Need(r), e \in Doc \ {doc[r]} :
       KindOf[e] = "OPENING" /\ Unreversed(i, e)

-----------------------------------------------------------------------------
Init ==
  /\ status = [d \in Doc |-> "ABSENT"]
  /\ deleted = [d \in Doc |-> FALSE]
  /\ lines = [d \in Doc |-> NoLines]
  /\ ledger = [i \in Item |-> [d \in Doc |-> NoRow]]
  /\ onHand = NoLines
  /\ books = [d \in Doc |-> "none"]
  /\ trail = [d \in Doc |-> [s \in Step |-> 0]]
  /\ hdrLock = [d \in Doc |-> None]
  /\ itemLock = [i \in Item |-> None]
  /\ pc = [r \in Req |-> "idle"]
  /\ op = [r \in Req |-> "save"]
  /\ doc = [r \in Req |-> AnyDoc]
  /\ form = [r \in Req |-> NoLines]
  /\ calc = [r \in Req |-> NoLines]

(* A request arrives.  Refusals before the transaction change nothing. *)
Arrive(r, d, o, f, next) ==
  /\ pc[r] = "idle"
  /\ pc' = [pc EXCEPT ![r] = next]
  /\ op' = [op EXCEPT ![r] = o]
  /\ doc' = [doc EXCEPT ![r] = d]
  /\ form' = [form EXCEPT ![r] = f]
  /\ UNCHANGED <<rows, itemLock, calc>>

\* save without svhId: the row is new, so nobody else can see or lock it.
Create(r, d, o, f) ==
  /\ status[d] = "ABSENT" /\ hdrLock[d] = None
  /\ IsVoucher(d) /\ o \in {"save", "savePost"}
  /\ KindOf[d] = "OPENING" => \A i \in Item : f[i] >= 0
  /\ Arrive(r, d, o, f, IF o = "save" THEN "commit" ELSE "items")
  /\ hdrLock' = [hdrLock EXCEPT ![d] = r]

\* SalesStockService.post: a shadow voucher is written and posted at once.
SaleRequest(r, d, f) ==
  /\ status[d] = "ABSENT" /\ hdrLock[d] = None
  /\ ~IsVoucher(d)
  /\ Arrive(r, d, "sale", f, "items")
  /\ hdrLock' = [hdrLock EXCEPT ![d] = r]

\* save with svhId: no check before the transaction.
SaveRequest(r, d, o, f) ==
  /\ status[d] # "ABSENT" /\ IsVoucher(d)
  /\ o \in {"save", "savePost"}
  /\ KindOf[d] = "OPENING" => \A i \in Item : f[i] >= 0
  /\ Arrive(r, d, o, f, "lock")
  /\ UNCHANGED hdrLock

\* post: loadHeaderOrThrow and assertDraft, without a lock.
PostRequest(r, d) ==
  /\ IsVoucher(d) /\ status[d] = "DRAFT" /\ ~deleted[d]
  /\ Arrive(r, d, "post", NoLines, "lock")
  /\ UNCHANGED hdrLock

\* SalesStockService.cancel finds the shadow by its POSTED, undeleted row.
SaleCancelRequest(r, d) ==
  /\ ~IsVoucher(d) /\ status[d] = "POSTED" /\ ~deleted[d]
  /\ Arrive(r, d, "cancel", NoLines, "lock")
  /\ UNCHANGED hdrLock

\* cancel: the status read without a lock decides which work is done.
CancelRequest(r, d) ==
  /\ IsVoucher(d) /\ status[d] \in {"DRAFT", "POSTED"}
  /\ Arrive(r, d, IF status[d] = "DRAFT" THEN "cancelDraft" ELSE "cancel", NoLines, "lock")
  /\ UNCHANGED hdrLock

\* softDelete: the status is read without a lock; a deleted draft passes too.
DeleteRequest(r, d) ==
  /\ IsVoucher(d) /\ status[d] = "DRAFT"
  /\ Arrive(r, d, "delete", NoLines, "lock")
  /\ UNCHANGED hdrLock

-----------------------------------------------------------------------------
(* The transaction. *)

\* Locks are released and the uncommitted writes forgotten.
Release(r) ==
  /\ hdrLock' = [d \in Doc |-> IF hdrLock[d] = r THEN None ELSE hdrLock[d]]
  /\ itemLock' = [i \in Item |-> IF itemLock[i] = r THEN None ELSE itemLock[i]]
  /\ pc' = [pc EXCEPT ![r] = "idle"]
  /\ form' = [form EXCEPT ![r] = NoLines]
  /\ calc' = [calc EXCEPT ![r] = NoLines]
  /\ op' = [op EXCEPT ![r] = "save"]
  /\ doc' = [doc EXCEPT ![r] = AnyDoc]

Rollback(r) == Release(r) /\ UNCHANGED rows

\* Mutant: the header is read without FOR UPDATE.
LockHeader_NoWait(r) ==
  /\ pc[r] = "lock"
  /\ IF HeaderOk(r)
     THEN /\ hdrLock' = [hdrLock EXCEPT ![doc[r]] = r]
          /\ pc' = [pc EXCEPT ![r] = IF Moves(op[r]) THEN "items" ELSE "commit"]
          /\ UNCHANGED <<rows, itemLock, op, doc, form, calc>>
     ELSE Rollback(r)

\* SELECT ... FOR UPDATE waits for the row, then reads what is committed.
LockHeader(r) ==
  /\ pc[r] = "lock" /\ hdrLock[doc[r]] = None
  /\ IF HeaderOk(r)
     THEN /\ hdrLock' = [hdrLock EXCEPT ![doc[r]] = r]
          /\ pc' = [pc EXCEPT ![r] = IF Moves(op[r]) THEN "items" ELSE "commit"]
          /\ UNCHANGED <<rows, itemLock, op, doc, form, calc>>
     ELSE Rollback(r)

\* Mutants: a lock that does not exclude, and locks taken in line order.
NextItem_NoWait(r, i) ==
  /\ i \in Need(r)
  /\ itemLock[i] # r
  /\ \A j \in Need(r) : j < i => itemLock[j] = r

NextItem_AnyOrder(r, i) ==
  /\ i \in Need(r)
  /\ itemLock[i] = None

\* lockHoldingItems: one advisory lock after the other, in item order.
NextItem(r, i) ==
  /\ i \in Need(r)
  /\ itemLock[i] = None
  /\ \A j \in Need(r) : j < i => itemLock[j] = r

LockItem(r) ==
  /\ pc[r] = "items"
  /\ \E i \in Item :
       /\ NextItem(r, i)
       /\ itemLock' = [itemLock EXCEPT ![i] = r]
  /\ UNCHANGED <<rows, hdrLock, reqs>>

\* Mutant: only the first item of the document is locked.
ItemsLocked_AnyOne(r) ==
  /\ pc[r] = "items"
  /\ \E i \in Need(r) : itemLock[i] = r
  /\ pc' = [pc EXCEPT ![r] = IF op[r] \in {"post", "savePost"} THEN "check" ELSE "apply"]
  /\ UNCHANGED <<rows, locks, op, doc, form, calc>>

\* A sale's shadow and a cancel have no preflight.
ItemsLocked(r) ==
  /\ pc[r] = "items"
  /\ \A i \in Need(r) : itemLock[i] = r
  /\ pc' = [pc EXCEPT ![r] = IF op[r] \in {"post", "savePost"} THEN "check" ELSE "apply"]
  /\ UNCHANGED <<rows, locks, op, doc, form, calc>>

\* The preflight's other tests read the document's own lines and masters: a
\* refusal of theirs is an Abort.
Preflight(r) ==
  /\ pc[r] = "check"
  /\ IF AlreadyOpened(r)
     THEN Rollback(r)
     ELSE /\ pc' = [pc EXCEPT ![r] = "apply"]
          /\ UNCHANGED <<rows, locks, op, doc, form, calc>>

\* applyLedgerRows: the ledger rows are written, the balances rebuilt from
\* the rows the statement sees, and the negative-stock policy judged.  A
\* second mirror of a row is refused by ux_sml_reversal.
Apply(r) ==
  /\ pc[r] = "apply"
  /\ LET new == [i \in Item |-> IF i \in Need(r) THEN OnHandOf(Seen(r, i)) ELSE 0] IN
     IF \/ \E i \in Need(r) : Refuses(r, i) /\ new[i] < 0
        \/ op[r] = "cancel" /\ \E i \in Need(r) : ledger[i][doc[r]].rev # 0
     THEN Rollback(r)
     ELSE /\ calc' = [calc EXCEPT ![r] = new]
          /\ pc' = [pc EXCEPT ![r] = "commit"]
          /\ UNCHANGED <<rows, locks, op, doc, form>>

\* The trail rows one commit appends.
Logged(d, steps) ==
  trail' = [trail EXCEPT ![d] = [s \in Step |-> @[s] + (IF s \in steps THEN 1 ELSE 0)]]

\* Ledger rows and balances of the transaction become visible.
Land(r) ==
  /\ ledger' = [i \in Item |-> IF i \in Need(r) THEN Seen(r, i) ELSE ledger[i]]
  /\ onHand' = [i \in Item |-> IF i \in Need(r) THEN calc[r][i] ELSE onHand[i]]

\* The accounts voucher of the document: postForVoucher on a post under
\* PERPETUAL, reverseForVoucher where there is one on a cancel.
Booked(r) == IF Perpetual /\ op[r] # "sale" THEN "posted" ELSE books[doc[r]]
Unbooked(r) == IF books[doc[r]] = "posted" THEN "reversed" ELSE books[doc[r]]

\* save, draft only.  createDraft starts the trail; updateDraft adds nothing.
CommitSave(r) ==
  /\ pc[r] = "commit" /\ op[r] = "save"
  /\ status' = [status EXCEPT ![doc[r]] = "DRAFT"]
  /\ lines' = [lines EXCEPT ![doc[r]] = form[r]]
  /\ Logged(doc[r], IF status[doc[r]] = "ABSENT" THEN {"CREATED"} ELSE {})
  /\ Release(r)
  /\ UNCHANGED <<deleted, ledger, onHand, books>>

\* post, save-and-post, and a sales document's shadow.  The shadow's trail
\* and its cost pair belong to the sales document, not to the voucher.
CommitPost(r) ==
  LET d == doc[r] IN
  /\ pc[r] = "commit" /\ op[r] \in {"post", "savePost", "sale"}
  /\ status' = [status EXCEPT ![d] = "POSTED"]
  /\ lines' = [lines EXCEPT ![d] = Acting(r)]
  /\ Land(r)
  /\ books' = [books EXCEPT ![d] = Booked(r)]
  /\ Logged(d, IF op[r] = "sale" THEN {}
               ELSE {"POSTED"} \cup (IF status[d] = "ABSENT" THEN {"CREATED"} ELSE {}))
  /\ Release(r)
  /\ UNCHANGED deleted

CommitCancelDraft(r) ==
  /\ pc[r] = "commit" /\ op[r] = "cancelDraft"
  /\ status' = [status EXCEPT ![doc[r]] = "CANCELLED"]
  /\ Logged(doc[r], {"CANCELLED"})
  /\ Release(r)
  /\ UNCHANGED <<deleted, lines, ledger, onHand, books>>

CommitCancel(r) ==
  LET d == doc[r] IN
  /\ pc[r] = "commit" /\ op[r] = "cancel"
  /\ status' = [status EXCEPT ![d] = "CANCELLED"]
  /\ Land(r)
  /\ books' = [books EXCEPT ![d] = Unbooked(r)]
  /\ Logged(d, IF IsVoucher(d) THEN {"CANCELLED"} ELSE {})
  /\ Release(r)
  /\ UNCHANGED <<deleted, lines>>

\* Mutant: the delete is a status instead of a flag.
CommitDelete_Status(r) ==
  /\ pc[r] = "commit" /\ op[r] = "delete"
  /\ status' = [status EXCEPT ![doc[r]] = "DELETED"]
  /\ Release(r)
  /\ UNCHANGED <<deleted, lines, ledger, onHand, books, trail>>

\* The update names the row by id alone: the status is not read again.
CommitDelete(r) ==
  /\ pc[r] = "commit" /\ op[r] = "delete"
  /\ deleted' = [deleted EXCEPT ![doc[r]] = TRUE]
  /\ Release(r)
  /\ UNCHANGED <<status, lines, ledger, onHand, books, trail>>

\* An exception, a lost connection or a crash of the server.
Abort(r) == pc[r] # "idle" /\ Rollback(r)

-----------------------------------------------------------------------------
Arrival(r) ==
  \E d \in Doc :
    \/ \E o \in Op, f \in Sheet : Create(r, d, o, f) \/ SaveRequest(r, d, o, f)
    \/ \E f \in Sheet : SaleRequest(r, d, f)
    \/ PostRequest(r, d) \/ CancelRequest(r, d) \/ DeleteRequest(r, d)
    \/ SaleCancelRequest(r, d)

Commit(r) ==
  \/ CommitSave(r) \/ CommitPost(r)
  \/ CommitCancelDraft(r) \/ CommitCancel(r) \/ CommitDelete(r)

Advance(r) ==
  \/ LockHeader(r) \/ LockItem(r) \/ ItemsLocked(r)
  \/ Preflight(r) \/ Apply(r) \/ Commit(r)

Next == \E r \in Req : Arrival(r) \/ Advance(r) \/ Abort(r)

Spec == Init /\ [][Next]_vars

\* The server keeps working on the requests it has accepted, and PostgreSQL
\* grants a free lock to one of its waiters again and again.
FairSpec == Spec /\ \A r \in Req : SF_vars(Advance(r))

-----------------------------------------------------------------------------
(* Properties. *)

Status == {"ABSENT", "DRAFT", "POSTED", "CANCELLED"}
Pc == {"idle", "lock", "items", "check", "apply", "commit"}

\* Every row, lock and request of the model has its type (svh_status and the
\* quantity columns of stock_voucher, stock_ledger and stock_balance).
TypeOK ==
  /\ status \in [Doc -> Status]
  /\ deleted \in [Doc -> BOOLEAN]
  /\ lines \in [Doc -> [Item -> Int]]
  /\ ledger \in [Item -> [Doc -> Row]]
  /\ onHand \in [Item -> Int]
  /\ books \in [Doc -> {"none", "posted", "reversed"}]
  /\ trail \in [Doc -> [Step -> Nat]]
  /\ hdrLock \in [Doc -> Req \cup {None}]
  /\ itemLock \in [Item -> Req \cup {None}]
  /\ pc \in [Req -> Pc]
  /\ op \in [Req -> Op]
  /\ doc \in [Req -> Doc]
  /\ form \in [Req -> [Item -> Int]]
  /\ calc \in [Req -> [Item -> Int]]

\* stock_balance never drifts from stock_ledger: the on-hand figure of a
\* holding is the sum of its ledger rows after every commit, however the
\* transactions of two documents on one item interleave (rebuildBalances
\* under the advisory lock of applyLedgerRows).
OnHandIsLedger == \A i \in Item : onHand[i] = OnHandOf(ledger[i])

\* The ledger of an item whose policy is BLOCK never sums below zero, whichever
\* documents post and cancel against it together: the policy is judged on a
\* balance no other document can be changing (assertNegativeStockPolicy).
BlockedNeverNegative ==
  \A i \in Item : Policy[i] = "BLOCK" => ~(OnHandOf(ledger[i]) < 0)

\* The ledger and the accounts hold exactly what the document's status says:
\* nothing for a draft, its own current lines once when POSTED, a full mirror
\* when CANCELLED.  A save that lost the race against a post would leave
\* ledger rows that are not the document's lines, a second post or cancel a
\* second set of rows (loadForWrite, lockHeaderInStatus).
StatusMatchesLedger ==
  \A d \in Doc :
    /\ status[d] \in {"ABSENT", "DRAFT"} =>
         books[d] = "none" /\ \A i \in Item : ledger[i][d] = NoRow
    /\ status[d] = "POSTED" =>
         /\ \A i \in Item : ledger[i][d] = [fwd |-> lines[d][i], rev |-> 0]
         /\ books[d] = IF Perpetual /\ IsVoucher(d) THEN "posted" ELSE "none"
    /\ status[d] = "CANCELLED" =>
         /\ \A i \in Item : ledger[i][d].fwd + ledger[i][d].rev = 0
         /\ books[d] # "posted"

\* No holding has two openings standing: the preflight of two opening posts of
\* one holding, however they interleave, lets one through (validate's
\* already_opened under lockVoucherItems).
OpenedOnce ==
  \A i \in Item : \A d, e \in Doc :
    (/\ KindOf[d] = "OPENING" /\ Unreversed(i, d)
     /\ KindOf[e] = "OPENING" /\ Unreversed(i, e)) => d = e

\* txn_status_log tells the story of the header: one CREATED row, one POSTED
\* row for a document that posted, one CANCELLED row for one that was
\* cancelled, and none twice when two requests race (logStatusChange in the
\* transaction of the write).
TrailMatchesHeader ==
  \A d \in Doc : IsVoucher(d) =>
    /\ trail[d]["CREATED"] = (IF status[d] = "ABSENT" THEN 0 ELSE 1)
    /\ trail[d]["CANCELLED"] = (IF status[d] = "CANCELLED" THEN 1 ELSE 0)
    /\ status[d] \in {"ABSENT", "DRAFT"} => trail[d]["POSTED"] = 0
    /\ status[d] = "POSTED" => trail[d]["POSTED"] = 1
    /\ trail[d]["POSTED"] = 1 => status[d] = "POSTED" \/ \E i \in Item : ledger[i][d] # NoRow

\* Neither an adjustment nor the cancellation of a stock voucher leaves a
\* holding it touched below zero, on an ALLOW item either (blockNegative,
\* refuseNegative).
NeverOverdraws ==
  [][\A d \in Doc, i \in Item :
       (/\ ledger'[i][d] # ledger[i][d]
        /\ IF status'[d] = "CANCELLED" THEN IsVoucher(d) ELSE KindOf[d] = "ADJUST")
       => onHand'[i] >= 0]_vars

\* Every accepted request comes to an end: the sorted order of the item locks,
\* behind the header lock, leaves no two requests waiting on each other.
RequestsEnd == \A r \in Req : (pc[r] # "idle") ~> (pc[r] = "idle")

\* A document with live ledger rows is never hidden by a soft delete (the
\* comment on softDelete: "the one state this module must not be able to
\* reach").
NoPostedDeleted == \A d \in Doc : ~(status[d] = "POSTED" /\ deleted[d])

\* Every behaviour of the requests is a behaviour of the book: a document's
\* lines enter it in one step, once, and leave it in one step, once, and the
\* balance rebuilt in the middle of a transaction is the one that adding and
\* subtracting whole documents would give (applyLedgerRows, lockHeaderInStatus).
Book == INSTANCE StockBook WITH
  life <- status,
  entry <- [d \in Doc |-> [i \in Item |-> ledger[i][d].fwd + ledger[i][d].rev]]

RefinesBook == Book!Spec

=============================================================================
