----------------------------- MODULE StockCount -----------------------------
(***************************************************************************)
(* Physical counts: a PHYSICAL stock voucher names a holding, the server   *)
(* reads the book figure when the sheet is saved, and the post writes the  *)
(* difference between what was counted and that figure.  A sheet may carry *)
(* a freeze: while it is a draft, no movement timed inside its window may  *)
(* touch the godown.                                                       *)
(*                                                                         *)
(* One holding of one godown is modelled.  Counts and movements (sales,    *)
(* any document of the posting engine) meet there, each request running    *)
(* one READ COMMITTED transaction: what it reads, and under which lock, is *)
(* a step of its own.  All freeze windows overlap and every movement is    *)
(* timed inside them or before them.  The item's policy is ALLOW.          *)
(***************************************************************************)
EXTENDS Integers, FiniteSets, Functions

CONSTANTS
  Sheet,     \* count documents
  Move,      \* movements of other documents
  Qty,       \* what a movement adds
  Inside,    \* documents timed inside the freeze windows
  Counted,   \* figures a counter may write down
  Freeze,    \* the freeze flags a sheet may be saved with
  Opening,   \* the holding at the start
  MaxClock,  \* bound: how many count posts may begin
  Req, None

ASSUME FiniteAssumption == IsFiniteSet(Sheet) /\ IsFiniteSet(Move)
ASSUME QtyAssumption == Qty \in [Move -> Int] /\ Opening \in Int
ASSUME CountedAssumption == Counted \subseteq Nat /\ Counted # {} /\ Sheet # {} /\ Move # {}
ASSUME InsideAssumption == Inside \subseteq Sheet \cup Move /\ Freeze \subseteq BOOLEAN
ASSUME ClockAssumption == MaxClock \in Nat
ASSUME NoneAssumption == None \notin Req

VARIABLES
  status, deleted,  \* svh_status and svh_is_deleted of a sheet
  frozen,    \* svh_freeze_stock
  book,      \* svi_book_qty
  counted,   \* svi_counted_qty
  stamp,     \* tsl_changed_on of the sheet's POSTED step
  nth,       \* history: the order in which the posts committed
  moved,     \* movements that have landed
  onHand,    \* sbl_on_hand_qty of the holding
  clock,     \* the server's clock
  hdrLock, itemLock,
  pc, op, doc,  \* step, operation and document of a request
  form,      \* what the request writes on the sheet
  began,     \* postedOn: the clock when the request began
  calc       \* the on-hand figure written, not yet committed

rows == <<status, deleted, frozen, book, counted, stamp, nth, moved, onHand>>
locks == <<hdrLock, itemLock>>
reqs == <<pc, op, doc, form, began, calc>>
vars == <<rows, clock, locks, reqs>>

AnySheet == CHOOSE c \in Sheet : TRUE
Blank == [counted |-> 0, frozen |-> FALSE, book |-> 0]
Op == {"save", "savePost", "post", "cancelDraft", "cancel", "delete", "move"}

-----------------------------------------------------------------------------
(* What the queries compute, over committed rows. *)

\* assertFreezeNotHeld and assertNotFrozen: another draft's freeze.
FrozenByOther(d) ==
  \E c \in Sheet \ {d} : frozen[c] /\ status[c] = "DRAFT" /\ ~deleted[c]

\* assertNotFrozen: only a document timed inside the window is refused.
Refused(d) == d \in Inside /\ FrozenByOther(d)

\* assertCountNotSuperseded: by the instants on the status trail.
Superseded(d) ==
  \E c \in Sheet \ {d} : status[c] = "POSTED" /\ ~deleted[c] /\ stamp[c] > stamp[d]

\* The figures the transaction of r acts on: a save writes its own first.
BookOf(r) == IF op[r] = "savePost" THEN form[r].book ELSE book[doc[r]]
CountOf(r) == IF op[r] = "savePost" THEN form[r].counted ELSE counted[doc[r]]

\* writeLedger and writeReversalLedger.
Delta(r) ==
  CASE op[r] = "move" -> Qty[doc[r]]
    [] op[r] = "cancel" -> BookOf(r) - CountOf(r)
    [] OTHER -> CountOf(r) - BookOf(r)

\* Mutant: the status is not read again under the header lock.
HeaderOk_NoRecheck(r) == TRUE

\* assertDraft and lockHeaderInStatus, under the header lock.
HeaderOk(r) ==
  /\ status[doc[r]] = IF op[r] = "cancel" THEN "POSTED" ELSE "DRAFT"
  /\ ~deleted[doc[r]]

-----------------------------------------------------------------------------
Init ==
  /\ status = [c \in Sheet |-> "ABSENT"]
  /\ deleted = [c \in Sheet |-> FALSE]
  /\ frozen = [c \in Sheet |-> FALSE]
  /\ book = [c \in Sheet |-> 0]
  /\ counted = [c \in Sheet |-> 0]
  /\ stamp = [c \in Sheet |-> 0]
  /\ nth = [c \in Sheet |-> 0]
  /\ moved = {}
  /\ onHand = Opening
  /\ clock = 0
  /\ hdrLock = [c \in Sheet |-> None]
  /\ itemLock = None
  /\ pc = [r \in Req |-> "idle"]
  /\ op = [r \in Req |-> "save"]
  /\ doc = [r \in Req |-> AnySheet]
  /\ form = [r \in Req |-> Blank]
  /\ began = [r \in Req |-> 0]
  /\ calc = [r \in Req |-> 0]

(* A request arrives; the clock of a post is read before its transaction. *)
Arrive(r, d, o, f, next) ==
  /\ pc[r] = "idle"
  /\ pc' = [pc EXCEPT ![r] = next]
  /\ op' = [op EXCEPT ![r] = o]
  /\ doc' = [doc EXCEPT ![r] = d]
  /\ form' = [form EXCEPT ![r] = f]
  /\ IF o \in {"post", "savePost"}
     THEN /\ clock < MaxClock
          /\ clock' = clock + 1
          /\ began' = [began EXCEPT ![r] = clock + 1]
     ELSE UNCHANGED <<clock, began>>
  /\ UNCHANGED <<rows, itemLock, calc>>

Create(r, c, o, f) ==
  /\ status[c] = "ABSENT" /\ hdrLock[c] = None
  /\ o \in {"save", "savePost"}
  /\ Arrive(r, c, o, f, "freeze")
  /\ hdrLock' = [hdrLock EXCEPT ![c] = r]

SaveRequest(r, c, o, f) ==
  /\ status[c] # "ABSENT"
  /\ o \in {"save", "savePost"}
  /\ Arrive(r, c, o, f, "lock")
  /\ UNCHANGED hdrLock

PostRequest(r, c) ==
  /\ status[c] = "DRAFT" /\ ~deleted[c]
  /\ Arrive(r, c, "post", Blank, "lock")
  /\ UNCHANGED hdrLock

\* The status read without a lock decides what the cancel does.
CancelRequest(r, c) ==
  /\ status[c] \in {"DRAFT", "POSTED"}
  /\ IF status[c] = "DRAFT" THEN Arrive(r, c, "cancelDraft", Blank, "lock")
                            ELSE Arrive(r, c, "cancel", Blank, "later")
  /\ UNCHANGED hdrLock

DeleteRequest(r, c) ==
  /\ status[c] = "DRAFT"
  /\ Arrive(r, c, "delete", Blank, "lock")
  /\ UNCHANGED hdrLock

\* Another document posts through the engine; it is new, so it needs no lock.
MoveRequest(r, m) ==
  /\ m \notin moved /\ \A q \in Req : pc[q] = "idle" \/ doc[q] # m
  /\ Arrive(r, m, "move", Blank, "guard")
  /\ UNCHANGED hdrLock

-----------------------------------------------------------------------------
(* The transaction. *)

Release(r) ==
  /\ hdrLock' = [c \in Sheet |-> IF hdrLock[c] = r THEN None ELSE hdrLock[c]]
  /\ itemLock' = IF itemLock = r THEN None ELSE itemLock
  /\ pc' = [pc EXCEPT ![r] = "idle"]
  /\ op' = [op EXCEPT ![r] = "save"]
  /\ doc' = [doc EXCEPT ![r] = AnySheet]
  /\ form' = [form EXCEPT ![r] = Blank]
  /\ began' = [began EXCEPT ![r] = 0]
  /\ calc' = [calc EXCEPT ![r] = 0]
  /\ UNCHANGED clock

Rollback(r) == Release(r) /\ UNCHANGED rows

Goto(r, next) ==
  /\ pc' = [pc EXCEPT ![r] = next]
  /\ UNCHANGED <<rows, clock, op, doc, began>>

\* SELECT ... FOR UPDATE.  The delete alone does not look at the row again.
LockHeader(r) ==
  /\ pc[r] = "lock" /\ hdrLock[doc[r]] = None
  /\ IF HeaderOk(r) \/ op[r] = "delete"
     THEN /\ hdrLock' = [hdrLock EXCEPT ![doc[r]] = r]
          /\ Goto(r, CASE op[r] \in {"save", "savePost"} -> "freeze"
                       [] op[r] \in {"post", "cancel"} -> "item"
                       [] OTHER -> "commit")
          /\ UNCHANGED <<itemLock, form, calc>>
     ELSE Rollback(r)

\* assertFreezeNotHeld, for a sheet that freezes.
CheckFreeze(r) ==
  /\ pc[r] = "freeze"
  /\ IF form[r].frozen /\ FrozenByOther(doc[r])
     THEN Rollback(r)
     ELSE Goto(r, "book") /\ UNCHANGED <<locks, form, calc>>

\* loadCountHoldings: the book figure, read without the item's lock.
ReadBook(r) ==
  /\ pc[r] = "book"
  /\ form' = [form EXCEPT ![r].book = onHand]
  /\ Goto(r, IF op[r] = "save" THEN "commit" ELSE "item")
  /\ UNCHANGED <<locks, calc>>

\* Mutant: the item's lock does not exclude.
LockItem_NoWait(r) ==
  /\ pc[r] = "item"
  /\ itemLock' = r
  /\ Goto(r, IF op[r] \in {"post", "savePost"} THEN "drift" ELSE "apply")
  /\ UNCHANGED <<hdrLock, form, calc>>

\* lockVoucherItems before the preflight of a count; applyLedgerRows of a
\* movement or a cancel.  A count that found no difference reverses no row.
LockItem(r) ==
  /\ pc[r] = "item"
  /\ \/ /\ itemLock = None
        /\ itemLock' = r
     \/ /\ op[r] = "cancel" /\ Delta(r) = 0
        /\ UNCHANGED itemLock
  /\ Goto(r, IF op[r] \in {"post", "savePost"} THEN "drift" ELSE "apply")
  /\ UNCHANGED <<hdrLock, form, calc>>

\* validate: the drift check, and the freeze of another sheet.
Drifted(r) == BookOf(r) # onHand

CheckDrift(r) ==
  /\ pc[r] = "drift"
  /\ IF Drifted(r) \/ Refused(doc[r])
     THEN Rollback(r)
     ELSE Goto(r, "guard") /\ UNCHANGED <<locks, form, calc>>

\* assertNotFrozen: the first thing the engine does for a document; a count
\* holds its locks by then, a movement or a cancel has none yet.
Guard(r) ==
  /\ pc[r] = "guard"
  /\ IF Refused(doc[r])
     THEN Rollback(r)
     ELSE /\ Goto(r, CASE op[r] = "move" -> "item"
                       [] op[r] = "cancel" -> "lock"
                       [] OTHER -> "apply")
          /\ UNCHANGED <<locks, form, calc>>

\* assertCountNotSuperseded runs before the header is locked.
CheckLater(r) ==
  /\ pc[r] = "later"
  /\ IF Superseded(doc[r])
     THEN Rollback(r)
     ELSE Goto(r, "guard") /\ UNCHANGED <<locks, form, calc>>

\* The rebuild; a cancel never leaves the holding negative.
Apply(r) ==
  /\ pc[r] = "apply"
  /\ IF op[r] = "cancel" /\ Delta(r) # 0 /\ onHand + Delta(r) < 0
     THEN Rollback(r)
     ELSE /\ calc' = [calc EXCEPT ![r] = onHand + Delta(r)]
          /\ Goto(r, "commit")
          /\ UNCHANGED <<locks, form>>

\* save and save-and-post write the sheet.
WriteSheet(r) ==
  IF op[r] \in {"save", "savePost"}
  THEN /\ frozen' = [frozen EXCEPT ![doc[r]] = form[r].frozen]
       /\ book' = [book EXCEPT ![doc[r]] = form[r].book]
       /\ counted' = [counted EXCEPT ![doc[r]] = form[r].counted]
  ELSE UNCHANGED <<frozen, book, counted>>

CommitSave(r) ==
  /\ pc[r] = "commit" /\ op[r] = "save"
  /\ WriteSheet(r)
  /\ status' = [status EXCEPT ![doc[r]] = "DRAFT"]
  /\ Release(r)
  /\ UNCHANGED <<deleted, stamp, nth, moved, onHand>>

CommitPost(r) ==
  LET c == doc[r] IN
  /\ pc[r] = "commit" /\ op[r] \in {"post", "savePost"}
  /\ WriteSheet(r)
  /\ status' = [status EXCEPT ![c] = "POSTED"]
  /\ stamp' = [stamp EXCEPT ![c] = began[r]]
  /\ nth' = [nth EXCEPT ![c] = 1 + Cardinality({b \in Sheet : nth[b] > 0})]
  /\ onHand' = IF Delta(r) # 0 THEN calc[r] ELSE onHand
  /\ Release(r)
  /\ UNCHANGED <<deleted, moved>>

CommitCancel(r) ==
  /\ pc[r] = "commit" /\ op[r] \in {"cancelDraft", "cancel"}
  /\ status' = [status EXCEPT ![doc[r]] = "CANCELLED"]
  /\ onHand' = IF op[r] = "cancel" /\ Delta(r) # 0 THEN calc[r] ELSE onHand
  /\ Release(r)
  /\ UNCHANGED <<deleted, frozen, book, counted, stamp, nth, moved>>

\* Mutant: the delete is a status instead of a flag.
CommitDelete_Status(r) ==
  /\ pc[r] = "commit" /\ op[r] = "delete"
  /\ status' = [status EXCEPT ![doc[r]] = "DELETED"]
  /\ Release(r)
  /\ UNCHANGED <<deleted, frozen, book, counted, stamp, nth, moved, onHand>>

CommitDelete(r) ==
  /\ pc[r] = "commit" /\ op[r] = "delete"
  /\ deleted' = [deleted EXCEPT ![doc[r]] = TRUE]
  /\ Release(r)
  /\ UNCHANGED <<status, frozen, book, counted, stamp, nth, moved, onHand>>

CommitMove(r) ==
  /\ pc[r] = "commit" /\ op[r] = "move"
  /\ moved' = moved \cup {doc[r]}
  /\ onHand' = calc[r]
  /\ Release(r)
  /\ UNCHANGED <<status, deleted, frozen, book, counted, stamp, nth>>

Abort(r) == pc[r] # "idle" /\ Rollback(r)

-----------------------------------------------------------------------------
Form == [counted : Counted, frozen : Freeze, book : {0}]

Arrival(r) ==
  \/ \E c \in Sheet :
       \/ \E o \in Op, f \in Form : Create(r, c, o, f) \/ SaveRequest(r, c, o, f)
       \/ PostRequest(r, c) \/ CancelRequest(r, c) \/ DeleteRequest(r, c)
  \/ \E m \in Move : MoveRequest(r, m)

Advance(r) ==
  \/ LockHeader(r) \/ CheckFreeze(r) \/ ReadBook(r) \/ LockItem(r) \/ CheckDrift(r)
  \/ Guard(r) \/ CheckLater(r) \/ Apply(r)
  \/ CommitSave(r) \/ CommitPost(r) \/ CommitCancel(r) \/ CommitDelete(r) \/ CommitMove(r)

Next == \E r \in Req : Arrival(r) \/ Advance(r) \/ Abort(r)

Spec == Init /\ [][Next]_vars

-----------------------------------------------------------------------------
(* Properties. *)

Pc == {"idle", "lock", "freeze", "book", "item", "drift", "guard", "later", "apply", "commit"}
Slip == [counted : Int, frozen : BOOLEAN, book : Int]

\* Every sheet, lock and request has its type (stock_voucher, stock_balance).
TypeOK ==
  /\ status \in [Sheet -> {"ABSENT", "DRAFT", "POSTED", "CANCELLED"}]
  /\ deleted \in [Sheet -> BOOLEAN] /\ frozen \in [Sheet -> BOOLEAN]
  /\ book \in [Sheet -> Int] /\ counted \in [Sheet -> Int]
  /\ stamp \in [Sheet -> Nat] /\ nth \in [Sheet -> Nat]
  /\ moved \subseteq Move /\ onHand \in Int /\ clock \in 0..MaxClock
  /\ hdrLock \in [Sheet -> Req \cup {None}] /\ itemLock \in Req \cup {None}
  /\ pc \in [Req -> Pc] /\ op \in [Req -> Op] /\ doc \in [Req -> Sheet \cup Move]
  /\ form \in [Req -> Slip] /\ began \in [Req -> Nat] /\ calc \in [Req -> Int]

\* Posting a count leaves the book at what was counted: the figure the sheet
\* was measured against is the figure its variance lands on, however late the
\* sheet is posted and whatever moves in between (the drift check of validate
\* under lockVoucherItems).
CountLands ==
  [][\A c \in Sheet :
       status[c] # "POSTED" /\ status'[c] = "POSTED" => onHand' = counted'[c]]_vars

\* The book is the opening, the movements that landed and the variances of the
\* posted sheets as they read now, so no figure of a posted sheet is rewritten
\* and no variance is posted or reversed twice.
BookIsSum ==
  onHand = Opening + SumFunction([m \in moved |-> Qty[m]])
           + SumFunction([c \in Sheet |-> IF status[c] = "POSTED" THEN counted[c] - book[c] ELSE 0])

=============================================================================
