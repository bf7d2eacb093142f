------------------------------- MODULE Till ---------------------------------
(***************************************************************************)
(* The cash of a till session: TillSessionService (open, suspend, resume,  *)
(* end billing, count, close, force close, variance decision, reopen) and  *)
(* TillMovementService (movements, their void, the receipt of bags), with  *)
(* the vouchers both post through TillPostingService.                      *)
(*                                                                         *)
(* Every writer of a session locks its row FOR UPDATE and writes only rows *)
(* of that session, so most operations are one step here.  Three are not:  *)
(* open locks the counter, reads other sessions and inserts; close reads   *)
(* the counter's last Z without a lock; reopen reads other sessions under  *)
(* the lock of its own.  They read in one step and commit in another.      *)
(* Bills lock nothing: resolveForMoney checks the status, and the money    *)
(* lands later.                                                            *)
(*                                                                         *)
(* Only cash is kept.  The till cash ledger is kept per session (vouchers  *)
(* carry the session), the other legs (safe, short and excess) are left    *)
(* out.  The caller of an open is a cashier on a device that hold no other *)
(* session, the business day is open, and a session has at most one        *)
(* standing movement of a kind.                                            *)
(***************************************************************************)
EXTENDS Integers, FiniteSets, Functions

CONSTANTS
  Session,          \* session ids, in the order of opening
  Counter,
  Float,            \* floats the safe may issue (tcn_default_float or the caller's)
  Cash,             \* amounts a count, a receipt or a movement may come to
  Tolerance,        \* till.cash_tolerance
  MaxRecounts,      \* till.max_recounts
  ReceiptRequired,  \* till.handover_receipt is REQUIRED
  Hands,            \* movements made by hand: pairs of a session and a kind
  MaxBills,         \* bound: cash bills of each session
  MaxCounts,        \* bound: attempts before a force close
  MaxGrants,        \* bound: recounts granted to each by a decision or a reopen
  Req, None

ASSUME SessionAssumption == Session \subseteq Nat \ {0} /\ IsFiniteSet(Session)
ASSUME NoneAssumption == None \notin Session \cup Req
ASSUME MoneyAssumption == Float \subseteq Nat /\ Cash \subseteq Nat /\ Tolerance \in Nat
ASSUME BoundAssumption ==
  MaxRecounts \in Nat /\ MaxCounts \in Nat /\ MaxBills \in [Session -> Nat] /\ MaxGrants \in [Session -> Nat]
ASSUME MoveAssumption == ReceiptRequired \in BOOLEAN /\ Hands \subseteq Session \X {"TOP_UP", "DROP"}

VARIABLES
  ses,       \* rows of till_session
  gap,       \* the live CLOSE-stage till_variance of a session
  moves,     \* standing till_cash_movement rows, by kind
  bills,     \* cash of posted bills that carry the session
  inflight,  \* bills checked and not committed
  till,      \* till cash ledger: postings that carry the session
  awaiting,  \* ledger of the till cash awaiting receipt
  zLast,     \* tcn_z_last_no
  sLock,     \* holder of the session row
  cLock,     \* holder of the counter row
  pc, arg

rows == <<ses, gap, moves, bills, till, awaiting, zLast>>
txs == <<sLock, cLock, pc, arg>>
vars == <<rows, inflight, txs>>

Live == {"OPEN", "SUSPENDED", "COUNTING"}           \* LIVE_SESSION_STATUSES
Holding == Live \cup {"PENDING_APPROVAL"}           \* HOLDING_SESSION_STATUSES
Movable == {"OPEN", "SUSPENDED"}                    \* MOVABLE_STATUSES
Status == Holding \cup {"NONE", "CLOSED"}
Kind == {"TOP_UP", "DROP", "CLOSE_HANDOVER"}

NoRow == [status |-> "NONE", counter |-> None, prev |-> None, issued |-> 0, float |-> 0,
          attempts |-> 0, granted |-> 0, counted |-> FALSE, cash |-> 0, expected |-> 0,
          left |-> 0, z |-> 0, pending |-> FALSE]
NoGap == [st |-> "NONE", amt |-> 0, moved |-> 0]
NoMove == [amt |-> 0, receipt |-> "NONE", diff |-> 0]
NoArg == [s |-> None, row |-> NoRow, gap |-> NoGap, left |-> 0, z |-> 0]

-----------------------------------------------------------------------------
(* What the rows come to. *)

Abs(n) == IF n < 0 THEN 0 - n ELSE n

Standing(s, k) == moves[s][k].amt > 0

\* movementTotals: in less out, the hand-over of the close apart.
Moved(s) == moves[s]["TOP_UP"].amt - moves[s]["DROP"].amt

\* TillLedgerService.expected, the cash row.
Expected(s) == ses[s].float + bills[s] + Moved(s)

\* hasPendingReceive: a bag received for another amount waits for its decision.
PendingReceive(s) == \E k \in Kind : moves[s][k].diff # 0

\* hasAnyPending
AnyPending(s) == PendingReceive(s) \/ gap[s].st = "PENDING"

\* ux_tss_counter_live
IndexFree(s, c) == \A t \in Session \ {s} : ~(ses[t].counter = c /\ ses[t].status \in Live)

\* postMovement of a bag: with a receipt required it waits on the awaiting ledger.
Bag(amt) ==
  IF amt = 0 THEN NoMove
  ELSE [amt |-> amt, receipt |-> IF ReceiptRequired THEN "AWAITING" ELSE "NONE", diff |-> 0]

Waiting(move) == IF move.receipt = "AWAITING" THEN move.amt ELSE 0

-----------------------------------------------------------------------------
Init ==
  /\ ses = [s \in Session |-> NoRow]
  /\ gap = [s \in Session |-> NoGap]
  /\ moves = [s \in Session |-> [k \in Kind |-> NoMove]]
  /\ bills = [s \in Session |-> 0] /\ inflight = [s \in Session |-> 0]
  /\ till = [s \in Session |-> 0] /\ awaiting = 0
  /\ zLast = [c \in Counter |-> 0]
  /\ sLock = [s \in Session |-> None] /\ cLock = [c \in Counter |-> None]
  /\ pc = [r \in Req |-> "idle"] /\ arg = [r \in Req |-> NoArg]

\* The transaction ends: its locks go.
Done(r) ==
  /\ sLock' = [s \in Session |-> IF sLock[s] = r THEN None ELSE sLock[s]]
  /\ cLock' = [c \in Counter |-> IF cLock[c] = r THEN None ELSE cLock[c]]
  /\ pc' = [pc EXCEPT ![r] = "idle"]
  /\ arg' = [arg EXCEPT ![r] = NoArg]

Rollback(r) == Done(r) /\ UNCHANGED <<rows, inflight>>

-----------------------------------------------------------------------------
(* Open. *)

\* carriedFrom: the float a CLOSED session of the counter left, carried once.
Carriable(p, c) ==
  ses[p].status = "CLOSED" /\ ses[p].counter = c /\ \A t \in Session : ses[t].prev # p

Opening(c, prev, issued, n) ==
  [NoRow EXCEPT !.status = "OPEN", !.counter = c, !.prev = prev, !.issued = issued, !.float = n]

\* The rows an open may insert: a float out of the safe, none at all, or the
\* one that is carried, and what the cashier counted of it.
Openings(c) ==
  {Opening(c, None, f, n) : f \in Float, n \in Cash}
    \cup {Opening(c, None, 0, 0)}
    \cup UNION {{Opening(c, p, ses[p].left, n) : n \in Cash} : p \in {t \in Session : Carriable(t, c)}}

\* assertCounterFree under the counter's lock, and the float.
OpenBegin(r, s, c) ==
  /\ pc[r] = "idle" /\ cLock[c] = None
  /\ ses[s].status = "NONE" /\ \A q \in Req : arg[q].s # s
  /\ \A t \in Session : t < s => ses[t].status # "NONE"
  /\ \A t \in Session : ~(ses[t].counter = c /\ ses[t].status \in Holding)
  /\ \E row \in Openings(c) : arg' = [arg EXCEPT ![r] = [NoArg EXCEPT !.s = s, !.row = row]]
  /\ cLock' = [cLock EXCEPT ![c] = r]
  /\ pc' = [pc EXCEPT ![r] = "open"]
  /\ UNCHANGED <<rows, inflight, sLock>>

\* The insert, the issue of the float out of the safe, and the variance of the
\* opening count, posted at once.  A carried float is in the drawer already.
OpenCommit(r) ==
  LET s == arg[r].s
      row == arg[r].row
  IN
  /\ pc[r] = "open"
  /\ \/ ~IndexFree(s, row.counter) /\ Rollback(r)
     \/ /\ IndexFree(s, row.counter)
        /\ ses' = [ses EXCEPT ![s] = row]
        /\ till' = [till EXCEPT ![s] = IF row.prev = None THEN row.float ELSE row.float - row.issued]
        /\ Done(r)
        /\ UNCHANGED <<gap, moves, bills, awaiting, zLast, inflight>>

-----------------------------------------------------------------------------
(* Operations of one step, under the lock of the session row. *)

Free(s, statuses) == sLock[s] = None /\ ses[s].status \in statuses

SetStatus(s, status) ==
  /\ ses' = [ses EXCEPT ![s].status = status]
  /\ UNCHANGED <<gap, moves, bills, till, awaiting, zLast, inflight, txs>>

Suspend(s) == Free(s, {"OPEN"}) /\ SetStatus(s, "SUSPENDED")
Resume(s) == Free(s, {"SUSPENDED"}) /\ SetStatus(s, "OPEN")
EndBilling(s) == Free(s, Movable) /\ SetStatus(s, "COUNTING")

\* resolveForMoney: the session is OPEN, or billing had stopped and the bill
\* was made before (a late arrival of an offline till).
BillCheck(s) ==
  /\ ses[s].status \in {"OPEN", "COUNTING", "PENDING_APPROVAL", "CLOSED"}
  /\ bills[s] + inflight[s] < MaxBills[s]
  /\ inflight' = [inflight EXCEPT ![s] = @ + 1]
  /\ UNCHANGED <<rows, txs>>

BillCommit(s) ==
  /\ inflight[s] > 0
  /\ inflight' = [inflight EXCEPT ![s] = @ - 1]
  /\ bills' = [bills EXCEPT ![s] = @ + 1]
  /\ till' = [till EXCEPT ![s] = @ + 1]
  /\ UNCHANGED <<ses, gap, moves, awaiting, zLast, txs>>

BillFails(s) ==
  /\ inflight[s] > 0
  /\ inflight' = [inflight EXCEPT ![s] = @ - 1]
  /\ UNCHANGED <<rows, txs>>

\* TillMovementService.create: a top-up out of the safe, or a drop.
Move(s, k, amt) ==
  /\ <<s, k>> \in Hands /\ amt > 0
  /\ Free(s, Movable) /\ ~Standing(s, k)
  /\ moves' = [moves EXCEPT ![s][k] = IF k = "DROP" THEN Bag(amt) ELSE [NoMove EXCEPT !.amt = amt]]
  /\ till' = [till EXCEPT ![s] = IF k = "DROP" THEN @ - amt ELSE @ + amt]
  /\ awaiting' = IF k = "DROP" THEN awaiting + Waiting(Bag(amt)) ELSE awaiting
  /\ UNCHANGED <<ses, gap, bills, zLast, inflight, txs>>

\* Mutant: the void looks at the status only.
Voidable_AnyCount(s, k) == Free(s, Live) /\ Standing(s, k) /\ moves[s][k].receipt # "RECEIVED"

\* void: until a count is final, and not a bag that was received.
Voidable(s, k) ==
  /\ Free(s, Live) /\ ~ses[s].counted
  /\ Standing(s, k) /\ moves[s][k].receipt # "RECEIVED"

VoidMove(s, k) ==
  LET move == moves[s][k] IN
  /\ Voidable(s, k)
  /\ moves' = [moves EXCEPT ![s][k] = NoMove]
  /\ till' = [till EXCEPT ![s] = IF k = "DROP" THEN @ + move.amt ELSE @ - move.amt]
  /\ awaiting' = awaiting - Waiting(move)
  /\ UNCHANGED <<ses, gap, bills, zLast, inflight, txs>>

-----------------------------------------------------------------------------
(* Count, decision and close. *)

MaxAttempts(row) == 1 + MaxRecounts + row.granted

Within(n, exp) == Abs(n - exp) <= Tolerance

Outcome(row, n, exp, forced) ==
  IF Within(n, exp) THEN "ACCEPTED"
  ELSE IF forced \/ row.attempts + 1 >= MaxAttempts(row) THEN "SENT_FOR_APPROVAL"
  ELSE "RECOUNT_REQUIRED"

\* countIn, the session row: a final count freezes the expectation.
CountedRow(s, n, forced) ==
  LET row == ses[s]
      exp == Expected(s)
      outcome == Outcome(row, n, exp, forced)
      tried == [row EXCEPT !.attempts = @ + 1]
  IN
  IF outcome = "RECOUNT_REQUIRED" THEN tried
  ELSE [tried EXCEPT !.counted = TRUE, !.cash = n, !.expected = exp,
                     !.pending = (outcome = "SENT_FOR_APPROVAL") \/ PendingReceive(s),
                     !.status = IF outcome = "SENT_FOR_APPROVAL" THEN "PENDING_APPROVAL" ELSE "COUNTING"]

\* countIn, the variance row: it replaces the one of an earlier count, and
\* waits for a decision when the count was sent for approval (varianceRow).
CountedGap(s, n, forced) ==
  LET outcome == Outcome(ses[s], n, Expected(s), forced) IN
  IF outcome = "RECOUNT_REQUIRED" THEN gap[s]
  ELSE [st |-> IF outcome = "ACCEPTED" THEN "DECIDED" ELSE "PENDING",
        amt |-> n - Expected(s), moved |-> Moved(s)]

Count(s, n) ==
  /\ Free(s, {"COUNTING"}) /\ ses[s].attempts < MaxAttempts(ses[s])
  /\ ses' = [ses EXCEPT ![s] = CountedRow(s, n, FALSE)]
  /\ gap' = [gap EXCEPT ![s] = CountedGap(s, n, FALSE)]
  /\ UNCHANGED <<moves, bills, till, awaiting, zLast, inflight, txs>>

\* decideVariance APPROVE: a treatment for the variance, back to COUNTING.
Approve(s) ==
  /\ Free(s, {"PENDING_APPROVAL"}) /\ IndexFree(s, ses[s].counter)
  /\ ses' = [ses EXCEPT ![s].status = "COUNTING", ![s].pending = PendingReceive(s)]
  /\ gap' = [gap EXCEPT ![s].st = "DECIDED"]
  /\ UNCHANGED <<moves, bills, till, awaiting, zLast, inflight, txs>>

\* decideVariance RECOUNT: the count no longer stands, its variance waits to
\* be replaced.
Recount(s) ==
  /\ Free(s, {"PENDING_APPROVAL"}) /\ IndexFree(s, ses[s].counter)
  /\ ses[s].granted < MaxGrants[s]
  /\ ses' = [ses EXCEPT ![s].status = "COUNTING", ![s].granted = @ + 1,
                        ![s].counted = FALSE, ![s].cash = 0]
  /\ UNCHANGED <<gap, moves, bills, till, awaiting, zLast, inflight, txs>>

\* closeIn up to its writes: a count stands, no drawer gap is undecided, and
\* the float left is in the drawer.  The counter is read without a lock.
CloseBegin(r, s, row, g) ==
  /\ pc[r] = "idle"
  /\ row.counted /\ g.st # "PENDING"
  /\ \E left \in Cash \cap 0..row.cash :
       arg' = [arg EXCEPT ![r] = [s |-> s, row |-> row, gap |-> g, left |-> left, z |-> zLast[row.counter]]]
  /\ sLock' = [sLock EXCEPT ![s] = r]
  /\ pc' = [pc EXCEPT ![r] = "close"]
  /\ UNCHANGED <<rows, inflight, cLock>>

Close(r, s) == Free(s, {"COUNTING"}) /\ CloseBegin(r, s, ses[s], gap[s])

\* forceClose: a supervisor ends the billing and counts, once; within the
\* tolerance the session closes in the same transaction.
ForceClose(r, s, n) ==
  LET row == CountedRow(s, n, TRUE)
      g == CountedGap(s, n, TRUE)
  IN
  /\ Free(s, Live) /\ ses[s].attempts < MaxCounts
  /\ \/ row.status = "COUNTING" /\ CloseBegin(r, s, row, g)
     \/ /\ row.status = "PENDING_APPROVAL"
        /\ ses' = [ses EXCEPT ![s] = row]
        /\ gap' = [gap EXCEPT ![s] = g]
        /\ UNCHANGED <<moves, bills, till, awaiting, zLast, inflight, txs>>

\* closeIn, the writes: the variance (TVar), the hand-over (TDrp), the Z, of
\* which a session that was reopened keeps its own, and CLOSED.
CloseCommit(r) ==
  LET s == arg[r].s
      row == arg[r].row
      handed == row.cash - arg[r].left
      z == IF row.z = 0 THEN arg[r].z + 1 ELSE row.z
  IN
  /\ pc[r] = "close"
  /\ ses' = [ses EXCEPT ![s] = [row EXCEPT !.status = "CLOSED", !.left = arg[r].left, !.z = z]]
  /\ gap' = [gap EXCEPT ![s] = [arg[r].gap EXCEPT !.st = "POSTED"]]
  /\ moves' = [moves EXCEPT ![s]["CLOSE_HANDOVER"] = Bag(handed)]
  /\ till' = [till EXCEPT ![s] = @ + arg[r].gap.amt - handed]
  /\ awaiting' = awaiting + Waiting(Bag(handed))
  /\ zLast' = IF row.z = 0 THEN [zLast EXCEPT ![row.counter] = z] ELSE zLast
  /\ Done(r)
  /\ UNCHANGED <<bills, inflight>>

-----------------------------------------------------------------------------
(* The receipt of the bags. *)

\* Mutant: the difference of a bag is left off the header.
PendingAfter_Kept(s, difference) == ses[s].pending

\* receive: beyond the tolerance the session's variance status is PENDING.
PendingAfter(s, difference) == ses[s].pending \/ Abs(difference) > Tolerance

\* receive: what was counted goes to the safe; a difference within the
\* tolerance is posted, one beyond it waits on the awaiting ledger.
Receive(s, k, n) ==
  LET move == moves[s][k]
      difference == n - move.amt
      posted == Abs(difference) <= Tolerance
  IN
  /\ sLock[s] = None /\ move.receipt = "AWAITING"
  /\ moves' = [moves EXCEPT ![s][k].receipt = "RECEIVED", ![s][k].diff = IF posted THEN 0 ELSE difference]
  /\ awaiting' = awaiting - n + (IF posted THEN difference ELSE 0)
  /\ ses' = [ses EXCEPT ![s].pending = PendingAfter(s, difference)]
  /\ UNCHANGED <<gap, bills, till, zLast, inflight, txs>>

\* approveCash: all the bags of a closed session for one total; the difference
\* is one variance, on the hand-over if it waits, decided here or later.
ApproveCash(s, total, decided) ==
  LET bags == {k \in Kind : moves[s][k].receipt = "AWAITING"}
      anchor == IF "CLOSE_HANDOVER" \in bags THEN "CLOSE_HANDOVER" ELSE "DROP"
      difference == total - SumFunction([k \in Kind |-> Waiting(moves[s][k])])
      posted == decided \/ Abs(difference) <= Tolerance
  IN
  /\ Free(s, {"CLOSED"}) /\ bags # {}
  /\ decided => Abs(difference) > Tolerance
  /\ moves' = [moves EXCEPT ![s] = [k \in Kind |->
                 IF k \notin bags THEN moves[s][k]
                 ELSE [moves[s][k] EXCEPT !.receipt = "RECEIVED",
                                          !.diff = IF k = anchor /\ ~posted THEN difference ELSE 0]]]
  /\ awaiting' = awaiting - total + (IF posted THEN difference ELSE 0)
  /\ ses' = [ses EXCEPT ![s].pending = IF decided THEN AnyPending(s) ELSE PendingAfter(s, difference)]
  /\ UNCHANGED <<gap, bills, till, zLast, inflight, txs>>

\* decideReceive: the difference leaves the awaiting ledger.
DecideReceive(s, k) ==
  /\ sLock[s] = None /\ moves[s][k].diff # 0
  /\ moves' = [moves EXCEPT ![s][k].diff = 0]
  /\ awaiting' = awaiting + moves[s][k].diff
  /\ ses' = [ses EXCEPT ![s].pending =
               gap[s].st = "PENDING" \/ \E j \in Kind \ {k} : moves[s][j].diff # 0]
  /\ UNCHANGED <<gap, bills, till, zLast, inflight, txs>>

-----------------------------------------------------------------------------
(* Reopen. *)

\* Mutant: a session whose cash was approved into the safe is reopened too.
Reopenable_Received(s) ==
  /\ ses[s].status = "CLOSED"
  /\ \A t \in Session : ses[t].prev # s
  /\ IndexFree(s, ses[s].counter)

\* assertReopenable: its hand-over is not received, nobody carries its float,
\* and no session is live on its counter.
Reopenable(s) ==
  /\ ses[s].status = "CLOSED"
  /\ moves[s]["CLOSE_HANDOVER"].receipt # "RECEIVED"
  /\ \A t \in Session : ses[t].prev # s
  /\ IndexFree(s, ses[s].counter)

ReopenBegin(r, s) ==
  /\ pc[r] = "idle" /\ sLock[s] = None
  /\ Reopenable(s) /\ ses[s].granted < MaxGrants[s]
  /\ sLock' = [sLock EXCEPT ![s] = r]
  /\ arg' = [arg EXCEPT ![r] = [NoArg EXCEPT !.s = s]]
  /\ pc' = [pc EXCEPT ![r] = "reopen"]
  /\ UNCHANGED <<rows, inflight, cLock>>

\* Mutant: the hand-over is voided and the posted variance forgotten.
Unwound_HandOver(s) == moves[s]["CLOSE_HANDOVER"].amt

\* What the reversals of the close put back into the till cash ledger.
Unwound(s) == moves[s]["CLOSE_HANDOVER"].amt - gap[s].amt

\* Mutant: the float left at the close stays on the row.
ReopenedRow_KeepsFloat(s) ==
  [ses[s] EXCEPT !.status = "COUNTING", !.counted = FALSE, !.cash = 0,
                 !.granted = @ + 1, !.pending = PendingReceive(s)]

\* reopen, the session row: neither the count nor its disposal stands.
ReopenedRow(s) ==
  [ses[s] EXCEPT !.status = "COUNTING", !.counted = FALSE, !.cash = 0, !.left = 0,
                 !.granted = @ + 1, !.pending = PendingReceive(s)]

\* reopen: the hand-over voided, the variance reversed, the count no longer
\* stands; the Z is kept.
ReopenCommit(r) ==
  LET s == arg[r].s IN
  /\ pc[r] = "reopen"
  /\ \/ ~IndexFree(s, ses[s].counter) /\ Rollback(r)
     \/ /\ IndexFree(s, ses[s].counter)
        /\ ses' = [ses EXCEPT ![s] = ReopenedRow(s)]
        /\ gap' = [gap EXCEPT ![s] = NoGap]
        /\ moves' = [moves EXCEPT ![s]["CLOSE_HANDOVER"] = NoMove]
        /\ till' = [till EXCEPT ![s] = @ + Unwound(s)]
        /\ awaiting' = awaiting - Waiting(moves[s]["CLOSE_HANDOVER"])
        /\ Done(r)
        /\ UNCHANGED <<bills, zLast, inflight>>

\* An exception or a lost connection.
Abort(r) == pc[r] # "idle" /\ Rollback(r)

-----------------------------------------------------------------------------
Alone(s) ==
  \/ Suspend(s) \/ Resume(s) \/ EndBilling(s)
  \/ BillCheck(s) \/ BillCommit(s) \/ BillFails(s)
  \/ \E k \in {"TOP_UP", "DROP"} : VoidMove(s, k) \/ \E amt \in Float : Move(s, k, amt)
  \/ \E n \in Cash : Count(s, n)
  \/ Approve(s) \/ Recount(s)
  \/ \E k \in {"DROP", "CLOSE_HANDOVER"} : DecideReceive(s, k) \/ \E n \in Cash : Receive(s, k, n)
  \/ \E total \in Cash, decided \in BOOLEAN : ApproveCash(s, total, decided)

Transaction(r) ==
  \/ \E s \in Session :
       \/ \E c \in Counter : OpenBegin(r, s, c)
       \/ Close(r, s) \/ ReopenBegin(r, s)
       \/ \E n \in Cash : ForceClose(r, s, n)
  \/ OpenCommit(r) \/ CloseCommit(r) \/ ReopenCommit(r) \/ Abort(r)

Next == (\E s \in Session : Alone(s)) \/ (\E r \in Req : Transaction(r))

Spec == Init /\ [][Next]_vars

-----------------------------------------------------------------------------
(* Properties. *)

Row == [status : Status, counter : Counter \cup {None}, prev : Session \cup {None},
        issued : Nat, float : Nat, attempts : Nat, granted : Nat, counted : BOOLEAN,
        cash : Nat, expected : Int, left : Nat, z : Nat, pending : BOOLEAN]
MoveRow == [amt : Nat, receipt : {"NONE", "AWAITING", "RECEIVED"}, diff : Int]

Gap == [st : {"NONE", "PENDING", "DECIDED", "POSTED"}, amt : Int, moved : Int]
Arg == [s : Session \cup {None}, row : Row, gap : Gap, left : Nat, z : Nat]

\* The rows, ledgers and requests have their types, and a row obeys
\* ck_tss_disposal: the float left of a closed session is part of what was
\* counted.
TypeOK ==
  /\ ses \in [Session -> Row] /\ gap \in [Session -> Gap] /\ moves \in [Session -> [Kind -> MoveRow]]
  /\ \A s \in Session : ses[s].left <= ses[s].cash
  /\ bills \in [Session -> Nat] /\ inflight \in [Session -> Nat]
  /\ \A s \in Session : bills[s] + inflight[s] <= MaxBills[s]
  /\ till \in [Session -> Int] /\ awaiting \in Int /\ zLast \in [Counter -> Nat]
  /\ sLock \in [Session -> Req \cup {None}] /\ cLock \in [Counter -> Req \cup {None}]
  /\ pc \in [Req -> {"idle", "open", "close", "reopen"}] /\ arg \in [Req -> Arg]

\* The till cash ledger of a session, with the float it carried.
DrawerBook(s) == till[s] + (IF ses[s].prev = None THEN 0 ELSE ses[s].issued)

\* The books hold what the drawer should: until the close the ledger of a
\* session is its expected cash, and once it is CLOSED the ledger holds the
\* float left and the bills that came after the count, however often the
\* session was counted, decided, closed and reopened (closeIn posts the
\* variance and the hand-over, reopen mirrors both).
DrawerTies ==
  \A s \in Session : ses[s].status # "NONE" =>
    DrawerBook(s) = IF ses[s].status = "CLOSED"
                    THEN ses[s].left + Expected(s) - ses[s].expected
                    ELSE Expected(s)

\* A count that stands was judged against the movements that stand: none is
\* added or voided behind it (the check of tssCloseCountId in void), until a
\* recount or a reopen takes the count back.
CountStands ==
  \A s \in Session : ses[s].counted => gap[s].moved = Moved(s)

\* Cash awaiting receipt is exactly the bags that wait and the differences
\* nobody decided: a bag is received or taken back, never both (receive,
\* approveCash, void and reopen under the session's lock).
AwaitingTies ==
  awaiting =
    SumFunction([x \in Session \X Kind |-> Waiting(moves[x[1]][x[2]]) - moves[x[1]][x[2]].diff])

\* tss_variance_status is PENDING exactly while a variance of the session, of
\* either stage, waits for a decision (countIn, decideVariance, decideReceive,
\* receive, approveCash and reopen each set it).
PendingTells ==
  \A s \in Session : ses[s].pending <=> AnyPending(s)

\* One drawer per counter: a session that is live or waits for an approver
\* holds its counter alone (the comments on HOLDING_SESSION_STATUSES and
\* assertCounterFree; reopen is "refused while ... the counter is busy").
OneDrawer ==
  \A s, t \in Session :
    (s # t /\ ses[s].status \in Holding /\ ses[t].status \in Holding) =>
      ses[s].counter # ses[t].counter

=============================================================================
