------------------------------ MODULE Loyalty -------------------------------
(***************************************************************************)
(* The points of one wallet: LoyaltyLedgerService, called from the post,   *)
(* cancel, amend and re-tender of bills, from sale returns, and from the   *)
(* Loyalty Status screen (adjust, close by force, reopen).                 *)
(*                                                                         *)
(* Points are rows of loyalty_ledger; a positive EARN or ADJUST row is a   *)
(* lot, and a draw names its lot.  Two caches stand beside the rows:       *)
(* lld_consumed_points on a lot and the balance on the wallet.  One        *)
(* writer inserts rows and recomputes both.  A draw locks the wallet row   *)
(* FOR UPDATE first; an earn and a reversal lock nothing, but the foreign  *)
(* key of the row they insert takes KEY SHARE on the wallet.  At READ      *)
(* COMMITTED an UPDATE computes its sums from the statement's snapshot     *)
(* and may then wait for the row it writes, so the sum and the write are   *)
(* two steps here.  A step that only takes a lock and writes what nobody   *)
(* else sees yet is joined to the read that follows it: run earlier, it    *)
(* could only have kept others waiting longer.                             *)
(*                                                                         *)
(* The wallet's five buckets are kept as their total, the balance.  The    *)
(* document row lock (one request on a bill or a return at a time) makes   *)
(* the unique indexes on the ledger idle, and expiryRun has no caller.     *)
(***************************************************************************)
EXTENDS Integers, FiniteSets, FiniteSetsExt, Sequences

CONSTANTS
  Bill,      \* bills of the member, numbered in the FIFO order of their lots
  Earn,      \* points the scheme awards each bill
  Cooling,   \* bills whose lot is inside its cooling period (lld_active_from)
  Spend,     \* points the loyalty tenders of each bill may redeem; 0: no tender
  Give,      \* points an adjustment may carry, of either sign
  Op,        \* the operations requests may ask for
  MaxWork,   \* bound: requests that commit, reopening the wallet apart
  MaxAdjs,   \* bound: adjustments and forced closes
  Req, None

Ops == {"post", "cancel", "amend", "retender", "return", "unreturn", "adjust", "close", "reopen"}
Key == {"bill", "ret", "adj"} \X Nat \X {"EARN", "REDEEM", "EXPIRE", "ADJUST"} \X Nat

ASSUME BillAssumption == Bill \subseteq Nat \ {0} /\ Cooling \subseteq Bill
ASSUME PointsAssumption == Earn \in [Bill -> Nat] /\ Spend \in [Bill -> SUBSET Nat] /\ Give \subseteq Int \ {0}
ASSUME OpAssumption == Op \subseteq Ops
ASSUME BoundAssumption == MaxWork \in Nat /\ MaxAdjs \in Nat
ASSUME RequestAssumption == IsFiniteSet(Req) /\ None \notin Req /\ None \notin Int /\ None \notin Key

VARIABLES
  ledger,    \* committed rows: key -> points, lot drawn on, row reversed, lld_consumed_points
  wallet,    \* lmb_balance_points
  closed,    \* lmb_status is CLOSED
  bills,     \* NONE, POSTED or CANCELLED
  work,      \* requests committed so far
  returns,   \* the return of a bill: NONE, POSTED or CANCELLED
  adjs,      \* adjustment documents so far
  memLock,   \* holder of FOR UPDATE on the wallet row
  memShare,  \* holders of KEY SHARE, through the foreign key of an insert
  memWrite,  \* holder of the wallet row by an UPDATE
  lotWrite,  \* lot rows held by an UPDATE, and by whom
  pc,
  jobs,      \* the ledger calls the transaction has still to make
  arg,       \* the document and the points of the request
  mine,      \* its uncommitted rows
  used,      \* the lld_consumed_points it wrote
  memo,      \* what the statement under way has computed
  purse      \* the balance it wrote, or None

rows == <<ledger, wallet, closed, bills, work, returns, adjs>>
locks == <<memLock, memShare, memWrite, lotWrite>>
txs == <<jobs, arg, mine, used, memo, purse>>
vars == <<rows, locks, pc, txs>>

NoRows == [k \in {} |-> 0]
NoArg == [op |-> "post", kind |-> "bill", id |-> 0, pts |-> 0]

-----------------------------------------------------------------------------
(* Rows.  A key is <<document kind, document, lld_txn_type, lld_row_no>>. *)

Row(pts, lot, of) == [pts |-> pts, lot |-> lot, of |-> of, used |-> 0]

Total(led) == SumFunction([k \in DOMAIN led |-> led[k].pts])

\* Rows with others laid over them.
Over(new, old) ==
  [k \in DOMAIN new \cup DOMAIN old |-> IF k \in DOMAIN new THEN new[k] ELSE old[k]]

\* Rows with the lld_consumed_points a transaction has written over them.
Updated(led, new) ==
  [k \in DOMAIN led |-> IF k \in DOMAIN new THEN [led[k] EXCEPT !.used = new[k]] ELSE led[k]]

\* What the statements of r see: the committed rows, its own, and its writes.
Visible(r) == Updated(Over(mine[r], ledger), used[r])

SeenWallet(r) == IF purse[r] = None THEN wallet ELSE purse[r]

\* LOYALTY_LOT_TXN_TYPES and lld_points > 0 (the generated lot balance).
IsLot(led, k) == k[3] \in {"EARN", "ADJUST"} /\ led[k].pts > 0
Balance(led, k) == led[k].pts - led[k].used
BalanceOf(led, S) == SumFunction([k \in S |-> Balance(led, k)])

\* The one FIFO order: earned lots first, what never lapses last.
Older(j, k) ==
  \/ j[1] = "bill" /\ k[1] # "bill"
  \/ j[1] = k[1] /\ (j[2] < k[2] \/ (j[2] = k[2] /\ j[4] < k[4]))

OpenLots(led) == {k \in DOMAIN led : IsLot(led, k) /\ Balance(led, k) > 0}

\* lots: the lots that may be spent today.
Lots(led) == {k \in OpenLots(led) : ~(k[1] = "bill" /\ k[2] \in Cooling)}

Redeemable(led) == BalanceOf(led, Lots(led))

\* maxRowNos: a document's rows of a type go on being numbered.
LastNo(led, kind, id, type) ==
  Max({0} \cup {k[4] : k \in {x \in DOMAIN led : x[1] = kind /\ x[2] = id /\ x[3] = type}})

\* The new rows, one for each of some old ones, numbered in their order.
Numbered(led, kind, id, type, new) ==
  LET last == LastNo(led, kind, id, type)
      no == [x \in DOMAIN new |-> last + 1 + Cardinality({y \in DOMAIN new : Older(y, x)})]
  IN  [k \in {<<kind, id, type, no[x]>> : x \in DOMAIN new} |->
         new[CHOOSE x \in DOMAIN new : no[x] = k[4]]]

\* What each lot gives of the points wanted, the oldest first.
Share(led, points) ==
  [k \in Lots(led) |->
     Min({Balance(led, k), points - BalanceOf(led, {j \in Lots(led) : Older(j, k)})})]

\* Mutant: the walk over the lots does not stop when the points are found.
Draws_AnyLot(led, kind, id, type, points) ==
  Numbered(led, kind, id, type, [k \in Lots(led) |-> Row(0 - Share(led, points)[k], k, None)])

\* consume, steps 5 and 6: one row per lot, in FIFO order.
Draws(led, kind, id, type, points) ==
  LET drawn == {k \in Lots(led) : Share(led, points)[k] > 0}
  IN  Numbered(led, kind, id, type, [k \in drawn |-> Row(0 - Share(led, points)[k], k, None)])

\* Rows of a document that reverse nothing and that nothing reverses yet.
Originals(led, kind, id) ==
  {k \in DOMAIN led : /\ k[1] = kind /\ k[2] = id /\ led[k].of = None
                      /\ \A j \in DOMAIN led : led[j].of # k}

\* The points of a redemption come back into their lot.
Restored(led, kind, id) ==
  LET S == {k \in Originals(led, kind, id) : k[3] = "REDEEM"}
  IN  Numbered(led, kind, id, "REDEEM", [k \in S |-> Row(0 - led[k].pts, led[k].lot, k)])

\* An award is taken back as far as its lot still holds it.
Unearned(led, kind, id) ==
  LET take(k) == Min({led[k].pts, Balance(led, k)})
      S == {k \in Originals(led, kind, id) : k[3] = "EARN" /\ take(k) > 0}
  IN  Numbered(led, kind, id, "EARN", [k \in S |-> Row(0 - take(k), None, k)])

\* Mutant: a cancel takes back the award and forgets the redemption.
Reversal_EarnOnly(led, kind, id) == Unearned(led, kind, id)

\* reverseForCancel: awards are taken back and redemptions given back; rows of
\* other types are passed over.
Reversal(led, kind, id) == Over(Unearned(led, kind, id), Restored(led, kind, id))

\* drain: every open lot, and one row without a lot for what is left over.
Drained(led, bal, id) ==
  LET S == OpenLots(led)
      rest == bal - BalanceOf(led, S)
      last == <<"adj", id, "ADJUST", Cardinality(S) + 1>>
  IN  Over(Numbered(led, "adj", id, "ADJUST", [k \in S |-> Row(0 - Balance(led, k), k, None)]),
           [k \in IF rest = 0 THEN {} ELSE {last} |-> Row(0 - rest, None, None)])

\* Mutant: the lots a write drew on keep their old balance.
Touched_None(new) == {}

\* writeLedgerRows: the lots its rows drew on, or took back.
Touched(new) ==
  {new[k].lot : k \in DOMAIN new} \cup {new[k].of : k \in {j \in DOMAIN new : j[3] = "EARN"}}

\* recomputeLots: the negated sum of the rows that draw on a lot or reverse it.
Consumed(led, lot) ==
  0 - SumFunction([k \in {j \in DOMAIN led : led[j].lot = lot \/ led[j].of = lot} |-> led[k].pts])

-----------------------------------------------------------------------------
Init ==
  /\ ledger = NoRows /\ wallet = 0 /\ closed = FALSE
  /\ bills = [b \in Bill |-> "NONE"] /\ work = 0
  /\ returns = [b \in Bill |-> "NONE"] /\ adjs = 0
  /\ memLock = None /\ memShare = {} /\ memWrite = None /\ lotWrite = NoRows
  /\ pc = [r \in Req |-> "idle"]
  /\ jobs = [r \in Req |-> <<>>] /\ arg = [r \in Req |-> NoArg]
  /\ mine = [r \in Req |-> NoRows] /\ used = [r \in Req |-> NoRows]
  /\ memo = [r \in Req |-> 0] /\ purse = [r \in Req |-> None]

\* The row lock of the document keeps other requests off it.
Free(kind, id) == \A r \in Req : pc[r] = "idle" \/ arg[r].kind # kind \/ arg[r].id # id

\* Where the next call of a transaction begins; after the last one it commits.
Start(calls) ==
  IF calls = <<>> THEN "commit" ELSE IF Head(calls) = "clawback" THEN "look" ELSE "plan"

Arrive(r, op, kind, id, pts, calls) ==
  /\ op \in Op /\ (work < MaxWork \/ op = "reopen")
  /\ pc[r] = "idle" /\ Free(kind, id)
  /\ pc' = [pc EXCEPT ![r] = Start(calls)]
  /\ jobs' = [jobs EXCEPT ![r] = calls]
  /\ arg' = [arg EXCEPT ![r] = [op |-> op, kind |-> kind, id |-> id, pts |-> pts]]
  /\ UNCHANGED <<locks, mine, used, memo, purse>>

\* postCore, step 8: redeem what the tenders spent, then earn on the rest.
PostJobs(p, b) == (IF p > 0 THEN <<"redeem">> ELSE <<>>) \o (IF Earn[b] > 0 THEN <<"earn">> ELSE <<>>)

PostRequest(r, b, p) ==
  /\ bills[b] = "NONE"
  /\ Arrive(r, "post", "bill", b, p, PostJobs(p, b))
  /\ UNCHANGED rows

\* assertCancellable: a return that stands locks the bill.
Unwindable(b) == bills[b] = "POSTED" /\ returns[b] # "POSTED"

CancelRequest(r, b) ==
  /\ Unwindable(b)
  /\ Arrive(r, "cancel", "bill", b, 0, <<"reverse">>)
  /\ UNCHANGED rows

\* amend: unwind and post again in one transaction.
AmendRequest(r, b, p) ==
  /\ Unwindable(b)
  /\ Arrive(r, "amend", "bill", b, p, <<"reverse">> \o PostJobs(p, b))
  /\ UNCHANGED rows

RetenderRequest(r, b) ==
  /\ bills[b] = "POSTED"
  /\ Arrive(r, "retender", "bill", b, 0, <<"unredeem">>)
  /\ UNCHANGED rows

\* The return of part of a bill wants part of its points back.
ReturnRequest(r, b) ==
  /\ bills[b] = "POSTED" /\ returns[b] = "NONE"
  /\ \E want \in 1..Earn[b] : Arrive(r, "return", "ret", b, want, <<"clawback">>)
  /\ UNCHANGED rows

UnreturnRequest(r, b) ==
  /\ returns[b] = "POSTED"
  /\ Arrive(r, "unreturn", "ret", b, 0, <<"reverse">>)
  /\ UNCHANGED rows

\* An adjustment and a forced close each make a document of their own.
AdjustRequest(r, p) ==
  /\ adjs < MaxAdjs
  /\ Arrive(r, "adjust", "adj", adjs + 1, p, <<IF p > 0 THEN "give" ELSE "takeBack">>)
  /\ adjs' = adjs + 1
  /\ UNCHANGED <<ledger, wallet, closed, bills, work, returns>>

CloseRequest(r) ==
  /\ adjs < MaxAdjs
  /\ Arrive(r, "close", "adj", adjs + 1, 0, <<"drain">>)
  /\ adjs' = adjs + 1
  /\ UNCHANGED <<ledger, wallet, closed, bills, work, returns>>

\* setStatus ACTIVE: locks the wallet and writes no rows.
ReopenRequest(r) ==
  /\ Arrive(r, "reopen", "adj", 0, 0, <<"hold">>)
  /\ UNCHANGED rows

-----------------------------------------------------------------------------
(* The transaction. *)

Locking == {"redeem", "takeBack", "give", "drain", "hold", "claw"}

Go(r, step) == pc' = [pc EXCEPT ![r] = step]

\* Locks are released and the uncommitted writes forgotten.
Release(r) ==
  /\ memLock' = IF memLock = r THEN None ELSE memLock
  /\ memShare' = memShare \ {r}
  /\ memWrite' = IF memWrite = r THEN None ELSE memWrite
  /\ lotWrite' = [k \in {j \in DOMAIN lotWrite : lotWrite[j] # r} |-> lotWrite[k]]
  /\ Go(r, "idle")
  /\ jobs' = [jobs EXCEPT ![r] = <<>>]
  /\ arg' = [arg EXCEPT ![r] = NoArg]
  /\ mine' = [mine EXCEPT ![r] = NoRows]
  /\ used' = [used EXCEPT ![r] = NoRows]
  /\ memo' = [memo EXCEPT ![r] = 0]
  /\ purse' = [purse EXCEPT ![r] = None]

Rollback(r) == Release(r) /\ UNCHANGED rows

\* clawbackForReturn: what is left is read before the wallet is locked.
LookForClawback(r) ==
  /\ pc[r] = "look"
  /\ LET take == Min({arg[r].pts, Redeemable(Visible(r))}) IN
     /\ arg' = [arg EXCEPT ![r].pts = take]
     /\ jobs' = [jobs EXCEPT ![r] = IF take > 0 THEN <<"claw">> ELSE <<>>]
     /\ Go(r, IF take > 0 THEN "plan" ELSE "commit")
  /\ UNCHANGED <<rows, locks, mine, used, memo, purse>>

\* Mutant: SKIP LOCKED, or no lock at all.
WalletFree_NoWait(r) == TRUE

\* SELECT ... FOR UPDATE on the wallet waits for every other holder.
WalletFree(r) == memLock \in {None, r} /\ memWrite \in {None, r} /\ memShare \subseteq {r}

\* consume refuses more than redeemable(); a closed
\* wallet is neither adjusted nor closed, an open one not reopened.
Refused(r, led) ==
  \/ Head(jobs[r]) \in {"redeem", "claw"} /\ Redeemable(led) < arg[r].pts
  \/ Head(jobs[r]) = "takeBack" /\ Redeemable(led) < 0 - arg[r].pts
  \/ arg[r].op \in {"adjust", "close"} /\ closed
  \/ arg[r].op = "reopen" /\ ~closed

\* The rows the call will insert, from what its statements read.
Planned(r, led) ==
  LET a == arg[r] IN
  CASE Head(jobs[r]) = "redeem" -> Draws(led, a.kind, a.id, "REDEEM", a.pts)
    [] Head(jobs[r]) = "claw" -> Draws(led, a.kind, a.id, "EXPIRE", a.pts)
    [] Head(jobs[r]) = "takeBack" -> Draws(led, a.kind, a.id, "ADJUST", 0 - a.pts)
    [] Head(jobs[r]) = "give" -> [k \in {<<a.kind, a.id, "ADJUST", 1>>} |-> Row(a.pts, None, None)]
    [] Head(jobs[r]) = "earn" ->
         [k \in {<<a.kind, a.id, "EARN", LastNo(led, a.kind, a.id, "EARN") + 1>>} |->
            Row(Earn[a.id], None, None)]
    [] Head(jobs[r]) = "reverse" -> Reversal(led, a.kind, a.id)
    [] Head(jobs[r]) = "unredeem" -> Restored(led, a.kind, a.id)
    [] Head(jobs[r]) = "drain" ->
         IF SeenWallet(r) = 0 THEN NoRows ELSE Drained(led, SeenWallet(r), a.id)
    [] OTHER -> NoRows

\* The call locks the wallet if it draws, reads, and plans its rows; with
\* nothing to write it returns.
Plan(r) ==
  LET led == Visible(r)
      locking == Head(jobs[r]) \in Locking
  IN
  /\ pc[r] = "plan"
  /\ locking => WalletFree(r)
  /\ \/ Refused(r, led) /\ Rollback(r)
     \/ /\ ~Refused(r, led)
        /\ memLock' = IF locking THEN r ELSE memLock
        /\ IF DOMAIN Planned(r, led) = {}
           THEN /\ jobs' = [jobs EXCEPT ![r] = Tail(@)]
                /\ Go(r, Start(Tail(jobs[r])))
                /\ UNCHANGED memo
           ELSE /\ memo' = [memo EXCEPT ![r] = Planned(r, led)]
                /\ Go(r, "insert")
                /\ UNCHANGED jobs
        /\ UNCHANGED <<rows, memShare, memWrite, lotWrite, arg, mine, used, purse>>

\* writeLedgerRows inserts: the foreign key takes KEY SHARE on the wallet and
\* waits for a FOR UPDATE of another transaction.  recomputeLots then sums the
\* lots the rows drew on; with none, recomputeMembers sums the wallet.
Insert(r) ==
  LET all == Over(Over(memo[r], mine[r]), ledger)
      lots == Touched(memo[r]) \ {None}
  IN
  /\ pc[r] = "insert" /\ memLock \in {None, r}
  /\ memShare' = memShare \cup {r}
  /\ mine' = [mine EXCEPT ![r] = Over(memo[r], @)]
  /\ memo' = [memo EXCEPT ![r] = IF lots = {} THEN Total(all) ELSE [k \in lots |-> Consumed(all, k)]]
  /\ Go(r, IF lots = {} THEN "setWallet" ELSE "setLots")
  /\ UNCHANGED <<rows, memLock, memWrite, lotWrite, jobs, arg, used, purse>>

\* The sums of the lots are written when their rows are free, and the wallet
\* is summed from the rows committed by then.
SetLots(r) ==
  /\ pc[r] = "setLots"
  /\ \A k \in DOMAIN memo[r] \cap DOMAIN lotWrite : lotWrite[k] = r
  /\ lotWrite' = Over([k \in DOMAIN memo[r] |-> r], lotWrite)
  /\ used' = [used EXCEPT ![r] = Over(memo[r], @)]
  /\ memo' = [memo EXCEPT ![r] = Total(Over(mine[r], ledger))]
  /\ Go(r, "setWallet")
  /\ UNCHANGED <<rows, memLock, memShare, memWrite, jobs, arg, mine, purse>>

\* The wallet is written when its row is free.
SetWallet(r) ==
  /\ pc[r] = "setWallet"
  /\ memLock \in {None, r} /\ memWrite \in {None, r}
  /\ memWrite' = r
  /\ purse' = [purse EXCEPT ![r] = memo[r]]
  /\ jobs' = [jobs EXCEPT ![r] = Tail(@)]
  /\ memo' = [memo EXCEPT ![r] = 0]
  /\ Go(r, Start(Tail(jobs[r])))
  /\ UNCHANGED <<rows, memLock, memShare, lotWrite, arg, mine, used>>

\* The document's own status, last.
Commit(r) ==
  LET a == arg[r] IN
  /\ pc[r] = "commit"
  /\ ledger' = Visible(r)
  /\ wallet' = SeenWallet(r)
  /\ closed' = CASE a.op = "close" -> TRUE [] a.op = "reopen" -> FALSE [] OTHER -> closed
  /\ bills' = IF a.op \in {"post", "cancel"}
              THEN [bills EXCEPT ![a.id] = IF a.op = "post" THEN "POSTED" ELSE "CANCELLED"]
              ELSE bills
  /\ work' = IF a.op = "reopen" THEN work ELSE work + 1
  /\ returns' = IF a.op \in {"return", "unreturn"}
                THEN [returns EXCEPT ![a.id] = IF a.op = "return" THEN "POSTED" ELSE "CANCELLED"]
                ELSE returns
  /\ Release(r)
  /\ UNCHANGED adjs

\* An exception, a lost connection, or the victim of PostgreSQL's deadlock
\* detector: an amend that shares the wallet with another insert and then
\* wants it FOR UPDATE can meet one.
Abort(r) == pc[r] # "idle" /\ Rollback(r)

-----------------------------------------------------------------------------
Arrival(r) ==
  \/ \E b \in Bill :
       \/ \E p \in Spend[b] : PostRequest(r, b, p) \/ AmendRequest(r, b, p)
       \/ CancelRequest(r, b) \/ RetenderRequest(r, b)
       \/ ReturnRequest(r, b) \/ UnreturnRequest(r, b)
  \/ \E p \in Give : AdjustRequest(r, p)
  \/ CloseRequest(r) \/ ReopenRequest(r)

Advance(r) ==
  \/ LookForClawback(r) \/ Plan(r) \/ Insert(r) \/ SetLots(r) \/ SetWallet(r) \/ Commit(r)

Next == \E r \in Req : Arrival(r) \/ Advance(r) \/ Abort(r)

Spec == Init /\ [][Next]_vars

-----------------------------------------------------------------------------
(* Properties. *)

Pc == {"idle", "look", "plan", "insert", "setLots", "setWallet", "commit"}
LedgerRow == [pts : Int, lot : Key \cup {None}, of : Key \cup {None}, used : Int]

\* The rows, the wallet and the requests have their types, and a row obeys
\* ck_lld_sign and ck_lld_points_nonzero: an award is positive and a draw
\* negative, unless it is a reversal.
TypeOK ==
  /\ \A k \in DOMAIN ledger : k \in Key /\ ledger[k] \in LedgerRow /\ ledger[k].pts # 0
  /\ \A k \in DOMAIN ledger :
       /\ k[3] = "EARN" => ((ledger[k].of = None) <=> (ledger[k].pts > 0))
       /\ k[3] \in {"REDEEM", "EXPIRE"} => ((ledger[k].of = None) <=> (ledger[k].pts < 0))
  /\ wallet \in Int /\ closed \in BOOLEAN
  /\ bills \in [Bill -> {"NONE", "POSTED", "CANCELLED"}] /\ work \in 0..(MaxWork + Cardinality(Req))
  /\ returns \in [Bill -> {"NONE", "POSTED", "CANCELLED"}] /\ adjs \in 0..MaxAdjs
  /\ memLock \in Req \cup {None} /\ memWrite \in Req \cup {None} /\ memShare \subseteq Req
  /\ pc \in [Req -> Pc] /\ purse \in [Req -> Int \cup {None}]

\* No point is spent twice: what tills, returns and the screen drew from a lot,
\* less what was given back, never exceeds the lot, whichever earns, cancels
\* and re-tenders run beside them (the FOR UPDATE of consume, and the lot
\* balance recomputed before the transaction ends).
SpentWithinEarned ==
  \A lot \in DOMAIN ledger : IsLot(ledger, lot) =>
    0 - SumFunction([k \in {j \in DOMAIN ledger : ledger[j].lot = lot} |-> ledger[k].pts])
      <= ledger[lot].pts

\* A cancelled bill has spent nothing: the rows of its redemptions net to
\* zero, amended and re-tendered before or not (reverseForCancel, reversedIds).
CancelledSpentNothing ==
  \A b \in Bill : bills[b] = "CANCELLED" =>
    SumFunction([k \in {j \in DOMAIN ledger : j[1] = "bill" /\ j[2] = b /\ j[3] = "REDEEM"}
                   |-> ledger[k].pts]) = 0

\* A draw leaves the wallet and the lots it drew on exactly as the rows say,
\* and so repairs what two earns that ran together had lost (recomputeMembers
\* and recomputeLots behind the FOR UPDATE of consume and lockMember).
DrawLeavesExact ==
  [][\A r \in Req :
       (memLock = r /\ memLock' = None /\ DOMAIN mine[r] # {} /\ ledger' # ledger) =>
         /\ wallet' = Total(ledger')
         /\ \A k \in DOMAIN mine[r] :
              (mine[r][k].lot # None /\ mine[r][k].of = None) =>
                ledger'[mine[r][k].lot].used = Consumed(ledger', mine[r][k].lot)]_vars

=============================================================================
