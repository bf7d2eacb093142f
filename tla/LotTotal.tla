------------------------------ MODULE LotTotal ------------------------------
(***************************************************************************)
(* slt_total_on_hand: a lot's total over every branch, and its ACTIVE or   *)
(* CLOSED status, rebuilt at the end of every post and every cancel        *)
(* (refreshLotTotals) and by the repair of StockAdminService               *)
(* (rebuildStockDerivedFigures).                                           *)
(*                                                                         *)
(* One lot is modelled.  The advisory lock is per branch, so documents of  *)
(* two branches rebuild the same total at the same time.  The UPDATE sums  *)
(* the balances its snapshot shows, waits for the lot row if another       *)
(* transaction has written it, and then tests and sets the row it finds    *)
(* from the sum it already has: READ COMMITTED does not sum again.         *)
(***************************************************************************)
EXTENDS Integers, FiniteSets, Functions

CONSTANTS
  Branch,
  Move,     \* ledger movements of the lot
  At, Qty,  \* their branch, and what they add
  Scope,    \* the sets of branches a rebuild may be asked for
  Held,     \* branches with ledger rows of the lot at the start
  Opening,  \* the lot in each branch at the start
  Req, None

ASSUME BranchAssumption == IsFiniteSet(Branch)
ASSUME MoveAssumption == At \in [Move -> Branch] /\ Qty \in [Move -> Int]
ASSUME ScopeAssumption == Scope \subseteq SUBSET Branch /\ Held \subseteq Branch
ASSUME OpeningAssumption == Opening \in [Branch -> Int]
ASSUME NoneAssumption == None \notin Req \cup Move

VARIABLES
  onHand,    \* Σ sbl_on_hand_qty of the lot, per branch
  done,      \* movements that have landed
  lot,       \* the stock_lot row: total and status
  itemLock, lotLock,
  pc, move,  \* step of a request, and the movement it posts, if any
  scope,     \* the branches whose item lock it takes
  sum,       \* the total its UPDATE computed
  row        \* the lot row it wrote, not yet committed

rows == <<onHand, done, lot>>
locks == <<itemLock, lotLock>>
reqs == <<pc, move, scope, sum, row>>
vars == <<rows, locks, reqs>>

LotRow == [total : Int, status : {"ACTIVE", "CLOSED", "BLOCKED"}]
NoLot == [total |-> 0, status |-> "CLOSED"]

\* The branch's balance as the transaction of r leaves it.
After(r, b) == onHand[b] + (IF move[r] \in Move /\ At[move[r]] = b THEN Qty[move[r]] ELSE 0)

\* Branches with committed ledger rows: the repair finds no others to lock.
Stocked == Held \cup {At[m] : m \in done}

\* Mutants: a status the column does not know, and a CLOSED lot that no total
\* reopens.
Rewritten_Empty(rw, t) ==
  [total |-> t, status |-> IF t <= 0 /\ rw.status = "ACTIVE" THEN "EMPTY" ELSE rw.status]
Rewritten_NoReopen(rw, t) ==
  [total |-> t, status |-> IF t <= 0 /\ rw.status = "ACTIVE" THEN "CLOSED" ELSE rw.status]

\* rebuildLotTotals, SET: the status follows the total, a BLOCKED lot stays.
Rewritten(rw, t) ==
  [total |-> t,
   status |-> IF t <= 0 /\ rw.status = "ACTIVE" THEN "CLOSED"
              ELSE IF t > 0 /\ rw.status = "CLOSED" THEN "ACTIVE" ELSE rw.status]

\* Its WHERE: the row is written only when it changes.
Stale(rw, t) == rw # Rewritten(rw, t)

-----------------------------------------------------------------------------
Init ==
  /\ onHand = Opening
  /\ done = {}
  /\ lot \in {Rewritten([total |-> 0, status |-> s], SumFunction(Opening)) : s \in {"ACTIVE", "BLOCKED"}}
  /\ itemLock = [b \in Branch |-> None]
  /\ lotLock = None
  /\ pc = [r \in Req |-> "idle"]
  /\ move = [r \in Req |-> None]
  /\ scope = [r \in Req |-> {}]
  /\ sum = [r \in Req |-> 0]
  /\ row = [r \in Req |-> NoLot]

\* A document of one branch posts or cancels; a movement lands once.
Post(r, m) ==
  /\ pc[r] = "idle" /\ m \notin done /\ \A q \in Req : move[q] # m
  /\ pc' = [pc EXCEPT ![r] = "lock"]
  /\ move' = [move EXCEPT ![r] = m]
  /\ scope' = [scope EXCEPT ![r] = {At[m]}]
  /\ UNCHANGED <<rows, locks, sum, row>>

\* The repair, for some branches or for all.
Rebuild(r, s) ==
  /\ pc[r] = "idle"
  /\ pc' = [pc EXCEPT ![r] = "lock"]
  /\ scope' = [scope EXCEPT ![r] = s \cap Stocked]
  /\ UNCHANGED <<rows, locks, move, sum, row>>

\* lockHoldingItems, over the branches in scope.
LockItem(r) ==
  /\ pc[r] = "lock"
  /\ \E b \in scope[r] :
       /\ itemLock[b] = None
       /\ itemLock' = [itemLock EXCEPT ![b] = r]
  /\ UNCHANGED <<rows, lotLock, reqs>>

\* Mutant: the total is summed before the item locks are there.
Derive_NoWait(r) ==
  LET t == SumFunction([b \in Branch |-> After(r, b)]) IN
  /\ pc[r] = "lock"
  /\ sum' = [sum EXCEPT ![r] = t]
  /\ row' = [row EXCEPT ![r] = lot]
  /\ pc' = [pc EXCEPT ![r] = IF Stale(lot, t) THEN "update" ELSE "commit"]
  /\ UNCHANGED <<rows, locks, move, scope>>

\* The balances are rebuilt and the total summed over what the snapshot shows:
\* the other branches as committed, this transaction's own writes on top.
Derive(r) ==
  LET t == SumFunction([b \in Branch |-> After(r, b)]) IN
  /\ pc[r] = "lock"
  /\ \A b \in scope[r] : itemLock[b] = r
  /\ sum' = [sum EXCEPT ![r] = t]
  /\ row' = [row EXCEPT ![r] = lot]
  /\ pc' = [pc EXCEPT ![r] = IF Stale(lot, t) THEN "update" ELSE "commit"]
  /\ UNCHANGED <<rows, locks, move, scope>>

\* The row lock is granted; WHERE and SET see the row as it is now.
Update(r) ==
  /\ pc[r] = "update" /\ lotLock = None
  /\ lotLock' = IF Stale(lot, sum[r]) THEN r ELSE None
  /\ row' = [row EXCEPT ![r] = Rewritten(lot, sum[r])]
  /\ pc' = [pc EXCEPT ![r] = "commit"]
  /\ UNCHANGED <<rows, itemLock, move, scope, sum>>

Release(r) ==
  /\ itemLock' = [b \in Branch |-> IF itemLock[b] = r THEN None ELSE itemLock[b]]
  /\ lotLock' = IF lotLock = r THEN None ELSE lotLock
  /\ pc' = [pc EXCEPT ![r] = "idle"]
  /\ move' = [move EXCEPT ![r] = None]
  /\ scope' = [scope EXCEPT ![r] = {}]
  /\ sum' = [sum EXCEPT ![r] = 0]
  /\ row' = [row EXCEPT ![r] = NoLot]

Commit(r) ==
  /\ pc[r] = "commit"
  /\ onHand' = [b \in Branch |-> After(r, b)]
  /\ lot' = IF lotLock = r THEN row[r] ELSE lot
  /\ done' = done \cup ({move[r]} \cap Move)
  /\ Release(r)

\* A refusal, an exception, a deadlock victim or a crash.
Abort(r) == pc[r] # "idle" /\ Release(r) /\ UNCHANGED rows

Next ==
  \E r \in Req :
    \/ \E m \in Move : Post(r, m)
    \/ \E s \in Scope : Rebuild(r, s)
    \/ LockItem(r) \/ Derive(r) \/ Update(r) \/ Commit(r) \/ Abort(r)

Spec == Init /\ [][Next]_vars

-----------------------------------------------------------------------------
(* Properties. *)

\* The lot row, the locks and the requests have their types.
TypeOK ==
  /\ onHand \in [Branch -> Int]
  /\ done \subseteq Move
  /\ lot \in LotRow
  /\ itemLock \in [Branch -> Req \cup {None}]
  /\ lotLock \in Req \cup {None}
  /\ pc \in [Req -> {"idle", "lock", "update", "commit"}]
  /\ move \in [Req -> Move \cup {None}]
  /\ scope \in [Req -> SUBSET Branch]
  /\ sum \in [Req -> Int]
  /\ row \in [Req -> LotRow]

\* A lot is CLOSED exactly when its stored total is not positive, unless
\* somebody blocked it: two rebuilds that wait for each other on the row leave
\* no ACTIVE lot with a total of nothing (the CASE of rebuildLotTotals).
StatusFollowsTotal ==
  /\ lot.status = "ACTIVE" => lot.total > 0
  /\ lot.status = "CLOSED" => lot.total <= 0

\* The stored total is the sum of the balances.
TotalIsSum == lot.total = SumFunction(onHand)

\* A transaction that holds every branch leaves the total exact, whatever
\* posts and branch-wide rebuilds run beside it (rebuildStockDerivedFigures,
\* which "serialises with posting").
FullRebuildRepairs ==
  [][\A r \in Req : Commit(r) /\ scope[r] = Branch => TotalIsSum']_vars

=============================================================================
