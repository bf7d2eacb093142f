--------------------------- MODULE LotTotalProofs ---------------------------
(***************************************************************************)
(* Proofs about LotTotal: the lot row keeps its type, its status follows   *)
(* its total, and a transaction that holds every branch leaves the total   *)
(* exact.                                                                  *)
(*                                                                         *)
(* The last one rests on the item locks: two transactions that have passed *)
(* their locks and that share a branch do not exist, so nothing is written *)
(* beside one that holds them all, provided the other holds one at all.  A *)
(* repair of branches without ledger rows locks nothing, and the theorem   *)
(* says that this is the only way round.                                   *)
(***************************************************************************)
EXTENDS LotTotal, SumLemmas

-----------------------------------------------------------------------------
(* Types. *)

\* Rewriting the lot row with an integer total gives a lot row.
LEMMA RewrittenType ==
  ASSUME NEW rw \in LotRow, NEW t \in Int
  PROVE  Rewritten(rw, t) \in LotRow
  BY DEF Rewritten, LotRow

\* The status of a rewritten row follows its total, whatever the row was.
LEMMA RewrittenFollows ==
  ASSUME NEW rw \in LotRow, NEW t \in Int
  PROVE  /\ Rewritten(rw, t).status = "ACTIVE" => Rewritten(rw, t).total > 0
         /\ Rewritten(rw, t).status = "CLOSED" => Rewritten(rw, t).total <= 0
  BY DEF Rewritten, LotRow

\* What a transaction leaves in the branches is a number in each.
LEMMA AfterType ==
  ASSUME TypeOK, NEW r \in Req
  PROVE  [b \in Branch |-> After(r, b)] \in [Branch -> Int]
<1>1. ASSUME NEW b \in Branch PROVE After(r, b) \in Int
  BY MoveAssumption DEF TypeOK, After
<1>2. QED BY <1>1

\* The total a transaction will see at its commit is a number.
LEMMA AfterSum ==
  ASSUME TypeOK, NEW r \in Req
  PROVE  SumFunction([b \in Branch |-> After(r, b)]) \in Int
  BY AfterType, SumType, BranchAssumption

\* The first states of the lot have their types.
LEMMA TypeInit ==
  Init => TypeOK
<1> SUFFICES ASSUME Init PROVE TypeOK
  OBVIOUS
<1>1. SumFunction(Opening) \in Int
  BY SumType, BranchAssumption, OpeningAssumption
<1>2. \A s \in {"ACTIVE", "BLOCKED"} : [total |-> 0, status |-> s] \in LotRow
  BY DEF LotRow
<1>3. lot \in LotRow
  <2>1. PICK s \in {"ACTIVE", "BLOCKED"} : lot = Rewritten([total |-> 0, status |-> s], SumFunction(Opening))
    BY DEF Init
  <2>2. QED BY <1>1, <1>2, <2>1, RewrittenType
<1>4. NoLot \in LotRow
  BY DEF NoLot, LotRow
<1>5. QED BY <1>3, <1>4, OpeningAssumption DEF Init, TypeOK

\* The end of a transaction keeps the types of what it releases.
LEMMA ReleaseType ==
  ASSUME TypeOK, NEW r \in Req, Release(r)
  PROVE  /\ itemLock' \in [Branch -> Req \cup {None}]
         /\ lotLock' \in Req \cup {None}
         /\ pc' \in [Req -> {"idle", "lock", "update", "commit"}]
         /\ move' \in [Req -> Move \cup {None}]
         /\ scope' \in [Req -> SUBSET Branch]
         /\ sum' \in [Req -> Int]
         /\ row' \in [Req -> LotRow]
<1>1. NoLot \in LotRow
  BY DEF NoLot, LotRow
<1>2. QED BY <1>1 DEF TypeOK, Release

\* Every step keeps the types.
LEMMA TypeStep ==
  TypeOK /\ [Next]_vars => TypeOK'
<1> SUFFICES ASSUME TypeOK, [Next]_vars PROVE TypeOK'
  OBVIOUS
<1>1. ASSUME NEW r \in Req, NEW m \in Move, Post(r, m) PROVE TypeOK'
  BY <1>1, MoveAssumption DEF TypeOK, Post, rows, locks
<1>2. ASSUME NEW r \in Req, NEW s \in Scope, Rebuild(r, s) PROVE TypeOK'
  <2>1. s \cap Stocked \in SUBSET Branch
    BY ScopeAssumption
  <2>2. QED BY <1>2, <2>1 DEF TypeOK, Rebuild, rows, locks
<1>3. ASSUME NEW r \in Req, LockItem(r) PROVE TypeOK'
  BY <1>3 DEF TypeOK, LockItem, rows, reqs
<1>4. ASSUME NEW r \in Req, Derive(r) PROVE TypeOK'
  <2> DEFINE t == SumFunction([b \in Branch |-> After(r, b)])
  <2>1. t \in Int
    BY AfterSum
  <2>2. sum' = [sum EXCEPT ![r] = t]
    BY <1>4 DEF Derive
  <2> HIDE DEF t
  <2>3. sum' \in [Req -> Int]
    BY <2>1, <2>2 DEF TypeOK
  <2>4. QED BY <1>4, <2>3 DEF TypeOK, Derive, rows, locks
<1>5. ASSUME NEW r \in Req, Update(r) PROVE TypeOK'
  <2>1. Rewritten(lot, sum[r]) \in LotRow
    BY RewrittenType DEF TypeOK
  <2>2. QED BY <1>5, <2>1 DEF TypeOK, Update, rows
<1>6. ASSUME NEW r \in Req, Commit(r) PROVE TypeOK'
  <2>1. onHand' \in [Branch -> Int]
    BY <1>6, AfterType DEF Commit
  <2>2. lot' \in LotRow /\ done' \subseteq Move
    BY <1>6 DEF Commit, TypeOK
  <2>3. QED BY <1>6, <2>1, <2>2, ReleaseType DEF Commit, TypeOK
<1>7. ASSUME NEW r \in Req, Abort(r) PROVE TypeOK'
  BY <1>7, ReleaseType DEF Abort, TypeOK, rows
<1>8. CASE UNCHANGED vars
  BY <1>8 DEF TypeOK, vars, rows, locks, reqs
<1>9. QED BY <1>1, <1>2, <1>3, <1>4, <1>5, <1>6, <1>7, <1>8 DEF Next

\* The lot row, the locks and the requests keep their types, for any branches,
\* movements and requests (stock_lot under rebuildLotTotals).
THEOREM LotTypes ==
  Spec => []TypeOK
<1>1. QED BY TypeInit, TypeStep, PTL DEF Spec

-----------------------------------------------------------------------------
(* The status. *)

Follows(rw) ==
  /\ rw.status = "ACTIVE" => rw.total > 0
  /\ rw.status = "CLOSED" => rw.total <= 0

\* The committed row follows its total, and so does every row a transaction
\* is about to commit.
FollowInv ==
  /\ TypeOK
  /\ Follows(lot)
  /\ \A r \in Req : Follows(row[r])

\* The opening row of the lot has the status its total asks for.
LEMMA FollowInit ==
  Init => FollowInv
<1> SUFFICES ASSUME Init PROVE FollowInv
  OBVIOUS
<1>1. TypeOK
  BY TypeInit
<1>2. Follows(lot)
  <2>1. PICK s \in {"ACTIVE", "BLOCKED"} : lot = Rewritten([total |-> 0, status |-> s], SumFunction(Opening))
    BY DEF Init
  <2>2. [total |-> 0, status |-> s] \in LotRow
    BY DEF LotRow
  <2>3. SumFunction(Opening) \in Int
    BY SumType, BranchAssumption, OpeningAssumption
  <2>4. QED BY <2>1, <2>2, <2>3, RewrittenFollows DEF Follows
<1>3. ASSUME NEW r \in Req PROVE Follows(row[r])
  BY DEF Init, NoLot, Follows
<1>4. QED BY <1>1, <1>2, <1>3 DEF FollowInv

\* No step writes a total without the status that follows it.
LEMMA FollowStep ==
  FollowInv /\ [Next]_vars => FollowInv'
<1> SUFFICES ASSUME FollowInv, [Next]_vars PROVE FollowInv'
  OBVIOUS
<1>0. TypeOK /\ TypeOK'
  BY TypeStep DEF FollowInv
<1>1. Follows(NoLot)
  BY DEF Follows, NoLot
<1>2. ASSUME NEW r \in Req, NEW w, Follows(w), row' = [row EXCEPT ![r] = w], lot' = lot \/ lot' = row[r]
      PROVE  FollowInv'
  <2>1. Follows(lot')
    BY <1>2 DEF FollowInv
  <2>2. \A q \in Req : Follows(row'[q])
    <3>1. DOMAIN row = Req
      BY <1>0 DEF TypeOK
    <3>2. QED BY <1>2, <3>1 DEF FollowInv
  <2>3. QED BY <1>0, <2>1, <2>2 DEF FollowInv, Follows
<1>3. ASSUME UNCHANGED <<lot, row>> PROVE FollowInv'
  BY <1>0, <1>3 DEF FollowInv, Follows
<1>4. ASSUME NEW r \in Req, Derive(r) PROVE FollowInv'
  <2>1. row' = [row EXCEPT ![r] = lot] /\ lot' = lot
    BY <1>4 DEF Derive, rows
  <2>2. QED BY <1>2, <2>1 DEF FollowInv
<1>5. ASSUME NEW r \in Req, Update(r) PROVE FollowInv'
  <2>1. row' = [row EXCEPT ![r] = Rewritten(lot, sum[r])] /\ lot' = lot
    BY <1>5 DEF Update, rows
  <2>2. Follows(Rewritten(lot, sum[r]))
    BY <1>0, RewrittenFollows DEF TypeOK, Follows
  <2>3. QED BY <1>2, <2>1, <2>2
<1>6. ASSUME NEW r \in Req, Commit(r) \/ Abort(r) PROVE FollowInv'
  <2>1. row' = [row EXCEPT ![r] = NoLot] /\ (lot' = lot \/ lot' = row[r])
    BY <1>6 DEF Commit, Abort, Release, rows
  <2>2. QED BY <1>1, <1>2, <2>1
<1>7. ASSUME NEW r \in Req, LockItem(r) \/ (\E m \in Move : Post(r, m)) \/ (\E s \in Scope : Rebuild(r, s))
      PROVE  FollowInv'
  BY <1>3, <1>7 DEF LockItem, Post, Rebuild, rows, reqs
<1>8. CASE UNCHANGED vars
  BY <1>3, <1>8 DEF vars, rows, reqs
<1>9. QED BY <1>4, <1>5, <1>6, <1>7, <1>8 DEF Next

\* A lot is never left ACTIVE with a total of nothing, nor CLOSED with a
\* positive one, in whatever order the rebuilds of its branches wait for the
\* row and commit (the CASE of rebuildLotTotals).
THEOREM LotStatus ==
  Spec => []StatusFollowsTotal
<1>1. FollowInv => StatusFollowsTotal
  BY DEF FollowInv, Follows, StatusFollowsTotal
<1>2. QED BY FollowInit, FollowStep, <1>1, PTL DEF Spec

-----------------------------------------------------------------------------
(* The repair. *)

\* Every repair somebody may ask for finds a branch of the lot to lock.
RepairsFindRows == \A s \in Scope : s \cap Held # {}

Passed(r) == pc[r] \in {"update", "commit"}

\* A transaction under way has branches to lock, a posting its own one; past
\* the locks it has them all.
LockInv ==
  /\ \A r \in Req : pc[r] = "idle" => move[r] = None
  /\ \A r \in Req : pc[r] # "idle" => scope[r] # {}
  /\ \A r \in Req : Passed(r) => \A b \in scope[r] : itemLock[b] = r

\* The writer of the lot row is about to commit its sum; one that holds every
\* branch has summed what it leaves there, and found or written that total.
SumInv ==
  /\ \A r \in Req : lotLock = r => pc[r] = "commit" /\ row[r].total = sum[r]
  /\ \A r \in Req : Passed(r) /\ scope[r] = Branch =>
       sum[r] = SumFunction([b \in Branch |-> After(r, b)])
  /\ \A r \in Req : pc[r] = "commit" /\ scope[r] = Branch /\ lotLock # r => lot.total = sum[r]

RepairInv == TypeOK /\ LockInv /\ SumInv

\* The total of a rewritten row is the one it is rewritten with.
LEMMA RewrittenTotal ==
  ASSUME NEW rw, NEW t
  PROVE  Rewritten(rw, t).total = t
  BY DEF Rewritten

\* A row that needs no rewriting carries the total already.
LEMMA FreshTotal ==
  ASSUME NEW rw, NEW t, ~Stale(rw, t)
  PROVE  rw.total = t
  BY RewrittenTotal DEF Stale

\* Beside a transaction that holds every branch no other has passed its locks.
LEMMA Sole ==
  ASSUME TypeOK, LockInv, NEW r \in Req, NEW q \in Req, Passed(r), Passed(q), scope[r] = Branch
  PROVE  q = r
<1>1. PICK b \in scope[q] : TRUE
  BY DEF LockInv, Passed
<1>2. b \in Branch
  BY <1>1 DEF TypeOK
<1>3. itemLock[b] = q /\ itemLock[b] = r
  BY <1>1, <1>2 DEF LockInv
<1>4. QED BY <1>3

\* A transaction past its lock phase holds every item it named.
LEMMA LockStep ==
  ASSUME TypeOK, LockInv, [Next]_vars, RepairsFindRows
  PROVE  LockInv'
<1> USE DEF Passed
<1>1. ASSUME NEW r \in Req, NEW m \in Move, Post(r, m) PROVE LockInv'
  <2>1. scope' = [scope EXCEPT ![r] = {At[m]}] /\ pc' = [pc EXCEPT ![r] = "lock"]
        /\ move' = [move EXCEPT ![r] = m] /\ itemLock' = itemLock
    BY <1>1 DEF Post, locks
  <2>2. QED BY <2>1 DEF TypeOK, LockInv
<1>2. ASSUME NEW r \in Req, NEW s \in Scope, Rebuild(r, s) PROVE LockInv'
  <2>1. s \cap Stocked # {}
    BY DEF RepairsFindRows, Stocked
  <2>2. scope' = [scope EXCEPT ![r] = s \cap Stocked] /\ pc' = [pc EXCEPT ![r] = "lock"]
        /\ move' = move /\ itemLock' = itemLock
    BY <1>2 DEF Rebuild, locks
  <2>3. QED BY <2>1, <2>2 DEF TypeOK, LockInv
<1>3. ASSUME NEW r \in Req, LockItem(r) PROVE LockInv'
  <2>1. PICK b \in scope[r] : itemLock[b] = None /\ itemLock' = [itemLock EXCEPT ![b] = r]
    BY <1>3 DEF LockItem
  <2>2. UNCHANGED <<pc, scope, move>>
    BY <1>3 DEF LockItem, reqs
  <2>3. ASSUME NEW q \in Req, Passed(q), NEW c \in scope[q] PROVE itemLock'[c] = q
    <3>1. itemLock[c] = q /\ q # None /\ c \in Branch
      BY <2>3, NoneAssumption DEF LockInv, TypeOK
    <3>2. QED BY <2>1, <3>1 DEF TypeOK
  <2>4. QED BY <2>2, <2>3 DEF LockInv
<1>4. ASSUME NEW r \in Req, Derive(r) PROVE LockInv'
  <2>1. pc[r] = "lock" /\ \A b \in scope[r] : itemLock[b] = r
    BY <1>4 DEF Derive
  <2>2. pc' = [pc EXCEPT ![r] = "update"] \/ pc' = [pc EXCEPT ![r] = "commit"]
    BY <1>4 DEF Derive
  <2>3. UNCHANGED <<itemLock, scope, move>>
    BY <1>4 DEF Derive, locks
  <2>4. QED BY <2>1, <2>2, <2>3 DEF TypeOK, LockInv
<1>5. ASSUME NEW r \in Req, Update(r) PROVE LockInv'
  BY <1>5 DEF TypeOK, LockInv, Update
<1>6. ASSUME NEW r \in Req, Release(r) PROVE LockInv'
  BY <1>6 DEF TypeOK, LockInv, Release
<1>7. ASSUME UNCHANGED vars PROVE LockInv'
  BY <1>7 DEF LockInv, vars, locks, reqs
<1>8. QED BY <1>1, <1>2, <1>3, <1>4, <1>5, <1>6, <1>7 DEF Next, Commit, Abort

\* A step that changes neither the balances nor r's own figures, and leaves
\* the lot row alone or has r without all branches, keeps what r knows.
Knows(r) ==
  /\ Passed(r) /\ scope[r] = Branch => sum[r] = SumFunction([b \in Branch |-> After(r, b)])
  /\ pc[r] = "commit" /\ scope[r] = Branch /\ lotLock # r => lot.total = sum[r]

\* A step that changes neither stock nor lot leaves a transaction knowing what
\* it knew.
LEMMA KnowsStep ==
  ASSUME TypeOK, LockInv, SumInv, NEW r \in Req,
         UNCHANGED <<onHand, lot>>, pc'[r] = pc[r], scope'[r] = scope[r], move'[r] = move[r],
         sum'[r] = sum[r], lotLock' = r <=> lotLock = r
  PROVE  Knows(r)'
<1>1. [b \in Branch |-> After(r, b)]' = [b \in Branch |-> After(r, b)]
  BY DEF After
<1>2. Passed(r)' <=> Passed(r)
  BY DEF Passed
<1>3. QED BY <1>1, <1>2 DEF Knows, SumInv

\* What a repair of every branch summed stays the sum until it commits.
LEMMA SumStep ==
  ASSUME TypeOK, LockInv, SumInv, [Next]_vars
  PROVE  SumInv'
<1>0. SumInv' <=> /\ \A r \in Req : lotLock' = r => pc'[r] = "commit" /\ row'[r].total = sum'[r]
                  /\ \A r \in Req : Knows(r)'
  BY DEF SumInv, Knows, Passed, After
<1>1. ASSUME NEW r \in Req, Release(r) \/ pc'[r] = "lock" PROVE Knows(r)'
  <2>1. pc'[r] = "idle" \/ pc'[r] = "lock"
    BY <1>1 DEF Release, TypeOK
  <2>2. QED BY <2>1 DEF Knows, Passed
<1>2. ASSUME NEW r \in Req, NEW m \in Move, Post(r, m) PROVE SumInv'
  <2>1. pc' = [pc EXCEPT ![r] = "lock"] /\ pc[r] = "idle"
        /\ scope' = [scope EXCEPT ![r] = {At[m]}] /\ move' = [move EXCEPT ![r] = m]
        /\ UNCHANGED <<onHand, lot, lotLock, sum, row>>
    BY <1>2 DEF Post, rows, locks
  <2>2. \A q \in Req : Knows(q)'
    BY <1>1, <2>1, KnowsStep DEF TypeOK
  <2>3. QED BY <1>0, <2>1, <2>2 DEF SumInv, TypeOK
<1>3. ASSUME NEW r \in Req, NEW s \in Scope, Rebuild(r, s) PROVE SumInv'
  <2>1. pc' = [pc EXCEPT ![r] = "lock"] /\ pc[r] = "idle"
        /\ scope' = [scope EXCEPT ![r] = s \cap Stocked]
        /\ UNCHANGED <<onHand, lot, lotLock, sum, row, move>>
    BY <1>3 DEF Rebuild, rows, locks
  <2>2. \A q \in Req : Knows(q)'
    BY <1>1, <2>1, KnowsStep DEF TypeOK
  <2>3. QED BY <1>0, <2>1, <2>2 DEF SumInv, TypeOK
<1>4. ASSUME UNCHANGED <<onHand, lot, lotLock, reqs>> PROVE SumInv'
  <2>1. \A q \in Req : Knows(q)'
    BY <1>4, KnowsStep DEF reqs
  <2>2. QED BY <1>0, <1>4, <2>1 DEF SumInv, reqs
<1>5. ASSUME NEW r \in Req, Derive(r) PROVE SumInv'
  <2> DEFINE t == SumFunction([b \in Branch |-> After(r, b)])
  <2>1. /\ pc[r] = "lock" /\ sum' = [sum EXCEPT ![r] = t] /\ row' = [row EXCEPT ![r] = lot]
        /\ pc' = [pc EXCEPT ![r] = IF Stale(lot, t) THEN "update" ELSE "commit"]
        /\ UNCHANGED <<onHand, lot, lotLock, move, scope>>
    BY <1>5 DEF Derive, rows, locks
  <2>2. t' = t
    BY <2>1 DEF After
  <2>3. Stale(lot, t) \/ lot.total = t
    BY FreshTotal
  <2> HIDE DEF t
  <2>4. Knows(r)'
    <3>1. sum'[r] = t
      BY <2>1 DEF TypeOK
    <3>2. pc'[r] = "commit" => lot'.total = sum'[r]
      BY <2>1, <2>3, <3>1 DEF TypeOK
    <3>3. QED BY <2>2, <3>1, <3>2 DEF Knows, t
  <2>5. ASSUME NEW q \in Req, q # r PROVE Knows(q)'
    BY <2>1, <2>5, KnowsStep DEF TypeOK
  <2>6. lotLock # r
    BY <2>1 DEF SumInv
  <2>7. QED BY <1>0, <2>1, <2>4, <2>5, <2>6 DEF SumInv, TypeOK
<1>6. ASSUME NEW r \in Req, Update(r) PROVE SumInv'
  <2>1. /\ pc[r] = "update" /\ lotLock = None /\ lotLock' = IF Stale(lot, sum[r]) THEN r ELSE None
        /\ row' = [row EXCEPT ![r] = Rewritten(lot, sum[r])] /\ pc' = [pc EXCEPT ![r] = "commit"]
        /\ UNCHANGED <<onHand, lot, move, scope, sum>>
    BY <1>6 DEF Update, rows
  <2>2. Knows(r)'
    <3>1. [b \in Branch |-> After(r, b)]' = [b \in Branch |-> After(r, b)]
      BY <2>1 DEF After
    <3>2. lotLock' # r => lot.total = sum[r]
      BY <2>1, FreshTotal
    <3>3. scope[r] = Branch => sum[r] = SumFunction([b \in Branch |-> After(r, b)])
      BY <2>1 DEF SumInv, Passed
    <3>4. QED BY <2>1, <3>1, <3>2, <3>3 DEF Knows
  <2>3. ASSUME NEW q \in Req, q # r PROVE Knows(q)'
    <3>1. lotLock' # q /\ lotLock # q
      BY <2>1, <2>3, NoneAssumption
    <3>2. QED BY <2>1, <2>3, <3>1, KnowsStep DEF TypeOK
  <2>4. \A q \in Req : lotLock' = q => q = r
    BY <2>1, NoneAssumption
  <2>5. row'[r].total = sum'[r] /\ pc'[r] = "commit"
    BY <2>1, RewrittenTotal DEF TypeOK
  <2>6. QED BY <1>0, <2>2, <2>3, <2>4, <2>5
<1>7. ASSUME NEW r \in Req, Commit(r) \/ Abort(r) PROVE SumInv'
  <2>1. Release(r)
    BY <1>7 DEF Commit, Abort
  <2>2. Abort(r) => UNCHANGED <<onHand, lot>>
    BY DEF Abort, rows
  <2>3. \A q \in Req : lotLock' = q => pc'[q] = "commit" /\ row'[q].total = sum'[q]
    BY <2>1, NoneAssumption DEF Release, SumInv, TypeOK
  <2>4. ASSUME NEW q \in Req, q # r PROVE Knows(q)'
    <3>1. /\ pc'[q] = pc[q] /\ scope'[q] = scope[q] /\ move'[q] = move[q] /\ sum'[q] = sum[q]
          /\ lotLock' = q <=> lotLock = q
      BY <2>1, <2>4, NoneAssumption DEF Release, TypeOK
    <3>2. CASE Abort(r)
      BY <2>2, <3>1, <3>2, KnowsStep
    <3>3. CASE Commit(r)
      <4>1. Passed(r)
        BY <3>3 DEF Commit, Passed
      <4>2. ~(Passed(q) /\ scope[q] = Branch)
        BY <2>4, <4>1, Sole
      <4>3. QED BY <3>1, <4>2 DEF Knows, Passed
    <3>4. QED BY <1>7, <3>2, <3>3
  <2>5. QED BY <1>0, <1>1, <2>1, <2>3, <2>4
<1>8. CASE UNCHANGED vars
  BY <1>4, <1>8 DEF vars, rows, locks
<1>9. ASSUME NEW r \in Req, LockItem(r) PROVE SumInv'
  BY <1>4, <1>9 DEF LockItem, rows
<1>10. QED BY <1>2, <1>3, <1>5, <1>6, <1>7, <1>8, <1>9 DEF Next

\* A commit of a transaction that holds every branch leaves the stored total
\* equal to the sum of the balances.
LEMMA CommitExact ==
  ASSUME RepairInv, NEW r \in Req, Commit(r), scope[r] = Branch
  PROVE  TotalIsSum'
<1>1. onHand' = [b \in Branch |-> After(r, b)] /\ lot' = IF lotLock = r THEN row[r] ELSE lot
  BY DEF Commit
<1>2. sum[r] = SumFunction([b \in Branch |-> After(r, b)])
  BY DEF RepairInv, SumInv, Commit, Passed
<1>3. lot'.total = sum[r]
  BY <1>1 DEF RepairInv, SumInv, Commit
<1>4. QED BY <1>1, <1>2, <1>3 DEF TotalIsSum

\* As long as every repair asked for finds a branch of the lot to lock, a
\* transaction that holds all branches leaves the lot's total exact, whatever
\* posts, cancels and branch-wide repairs run beside it
\* (rebuildStockDerivedFigures "serialises with posting").
THEOREM FullRebuildExact ==
  ASSUME RepairsFindRows
  PROVE  Spec => FullRebuildRepairs
<1>1. Init => RepairInv
  <2> SUFFICES ASSUME Init PROVE RepairInv
    OBVIOUS
  <2>1. LockInv
    BY DEF Init, LockInv, Passed
  <2>2. SumInv
    BY NoneAssumption DEF Init, SumInv, Passed
  <2>3. QED BY <2>1, <2>2, TypeInit DEF RepairInv
<1>2. RepairInv /\ [Next]_vars => RepairInv'
  BY TypeStep, LockStep, SumStep DEF RepairInv
<1>3. RepairInv /\ [Next]_vars =>
        [\A r \in Req : Commit(r) /\ scope[r] = Branch => TotalIsSum']_vars
  BY CommitExact
<1>4. QED BY <1>1, <1>2, <1>3, PTL DEF Spec, FullRebuildRepairs

=============================================================================
