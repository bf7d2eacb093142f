-------------------------- MODULE SaleOrderProofs ---------------------------
(***************************************************************************)
(* Proofs about SaleOrder, for every set of orders, lines, items, bills    *)
(* and requests.                                                           *)
(*                                                                         *)
(* The inductive invariant says, request by request, what a transaction    *)
(* holds and what it carries, and that both are still right when it        *)
(* commits: the figures it marked against the reservations under the       *)
(* item's lock, the lines it recomputed against the bills under the        *)
(* order's, and the rows it consumes against the ones it locked.  A step   *)
(* of another request leaves all of this alone (Away), so each part needs *)
(* to be shown only for the request's own steps.                           *)
(***************************************************************************)
EXTENDS SaleOrder, SumLemmas, SequenceTheorems

\* A reservation row that ck_srv_qty accepts, and a line that has a quantity
\* and is not settled beyond it.
GoodRow == {w \in Row : w.con <= w.res}
GoodLine == {ln \in LineRow : ln.net > 0 /\ Pending(ln) >= 0}

BillRow == [status : {"DRAFT", "POSTED", "CANCELLED"}, take : [Line -> Nat]]

\* What a request carries.
TxRow ==
  [pc : Pc, op : Op, ord : Order \cup {CHOOSE o \in Order : TRUE},
   bil : Bill \cup {CHOOSE b \in Bill : TRUE}, form : [Line -> Nat], todo : SUBSET Line,
   rows : [Line -> Seq(GoodRow)], marked : SUBSET Item, calc : [Item -> Int],
   due : [Line -> LineRow], rev : Nat]

Typed ==
  /\ TypeOK
  /\ tx \in [Req -> TxRow]
  /\ rsv \in [Line -> Seq(GoodRow)]
  /\ line \in [Line -> GoodLine]
  /\ \A b \in Bill : Billed(bill[b].take) \subseteq LinesOf(OrderOfBill(b))

\* The operations that write reservations.
Landing == {"confirm", "cancel", "amend"} \cup BillOp

\* Where a request of each kind can be.
Stage(r) ==
  /\ tx[r].pc = "take" => tx[r].op \in {"confirm", "amend"}
  /\ tx[r].pc = "release" => tx[r].op = "cancel"
  /\ (tx[r].op = "cancel" \/ (tx[r].op \in BillOp /\ tx[r].pc # "commit")) => tx[r].todo = {}
  /\ tx[r].pc = "save" => tx[r].op \in {"save", "amend"}
  /\ tx[r].pc = "lock" => tx[r].op \in {"confirm", "cancel", "amend"}
  /\ tx[r].pc \in {"early", "guard", "items", "consume", "orders"} => tx[r].op \in BillOp
  /\ tx[r].pc = "mark" => tx[r].op \in Landing

\* What a request under way is about.
About(r) ==
  /\ tx[r].ord \in Order /\ tx[r].op \in Offered[tx[r].ord]
  /\ Billed(tx[r].form) \subseteq LinesOf(tx[r].ord)
  /\ tx[r].todo \subseteq LinesOf(tx[r].ord)
  /\ tx[r].op \in BillOp =>
       /\ tx[r].bil \in Bill /\ tx[r].ord = OrderOfBill(tx[r].bil)
       /\ billLock[tx[r].bil] = r
       /\ bill[tx[r].bil].status = IF tx[r].op \in {"post", "savePost"} THEN "DRAFT" ELSE "POSTED"

\* The order row is locked by whoever will write its lines or reservations.
HoldsOrder(r) ==
  \/ tx[r].op \in {"confirm", "cancel", "amend"} /\ tx[r].pc \in {"take", "release", "mark", "commit"}
  \/ tx[r].op \in BillOp /\ tx[r].pc = "commit"

\* The rows a request has locked are those of its order.
OwnRows(r) ==
  \A l \in Line : rowLock[l] = r =>
    /\ tx[r].pc \in {"take", "mark", "orders", "commit"} /\ tx[r].op \in Landing
    /\ OrderOf[l] = tx[r].ord
    /\ tx[r].rows[l] = << >> => rsv[l] = << >>

\* Before the commit every item whose rows changed is locked and its figure
\* summed from the rows as they will be.
Marked(r) ==
  IF tx[r].pc \in {"orders", "commit"}
  THEN /\ \A i \in tx[r].marked :
            /\ itemLock[i] = r
            /\ tx[r].calc[i] = ReservedOf(i, [l \in Line |-> View(r, l)])
       /\ \A l \in Line : rowLock[l] = r => ItemOf[l] \in tx[r].marked \/ tx[r].rows[l] = << >>
  ELSE tx[r].pc \notin {"take", "mark"} => tx[r].marked = {}

\* The lines a bill is about to write are lines ck_soi_qty_signs accepts.
Ready(r) ==
  tx[r].op \in BillOp /\ tx[r].pc = "commit" => \A l \in tx[r].todo : tx[r].due[l] \in GoodLine

Held(r) ==
  /\ tx[r].pc # "idle" => About(r)
  /\ Stage(r)
  /\ HoldsOrder(r) => orderLock[tx[r].ord] = r
  /\ OwnRows(r)
  /\ Marked(r)
  /\ Ready(r)

LockInv == Typed /\ ReservedIsOpen /\ \A r \in Req : Held(r)

\* The lines a bill is about to write are the recomputed ones.
Summed(r) ==
  tx[r].op \in BillOp /\ tx[r].pc = "commit" =>
    /\ \A l \in LinesOf(tx[r].ord) : tx[r].due[l] = Recomputed(r)[l]
    /\ tx[r].todo = {l \in LinesOf(tx[r].ord) : Recomputed(r)[l] # line[l]}

SumInv == LockInv /\ DeliveredIsBilled /\ HeaderTellsLines /\ \A r \in Req : Summed(r)

\* A bill past its guards has a confirmed order behind it.
Past(r) ==
  /\ (tx[r].op = "confirm" /\ tx[r].pc \in {"take", "mark", "commit"}) => status[tx[r].ord] = "DRAFT"
  /\ (tx[r].op \in BillOp /\ tx[r].pc \in {"items", "consume", "mark", "orders", "commit"}) =>
       status[tx[r].ord] # "DRAFT"

\* The rows consume leaves a line with.
AfterConsume(q, l) ==
  IF Taken(q)[l] > 0 THEN Consumed(rsv[l], Taken(q)[l]) ELSE GivenBack(rsv[l], 0 - Taken(q)[l])

\* The rows a request will write hold no more than its order's lines will
\* have pending.
Fits(r) ==
  /\ (tx[r].op = "confirm" /\ Steady(tx[r].ord)) =>
       \A l \in Line : rowLock[l] = r => OpenOf(tx[r].rows[l]) <= Pending(line[l])
  /\ (tx[r].op = "cancel" /\ tx[r].pc \in {"mark", "commit"}) =>
       \A l \in LinesOf(tx[r].ord) :
         /\ rowLock[l] = r => tx[r].rows[l] = Released(rsv[l])
         /\ rowLock[l] # r => OpenOf(rsv[l]) <= 0
  /\ (tx[r].op \in BillOp /\ tx[r].pc \in {"mark", "orders", "commit"}) =>
       \A l \in Line :
         /\ rowLock[l] = r => Taken(r)[l] # 0 /\ tx[r].rows[l] = AfterConsume(r, l)
         /\ (Steady(tx[r].ord) /\ rowLock[l] # r /\ Taken(r)[l] # 0) => Live(rsv[l]) = {}

\* A draft order is whole, and no bill of it is posted.
Whole(o) ==
  status[o] = "DRAFT" =>
    /\ Steady(o) => \A l \in LinesOf(o) : Pending(line[l]) > 0
    /\ \A b \in Bill : OrderOfBill(b) = o => bill[b].status # "POSTED"

HoldInv ==
  SumInv /\ HeldWithinNeed /\ (\A o \in Order : Whole(o)) /\ \A r \in Req : Past(r) /\ Fits(r)

-----------------------------------------------------------------------------
(* Rows of a line. *)

\* A sequence of rows is a function on its positions.
LEMMA RowsAre ==
  ASSUME NEW rws \in Seq(GoodRow)
  PROVE  /\ Len(rws) \in Nat /\ DOMAIN rws = 1..Len(rws) /\ IsFiniteSet(DOMAIN rws)
         /\ \A k \in DOMAIN rws : rws[k] \in GoodRow
<1>1. Len(rws) \in Nat /\ DOMAIN rws = 1..Len(rws) /\ \A k \in DOMAIN rws : rws[k] \in GoodRow
  OBVIOUS
<1>2. QED BY <1>1, FS_Interval

\* A row per position makes a sequence of rows.
LEMMA RowsMake ==
  ASSUME NEW rws \in Seq(GoodRow), NEW f, f \in [DOMAIN rws -> GoodRow]
  PROVE  f \in Seq(GoodRow) /\ DOMAIN f = DOMAIN rws /\ (f = << >> => rws = << >>)
<1>1. Len(rws) \in Nat /\ DOMAIN rws = 1..Len(rws)
  BY RowsAre
<1>2. f \in Seq(GoodRow)
  BY <1>1, SeqDef
<1>3. f = << >> => rws = << >>
  BY <1>1
<1>4. QED BY <1>2, <1>3

\* What is open on a row is a quantity.
LEMMA OpenRow ==
  ASSUME NEW w \in GoodRow
  PROVE  OpenQty(w) \in Nat /\ w.con \in Nat /\ w.res \in Nat /\ w.rel \in BOOLEAN
  BY DEF GoodRow, Row, OpenQty

\* What is open on a line is a quantity.
LEMMA OpenNat ==
  ASSUME NEW rws \in Seq(GoodRow)
  PROVE  OpenOf(rws) \in Nat
<1>1. IsFiniteSet(DOMAIN rws) /\ [k \in DOMAIN rws |-> OpenQty(rws[k])] \in [DOMAIN rws -> Nat]
  BY RowsAre, OpenRow
<1>2. QED BY <1>1, SumNat DEF OpenOf

\* Released rows are rows, and none of them is open.
LEMMA ReleasedRows ==
  ASSUME NEW rws \in Seq(GoodRow)
  PROVE  /\ Released(rws) \in Seq(GoodRow) /\ OpenOf(Released(rws)) = 0
         /\ (Released(rws) = << >> => rws = << >>)
         /\ (Live(rws) = {} => Live(Released(rws)) = {})
<1> DEFINE f == Released(rws)
<1>1. \A k \in DOMAIN rws : /\ f[k] \in GoodRow /\ OpenQty(f[k]) = 0
                            /\ (rws[k].rel => f[k].rel)
  <2> SUFFICES ASSUME NEW k \in DOMAIN rws
               PROVE  f[k] \in GoodRow /\ OpenQty(f[k]) = 0 /\ (rws[k].rel => f[k].rel)
    OBVIOUS
  <2>1. rws[k] \in GoodRow
    BY RowsAre
  <2>2. f[k] = IF OpenQty(rws[k]) > 0 THEN [rws[k] EXCEPT !.rel = TRUE] ELSE rws[k]
    BY DEF Released
  <2>3. rws[k] \in Row /\ OpenQty(rws[k]) \in Nat /\ rws[k].con <= rws[k].res
    BY <2>1, OpenRow DEF GoodRow
  <2>4. CASE OpenQty(rws[k]) > 0
    <3> DEFINE w == [rws[k] EXCEPT !.rel = TRUE]
    <3>1. w \in Row /\ w.con = rws[k].con /\ w.res = rws[k].res /\ w.rel = TRUE
      BY <2>3 DEF Row
    <3>2. f[k] = w
      BY <2>2, <2>4
    <3> HIDE DEF w, f
    <3>3. QED BY <2>3, <3>1, <3>2 DEF GoodRow, OpenQty
  <2>5. CASE ~(OpenQty(rws[k]) > 0)
    <3>1. f[k] = rws[k]
      BY <2>2, <2>5
    <3> HIDE DEF f
    <3>2. QED BY <2>1, <2>3, <2>5, <3>1
  <2>6. QED BY <2>4, <2>5
<1>2. f \in [DOMAIN rws -> GoodRow] /\ DOMAIN f = DOMAIN rws
  <2>1. f = [k \in DOMAIN rws |-> f[k]]
    BY DEF Released
  <2>2. QED BY <1>1, <2>1
<1> HIDE DEF f
<1>3. [k \in DOMAIN f |-> OpenQty(f[k])] = [k \in DOMAIN rws |-> 0]
  BY <1>1, <1>2
<1>4. OpenOf(f) = 0
  BY <1>3, RowsAre, ZeroSum DEF OpenOf
<1>5. Live(rws) = {} => Live(f) = {}
  BY <1>1, <1>2 DEF Live
<1>6. f \in Seq(GoodRow) /\ (f = << >> => rws = << >>)
  BY <1>2, RowsMake
<1>7. QED BY <1>4, <1>5, <1>6 DEF f

\* A row more is open for its quantity.
LEMMA AppendedRows ==
  ASSUME NEW rws \in Seq(GoodRow), NEW n \in Nat
  PROVE  LET new == Append(rws, [res |-> n, con |-> 0, rel |-> FALSE]) IN
         /\ new \in Seq(GoodRow) /\ new # << >> /\ OpenOf(new) = OpenOf(rws) + n
<1> DEFINE w == [res |-> n, con |-> 0, rel |-> FALSE]
           new == Append(rws, w)
           D == DOMAIN rws
           x == Len(rws) + 1
           f == [k \in DOMAIN new |-> OpenQty(new[k])]
<1>1. w \in GoodRow /\ OpenQty(w) = n
  BY DEF GoodRow, Row, OpenQty
<1> HIDE DEF w
<1>2. Len(rws) \in Nat /\ D = 1..Len(rws) /\ IsFiniteSet(D) /\ x \notin D
  BY RowsAre
<1>3. /\ new \in Seq(GoodRow) /\ new # << >> /\ DOMAIN new = D \cup {x} /\ new[x] = w
      /\ \A k \in D : new[k] = rws[k]
  BY <1>1, <1>2
<1> HIDE DEF new
<1>4. \A k \in D \cup {x} : new[k] \in GoodRow
  BY <1>1, <1>3, RowsAre
<1> HIDE DEF x, D
<1>5. f \in [D \cup {x} -> Int] /\ f[x] = n /\ \A k \in D : f[k] = OpenQty(rws[k])
  BY <1>1, <1>3, <1>4, OpenRow
<1>6. OpenOf(new) = SumFunction(f)
  BY DEF OpenOf
<1> HIDE DEF f
<1>7. SumFunction(f) = SumFunction([k \in D |-> f[k]]) + f[x]
  BY <1>2, <1>5, SumExtend
<1>8. [k \in D |-> f[k]] = [k \in DOMAIN rws |-> OpenQty(rws[k])]
  BY <1>5 DEF D
<1>9. OpenOf(new) = OpenOf(rws) + n
  BY <1>5, <1>6, <1>7, <1>8 DEF OpenOf
<1>10. QED BY <1>3, <1>9 DEF new, w

-----------------------------------------------------------------------------
(* Spreading a quantity over the rows. *)

\* The room in the first n rows.
Upto(room, n) == SumFunction([j \in 1..n |-> room[j]])

\* One row more.
LEMMA UptoNext ==
  ASSUME NEW N \in Nat, NEW room \in [1..N -> Int], NEW n \in Nat, n < N
  PROVE  Upto(room, n + 1) = Upto(room, n) + room[n + 1]
<1> DEFINE f == [j \in 1..(n + 1) |-> room[j]]
<1>0. IsFiniteSet(1..n)
  BY FS_Interval
<1>1. 1..(n + 1) = (1..n) \cup {n + 1} /\ n + 1 \notin 1..n /\ IsFiniteSet(1..n)
  BY <1>0
<1>2. f \in [(1..n) \cup {n + 1} -> Int] /\ f[n + 1] = room[n + 1]
  BY <1>1
<1>3. \A j \in 1..n : f[j] = room[j]
  OBVIOUS
<1>4. SumFunction(f) = Upto(room, n + 1)
  BY DEF Upto
<1> HIDE DEF f
<1>5. SumFunction(f) = SumFunction([j \in 1..n |-> f[j]]) + f[n + 1]
  BY <1>1, <1>2, SumExtend
<1>6. [j \in 1..n |-> f[j]] = [j \in 1..n |-> room[j]]
  BY <1>3
<1>7. QED BY <1>2, <1>4, <1>5, <1>6 DEF Upto

\* A prefix has a sum, none of it is nothing, all of it is the sum.
LEMMA UptoEnds ==
  ASSUME NEW N \in Nat, NEW room \in [1..N -> Int]
  PROVE  /\ Upto(room, 0) = 0 /\ Upto(room, N) = SumFunction(room)
         /\ \A n \in 0..N : Upto(room, n) \in Int
<1>1. Upto(room, 0) = 0
  <2>1. [j \in 1..0 |-> room[j]] = [j \in 1..0 |-> 0]
    OBVIOUS
  <2>2. 1..0 = {}
    OBVIOUS
  <2>3. IsFiniteSet(1..0)
    BY <2>2, FS_EmptySet
  <2>4. QED BY <2>1, <2>3, ZeroSum DEF Upto
<1>2. Upto(room, N) = SumFunction(room)
  <2>1. [j \in 1..N |-> room[j]] = room
    OBVIOUS
  <2>2. QED BY <2>1 DEF Upto
<1>3. ASSUME NEW n \in 0..N PROVE Upto(room, n) \in Int
  <2>1. [j \in 1..n |-> room[j]] \in [1..n -> Int] /\ IsFiniteSet(1..n)
    BY FS_Interval
  <2>2. QED BY <2>1, SumType DEF Upto
<1>4. QED BY <1>1, <1>2, <1>3

\* What a row gets: never more than its room.
LEMMA SpreadOne ==
  ASSUME NEW N \in Nat, NEW room \in [1..N -> Nat], NEW q \in Int, NEW k \in 1..N
  PROVE  Spread(room, q)[k] \in Nat /\ Spread(room, q)[k] <= room[k]
<1>1. Spread(room, q)[k] = IF q <= Upto(room, k - 1) THEN 0
                           ELSE Least(room[k], q - Upto(room, k - 1))
  BY DEF Spread, Upto
<1>2. Upto(room, k - 1) \in Int
  <2>1. room \in [1..N -> Int] /\ k - 1 \in 0..N
    OBVIOUS
  <2>2. QED BY <2>1, UptoEnds
<1>3. room[k] \in Nat
  OBVIOUS
<1> DEFINE v == Spread(room, q)[k]
           u == Upto(room, k - 1)
           m == room[k]
<1>4. v = IF q <= u THEN 0 ELSE Least(m, q - u)
  BY <1>1
<1>5. u \in Int /\ m \in Nat
  BY <1>2, <1>3
<1> HIDE DEF v, u, m
<1>6. v \in Nat /\ v <= m
  BY <1>4, <1>5 DEF Least
<1>7. QED BY <1>6 DEF v, m

\* All that is asked for is spread, as far as there is room.
LEMMA SpreadSum ==
  ASSUME NEW N \in Nat, NEW room \in [1..N -> Nat], NEW q \in Nat
  PROVE  SumFunction(Spread(room, q)) = Least(q, SumFunction(room))
<1> DEFINE s == Spread(room, q)
           Wrong == {n \in 0..N : Upto(s, n) # Least(q, Upto(room, n))}
<1>1. room \in [1..N -> Int] /\ DOMAIN room = 1..N
  OBVIOUS
<1>2. s \in [1..N -> Int]
  <2>1. s = [k \in 1..N |-> s[k]]
    BY <1>1 DEF Spread
  <2>2. \A k \in 1..N : s[k] \in Int
    BY SpreadOne
  <2>3. QED BY <2>1, <2>2
<1>3. \A k \in 1..N : s[k] = IF q <= Upto(room, k - 1) THEN 0
                             ELSE Least(room[k], q - Upto(room, k - 1))
  <2> SUFFICES ASSUME NEW k \in 1..N
               PROVE  s[k] = IF q <= Upto(room, k - 1) THEN 0 ELSE Least(room[k], q - Upto(room, k - 1))
    OBVIOUS
  <2>1. QED BY DEF Spread, Upto
<1> HIDE DEF s
<1>4. Wrong = {}
  <2> SUFFICES ASSUME Wrong # {} PROVE FALSE
    OBVIOUS
  <2>1. PICK n \in Wrong : \A m \in Wrong : n <= m
    <3>1. Wrong \subseteq Nat
      OBVIOUS
    <3> HIDE DEF Wrong
    <3>2. QED BY <3>1, LeastNat
  <2>2. n # 0
    <3>1. Upto(s, 0) = 0 /\ Upto(room, 0) = 0
      BY <1>1, <1>2, UptoEnds
    <3>2. Least(q, 0) = 0
      BY DEF Least
    <3>3. 0 \notin Wrong
      BY <3>1, <3>2
    <3>4. QED BY <2>1, <3>3
  <2> DEFINE p == n - 1
  <2>3. p \in Nat /\ p < N /\ p + 1 = n /\ n \in 1..N /\ p \in 0..N /\ p \notin Wrong
    BY <2>1, <2>2
  <2> HIDE DEF p
  <2>4. Upto(s, p) = Least(q, Upto(room, p))
    BY <2>3
  <2>5. Upto(s, n) = Upto(s, p) + s[n] /\ Upto(room, n) = Upto(room, p) + room[n]
    <3>1. Upto(s, p + 1) = Upto(s, p) + s[p + 1]
      BY <1>2, <2>3, UptoNext
    <3>2. Upto(room, p + 1) = Upto(room, p) + room[p + 1]
      BY <1>1, <2>3, UptoNext
    <3>3. QED BY <2>3, <3>1, <3>2
  <2>6. s[n] = IF q <= Upto(room, p) THEN 0 ELSE Least(room[n], q - Upto(room, p))
    <3>1. n - 1 = p
      BY <2>3
    <3>2. QED BY <1>3, <2>3, <3>1
  <2> DEFINE a == Upto(s, p)
             b == Upto(room, p)
             c == Upto(s, n)
             d == Upto(room, n)
             e == s[n]
             g == room[n]
  <2>7. b \in Int /\ g \in Nat
    BY <1>1, <2>3, UptoEnds
  <2>8. /\ a = Least(q, b) /\ c = a + e /\ d = b + g
        /\ e = IF q <= b THEN 0 ELSE Least(g, q - b)
    BY <2>4, <2>5, <2>6
  <2>9. c # Least(q, d)
    BY <2>1
  <2> HIDE DEF a, b, c, d, e, g
  <2>10. QED BY <2>7, <2>8, <2>9 DEF Least
<1>5. Upto(s, N) = Least(q, Upto(room, N))
  BY <1>4
<1>6. QED BY <1>1, <1>2, <1>5, UptoEnds DEF s

\* consume: the rows stay rows, and what is open goes down by the quantity, or
\* to nothing.
LEMMA ConsumedRows ==
  ASSUME NEW rws \in Seq(GoodRow), NEW q \in Nat
  PROVE  /\ Consumed(rws, q) \in Seq(GoodRow)
         /\ OpenOf(Consumed(rws, q)) = OpenOf(rws) - Least(q, OpenOf(rws))
         /\ (Consumed(rws, q) = << >> => rws = << >>)
         /\ (Live(rws) = {} => Live(Consumed(rws, q)) = {})
<1> DEFINE room == [k \in DOMAIN rws |-> OpenQty(rws[k])]
           take == Spread(room, q)
           f == Consumed(rws, q)
           less == [k \in DOMAIN rws |-> 0 - take[k]]
<1>1. Len(rws) \in Nat /\ DOMAIN rws = 1..Len(rws) /\ IsFiniteSet(DOMAIN rws)
      /\ \A k \in DOMAIN rws : rws[k] \in GoodRow
  BY RowsAre
<1>2. room \in [1..Len(rws) -> Nat] /\ \A k \in DOMAIN rws : room[k] = OpenQty(rws[k])
  BY <1>1, OpenRow
<1>3. f = [k \in DOMAIN rws |-> [rws[k] EXCEPT !.con = @ + take[k]]]
  BY DEF Consumed
<1>4. OpenOf(rws) = SumFunction(room)
  BY DEF OpenOf
<1> HIDE DEF room
<1>5. \A k \in DOMAIN rws : take[k] \in Nat /\ take[k] <= OpenQty(rws[k])
  BY <1>1, <1>2, SpreadOne
<1>6. SumFunction(take) = Least(q, OpenOf(rws)) /\ DOMAIN take = DOMAIN rws
  <2>1. SumFunction(take) = Least(q, SumFunction(room))
    BY <1>1, <1>2, SpreadSum
  <2>2. DOMAIN take = DOMAIN rws
    BY <1>1, <1>2 DEF Spread
  <2>3. QED BY <1>4, <2>1, <2>2
<1>6a. take = [k \in DOMAIN rws |-> take[k]]
  BY <1>1, <1>2 DEF Spread
<1> HIDE DEF take, f
<1>7. \A k \in DOMAIN rws : /\ f[k] \in GoodRow /\ f[k].rel = rws[k].rel
                            /\ OpenQty(rws[k]) = OpenQty(f[k]) + take[k]
  <2> SUFFICES ASSUME NEW k \in DOMAIN rws
               PROVE  f[k] \in GoodRow /\ f[k].rel = rws[k].rel
                      /\ OpenQty(rws[k]) = OpenQty(f[k]) + take[k]
    OBVIOUS
  <2> DEFINE w == rws[k]
             v == [w EXCEPT !.con = @ + take[k]]
  <2>1. w \in Row /\ w.con <= w.res /\ w.con \in Nat /\ w.res \in Nat /\ w.rel \in BOOLEAN
    BY <1>1 DEF GoodRow, Row
  <2>2. f[k] = v
    BY <1>3
  <2>3. take[k] \in Nat /\ take[k] <= OpenQty(w)
    BY <1>5
  <2> HIDE DEF w
  <2>4. v \in Row /\ v.con = w.con + take[k] /\ v.res = w.res /\ v.rel = w.rel
    BY <2>1, <2>3 DEF Row
  <2> HIDE DEF v
  <2>5. v \in GoodRow
    BY <2>1, <2>3, <2>4 DEF GoodRow, OpenQty
  <2>6. OpenQty(w) = OpenQty(v) + take[k]
    BY <2>1, <2>3, <2>4 DEF OpenQty
  <2>7. QED BY <2>2, <2>4, <2>5, <2>6 DEF w
<1>8. f \in [DOMAIN rws -> GoodRow] /\ DOMAIN f = DOMAIN rws
  BY <1>3, <1>7
<1> DEFINE g == [k \in DOMAIN f |-> OpenQty(f[k])]
<1>9. g \in [DOMAIN rws -> Int] /\ take \in [DOMAIN rws -> Int] /\ \A k \in DOMAIN rws : g[k] = OpenQty(f[k])
  BY <1>5, <1>6a, <1>7, <1>8, OpenRow
<1>10. OpenOf(f) = SumFunction(g)
  BY DEF OpenOf
<1> HIDE DEF g
<1>11. SumFunction([k \in DOMAIN rws |-> g[k] + take[k]]) = SumFunction(g) + SumFunction(take)
  BY <1>1, <1>9, SumPlus
<1>12. [k \in DOMAIN rws |-> g[k] + take[k]] = room
  BY <1>7, <1>9 DEF room
<1>13. OpenOf(rws) = OpenOf(f) + Least(q, OpenOf(rws))
  BY <1>4, <1>6, <1>10, <1>11, <1>12
<1>14. f \in Seq(GoodRow) /\ (f = << >> => rws = << >>)
  BY <1>8, RowsMake
<1>15. OpenOf(f) \in Nat /\ OpenOf(rws) \in Nat
  BY <1>14, OpenNat
<1>16. OpenOf(f) = OpenOf(rws) - Least(q, OpenOf(rws))
  BY <1>13, <1>15 DEF Least
<1>17. Live(rws) = {} => Live(f) = {}
  BY <1>7, <1>8 DEF Live
<1>18. QED BY <1>14, <1>16, <1>17 DEF f

\* consume of a cancel: what is open goes up, by the quantity at most.
LEMMA GivenBackRows ==
  ASSUME NEW rws \in Seq(GoodRow), NEW q \in Nat
  PROVE  /\ GivenBack(rws, q) \in Seq(GoodRow)
         /\ OpenOf(GivenBack(rws, q)) <= OpenOf(rws) + q
         /\ (GivenBack(rws, q) = << >> => rws = << >>)
         /\ (Live(rws) = {} => Live(GivenBack(rws, q)) = {})
<1> DEFINE room == [k \in DOMAIN rws |-> IF rws[k].rel THEN 0 ELSE rws[k].con]
           give == Spread(room, q)
           f == GivenBack(rws, q)
           o == [k \in DOMAIN rws |-> OpenQty(rws[k])]
<1>1. Len(rws) \in Nat /\ DOMAIN rws = 1..Len(rws) /\ IsFiniteSet(DOMAIN rws)
      /\ \A k \in DOMAIN rws : rws[k] \in GoodRow
  BY RowsAre
<1>2. /\ room \in [1..Len(rws) -> Nat]
      /\ \A k \in DOMAIN rws : room[k] = IF rws[k].rel THEN 0 ELSE rws[k].con
  BY <1>1, OpenRow
<1>3. f = [k \in DOMAIN rws |-> [rws[k] EXCEPT !.con = @ - give[k]]]
  BY DEF GivenBack
<1>4. OpenOf(rws) = SumFunction(o) /\ o \in [DOMAIN rws -> Int]
      /\ \A k \in DOMAIN rws : o[k] = OpenQty(rws[k])
  BY <1>1, OpenRow DEF OpenOf
<1> HIDE DEF room, o
<1>5. \A k \in DOMAIN rws : give[k] \in Nat /\ give[k] <= room[k]
  <2>1. room \in [1..Len(rws) -> Nat] /\ Len(rws) \in Nat
    BY <1>1, <1>2
  <2>2. \A k \in 1..Len(rws) : give[k] \in Nat /\ give[k] <= room[k]
    BY <2>1, SpreadOne
  <2>3. QED BY <1>1, <2>2
<1>6. SumFunction(give) = Least(q, SumFunction(room)) /\ SumFunction(room) \in Nat
  BY <1>1, <1>2, SpreadSum, SumNat
<1>6a. give = [k \in DOMAIN rws |-> give[k]]
  BY <1>1, <1>2 DEF Spread
<1>6b. SumFunction(give) <= q /\ SumFunction(give) \in Nat
  BY <1>6 DEF Least
<1> HIDE DEF give, f
<1>7. \A k \in DOMAIN rws : /\ f[k] \in GoodRow /\ f[k].rel = rws[k].rel
                            /\ OpenQty(f[k]) = OpenQty(rws[k]) + give[k]
  <2> SUFFICES ASSUME NEW k \in DOMAIN rws
               PROVE  f[k] \in GoodRow /\ f[k].rel = rws[k].rel
                      /\ OpenQty(f[k]) = OpenQty(rws[k]) + give[k]
    OBVIOUS
  <2> DEFINE w == rws[k]
             v == [w EXCEPT !.con = @ - give[k]]
  <2>1. w \in Row /\ w.con <= w.res /\ w.con \in Nat /\ w.res \in Nat /\ w.rel \in BOOLEAN
    BY <1>1 DEF GoodRow, Row
  <2>2. f[k] = v
    BY <1>3
  <2>3. give[k] \in Nat /\ give[k] <= IF w.rel THEN 0 ELSE w.con
    BY <1>2, <1>5
  <2> HIDE DEF w
  <2>4. v \in Row /\ v.con = w.con - give[k] /\ v.res = w.res /\ v.rel = w.rel
    BY <2>1, <2>3 DEF Row
  <2> HIDE DEF v
  <2>5. v \in GoodRow
    BY <2>1, <2>3, <2>4 DEF GoodRow
  <2>6. OpenQty(v) = OpenQty(w) + give[k]
    BY <2>1, <2>3, <2>4 DEF OpenQty
  <2>7. QED BY <2>2, <2>4, <2>5, <2>6 DEF w
<1>8. f \in [DOMAIN rws -> GoodRow] /\ DOMAIN f = DOMAIN rws
  BY <1>3, <1>7
<1>9. give \in [DOMAIN rws -> Int]
  BY <1>5, <1>6a
<1>10. SumFunction([k \in DOMAIN rws |-> o[k] + give[k]]) = SumFunction(o) + SumFunction(give)
  BY <1>1, <1>4, <1>9, SumPlus
<1>11. [k \in DOMAIN rws |-> o[k] + give[k]] = [k \in DOMAIN f |-> OpenQty(f[k])]
  BY <1>4, <1>7, <1>8
<1>12. OpenOf(f) = OpenOf(rws) + SumFunction(give)
  BY <1>4, <1>10, <1>11 DEF OpenOf
<1>13. f \in Seq(GoodRow) /\ (f = << >> => rws = << >>)
  BY <1>8, RowsMake
<1>14. OpenOf(rws) \in Nat
  BY OpenNat
<1>15. OpenOf(f) <= OpenOf(rws) + q
  BY <1>6b, <1>12, <1>14
<1>16. Live(rws) = {} => Live(f) = {}
  BY <1>7, <1>8 DEF Live
<1>17. QED BY <1>13, <1>15, <1>16 DEF f

\* With no live row nothing is open.
LEMMA NoLiveNoOpen ==
  ASSUME NEW rws \in Seq(GoodRow), Live(rws) = {}
  PROVE  OpenOf(rws) = 0
<1>1. [k \in DOMAIN rws |-> OpenQty(rws[k])] = [k \in DOMAIN rws |-> 0]
  BY DEF Live, OpenQty
<1>2. QED BY <1>1, RowsAre, ZeroSum DEF OpenOf

-----------------------------------------------------------------------------
(* What a step does to the record of the request that takes it. *)

\* A request's record, part by part.
LEMMA TxParts ==
  ASSUME tx \in [Req -> TxRow], NEW q \in Req
  PROVE  /\ tx[q].pc \in Pc /\ tx[q].op \in Op /\ tx[q].form \in [Line -> Nat] /\ tx[q].todo \in SUBSET Line
         /\ tx[q].rows \in [Line -> Seq(GoodRow)] /\ tx[q].marked \in SUBSET Item
         /\ tx[q].calc \in [Item -> Int] /\ tx[q].due \in [Line -> LineRow] /\ tx[q].rev \in Nat
  BY DEF TxRow

\* A step that only moves the request on.
LEMMA GoesFields ==
  ASSUME tx \in [Req -> TxRow], NEW q \in Req, NEW step \in Pc,
         tx' = [tx EXCEPT ![q].pc = step]
  PROVE  /\ tx' \in [Req -> TxRow] /\ \A r \in Req : r # q => tx'[r] = tx[r]
         /\ tx'[q].pc = step /\ tx'[q].op = tx[q].op /\ tx'[q].ord = tx[q].ord
         /\ tx'[q].bil = tx[q].bil /\ tx'[q].form = tx[q].form /\ tx'[q].todo = tx[q].todo
         /\ tx'[q].rows = tx[q].rows /\ tx'[q].marked = tx[q].marked /\ tx'[q].calc = tx[q].calc
         /\ tx'[q].due = tx[q].due /\ tx'[q].rev = tx[q].rev
<1> DEFINE t == [tx[q] EXCEPT !.pc = step]
<1>1. tx[q] \in TxRow
  OBVIOUS
<1>2. tx'[q] = t
  OBVIOUS
<1>3. \A r \in Req : r # q => tx'[r] = tx[r]
  OBVIOUS
<1>4. tx' = [r \in Req |-> tx'[r]]
  OBVIOUS
<1>5. t \in TxRow
  BY <1>1 DEF TxRow, Pc
<1>6. \A r \in Req : tx'[r] \in TxRow
  <2>1. ASSUME NEW r \in Req, r # q PROVE tx'[r] \in TxRow
    BY <1>3, <2>1
  <2> HIDE DEF t
  <2>2. QED BY <1>2, <1>5, <2>1
<1>7. tx' \in [Req -> TxRow]
  BY <1>4, <1>6
<1>8. QED BY <1>1, <1>2, <1>3, <1>7 DEF TxRow

\* A step that reserves a line.
WritesRow(q, l, new) ==
  tx' = [tx EXCEPT ![q].rows[l] = new, ![q].todo = @ \ {l}, ![q].pc = "mark"]

\* The fields it leaves.
LEMMA TakeFields ==
  ASSUME tx \in [Req -> TxRow], NEW q \in Req, NEW l \in Line, NEW new \in Seq(GoodRow),
         WritesRow(q, l, new)
  PROVE  /\ tx' \in [Req -> TxRow] /\ \A r \in Req : r # q => tx'[r] = tx[r]
         /\ tx'[q].pc = "mark" /\ tx'[q].op = tx[q].op /\ tx'[q].ord = tx[q].ord
         /\ tx'[q].bil = tx[q].bil /\ tx'[q].form = tx[q].form /\ tx'[q].todo = tx[q].todo \ {l}
         /\ tx'[q].rows = [tx[q].rows EXCEPT ![l] = new] /\ tx'[q].marked = tx[q].marked /\ tx'[q].calc = tx[q].calc
         /\ tx'[q].due = tx[q].due /\ tx'[q].rev = tx[q].rev
<1> DEFINE t == [tx[q] EXCEPT !.rows = [@ EXCEPT ![l] = new], !.todo = @ \ {l}, !.pc = "mark"]
<1>1. tx[q] \in TxRow
  OBVIOUS
<1>2. tx'[q] = t
  BY DEF WritesRow
<1>3. \A r \in Req : r # q => tx'[r] = tx[r]
  BY DEF WritesRow
<1>4. tx' = [r \in Req |-> tx'[r]]
  BY DEF WritesRow
<1>5. t \in TxRow
  BY <1>1 DEF TxRow, Pc
<1>6. \A r \in Req : tx'[r] \in TxRow
  <2>1. ASSUME NEW r \in Req, r # q PROVE tx'[r] \in TxRow
    BY <1>3, <2>1
  <2> HIDE DEF t
  <2>2. QED BY <1>2, <1>5, <2>1
<1>7. tx' \in [Req -> TxRow]
  BY <1>4, <1>6
<1>8. QED BY <1>1, <1>2, <1>3, <1>7 DEF TxRow

\* A step that locks rows and writes them.
WritesRows(q, rws, step) ==
  tx' = [tx EXCEPT ![q].rows = rws, ![q].pc = step]

\* The fields it leaves.
LEMMA RowsFields ==
  ASSUME tx \in [Req -> TxRow], NEW q \in Req, NEW rws \in [Line -> Seq(GoodRow)], NEW step \in Pc,
         WritesRows(q, rws, step)
  PROVE  /\ tx' \in [Req -> TxRow] /\ \A r \in Req : r # q => tx'[r] = tx[r]
         /\ tx'[q].pc = step /\ tx'[q].op = tx[q].op /\ tx'[q].ord = tx[q].ord
         /\ tx'[q].bil = tx[q].bil /\ tx'[q].form = tx[q].form /\ tx'[q].todo = tx[q].todo
         /\ tx'[q].rows = rws /\ tx'[q].marked = tx[q].marked /\ tx'[q].calc = tx[q].calc
         /\ tx'[q].due = tx[q].due /\ tx'[q].rev = tx[q].rev
<1> DEFINE t == [tx[q] EXCEPT !.rows = rws, !.pc = step]
<1>1. tx[q] \in TxRow
  OBVIOUS
<1>2. tx'[q] = t
  BY DEF WritesRows
<1>3. \A r \in Req : r # q => tx'[r] = tx[r]
  BY DEF WritesRows
<1>4. tx' = [r \in Req |-> tx'[r]]
  BY DEF WritesRows
<1>5. t \in TxRow
  BY <1>1 DEF TxRow, Pc
<1>6. \A r \in Req : tx'[r] \in TxRow
  <2>1. ASSUME NEW r \in Req, r # q PROVE tx'[r] \in TxRow
    BY <1>3, <2>1
  <2> HIDE DEF t
  <2>2. QED BY <1>2, <1>5, <2>1
<1>7. tx' \in [Req -> TxRow]
  BY <1>4, <1>6
<1>8. QED BY <1>1, <1>2, <1>3, <1>7 DEF TxRow

\* A step that sums the figures of the holdings.
Marks(q, m, c, step) ==
  tx' = [tx EXCEPT ![q].marked = m, ![q].calc = c, ![q].pc = step]

\* The fields it leaves.
LEMMA MarkFields ==
  ASSUME tx \in [Req -> TxRow], NEW q \in Req, NEW m \in SUBSET Item, NEW c \in [Item -> Int], NEW step \in Pc,
         Marks(q, m, c, step)
  PROVE  /\ tx' \in [Req -> TxRow] /\ \A r \in Req : r # q => tx'[r] = tx[r]
         /\ tx'[q].pc = step /\ tx'[q].op = tx[q].op /\ tx'[q].ord = tx[q].ord
         /\ tx'[q].bil = tx[q].bil /\ tx'[q].form = tx[q].form /\ tx'[q].todo = tx[q].todo
         /\ tx'[q].rows = tx[q].rows /\ tx'[q].marked = m /\ tx'[q].calc = c
         /\ tx'[q].due = tx[q].due /\ tx'[q].rev = tx[q].rev
<1> DEFINE t == [tx[q] EXCEPT !.marked = m, !.calc = c, !.pc = step]
<1>1. tx[q] \in TxRow
  OBVIOUS
<1>2. tx'[q] = t
  BY DEF Marks
<1>3. \A r \in Req : r # q => tx'[r] = tx[r]
  BY DEF Marks
<1>4. tx' = [r \in Req |-> tx'[r]]
  BY DEF Marks
<1>5. t \in TxRow
  BY <1>1 DEF TxRow, Pc
<1>6. \A r \in Req : tx'[r] \in TxRow
  <2>1. ASSUME NEW r \in Req, r # q PROVE tx'[r] \in TxRow
    BY <1>3, <2>1
  <2> HIDE DEF t
  <2>2. QED BY <1>2, <1>5, <2>1
<1>7. tx' \in [Req -> TxRow]
  BY <1>4, <1>6
<1>8. QED BY <1>1, <1>2, <1>3, <1>7 DEF TxRow

\* A step that recomputes the lines.
Syncs(q, d, td) ==
  tx' = [tx EXCEPT ![q].due = d, ![q].pc = "commit", ![q].todo = td]

\* The fields it leaves.
LEMMA SyncFields ==
  ASSUME tx \in [Req -> TxRow], NEW q \in Req, NEW d \in [Line -> LineRow], NEW td \in SUBSET Line,
         Syncs(q, d, td)
  PROVE  /\ tx' \in [Req -> TxRow] /\ \A r \in Req : r # q => tx'[r] = tx[r]
         /\ tx'[q].pc = "commit" /\ tx'[q].op = tx[q].op /\ tx'[q].ord = tx[q].ord
         /\ tx'[q].bil = tx[q].bil /\ tx'[q].form = tx[q].form /\ tx'[q].todo = td
         /\ tx'[q].rows = tx[q].rows /\ tx'[q].marked = tx[q].marked /\ tx'[q].calc = tx[q].calc
         /\ tx'[q].due = d /\ tx'[q].rev = tx[q].rev
<1> DEFINE t == [tx[q] EXCEPT !.due = d, !.pc = "commit", !.todo = td]
<1>1. tx[q] \in TxRow
  OBVIOUS
<1>2. tx'[q] = t
  BY DEF Syncs
<1>3. \A r \in Req : r # q => tx'[r] = tx[r]
  BY DEF Syncs
<1>4. tx' = [r \in Req |-> tx'[r]]
  BY DEF Syncs
<1>5. t \in TxRow
  BY <1>1 DEF TxRow, Pc
<1>6. \A r \in Req : tx'[r] \in TxRow
  <2>1. ASSUME NEW r \in Req, r # q PROVE tx'[r] \in TxRow
    BY <1>3, <2>1
  <2> HIDE DEF t
  <2>2. QED BY <1>2, <1>5, <2>1
<1>7. tx' \in [Req -> TxRow]
  BY <1>4, <1>6
<1>8. QED BY <1>1, <1>2, <1>3, <1>7 DEF TxRow

\* A step that gives the request a new record.
LEMMA RecordFields ==
  ASSUME tx \in [Req -> TxRow], NEW q \in Req, NEW t \in TxRow, tx' = [tx EXCEPT ![q] = t]
  PROVE  tx' \in [Req -> TxRow] /\ tx'[q] = t /\ \A r \in Req : r # q => tx'[r] = tx[r]
  OBVIOUS

\* The record of a request that does nothing.
LEMMA IdleType ==
  /\ Idle \in TxRow /\ Idle.pc = "idle" /\ Idle.op = "confirm" /\ Idle.marked = {} /\ Idle.todo = {}
  /\ Idle.form = NoQty /\ Idle.rev = 0 /\ NoQty \in [Line -> Nat] /\ Billed(NoQty) = {}
<1>1. NoQty \in [Line -> Nat] /\ Billed(NoQty) = {}
  BY DEF NoQty, Billed
<1>2. [l \in Line |-> << >>] \in [Line -> Seq(GoodRow)]
  OBVIOUS
<1>3. [l \in Line |-> NoLine] \in [Line -> LineRow]
  BY DEF NoLine, LineRow
<1> HIDE DEF NoQty
<1>4. QED BY <1>1, <1>2, <1>3 DEF Idle, TxRow, Pc, Op, OrderOp

\* The record of a confirm, a cancel or a delete that begins.
OrderTx(step, p, o) == [Idle EXCEPT !.pc = step, !.op = p, !.ord = o]

\* It is a record of its type.
LEMMA OrderRecord ==
  ASSUME NEW o \in Order, NEW p \in Op, NEW step \in Pc,
         NEW t, t = OrderTx(step, p, o)
  PROVE  /\ t \in TxRow
         /\ t.pc = step /\ t.op = p /\ t.ord = o /\ t.form = NoQty
         /\ t.todo = {} /\ t.marked = {} /\ t.rev = 0
  BY IdleType DEF OrderTx, TxRow, Pc, Op, OrderOp, BillOp

\* The record of a cancel of lines that begins.
CutTx(o, m, a) == [Idle EXCEPT !.pc = "commit", !.op = "cut", !.ord = o, !.todo = m, !.due = a]

\* It is a record of its type.
LEMMA CutRecord ==
  ASSUME NEW o \in Order, NEW m \in SUBSET Line, NEW a \in [Line -> LineRow],
         NEW t, t = CutTx(o, m, a)
  PROVE  /\ t \in TxRow
         /\ t.pc = "commit" /\ t.op = "cut" /\ t.ord = o /\ t.form = NoQty
         /\ t.todo = m /\ t.marked = {} /\ t.due = a /\ t.rev = 0
  BY IdleType DEF CutTx, TxRow, Pc, Op, OrderOp, BillOp

\* The record of a save that begins.
SaveTx(o, f) == [Idle EXCEPT !.pc = "save", !.op = "save", !.ord = o, !.form = f]

\* It is a record of its type.
LEMMA SaveRecord ==
  ASSUME NEW o \in Order, NEW f \in [Line -> Nat],
         NEW t, t = SaveTx(o, f)
  PROVE  /\ t \in TxRow
         /\ t.pc = "save" /\ t.op = "save" /\ t.ord = o /\ t.form = f
         /\ t.todo = {} /\ t.marked = {} /\ t.rev = 0
  BY IdleType DEF SaveTx, TxRow, Pc, Op, OrderOp, BillOp

\* The record of an amend that begins.
AmendTx(o, n, f) == [Idle EXCEPT !.pc = "save", !.op = "amend", !.ord = o, !.rev = n, !.form = f]

\* It is a record of its type.
LEMMA AmendRecord ==
  ASSUME NEW o \in Order, NEW n \in Nat, NEW f \in [Line -> Nat],
         NEW t, t = AmendTx(o, n, f)
  PROVE  /\ t \in TxRow
         /\ t.pc = "save" /\ t.op = "amend" /\ t.ord = o /\ t.form = f
         /\ t.todo = {} /\ t.marked = {} /\ t.rev = n
  BY IdleType DEF AmendTx, TxRow, Pc, Op, OrderOp, BillOp

\* The record of a bill's request that begins.
BillTx(step, p, o, b, f) == [Idle EXCEPT !.pc = step, !.op = p, !.ord = o, !.bil = b, !.form = f]

\* It is a record of its type.
LEMMA BillRecord ==
  ASSUME NEW o \in Order, NEW b \in Bill, NEW p \in Op, NEW step \in Pc, NEW f \in [Line -> Nat],
         NEW t, t = BillTx(step, p, o, b, f)
  PROVE  /\ t \in TxRow
         /\ t.pc = step /\ t.op = p /\ t.ord = o /\ t.bil = b
         /\ t.form = f /\ t.todo = {} /\ t.marked = {} /\ t.rev = 0
  BY IdleType DEF BillTx, TxRow, Pc, Op, OrderOp, BillOp

\* Another request's lock is neither taken nor given by a step of q.
Away(q) ==
  \A r \in Req \ {q} :
    /\ tx'[r] = tx[r]
    /\ \A o \in Order : orderLock'[o] = r <=> orderLock[o] = r
    /\ \A l \in Line : rowLock'[l] = r <=> rowLock[l] = r
    /\ \A i \in Item : itemLock'[i] = r <=> itemLock[i] = r
    /\ \A b \in Bill : billLock'[b] = r <=> billLock[b] = r

LockTypes ==
  /\ orderLock \in [Order -> Req \cup {None}] /\ rowLock \in [Line -> Req \cup {None}]
  /\ itemLock \in [Item -> Req \cup {None}] /\ billLock \in [Bill -> Req \cup {None}]

\* The locks of q are gone after its transaction, and nobody else's.
LEMMA ReleaseStep ==
  ASSUME Typed, NEW q \in Req, Release(q)
  PROVE  /\ tx' \in [Req -> TxRow] /\ tx'[q] = Idle /\ Away(q) /\ LockTypes'
         /\ \A l \in Line : rowLock'[l] # q
<1>1. tx' \in [Req -> TxRow] /\ tx'[q] = Idle /\ \A r \in Req : r # q => tx'[r] = tx[r]
  BY IdleType, RecordFields DEF Typed, Release
<1>2. LockTypes
  BY DEF Typed, TypeOK, LockTypes
<1>3. LockTypes'
  BY <1>2 DEF LockTypes, Release
<1>4. None # q /\ None \notin Req
  BY NoneAssumption
<1>5. Away(q)
  BY <1>1, <1>2, <1>4 DEF Away, LockTypes, Release
<1>6. \A l \in Line : rowLock'[l] # q
  BY <1>4 DEF Release
<1>7. QED BY <1>1, <1>3, <1>5, <1>6

\* A step that writes no row of the database.
Quiet(q) == tx' \in [Req -> TxRow] /\ Away(q) /\ LockTypes' /\ UNCHANGED rows

-----------------------------------------------------------------------------
(* Requests that arrive. *)

\* A bill belongs to an order.
LEMMA OrderOfBillType ==
  ASSUME NEW b \in Bill
  PROVE  OrderOfBill(b) \in Order
<1>1. \E l \in Billed(Draft[b]) : TRUE
  BY BillAssumption
<1>2. (CHOOSE l \in Billed(Draft[b]) : TRUE) \in Line
  BY <1>1 DEF Billed
<1>3. QED BY <1>2, LineAssumption DEF OrderOfBill

\* A request that begins holds no row and has marked nothing.
LEMMA ArriveHeld ==
  ASSUME LockInv, NEW q \in Req, tx[q].pc = "idle", UNCHANGED <<rsv, rowLock>>,
         tx'[q].pc \in {"lock", "save", "commit", "early", "guard", "items"},
         tx'[q].marked = {}, Stage(q)', About(q)',
         tx'[q].pc = "commit" => tx'[q].op \in {"cut", "delete"}
  PROVE  Held(q)'
<1>1. \A l \in Line : rowLock[l] # q
  BY DEF LockInv, Held, OwnRows
<1>2. \A l \in Line : rowLock'[l] # q
  BY <1>1
<1>3. OwnRows(q)'
  BY <1>2 DEF OwnRows
<1>4. Marked(q)'
  BY <1>2 DEF Marked
<1>5. ~HoldsOrder(q)' /\ Ready(q)'
  BY DEF HoldsOrder, BillOp, Ready
<1>6. QED BY <1>3, <1>4, <1>5 DEF Held

\* An arrival on an order leaves the locks alone.
LEMMA UnlockedAway ==
  ASSUME Typed, NEW q \in Req, NEW t \in TxRow, tx' = [tx EXCEPT ![q] = t], UNCHANGED <<rows, locks>>
  PROVE  Quiet(q) /\ tx'[q] = t /\ UNCHANGED <<rsv, rowLock>>
<1>1. tx' \in [Req -> TxRow] /\ tx'[q] = t /\ \A r \in Req : r # q => tx'[r] = tx[r]
  BY RecordFields DEF Typed
<1>2. Away(q) /\ LockTypes'
  BY <1>1 DEF Away, locks, LockTypes, Typed, TypeOK
<1>3. UNCHANGED <<rsv, rowLock>>
  BY DEF rows, locks
<1>4. QED BY <1>1, <1>2, <1>3 DEF Quiet

\* A confirm or a cancel arrives holding nothing.
LEMMA OrderRequestHeld ==
  ASSUME LockInv, NEW q \in Req, NEW o \in Order, NEW p \in OrderOp, OrderRequest(q, o, p)
  PROVE  Quiet(q) /\ Held(q)' /\ ~HoldsOrder(q)' /\ tx'[q].op \in OrderOp
<1> DEFINE t == OrderTx("lock", p, o)
<1>1. p \in Op /\ "lock" \in Pc
  BY DEF Op, Pc
<1>2. t \in TxRow /\ t.pc = "lock" /\ t.op = p /\ t.ord = o /\ t.form = NoQty /\ t.todo = {} /\ t.marked = {}
  BY <1>1, OrderRecord
<1>3. tx' = [tx EXCEPT ![q] = t] /\ UNCHANGED <<rows, locks>> /\ Typed
  BY DEF OrderRequest, LockInv, OrderTx
<1> HIDE DEF t
<1>4. Quiet(q) /\ tx'[q] = t /\ UNCHANGED <<rsv, rowLock>>
  BY <1>2, <1>3, UnlockedAway
<1>5. Stage(q)'
  BY <1>2, <1>4 DEF Stage, OrderRequest
<1>6. About(q)'
  BY <1>2, <1>4, IdleType DEF About, OrderRequest, BillOp
<1>7. Held(q)'
  BY <1>2, <1>4, <1>5, <1>6, ArriveHeld DEF OrderRequest
<1>8. QED BY <1>2, <1>4, <1>7 DEF HoldsOrder, OrderOp, BillOp

\* A delete arrives holding nothing, and locks nothing before its commit.
LEMMA DeleteRequestHeld ==
  ASSUME LockInv, NEW q \in Req, NEW o \in Order, DeleteRequest(q, o)
  PROVE  Quiet(q) /\ Held(q)' /\ ~HoldsOrder(q)' /\ tx'[q].op \in OrderOp
<1> DEFINE t == OrderTx("commit", "delete", o)
<1>1. "delete" \in Op /\ "commit" \in Pc
  BY DEF Op, OrderOp, Pc
<1>2. t \in TxRow /\ t.pc = "commit" /\ t.op = "delete" /\ t.ord = o /\ t.form = NoQty /\ t.todo = {} /\ t.marked = {}
  BY <1>1, OrderRecord
<1>3. tx' = [tx EXCEPT ![q] = t] /\ UNCHANGED <<rows, locks>> /\ Typed
  BY DEF DeleteRequest, LockInv, OrderTx
<1> HIDE DEF t
<1>4. Quiet(q) /\ tx'[q] = t /\ UNCHANGED <<rsv, rowLock>>
  BY <1>2, <1>3, UnlockedAway
<1>5. Stage(q)'
  BY <1>2, <1>4 DEF Stage
<1>6. About(q)'
  BY <1>2, <1>4, IdleType DEF About, DeleteRequest, BillOp
<1>7. Held(q)'
  BY <1>2, <1>4, <1>5, <1>6, ArriveHeld DEF DeleteRequest
<1>8. QED BY <1>2, <1>4, <1>7 DEF HoldsOrder, OrderOp, BillOp

\* What a cancel of lines reads is a table of lines.
LEMMA CutLines ==
  ASSUME Typed, NEW m \in SUBSET Line, \A l \in m : Pending(line[l]) > 0
  PROVE  [l \in Line |-> IF l \in m THEN [line[l] EXCEPT !.cancelled = @ + Pending(line[l])] ELSE line[l]]
           \in [Line -> LineRow]
<1> SUFFICES ASSUME NEW l \in Line
             PROVE  (IF l \in m THEN [line[l] EXCEPT !.cancelled = @ + Pending(line[l])] ELSE line[l]) \in LineRow
  OBVIOUS
<1>1. line[l] \in LineRow
  BY DEF Typed, GoodLine
<1> DEFINE ln == line[l]
<1> HIDE DEF ln
<1>2. ln \in LineRow /\ (l \in m => Pending(ln) > 0)
  BY <1>1 DEF ln
<1>3. l \in m => [ln EXCEPT !.cancelled = @ + Pending(ln)] \in LineRow
  BY <1>2 DEF LineRow, Pending
<1>4. QED BY <1>1, <1>3 DEF ln

\* A cancel of lines reads them and holds nothing.
LEMMA ReadLinesHeld ==
  ASSUME LockInv, NEW q \in Req, NEW o \in Order, ReadLines(q, o)
  PROVE  Quiet(q) /\ Held(q)' /\ ~HoldsOrder(q)' /\ tx'[q].op \in OrderOp
<1>0. Typed
  BY DEF LockInv
<1>1. PICK named \in {LinesOf(o)} \cup {{l} : l \in LinesOf(o)} :
        LET moved == {l \in named : Pending(line[l]) > 0}
            after == [l \in Line |->
              IF l \in moved THEN [line[l] EXCEPT !.cancelled = @ + Pending(line[l])] ELSE line[l]]
        IN tx' = [tx EXCEPT ![q] = [Idle EXCEPT
                    !.pc = "commit", !.op = "cut", !.ord = o, !.todo = moved, !.due = after]]
  BY DEF ReadLines
<1> DEFINE m == {l \in named : Pending(line[l]) > 0}
           a == [l \in Line |-> IF l \in m THEN [line[l] EXCEPT !.cancelled = @ + Pending(line[l])] ELSE line[l]]
           t == CutTx(o, m, a)
<1>2. m \in SUBSET Line /\ m \subseteq LinesOf(o) /\ \A l \in m : Pending(line[l]) > 0
  BY DEF LinesOf
<1>3. tx' = [tx EXCEPT ![q] = t] /\ UNCHANGED <<rows, locks>>
  BY <1>1 DEF ReadLines, CutTx
<1> HIDE DEF m
<1>4. a \in [Line -> LineRow]
  BY <1>0, <1>2, CutLines
<1> HIDE DEF a
<1>5. t \in TxRow /\ t.pc = "commit" /\ t.op = "cut" /\ t.ord = o /\ t.form = NoQty /\ t.todo = m /\ t.marked = {}
  BY <1>2, <1>4, CutRecord
<1> HIDE DEF t
<1>6. Quiet(q) /\ tx'[q] = t /\ UNCHANGED <<rsv, rowLock>>
  BY <1>0, <1>3, <1>5, UnlockedAway
<1>7. Stage(q)'
  BY <1>5, <1>6 DEF Stage
<1>8. About(q)'
  BY <1>2, <1>5, <1>6, IdleType DEF About, ReadLines, BillOp
<1>9. Held(q)'
  BY <1>5, <1>6, <1>7, <1>8, ArriveHeld DEF ReadLines
<1>10. QED BY <1>5, <1>6, <1>9 DEF HoldsOrder, OrderOp, BillOp

\* An edit names one line of the order.
LEMMA EditForm ==
  ASSUME NEW o \in Order, NEW l \in LinesOf(o), NEW n \in Edit
  PROVE  LET f == [NoQty EXCEPT ![l] = n] IN f \in [Line -> Nat] /\ Billed(f) \subseteq LinesOf(o)
<1>1. l \in Line /\ n \in Nat
  BY EditAssumption DEF LinesOf
<1>2. QED BY <1>1 DEF NoQty, Billed

\* A save of a draft brings its new quantity and holds nothing.
LEMMA SaveRequestHeld ==
  ASSUME LockInv, NEW q \in Req, NEW o \in Order, SaveRequest(q, o)
  PROVE  Quiet(q) /\ Held(q)' /\ ~HoldsOrder(q)' /\ tx'[q].op \in OrderOp
<1>0. Typed
  BY DEF LockInv
<1>1. PICK l \in LinesOf(o), n \in Edit :
        tx' = [tx EXCEPT ![q] = [Idle EXCEPT
                 !.pc = "save", !.op = "save", !.ord = o, !.form = [NoQty EXCEPT ![l] = n]]]
  BY DEF SaveRequest
<1> DEFINE f == [NoQty EXCEPT ![l] = n]
           t == SaveTx(o, f)
<1>2. f \in [Line -> Nat] /\ Billed(f) \subseteq LinesOf(o)
  BY EditForm
<1>3. tx' = [tx EXCEPT ![q] = t] /\ UNCHANGED <<rows, locks>>
  BY <1>1 DEF SaveRequest, SaveTx
<1> HIDE DEF f
<1>4. t \in TxRow /\ t.pc = "save" /\ t.op = "save" /\ t.ord = o /\ t.form = f /\ t.todo = {} /\ t.marked = {}
  BY <1>2, SaveRecord
<1> HIDE DEF t
<1>5. Quiet(q) /\ tx'[q] = t /\ UNCHANGED <<rsv, rowLock>>
  BY <1>0, <1>3, <1>4, UnlockedAway
<1>6. Stage(q)'
  BY <1>4, <1>5 DEF Stage
<1>7. About(q)'
  BY <1>2, <1>4, <1>5 DEF About, SaveRequest, BillOp
<1>8. Held(q)'
  BY <1>4, <1>5, <1>6, <1>7, ArriveHeld DEF SaveRequest
<1>9. QED BY <1>4, <1>5, <1>8 DEF HoldsOrder, OrderOp, BillOp

\* An amend that passes its gate holds nothing yet.
LEMMA AmendGateHeld ==
  ASSUME LockInv, NEW q \in Req, NEW o \in Order, AmendGate(q, o)
  PROVE  Quiet(q) /\ Held(q)' /\ ~HoldsOrder(q)' /\ tx'[q].op \in OrderOp
<1>0. Typed /\ revision[o] \in Nat
  BY DEF LockInv, Typed, TypeOK
<1>1. PICK l \in LinesOf(o), n \in Edit :
        tx' = [tx EXCEPT ![q] = [Idle EXCEPT
                 !.pc = "save", !.op = "amend", !.ord = o, !.rev = revision[o],
                 !.form = [NoQty EXCEPT ![l] = n]]]
  BY DEF AmendGate
<1> DEFINE f == [NoQty EXCEPT ![l] = n]
           v == revision[o]
           t == AmendTx(o, v, f)
<1>2. f \in [Line -> Nat] /\ Billed(f) \subseteq LinesOf(o)
  BY EditForm
<1>3. tx' = [tx EXCEPT ![q] = t] /\ UNCHANGED <<rows, locks>>
  BY <1>1 DEF AmendGate, AmendTx
<1>3a. v \in Nat
  BY <1>0
<1> HIDE DEF f, v
<1>3b. t = AmendTx(o, v, f)
  OBVIOUS
<1> HIDE DEF t
<1>4. t \in TxRow /\ t.pc = "save" /\ t.op = "amend" /\ t.ord = o /\ t.form = f /\ t.todo = {} /\ t.marked = {}
  <2>1. f \in [Line -> Nat]
    BY <1>2
  <2>2. QED BY <1>3a, <1>3b, <2>1, AmendRecord
<1>5. Quiet(q) /\ tx'[q] = t /\ UNCHANGED <<rsv, rowLock>>
  BY <1>0, <1>3, <1>4, UnlockedAway
<1>6. Stage(q)'
  BY <1>4, <1>5 DEF Stage
<1>7. About(q)'
  BY <1>2, <1>4, <1>5 DEF About, AmendGate, BillOp
<1>8. Held(q)'
  BY <1>4, <1>5, <1>6, <1>7, ArriveHeld DEF AmendGate
<1>9. QED BY <1>4, <1>5, <1>8 DEF HoldsOrder, OrderOp, BillOp

\* A bill's request takes the bill's row first.
LEMMA BillRequestHeld ==
  ASSUME LockInv, NEW q \in Req, NEW b \in Bill, NEW p \in BillOp, NEW step \in {"early", "guard", "items"},
         NEW f \in [Line -> Nat], Billed(f) \subseteq LinesOf(OrderOfBill(b)), BillRequest(q, b, p, f, step),
         bill[b].status = IF p \in {"post", "savePost"} THEN "DRAFT" ELSE "POSTED"
  PROVE  /\ Quiet(q) /\ Held(q)' /\ ~HoldsOrder(q)'
         /\ tx'[q].op = p /\ tx'[q].pc = step /\ tx'[q].bil = b /\ tx'[q].ord = OrderOfBill(b)
<1> DEFINE o == OrderOfBill(b)
           t == BillTx(step, p, o, b, f)
<1>1. Typed /\ LockTypes
  BY DEF LockInv, Typed, TypeOK, LockTypes
<1>2. o \in Order
  BY OrderOfBillType
<1>3. tx' = [tx EXCEPT ![q] = t] /\ UNCHANGED <<rows, orderLock, rowLock, itemLock>>
  BY DEF BillRequest, BillTx
<1>4. tx[q].pc = "idle" /\ p \in Offered[o] /\ billLock[b] = None /\ billLock' = [billLock EXCEPT ![b] = q]
  BY DEF BillRequest
<1>5. p \in Op /\ step \in Pc
  BY DEF Op, Pc
<1> HIDE DEF o
<1>6. t \in TxRow /\ t.pc = step /\ t.op = p /\ t.ord = o /\ t.bil = b /\ t.form = f /\ t.todo = {} /\ t.marked = {}
  BY <1>2, <1>5, BillRecord
<1> HIDE DEF t
<1>7. tx' \in [Req -> TxRow] /\ tx'[q] = t /\ \A r \in Req : r # q => tx'[r] = tx[r]
  BY <1>1, <1>3, <1>6, RecordFields DEF Typed
<1>8. LockTypes'
  BY <1>1, <1>3, <1>4 DEF LockTypes
<1>9. Away(q)
  BY <1>1, <1>3, <1>4, <1>7, NoneAssumption DEF Away, LockTypes
<1>10. Quiet(q)
  BY <1>3, <1>7, <1>8, <1>9 DEF Quiet
<1>11. UNCHANGED <<rsv, rowLock, bill>>
  BY <1>3 DEF rows
<1>12. Stage(q)'
  BY <1>6, <1>7 DEF Stage
<1>13. About(q)'
  <2>1. billLock'[b] = q
    BY <1>1, <1>4 DEF LockTypes
  <2>2. QED BY <1>2, <1>4, <1>6, <1>7, <1>11, <2>1 DEF About, o
<1>14. Held(q)'
  BY <1>4, <1>6, <1>7, <1>11, <1>12, <1>13, ArriveHeld
<1>15. QED BY <1>6, <1>7, <1>10, <1>14 DEF HoldsOrder, BillOp, o

\* A bill's request locks its own bill and nothing else.
LEMMA BillArrivalHeld ==
  ASSUME LockInv, NEW q \in Req, NEW b \in Bill,
         PostBill(q, b) \/ SavePostBill(q, b) \/ CancelBill(q, b) \/ AmendBill(q, b)
  PROVE  /\ Quiet(q) /\ Held(q)' /\ ~HoldsOrder(q)'
         /\ tx'[q].op \in BillOp /\ tx'[q].bil = b /\ tx'[q].ord = OrderOfBill(b)
         /\ tx'[q].pc \in {"early", "guard", "items"}
         /\ tx'[q].pc = "items" => bill[b].status = "POSTED"
<1>0. /\ bill[b].take \in [Line -> Nat] /\ bill[b].status \in {"DRAFT", "POSTED", "CANCELLED"}
      /\ Billed(bill[b].take) \subseteq LinesOf(OrderOfBill(b))
  BY DEF LockInv, Typed, TypeOK
<1> DEFINE f == bill[b].take
<1>1. CASE PostBill(q, b)
  <2>1. bill[b].status = "DRAFT" /\ BillRequest(q, b, "post", f, "guard")
    BY <1>1 DEF PostBill
  <2> HIDE DEF f
  <2>2. f \in [Line -> Nat] /\ Billed(f) \subseteq LinesOf(OrderOfBill(b))
    BY <1>0 DEF f
  <2>3. QED BY <2>1, <2>2, BillRequestHeld DEF BillOp
<1>2. CASE SavePostBill(q, b)
  <2>1. bill[b].status = "DRAFT" /\ BillRequest(q, b, "savePost", f, "early")
    BY <1>2 DEF SavePostBill
  <2> HIDE DEF f
  <2>2. f \in [Line -> Nat] /\ Billed(f) \subseteq LinesOf(OrderOfBill(b))
    BY <1>0 DEF f
  <2>3. QED BY <2>1, <2>2, BillRequestHeld DEF BillOp
<1>3. CASE CancelBill(q, b)
  <2>1. bill[b].status = "POSTED" /\ BillRequest(q, b, "unpost", NoQty, "items")
    BY <1>3 DEF CancelBill
  <2>2. NoQty \in [Line -> Nat] /\ Billed(NoQty) \subseteq LinesOf(OrderOfBill(b))
    BY IdleType
  <2>3. QED BY <2>1, <2>2, BillRequestHeld DEF BillOp
<1>4. CASE AmendBill(q, b)
  <2>1. PICK g \in Rebill : bill[b].status = "POSTED" /\ Billed(g) \subseteq LinesOf(OrderOfBill(b))
                            /\ BillRequest(q, b, "rebill", g, "items")
    BY <1>4 DEF AmendBill
  <2>2. g \in [Line -> Nat]
    BY BillAssumption
  <2>3. QED BY <2>1, <2>2, BillRequestHeld DEF BillOp
<1>5. QED BY <1>1, <1>2, <1>3, <1>4

-----------------------------------------------------------------------------
(* The quantities a transaction computes. *)

\* The rows a transaction sees.
LEMMA ViewType ==
  ASSUME Typed, NEW q \in Req
  PROVE  /\ \A l \in Line : View(q, l) \in Seq(GoodRow)
         /\ [l \in Line |-> View(q, l)] \in [Line -> Seq(GoodRow)]
         /\ Holdings(q) \in SUBSET Item
<1>1. tx[q].rows \in [Line -> Seq(GoodRow)] /\ rsv \in [Line -> Seq(GoodRow)]
  BY TxParts DEF Typed
<1>2. \A l \in Line : View(q, l) \in Seq(GoodRow)
  BY <1>1 DEF View
<1>3. Holdings(q) \in SUBSET Item
  BY ItemAssumption DEF Holdings, LinesOf
<1>4. QED BY <1>2, <1>3

\* The reserved figure of an item.
LEMMA ReservedNat ==
  ASSUME NEW rws \in [Line -> Seq(GoodRow)], NEW i \in Item
  PROVE  ReservedOf(i, rws) \in Nat
<1>1. [l \in Line |-> IF ItemOf[l] = i THEN OpenOf(rws[l]) ELSE 0] \in [Line -> Nat]
  BY OpenNat
<1>2. QED BY <1>1, SumNat, LineAssumption DEF ReservedOf

\* What is on hand of an item.
LEMMA OnHandType ==
  ASSUME Typed, NEW i \in Item
  PROVE  OnHand(i) \in Int
<1> DEFINE Out(b) == [l \in Line |-> IF ItemOf[l] = i THEN bill[b].take[l] ELSE 0]
           f == [b \in Bill |-> IF bill[b].status = "POSTED" THEN SumFunction(Out(b)) ELSE 0]
<1>1. ASSUME NEW b \in Bill PROVE SumFunction(Out(b)) \in Int
  <2>1. bill[b].take \in [Line -> Nat]
    BY DEF Typed, TypeOK
  <2>2. Out(b) \in [Line -> Int]
    BY <2>1
  <2>3. QED BY <2>2, SumType, LineAssumption
<1>2. f \in [Bill -> Int]
  BY <1>1
<1>3. SumFunction(f) \in Int
  BY <1>2, SumType, BillAssumption
<1>4. OnHand(i) = Stock[i] - SumFunction(f)
  BY DEF OnHand
<1>5. QED BY <1>3, <1>4, ItemAssumption

\* The rows reserve leaves a line with.
LineRows(q, l) ==
  LET i == ItemOf[l]
      kept == Released(View(q, l))
      seen == [k \in Line |-> IF k = l THEN kept ELSE View(q, k)]
      want == IF Pending(line[l]) > 0 THEN Pending(line[l]) ELSE line[l].qty
      free == OnHand(i) - (IF i \in Holdings(q) THEN ReservedOf(i, seen) ELSE reserved[i])
  IN IF free <= 0 THEN kept
     ELSE Append(kept, [res |-> Least(free, want), con |-> 0, rel |-> FALSE])

\* They hold what the line wants at most.
LEMMA LineRowsType ==
  ASSUME Typed, NEW q \in Req, NEW l \in Line
  PROVE  /\ LineRows(q, l) \in Seq(GoodRow)
         /\ (LineRows(q, l) = << >> => View(q, l) = << >>)
         /\ (Pending(line[l]) > 0 => OpenOf(LineRows(q, l)) <= Pending(line[l]))
<1> DEFINE i == ItemOf[l]
           kept == Released(View(q, l))
           seen == [k \in Line |-> IF k = l THEN kept ELSE View(q, k)]
           want == IF Pending(line[l]) > 0 THEN Pending(line[l]) ELSE line[l].qty
           free == OnHand(i) - (IF i \in Holdings(q) THEN ReservedOf(i, seen) ELSE reserved[i])
           n == Least(free, want)
<1>1. kept \in Seq(GoodRow) /\ OpenOf(kept) = 0 /\ (kept = << >> => View(q, l) = << >>)
  BY ViewType, ReleasedRows
<1>2. i \in Item /\ OnHand(i) \in Int /\ reserved[i] \in Int
  BY ItemAssumption, OnHandType DEF Typed, TypeOK
<1>3. ReservedOf(i, seen) \in Int
  <2> HIDE DEF kept, i
  <2>1. seen \in [Line -> Seq(GoodRow)]
    BY <1>1, ViewType
  <2> HIDE DEF seen
  <2>2. QED BY <1>2, <2>1, ReservedNat
<1>4. free \in Int
  <2> HIDE DEF seen, i
  <2>1. QED BY <1>2, <1>3
<1>5. Pending(line[l]) \in Int /\ line[l].qty \in Nat
  BY DEF Typed, GoodLine, LineRow, Pending
<1>6. want \in Nat /\ (Pending(line[l]) > 0 => want = Pending(line[l]))
  BY <1>5
<1>7. LineRows(q, l) = IF free <= 0 THEN kept ELSE Append(kept, [res |-> n, con |-> 0, rel |-> FALSE])
  BY DEF LineRows
<1> HIDE DEF free, want, kept
<1>8. CASE free <= 0
  <2>1. LineRows(q, l) = kept
    BY <1>7, <1>8
  <2>2. QED BY <1>1, <1>5, <2>1
<1>9. CASE ~(free <= 0)
  <2>1. n \in Nat /\ n <= want
    BY <1>4, <1>6, <1>9 DEF Least
  <2>2. LineRows(q, l) = Append(kept, [res |-> n, con |-> 0, rel |-> FALSE])
    BY <1>7, <1>9
  <2> HIDE DEF n
  <2> DEFINE new == Append(kept, [res |-> n, con |-> 0, rel |-> FALSE])
  <2>3. new \in Seq(GoodRow) /\ new # << >> /\ OpenOf(new) = OpenOf(kept) + n
    BY <1>1, <2>1, AppendedRows
  <2> HIDE DEF new
  <2>4. LineRows(q, l) = new
    BY <2>2 DEF new
  <2>5. QED BY <1>1, <1>5, <1>6, <2>1, <2>3, <2>4
<1>10. QED BY <1>8, <1>9

\* A bill with its lines, once the transaction is through.
LEMMA BillAfterType ==
  ASSUME Typed, NEW q \in Req, tx[q].bil \in Bill
  PROVE  BillAfter(q) \in BillRow
<1>1. bill[tx[q].bil] \in BillRow /\ tx[q].form \in [Line -> Nat]
  BY TxParts DEF Typed, TypeOK, BillRow
<1> DEFINE w == bill[tx[q].bil]
<1>2. BillAfter(q) = IF tx[q].op = "unpost" THEN [w EXCEPT !.status = "CANCELLED"]
                     ELSE [status |-> "POSTED", take |-> tx[q].form]
  BY DEF BillAfter
<1> HIDE DEF w
<1>3. w \in BillRow
  BY <1>1 DEF w
<1>4. [w EXCEPT !.status = "CANCELLED"] \in BillRow
  BY <1>3 DEF BillRow
<1>5. QED BY <1>1, <1>2, <1>4 DEF BillRow

\* A bill's line under one roof: what it counts for on a line.
Counts(w, l) == IF w.status = "POSTED" THEN w.take[l] ELSE 0

\* What a bill counts for is a quantity.
LEMMA CountsNat ==
  ASSUME NEW w \in BillRow, NEW l \in Line
  PROVE  Counts(w, l) \in Nat
  BY DEF Counts, BillRow

\* What is billed of a line, and what will be.
LEMMA BilledSum ==
  ASSUME Typed, NEW q \in Req, tx[q].bil \in Bill, NEW l \in Line
  PROVE  /\ BilledQty(q, l) \in Nat
         /\ BilledQty(q, l) =
              SumFunction([b \in Bill |-> Counts(bill[b], l)])
                - Counts(bill[tx[q].bil], l) + Counts(BillAfter(q), l)
         /\ SumFunction([b \in Bill |-> Counts(bill[b], l)]) \in Nat
<1> DEFINE f == [b \in Bill |-> Counts(bill[b], l)]
           v == Counts(BillAfter(q), l)
           x == tx[q].bil
           g == [f EXCEPT ![x] = v]
<1>1. \A b \in Bill : bill[b] \in BillRow
  BY DEF Typed, TypeOK, BillRow
<1>2. f \in [Bill -> Nat] /\ f[x] = Counts(bill[x], l) /\ \A b \in Bill : f[b] = Counts(bill[b], l)
  BY <1>1, CountsNat
<1>3. v \in Nat
  BY BillAfterType, CountsNat
<1>4. BilledQty(q, l) = SumFunction([b \in Bill |-> IF b = x THEN v ELSE f[b]])
  <2>1. [b \in Bill |-> LET now == IF b = tx[q].bil THEN BillAfter(q) ELSE bill[b]
                        IN IF now.status = "POSTED" THEN now.take[l] ELSE 0]
          = [b \in Bill |-> IF b = x THEN v ELSE f[b]]
    BY <1>2 DEF Counts
  <2>2. QED BY <2>1 DEF BilledQty
<1> HIDE DEF f, v, x
<1>5. [b \in Bill |-> IF b = x THEN v ELSE f[b]] = g /\ g \in [Bill -> Nat]
  BY <1>2, <1>3
<1>6. SumFunction(g) = SumFunction(f) - f[x] + v
  <2>1. x \in Bill /\ f \in [Bill -> Int] /\ v \in Int
    BY <1>2, <1>3 DEF x
  <2>2. QED BY <2>1, SumUpdate, BillAssumption
<1>7. SumFunction(g) \in Nat /\ SumFunction(f) \in Nat
  <2> HIDE DEF g
  <2>1. QED BY <1>2, <1>5, SumNat, BillAssumption
<1>8. QED BY <1>2, <1>4, <1>5, <1>6, <1>7 DEF f, v, x

\* The recomputed lines are lines.
LEMMA RecomputedType ==
  ASSUME Typed, NEW q \in Req, tx[q].bil \in Bill
  PROVE  Recomputed(q) \in [Line -> GoodLine]
<1> SUFFICES ASSUME NEW l \in Line PROVE Recomputed(q)[l] \in GoodLine
  BY DEF Recomputed
<1> DEFINE ln == line[l]
           n == BilledQty(q, l)
           new == [ln EXCEPT !.delivered = n]
           up == [new EXCEPT !.net = new.delivered + new.cancelled]
<1>1. ln \in GoodLine /\ n \in Nat
  BY BilledSum DEF Typed
<1>2. Recomputed(q)[l] \in {ln, IF Pending(new) < 0 THEN up ELSE new}
  BY DEF Recomputed
<1> HIDE DEF ln, n
<1>3. /\ ln \in LineRow /\ ln.qty \in Nat /\ ln.net \in Nat /\ ln.delivered \in Nat /\ ln.cancelled \in Nat
      /\ ln.net > 0 /\ ln.net - ln.delivered - ln.cancelled >= 0
  BY <1>1 DEF GoodLine, LineRow, Pending
<1>4. /\ new \in LineRow /\ new.delivered = n /\ new.cancelled = ln.cancelled /\ new.net = ln.net
  BY <1>1, <1>3 DEF LineRow
<1> HIDE DEF new
<1>5. /\ up \in LineRow /\ up.delivered = n /\ up.cancelled = ln.cancelled /\ up.net = n + ln.cancelled
  BY <1>1, <1>3, <1>4 DEF LineRow
<1> HIDE DEF up
<1>6. Pending(new) < 0 => up \in GoodLine
  BY <1>1, <1>3, <1>4, <1>5 DEF GoodLine, Pending
<1>7. ~(Pending(new) < 0) => new \in GoodLine
  BY <1>1, <1>3, <1>4 DEF GoodLine, Pending
<1>8. QED BY <1>1, <1>2, <1>6, <1>7

-----------------------------------------------------------------------------
(* The steps of a transaction that write nothing yet. *)

\* A step of q leaves its request's subject alone.
SameSubject(q) ==
  /\ tx'[q].op = tx[q].op /\ tx'[q].ord = tx[q].ord /\ tx'[q].bil = tx[q].bil
  /\ tx'[q].form = tx[q].form

\* A request that is over owes nothing.
LEMMA IdleHeld ==
  ASSUME NEW q \in Req, tx'[q] = Idle, \A l \in Line : rowLock'[l] # q
  PROVE  Held(q)'
<1>1. tx'[q].pc = "idle" /\ tx'[q].marked = {} /\ tx'[q].todo = {}
  BY IdleType
<1>2. QED BY <1>1 DEF Held, Stage, HoldsOrder, OwnRows, Marked, Ready

\* A rollback frees every lock of the request and writes nothing.
LEMMA RollbackHeld ==
  ASSUME LockInv, NEW q \in Req, Rollback(q)
  PROVE  Quiet(q) /\ Held(q)' /\ tx'[q] = Idle /\ tx'[q].pc = "idle"
<1>1. Typed /\ Release(q) /\ UNCHANGED rows
  BY DEF LockInv, Rollback
<1>2. /\ tx' \in [Req -> TxRow] /\ tx'[q] = Idle /\ Away(q) /\ LockTypes'
      /\ \A l \in Line : rowLock'[l] # q
  BY <1>1, ReleaseStep
<1>3. QED BY <1>1, <1>2, IdleHeld, IdleType DEF Quiet

\* What a request is about stays so while it goes on.
LEMMA AboutStays ==
  ASSUME LockInv, NEW q \in Req, tx[q].pc # "idle", SameSubject(q), UNCHANGED <<bill, billLock>>,
         tx'[q].todo \subseteq LinesOf(tx[q].ord)
  PROVE  About(q)'
  BY DEF LockInv, Held, About, SameSubject

\* A record with its lines to do.
LEMMA TodoRecord ==
  ASSUME NEW u \in TxRow, NEW step \in Pc, NEW s \in SUBSET Line
  PROVE  [u EXCEPT !.pc = step, !.todo = s] \in TxRow /\ [u EXCEPT !.todo = s, !.pc = step] \in TxRow
  BY DEF TxRow

\* A transaction locks the order row.
LEMMA LockOrderDoes ==
  ASSUME LockInv, NEW q \in Req, LockOrder(q), ~Rollback(q)
  PROVE  /\ tx' \in [Req -> TxRow] /\ \A r \in Req : r # q => tx'[r] = tx[r]
         /\ SameSubject(q) /\ tx'[q].rows = tx[q].rows /\ tx'[q].marked = tx[q].marked
         /\ tx'[q].todo \subseteq LinesOf(tx[q].ord)
         /\ tx[q].op = "confirm" => tx'[q].pc = "take" /\ status[tx[q].ord] = "DRAFT"
         /\ tx[q].op = "cancel" => tx'[q].pc = "release" /\ tx'[q].todo = tx[q].todo
         /\ tx[q].op \notin {"confirm", "cancel"} => tx'[q].pc \in {"take", "commit"}
         /\ orderLock' = [orderLock EXCEPT ![tx[q].ord] = q] /\ OrderFree(q, tx[q].ord)
         /\ tx[q].pc = "lock" /\ UNCHANGED <<rows, rowLock, itemLock, billLock>>
<1> DEFINE o == tx[q].ord
           td == {l \in LinesOf(o) : Pending(line[l]) > 0}
           step == IF status[o] = "CONFIRMED" /\ \E l \in LinesOf(o) : Pending(line[l]) > 0
                   THEN "take" ELSE "commit"
<1>0. tx \in [Req -> TxRow] /\ tx[q].todo \subseteq LinesOf(o)
  BY DEF LockInv, Typed, Held, About, LockOrder
<1>1. /\ tx[q].pc = "lock" /\ OrderFree(q, o)
      /\ tx[q].op = "confirm" => status[o] = "DRAFT"
      /\ orderLock' = [orderLock EXCEPT ![o] = q]
      /\ UNCHANGED <<rows, rowLock, itemLock, billLock>>
  BY DEF LockOrder
<1>2. tx' = [tx EXCEPT ![q] =
               CASE @.op = "confirm" -> [@ EXCEPT !.pc = "take", !.todo = LinesOf(o)]
                 [] @.op = "cancel" -> [@ EXCEPT !.pc = "release"]
                 [] OTHER -> [@ EXCEPT !.todo = td, !.pc = step]]
  BY DEF LockOrder
<1> HIDE DEF td, step, o
<1>3. CASE tx[q].op = "confirm"
  <2> DEFINE s == LinesOf(o)
  <2>0. s \in SUBSET Line
    BY DEF LinesOf
  <2>1. tx' = [tx EXCEPT ![q] = [tx[q] EXCEPT !.pc = "take", !.todo = s]]
    BY <1>2, <1>3
  <2> HIDE DEF s
  <2>2. [tx[q] EXCEPT !.pc = "take", !.todo = s] \in TxRow
    <3>1. tx[q] \in TxRow /\ "take" \in Pc
      BY <1>0 DEF Pc
    <3>2. QED BY <2>0, <3>1, TodoRecord, Zenon
  <2>3. tx' \in [Req -> TxRow] /\ tx'[q] = [tx[q] EXCEPT !.pc = "take", !.todo = s]
        /\ \A r \in Req : r # q => tx'[r] = tx[r]
    BY <1>0, <2>1, <2>2, RecordFields
  <2>4. /\ SameSubject(q) /\ tx'[q].rows = tx[q].rows /\ tx'[q].marked = tx[q].marked
        /\ tx'[q].todo = s /\ tx'[q].pc = "take"
    BY <1>0, <2>3 DEF SameSubject, TxRow
  <2>5. QED BY <1>1, <1>3, <2>3, <2>4 DEF s, o
<1>4. CASE tx[q].op = "cancel"
  <2>1. tx' = [tx EXCEPT ![q].pc = "release"]
    BY <1>2, <1>4
  <2>2. "release" \in Pc
    BY DEF Pc
  <2>3. QED BY <1>0, <1>1, <1>4, <2>1, <2>2, GoesFields DEF SameSubject, o
<1>5. CASE tx[q].op \notin {"confirm", "cancel"}
  <2>0. td \in SUBSET Line /\ td \subseteq LinesOf(o) /\ step \in {"take", "commit"}
    BY DEF LinesOf, td, step
  <2>1. tx' = [tx EXCEPT ![q] = [tx[q] EXCEPT !.todo = td, !.pc = step]]
    BY <1>2, <1>5
  <2>2. [tx[q] EXCEPT !.todo = td, !.pc = step] \in TxRow
    <3>1. tx[q] \in TxRow /\ step \in Pc
      BY <1>0, <2>0 DEF Pc
    <3>2. QED BY <2>0, <3>1, TodoRecord, Zenon
  <2>3. tx' \in [Req -> TxRow] /\ tx'[q] = [tx[q] EXCEPT !.todo = td, !.pc = step]
        /\ \A r \in Req : r # q => tx'[r] = tx[r]
    BY <1>0, <2>1, <2>2, RecordFields
  <2>4. /\ SameSubject(q) /\ tx'[q].rows = tx[q].rows /\ tx'[q].marked = tx[q].marked
        /\ tx'[q].todo = td /\ tx'[q].pc = step
    BY <1>0, <2>3 DEF SameSubject, TxRow
  <2>5. QED BY <1>1, <1>5, <2>0, <2>3, <2>4 DEF o
<1>6. QED BY <1>3, <1>4, <1>5

\* The lock on the order row changes no row.
LEMMA LockOrderHeld ==
  ASSUME LockInv, NEW q \in Req, LockOrder(q), ~Rollback(q)
  PROVE  Quiet(q) /\ Held(q)'
<1> DEFINE o == tx[q].ord
<1>1. /\ tx' \in [Req -> TxRow] /\ \A r \in Req : r # q => tx'[r] = tx[r]
      /\ SameSubject(q) /\ tx'[q].marked = tx[q].marked /\ tx'[q].todo \subseteq LinesOf(o)
      /\ tx[q].op = "confirm" => tx'[q].pc = "take"
      /\ tx[q].op = "cancel" => tx'[q].pc = "release" /\ tx'[q].todo = tx[q].todo
      /\ tx[q].op \notin {"confirm", "cancel"} => tx'[q].pc \in {"take", "commit"}
      /\ orderLock' = [orderLock EXCEPT ![o] = q] /\ OrderFree(q, o)
      /\ tx[q].pc = "lock" /\ UNCHANGED <<rows, rowLock, itemLock, billLock>>
  BY LockOrderDoes
<1>2. /\ LockTypes /\ o \in Order /\ tx[q].op \in {"confirm", "cancel", "amend"}
      /\ tx[q].marked = {} /\ \A l \in Line : rowLock[l] # q
      /\ tx[q].op = "cancel" => tx[q].todo = {}
  <2>1. LockTypes /\ Held(q)
    BY DEF LockInv, Typed, TypeOK, LockTypes
  <2>2. o \in Order /\ tx[q].op \in {"confirm", "cancel", "amend"}
    BY <1>1, <2>1 DEF Held, About, Stage
  <2>3. tx[q].marked = {} /\ \A l \in Line : rowLock[l] # q
    BY <1>1, <2>1 DEF Held, Marked, OwnRows
  <2>4. tx[q].op = "cancel" => tx[q].todo = {}
    BY <2>1 DEF Held, Stage
  <2>5. QED BY <2>1, <2>2, <2>3, <2>4
<1> HIDE DEF o
<1>3. LockTypes'
  BY <1>1, <1>2 DEF LockTypes
<1>4. Away(q)
  BY <1>1, <1>2, NoneAssumption DEF Away, LockTypes, OrderFree
<1>5. Quiet(q)
  BY <1>1, <1>3, <1>4 DEF Quiet
<1>6. About(q)'
  BY <1>1, AboutStays DEF rows, o
<1>7. Stage(q)'
  BY <1>1, <1>2 DEF Stage, SameSubject, BillOp
<1>8. orderLock'[tx'[q].ord] = q
  BY <1>1, <1>2 DEF SameSubject, LockTypes, o
<1>9. OwnRows(q)' /\ Marked(q)'
  BY <1>1, <1>2 DEF OwnRows, Marked
<1>10. Ready(q)'
  BY <1>1, <1>2 DEF Ready, SameSubject, BillOp
<1>11. QED BY <1>5, <1>6, <1>7, <1>8, <1>9, <1>10 DEF Held

\* The lock on an item's balance changes nothing but the lock.
LEMMA LockItemHeld ==
  ASSUME LockInv, NEW q \in Req, LockItem(q)
  PROVE  Quiet(q) /\ Held(q)' /\ UNCHANGED <<rows, orderLock, rowLock, billLock, tx>>
<1>1. PICK i \in Need(q) : itemLock[i] = None /\ itemLock' = [itemLock EXCEPT ![i] = q]
  BY DEF LockItem
<1>2. UNCHANGED <<rows, orderLock, rowLock, billLock, tx>> /\ UNCHANGED <<rsv, bill>>
  BY DEF LockItem, rows
<1>3. Typed /\ LockTypes /\ Held(q)
  BY DEF LockInv, Typed, TypeOK, LockTypes
<1>4. tx[q].pc \notin {"orders", "commit"}
  BY DEF LockItem, Need
<1>5. LockTypes'
  BY <1>1, <1>2, <1>3 DEF LockTypes
<1>6. Away(q)
  BY <1>1, <1>2, <1>3, NoneAssumption DEF Away, LockTypes
<1>7. Quiet(q)
  BY <1>2, <1>3, <1>5, <1>6 DEF Quiet, Typed
<1>8. Held(q)'
  BY <1>2, <1>3, <1>4 DEF Held, About, Stage, HoldsOrder, OwnRows, Marked, Ready
<1>9. QED BY <1>2, <1>7, <1>8

\* reserve writes the rows of one line.
LEMMA TakeLineDoes ==
  ASSUME LockInv, NEW q \in Req, TakeLine(q)
  PROVE  \E l \in tx[q].todo :
         /\ tx' \in [Req -> TxRow] /\ \A r \in Req : r # q => tx'[r] = tx[r]
         /\ SameSubject(q) /\ tx'[q].pc = "mark" /\ tx'[q].todo = tx[q].todo \ {l}
         /\ tx'[q].rows = [tx[q].rows EXCEPT ![l] = LineRows(q, l)]
         /\ rowLock[l] \in {None, q} /\ rowLock' = [rowLock EXCEPT ![l] = q]
         /\ tx[q].pc = "take" /\ UNCHANGED <<rows, orderLock, itemLock, billLock>>
<1>1. PICK l \in tx[q].todo :
        /\ rowLock[l] \in {None, q} /\ rowLock' = [rowLock EXCEPT ![l] = q]
        /\ tx' = [tx EXCEPT ![q].rows[l] = LineRows(q, l), ![q].todo = @ \ {l}, ![q].pc = "mark"]
  BY DEF TakeLine, LineRows
<1>2. tx[q].pc = "take" /\ UNCHANGED <<rows, orderLock, itemLock, billLock>>
  BY DEF TakeLine
<1>3. Typed /\ tx \in [Req -> TxRow] /\ l \in Line
  BY TxParts DEF LockInv, Typed
<1> DEFINE new == LineRows(q, l)
<1>4. new \in Seq(GoodRow)
  BY <1>3, LineRowsType
<1>5. WritesRow(q, l, new)
  BY <1>1 DEF WritesRow
<1> HIDE DEF new
<1>6. /\ tx' \in [Req -> TxRow] /\ \A r \in Req : r # q => tx'[r] = tx[r]
      /\ SameSubject(q) /\ tx'[q].pc = "mark" /\ tx'[q].todo = tx[q].todo \ {l}
      /\ tx'[q].rows = [tx[q].rows EXCEPT ![l] = new]
  BY <1>3, <1>4, <1>5, TakeFields DEF SameSubject
<1>7. QED BY <1>1, <1>2, <1>6 DEF new

\* Rows of the order that are locked here and now.
LEMMA RowLockAway ==
  ASSUME Typed, NEW q \in Req, tx' \in [Req -> TxRow], \A r \in Req : r # q => tx'[r] = tx[r],
         UNCHANGED <<rows, orderLock, itemLock, billLock>>, NEW S \in SUBSET Line,
         \A l \in S : rowLock[l] \in {None, q}, rowLock' = [l \in Line |-> IF l \in S THEN q ELSE rowLock[l]]
  PROVE  Quiet(q)
<1>1. LockTypes
  BY DEF Typed, TypeOK, LockTypes
<1>2. LockTypes'
  BY <1>1 DEF LockTypes
<1>3. Away(q)
  BY <1>1, NoneAssumption DEF Away, LockTypes
<1>4. QED BY <1>2, <1>3 DEF Quiet

\* One line's reservation is topped up under the order's lock.
LEMMA TakeLineHeld ==
  ASSUME LockInv, NEW q \in Req, TakeLine(q)
  PROVE  Quiet(q) /\ Held(q)'
<1> DEFINE o == tx[q].ord
<1>0. Typed /\ Held(q) /\ LockTypes
  BY DEF LockInv, Typed, TypeOK, LockTypes
<1>1. PICK l \in tx[q].todo :
         /\ tx' \in [Req -> TxRow] /\ \A r \in Req : r # q => tx'[r] = tx[r]
         /\ SameSubject(q) /\ tx'[q].pc = "mark" /\ tx'[q].todo = tx[q].todo \ {l}
         /\ tx'[q].rows = [tx[q].rows EXCEPT ![l] = LineRows(q, l)]
         /\ rowLock[l] \in {None, q} /\ rowLock' = [rowLock EXCEPT ![l] = q]
         /\ tx[q].pc = "take" /\ UNCHANGED <<rows, orderLock, itemLock, billLock>>
  BY TakeLineDoes
<1>2. /\ About(q) /\ l \in LinesOf(o) /\ l \in Line /\ OrderOf[l] = o
      /\ tx[q].op \in {"confirm", "amend"} /\ orderLock[o] = q
  BY <1>0, <1>1 DEF Held, About, Stage, HoldsOrder, LinesOf
<1>3. Quiet(q)
  <2>1. rowLock' = [k \in Line |-> IF k \in {l} THEN q ELSE rowLock[k]]
    BY <1>0, <1>1, <1>2 DEF LockTypes
  <2>2. {l} \in SUBSET Line /\ \A k \in {l} : rowLock[k] \in {None, q}
    BY <1>1, <1>2
  <2>3. QED BY <1>0, <1>1, <2>1, <2>2, RowLockAway
<1>4. UNCHANGED <<rsv, bill, billLock, orderLock>>
  BY <1>1 DEF rows
<1>5. About(q)'
  BY <1>1, <1>2, <1>4, AboutStays DEF About
<1>6. Stage(q)'
  BY <1>1, <1>2 DEF Stage, SameSubject, Landing, BillOp
<1>7. orderLock'[tx'[q].ord] = q
  BY <1>1, <1>2, <1>4 DEF SameSubject
<1>8. OwnRows(q)'
  <2> SUFFICES ASSUME NEW k \in Line, rowLock'[k] = q
               PROVE  OrderOf[k] = o /\ (tx'[q].rows[k] = << >> => rsv[k] = << >>)
    BY <1>1, <1>2, <1>4 DEF OwnRows, SameSubject, Landing
  <2>1. CASE k = l
    <3>1. tx'[q].rows[k] = LineRows(q, l)
      BY <1>0, <1>1, <2>1, TxParts DEF Typed
    <3>2. LineRows(q, l) = << >> => View(q, l) = << >>
      BY <1>0, <1>2, LineRowsType
    <3>3. View(q, l) = << >> => rsv[l] = << >>
      BY <1>0, <1>2 DEF View, Held, OwnRows
    <3>4. QED BY <1>2, <2>1, <3>1, <3>2, <3>3
  <2>2. CASE k # l
    <3>1. rowLock[k] = q /\ tx'[q].rows[k] = tx[q].rows[k]
      BY <1>0, <1>1, <1>2, <2>2, TxParts DEF Typed, LockTypes
    <3>2. QED BY <1>0, <3>1 DEF Held, OwnRows
  <2>3. QED BY <2>1, <2>2
<1>9. Marked(q)'
  BY <1>1 DEF Marked
<1>10. Ready(q)'
  BY <1>1 DEF Ready
<1>11. QED BY <1>3, <1>5, <1>6, <1>7, <1>8, <1>9, <1>10 DEF Held

\* release locks every open row of the order.
OpenLines(q) == {l \in LinesOf(tx[q].ord) : OpenOf(rsv[l]) > 0}

\* A cancel carries the released rows of every line that holds some.
LEMMA ReleaseRowsDoes ==
  ASSUME LockInv, NEW q \in Req, ReleaseRows(q)
  PROVE  /\ tx' \in [Req -> TxRow] /\ \A r \in Req : r # q => tx'[r] = tx[r]
         /\ SameSubject(q) /\ tx'[q].todo = tx[q].todo /\ tx'[q].marked = tx[q].marked
         /\ tx'[q].pc = IF OpenLines(q) = {} THEN "commit" ELSE "mark"
         /\ \A l \in OpenLines(q) : rowLock[l] = None /\ tx'[q].rows[l] = Released(rsv[l])
         /\ rowLock' = [l \in Line |-> IF l \in OpenLines(q) THEN q ELSE rowLock[l]]
         /\ tx[q].pc = "release" /\ UNCHANGED <<rows, orderLock, itemLock, billLock>>
<1> DEFINE S == OpenLines(q)
           rws == [l \in Line |-> IF l \in S THEN Released(rsv[l]) ELSE tx[q].rows[l]]
           step == IF S = {} THEN "commit" ELSE "mark"
<1>1. tx \in [Req -> TxRow] /\ rsv \in [Line -> Seq(GoodRow)] /\ S \in SUBSET Line
  BY DEF LockInv, Typed, OpenLines, LinesOf
<1>2. /\ tx[q].pc = "release" /\ UNCHANGED <<rows, orderLock, itemLock, billLock>>
      /\ \A l \in S : rowLock[l] = None
      /\ rowLock' = [l \in Line |-> IF l \in S THEN q ELSE rowLock[l]]
      /\ tx' = [tx EXCEPT ![q].rows = [l \in Line |-> IF l \in S THEN Released(rsv[l]) ELSE @[l]], ![q].pc = step]
  BY DEF ReleaseRows, OpenLines
<1>3. WritesRows(q, rws, step)
  BY <1>1, <1>2 DEF WritesRows
<1> HIDE DEF S
<1>4. rws \in [Line -> Seq(GoodRow)] /\ step \in Pc /\ \A l \in S : rws[l] = Released(rsv[l])
  BY <1>1, TxParts, ReleasedRows DEF Pc
<1> HIDE DEF rws, step
<1>5. /\ tx' \in [Req -> TxRow] /\ \A r \in Req : r # q => tx'[r] = tx[r]
      /\ SameSubject(q) /\ tx'[q].todo = tx[q].todo /\ tx'[q].marked = tx[q].marked
      /\ tx'[q].pc = step /\ tx'[q].rows = rws
  BY <1>1, <1>3, <1>4, RowsFields DEF SameSubject
<1>6. QED BY <1>2, <1>4, <1>5 DEF S, step

\* A cancel locks only the rows it is about to release.
LEMMA ReleaseRowsHeld ==
  ASSUME LockInv, NEW q \in Req, ReleaseRows(q)
  PROVE  Quiet(q) /\ Held(q)'
<1> DEFINE o == tx[q].ord
           S == OpenLines(q)
<1>0. Typed /\ Held(q) /\ LockTypes
  BY DEF LockInv, Typed, TypeOK, LockTypes
<1>1. /\ tx' \in [Req -> TxRow] /\ \A r \in Req : r # q => tx'[r] = tx[r]
      /\ SameSubject(q) /\ tx'[q].todo = tx[q].todo /\ tx'[q].marked = tx[q].marked
      /\ tx'[q].pc = IF S = {} THEN "commit" ELSE "mark"
      /\ \A l \in S : rowLock[l] = None /\ tx'[q].rows[l] = Released(rsv[l])
      /\ rowLock' = [l \in Line |-> IF l \in S THEN q ELSE rowLock[l]]
      /\ tx[q].pc = "release" /\ UNCHANGED <<rows, orderLock, itemLock, billLock>>
  BY ReleaseRowsDoes
<1>2. /\ S \in SUBSET Line /\ \A l \in S : OrderOf[l] = o
  BY DEF OpenLines, LinesOf
<1> HIDE DEF S
<1>3. /\ About(q) /\ tx[q].op = "cancel" /\ orderLock[o] = q /\ tx[q].marked = {}
      /\ \A l \in Line : rowLock[l] # q
  BY <1>0, <1>1 DEF Held, Stage, HoldsOrder, OwnRows, Marked
<1>4. Quiet(q)
  BY <1>0, <1>1, <1>2, RowLockAway
<1>5. UNCHANGED <<rsv, bill, billLock, orderLock>>
  BY <1>1 DEF rows
<1>6. About(q)'
  BY <1>1, <1>3, <1>5, AboutStays DEF About
<1>7. Stage(q)'
  BY <1>0, <1>1, <1>3 DEF Held, Stage, SameSubject, Landing, BillOp
<1>8. orderLock'[tx'[q].ord] = q
  BY <1>1, <1>3, <1>5 DEF SameSubject
<1>9. \A l \in Line : rowLock'[l] = q => l \in S
  BY <1>1, <1>3
<1>10. OwnRows(q)'
  <2> SUFFICES ASSUME NEW k \in Line, rowLock'[k] = q
               PROVE  /\ tx'[q].pc = "mark" /\ OrderOf[k] = o
                      /\ tx'[q].rows[k] = << >> => rsv[k] = << >>
    BY <1>1, <1>3, <1>5 DEF OwnRows, SameSubject, Landing
  <2>1. k \in S /\ tx'[q].rows[k] = Released(rsv[k])
    BY <1>1, <1>9
  <2>2. Released(rsv[k]) = << >> => rsv[k] = << >>
    BY <1>0, ReleasedRows DEF Typed
  <2>3. QED BY <1>1, <1>2, <2>1, <2>2
<1>11. Marked(q)'
  <2>1. CASE S = {}
    BY <1>1, <1>3, <1>9, <2>1 DEF Marked
  <2>2. CASE S # {}
    BY <1>1, <2>2 DEF Marked
  <2>3. QED BY <2>1, <2>2
<1>12. Ready(q)'
  BY <1>1, <1>3 DEF Ready, SameSubject, BillOp
<1>13. QED BY <1>4, <1>6, <1>7, <1>8, <1>10, <1>11, <1>12 DEF Held

\* Where a request goes once the figures are summed.
AfterMark(q) ==
  CASE tx[q].op \in BillOp -> "orders"
    [] tx[q].todo # {} -> "take"
    [] OTHER -> "commit"

\* refreshReserved sums the figures of the order's holdings.
LEMMA MarkDoes ==
  ASSUME LockInv, NEW q \in Req, Mark(q)
  PROVE  /\ tx' \in [Req -> TxRow] /\ \A r \in Req : r # q => tx'[r] = tx[r]
         /\ SameSubject(q) /\ tx'[q].todo = tx[q].todo /\ tx'[q].rows = tx[q].rows
         /\ tx'[q].marked = Holdings(q) /\ tx'[q].pc = AfterMark(q)
         /\ \A i \in Holdings(q) :
              itemLock[i] = q /\ tx'[q].calc[i] = ReservedOf(i, [l \in Line |-> View(q, l)])
         /\ tx[q].pc = "mark" /\ UNCHANGED <<rows, locks>>
<1> DEFINE m == Holdings(q)
           v == [l \in Line |-> View(q, l)]
           c == [i \in Item |-> IF i \in m THEN ReservedOf(i, v) ELSE 0]
           step == AfterMark(q)
<1>1. Typed /\ tx \in [Req -> TxRow]
  BY DEF LockInv, Typed
<1>2. m \in SUBSET Item /\ v \in [Line -> Seq(GoodRow)]
  BY <1>1, ViewType
<1>3. tx[q].pc = "mark" /\ UNCHANGED <<rows, locks>>
  BY DEF Mark
<1>3a. Marks(q, m, c, step)
  BY DEF Mark, Marks, AfterMark
<1>4. \A i \in m : itemLock[i] = q
  BY DEF Mark, Locked, Need
<1>5. step \in Pc
  BY DEF AfterMark, Pc
<1> HIDE DEF m, v, step
<1>6. c \in [Item -> Int] /\ \A i \in m : c[i] = ReservedOf(i, v)
  BY <1>2, ReservedNat
<1> HIDE DEF c
<1>7. /\ tx' \in [Req -> TxRow] /\ \A r \in Req : r # q => tx'[r] = tx[r]
      /\ SameSubject(q) /\ tx'[q].todo = tx[q].todo /\ tx'[q].rows = tx[q].rows
      /\ tx'[q].marked = m /\ tx'[q].calc = c /\ tx'[q].pc = step
  <2>1. tx \in [Req -> TxRow] /\ m \in SUBSET Item /\ c \in [Item -> Int] /\ step \in Pc
    BY <1>1, <1>2, <1>5, <1>6
  <2>2. QED BY <1>3a, <2>1, MarkFields DEF SameSubject
<1>8. QED BY <1>3, <1>4, <1>6, <1>7 DEF m, v, step

\* A step that touches no lock.
LEMMA LocksStay ==
  ASSUME Typed, NEW q \in Req, tx' \in [Req -> TxRow], \A r \in Req : r # q => tx'[r] = tx[r],
         UNCHANGED <<rows, locks>>
  PROVE  Quiet(q)
<1>1. Away(q) /\ LockTypes'
  BY DEF Away, locks, LockTypes, Typed, TypeOK
<1>2. QED BY <1>1 DEF Quiet

\* What Mark sums is right and covers the rows the request has locked.
LEMMA MarkHeld ==
  ASSUME LockInv, NEW q \in Req, Mark(q)
  PROVE  Quiet(q) /\ Held(q)'
<1> DEFINE o == tx[q].ord
           v == [l \in Line |-> View(q, l)]
<1>0. Typed /\ Held(q)
  BY DEF LockInv
<1>1. /\ tx' \in [Req -> TxRow] /\ \A r \in Req : r # q => tx'[r] = tx[r]
      /\ SameSubject(q) /\ tx'[q].todo = tx[q].todo /\ tx'[q].rows = tx[q].rows
      /\ tx'[q].marked = Holdings(q) /\ tx'[q].pc = AfterMark(q)
      /\ \A i \in Holdings(q) : itemLock[i] = q /\ tx'[q].calc[i] = ReservedOf(i, v)
      /\ tx[q].pc = "mark" /\ UNCHANGED <<rows, locks>>
  BY MarkDoes
<1>2. Quiet(q)
  BY <1>0, <1>1, LocksStay
<1>3. UNCHANGED <<rsv, bill, billLock, orderLock, rowLock, itemLock>>
  BY <1>1 DEF rows, locks
<1>4. About(q) /\ tx[q].op \in Landing /\ (HoldsOrder(q) => orderLock[o] = q) /\ OwnRows(q)
  BY <1>0, <1>1 DEF Held, Stage
<1>4a. Stage(q)' /\ (HoldsOrder(q)' => orderLock'[tx'[q].ord] = q) /\ Ready(q)'
  <2>1. CASE tx[q].op \in BillOp
    <3>1. tx[q].todo = {}
      BY <1>0, <1>1, <2>1 DEF Held, Stage
    <3>2. tx'[q].pc = "orders"
      BY <1>1, <2>1, <3>1 DEF AfterMark
    <3>3. QED BY <1>1, <2>1, <3>1, <3>2 DEF Stage, SameSubject, HoldsOrder, BillOp, Ready
  <2>2. CASE tx[q].op \notin BillOp
    <3>1. tx'[q].pc \in {"take", "commit"} /\ (tx'[q].pc = "take" => tx[q].todo # {})
      BY <1>1, <2>2 DEF AfterMark
    <3>2. tx[q].op \in {"confirm", "cancel", "amend"} /\ (tx[q].op = "cancel" => tx[q].todo = {})
      BY <1>0, <1>4, <2>2 DEF Held, Stage, Landing
    <3>3. HoldsOrder(q)
      BY <1>1, <3>2 DEF HoldsOrder
    <3>4. QED BY <1>1, <1>3, <1>4, <2>2, <3>1, <3>2, <3>3 DEF Stage, SameSubject, Ready
  <2>3. QED BY <2>1, <2>2
<1>5. About(q)'
  BY <1>1, <1>3, <1>4, AboutStays DEF About
<1>6. OwnRows(q)'
  <2>1. tx'[q].pc \in {"take", "mark", "orders", "commit"}
    BY <1>1 DEF AfterMark
  <2>2. QED BY <1>1, <1>3, <1>4, <2>1 DEF OwnRows, SameSubject
<1>7. Marked(q)'
  <2>1. [l \in Line |-> View(q, l)]' = v
    BY <1>1, <1>3 DEF View
  <2>2. \A l \in Line : rowLock[l] = q => ItemOf[l] \in Holdings(q) \/ tx[q].rows[l] = << >>
    BY <1>4 DEF OwnRows, Holdings, View, LinesOf
  <2> HIDE DEF v
  <2>3. QED BY <1>1, <1>3, <2>1, <2>2 DEF Marked, AfterMark
<1>8. QED BY <1>2, <1>4a, <1>5, <1>6, <1>7 DEF Held

\* A bill's transaction goes on, before it has locked any reservation.
LEMMA BillGoesHeld ==
  ASSUME LockInv, NEW q \in Req, tx[q].pc \in {"early", "guard", "items"},
         NEW step \in {"early", "guard", "items", "consume"}, Goes(q, step), UNCHANGED <<rows, rowLock, billLock>>
  PROVE  /\ tx' \in [Req -> TxRow] /\ \A r \in Req : r # q => tx'[r] = tx[r]
         /\ SameSubject(q) /\ tx'[q].pc = step /\ tx'[q].todo = tx[q].todo
         /\ Held(q)' /\ ~HoldsOrder(q)'
<1>0. Held(q) /\ tx \in [Req -> TxRow] /\ step \in Pc
  BY DEF LockInv, Typed, Pc
<1>1. /\ tx' \in [Req -> TxRow] /\ \A r \in Req : r # q => tx'[r] = tx[r]
      /\ SameSubject(q) /\ tx'[q].pc = step /\ tx'[q].todo = tx[q].todo /\ tx'[q].marked = tx[q].marked
  <2>1. tx' = [tx EXCEPT ![q].pc = step]
    BY DEF Goes
  <2>2. QED BY <1>0, <2>1, GoesFields DEF SameSubject
<1>2. UNCHANGED <<rsv, bill, billLock, rowLock>>
  BY DEF rows
<1>3. /\ About(q) /\ tx[q].op \in BillOp /\ tx[q].todo = {} /\ tx[q].marked = {}
      /\ \A l \in Line : rowLock[l] # q
  <2>1. About(q) /\ tx[q].op \in BillOp /\ tx[q].todo = {}
    BY <1>0 DEF Held, Stage
  <2>2. tx[q].marked = {} /\ \A l \in Line : rowLock[l] # q
    BY <1>0 DEF Held, Marked, OwnRows
  <2>3. QED BY <2>1, <2>2
<1>4. About(q)'
  BY <1>1, <1>2, <1>3, AboutStays
<1>5. Stage(q)' /\ ~HoldsOrder(q)' /\ Ready(q)'
  BY <1>1, <1>3 DEF Stage, SameSubject, HoldsOrder, BillOp, Ready
<1>6. OwnRows(q)' /\ Marked(q)'
  BY <1>1, <1>2, <1>3 DEF OwnRows, Marked
<1>7. QED BY <1>1, <1>4, <1>5, <1>6 DEF Held

\* The order row, for a request that finds it free.
LEMMA OrderLockAway ==
  ASSUME Typed, NEW q \in Req, tx' \in [Req -> TxRow], \A r \in Req : r # q => tx'[r] = tx[r],
         UNCHANGED <<rows, rowLock, itemLock, billLock>>, NEW o \in Order, OrderFree(q, o),
         orderLock' = [orderLock EXCEPT ![o] = q]
  PROVE  Quiet(q) /\ orderLock'[o] = q
<1>1. LockTypes
  BY DEF Typed, TypeOK, LockTypes
<1>2. LockTypes' /\ orderLock'[o] = q
  BY <1>1 DEF LockTypes
<1>3. Away(q)
  BY <1>1, NoneAssumption DEF Away, LockTypes, OrderFree
<1>4. QED BY <1>2, <1>3 DEF Quiet

\* The early recompute of a save-and-post or an amend locks the order row.
LEMMA EarlySyncHeld ==
  ASSUME LockInv, NEW q \in Req, EarlySync(q), ~Rollback(q)
  PROVE  /\ Quiet(q) /\ Held(q)' /\ ~HoldsOrder(q)' /\ SameSubject(q) /\ tx'[q].pc = "guard"
         /\ UNCHANGED <<rowLock, itemLock, billLock>>
<1> DEFINE o == tx[q].ord
<1>0. Typed /\ o \in Order
  BY DEF LockInv, Held, About, EarlySync
<1>1. /\ tx[q].pc = "early" /\ OrderFree(q, o) /\ orderLock' = [orderLock EXCEPT ![o] = q]
      /\ Goes(q, "guard") /\ UNCHANGED <<rows, rowLock, itemLock, billLock>>
  BY DEF EarlySync
<1>2. /\ tx' \in [Req -> TxRow] /\ \A r \in Req : r # q => tx'[r] = tx[r]
      /\ SameSubject(q) /\ tx'[q].pc = "guard" /\ Held(q)' /\ ~HoldsOrder(q)'
  BY <1>1, BillGoesHeld
<1> HIDE DEF o
<1>3. Quiet(q)
  BY <1>0, <1>1, <1>2, OrderLockAway
<1>4. QED BY <1>1, <1>2, <1>3

\* The guards of a bill pass.
LEMMA GuardSourcesHeld ==
  ASSUME LockInv, NEW q \in Req, GuardSources(q), ~Rollback(q)
  PROVE  /\ Quiet(q) /\ Held(q)' /\ ~HoldsOrder(q)' /\ SameSubject(q) /\ tx'[q].pc \in {"consume", "items"}
         /\ Billable(q) /\ UNCHANGED locks
<1>1. /\ tx[q].pc = "guard" /\ Billable(q) /\ UNCHANGED <<rows, locks>>
      /\ Goes(q, IF tx[q].op = "rebill" THEN "consume" ELSE "items")
  BY DEF GuardSources
<1>2. PICK step \in {"consume", "items"} : Goes(q, step)
  BY <1>1
<1>3. UNCHANGED <<rows, rowLock, billLock>> /\ Typed
  BY <1>1 DEF locks, LockInv
<1>4. /\ tx' \in [Req -> TxRow] /\ \A r \in Req : r # q => tx'[r] = tx[r]
      /\ SameSubject(q) /\ tx'[q].pc = step /\ Held(q)' /\ ~HoldsOrder(q)'
  BY <1>1, <1>2, <1>3, BillGoesHeld
<1>5. Quiet(q)
  BY <1>1, <1>3, <1>4, LocksStay
<1>6. QED BY <1>1, <1>4, <1>5

\* The stock of a bill is moved.
LEMMA StockMovedHeld ==
  ASSUME LockInv, NEW q \in Req, StockMoved(q)
  PROVE  /\ Quiet(q) /\ Held(q)' /\ ~HoldsOrder(q)' /\ SameSubject(q) /\ tx'[q].pc \in {"early", "consume"}
         /\ tx[q].pc = "items" /\ UNCHANGED locks
<1>1. /\ tx[q].pc = "items" /\ UNCHANGED <<rows, locks>>
      /\ Goes(q, IF tx[q].op = "rebill" THEN "early" ELSE "consume")
  BY DEF StockMoved
<1>2. PICK step \in {"early", "consume"} : Goes(q, step)
  BY <1>1
<1>3. UNCHANGED <<rows, rowLock, billLock>> /\ Typed
  BY <1>1 DEF locks, LockInv
<1>4. /\ tx' \in [Req -> TxRow] /\ \A r \in Req : r # q => tx'[r] = tx[r]
      /\ SameSubject(q) /\ tx'[q].pc = step /\ Held(q)' /\ ~HoldsOrder(q)'
  BY <1>1, <1>2, <1>3, BillGoesHeld
<1>5. Quiet(q)
  BY <1>1, <1>3, <1>4, LocksStay
<1>6. QED BY <1>1, <1>4, <1>5

\* What a bill takes is a quantity per line, and only of its order's lines.
LEMMA TakenType ==
  ASSUME LockInv, NEW q \in Req, tx[q].pc # "idle", tx[q].op \in BillOp, NEW l \in Line
  PROVE  /\ Taken(q)[l] \in Int /\ (Taken(q)[l] # 0 => l \in LinesOf(tx[q].ord))
         /\ tx[q].op = "unpost" => Taken(q)[l] = 0 - bill[tx[q].bil].take[l]
         /\ tx[q].op # "unpost" => Taken(q)[l] = tx[q].form[l]
         /\ bill[tx[q].bil].take[l] \in Nat /\ tx[q].form[l] \in Nat
         /\ bill[tx[q].bil].take[l] > 0 => l \in LinesOf(tx[q].ord)
         /\ tx[q].form[l] > 0 => l \in LinesOf(tx[q].ord)
<1>1. About(q) /\ Typed
  BY DEF LockInv, Held
<1>2. /\ tx[q].bil \in Bill /\ tx[q].ord = OrderOfBill(tx[q].bil)
      /\ Billed(tx[q].form) \subseteq LinesOf(tx[q].ord)
  BY <1>1 DEF About
<1>3. /\ tx[q].form \in [Line -> Nat] /\ bill[tx[q].bil].take \in [Line -> Nat]
      /\ Billed(bill[tx[q].bil].take) \subseteq LinesOf(tx[q].ord)
  BY <1>1, <1>2, TxParts DEF Typed, TypeOK
<1>4. QED BY <1>2, <1>3 DEF Taken, Billed

\* What consume leaves are rows of the line.
LEMMA AfterConsumeType ==
  ASSUME LockInv, NEW q \in Req, tx[q].pc # "idle", tx[q].op \in BillOp, NEW l \in Line
  PROVE  /\ AfterConsume(q, l) \in Seq(GoodRow)
         /\ (AfterConsume(q, l) = << >> => rsv[l] = << >>)
         /\ (Live(rsv[l]) = {} => Live(AfterConsume(q, l)) = {})
<1> DEFINE n == Taken(q)[l]
<1>1. n \in Int /\ rsv[l] \in Seq(GoodRow)
  BY TakenType DEF LockInv, Typed
<1> HIDE DEF n
<1>2. CASE n > 0
  <2>1. AfterConsume(q, l) = Consumed(rsv[l], n) /\ n \in Nat
    BY <1>1, <1>2 DEF AfterConsume, n
  <2>2. QED BY <1>1, <2>1, ConsumedRows
<1>3. CASE ~(n > 0)
  <2> DEFINE m == 0 - n
  <2>1. AfterConsume(q, l) = GivenBack(rsv[l], m) /\ m \in Nat
    BY <1>1, <1>3 DEF AfterConsume, n
  <2> HIDE DEF m
  <2>2. QED BY <1>1, <2>1, GivenBackRows
<1>4. QED BY <1>2, <1>3

\* The lines consume writes.
ConsumeLines(q) == {l \in Line : Taken(q)[l] # 0 /\ Live(rsv[l]) # {}}

\* consume locks the live rows of the bill's lines and writes them.
LEMMA ConsumeDoes ==
  ASSUME LockInv, NEW q \in Req, Consume(q)
  PROVE  /\ tx' \in [Req -> TxRow] /\ \A r \in Req : r # q => tx'[r] = tx[r]
         /\ SameSubject(q) /\ tx'[q].todo = tx[q].todo /\ tx'[q].marked = tx[q].marked
         /\ tx'[q].pc = IF ConsumeLines(q) = {} THEN "orders" ELSE "mark"
         /\ \A l \in ConsumeLines(q) : rowLock[l] = None /\ tx'[q].rows[l] = AfterConsume(q, l)
         /\ rowLock' = [l \in Line |-> IF l \in ConsumeLines(q) THEN q ELSE rowLock[l]]
         /\ tx[q].pc = "consume" /\ UNCHANGED <<rows, orderLock, itemLock, billLock>>
<1> DEFINE S == ConsumeLines(q)
           rws == [l \in Line |-> IF l \in S THEN AfterConsume(q, l) ELSE tx[q].rows[l]]
           step == IF S = {} THEN "orders" ELSE "mark"
<1>1. tx \in [Req -> TxRow] /\ S \in SUBSET Line /\ tx[q].pc # "idle" /\ tx[q].op \in BillOp
  BY DEF LockInv, Typed, ConsumeLines, Held, Stage, Consume
<1>2. /\ tx[q].pc = "consume" /\ UNCHANGED <<rows, orderLock, itemLock, billLock>>
      /\ \A l \in S : rowLock[l] = None
      /\ rowLock' = [l \in Line |-> IF l \in S THEN q ELSE rowLock[l]]
  BY DEF Consume, ConsumeLines
<1>2a. tx' = [tx EXCEPT ![q].rows = [l \in Line |-> IF l \notin S THEN @[l] ELSE AfterConsume(q, l)],
                        ![q].pc = step]
  BY DEF Consume, ConsumeLines, AfterConsume
<1>3. WritesRows(q, rws, step)
  <2> HIDE DEF S, step
  <2>1. QED BY <1>1, <1>2a DEF WritesRows
<1> HIDE DEF S
<1>4. rws \in [Line -> Seq(GoodRow)] /\ step \in Pc /\ \A l \in S : rws[l] = AfterConsume(q, l)
  BY <1>1, TxParts, AfterConsumeType DEF Pc
<1> HIDE DEF rws, step
<1>5. /\ tx' \in [Req -> TxRow] /\ \A r \in Req : r # q => tx'[r] = tx[r]
      /\ SameSubject(q) /\ tx'[q].todo = tx[q].todo /\ tx'[q].marked = tx[q].marked
      /\ tx'[q].pc = step /\ tx'[q].rows = rws
  BY <1>1, <1>3, <1>4, RowsFields DEF SameSubject
<1>6. QED BY <1>2, <1>4, <1>5 DEF S, step

\* The rows it locks are its order's.
LEMMA ConsumeHeld ==
  ASSUME LockInv, NEW q \in Req, Consume(q)
  PROVE  Quiet(q) /\ Held(q)' /\ ~HoldsOrder(q)'
<1> DEFINE o == tx[q].ord
           S == ConsumeLines(q)
<1>0. Typed /\ Held(q) /\ LockTypes
  BY DEF LockInv, Typed, TypeOK, LockTypes
<1>1. /\ tx' \in [Req -> TxRow] /\ \A r \in Req : r # q => tx'[r] = tx[r]
      /\ SameSubject(q) /\ tx'[q].todo = tx[q].todo /\ tx'[q].marked = tx[q].marked
      /\ tx'[q].pc = IF S = {} THEN "orders" ELSE "mark"
      /\ \A l \in S : rowLock[l] = None /\ tx'[q].rows[l] = AfterConsume(q, l)
      /\ rowLock' = [l \in Line |-> IF l \in S THEN q ELSE rowLock[l]]
      /\ tx[q].pc = "consume" /\ UNCHANGED <<rows, orderLock, itemLock, billLock>>
  BY ConsumeDoes
<1>3. /\ About(q) /\ tx[q].op \in BillOp /\ tx[q].marked = {} /\ tx[q].todo = {}
      /\ \A l \in Line : rowLock[l] # q
  BY <1>0, <1>1 DEF Held, Stage, OwnRows, Marked
<1>2. /\ S \in SUBSET Line /\ \A l \in S : OrderOf[l] = o
  <2>1. \A l \in S : l \in Line /\ Taken(q)[l] # 0
    BY DEF ConsumeLines
  <2>2. \A l \in S : l \in LinesOf(o)
    BY <1>1, <1>3, <2>1, TakenType
  <2>3. QED BY <2>1, <2>2 DEF LinesOf
<1> HIDE DEF S
<1>4. Quiet(q)
  BY <1>0, <1>1, <1>2, RowLockAway
<1>5. UNCHANGED <<rsv, bill, billLock, orderLock>>
  BY <1>1 DEF rows
<1>6. About(q)'
  BY <1>1, <1>3, <1>5, AboutStays DEF About
<1>7. Stage(q)' /\ ~HoldsOrder(q)' /\ Ready(q)'
  BY <1>1, <1>3 DEF Stage, SameSubject, Landing, BillOp, HoldsOrder, Ready
<1>9. \A l \in Line : rowLock'[l] = q => l \in S
  BY <1>1, <1>3
<1>10. OwnRows(q)'
  <2> SUFFICES ASSUME NEW k \in Line, rowLock'[k] = q
               PROVE  /\ tx'[q].pc = "mark" /\ OrderOf[k] = o
                      /\ tx'[q].rows[k] = << >> => rsv[k] = << >>
    BY <1>1, <1>3, <1>5 DEF OwnRows, SameSubject, Landing
  <2>1. k \in S /\ tx'[q].rows[k] = AfterConsume(q, k)
    BY <1>1, <1>9
  <2>2. AfterConsume(q, k) = << >> => rsv[k] = << >>
    BY <1>1, <1>3, AfterConsumeType
  <2>3. QED BY <1>1, <1>2, <2>1, <2>2
<1>11. Marked(q)'
  <2>1. CASE S = {}
    BY <1>1, <1>3, <1>9, <2>1 DEF Marked
  <2>2. CASE S # {}
    BY <1>1, <2>2 DEF Marked
  <2>3. QED BY <2>1, <2>2
<1>12. QED BY <1>4, <1>6, <1>7, <1>10, <1>11 DEF Held

\* The recompute locks the order row and carries the lines as they will be.
LEMMA SyncDoes ==
  ASSUME LockInv, NEW q \in Req, SyncFulfilment(q), ~Rollback(q)
  PROVE  /\ tx' \in [Req -> TxRow] /\ \A r \in Req : r # q => tx'[r] = tx[r]
         /\ SameSubject(q) /\ tx'[q].pc = "commit" /\ tx'[q].rows = tx[q].rows
         /\ tx'[q].marked = tx[q].marked /\ tx'[q].calc = tx[q].calc
         /\ tx'[q].due = Recomputed(q) /\ tx'[q].todo = {l \in Line : Recomputed(q)[l] # line[l]}
         /\ OrderFree(q, tx[q].ord) /\ orderLock' = [orderLock EXCEPT ![tx[q].ord] = q]
         /\ tx[q].pc = "orders" /\ UNCHANGED <<rows, rowLock, itemLock, billLock>>
<1> DEFINE d == Recomputed(q)
           td == {l \in Line : Recomputed(q)[l] # line[l]}
<1>1. Typed /\ tx \in [Req -> TxRow] /\ tx[q].bil \in Bill
  BY DEF LockInv, Typed, Held, About, Stage, SyncFulfilment
<1>2. d \in [Line -> LineRow] /\ td \in SUBSET Line
  BY <1>1, RecomputedType DEF GoodLine
<1>3. Syncs(q, d, td)
  BY DEF SyncFulfilment, Syncs
<1>4. /\ OrderFree(q, tx[q].ord) /\ orderLock' = [orderLock EXCEPT ![tx[q].ord] = q]
      /\ tx[q].pc = "orders" /\ UNCHANGED <<rows, rowLock, itemLock, billLock>>
  BY DEF SyncFulfilment
<1> HIDE DEF d, td
<1>5. /\ tx' \in [Req -> TxRow] /\ \A r \in Req : r # q => tx'[r] = tx[r]
      /\ SameSubject(q) /\ tx'[q].pc = "commit" /\ tx'[q].rows = tx[q].rows
      /\ tx'[q].marked = tx[q].marked /\ tx'[q].calc = tx[q].calc
      /\ tx'[q].due = d /\ tx'[q].todo = td
  BY <1>1, <1>2, <1>3, SyncFields DEF SameSubject
<1>6. QED BY <1>4, <1>5 DEF d, td

\* What it marked before is still right.
LEMMA SyncHeld ==
  ASSUME LockInv, NEW q \in Req, SyncFulfilment(q), ~Rollback(q)
  PROVE  Quiet(q) /\ Held(q)'
<1> DEFINE o == tx[q].ord
<1>0. Typed /\ Held(q)
  BY DEF LockInv
<1>1. /\ tx' \in [Req -> TxRow] /\ \A r \in Req : r # q => tx'[r] = tx[r]
      /\ SameSubject(q) /\ tx'[q].pc = "commit" /\ tx'[q].rows = tx[q].rows
      /\ tx'[q].marked = tx[q].marked /\ tx'[q].calc = tx[q].calc /\ tx'[q].due = Recomputed(q)
      /\ tx'[q].todo = {l \in Line : Recomputed(q)[l] # line[l]}
      /\ OrderFree(q, o) /\ orderLock' = [orderLock EXCEPT ![o] = q]
      /\ tx[q].pc = "orders" /\ UNCHANGED <<rows, rowLock, itemLock, billLock>>
  BY SyncDoes
<1>2. /\ o \in Order /\ About(q) /\ tx[q].op \in BillOp /\ OwnRows(q) /\ Marked(q)
  BY <1>0, <1>1 DEF Held, About, Stage
<1>3. Quiet(q) /\ orderLock'[o] = q
  <2> HIDE DEF o
  <2>1. QED BY <1>0, <1>1, <1>2, OrderLockAway
<1>4. UNCHANGED <<rsv, bill, billLock, rowLock, itemLock>>
  BY <1>1 DEF rows
<1>5. tx'[q].todo \subseteq LinesOf(o)
  BY <1>1 DEF Recomputed, LinesOf
<1>6. About(q)'
  BY <1>1, <1>4, <1>5, AboutStays
<1>7. Stage(q)'
  BY <1>1, <1>2 DEF Stage, SameSubject, BillOp
<1>8. orderLock'[tx'[q].ord] = q
  BY <1>1, <1>3 DEF SameSubject
<1>9. OwnRows(q)'
  BY <1>1, <1>2, <1>4 DEF OwnRows, SameSubject
<1>10. Marked(q)'
  <2>1. [l \in Line |-> View(q, l)]' = [l \in Line |-> View(q, l)]
    BY <1>1, <1>4 DEF View
  <2>2. QED BY <1>1, <1>2, <1>4, <2>1 DEF Marked
<1>11. Ready(q)'
  <2>1. Recomputed(q) \in [Line -> GoodLine]
    BY <1>0, <1>2, RecomputedType DEF About
  <2>2. QED BY <1>1, <2>1 DEF Ready
<1>12. QED BY <1>3, <1>6, <1>7, <1>8, <1>9, <1>10, <1>11 DEF Held

-----------------------------------------------------------------------------
(* The other requests. *)

\* What a step of q may write: reservations whose row and item it has locked,
\* lines, bills and a status of its own order, and only when no other request
\* holds the order's row.
Touch(q) ==
  /\ \A l \in Line : rsv'[l] # rsv[l] =>
       rowLock[l] = q /\ itemLock[ItemOf[l]] = q /\ OrderOf[l] = tx[q].ord
  /\ \A l \in Line : line'[l] # line[l] => OrderOf[l] = tx[q].ord
  /\ \A o \in Order : status'[o] # status[o] => o = tx[q].ord /\ status'[o] # "DRAFT"
  /\ \A b \in Bill : bill'[b] # bill[b] =>
       billLock[b] = q /\ OrderOfBill(b) = tx[q].ord
  /\ UNCHANGED <<status, line, rsv, bill>> \/ (tx[q].ord \in Order /\ OrderFree(q, tx[q].ord))

\* What the rows and locks are typed by.
RowTypes ==
  /\ status \in [Order -> {"DRAFT", "CONFIRMED", "COMPLETED", "CANCELLED"}]
  /\ fulfil \in [Order -> {"PENDING", "PARTIAL", "COMPLETED", "CANCELLED"}]
  /\ deleted \in [Order -> BOOLEAN] /\ revision \in [Order -> Nat]
  /\ line \in [Line -> GoodLine] /\ rsv \in [Line -> Seq(GoodRow)] /\ reserved \in [Item -> Int]
  /\ bill \in [Bill -> BillRow]
  /\ \A b \in Bill : Billed(bill[b].take) \subseteq LinesOf(OrderOfBill(b))

\* The type invariant, row by row.
LEMMA TypedIs == Typed <=> RowTypes /\ LockTypes /\ tx \in [Req -> TxRow]
<1>1. Typed => RowTypes /\ LockTypes /\ tx \in [Req -> TxRow]
  BY DEF Typed, TypeOK, RowTypes, LockTypes, BillRow
<1>2. ASSUME RowTypes, LockTypes, tx \in [Req -> TxRow] PROVE Typed
  <2>1. line \in [Line -> LineRow] /\ \A l \in Line : Pending(line[l]) >= 0
    BY <1>2 DEF RowTypes, GoodLine
  <2>2. ASSUME NEW l \in Line PROVE rsv[l] \in Seq(Row) /\ \A k \in DOMAIN rsv[l] : rsv[l][k].con <= rsv[l][k].res
    <3>1. rsv[l] \in Seq(GoodRow)
      BY <1>2 DEF RowTypes
    <3>2. \A k \in DOMAIN rsv[l] : rsv[l][k] \in Row /\ rsv[l][k].con <= rsv[l][k].res
      BY <3>1, RowsAre DEF GoodRow
    <3>3. rsv[l] \in [1..Len(rsv[l]) -> Row] /\ Len(rsv[l]) \in Nat
      <4>1. DOMAIN rsv[l] = 1..Len(rsv[l]) /\ Len(rsv[l]) \in Nat
        BY <3>1, RowsAre
      <4>2. rsv[l] = [k \in DOMAIN rsv[l] |-> rsv[l][k]]
        BY <3>1
      <4>3. QED BY <3>2, <4>1, <4>2
    <3>4. QED BY <3>2, <3>3, SeqDef
  <2>3. rsv \in [Line -> Seq(Row)]
    BY <1>2, <2>2 DEF RowTypes
  <2>4. \A r \in Req : tx[r].pc \in Pc /\ tx[r].op \in Op
    BY <1>2, TxParts
  <2>5. TypeOK
    BY <1>2, <2>1, <2>2, <2>3, <2>4 DEF TypeOK, RowTypes, LockTypes, BillRow
  <2>6. QED BY <1>2, <2>5 DEF Typed, RowTypes
<1>3. QED BY <1>1, <1>2

\* After a step.
LEMMA TypedAfter ==
  ASSUME RowTypes', LockTypes', (tx \in [Req -> TxRow])'
  PROVE  Typed'
  BY TypedIs, PTL

\* A step that writes no row writes nothing wrong.
LEMMA QuietTouch ==
  ASSUME LockInv, NEW q \in Req, Quiet(q)
  PROVE  Typed' /\ ReservedIsOpen' /\ Touch(q) /\ Away(q)
<1>1. /\ tx' \in [Req -> TxRow] /\ Away(q) /\ LockTypes'
      /\ UNCHANGED <<status, fulfil, deleted, revision, line, rsv, reserved, bill>>
  BY DEF Quiet, rows
<1>2. RowTypes
  BY TypedIs DEF LockInv
<1>3. RowTypes'
  BY <1>1, <1>2 DEF RowTypes
<1>4. ReservedIsOpen'
  BY <1>1 DEF LockInv, ReservedIsOpen
<1>5. QED BY <1>1, <1>3, <1>4, TypedAfter DEF Touch

\* What a request holds and carries stays right when another one steps.
LEMMA Kept ==
  ASSUME LockInv, NEW q \in Req, NEW r \in Req, r # q, Away(q), Touch(q)
  PROVE  Held(r)'
<1>0. Held(r) /\ Typed
  BY DEF LockInv
<1>1. /\ tx'[r] = tx[r]
      /\ \A o \in Order : orderLock'[o] = r <=> orderLock[o] = r
      /\ \A l \in Line : rowLock'[l] = r <=> rowLock[l] = r
      /\ \A i \in Item : itemLock'[i] = r <=> itemLock[i] = r
      /\ \A b \in Bill : billLock'[b] = r <=> billLock[b] = r
  BY DEF Away
<1>2. /\ \A l \in Line : rsv'[l] # rsv[l] => rowLock[l] = q /\ itemLock[ItemOf[l]] = q
      /\ \A b \in Bill : bill'[b] # bill[b] => billLock[b] = q
  BY DEF Touch
<1>3. tx'[r].pc # "idle" => About(r)'
  BY <1>0, <1>1, <1>2 DEF Held, About
<1>4. Stage(r)'
  BY <1>0, <1>1 DEF Held, Stage
<1>5. HoldsOrder(r)' => orderLock'[tx'[r].ord] = r
  <2>1. HoldsOrder(r)' => tx[r].pc # "idle" /\ HoldsOrder(r)
    BY <1>1 DEF HoldsOrder
  <2>2. tx[r].pc # "idle" => tx[r].ord \in Order
    BY <1>0 DEF Held, About
  <2>3. HoldsOrder(r) => orderLock[tx[r].ord] = r
    BY <1>0 DEF Held
  <2>4. QED BY <1>1, <2>1, <2>2, <2>3
<1>6. OwnRows(r)'
  BY <1>0, <1>1, <1>2 DEF Held, OwnRows
<1>7. Marked(r)'
  <2>1. CASE tx[r].pc \in {"orders", "commit"}
    <3>1. ASSUME NEW i \in tx[r].marked
          PROVE  itemLock'[i] = r /\ tx'[r].calc[i] = ReservedOf(i, [l \in Line |-> View(r, l)])'
      <4>1. i \in Item /\ itemLock[i] = r /\ tx[r].calc[i] = ReservedOf(i, [l \in Line |-> View(r, l)])
        BY <1>0, <2>1, <3>1, TxParts DEF Held, Marked, Typed
      <4>2. \A l \in Line : ItemOf[l] = i => View(r, l)' = View(r, l)
        BY <1>1, <1>2, <4>1 DEF View
      <4>3. ReservedOf(i, [l \in Line |-> View(r, l)])' = ReservedOf(i, [l \in Line |-> View(r, l)])
        <5> DEFINE f == [l \in Line |-> IF ItemOf[l] = i THEN OpenOf([k \in Line |-> View(r, k)][l]) ELSE 0]
                   g == [l \in Line |-> IF ItemOf[l] = i THEN OpenOf([k \in Line |-> View(r, k)'][l]) ELSE 0]
        <5>1. f = g
          BY <4>2
        <5>2. ReservedOf(i, [l \in Line |-> View(r, l)]) = SumFunction(f)
          BY DEF ReservedOf
        <5>3. ReservedOf(i, [l \in Line |-> View(r, l)])' = SumFunction(g)
          BY DEF ReservedOf
        <5>4. QED BY <5>1, <5>2, <5>3
      <4>4. QED BY <1>1, <4>1, <4>3
    <3>2. \A l \in Line : rowLock'[l] = r => ItemOf[l] \in tx'[r].marked \/ tx'[r].rows[l] = << >>
      BY <1>0, <1>1, <2>1 DEF Held, Marked
    <3>3. QED BY <1>1, <2>1, <3>1, <3>2 DEF Marked
  <2>2. CASE tx[r].pc \notin {"orders", "commit"}
    BY <1>0, <1>1, <2>2 DEF Held, Marked
  <2>3. QED BY <2>1, <2>2
<1>8. Ready(r)'
  BY <1>0, <1>1 DEF Held, Ready
<1>9. QED BY <1>3, <1>4, <1>5, <1>6, <1>7, <1>8 DEF Held

-----------------------------------------------------------------------------
(* Commits. *)

\* A step of q keeps the types and the reserved figures, writes what it may,
\* and leaves q and everyone else with what they hold.
Sound(q) == Typed' /\ ReservedIsOpen' /\ Touch(q) /\ Away(q) /\ Held(q)'

\* A step that writes no row.
LEMMA QuietSound ==
  ASSUME LockInv, NEW q \in Req, Quiet(q), Held(q)'
  PROVE  Sound(q)
  BY QuietTouch DEF Sound

\* What a transaction with reservations writes: the rows it has locked, and
\* figures that are their sums.
LEMMA LandDoes ==
  ASSUME LockInv, NEW q \in Req, tx[q].pc = "commit", Land(q)
  PROVE  /\ rsv' \in [Line -> Seq(GoodRow)] /\ reserved' \in [Item -> Int] /\ ReservedIsOpen'
         /\ \A l \in Line : rsv'[l] = View(q, l)
         /\ \A l \in Line : rsv'[l] # rsv[l] =>
              rowLock[l] = q /\ itemLock[ItemOf[l]] = q /\ OrderOf[l] = tx[q].ord
<1>0. Typed /\ Held(q) /\ ReservedIsOpen
  BY DEF LockInv
<1>1. rsv' = [l \in Line |-> View(q, l)]
  BY DEF Land
<1>2. /\ tx[q].marked \in SUBSET Item /\ tx[q].calc \in [Item -> Int] /\ reserved \in [Item -> Int]
      /\ rsv \in [Line -> Seq(GoodRow)]
  BY <1>0, TxParts, TypedIs DEF Typed, RowTypes
<1>3. rsv' \in [Line -> Seq(GoodRow)] /\ \A l \in Line : rsv'[l] = View(q, l)
  BY <1>0, <1>1, ViewType
<1>4. reserved' = [i \in Item |-> IF i \in tx[q].marked THEN tx[q].calc[i] ELSE reserved[i]]
  BY DEF Land
<1>5. reserved' \in [Item -> Int]
  BY <1>2, <1>4
<1>6. \A l \in Line : rsv'[l] # rsv[l] => rowLock[l] = q /\ tx[q].rows[l] # << >>
  BY <1>0, <1>3 DEF View, Held, OwnRows
<1>7. \A l \in Line : rsv'[l] # rsv[l] => ItemOf[l] \in tx[q].marked
  BY <1>0, <1>6 DEF Held, Marked
<1>8. \A l \in Line : rsv'[l] # rsv[l] => itemLock[ItemOf[l]] = q /\ OrderOf[l] = tx[q].ord
  BY <1>0, <1>6, <1>7 DEF Held, Marked, OwnRows
<1>9. ASSUME NEW i \in Item PROVE reserved'[i] = ReservedOf(i, rsv')
  <2>1. CASE i \in tx[q].marked
    <3>1. reserved'[i] = tx[q].calc[i]
      BY <1>4, <2>1
    <3>2. tx[q].calc[i] = ReservedOf(i, [l \in Line |-> View(q, l)])
      BY <1>0, <2>1 DEF Held, Marked
    <3>3. QED BY <1>1, <3>1, <3>2
  <2>2. CASE i \notin tx[q].marked
    <3>1. reserved'[i] = ReservedOf(i, rsv)
      BY <1>0, <1>4, <2>2 DEF ReservedIsOpen
    <3>2. [l \in Line |-> IF ItemOf[l] = i THEN OpenOf(rsv[l]) ELSE 0]
            = [l \in Line |-> IF ItemOf[l] = i THEN OpenOf(rsv'[l]) ELSE 0]
      BY <1>7, <2>2
    <3>3. QED BY <3>1, <3>2 DEF ReservedOf
  <2>3. QED BY <2>1, <2>2
<1>10. QED BY <1>3, <1>5, <1>6, <1>8, <1>9 DEF ReservedIsOpen

\* A transaction that ends leaves nothing behind but what it wrote.
LEMMA ReleaseSound ==
  ASSUME LockInv, NEW q \in Req, Release(q), RowTypes', ReservedIsOpen', Touch(q)
  PROVE  Sound(q) /\ tx'[q] = Idle
<1>1. Typed
  BY DEF LockInv
<1>2. /\ tx' \in [Req -> TxRow] /\ tx'[q] = Idle /\ Away(q) /\ LockTypes'
      /\ \A l \in Line : rowLock'[l] # q
  BY <1>1, ReleaseStep
<1>3. Held(q)'
  BY <1>2, IdleHeld
<1>4. Typed'
  BY <1>2, TypedAfter
<1>5. QED BY <1>2, <1>3, <1>4 DEF Sound

\* The roll-up is one of its four words.
LEMMA FulfilType ==
  ASSUME NEW o, NEW lns
  PROVE  FulfilOf(o, lns) \in {"PENDING", "PARTIAL", "COMPLETED", "CANCELLED"}
  BY DEF FulfilOf

\* Who commits holds its order.
LEMMA CommitHolds ==
  ASSUME LockInv, NEW q \in Req, tx[q].pc = "commit", tx[q].op \in Landing
  PROVE  /\ tx[q].ord \in Order /\ orderLock[tx[q].ord] = q /\ OrderFree(q, tx[q].ord)
         /\ About(q)
  BY DEF LockInv, Held, About, HoldsOrder, Landing, OrderFree

\* A confirm.
LEMMA CommitConfirmSound ==
  ASSUME LockInv, NEW q \in Req, CommitConfirm(q)
  PROVE  Sound(q) /\ tx'[q] = Idle
<1>1. tx[q].pc = "commit" /\ tx[q].op \in Landing /\ Land(q) /\ Release(q)
  BY DEF CommitConfirm, Landing
<1>2. status' = [status EXCEPT ![tx[q].ord] = "CONFIRMED"] /\ UNCHANGED <<fulfil, deleted, revision, line, bill>>
  BY DEF CommitConfirm
<1>3. RowTypes
  BY TypedIs DEF LockInv
<1>4. /\ rsv' \in [Line -> Seq(GoodRow)] /\ reserved' \in [Item -> Int] /\ ReservedIsOpen'
      /\ \A l \in Line : rsv'[l] # rsv[l] => rowLock[l] = q /\ itemLock[ItemOf[l]] = q /\ OrderOf[l] = tx[q].ord
  BY <1>1, LandDoes
<1>5. tx[q].ord \in Order /\ OrderFree(q, tx[q].ord)
  BY <1>1, CommitHolds
<1>6. RowTypes'
  BY <1>2, <1>3, <1>4 DEF RowTypes
<1>7. Touch(q)
  BY <1>2, <1>3, <1>4, <1>5 DEF Touch, RowTypes
<1>8. QED BY <1>1, <1>4, <1>6, <1>7, ReleaseSound

\* A line of which the rest is cancelled.
LEMMA CancelledLine ==
  ASSUME NEW ln \in GoodLine
  PROVE  LET new == [ln EXCEPT !.cancelled = @ + Pending(ln)] IN
         /\ new \in GoodLine /\ Pending(new) = 0 /\ new.delivered = ln.delivered /\ new.net = ln.net
<1> DEFINE new == [ln EXCEPT !.cancelled = @ + Pending(ln)]
<1>1. /\ ln \in LineRow /\ ln.qty \in Nat /\ ln.net \in Nat /\ ln.delivered \in Nat /\ ln.cancelled \in Nat
      /\ ln.net > 0 /\ ln.net - ln.delivered - ln.cancelled >= 0
  BY DEF GoodLine, LineRow, Pending
<1>2. /\ new.qty = ln.qty /\ new.net = ln.net /\ new.delivered = ln.delivered
      /\ new.cancelled = ln.cancelled + (ln.net - ln.delivered - ln.cancelled)
      /\ new \in LineRow
  BY <1>1 DEF LineRow, Pending
<1> HIDE DEF new
<1>3. new \in GoodLine /\ Pending(new) = 0
  BY <1>1, <1>2 DEF GoodLine, Pending
<1>4. QED BY <1>2, <1>3 DEF new

\* The lines of a cancelled order.
CancelledLines(o) ==
  [l \in Line |-> IF OrderOf[l] = o THEN [line[l] EXCEPT !.cancelled = @ + Pending(line[l])] ELSE line[l]]

\* They are lines, and nothing of them is pending.
LEMMA CancelledLinesType ==
  ASSUME LockInv, NEW o
  PROVE  /\ CancelledLines(o) \in [Line -> GoodLine]
         /\ \A l \in Line : IF OrderOf[l] = o
              THEN Pending(CancelledLines(o)[l]) = 0 /\ CancelledLines(o)[l].delivered = line[l].delivered
              ELSE CancelledLines(o)[l] = line[l]
<1>1. \A l \in Line : line[l] \in GoodLine
  BY DEF LockInv, Typed
<1>2. ASSUME NEW l \in Line
      PROVE /\ CancelledLines(o)[l] \in GoodLine
            /\ IF OrderOf[l] = o
               THEN Pending(CancelledLines(o)[l]) = 0 /\ CancelledLines(o)[l].delivered = line[l].delivered
               ELSE CancelledLines(o)[l] = line[l]
  <2> DEFINE ln == line[l]
             new == [ln EXCEPT !.cancelled = @ + Pending(ln)]
  <2>1. CancelledLines(o)[l] = IF OrderOf[l] = o THEN new ELSE ln
    BY DEF CancelledLines
  <2>2. ln \in GoodLine
    BY <1>1
  <2> HIDE DEF ln
  <2>3. new \in GoodLine /\ Pending(new) = 0 /\ new.delivered = ln.delivered
    BY <2>2, CancelledLine
  <2> HIDE DEF new
  <2>4. CASE OrderOf[l] = o
    BY <2>1, <2>3, <2>4 DEF ln
  <2>5. CASE OrderOf[l] # o
    BY <2>1, <2>2, <2>5 DEF ln
  <2>6. QED BY <2>4, <2>5
<1>3. CancelledLines(o) = [l \in Line |-> CancelledLines(o)[l]]
  BY DEF CancelledLines
<1>4. CancelledLines(o) \in [Line -> GoodLine]
  BY <1>2, <1>3
<1>5. QED BY <1>2, <1>4

\* A cancel of the order.
LEMMA CommitCancelSound ==
  ASSUME LockInv, NEW q \in Req, CommitCancel(q)
  PROVE  Sound(q) /\ tx'[q] = Idle
<1> DEFINE o == tx[q].ord
<1>1. tx[q].pc = "commit" /\ tx[q].op \in Landing /\ Land(q) /\ Release(q)
  BY DEF CommitCancel, Landing
<1>2. /\ status' = [status EXCEPT ![o] = "CANCELLED"] /\ line' = CancelledLines(o)
      /\ fulfil' = [fulfil EXCEPT ![o] = FulfilOf(o, CancelledLines(o))]
      /\ UNCHANGED <<deleted, revision, bill>>
  BY DEF CommitCancel, Roll, CancelledLines
<1>3. RowTypes
  BY TypedIs DEF LockInv
<1>4. /\ rsv' \in [Line -> Seq(GoodRow)] /\ reserved' \in [Item -> Int] /\ ReservedIsOpen'
      /\ \A l \in Line : rsv'[l] # rsv[l] => rowLock[l] = q /\ itemLock[ItemOf[l]] = q /\ OrderOf[l] = tx[q].ord
  BY <1>1, LandDoes
<1>5. o \in Order /\ OrderFree(q, o)
  BY <1>1, CommitHolds
<1>6. RowTypes'
  <2>1. line' \in [Line -> GoodLine]
    BY <1>2, CancelledLinesType
  <2>2. fulfil' \in [Order -> {"PENDING", "PARTIAL", "COMPLETED", "CANCELLED"}]
    BY <1>2, <1>3, FulfilType DEF RowTypes
  <2>3. status' \in [Order -> {"DRAFT", "CONFIRMED", "COMPLETED", "CANCELLED"}]
    BY <1>2, <1>3 DEF RowTypes
  <2>4. QED BY <1>2, <1>3, <1>4, <2>1, <2>2, <2>3 DEF RowTypes
<1>7. Touch(q)
  <2>1. \A l \in Line : line'[l] # line[l] => OrderOf[l] = o
    BY <1>2 DEF CancelledLines
  <2>2. \A p \in Order : status'[p] # status[p] => p = o /\ status'[p] # "DRAFT"
    BY <1>2, <1>3 DEF RowTypes
  <2>3. QED BY <1>2, <1>4, <1>5, <2>1, <2>2 DEF Touch
<1>8. QED BY <1>1, <1>4, <1>6, <1>7, ReleaseSound

\* The lines a cancel of lines writes.
CutInto(q) ==
  [l \in Line |-> IF l \in tx[q].todo THEN [line[l] EXCEPT !.cancelled = tx[q].due[l].cancelled] ELSE line[l]]

\* A cancel of lines that the quantity check lets through.
LEMMA CommitCutSound ==
  ASSUME LockInv, NEW q \in Req, CommitCut(q), ~Rollback(q)
  PROVE  Sound(q) /\ tx'[q] = Idle
<1> DEFINE o == tx[q].ord
           w == FulfilOf(o, tx[q].due)
<1>1. tx[q].pc = "commit" /\ tx[q].op = "cut" /\ OrderFree(q, o) /\ Release(q)
  BY DEF CommitCut
<1>2. /\ line' = CutInto(q) /\ \A l \in tx[q].todo : ~(Pending(CutInto(q)[l]) < 0)
      /\ fulfil' = [fulfil EXCEPT ![o] = w]
      /\ status' = [status EXCEPT ![o] = IF w \in {"COMPLETED", "CANCELLED"} THEN w ELSE @]
      /\ UNCHANGED <<deleted, revision, rsv, reserved, bill>>
  BY DEF CommitCut, CutInto
<1>3. RowTypes /\ ReservedIsOpen /\ tx \in [Req -> TxRow] /\ Held(q)
  BY TypedIs DEF LockInv
<1>4. o \in Order /\ tx[q].todo \subseteq LinesOf(o) /\ tx[q].due \in [Line -> LineRow]
  BY <1>1, <1>3, TxParts DEF Held, About
<1>5. w \in {"PENDING", "PARTIAL", "COMPLETED", "CANCELLED"}
  BY FulfilType
<1> HIDE DEF w, o
<1>6. CutInto(q) \in [Line -> GoodLine]
  <2>1. ASSUME NEW l \in Line PROVE CutInto(q)[l] \in GoodLine
    <3> DEFINE ln == line[l]
               c == tx[q].due[l].cancelled
               new == [ln EXCEPT !.cancelled = c]
    <3>1. ln \in GoodLine /\ c \in Nat
      BY <1>3, <1>4 DEF RowTypes, LineRow
    <3>2. CutInto(q)[l] = IF l \in tx[q].todo THEN new ELSE ln
      BY DEF CutInto
    <3> HIDE DEF ln, c
    <3>3. new \in LineRow /\ new.net = ln.net /\ new.net > 0 /\ new.net \in Nat
          /\ new.delivered \in Nat /\ new.cancelled \in Nat
      BY <3>1 DEF GoodLine, LineRow
    <3> HIDE DEF new
    <3>4. CASE l \in tx[q].todo
      <4>1. ~(Pending(new) < 0)
        BY <1>2, <3>2, <3>4
      <4>2. new \in GoodLine
        BY <3>3, <4>1 DEF GoodLine, Pending
      <4>3. QED BY <3>2, <3>4, <4>2
    <3>5. CASE l \notin tx[q].todo
      BY <3>1, <3>2, <3>5
    <3>6. QED BY <3>4, <3>5
  <2>2. CutInto(q) = [l \in Line |-> CutInto(q)[l]]
    BY DEF CutInto
  <2>3. QED BY <2>1, <2>2
<1>7. RowTypes'
  <2>1. fulfil' \in [Order -> {"PENDING", "PARTIAL", "COMPLETED", "CANCELLED"}]
    BY <1>2, <1>3, <1>5 DEF RowTypes
  <2>2. status' \in [Order -> {"DRAFT", "CONFIRMED", "COMPLETED", "CANCELLED"}]
    BY <1>2, <1>3 DEF RowTypes
  <2>3. QED BY <1>2, <1>3, <1>6, <2>1, <2>2 DEF RowTypes
<1>8. Touch(q)
  <2>1. \A l \in Line : line'[l] # line[l] => OrderOf[l] = o
    BY <1>2, <1>4 DEF CutInto, LinesOf
  <2>2. \A p \in Order : status'[p] # status[p] => p = o /\ status'[p] # "DRAFT"
    BY <1>2, <1>3 DEF RowTypes
  <2>3. QED BY <1>1, <1>2, <1>4, <2>1, <2>2 DEF Touch, o
<1>9. ReservedIsOpen'
  BY <1>2, <1>3 DEF ReservedIsOpen
<1>10. QED BY <1>1, <1>7, <1>8, <1>9, ReleaseSound

\* The lines a save writes.
SaveInto(q) ==
  [l \in Line |-> IF tx[q].form[l] > 0
                  THEN [line[l] EXCEPT !.qty = tx[q].form[l], !.net = tx[q].form[l]] ELSE line[l]]

\* What a save writes is lines, and the request of an amend goes on.
LEMMA CommitSaveSound ==
  ASSUME LockInv, NEW q \in Req, CommitSave(q), ~Rollback(q)
  PROVE  Sound(q) /\ (tx'[q].pc = "idle" \/ (tx'[q].pc = "lock" /\ tx'[q].op = "amend" /\ SameSubject(q)))
<1> DEFINE o == tx[q].ord
<1>1. tx[q].pc = "save" /\ OrderFree(q, o)
  BY DEF CommitSave
<1>2. /\ line' = SaveInto(q) /\ \A l \in LinesOf(o) : ~(Pending(SaveInto(q)[l]) < 0)
      /\ UNCHANGED <<status, fulfil, deleted, revision, rsv, reserved, bill>>
  BY DEF CommitSave, SaveInto
<1>2a. IF tx[q].op = "amend" THEN Goes(q, "lock") /\ UNCHANGED locks ELSE Release(q)
  BY DEF CommitSave
<1>3. RowTypes /\ LockTypes /\ ReservedIsOpen /\ tx \in [Req -> TxRow] /\ Held(q)
  BY TypedIs DEF LockInv
<1>4. o \in Order /\ Billed(tx[q].form) \subseteq LinesOf(o) /\ tx[q].form \in [Line -> Nat]
  BY <1>1, <1>3, TxParts DEF Held, About
<1> HIDE DEF o
<1>5. SaveInto(q) \in [Line -> GoodLine]
  <2>1. ASSUME NEW l \in Line PROVE SaveInto(q)[l] \in GoodLine
    <3> DEFINE ln == line[l]
               c == tx[q].form[l]
               new == [ln EXCEPT !.qty = c, !.net = c]
    <3>1. ln \in GoodLine /\ c \in Nat /\ (c > 0 => l \in LinesOf(o))
      BY <1>3, <1>4 DEF RowTypes, Billed
    <3>2. SaveInto(q)[l] = IF c > 0 THEN new ELSE ln
      BY DEF SaveInto
    <3>2a. c > 0 => ~(Pending(SaveInto(q)[l]) < 0)
      BY <1>2, <3>1
    <3> HIDE DEF ln, c
    <3>3. new \in LineRow /\ new.net = c /\ new.delivered \in Nat /\ new.cancelled \in Nat
      BY <3>1 DEF GoodLine, LineRow
    <3> HIDE DEF new
    <3>4. CASE c > 0
      <4>1. ~(Pending(new) < 0)
        BY <3>2, <3>2a, <3>4
      <4>2. new \in GoodLine
        BY <3>1, <3>3, <3>4, <4>1 DEF GoodLine, Pending
      <4>3. QED BY <3>2, <3>4, <4>2
    <3>5. CASE ~(c > 0)
      BY <3>1, <3>2, <3>5
    <3>6. QED BY <3>4, <3>5
  <2>2. SaveInto(q) = [l \in Line |-> SaveInto(q)[l]]
    BY DEF SaveInto
  <2>3. QED BY <2>1, <2>2
<1>6. RowTypes'
  BY <1>2, <1>3, <1>5 DEF RowTypes
<1>7. Touch(q)
  <2>1. \A l \in Line : line'[l] # line[l] => OrderOf[l] = o
    BY <1>2, <1>4 DEF SaveInto, LinesOf, Billed
  <2>2. QED BY <1>1, <1>2, <1>4, <2>1 DEF Touch, o
<1>8. ReservedIsOpen'
  BY <1>2, <1>3 DEF ReservedIsOpen
<1>9. CASE tx[q].op # "amend"
  <2>1. Release(q)
    BY <1>2a, <1>9
  <2>2. QED BY <1>6, <1>7, <1>8, <2>1, ReleaseSound, IdleType
<1>10. CASE tx[q].op = "amend"
  <2>1. tx' = [tx EXCEPT ![q].pc = "lock"] /\ UNCHANGED locks
    BY <1>2a, <1>10 DEF Goes
  <2>2. "lock" \in Pc
    BY DEF Pc
  <2>3. /\ tx' \in [Req -> TxRow] /\ \A r \in Req : r # q => tx'[r] = tx[r]
        /\ SameSubject(q) /\ tx'[q].pc = "lock" /\ tx'[q].todo = tx[q].todo /\ tx'[q].marked = tx[q].marked
    BY <1>3, <2>1, <2>2, GoesFields DEF SameSubject
  <2>4. Away(q) /\ LockTypes'
    BY <1>3, <2>1, <2>3 DEF Away, locks, LockTypes
  <2>5. tx[q].marked = {} /\ (\A l \in Line : rowLock[l] # q) /\ tx[q].todo \subseteq LinesOf(tx[q].ord)
    BY <1>1, <1>3 DEF Held, Marked, OwnRows, About
  <2>6. About(q)'
    <3>1. UNCHANGED <<bill, billLock>>
      BY <1>2, <2>1 DEF locks
    <3>2. QED BY <1>1, <2>3, <2>5, <3>1, AboutStays
  <2>7. Stage(q)' /\ ~HoldsOrder(q)' /\ Ready(q)'
    BY <1>10, <2>3 DEF Stage, SameSubject, HoldsOrder, Ready, BillOp
  <2>8. OwnRows(q)' /\ Marked(q)'
    BY <2>1, <2>3, <2>5 DEF OwnRows, Marked, locks
  <2>9. Held(q)'
    BY <2>6, <2>7, <2>8 DEF Held
  <2>10. Typed'
    BY <1>6, <2>3, <2>4, TypedAfter
  <2>11. QED BY <1>7, <1>8, <1>10, <2>3, <2>4, <2>9, <2>10 DEF Sound, SameSubject
<1>11. QED BY <1>9, <1>10

\* The last transaction of an amend.
LEMMA CommitAmendSound ==
  ASSUME LockInv, NEW q \in Req, CommitAmend(q)
  PROVE  Sound(q) /\ tx'[q] = Idle
<1>1. tx[q].pc = "commit" /\ tx[q].op \in Landing /\ Land(q) /\ Release(q)
  BY DEF CommitAmend, Landing
<1>2. /\ revision' = [revision EXCEPT ![tx[q].ord] = tx[q].rev + 1]
      /\ UNCHANGED <<status, fulfil, deleted, line, bill>>
  BY DEF CommitAmend
<1>3. RowTypes /\ tx[q].rev \in Nat
  BY TypedIs, TxParts DEF LockInv
<1>4. /\ rsv' \in [Line -> Seq(GoodRow)] /\ reserved' \in [Item -> Int] /\ ReservedIsOpen'
      /\ \A l \in Line : rsv'[l] # rsv[l] => rowLock[l] = q /\ itemLock[ItemOf[l]] = q /\ OrderOf[l] = tx[q].ord
  BY <1>1, LandDoes
<1>5. tx[q].ord \in Order /\ OrderFree(q, tx[q].ord)
  BY <1>1, CommitHolds
<1>6. RowTypes'
  <2>1. revision' \in [Order -> Nat]
    <3> DEFINE n == tx[q].rev + 1
    <3>1. n \in Nat /\ revision \in [Order -> Nat] /\ revision' = [revision EXCEPT ![tx[q].ord] = n]
      BY <1>2, <1>3 DEF RowTypes
    <3> HIDE DEF n
    <3>2. QED BY <3>1
  <2>2. QED BY <1>2, <1>3, <1>4, <2>1 DEF RowTypes
<1>7. Touch(q)
  BY <1>2, <1>3, <1>4, <1>5 DEF Touch, RowTypes
<1>8. QED BY <1>1, <1>4, <1>6, <1>7, ReleaseSound

\* A delete.
LEMMA CommitDeleteSound ==
  ASSUME LockInv, NEW q \in Req, CommitDelete(q), ~Rollback(q)
  PROVE  Sound(q) /\ tx'[q] = Idle
<1> DEFINE o == tx[q].ord
<1>1. tx[q].pc = "commit" /\ OrderFree(q, o) /\ Release(q)
  BY DEF CommitDelete
<1>2. /\ status' = [status EXCEPT ![o] = "CANCELLED"] /\ deleted' = [deleted EXCEPT ![o] = TRUE]
      /\ UNCHANGED <<fulfil, revision, line, rsv, reserved, bill>>
  BY DEF CommitDelete
<1>3. RowTypes /\ ReservedIsOpen /\ o \in Order
  BY <1>1, TypedIs DEF LockInv, Held, About
<1>4. RowTypes' /\ ReservedIsOpen'
  BY <1>2, <1>3 DEF RowTypes, ReservedIsOpen
<1>5. Touch(q)
  BY <1>1, <1>2, <1>3 DEF Touch, RowTypes
<1>6. QED BY <1>1, <1>4, <1>5, ReleaseSound

\* A bill is posted, cancelled or amended.
LEMMA CommitBillSound ==
  ASSUME LockInv, NEW q \in Req, CommitBill(q)
  PROVE  Sound(q) /\ tx'[q] = Idle
<1> DEFINE o == tx[q].ord
           b == tx[q].bil
<1>1. tx[q].pc = "commit" /\ tx[q].op \in BillOp /\ tx[q].op \in Landing /\ Land(q) /\ Release(q)
  BY DEF CommitBill, Landing
<1>2. /\ bill' = [bill EXCEPT ![b] = BillAfter(q)]
      /\ line' = [l \in Line |-> IF l \in tx[q].todo THEN tx[q].due[l] ELSE line[l]]
      /\ fulfil' = [fulfil EXCEPT ![o] = FulfilOf(o, tx[q].due)]
      /\ status' = [status EXCEPT ![o] = StatusOf(o, tx[q].due)]
      /\ UNCHANGED <<deleted, revision>>
  BY DEF CommitBill
<1>3. RowTypes /\ Typed /\ Held(q)
  BY TypedIs DEF LockInv
<1>4. /\ rsv' \in [Line -> Seq(GoodRow)] /\ reserved' \in [Item -> Int] /\ ReservedIsOpen'
      /\ \A l \in Line : rsv'[l] # rsv[l] => rowLock[l] = q /\ itemLock[ItemOf[l]] = q /\ OrderOf[l] = tx[q].ord
  BY <1>1, LandDoes
<1>5. /\ o \in Order /\ OrderFree(q, o) /\ b \in Bill /\ o = OrderOfBill(b) /\ billLock[b] = q
      /\ tx[q].todo \subseteq LinesOf(o)
  BY <1>1, CommitHolds DEF About
<1>6. BillAfter(q) \in BillRow /\ Billed(BillAfter(q).take) \subseteq LinesOf(o)
  <2>1. BillAfter(q) \in BillRow
    BY <1>3, <1>5, BillAfterType
  <2>2. Billed(bill[b].take) \subseteq LinesOf(o) /\ Billed(tx[q].form) \subseteq LinesOf(o)
    BY <1>1, <1>3, <1>5, CommitHolds DEF RowTypes, About
  <2>3. BillAfter(q).take \in {bill[b].take, tx[q].form}
    BY <1>3, <1>5 DEF BillAfter, RowTypes, BillRow
  <2>4. QED BY <2>1, <2>2, <2>3
<1>7. RowTypes'
  <2>1. line' \in [Line -> GoodLine]
    BY <1>1, <1>2, <1>3 DEF Held, Ready, RowTypes
  <2>2. fulfil' \in [Order -> {"PENDING", "PARTIAL", "COMPLETED", "CANCELLED"}]
    BY <1>2, <1>3, FulfilType DEF RowTypes
  <2>3. status' \in [Order -> {"DRAFT", "CONFIRMED", "COMPLETED", "CANCELLED"}]
    BY <1>2, <1>3 DEF RowTypes, StatusOf
  <2>4. bill' \in [Bill -> BillRow] /\ \A c \in Bill : Billed(bill'[c].take) \subseteq LinesOf(OrderOfBill(c))
    <3> HIDE DEF b
    <3>1. bill'[b] = BillAfter(q) /\ \A c \in Bill : c # b => bill'[c] = bill[c]
      BY <1>2, <1>3, <1>5 DEF RowTypes
    <3>2. bill' \in [Bill -> BillRow]
      BY <1>2, <1>3, <1>6 DEF RowTypes
    <3>3. QED BY <1>3, <1>5, <1>6, <3>1, <3>2 DEF RowTypes
  <2>5. QED BY <1>2, <1>3, <1>4, <2>1, <2>2, <2>3, <2>4 DEF RowTypes
<1>8. Touch(q)
  <2>1. \A l \in Line : line'[l] # line[l] => OrderOf[l] = o
    BY <1>2, <1>5 DEF LinesOf
  <2>2. \A p \in Order : status'[p] # status[p] => p = o /\ status'[p] # "DRAFT"
    <3>1. StatusOf(o, tx[q].due) \in {"COMPLETED", "CANCELLED", status[o]}
      BY DEF StatusOf
    <3>2. QED BY <1>2, <1>3, <1>5, <3>1 DEF RowTypes
  <2>3. \A c \in Bill : bill'[c] # bill[c] => billLock[c] = q /\ OrderOfBill(c) = o
    BY <1>2, <1>3, <1>5 DEF RowTypes
  <2>4. QED BY <1>4, <1>5, <2>1, <2>2, <2>3 DEF Touch
<1>9. QED BY <1>1, <1>4, <1>7, <1>8, ReleaseSound

-----------------------------------------------------------------------------
(* The reserved figures. *)

\* Every step is sound for the request that takes it.
LEMMA StepSound ==
  ASSUME LockInv, NEW q \in Req, Arrival(q) \/ Advance(q) \/ Abort(q)
  PROVE  Sound(q)
<1>1. ASSUME Rollback(q) PROVE Sound(q)
  BY <1>1, RollbackHeld, QuietSound
<1>2. CASE Arrival(q)
  <2>1. ASSUME NEW o \in Order, NEW p \in OrderOp, OrderRequest(q, o, p) PROVE Sound(q)
    BY <2>1, OrderRequestHeld, QuietSound
  <2>2. ASSUME NEW o \in Order, ReadLines(q, o) \/ SaveRequest(q, o) \/ AmendGate(q, o) \/ DeleteRequest(q, o)
        PROVE  Sound(q)
    BY <2>2, ReadLinesHeld, SaveRequestHeld, AmendGateHeld, DeleteRequestHeld, QuietSound
  <2>3. ASSUME NEW b \in Bill, PostBill(q, b) \/ SavePostBill(q, b) \/ CancelBill(q, b) \/ AmendBill(q, b)
        PROVE  Sound(q)
    BY <2>3, BillArrivalHeld, QuietSound
  <2>4. QED BY <1>2, <2>1, <2>2, <2>3 DEF Arrival
<1>3. CASE Advance(q)
  <2>1. CASE LockOrder(q)
    BY <1>1, <2>1, LockOrderHeld, QuietSound
  <2>2. CASE LockItem(q)
    BY <2>2, LockItemHeld, QuietSound
  <2>3. CASE TakeLine(q)
    BY <2>3, TakeLineHeld, QuietSound
  <2>4. CASE ReleaseRows(q)
    BY <2>4, ReleaseRowsHeld, QuietSound
  <2>5. CASE Mark(q)
    BY <2>5, MarkHeld, QuietSound
  <2>6. CASE EarlySync(q)
    BY <1>1, <2>6, EarlySyncHeld, QuietSound
  <2>7. CASE GuardSources(q)
    BY <1>1, <2>7, GuardSourcesHeld, QuietSound
  <2>8. CASE StockMoved(q)
    BY <2>8, StockMovedHeld, QuietSound
  <2>9. CASE Consume(q)
    BY <2>9, ConsumeHeld, QuietSound
  <2>10. CASE SyncFulfilment(q)
    BY <1>1, <2>10, SyncHeld, QuietSound
  <2>11. CASE CommitConfirm(q)
    BY <2>11, CommitConfirmSound
  <2>12. CASE CommitCancel(q)
    BY <2>12, CommitCancelSound
  <2>13. CASE CommitCut(q)
    BY <1>1, <2>13, CommitCutSound
  <2>14. CASE CommitSave(q)
    BY <1>1, <2>14, CommitSaveSound
  <2>15. CASE CommitAmend(q)
    BY <2>15, CommitAmendSound
  <2>16. CASE CommitDelete(q)
    BY <1>1, <2>16, CommitDeleteSound
  <2>17. CASE CommitBill(q)
    BY <2>17, CommitBillSound
  <2>18. QED
    BY <1>3, <2>1, <2>2, <2>3, <2>4, <2>5, <2>6, <2>7, <2>8, <2>9, <2>10, <2>11, <2>12, <2>13,
       <2>14, <2>15, <2>16, <2>17 DEF Advance
<1>4. CASE Abort(q)
  BY <1>1, <1>4 DEF Abort
<1>5. QED BY <1>2, <1>3, <1>4

\* Nobody holds anything at the start.
LEMMA LockInit == Init => LockInv
<1> SUFFICES ASSUME Init PROVE LockInv
  OBVIOUS
<1>1. tx \in [Req -> TxRow] /\ \A r \in Req : tx[r] = Idle
  BY IdleType DEF Init
<1>2. LockTypes
  BY DEF Init, LockTypes
<1>3. RowTypes
  <2>1. line \in [Line -> GoodLine]
    <3>1. ASSUME NEW l \in Line
          PROVE  [qty |-> Want[l], net |-> Want[l], delivered |-> 0, cancelled |-> 0] \in GoodLine
      <4>1. Want[l] \in Nat /\ Want[l] > 0
        BY LineAssumption
      <4>2. QED BY <4>1 DEF GoodLine, LineRow, Pending
    <3>2. QED BY <3>1 DEF Init
  <2>2. rsv \in [Line -> Seq(GoodRow)]
    BY DEF Init
  <2>3. bill \in [Bill -> BillRow] /\ \A b \in Bill : Billed(bill[b].take) \subseteq LinesOf(OrderOfBill(b))
    BY BillAssumption DEF Init, BillRow
  <2>4. reserved \in [Item -> Int] /\ revision \in [Order -> Nat] /\ deleted \in [Order -> BOOLEAN]
    BY DEF Init
  <2>5. QED BY <2>1, <2>2, <2>3, <2>4 DEF Init, RowTypes
<1>4. Typed
  BY <1>1, <1>2, <1>3, TypedIs
<1>5. ReservedIsOpen
  <2> SUFFICES ASSUME NEW i \in Item PROVE reserved[i] = ReservedOf(i, rsv)
    BY DEF ReservedIsOpen
  <2>1. \A l \in Line : rsv[l] = << >>
    BY DEF Init
  <2>2. << >> \in Seq(GoodRow) /\ Live(<< >>) = {}
    BY DEF Live
  <2>3. OpenOf(<< >>) = 0
    BY <2>2, NoLiveNoOpen
  <2>4. [l \in Line |-> IF ItemOf[l] = i THEN OpenOf(rsv[l]) ELSE 0] = [l \in Line |-> 0]
    BY <2>1, <2>3
  <2>5. reserved[i] = 0
    BY DEF Init
  <2>6. QED BY <2>4, <2>5, ZeroSum, LineAssumption DEF ReservedOf
<1>6. ASSUME NEW r \in Req PROVE Held(r)
  <2>1. tx[r].pc = "idle" /\ tx[r].marked = {} /\ tx[r].todo = {}
    BY <1>1, IdleType
  <2>2. \A l \in Line : rowLock[l] # r
    BY NoneAssumption DEF Init
  <2>3. QED BY <2>1, <2>2 DEF Held, Stage, HoldsOrder, OwnRows, Marked, Ready
<1>7. QED BY <1>4, <1>5, <1>6 DEF LockInv

\* Every step keeps it.
LEMMA LockStep ==
  ASSUME LockInv, NEW q \in Req, Sound(q)
  PROVE  LockInv'
<1>1. Typed' /\ ReservedIsOpen' /\ Touch(q) /\ Away(q) /\ Held(q)'
  BY DEF Sound
<1>2. \A r \in Req : Held(r)'
  BY <1>1, Kept
<1>3. QED BY <1>1, <1>2 DEF LockInv

\* A step that changes no variable.
LEMMA LockStutter ==
  ASSUME LockInv, UNCHANGED vars
  PROVE  LockInv'
<1>1. UNCHANGED <<status, fulfil, deleted, revision, line, rsv, reserved, bill, orderLock, rowLock, itemLock, billLock, tx>>
  BY DEF vars, rows, locks
<1>2. Typed /\ ReservedIsOpen /\ \A r \in Req : Held(r)
  BY DEF LockInv
<1>3. RowTypes' /\ LockTypes' /\ (tx \in [Req -> TxRow])'
  BY <1>1, <1>2, TypedIs DEF RowTypes, LockTypes
<1>4. Typed'
  BY <1>3, TypedAfter
<1>5. ReservedIsOpen'
  BY <1>1, <1>2 DEF ReservedIsOpen
<1>6. ASSUME NEW r \in Req PROVE Held(r)'
  <2>1. Held(r)
    BY <1>2
  <2>2. [l \in Line |-> View(r, l)]' = [l \in Line |-> View(r, l)]
    BY <1>1 DEF View
  <2>3. Marked(r)'
    BY <1>1, <2>1, <2>2 DEF Held, Marked
  <2>4. QED BY <1>1, <2>1, <2>3 DEF Held, About, Stage, HoldsOrder, OwnRows, Ready
<1>7. QED BY <1>4, <1>5, <1>6 DEF LockInv

\* What transactions hold and carry stays right through every interleaving.
THEOREM LockSafety == Spec => []LockInv
<1>1. ASSUME LockInv, [Next]_vars PROVE LockInv'
  <2>1. CASE Next
    <3>1. PICK q \in Req : Arrival(q) \/ Advance(q) \/ Abort(q)
      BY <2>1 DEF Next
    <3>2. QED BY <1>1, <3>1, StepSound, LockStep
  <2>2. CASE UNCHANGED vars
    BY <1>1, <2>2, LockStutter
  <2>3. QED BY <1>1, <2>1, <2>2
<1>2. QED BY <1>1, LockInit, PTL DEF Spec

\* Every row of the order, its lines, reservations, bills and locks keeps its
\* type, and no quantity goes below zero (ck_soi_qty_signs, ck_srv_qty).
THEOREM SaleOrderTyped == Spec => []TypeOK
<1>1. LockInv => TypeOK
  BY DEF LockInv, Typed
<1>2. QED BY <1>1, LockSafety, PTL

\* The reserved figure of every balance is the sum of the open reservations
\* after every commit (refreshReserved).
THEOREM ReservedFigureRight == Spec => []ReservedIsOpen
<1>1. LockInv => ReservedIsOpen
  BY DEF LockInv
<1>2. QED BY <1>1, LockSafety, PTL

-----------------------------------------------------------------------------
(* The recomputed lines. *)

\* The lines of a locked order, and its bills, stay as they are.
LEMMA OrderStays ==
  ASSUME LockInv, NEW q \in Req, NEW r \in Req, r # q, Touch(q), HoldsOrder(r)
  PROVE  /\ \A l \in LinesOf(tx[r].ord) : line'[l] = line[l] /\ rsv'[l] = rsv[l]
         /\ \A b \in Bill : OrderOfBill(b) = tx[r].ord => bill'[b] = bill[b]
         /\ tx[r].ord \in Order /\ status'[tx[r].ord] = status[tx[r].ord]
<1>1. tx[r].pc # "idle"
  BY DEF HoldsOrder
<1>2. orderLock[tx[r].ord] = r /\ tx[r].ord \in Order
  BY <1>1 DEF LockInv, Held, About
<1>3. CASE UNCHANGED <<status, line, rsv, bill>>
  BY <1>2, <1>3
<1>4. CASE tx[q].ord \in Order /\ OrderFree(q, tx[q].ord)
  <2>1. tx[q].ord # tx[r].ord
    BY <1>2, <1>4, NoneAssumption DEF OrderFree
  <2>2. QED BY <1>2, <2>1 DEF Touch, LinesOf
<1>5. QED BY <1>3, <1>4 DEF Touch

\* A bill counts for nothing on another order's lines.
LEMMA ElsewhereNothing ==
  ASSUME Typed, NEW b \in Bill, NEW l \in Line, OrderOfBill(b) # OrderOf[l]
  PROVE  bill[b].take[l] = 0
<1>1. bill[b].take \in [Line -> Nat] /\ Billed(bill[b].take) \subseteq LinesOf(OrderOfBill(b))
  BY DEF Typed, TypeOK
<1>2. QED BY <1>1 DEF Billed, LinesOf

\* The same of the bills after a step.
LEMMA ElsewhereNothingAfter ==
  ASSUME Typed', NEW b \in Bill, NEW l \in Line, OrderOfBill(b) # OrderOf[l]
  PROVE  bill'[b].take[l] = 0
<1>1. bill'[b].take \in [Line -> Nat] /\ Billed(bill'[b].take) \subseteq LinesOf(OrderOfBill(b))
  BY DEF Typed, TypeOK
<1>2. QED BY <1>1 DEF Billed, LinesOf

\* A line with what is billed of it.
Resummed(ln, n) ==
  LET new == [ln EXCEPT !.delivered = n]
  IN IF Pending(new) < 0 THEN [new EXCEPT !.net = new.delivered + new.cancelled] ELSE new

\* The bill names the line, or some other bill does.
Named(r, l) ==
  /\ OrderOf[l] = tx[r].ord
  /\ BillAfter(r).take[l] > 0 \/ bill[tx[r].bil].take[l] > 0 \/ BilledQty(r, l) > 0

\* What a bill about to commit recomputed is still right when another request
\* has stepped.
LEMMA RecomputedStays ==
  ASSUME LockInv, Typed', NEW q \in Req, NEW r \in Req, r # q, Away(q), Touch(q),
         tx[r].op \in BillOp, tx[r].pc = "commit"
  PROVE  \A l \in LinesOf(tx[r].ord) : Recomputed(r)'[l] = Recomputed(r)[l] /\ line'[l] = line[l]
<1> DEFINE o == tx[r].ord
           x == tx[r].bil
<1>1. tx'[r] = tx[r]
  BY DEF Away
<1>2. HoldsOrder(r)
  BY DEF HoldsOrder
<1>3. /\ \A l \in LinesOf(o) : line'[l] = line[l]
      /\ \A b \in Bill : OrderOfBill(b) = o => bill'[b] = bill[b]
  BY <1>2, OrderStays
<1>4. Typed /\ x \in Bill /\ OrderOfBill(x) = o
  BY DEF LockInv, Held, About
<1>5. bill'[x] = bill[x] /\ BillAfter(r)' = BillAfter(r)
  BY <1>1, <1>3, <1>4 DEF BillAfter
<1>6. ASSUME NEW l \in LinesOf(o) PROVE BilledQty(r, l)' = BilledQty(r, l)
  <2> DEFINE f(b) == LET now == IF b = x THEN BillAfter(r) ELSE bill[b]
                     IN IF now.status = "POSTED" THEN now.take[l] ELSE 0
             g(b) == LET now == IF b = x THEN BillAfter(r) ELSE bill'[b]
                     IN IF now.status = "POSTED" THEN now.take[l] ELSE 0
  <2>1. ASSUME NEW b \in Bill PROVE f(b) = g(b)
    <3>1. CASE OrderOfBill(b) = o
      BY <1>3, <3>1
    <3>2. CASE OrderOfBill(b) # o
      <4>1. l \in Line /\ OrderOf[l] = o
        BY <1>6 DEF LinesOf
      <4>2. bill[b].take[l] = 0 /\ bill'[b].take[l] = 0
        BY <1>4, <3>2, <4>1, ElsewhereNothing, ElsewhereNothingAfter
      <4>3. b # x
        BY <1>4, <3>2
      <4>4. QED BY <4>2, <4>3
    <3>3. QED BY <3>1, <3>2
  <2>2. BilledQty(r, l) = SumFunction([b \in Bill |-> f(b)])
    BY DEF BilledQty
  <2>3. BilledQty(r, l)' = SumFunction([b \in Bill |-> g(b)])
    BY <1>1, <1>5 DEF BilledQty
  <2> HIDE DEF f, g
  <2>4. QED BY <2>1, <2>2, <2>3
<1>7. ASSUME NEW l \in LinesOf(o) PROVE Recomputed(r)'[l] = Recomputed(r)[l]
  <2>1. l \in Line /\ line'[l] = line[l] /\ BilledQty(r, l)' = BilledQty(r, l)
    BY <1>3, <1>6, <1>7 DEF LinesOf
  <2>2. Named(r, l)' <=> Named(r, l)
    BY <1>1, <1>5, <2>1 DEF Named
  <2>3. Recomputed(r)[l] = IF Named(r, l) THEN Resummed(line[l], BilledQty(r, l)) ELSE line[l]
    BY <2>1 DEF Recomputed, Named, Resummed
  <2>4. Recomputed(r)'[l] = IF Named(r, l)' THEN Resummed(line'[l], BilledQty(r, l)') ELSE line'[l]
    BY <2>1 DEF Recomputed, Named, Resummed
  <2>5. QED BY <2>1, <2>2, <2>3, <2>4
<1>8. QED BY <1>3, <1>7

\* A bill gets to its commit through the recompute.
LEMMA BillCommits ==
  ASSUME LockInv, NEW q \in Req, Arrival(q) \/ Advance(q) \/ Abort(q), tx'[q].op \in BillOp, tx'[q].pc = "commit"
  PROVE  SyncFulfilment(q) /\ ~Rollback(q)
<1>0. HoldsOrder(q)'
  BY DEF HoldsOrder
<1>1. ASSUME Rollback(q) PROVE FALSE
  BY <1>1, RollbackHeld
<1>2. CASE Arrival(q)
  <2>1. ASSUME NEW o \in Order, NEW p \in OrderOp, OrderRequest(q, o, p) PROVE FALSE
    BY <1>0, <2>1, OrderRequestHeld
  <2>2. ASSUME NEW o \in Order, ReadLines(q, o) \/ SaveRequest(q, o) \/ AmendGate(q, o) \/ DeleteRequest(q, o)
        PROVE  FALSE
    BY <1>0, <2>2, ReadLinesHeld, SaveRequestHeld, AmendGateHeld, DeleteRequestHeld
  <2>3. ASSUME NEW b \in Bill, PostBill(q, b) \/ SavePostBill(q, b) \/ CancelBill(q, b) \/ AmendBill(q, b)
        PROVE  FALSE
    BY <1>0, <2>3, BillArrivalHeld
  <2>4. QED BY <1>2, <2>1, <2>2, <2>3 DEF Arrival
<1>3. CASE Advance(q)
  <2>0. Held(q)
    BY DEF LockInv
  <2>1. ASSUME LockOrder(q) PROVE FALSE
    <3>1. tx[q].pc = "lock" /\ SameSubject(q)
      BY <1>1, <2>1, LockOrderDoes
    <3>2. QED BY <2>0, <3>1 DEF Held, Stage, SameSubject, BillOp
  <2>2. ASSUME LockItem(q) PROVE FALSE
    <3>1. tx'[q] = tx[q] /\ tx[q].pc # "commit"
      BY <2>2 DEF LockItem, Need
    <3>2. QED BY <3>1
  <2>3. ASSUME TakeLine(q) PROVE FALSE
    BY <2>3, TakeLineDoes
  <2>4. ASSUME ReleaseRows(q) PROVE FALSE
    <3>1. tx[q].pc = "release" /\ SameSubject(q)
      BY <2>4, ReleaseRowsDoes
    <3>2. QED BY <2>0, <3>1 DEF Held, Stage, SameSubject, BillOp
  <2>5. ASSUME Mark(q) PROVE FALSE
    <3>1. tx[q].pc = "mark" /\ SameSubject(q) /\ tx'[q].pc = AfterMark(q)
      BY <2>5, MarkDoes
    <3>2. tx[q].op \in BillOp /\ tx[q].todo = {}
      BY <2>0, <3>1 DEF Held, Stage, SameSubject
    <3>3. QED BY <3>1, <3>2 DEF AfterMark
  <2>6. ASSUME EarlySync(q) PROVE FALSE
    BY <1>0, <1>1, <2>6, EarlySyncHeld
  <2>7. ASSUME GuardSources(q) PROVE FALSE
    BY <1>0, <1>1, <2>7, GuardSourcesHeld
  <2>8. ASSUME StockMoved(q) PROVE FALSE
    BY <1>0, <2>8, StockMovedHeld
  <2>9. ASSUME Consume(q) PROVE FALSE
    BY <1>0, <2>9, ConsumeHeld
  <2>10. CASE SyncFulfilment(q)
    BY <1>1, <2>10
  <2>11. ASSUME tx'[q] = Idle PROVE FALSE
    BY <2>11, IdleType
  <2>12. ASSUME CommitConfirm(q) \/ CommitCancel(q) \/ CommitCut(q) \/ CommitAmend(q) \/ CommitDelete(q) \/ CommitBill(q)
         PROVE  FALSE
    BY <1>1, <2>11, <2>12, CommitConfirmSound, CommitCancelSound, CommitCutSound, CommitAmendSound,
       CommitDeleteSound, CommitBillSound
  <2>13. ASSUME CommitSave(q) PROVE FALSE
    BY <1>1, <2>13, CommitSaveSound
  <2>14. QED
    BY <1>3, <2>1, <2>2, <2>3, <2>4, <2>5, <2>6, <2>7, <2>8, <2>9, <2>10, <2>12, <2>13 DEF Advance
<1>4. CASE Abort(q)
  BY <1>1, <1>4 DEF Abort
<1>5. QED BY <1>2, <1>3, <1>4

\* The recompute itself.
LEMMA SyncSummed ==
  ASSUME LockInv, NEW q \in Req, SyncFulfilment(q), ~Rollback(q)
  PROVE  Summed(q)'
<1>1. /\ SameSubject(q) /\ tx'[q].due = Recomputed(q) /\ tx'[q].todo = {l \in Line : Recomputed(q)[l] # line[l]}
      /\ UNCHANGED <<line, bill>>
  BY SyncDoes DEF rows
<1>2. BillAfter(q)' = BillAfter(q)
  BY <1>1 DEF BillAfter, SameSubject
<1>3. \A l \in Line : BilledQty(q, l)' = BilledQty(q, l)
  BY <1>1, <1>2 DEF BilledQty, SameSubject
<1>4. Recomputed(q)' = Recomputed(q)
  <2>1. \A l \in Line : Named(q, l)' <=> Named(q, l)
    BY <1>1, <1>2, <1>3 DEF Named, SameSubject
  <2>2. Recomputed(q) = [l \in Line |-> IF Named(q, l) THEN Resummed(line[l], BilledQty(q, l)) ELSE line[l]]
    BY DEF Recomputed, Named, Resummed
  <2>3. Recomputed(q)' = [l \in Line |-> IF Named(q, l)' THEN Resummed(line'[l], BilledQty(q, l)') ELSE line'[l]]
    BY DEF Recomputed, Named, Resummed
  <2>4. QED BY <1>1, <1>3, <2>1, <2>2, <2>3
<1>5. \A l \in Line : Recomputed(q)[l] # line[l] => l \in LinesOf(tx[q].ord)
  BY DEF Recomputed, LinesOf
<1> DEFINE d == Recomputed(q)
<1> HIDE DEF d
<1>6. Recomputed(q)' = d /\ tx'[q].due = d /\ tx'[q].todo = {l \in Line : d[l] # line[l]}
      /\ \A l \in Line : d[l] # line[l] => l \in LinesOf(tx[q].ord)
  BY <1>1, <1>4, <1>5 DEF d
<1>7. LinesOf(tx[q].ord) \subseteq Line /\ tx'[q].ord = tx[q].ord /\ line' = line
  BY <1>1 DEF LinesOf, SameSubject
<1>8. QED BY <1>6, <1>7 DEF Summed

\* Every request that is about to write lines has them right after a step.
LEMMA SummedKept ==
  ASSUME LockInv, NEW q \in Req, Arrival(q) \/ Advance(q) \/ Abort(q), NEW r \in Req, Summed(r)
  PROVE  Summed(r)'
<1>1. Sound(q)
  BY StepSound
<1>2. CASE r = q
  <2> SUFFICES ASSUME tx'[q].op \in BillOp, tx'[q].pc = "commit" PROVE Summed(q)'
    BY <1>2 DEF Summed
  <2>1. QED BY BillCommits, SyncSummed
<1>3. CASE r # q
  <2>1. tx'[r] = tx[r] /\ Typed' /\ Away(q) /\ Touch(q)
    BY <1>1, <1>3 DEF Sound, Away
  <2> SUFFICES ASSUME tx[r].op \in BillOp, tx[r].pc = "commit" PROVE Summed(r)'
    BY <2>1 DEF Summed
  <2>2. \A l \in LinesOf(tx[r].ord) : Recomputed(r)'[l] = Recomputed(r)[l] /\ line'[l] = line[l]
    BY <1>3, <2>1, RecomputedStays
  <2>3. QED BY <2>1, <2>2 DEF Summed
<1>4. QED BY <1>2, <1>3

-----------------------------------------------------------------------------
(* The lines and the header of an order against its bills. *)

\* Only five steps write lines.
LEMMA LineWriters ==
  ASSUME LockInv, NEW q \in Req, Arrival(q) \/ Advance(q) \/ Abort(q)
  PROVE  \/ UNCHANGED <<line, bill, fulfil>>
         \/ CommitCancel(q) \/ CommitBill(q)
         \/ CommitCut(q) /\ ~Rollback(q)
         \/ CommitSave(q) /\ ~Rollback(q)
<1>0. UNCHANGED rows => UNCHANGED <<line, bill, fulfil>>
  BY DEF rows
<1>1. ASSUME Rollback(q) PROVE UNCHANGED <<line, bill, fulfil>>
  BY <1>0, <1>1 DEF Rollback
<1>2. CASE Arrival(q)
  BY <1>0, <1>2 DEF Arrival, OrderRequest, ReadLines, SaveRequest, AmendGate, DeleteRequest, PostBill,
     SavePostBill, CancelBill, AmendBill, BillRequest
<1>3. CASE Advance(q)
  <2>1. ASSUME LockOrder(q) \/ EarlySync(q) \/ GuardSources(q) \/ SyncFulfilment(q)
        PROVE  UNCHANGED <<line, bill, fulfil>>
    BY <1>0, <1>1, <2>1 DEF LockOrder, EarlySync, GuardSources, SyncFulfilment
  <2>2. ASSUME LockItem(q) \/ TakeLine(q) \/ ReleaseRows(q) \/ Mark(q) \/ StockMoved(q) \/ Consume(q)
        PROVE  UNCHANGED <<line, bill, fulfil>>
    BY <1>0, <2>2 DEF LockItem, TakeLine, ReleaseRows, Mark, StockMoved, Consume
  <2>3. ASSUME CommitConfirm(q) \/ CommitAmend(q) \/ CommitDelete(q) PROVE UNCHANGED <<line, bill, fulfil>>
    BY <1>1, <2>3 DEF CommitConfirm, CommitAmend, CommitDelete
  <2>4. QED BY <1>1, <1>3, <2>1, <2>2, <2>3 DEF Advance
<1>4. CASE Abort(q)
  BY <1>1, <1>4 DEF Abort
<1>5. QED BY <1>2, <1>3, <1>4

\* What the POSTED bills say of a line, before a step and after it.
Posted(l) == SumFunction([b \in Bill |-> Counts(bill[b], l)])

\* A bill that lands: its lines carry what is billed, and the order's are the
\* recomputed ones.
LEMMA CommitBillLines ==
  ASSUME SumInv, NEW q \in Req, CommitBill(q), NEW l \in Line
  PROVE  /\ line'[l].delivered = BilledQty(q, l) /\ Posted(l)' = BilledQty(q, l)
         /\ OrderOf[l] = tx[q].ord => line'[l] = tx[q].due[l] /\ line'[l] = Recomputed(q)[l]
         /\ OrderOf[l] # tx[q].ord => line'[l] = line[l]
<1> DEFINE o == tx[q].ord
           x == tx[q].bil
<1>1. tx[q].pc = "commit" /\ tx[q].op \in BillOp /\ tx[q].op \in Landing
  BY DEF CommitBill, Landing
<1>2. /\ bill' = [bill EXCEPT ![x] = BillAfter(q)]
      /\ line' = [k \in Line |-> IF k \in tx[q].todo THEN tx[q].due[k] ELSE line[k]]
  BY DEF CommitBill
<1>3. LockInv /\ Typed /\ DeliveredIsBilled /\ Summed(q)
  BY DEF SumInv, LockInv
<1>4. x \in Bill /\ o = OrderOfBill(x) /\ tx[q].todo \subseteq LinesOf(o)
  BY <1>1, <1>3, CommitHolds DEF About
<1>5. Posted(l)' = BilledQty(q, l)
  <2>1. \A b \in Bill : bill'[b] = IF b = x THEN BillAfter(q) ELSE bill[b]
    BY <1>2, <1>3, <1>4 DEF Typed, TypeOK
  <2>2. [b \in Bill |-> Counts(bill'[b], l)] =
          [b \in Bill |-> LET now == IF b = x THEN BillAfter(q) ELSE bill[b]
                          IN IF now.status = "POSTED" THEN now.take[l] ELSE 0]
    BY <2>1 DEF Counts
  <2>3. QED BY <2>2 DEF Posted, BilledQty
<1>6. OrderOf[l] = o => line'[l] = tx[q].due[l] /\ line'[l] = Recomputed(q)[l]
  BY <1>1, <1>2, <1>3 DEF Summed, LinesOf
<1>7. OrderOf[l] # o => line'[l] = line[l]
  BY <1>2, <1>4 DEF LinesOf
<1>8. line[l].delivered = Posted(l)
  BY <1>3 DEF DeliveredIsBilled, Posted, Counts
<1>9. /\ BilledQty(q, l) = Posted(l) - Counts(bill[x], l) + Counts(BillAfter(q), l)
      /\ BilledQty(q, l) \in Nat /\ Posted(l) \in Nat
  BY <1>3, <1>4, BilledSum DEF Posted
<1>10. Counts(bill[x], l) \in Nat /\ Counts(BillAfter(q), l) \in Nat /\ bill[x] \in BillRow /\ BillAfter(q) \in BillRow
  BY <1>3, <1>4, BillAfterType, CountsNat DEF Typed, TypeOK, BillRow
<1>11. line'[l].delivered = BilledQty(q, l)
  <2>1. CASE Named(q, l)
    <3>1. line'[l] = Resummed(line[l], BilledQty(q, l))
      <4>1. OrderOf[l] = o
        BY <2>1 DEF Named
      <4>2. Recomputed(q)[l] = Resummed(line[l], BilledQty(q, l))
        BY <2>1 DEF Recomputed, Named, Resummed
      <4>3. QED BY <1>6, <4>1, <4>2
    <3> DEFINE ln == line[l]
               n == BilledQty(q, l)
               new == [ln EXCEPT !.delivered = n]
               up == [new EXCEPT !.net = new.delivered + new.cancelled]
    <3>2. ln \in LineRow
      BY <1>3 DEF Typed, GoodLine
    <3>3. line'[l] \in {new, up}
      BY <3>1 DEF Resummed
    <3> HIDE DEF ln, n
    <3>4. new.delivered = n /\ up.delivered = n
      BY <3>2 DEF LineRow
    <3> HIDE DEF new, up
    <3>5. line'[l].delivered = n
      BY <3>3, <3>4
    <3>6. QED BY <3>5 DEF n
  <2>2. CASE ~Named(q, l)
    <3>1. line'[l] = line[l]
      <4>1. OrderOf[l] = o => Recomputed(q)[l] = line[l]
        BY <2>2 DEF Recomputed, Named
      <4>2. QED BY <1>6, <1>7, <4>1
    <3>2. bill[x].take[l] \in Nat /\ BillAfter(q).take[l] \in Nat
      BY <1>10 DEF BillRow
    <3>3. bill[x].take[l] = 0 /\ BillAfter(q).take[l] = 0
      <4>1. CASE OrderOf[l] = o
        BY <2>2, <3>2, <4>1 DEF Named
      <4>2. CASE OrderOf[l] # o
        <5>1. bill[x].take[l] = 0
          BY <1>3, <1>4, <4>2, ElsewhereNothing
        <5>2. tx[q].form[l] = 0
          BY <1>1, <1>3, <4>2, TakenType DEF LinesOf
        <5>3. BillAfter(q).take \in {bill[x].take, tx[q].form}
          BY <1>10 DEF BillAfter, BillRow
        <5>4. QED BY <5>1, <5>2, <5>3
      <4>3. QED BY <4>1, <4>2
    <3>4. Counts(bill[x], l) = 0 /\ Counts(BillAfter(q), l) = 0
      BY <3>3 DEF Counts
    <3>5. QED BY <1>8, <1>9, <3>1, <3>4
  <2>3. QED BY <2>1, <2>2
<1>12. QED BY <1>5, <1>6, <1>7, <1>11

\* What a line says was delivered, after a step.
LEMMA DeliveredKept ==
  ASSUME SumInv, NEW q \in Req, Arrival(q) \/ Advance(q) \/ Abort(q)
  PROVE  DeliveredIsBilled'
<1>0. LockInv /\ DeliveredIsBilled /\ RowTypes
  BY TypedIs DEF SumInv, LockInv
<1> SUFFICES ASSUME NEW l \in Line PROVE line'[l].delivered = Posted(l)'
  BY DEF DeliveredIsBilled, Posted, Counts
<1>1. line[l].delivered = Posted(l) /\ line[l] \in LineRow
  BY <1>0 DEF DeliveredIsBilled, Posted, Counts, RowTypes, GoodLine
<1>2. ASSUME line'[l].delivered = line[l].delivered, UNCHANGED bill PROVE line'[l].delivered = Posted(l)'
  BY <1>1, <1>2 DEF Posted
<1>3. CASE UNCHANGED <<line, bill, fulfil>>
  BY <1>2, <1>3
<1>4. CASE CommitCancel(q)
  <2>1. line' = CancelledLines(tx[q].ord) /\ UNCHANGED bill
    BY <1>4 DEF CommitCancel, Roll, CancelledLines
  <2>2. CancelledLines(tx[q].ord)[l].delivered = line[l].delivered
    BY <1>0, CancelledLinesType
  <2>3. QED BY <1>2, <2>1, <2>2
<1>5. CASE CommitBill(q)
  BY <1>5, CommitBillLines
<1>6. CASE CommitCut(q) /\ ~Rollback(q)
  <2>1. line' = CutInto(q) /\ UNCHANGED bill
    BY <1>6 DEF CommitCut, CutInto
  <2> DEFINE ln == line[l]
             c == tx[q].due[l].cancelled
             new == [ln EXCEPT !.cancelled = c]
  <2>2. CutInto(q)[l] \in {ln, new} /\ ln \in LineRow
    BY <1>1 DEF CutInto
  <2> HIDE DEF ln, c
  <2>3. new.delivered = ln.delivered
    BY <2>2 DEF LineRow
  <2> HIDE DEF new
  <2>4. line'[l].delivered = line[l].delivered
    BY <2>1, <2>2, <2>3 DEF ln
  <2>5. QED BY <1>2, <2>1, <2>4
<1>7. CASE CommitSave(q) /\ ~Rollback(q)
  <2>1. line' = SaveInto(q) /\ UNCHANGED bill
    BY <1>7 DEF CommitSave, SaveInto
  <2> DEFINE ln == line[l]
             c == tx[q].form[l]
             new == [ln EXCEPT !.qty = c, !.net = c]
  <2>2. SaveInto(q)[l] \in {ln, new} /\ ln \in LineRow
    BY <1>1 DEF SaveInto
  <2> HIDE DEF ln, c
  <2>3. new.delivered = ln.delivered
    BY <2>2 DEF LineRow
  <2> HIDE DEF new
  <2>4. line'[l].delivered = line[l].delivered
    BY <2>1, <2>2, <2>3 DEF ln
  <2>5. QED BY <1>2, <2>1, <2>4
<1>8. QED BY <1>0, <1>3, <1>4, <1>5, <1>6, <1>7, LineWriters

\* A word about an order's lines, and what it claims.
Tells(w, o, lns) ==
  LET open == {l \in LinesOf(o) : Pending(lns[l]) > 0}
      shipped == {l \in LinesOf(o) : lns[l].delivered > 0}
  IN /\ w = "COMPLETED" => open = {} /\ shipped # {}
     /\ w = "CANCELLED" => open = {} /\ shipped = {}
     /\ w = "PARTIAL" => open # {} /\ (open # LinesOf(o) \/ shipped # {})
     /\ w = "PENDING" => open = LinesOf(o) /\ shipped = {}

\* deriveOrderStatus is right about the lines it is given.
LEMMA FulfilTells ==
  ASSUME NEW o, NEW lns, \A l \in LinesOf(o) : lns[l] \in GoodLine
  PROVE  Tells(FulfilOf(o, lns), o, lns)
<1> DEFINE open == {l \in LinesOf(o) : Pending(lns[l]) > 0}
           shipped == {l \in LinesOf(o) : lns[l].delivered > 0}
           delivered == \E l \in LinesOf(o) : lns[l].delivered > 0
           settled == {l \in LinesOf(o) : Settled(lns[l])}
           w == FulfilOf(o, lns)
<1>1. \A l \in LinesOf(o) : Settled(lns[l]) <=> ~(Pending(lns[l]) > 0)
  <2> SUFFICES ASSUME NEW l \in LinesOf(o) PROVE Settled(lns[l]) <=> ~(Pending(lns[l]) > 0)
    OBVIOUS
  <2>1. lns[l].net > 0 /\ Pending(lns[l]) \in Int
    BY DEF GoodLine, LineRow, Pending
  <2>2. QED BY <2>1 DEF Settled
<1>2. open = LinesOf(o) \ settled /\ settled \subseteq LinesOf(o) /\ open \subseteq LinesOf(o)
  BY <1>1
<1>3. delivered <=> shipped # {}
  OBVIOUS
<1>4. w = CASE settled = LinesOf(o) /\ delivered -> "COMPLETED"
            [] settled = LinesOf(o) /\ ~delivered -> "CANCELLED"
            [] settled # LinesOf(o) /\ (settled # {} \/ delivered) -> "PARTIAL"
            [] OTHER -> "PENDING"
  BY DEF FulfilOf
<1>5. Tells(w, o, lns) <=>
        /\ w = "COMPLETED" => open = {} /\ shipped # {}
        /\ w = "CANCELLED" => open = {} /\ shipped = {}
        /\ w = "PARTIAL" => open # {} /\ (open # LinesOf(o) \/ shipped # {})
        /\ w = "PENDING" => open = LinesOf(o) /\ shipped = {}
  BY DEF Tells
<1> DEFINE all == LinesOf(o)
<1>6. open = all \ settled /\ settled \subseteq all /\ open \subseteq all
  BY <1>2
<1> HIDE DEF w, open, shipped, delivered, settled, all
<1>7. /\ w = "COMPLETED" => settled = all /\ delivered
      /\ w = "CANCELLED" => settled = all /\ ~delivered
      /\ w = "PARTIAL" => settled # all /\ (settled # {} \/ delivered)
      /\ w = "PENDING" => settled = {} /\ ~delivered
  <2>1. CASE settled = all /\ delivered
    BY <1>4, <2>1 DEF all
  <2>2. CASE settled = all /\ ~delivered
    BY <1>4, <2>2 DEF all
  <2>3. CASE settled # all /\ (settled # {} \/ delivered)
    BY <1>4, <2>3 DEF all
  <2>4. CASE settled # all /\ settled = {} /\ ~delivered
    BY <1>4, <2>4 DEF all
  <2>5. QED BY <2>1, <2>2, <2>3, <2>4
<1>8. QED BY <1>3, <1>5, <1>6, <1>7 DEF w, all

\* What a word claims is about the order's own lines.
LEMMA TellsSame ==
  ASSUME NEW w, NEW o, NEW f, NEW g, \A l \in LinesOf(o) : f[l] = g[l], Tells(w, o, f)
  PROVE  Tells(w, o, g)
<1>1. {l \in LinesOf(o) : Pending(f[l]) > 0} = {l \in LinesOf(o) : Pending(g[l]) > 0}
  OBVIOUS
<1>2. {l \in LinesOf(o) : f[l].delivered > 0} = {l \in LinesOf(o) : g[l].delivered > 0}
  OBVIOUS
<1>3. QED BY <1>1, <1>2 DEF Tells

\* The header of a steady order, after a step.
LEMMA HeaderKept ==
  ASSUME SumInv, NEW q \in Req, Arrival(q) \/ Advance(q) \/ Abort(q)
  PROVE  HeaderTellsLines'
<1>0. LockInv /\ HeaderTellsLines /\ RowTypes /\ Held(q)
  BY TypedIs DEF SumInv, LockInv
<1>0a. Sound(q)
  BY <1>0, StepSound
<1>0b. \A l \in Line : line'[l] \in GoodLine
  BY <1>0a DEF Sound, Typed
<1> SUFFICES ASSUME NEW p \in Order, Steady(p) PROVE Tells(fulfil'[p], p, line')
  BY DEF HeaderTellsLines, HeaderRight, Tells
<1>1. Tells(fulfil[p], p, line)
  BY <1>0 DEF HeaderTellsLines, HeaderRight, Tells
<1>2. ASSUME fulfil'[p] = fulfil[p], \A l \in LinesOf(p) : line'[l] = line[l]
      PROVE  Tells(fulfil'[p], p, line')
  BY <1>1, <1>2, TellsSame
<1>3. \A l \in Line : line'[l] # line[l] => OrderOf[l] = tx[q].ord
  BY <1>0a DEF Sound, Touch
<1>4. ASSUME NEW w, NEW lns, fulfil' = [fulfil EXCEPT ![tx[q].ord] = w], p = tx[q].ord => Tells(w, p, lns),
             p = tx[q].ord => \A l \in LinesOf(p) : line'[l] = lns[l]
      PROVE  Tells(fulfil'[p], p, line')
  <2>1. CASE p = tx[q].ord
    <3>1. fulfil'[p] = w
      BY <1>0, <1>4, <2>1 DEF RowTypes
    <3>2. Tells(w, p, line')
      BY <1>4, <2>1, TellsSame
    <3>3. QED BY <3>1, <3>2
  <2>2. CASE p # tx[q].ord
    <3>1. fulfil'[p] = fulfil[p]
      BY <1>0, <1>4, <2>2 DEF RowTypes
    <3>2. \A l \in LinesOf(p) : line'[l] = line[l]
      BY <1>3, <2>2 DEF LinesOf
    <3>3. QED BY <1>2, <3>1, <3>2
  <2>3. QED BY <2>1, <2>2
<1>5. CASE UNCHANGED <<line, bill, fulfil>>
  BY <1>2, <1>5
<1>6. CASE CommitCancel(q)
  <2> DEFINE o == tx[q].ord
             lns == CancelledLines(o)
  <2>1. line' = lns /\ fulfil' = [fulfil EXCEPT ![o] = FulfilOf(o, lns)]
    BY <1>6 DEF CommitCancel, Roll, CancelledLines
  <2>2. lns \in [Line -> GoodLine]
    BY <1>0, CancelledLinesType
  <2> HIDE DEF lns
  <2>3. Tells(FulfilOf(o, lns), o, lns)
    BY <2>2, FulfilTells DEF LinesOf
  <2>4. QED BY <1>4, <2>1, <2>3
<1>7. CASE CommitBill(q)
  <2> DEFINE o == tx[q].ord
             lns == tx[q].due
  <2>1. fulfil' = [fulfil EXCEPT ![o] = FulfilOf(o, lns)]
    BY <1>7 DEF CommitBill
  <2>2. \A l \in LinesOf(o) : line'[l] = lns[l]
    BY <1>7, CommitBillLines DEF LinesOf
  <2>3. \A l \in LinesOf(o) : lns[l] \in GoodLine
    BY <1>0b, <2>2 DEF LinesOf
  <2> HIDE DEF lns
  <2>4. Tells(FulfilOf(o, lns), o, lns)
    BY <2>3, FulfilTells
  <2>5. QED BY <1>4, <2>1, <2>2, <2>4
<1>8. CASE CommitCut(q) /\ ~Rollback(q)
  <2> DEFINE w == FulfilOf(tx[q].ord, tx[q].due)
  <2>1. tx[q].pc = "commit" /\ tx[q].op = "cut" /\ fulfil' = [fulfil EXCEPT ![tx[q].ord] = w]
    BY <1>8 DEF CommitCut
  <2>2. "cut" \in Offered[tx[q].ord]
    BY <1>0, <2>1 DEF Held, About
  <2>3. p # tx[q].ord
    BY <2>2 DEF Steady
  <2> HIDE DEF w
  <2>4. QED BY <1>4, <2>1, <2>3
<1>9. CASE CommitSave(q) /\ ~Rollback(q)
  <2>1. tx[q].pc = "save" /\ UNCHANGED fulfil
    BY <1>9 DEF CommitSave
  <2>2. tx[q].op \in {"save", "amend"} /\ tx[q].op \in Offered[tx[q].ord]
    BY <1>0, <2>1 DEF Held, About, Stage
  <2>3. p # tx[q].ord
    BY <2>2 DEF Steady
  <2>4. \A l \in LinesOf(p) : line'[l] = line[l]
    BY <1>3, <2>3 DEF LinesOf
  <2>5. QED BY <1>2, <2>1, <2>4
<1>10. QED BY <1>0, <1>5, <1>6, <1>7, <1>8, <1>9, LineWriters

\* At the start nothing is billed and every line is whole.
LEMMA SumInit == Init => SumInv
<1> SUFFICES ASSUME Init PROVE SumInv
  OBVIOUS
<1>1. LockInv
  BY LockInit
<1>2. DeliveredIsBilled
  <2> SUFFICES ASSUME NEW l \in Line
               PROVE  line[l].delivered =
                        SumFunction([b \in Bill |-> IF bill[b].status = "POSTED" THEN bill[b].take[l] ELSE 0])
    BY DEF DeliveredIsBilled
  <2>1. [b \in Bill |-> IF bill[b].status = "POSTED" THEN bill[b].take[l] ELSE 0] = [b \in Bill |-> 0]
    BY DEF Init
  <2>2. line[l].delivered = 0
    BY DEF Init
  <2>3. QED BY <2>1, <2>2, ZeroSum, BillAssumption
<1>3. HeaderTellsLines
  <2> SUFFICES ASSUME NEW o \in Order PROVE Tells(fulfil[o], o, line)
    BY DEF HeaderTellsLines, HeaderRight, Tells
  <2>1. fulfil[o] = "PENDING"
    BY DEF Init
  <2>2. ASSUME NEW l \in LinesOf(o) PROVE Pending(line[l]) > 0 /\ ~(line[l].delivered > 0)
    <3>1. l \in Line /\ Want[l] \in Nat /\ Want[l] > 0
      BY LineAssumption DEF LinesOf
    <3>2. line[l] = [qty |-> Want[l], net |-> Want[l], delivered |-> 0, cancelled |-> 0]
      BY <3>1 DEF Init
    <3>3. QED BY <3>1, <3>2 DEF Pending
  <2>3. QED BY <2>1, <2>2 DEF Tells
<1>4. \A r \in Req : Summed(r)
  BY IdleType DEF Init, Summed
<1>5. QED BY <1>1, <1>2, <1>3, <1>4 DEF SumInv

\* Every step keeps it.
LEMMA SumStep ==
  ASSUME SumInv, NEW q \in Req, Arrival(q) \/ Advance(q) \/ Abort(q)
  PROVE  SumInv'
<1>1. LockInv /\ \A r \in Req : Summed(r)
  BY DEF SumInv
<1>2. LockInv'
  BY <1>1, StepSound, LockStep
<1>3. \A r \in Req : Summed(r)'
  BY <1>1, SummedKept
<1>4. DeliveredIsBilled' /\ HeaderTellsLines'
  BY DeliveredKept, HeaderKept
<1>5. QED BY <1>2, <1>3, <1>4 DEF SumInv

\* A step that changes no variable.
LEMMA SumStutter ==
  ASSUME SumInv, UNCHANGED vars
  PROVE  SumInv'
<1>1. LockInv'
  BY LockStutter DEF SumInv
<1>2. UNCHANGED <<line, bill, fulfil, tx>>
  BY DEF vars, rows
<1>3. DeliveredIsBilled'
  BY <1>2 DEF SumInv, DeliveredIsBilled
<1>4. HeaderTellsLines'
  BY <1>2 DEF SumInv, HeaderTellsLines, HeaderRight
<1>5. ASSUME NEW r \in Req PROVE Summed(r)'
  <2>1. BillAfter(r)' = BillAfter(r)
    BY <1>2 DEF BillAfter
  <2>2. \A l \in Line : BilledQty(r, l)' = BilledQty(r, l)
    BY <1>2, <2>1 DEF BilledQty
  <2>3. \A l \in Line : Named(r, l)' <=> Named(r, l)
    BY <1>2, <2>1, <2>2 DEF Named
  <2>4. Recomputed(r) = [l \in Line |-> IF Named(r, l) THEN Resummed(line[l], BilledQty(r, l)) ELSE line[l]]
    BY DEF Recomputed, Named, Resummed
  <2>5. Recomputed(r)' = [l \in Line |-> IF Named(r, l)' THEN Resummed(line'[l], BilledQty(r, l)') ELSE line'[l]]
    BY DEF Recomputed, Named, Resummed
  <2>6. Recomputed(r)' = Recomputed(r)
    BY <1>2, <2>2, <2>3, <2>4, <2>5
  <2>7. Summed(r)
    BY DEF SumInv
  <2>8. QED BY <1>2, <2>6, <2>7 DEF Summed
<1>6. QED BY <1>1, <1>3, <1>4, <1>5 DEF SumInv

\* The lines a bill carries to its commit are still the sums of the bills.
THEOREM SumSafety == Spec => []SumInv
<1>1. ASSUME SumInv, [Next]_vars PROVE SumInv'
  <2>1. CASE Next
    <3>1. PICK q \in Req : Arrival(q) \/ Advance(q) \/ Abort(q)
      BY <2>1 DEF Next
    <3>2. QED BY <1>1, <3>1, SumStep
  <2>2. CASE UNCHANGED vars
    BY <1>1, <2>2, SumStutter
  <2>3. QED BY <1>1, <2>1, <2>2
<1>2. QED BY <1>1, SumInit, PTL DEF Spec

\* What a line says was delivered is what the POSTED bills say
\* (syncOneOrderFulfilment), for any number of bills posted, cancelled and
\* amended together.
THEOREM DeliveredRight == Spec => []DeliveredIsBilled
<1>1. SumInv => DeliveredIsBilled
  BY DEF SumInv
<1>2. QED BY <1>1, SumSafety, PTL

\* so_fulfil_status says what the lines say for an order that is confirmed,
\* billed and cancelled (deriveOrderStatus).
THEOREM HeaderRightAlways == Spec => []HeaderTellsLines
<1>1. SumInv => HeaderTellsLines
  BY DEF SumInv
<1>2. QED BY <1>1, SumSafety, PTL

-----------------------------------------------------------------------------
(* What is reserved against what is pending. *)

\* Reservations are written only by the commit of a transaction that holds its
\* order.
LEMMA RsvWriters ==
  ASSUME LockInv, NEW q \in Req, Arrival(q) \/ Advance(q) \/ Abort(q)
  PROVE  UNCHANGED rsv \/ (tx[q].pc = "commit" /\ tx[q].op \in Landing /\ Land(q))
<1>0. UNCHANGED rows => UNCHANGED rsv
  BY DEF rows
<1>1. ASSUME Rollback(q) PROVE UNCHANGED rsv
  BY <1>0, <1>1 DEF Rollback
<1>2. CASE Arrival(q)
  BY <1>0, <1>2 DEF Arrival, OrderRequest, ReadLines, SaveRequest, AmendGate, DeleteRequest, PostBill,
     SavePostBill, CancelBill, AmendBill, BillRequest
<1>3. CASE Advance(q)
  <2>1. ASSUME LockOrder(q) \/ EarlySync(q) \/ GuardSources(q) \/ SyncFulfilment(q) PROVE UNCHANGED rsv
    BY <1>0, <1>1, <2>1 DEF LockOrder, EarlySync, GuardSources, SyncFulfilment
  <2>2. ASSUME LockItem(q) \/ TakeLine(q) \/ ReleaseRows(q) \/ Mark(q) \/ StockMoved(q) \/ Consume(q)
        PROVE  UNCHANGED rsv
    BY <1>0, <2>2 DEF LockItem, TakeLine, ReleaseRows, Mark, StockMoved, Consume
  <2>3. ASSUME CommitCut(q) \/ CommitSave(q) \/ CommitDelete(q) PROVE UNCHANGED rsv
    BY <1>1, <2>3 DEF CommitCut, CommitSave, CommitDelete
  <2>4. ASSUME CommitConfirm(q) \/ CommitCancel(q) \/ CommitAmend(q) \/ CommitBill(q)
        PROVE  tx[q].pc = "commit" /\ tx[q].op \in Landing /\ Land(q)
    BY <2>4 DEF CommitConfirm, CommitCancel, CommitAmend, CommitBill, Landing
  <2>5. QED BY <1>3, <2>1, <2>2, <2>3, <2>4 DEF Advance
<1>4. CASE Abort(q)
  BY <1>1, <1>4 DEF Abort
<1>5. QED BY <1>2, <1>3, <1>4

\* A line of a billed order with no live row gets none.
LEMMA StaysDead ==
  ASSUME HoldInv, NEW q \in Req, Arrival(q) \/ Advance(q) \/ Abort(q), NEW l \in Line,
         Steady(OrderOf[l]), status[OrderOf[l]] # "DRAFT", Live(rsv[l]) = {}
  PROVE  Live(rsv'[l]) = {}
<1>0. LockInv /\ Typed /\ Held(q) /\ Past(q) /\ Fits(q)
  BY DEF HoldInv, SumInv, LockInv
<1>1. CASE rsv'[l] = rsv[l]
  BY <1>1
<1>2. CASE rsv'[l] # rsv[l]
  <2>1. tx[q].pc = "commit" /\ tx[q].op \in Landing /\ Land(q)
    BY <1>0, <1>2, RsvWriters
  <2>2. rsv'[l] = View(q, l) /\ rowLock[l] = q /\ OrderOf[l] = tx[q].ord
    BY <1>0, <1>2, <2>1, LandDoes
  <2>3. rsv'[l] = tx[q].rows[l] /\ l \in LinesOf(tx[q].ord) /\ rsv[l] \in Seq(GoodRow)
    BY <1>0, <2>2 DEF View, LinesOf, Typed
  <2>4. CASE tx[q].op = "confirm"
    BY <1>0, <2>1, <2>2, <2>4 DEF Past
  <2>5. CASE tx[q].op = "cancel"
    <3>1. rsv'[l] = Released(rsv[l])
      BY <1>0, <2>1, <2>2, <2>3, <2>5 DEF Fits
    <3>2. QED BY <2>3, <3>1, ReleasedRows
  <2>6. CASE tx[q].op = "amend"
    <3>1. "amend" \in Offered[OrderOf[l]]
      BY <1>0, <2>1, <2>2, <2>6 DEF Held, About
    <3>2. QED BY <3>1 DEF Steady
  <2>7. CASE tx[q].op \in BillOp
    <3>1. rsv'[l] = AfterConsume(q, l)
      BY <1>0, <2>1, <2>2, <2>3, <2>7 DEF Fits
    <3>2. QED BY <1>0, <2>1, <2>7, <3>1, AfterConsumeType
  <2>8. QED BY <2>1, <2>4, <2>5, <2>6, <2>7 DEF Landing
<1>3. QED BY <1>1, <1>2

\* The guards another request has passed still hold.
LEMMA PastOther ==
  ASSUME HoldInv, NEW q \in Req, Arrival(q) \/ Advance(q) \/ Abort(q), NEW r \in Req, r # q
  PROVE  Past(r)'
<1>0. LockInv /\ Past(r) /\ Held(r)
  BY DEF HoldInv, SumInv, LockInv
<1>1. Touch(q) /\ tx'[r] = tx[r]
  BY <1>0, StepSound DEF Sound, Away
<1>2. ASSUME tx[r].op = "confirm", tx[r].pc \in {"take", "mark", "commit"} PROVE status'[tx[r].ord] = "DRAFT"
  <2>1. HoldsOrder(r)
    BY <1>2 DEF HoldsOrder
  <2>2. QED BY <1>0, <1>1, <1>2, <2>1, OrderStays DEF Past
<1>3. ASSUME tx[r].op \in BillOp, tx[r].pc \in {"items", "consume", "mark", "orders", "commit"}
      PROVE  status'[tx[r].ord] # "DRAFT"
  BY <1>0, <1>1, <1>3 DEF Past, Touch, Held, About
<1>4. QED BY <1>1, <1>2, <1>3 DEF Past

\* The rows another request has locked still fit.
LEMMA FitsOther ==
  ASSUME HoldInv, NEW q \in Req, Arrival(q) \/ Advance(q) \/ Abort(q), NEW r \in Req, r # q
  PROVE  Fits(r)'
<1>0. LockInv /\ Past(r) /\ Fits(r) /\ Held(r) /\ Typed
  BY DEF HoldInv, SumInv, LockInv
<1>1. Touch(q) /\ tx'[r] = tx[r] /\ (\A l \in Line : rowLock'[l] = r <=> rowLock[l] = r)
  BY <1>0, StepSound DEF Sound, Away
<1>2. ASSUME tx[r].op = "confirm", Steady(tx[r].ord), NEW l \in Line, rowLock[l] = r
      PROVE  OpenOf(tx[r].rows[l]) <= Pending(line'[l])
  <2>1. tx[r].pc \in {"take", "mark", "commit"} /\ l \in LinesOf(tx[r].ord)
    BY <1>0, <1>2 DEF Held, OwnRows, Stage, BillOp, LinesOf
  <2>2. HoldsOrder(r)
    BY <1>2, <2>1 DEF HoldsOrder
  <2>3. line'[l] = line[l]
    BY <1>0, <1>1, <2>1, <2>2, OrderStays
  <2>4. QED BY <1>0, <1>2, <2>3 DEF Fits
<1>3. ASSUME tx[r].op = "cancel", tx[r].pc \in {"mark", "commit"}, NEW l \in LinesOf(tx[r].ord)
      PROVE  /\ rowLock[l] = r => tx[r].rows[l] = Released(rsv'[l])
             /\ rowLock[l] # r => OpenOf(rsv'[l]) <= 0
  <2>1. HoldsOrder(r)
    BY <1>3 DEF HoldsOrder
  <2>2. rsv'[l] = rsv[l]
    BY <1>0, <1>1, <2>1, OrderStays
  <2>3. QED BY <1>0, <1>3, <2>2 DEF Fits
<1>4. ASSUME tx[r].op \in BillOp, tx[r].pc \in {"mark", "orders", "commit"}, NEW l \in Line
      PROVE  /\ rowLock[l] = r => Taken(r)'[l] # 0 /\ tx[r].rows[l] = AfterConsume(r, l)'
             /\ (Steady(tx[r].ord) /\ rowLock[l] # r /\ Taken(r)'[l] # 0) => Live(rsv'[l]) = {}
  <2>1. tx[r].bil \in Bill /\ billLock[tx[r].bil] = r
    BY <1>0, <1>4 DEF Held, About
  <2>2. bill'[tx[r].bil] = bill[tx[r].bil]
    BY <1>1, <2>1 DEF Touch
  <2>3. Taken(r)' = Taken(r)
    BY <1>1, <2>2 DEF Taken
  <2>4. rowLock[l] = r => rsv'[l] = rsv[l]
    BY <1>1 DEF Touch
  <2>5. rowLock[l] = r => AfterConsume(r, l)' = AfterConsume(r, l)
    BY <2>3, <2>4 DEF AfterConsume
  <2>6. ASSUME Steady(tx[r].ord), rowLock[l] # r, Taken(r)[l] # 0 PROVE Live(rsv'[l]) = {}
    <3>1. Live(rsv[l]) = {}
      BY <1>0, <1>4, <2>6 DEF Fits
    <3>2. OrderOf[l] = tx[r].ord
      BY <1>0, <1>4, <2>6, TakenType DEF LinesOf
    <3>3. status[OrderOf[l]] # "DRAFT"
      BY <1>0, <1>4, <3>2 DEF Past
    <3>4. QED BY <2>6, <3>1, <3>2, <3>3, StaysDead
  <2>7. QED BY <1>0, <1>4, <2>3, <2>5, <2>6 DEF Fits
<1>5. \A l \in LinesOf(tx[r].ord) : l \in Line
  BY DEF LinesOf
<1>6. QED BY <1>1, <1>2, <1>3, <1>4, <1>5 DEF Fits

\* A request of an order that does not hold it yet, or is over.
LEMMA FreshFits ==
  ASSUME NEW q \in Req, Held(q)', ~HoldsOrder(q)', tx'[q].op \in OrderOp
  PROVE  Past(q)' /\ Fits(q)'
<1>1. \A l \in Line : rowLock'[l] # q
  BY DEF Held, OwnRows, HoldsOrder, Stage, Landing, OrderOp, BillOp
<1>2. Past(q)'
  BY DEF Past, HoldsOrder, OrderOp, BillOp
<1>3. Fits(q)'
  BY <1>1 DEF Fits, HoldsOrder, OrderOp, BillOp
<1>4. QED BY <1>2, <1>3

\* A request that is over.
LEMMA IdleFits ==
  ASSUME NEW q \in Req, Held(q)', tx'[q].pc = "idle", tx'[q].op = "confirm"
  PROVE  Past(q)' /\ Fits(q)'
<1>1. ~HoldsOrder(q)' /\ tx'[q].op \in OrderOp
  BY DEF HoldsOrder, OrderOp
<1>2. QED BY <1>1, FreshFits

\* A bill's request that has written no reservation yet.
LEMMA BillFits ==
  ASSUME NEW q \in Req, tx'[q].op \in BillOp, tx'[q].pc \in {"early", "guard", "items", "consume"},
         tx'[q].pc \in {"items", "consume"} => status'[tx'[q].ord] # "DRAFT"
  PROVE  Past(q)' /\ Fits(q)'
<1>1. Past(q)'
  BY DEF Past, BillOp
<1>2. Fits(q)'
  BY DEF Fits, BillOp
<1>3. QED BY <1>1, <1>2

\* A step that leaves the rows a request has locked as they are.
LEMMA SameFits ==
  ASSUME HoldInv, NEW q \in Req, Held(q)', SameSubject(q), tx'[q].rows = tx[q].rows,
         UNCHANGED <<rows, rowLock>>,
         \/ tx'[q].pc = tx[q].pc
         \/ tx[q].pc = "mark" /\ tx'[q].pc \in {"take", "orders", "commit"}
         \/ tx[q].pc = "orders" /\ tx'[q].pc = "commit"
  PROVE  Past(q)' /\ Fits(q)'
<1>0. Past(q) /\ Fits(q) /\ Stage(q) /\ Stage(q)'
  BY DEF HoldInv, SumInv, LockInv, Held
<1>1. UNCHANGED <<status, line, rsv, bill, rowLock>>
  BY DEF rows
<1>2. tx'[q].op = tx[q].op /\ tx'[q].ord = tx[q].ord /\ tx'[q].rows = tx[q].rows
  BY DEF SameSubject
<1>3. Taken(q)' = Taken(q)
  BY <1>1 DEF Taken, SameSubject
<1>4. \A l \in Line : AfterConsume(q, l)' = AfterConsume(q, l)
  BY <1>1, <1>3 DEF AfterConsume
<1>5. /\ (tx'[q].op = "confirm" /\ tx'[q].pc \in {"take", "mark", "commit"}) => tx[q].pc \in {"take", "mark", "commit"}
      /\ (tx'[q].op = "cancel" /\ tx'[q].pc \in {"mark", "commit"}) => tx[q].pc \in {"mark", "commit"}
      /\ (tx'[q].op \in BillOp /\ tx'[q].pc \in {"mark", "orders", "commit"}) => tx[q].pc \in {"mark", "orders", "commit"}
      /\ (tx'[q].op \in BillOp /\ tx'[q].pc \in {"items", "consume", "mark", "orders", "commit"}) =>
           tx[q].pc \in {"items", "consume", "mark", "orders", "commit"}
  BY <1>0, <1>2 DEF Stage, BillOp
<1>6. Past(q)'
  BY <1>0, <1>1, <1>2, <1>5 DEF Past
<1>7. Fits(q)'
  <2>1. ASSUME tx'[q].op = "confirm", Steady(tx'[q].ord), NEW l \in Line, rowLock'[l] = q
        PROVE  OpenOf(tx'[q].rows[l]) <= Pending(line'[l])
    BY <1>0, <1>1, <1>2, <2>1 DEF Fits
  <2>2. ASSUME tx'[q].op = "cancel", tx'[q].pc \in {"mark", "commit"}, NEW l \in LinesOf(tx'[q].ord)
        PROVE  /\ rowLock'[l] = q => tx'[q].rows[l] = Released(rsv'[l])
               /\ rowLock'[l] # q => OpenOf(rsv'[l]) <= 0
    BY <1>0, <1>1, <1>2, <1>5, <2>2 DEF Fits
  <2>3. ASSUME tx'[q].op \in BillOp, tx'[q].pc \in {"mark", "orders", "commit"}, NEW l \in Line
        PROVE  /\ rowLock'[l] = q => Taken(q)'[l] # 0 /\ tx'[q].rows[l] = AfterConsume(q, l)'
               /\ (Steady(tx'[q].ord) /\ rowLock'[l] # q /\ Taken(q)'[l] # 0) => Live(rsv'[l]) = {}
    BY <1>0, <1>1, <1>2, <1>3, <1>4, <1>5, <2>3 DEF Fits
  <2>4. QED BY <2>1, <2>2, <2>3 DEF Fits
<1>8. QED BY <1>6, <1>7

\* A lock on the order is what a confirm reserves behind.
LEMMA LockOrderFits ==
  ASSUME HoldInv, NEW q \in Req, LockOrder(q), ~Rollback(q), Held(q)'
  PROVE  Past(q)' /\ Fits(q)'
<1>0. LockInv /\ Held(q)
  BY DEF HoldInv, SumInv, LockInv
<1>1. /\ SameSubject(q) /\ tx[q].pc = "lock" /\ UNCHANGED <<rows, rowLock>>
      /\ tx[q].op = "confirm" => tx'[q].pc = "take" /\ status[tx[q].ord] = "DRAFT"
      /\ tx[q].op = "cancel" => tx'[q].pc = "release"
  BY <1>0, LockOrderDoes
<1>2. tx[q].op \in {"confirm", "cancel", "amend"} /\ \A l \in Line : rowLock[l] # q
  BY <1>0, <1>1 DEF Held, Stage, OwnRows
<1>3. tx'[q].op = tx[q].op /\ tx'[q].ord = tx[q].ord /\ status' = status /\ rowLock' = rowLock
  BY <1>1 DEF SameSubject, rows
<1>4. Past(q)'
  BY <1>1, <1>2, <1>3 DEF Past, BillOp
<1>5. Fits(q)'
  BY <1>1, <1>2, <1>3 DEF Fits, BillOp
<1>6. QED BY <1>4, <1>5

\* reserve takes no more than what is pending on a draft's line.
LEMMA TakeLineFits ==
  ASSUME HoldInv, NEW q \in Req, TakeLine(q), Held(q)'
  PROVE  Past(q)' /\ Fits(q)'
<1>0. LockInv /\ Held(q) /\ Past(q) /\ Fits(q) /\ Typed
  BY DEF HoldInv, SumInv, LockInv
<1>1. PICK l \in tx[q].todo :
         /\ SameSubject(q) /\ tx'[q].pc = "mark"
         /\ tx'[q].rows = [tx[q].rows EXCEPT ![l] = LineRows(q, l)]
         /\ rowLock' = [rowLock EXCEPT ![l] = q]
         /\ tx[q].pc = "take" /\ UNCHANGED rows
  BY <1>0, TakeLineDoes
<1>2. tx[q].op \in {"confirm", "amend"} /\ tx[q].ord \in Order /\ l \in LinesOf(tx[q].ord) /\ l \in Line
  BY <1>0, <1>1 DEF Held, Stage, About, LinesOf
<1>3. tx'[q].op = tx[q].op /\ tx'[q].ord = tx[q].ord /\ status' = status /\ line' = line
  BY <1>1 DEF SameSubject, rows
<1>4. Past(q)'
  BY <1>0, <1>1, <1>2, <1>3 DEF Past, BillOp
<1>5. ASSUME tx[q].op = "confirm", Steady(tx[q].ord), NEW k \in Line, rowLock'[k] = q
      PROVE  OpenOf(tx'[q].rows[k]) <= Pending(line[k])
  <2>1. CASE k = l
    <3>1. status[tx[q].ord] = "DRAFT"
      BY <1>0, <1>1, <1>5 DEF Past
    <3>2. Pending(line[l]) > 0
      BY <1>2, <1>5, <3>1 DEF HoldInv, Whole
    <3>3. OpenOf(LineRows(q, l)) <= Pending(line[l])
      BY <1>0, <1>2, <3>2, LineRowsType
    <3>4. tx'[q].rows[l] = LineRows(q, l)
      BY <1>0, <1>1, <1>2, TxParts DEF Typed
    <3>5. QED BY <2>1, <3>3, <3>4
  <2>2. CASE k # l
    <3>1. tx'[q].rows[k] = tx[q].rows[k] /\ rowLock[k] = q
      BY <1>0, <1>1, <1>2, <1>5, <2>2, TxParts DEF Typed, TypeOK
    <3>2. QED BY <1>0, <1>5, <3>1 DEF Fits
  <2>3. QED BY <2>1, <2>2
<1>6. Fits(q)'
  BY <1>1, <1>2, <1>3, <1>5 DEF Fits, BillOp
<1>7. QED BY <1>4, <1>6

\* release closes every open row of the order.
LEMMA ReleaseRowsFits ==
  ASSUME HoldInv, NEW q \in Req, ReleaseRows(q), Held(q)'
  PROVE  Past(q)' /\ Fits(q)'
<1>0. LockInv /\ Held(q) /\ Typed
  BY DEF HoldInv, SumInv, LockInv
<1>1. /\ SameSubject(q) /\ tx[q].pc = "release" /\ UNCHANGED rows
      /\ \A l \in OpenLines(q) : tx'[q].rows[l] = Released(rsv[l])
      /\ rowLock' = [l \in Line |-> IF l \in OpenLines(q) THEN q ELSE rowLock[l]]
  BY <1>0, ReleaseRowsDoes
<1>2. tx[q].op = "cancel" /\ \A l \in Line : rowLock[l] # q
  BY <1>0, <1>1 DEF Held, Stage, OwnRows
<1>3. tx'[q].op = "cancel" /\ tx'[q].ord = tx[q].ord /\ rsv' = rsv
  BY <1>1, <1>2 DEF SameSubject, rows
<1>4. ASSUME NEW l \in LinesOf(tx[q].ord)
      PROVE  /\ rowLock'[l] = q => tx'[q].rows[l] = Released(rsv[l])
             /\ rowLock'[l] # q => OpenOf(rsv[l]) <= 0
  <2>1. l \in Line /\ OpenOf(rsv[l]) \in Nat
    BY <1>0, <1>4, OpenNat DEF LinesOf, Typed
  <2>2. rowLock'[l] = q <=> l \in OpenLines(q)
    BY <1>1, <1>2, <2>1
  <2>3. l \in OpenLines(q) <=> OpenOf(rsv[l]) > 0
    BY <1>4 DEF OpenLines
  <2>4. QED BY <1>1, <2>1, <2>2, <2>3
<1>5. Past(q)'
  BY <1>3 DEF Past, BillOp
<1>6. Fits(q)'
  BY <1>3, <1>4 DEF Fits, BillOp
<1>7. QED BY <1>5, <1>6

\* consume writes every live row of a line the bill names.
LEMMA ConsumeFits ==
  ASSUME HoldInv, NEW q \in Req, Consume(q), Held(q)'
  PROVE  Past(q)' /\ Fits(q)'
<1>0. LockInv /\ Held(q) /\ Past(q) /\ Typed
  BY DEF HoldInv, SumInv, LockInv
<1>1. /\ SameSubject(q) /\ tx[q].pc = "consume" /\ UNCHANGED rows
      /\ \A l \in ConsumeLines(q) : tx'[q].rows[l] = AfterConsume(q, l)
      /\ rowLock' = [l \in Line |-> IF l \in ConsumeLines(q) THEN q ELSE rowLock[l]]
  BY <1>0, ConsumeDoes
<1>2. tx[q].op \in BillOp /\ \A l \in Line : rowLock[l] # q
  BY <1>0, <1>1 DEF Held, Stage, OwnRows
<1>3. tx'[q].op = tx[q].op /\ tx'[q].ord = tx[q].ord /\ rsv' = rsv /\ status' = status /\ bill' = bill
  BY <1>1, <1>2 DEF SameSubject, rows
<1>4. Taken(q)' = Taken(q)
  BY <1>1, <1>3 DEF Taken, SameSubject
<1>4a. \A l \in Line : AfterConsume(q, l)' = AfterConsume(q, l)
  BY <1>3, <1>4 DEF AfterConsume
<1>5. ASSUME NEW l \in Line
      PROVE  /\ rowLock'[l] = q => Taken(q)'[l] # 0 /\ tx'[q].rows[l] = AfterConsume(q, l)'
             /\ (rowLock'[l] # q /\ Taken(q)'[l] # 0) => Live(rsv'[l]) = {}
  <2>1. rowLock'[l] = q <=> l \in ConsumeLines(q)
    BY <1>1, <1>2
  <2>2. l \in ConsumeLines(q) <=> Taken(q)[l] # 0 /\ Live(rsv[l]) # {}
    BY DEF ConsumeLines
  <2>3. QED BY <1>1, <1>3, <1>4, <1>4a, <2>1, <2>2
<1>6. Past(q)'
  BY <1>0, <1>1, <1>2, <1>3 DEF Past, BillOp
<1>7. Fits(q)'
  BY <1>2, <1>3, <1>5 DEF Fits, BillOp
<1>8. QED BY <1>6, <1>7

\* The guards and the rows of the request that steps.
LEMMA OwnFits ==
  ASSUME HoldInv, NEW q \in Req, Arrival(q) \/ Advance(q) \/ Abort(q)
  PROVE  Past(q)' /\ Fits(q)'
<1>0. LockInv /\ Held(q) /\ Past(q)
  BY DEF HoldInv, SumInv, LockInv
<1>0a. Held(q)'
  BY <1>0, StepSound DEF Sound
<1>1. ASSUME tx'[q] = Idle PROVE Past(q)' /\ Fits(q)'
  BY <1>0a, <1>1, IdleFits, IdleType
<1>1a. ASSUME Rollback(q) PROVE Past(q)' /\ Fits(q)'
  BY <1>0, <1>1, <1>1a, RollbackHeld
<1>2. CASE Arrival(q)
  <2>1. ASSUME NEW o \in Order, NEW p \in OrderOp, OrderRequest(q, o, p) PROVE Past(q)' /\ Fits(q)'
    BY <1>0, <1>0a, <2>1, OrderRequestHeld, FreshFits
  <2>2. ASSUME NEW o \in Order, ReadLines(q, o) \/ SaveRequest(q, o) \/ AmendGate(q, o) \/ DeleteRequest(q, o)
        PROVE  Past(q)' /\ Fits(q)'
    <3>1. ~HoldsOrder(q)' /\ tx'[q].op \in OrderOp
      BY <1>0, <2>2, ReadLinesHeld, SaveRequestHeld, AmendGateHeld, DeleteRequestHeld
    <3>2. QED BY <1>0a, <3>1, FreshFits
  <2>3. ASSUME NEW b \in Bill, PostBill(q, b) \/ SavePostBill(q, b) \/ CancelBill(q, b) \/ AmendBill(q, b)
        PROVE  Past(q)' /\ Fits(q)'
    <3>1. /\ Quiet(q) /\ tx'[q].op \in BillOp /\ tx'[q].ord = OrderOfBill(b)
          /\ tx'[q].pc \in {"early", "guard", "items"}
          /\ tx'[q].pc = "items" => bill[b].status = "POSTED"
      BY <1>0, <2>3, BillArrivalHeld
    <3>2. status' = status
      BY <3>1 DEF Quiet, rows
    <3>3. bill[b].status = "POSTED" => status[OrderOfBill(b)] # "DRAFT"
      BY OrderOfBillType DEF HoldInv, Whole
    <3>4. QED BY <3>1, <3>2, <3>3, BillFits
  <2>4. QED BY <1>2, <2>1, <2>2, <2>3 DEF Arrival
<1>3. CASE Advance(q)
  <2>1. CASE LockOrder(q)
    BY <1>0a, <1>1a, <2>1, LockOrderFits
  <2>2. CASE LockItem(q)
    <3>1. UNCHANGED <<rows, rowLock>> /\ tx' = tx
      BY <2>2 DEF LockItem
    <3>2. SameSubject(q) /\ tx'[q].rows = tx[q].rows /\ tx'[q].pc = tx[q].pc
      BY <3>1 DEF SameSubject
    <3>3. QED BY <1>0a, <3>1, <3>2, SameFits
  <2>3. CASE TakeLine(q)
    BY <1>0a, <2>3, TakeLineFits
  <2>4. CASE ReleaseRows(q)
    BY <1>0a, <2>4, ReleaseRowsFits
  <2>5. CASE Mark(q)
    <3>1. /\ SameSubject(q) /\ tx'[q].rows = tx[q].rows /\ tx[q].pc = "mark" /\ tx'[q].pc = AfterMark(q)
          /\ UNCHANGED <<rows, locks>>
      BY <1>0, <2>5, MarkDoes
    <3>2. tx'[q].pc \in {"take", "orders", "commit"} /\ UNCHANGED <<rows, rowLock>>
      BY <3>1 DEF AfterMark, locks
    <3>3. QED BY <1>0a, <3>1, <3>2, SameFits
  <2>6. CASE EarlySync(q)
    <3>1. CASE Rollback(q)
      BY <1>1a, <3>1
    <3>2. CASE ~Rollback(q)
      <4>1. SameSubject(q) /\ tx'[q].pc = "guard" /\ tx[q].pc = "early"
        BY <1>0, <2>6, <3>2, EarlySyncHeld DEF EarlySync
      <4>2. tx'[q].op \in BillOp
        BY <1>0, <4>1 DEF Held, Stage, SameSubject
      <4>3. QED BY <4>1, <4>2, BillFits
    <3>3. QED BY <3>1, <3>2
  <2>7. CASE GuardSources(q)
    <3>1. CASE Rollback(q)
      BY <1>1a, <3>1
    <3>2. CASE ~Rollback(q)
      <4>1. /\ SameSubject(q) /\ tx'[q].pc \in {"consume", "items"} /\ tx[q].pc = "guard" /\ Billable(q)
            /\ Quiet(q)
        BY <1>0, <2>7, <3>2, GuardSourcesHeld DEF GuardSources
      <4>2. tx'[q].op \in BillOp /\ tx'[q].ord = tx[q].ord /\ status' = status /\ status[tx[q].ord] = "CONFIRMED"
        BY <1>0, <4>1 DEF Held, Stage, SameSubject, Quiet, rows, Billable
      <4>3. QED BY <4>1, <4>2, BillFits
    <3>3. QED BY <3>1, <3>2
  <2>8. CASE StockMoved(q)
    <3>1. /\ SameSubject(q) /\ tx'[q].pc \in {"early", "consume"} /\ tx[q].pc = "items" /\ Quiet(q)
      BY <1>0, <2>8, StockMovedHeld
    <3>2. tx'[q].op \in BillOp /\ tx'[q].ord = tx[q].ord /\ status' = status /\ status[tx[q].ord] # "DRAFT"
      BY <1>0, <3>1 DEF Held, Stage, SameSubject, Quiet, rows, Past
    <3>3. QED BY <3>1, <3>2, BillFits
  <2>9. CASE Consume(q)
    BY <1>0a, <2>9, ConsumeFits
  <2>10. CASE SyncFulfilment(q)
    <3>1. CASE Rollback(q)
      BY <1>1a, <3>1
    <3>2. CASE ~Rollback(q)
      <4>1. /\ SameSubject(q) /\ tx'[q].rows = tx[q].rows /\ tx[q].pc = "orders" /\ tx'[q].pc = "commit"
            /\ UNCHANGED <<rows, rowLock>>
        BY <1>0, <2>10, <3>2, SyncDoes
      <4>2. QED BY <1>0a, <4>1, SameFits
    <3>3. QED BY <3>1, <3>2
  <2>11. CASE CommitConfirm(q) \/ CommitCancel(q) \/ CommitCut(q) \/ CommitAmend(q) \/ CommitDelete(q) \/ CommitBill(q)
    BY <1>0, <1>1, <1>1a, <2>11, CommitConfirmSound, CommitCancelSound, CommitCutSound, CommitAmendSound,
       CommitDeleteSound, CommitBillSound
  <2>12. CASE CommitSave(q)
    <3>1. CASE Rollback(q)
      BY <1>1a, <3>1
    <3>2. CASE ~Rollback(q)
      <4>1. tx'[q] = Idle \/ (tx'[q].pc = "lock" /\ tx'[q].op = "amend")
        <5>1. CASE tx[q].op = "amend"
          <6>1. Goes(q, "lock")
            BY <2>12, <3>2, <5>1 DEF CommitSave
          <6>2. tx'[q].pc = "lock" \/ tx'[q].pc = "idle"
            BY <1>0, <2>12, <3>2, CommitSaveSound
          <6>3. tx'[q].pc = "lock"
            BY <1>0, <6>1, <6>2 DEF Goes, LockInv, Typed, TxRow
          <6>4. QED BY <1>0, <2>12, <3>2, <6>3, CommitSaveSound
        <5>2. CASE tx[q].op # "amend"
          <6>1. Release(q)
            BY <2>12, <3>2, <5>2 DEF CommitSave
          <6>2. QED BY <1>0, <6>1, ReleaseStep DEF LockInv
        <5>3. QED BY <5>1, <5>2
      <4>2. CASE tx'[q].pc = "lock" /\ tx'[q].op = "amend"
        <5>1. ~HoldsOrder(q)' /\ tx'[q].op \in OrderOp
          BY <4>2 DEF HoldsOrder, OrderOp, BillOp
        <5>2. QED BY <1>0a, <5>1, FreshFits
      <4>3. QED BY <1>1, <4>1, <4>2
    <3>3. QED BY <3>1, <3>2
  <2>13. QED
    BY <1>3, <2>1, <2>2, <2>3, <2>4, <2>5, <2>6, <2>7, <2>8, <2>9, <2>10, <2>11, <2>12 DEF Advance
<1>4. CASE Abort(q)
  BY <1>1a, <1>4 DEF Abort
<1>5. QED BY <1>2, <1>3, <1>4

\* A draft stays whole.
LEMMA WholeKept ==
  ASSUME HoldInv, NEW q \in Req, Arrival(q) \/ Advance(q) \/ Abort(q), NEW o \in Order
  PROVE  Whole(o)'
<1>0. LockInv /\ Whole(o) /\ Past(q) /\ Held(q) /\ RowTypes
  BY TypedIs DEF HoldInv, SumInv, LockInv
<1>1. Touch(q)
  BY <1>0, StepSound DEF Sound
<1> SUFFICES ASSUME status'[o] = "DRAFT"
             PROVE  /\ Steady(o) => \A l \in LinesOf(o) : Pending(line'[l]) > 0
                    /\ \A b \in Bill : OrderOfBill(b) = o => bill'[b].status # "POSTED"
  BY DEF Whole
<1>2. status[o] = "DRAFT"
  BY <1>1 DEF Touch
<1>3. CASE o # tx[q].ord \/ UNCHANGED <<line, bill, fulfil>>
  <2>1. \A l \in LinesOf(o) : line'[l] = line[l]
    BY <1>1, <1>3 DEF Touch, LinesOf
  <2>2. \A b \in Bill : OrderOfBill(b) = o => bill'[b] = bill[b]
    BY <1>1, <1>3 DEF Touch
  <2>3. QED BY <1>0, <1>2, <2>1, <2>2 DEF Whole
<1>4. CASE o = tx[q].ord /\ CommitCancel(q)
  <2>1. status' = [status EXCEPT ![o] = "CANCELLED"]
    BY <1>4 DEF CommitCancel
  <2>2. QED BY <1>0, <2>1 DEF RowTypes
<1>5. CASE o = tx[q].ord /\ CommitBill(q)
  BY <1>0, <1>2, <1>5 DEF CommitBill, Past
<1>6. CASE o = tx[q].ord /\ CommitCut(q) /\ ~Rollback(q)
  <2>1. tx[q].pc = "commit" /\ tx[q].op = "cut" /\ UNCHANGED bill
    BY <1>6 DEF CommitCut
  <2>2. ~Steady(o)
    BY <1>0, <1>6, <2>1 DEF Held, About, Steady
  <2>3. QED BY <1>0, <1>2, <2>1, <2>2 DEF Whole
<1>7. CASE o = tx[q].ord /\ CommitSave(q) /\ ~Rollback(q)
  <2>1. tx[q].pc = "save" /\ UNCHANGED bill
    BY <1>7 DEF CommitSave
  <2>2. ~Steady(o)
    BY <1>0, <1>7, <2>1 DEF Held, About, Stage, Steady
  <2>3. QED BY <1>0, <1>2, <2>1, <2>2 DEF Whole
<1>8. QED BY <1>0, <1>3, <1>4, <1>5, <1>6, <1>7, LineWriters

\* What is pending on a line once a bill has landed: what was, plus what the
\* bill counted for, less what it counts for now, and never below zero.
LEMMA PendingAfter ==
  ASSUME SumInv, NEW q \in Req, CommitBill(q), NEW l \in Line, OrderOf[l] = tx[q].ord
  PROVE  LET d == Pending(line[l]) + Counts(bill[tx[q].bil], l) - Counts(BillAfter(q), l)
         IN Pending(line'[l]) = IF d < 0 THEN 0 ELSE d
<1> DEFINE x == tx[q].bil
           a == Counts(bill[x], l)
           c == Counts(BillAfter(q), l)
           ln == line[l]
           n == BilledQty(q, l)
           d == Pending(ln) + a - c
<1>1. LockInv /\ Typed /\ DeliveredIsBilled
  BY DEF SumInv, LockInv
<1>2. tx[q].pc = "commit" /\ tx[q].op \in BillOp /\ tx[q].op \in Landing
  BY DEF CommitBill, Landing
<1>3. x \in Bill
  BY <1>1, <1>2, CommitHolds DEF About
<1>4. n = Posted(l) - a + c /\ n \in Nat /\ ln.delivered = Posted(l)
  BY <1>1, <1>3, BilledSum DEF Posted, DeliveredIsBilled, Counts
<1>5. bill[x] \in BillRow /\ BillAfter(q) \in BillRow
  BY <1>1, <1>3, BillAfterType DEF Typed, TypeOK, BillRow
<1>5a. a \in Nat /\ c \in Nat
  BY <1>5, CountsNat
<1>6. /\ ln \in LineRow /\ ln.net \in Nat /\ ln.delivered \in Nat /\ ln.cancelled \in Nat
      /\ Pending(ln) = ln.net - ln.delivered - ln.cancelled /\ Pending(ln) >= 0
  BY <1>1 DEF Typed, GoodLine, LineRow, Pending
<1>7. line'[l] = Recomputed(q)[l]
  BY CommitBillLines
<1>8. CASE Named(q, l)
  <2> DEFINE new == [ln EXCEPT !.delivered = n]
             up == [new EXCEPT !.net = new.delivered + new.cancelled]
  <2>1. line'[l] = IF Pending(new) < 0 THEN up ELSE new
    BY <1>7, <1>8 DEF Recomputed, Named
  <2> HIDE DEF ln, n, a, c
  <2>2. new \in LineRow /\ new.net = ln.net /\ new.delivered = n /\ new.cancelled = ln.cancelled
    BY <1>4, <1>6 DEF LineRow
  <2> HIDE DEF new
  <2>3. up.net = n + ln.cancelled /\ up.delivered = n /\ up.cancelled = ln.cancelled
    BY <2>2 DEF LineRow
  <2> HIDE DEF up
  <2>4. Pending(new) = d /\ Pending(up) = 0
    BY <1>4, <1>5a, <1>6, <2>2, <2>3 DEF Pending
  <2>5. Pending(line'[l]) = IF d < 0 THEN 0 ELSE d
    BY <2>1, <2>4
  <2>6. QED BY <2>5 DEF ln, a, c
<1>9. CASE ~Named(q, l)
  <2>1. line'[l] = ln
    BY <1>7, <1>9 DEF Recomputed, Named
  <2>2. ~(BillAfter(q).take[l] > 0) /\ ~(bill[x].take[l] > 0)
    BY <1>9 DEF Named
  <2>3. bill[x].take[l] \in Nat /\ BillAfter(q).take[l] \in Nat
    BY <1>5 DEF BillRow
  <2>4. a = 0 /\ c = 0
    BY <2>2, <2>3 DEF Counts
  <2> HIDE DEF ln, a, c
  <2>5. Pending(line'[l]) = IF d < 0 THEN 0 ELSE d
    BY <1>6, <2>1, <2>4
  <2>6. QED BY <2>5 DEF ln, a, c
<1>10. QED BY <1>8, <1>9

\* A bill that lands leaves no more reserved than pending.
LEMMA BillFitsNeed ==
  ASSUME HoldInv, NEW q \in Req, CommitBill(q), NEW l \in Line, OrderOf[l] = tx[q].ord, Steady(tx[q].ord)
  PROVE  OpenOf(rsv'[l]) <= Pending(line'[l])
<1> DEFINE x == tx[q].bil
           a == Counts(bill[x], l)
           c == Counts(BillAfter(q), l)
           p == Pending(line[l])
           e == OpenOf(rsv[l])
           t == Taken(q)[l]
           p1 == Pending(line'[l])
           e1 == OpenOf(rsv'[l])
<1>1. SumInv /\ LockInv /\ Typed /\ Fits(q) /\ Held(q) /\ HeldWithinNeed
  BY DEF HoldInv, SumInv, LockInv
<1>2. tx[q].pc = "commit" /\ tx[q].op \in BillOp /\ tx[q].op \in Landing /\ Land(q)
  BY DEF CommitBill, Landing
<1>3. p1 = IF p + a - c < 0 THEN 0 ELSE p + a - c
  BY <1>1, PendingAfter
<1>4. /\ x \in Bill /\ bill[x] \in BillRow
      /\ bill[x].status = IF tx[q].op \in {"post", "savePost"} THEN "DRAFT" ELSE "POSTED"
  BY <1>1, <1>2 DEF Held, About, Typed, TypeOK, BillRow
<1>5. /\ t \in Int /\ bill[x].take[l] \in Nat /\ tx[q].form[l] \in Nat
      /\ tx[q].op = "unpost" => t = 0 - bill[x].take[l]
      /\ tx[q].op # "unpost" => t = tx[q].form[l]
  BY <1>1, <1>2, TakenType
<1>6. p \in Int /\ p >= 0 /\ e \in Nat /\ e <= p /\ rsv[l] \in Seq(GoodRow)
  <2>1. line[l] \in GoodLine /\ rsv[l] \in Seq(GoodRow)
    BY <1>1 DEF Typed
  <2>2. p \in Int /\ p >= 0
    BY <2>1 DEF GoodLine, LineRow, Pending
  <2>3. e \in Nat
    BY <2>1, OpenNat
  <2>4. QED BY <1>1, <2>1, <2>2, <2>3 DEF HeldWithinNeed
<1>7. rsv'[l] = View(q, l)
  BY <1>1, <1>2, LandDoes
<1>8. rowLock[l] = q => t # 0 /\ rsv'[l] = AfterConsume(q, l)
  BY <1>1, <1>2, <1>7 DEF Fits, View
<1>9. rowLock[l] # q => rsv'[l] = rsv[l] /\ (t # 0 => Live(rsv[l]) = {})
  BY <1>1, <1>2, <1>7 DEF Fits, View
<1>10. /\ tx[q].op = "unpost" => a = 0 - t /\ c = 0
       /\ tx[q].op # "unpost" => a \in Nat /\ c = t
  <2>1. a \in Nat
    BY <1>4, CountsNat
  <2>2. CASE tx[q].op = "unpost"
    <3>1. a = bill[x].take[l]
      BY <1>4, <2>2 DEF Counts
    <3>2. BillAfter(q).status = "CANCELLED"
      BY <1>4, <2>2 DEF BillAfter, BillRow
    <3>3. c = 0
      BY <3>2 DEF Counts
    <3>4. QED BY <1>5, <2>2, <3>1, <3>3
  <2>3. CASE tx[q].op # "unpost"
    <3>1. BillAfter(q) = [status |-> "POSTED", take |-> tx[q].form]
      BY <2>3 DEF BillAfter
    <3>2. c = tx[q].form[l]
      BY <3>1 DEF Counts
    <3>3. QED BY <1>5, <2>1, <2>3, <3>2
  <2>4. QED BY <2>2, <2>3
<1>11. CASE rowLock[l] = q /\ t > 0
  <2>1. rsv'[l] = Consumed(rsv[l], t) /\ t \in Nat
    BY <1>5, <1>8, <1>11 DEF AfterConsume
  <2>2. e1 = e - Least(t, e)
    <3> HIDE DEF t
    <3>1. QED BY <1>6, <2>1, ConsumedRows
  <2>3. tx[q].op # "unpost"
    BY <1>5, <1>11
  <2> HIDE DEF a, c, p, e, t, p1, e1
  <2>4. e1 <= p1
    BY <1>3, <1>6, <1>10, <1>11, <2>1, <2>2, <2>3 DEF Least
  <2>5. QED BY <2>4 DEF e1, p1
<1>12. CASE rowLock[l] = q /\ ~(t > 0)
  <2> DEFINE m == 0 - t
  <2>1. rsv'[l] = GivenBack(rsv[l], m) /\ m \in Nat
    BY <1>5, <1>8, <1>12 DEF AfterConsume
  <2>2. e1 <= e + m
    <3> HIDE DEF m
    <3>1. QED BY <1>6, <2>1, GivenBackRows
  <2>2a. e1 \in Nat
    <3> HIDE DEF m
    <3>1. QED BY <1>6, <2>1, GivenBackRows, OpenNat
  <2>3. tx[q].op = "unpost"
    BY <1>5, <1>8, <1>12
  <2> HIDE DEF a, c, p, e, t, p1, e1
  <2>4. e1 <= p1
    BY <1>3, <1>5, <1>6, <1>10, <1>12, <2>1, <2>2, <2>2a, <2>3
  <2>5. QED BY <2>4 DEF e1, p1
<1>13. CASE rowLock[l] # q /\ t # 0
  <2>1. e1 = 0
    BY <1>6, <1>9, <1>13, NoLiveNoOpen
  <2>2. a \in Int /\ c \in Int
    BY <1>5, <1>10
  <2> HIDE DEF a, c, p, e, t, p1, e1
  <2>3. e1 <= p1
    BY <1>3, <1>6, <2>1, <2>2
  <2>4. QED BY <2>3 DEF e1, p1
<1>14. CASE rowLock[l] # q /\ t = 0
  <2>1. e1 = e
    BY <1>9, <1>14
  <2> HIDE DEF a, c, p, e, t, p1, e1
  <2>2. e1 <= p1
    BY <1>3, <1>6, <1>10, <1>14, <2>1
  <2>3. QED BY <2>2 DEF e1, p1
<1>15. QED BY <1>11, <1>12, <1>13, <1>14

\* What is open on a line is at most what is pending on it, after a step.
LEMMA NeedKept ==
  ASSUME HoldInv, NEW q \in Req, Arrival(q) \/ Advance(q) \/ Abort(q)
  PROVE  HeldWithinNeed'
<1>0. LockInv /\ Typed /\ Fits(q) /\ Held(q) /\ HeldWithinNeed
  BY DEF HoldInv, SumInv, LockInv
<1>1. Touch(q)
  BY <1>0, StepSound DEF Sound
<1> SUFFICES ASSUME NEW l \in Line, Steady(OrderOf[l]) PROVE OpenOf(rsv'[l]) <= Pending(line'[l])
  BY DEF HeldWithinNeed
<1>2. OpenOf(rsv[l]) <= Pending(line[l])
  BY <1>0 DEF HeldWithinNeed
<1>3. CASE rsv'[l] = rsv[l] /\ line'[l] = line[l]
  BY <1>2, <1>3
<1>4. CASE OrderOf[l] = tx[q].ord /\ CommitBill(q)
  BY <1>4, BillFitsNeed
<1>5. CASE OrderOf[l] = tx[q].ord /\ CommitCancel(q)
  <2>1. tx[q].pc = "commit" /\ tx[q].op = "cancel" /\ Land(q) /\ line' = CancelledLines(tx[q].ord)
    BY <1>5 DEF CommitCancel, Roll, CancelledLines
  <2>2. Pending(line'[l]) = 0
    BY <1>0, <1>5, <2>1, CancelledLinesType
  <2>3. rsv'[l] = View(q, l) /\ l \in LinesOf(tx[q].ord) /\ rsv[l] \in Seq(GoodRow)
    BY <1>0, <1>5, <2>1, LandDoes DEF LinesOf, Typed
  <2>4. CASE rowLock[l] = q
    <3>1. rsv'[l] = Released(rsv[l])
      BY <1>0, <2>1, <2>3, <2>4 DEF Fits, View
    <3>2. QED BY <2>2, <2>3, <3>1, ReleasedRows
  <2>5. CASE rowLock[l] # q
    <3>1. rsv'[l] = rsv[l] /\ OpenOf(rsv[l]) <= 0
      BY <1>0, <2>1, <2>3, <2>5 DEF Fits, View
    <3>2. QED BY <2>2, <3>1
  <2>6. QED BY <2>4, <2>5
<1>6. CASE OrderOf[l] = tx[q].ord /\ line'[l] = line[l] /\ rsv'[l] # rsv[l] /\ ~CommitBill(q) /\ ~CommitCancel(q)
  <2>1. tx[q].pc = "commit" /\ tx[q].op \in Landing /\ Land(q)
    BY <1>0, <1>6, RsvWriters
  <2>2. tx[q].op \in Offered[OrderOf[l]]
    BY <1>0, <1>6, <2>1 DEF Held, About
  <2>3. CASE tx[q].op = "confirm"
    <3>1. rsv'[l] = tx[q].rows[l] /\ rowLock[l] = q
      BY <1>0, <1>6, <2>1, LandDoes DEF View
    <3>2. QED BY <1>0, <1>6, <2>3, <3>1 DEF Fits
  <2>4. CASE tx[q].op = "amend"
    BY <2>2, <2>4 DEF Steady
  <2>5. tx[q].op \in {"confirm", "amend"}
    <3>1. ASSUME tx[q].op \in BillOp \cup {"cancel"} PROVE FALSE
      <4>1. CASE Arrival(q)
        BY <2>1, <4>1 DEF Arrival, OrderRequest, ReadLines, SaveRequest, AmendGate, DeleteRequest, PostBill,
           SavePostBill, CancelBill, AmendBill, BillRequest
      <4>2. CASE Abort(q)
        BY <1>6, <4>2 DEF Abort, Rollback, rows
      <4>3. CASE Advance(q)
        BY <1>6, <2>1, <3>1, <4>3 DEF Advance, LockOrder, LockItem, Need, TakeLine, ReleaseRows, Mark, EarlySync,
           GuardSources, StockMoved, Consume, SyncFulfilment, CommitConfirm, CommitCut, CommitSave,
           CommitAmend, CommitDelete, BillOp
      <4>4. QED BY <4>1, <4>2, <4>3
    <3>2. QED BY <2>1, <3>1 DEF Landing
  <2>6. QED BY <2>3, <2>4, <2>5
<1>7. CASE OrderOf[l] = tx[q].ord /\ (CommitCut(q) \/ CommitSave(q)) /\ ~Rollback(q)
  <2>1. \/ tx[q].pc = "commit" /\ tx[q].op = "cut"
        \/ tx[q].pc = "save"
    BY <1>7 DEF CommitCut, CommitSave
  <2>2. tx[q].op \in {"cut", "save", "amend"} /\ tx[q].op \in Offered[OrderOf[l]]
    BY <1>0, <1>7, <2>1 DEF Held, About, Stage
  <2>3. QED BY <2>2 DEF Steady
<1>8. CASE OrderOf[l] # tx[q].ord
  BY <1>1, <1>3, <1>8 DEF Touch
<1>9. QED BY <1>0, <1>3, <1>4, <1>5, <1>6, <1>7, <1>8, LineWriters


\* In the beginning nothing is reserved, every line is whole and no request
\* is under way.
LEMMA HoldInit == Init => HoldInv
<1> SUFFICES ASSUME Init PROVE HoldInv
  OBVIOUS
<1>1. SumInv
  BY SumInit
<1>2. ASSUME NEW l \in Line PROVE rsv[l] = << >> /\ Pending(line[l]) = Want[l] /\ Want[l] \in Nat /\ Want[l] > 0
  BY LineAssumption DEF Init, Pending
<1>3. HeldWithinNeed
  <2> SUFFICES ASSUME NEW l \in Line PROVE OpenOf(rsv[l]) <= Pending(line[l])
    BY DEF HeldWithinNeed
  <2>1. rsv[l] \in Seq(GoodRow)
    BY <1>1 DEF SumInv, LockInv, Typed
  <2>2. Live(rsv[l]) = {}
    BY <1>2 DEF Live
  <2>3. QED BY <1>2, <2>1, <2>2, NoLiveNoOpen
<1>4. ASSUME NEW o \in Order PROVE Whole(o)
  <2>1. \A l \in LinesOf(o) : Pending(line[l]) > 0
    BY <1>2 DEF LinesOf
  <2>2. \A b \in Bill : bill[b].status # "POSTED"
    BY DEF Init
  <2>3. QED BY <2>1, <2>2 DEF Whole
<1>5. ASSUME NEW r \in Req PROVE Past(r) /\ Fits(r)
  <2>1. tx[r].pc = "idle" /\ tx[r].op = "confirm" /\ \A l \in Line : rowLock[l] # r
    BY NoneAssumption DEF Init, Idle
  <2>2. QED BY <2>1 DEF Past, Fits, BillOp
<1>6. QED BY <1>1, <1>3, <1>4, <1>5 DEF HoldInv

\* A step of any request.
LEMMA HoldStep ==
  ASSUME HoldInv, NEW q \in Req, Arrival(q) \/ Advance(q) \/ Abort(q)
  PROVE  HoldInv'
<1>1. SumInv'
  BY SumStep DEF HoldInv
<1>2. HeldWithinNeed'
  BY NeedKept
<1>3. \A o \in Order : Whole(o)'
  BY WholeKept
<1>4. ASSUME NEW r \in Req PROVE Past(r)' /\ Fits(r)'
  <2>1. CASE r = q
    BY <2>1, OwnFits
  <2>2. CASE r # q
    BY <2>2, PastOther, FitsOther
  <2>3. QED BY <2>1, <2>2
<1>5. QED BY <1>1, <1>2, <1>3, <1>4 DEF HoldInv

\* A step that changes no variable.
LEMMA HoldStutter ==
  ASSUME HoldInv, UNCHANGED vars
  PROVE  HoldInv'
<1>1. SumInv'
  BY SumStutter DEF HoldInv
<1>2. UNCHANGED <<status, line, rsv, bill, rowLock, tx>>
  BY DEF vars, rows, locks
<1>3. HeldWithinNeed'
  BY <1>2 DEF HoldInv, HeldWithinNeed
<1>4. ASSUME NEW o \in Order PROVE Whole(o)'
  BY <1>2 DEF HoldInv, Whole
<1>5. ASSUME NEW r \in Req PROVE Past(r)' /\ Fits(r)'
  <2>1. Past(r)'
    BY <1>2 DEF HoldInv, Past
  <2>2. Taken(r)' = Taken(r)
    BY <1>2 DEF Taken
  <2>3. \A l \in Line : AfterConsume(r, l)' = AfterConsume(r, l)
    BY <1>2, <2>2 DEF AfterConsume
  <2>4. Fits(r)'
    BY <1>2, <2>2, <2>3 DEF HoldInv, Fits
  <2>5. QED BY <2>1, <2>4
<1>6. QED BY <1>1, <1>3, <1>4, <1>5 DEF HoldInv

\* The rows a request carries to its commit never reserve more than the lines
\* it leaves behind will have pending.
THEOREM HoldSafety == Spec => []HoldInv
<1>1. ASSUME HoldInv, [Next]_vars PROVE HoldInv'
  <2>1. CASE Next
    <3>1. PICK q \in Req : Arrival(q) \/ Advance(q) \/ Abort(q)
      BY <2>1 DEF Next
    <3>2. QED BY <1>1, <3>1, HoldStep
  <2>2. CASE UNCHANGED vars
    BY <1>1, <2>2, HoldStutter
  <2>3. QED BY <1>1, <2>1, <2>2
<1>2. QED BY <1>1, HoldInit, PTL DEF Spec

\* What an order keeps reserved is never more than its lines still need, after
\* every interleaving of confirms, posts, cancels and amends (consume,
\* release), for any number of orders, lines, bills and requests.
THEOREM HeldRight == Spec => []HeldWithinNeed
<1>1. HoldInv => HeldWithinNeed
  BY DEF HoldInv
<1>2. QED BY <1>1, HoldSafety, PTL
=============================================================================
