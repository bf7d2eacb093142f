--------------------------- MODULE LoyaltyProofs ----------------------------
(***************************************************************************)
(* Proofs about Loyalty, for every set of bills, awards, tenders and       *)
(* requests.                                                               *)
(*                                                                         *)
(* The inductive invariant follows the rows of a request from the call     *)
(* that plans them to the commit: they belong to its document alone, name  *)
(* lots that stand, and draw from a lot only while the request holds the   *)
(* wallet FOR UPDATE, when nobody else has rows of his own.  Whatever      *)
(* commits beside a request without that lock can only give points back,   *)
(* so a sum it took too early is too high, and no lot is overdrawn.        *)
(***************************************************************************)
EXTENDS Loyalty, SumLemmas, SequenceTheorems

LotKey(k) == k[3] \in {"EARN", "ADJUST"}

\* A row that the ledger's constraints and its one writer let through.
Proper(k, w) ==
  /\ k \in Key /\ w \in LedgerRow /\ w.pts # 0
  /\ k[3] = "EARN" => /\ (w.of = None) <=> (w.pts > 0)
                      /\ w.lot = None
  /\ k[3] \in {"REDEEM", "EXPIRE"} => ((w.of = None) <=> (w.pts < 0))
  /\ w.lot # None => /\ LotKey(w.lot)
                     /\ (w.of = None) <=> (w.pts < 0)
  /\ w.of # None => /\ w.of[1] = k[1] /\ w.of[2] = k[2] /\ w.of[3] = k[3]
                    /\ k[3] \in {"EARN", "REDEEM"}

\* Rows that name rows of led or of their own.
Names(rows_, led) ==
  \A k \in DOMAIN rows_ :
    /\ rows_[k].lot # None => rows_[k].lot \in DOMAIN rows_ \cup DOMAIN led
    /\ rows_[k].of # None => rows_[k].of \in DOMAIN rows_ \cup DOMAIN led

Book(led) ==
  /\ IsFiniteSet(DOMAIN led) /\ \A k \in DOMAIN led : Proper(k, led[k])
  /\ Names(led, NoRows)

\* Books without a row in common.
Apart(a, b) == \A k \in DOMAIN a : k \notin DOMAIN b

\* Rows that may be added to led.
Adds(new, led) ==
  /\ IsFiniteSet(DOMAIN new) /\ Apart(new, led)
  /\ \A k \in DOMAIN new : Proper(k, new[k]) /\ new[k].used = 0
  /\ Names(new, led)

\* The points of some of the rows.
Points(led, S) == SumFunction([k \in S |-> led[k].pts])

OnLot(led, lot) == {k \in DOMAIN led : led[k].lot = lot}
AboutLot(led, lot) == {k \in DOMAIN led : led[k].lot = lot \/ led[k].of = lot}

\* What the rows drew from a lot, less what they gave back.
Drawn(led, lot) == 0 - Points(led, OnLot(led, lot))

\* The redemptions of a bill, and those nothing has reversed.
Red(led, b) == {k \in DOMAIN led : k[1] = "bill" /\ k[2] = b /\ k[3] = "REDEEM"}
OpenRed(led, b) == {k \in Red(led, b) : led[k].of = None /\ \A j \in Red(led, b) : led[j].of # k}

-----------------------------------------------------------------------------
(* Points. *)

\* The points of rows are a number.
LEMMA PointsInt ==
  ASSUME NEW led, IsFiniteSet(DOMAIN led), \A k \in DOMAIN led : led[k].pts \in Int,
         NEW S \in SUBSET DOMAIN led
  PROVE  Points(led, S) \in Int /\ IsFiniteSet(S)
<1>1. IsFiniteSet(S) /\ [k \in S |-> led[k].pts] \in [S -> Int]
  BY FS_Subset
<1>2. QED BY <1>1, SumType DEF Points

\* Rows whose points are numbers.
Scored(led, S) == IsFiniteSet(S) /\ \A k \in S : led[k].pts \in Int

\* The points of rows of two kinds.
LEMMA PointsUnion ==
  ASSUME NEW led, NEW S, NEW T, Scored(led, S), Scored(led, T), S \cap T = {}
  PROVE  Points(led, S \cup T) = Points(led, S) + Points(led, T)
<1> DEFINE f == [k \in S \cup T |-> led[k].pts]
<1> DEFINE g == [k \in S |-> led[k].pts]
           h == [k \in T |-> led[k].pts]
<1>1. Splits(f, g, h, S, T)
  BY DEF Scored, Splits
<1> HIDE DEF f, g, h
<1>2. SumFunction(f) = SumFunction(g) + SumFunction(h)
  BY <1>1, SumUnion
<1>3. QED BY <1>2 DEF Points, f, g, h

\* No rows, no points.
LEMMA PointsNone == ASSUME NEW led PROVE Points(led, {}) = 0
<1>1. [k \in {} |-> led[k].pts] = [k \in {} |-> 0]
  OBVIOUS
<1>2. QED BY <1>1, ZeroSum, FS_EmptySet DEF Points

\* The points do not depend on the rest of the rows.
LEMMA PointsSame ==
  ASSUME NEW led, NEW old, NEW S, \A k \in S : led[k].pts = old[k].pts
  PROVE  Points(led, S) = Points(old, S)
<1>1. [k \in S |-> led[k].pts] = [k \in S |-> old[k].pts]
  OBVIOUS
<1>2. QED BY <1>1 DEF Points

\* Rows that give points give no negative total.
LEMMA PointsNat ==
  ASSUME NEW led, NEW S, IsFiniteSet(S), \A k \in S : led[k].pts \in Int /\ led[k].pts >= 0
  PROVE  Points(led, S) \in Nat
<1>1. [k \in S |-> led[k].pts] \in [S -> Nat]
  OBVIOUS
<1>2. QED BY <1>1, SumNat DEF Points

\* Rows that take points give no positive one.
LEMMA PointsNeg ==
  ASSUME NEW led, NEW S, IsFiniteSet(S), \A k \in S : led[k].pts \in Int /\ led[k].pts <= 0
  PROVE  Points(led, S) \in Int /\ Points(led, S) <= 0
<1> DEFINE f == [k \in S |-> led[k].pts]
           g == [k \in S |-> 0 - f[k]]
<1>1. f \in [S -> Int] /\ g \in [S -> Nat]
  OBVIOUS
<1>2. SumFunction(g) \in Nat /\ SumFunction(f) \in Int
  BY <1>1, SumNat, SumType
<1>3. SumFunction(g) = 0 - SumFunction(f)
  <2>1. \A k \in S : g[k] = 0 - f[k]
    OBVIOUS
  <2>2. f \in [S -> Int] /\ g \in [S -> Int]
    OBVIOUS
  <2> HIDE DEF f, g
  <2>3. QED BY <2>1, <2>2, SumMinus
<1> HIDE DEF f, g
<1>4. SumFunction(f) \in Int /\ SumFunction(f) <= 0
  BY <1>2, <1>3
<1>5. QED BY <1>4 DEF Points, f

\* One row.
LEMMA PointsOne ==
  ASSUME NEW led, NEW k, led[k].pts \in Int
  PROVE  Points(led, {k}) = led[k].pts
<1> DEFINE f == [j \in {} \cup {k} |-> led[j].pts]
<1>1. f \in [{} \cup {k} -> Int] /\ f[k] = led[k].pts
  OBVIOUS
<1>2. [j \in {} |-> f[j]] = [j \in {} |-> 0]
  OBVIOUS
<1>3. {} \cup {k} = {k}
  OBVIOUS
<1> HIDE DEF f
<1>4. SumFunction(f) = SumFunction([j \in {} |-> f[j]]) + f[k]
  BY <1>1, SumExtend, FS_EmptySet
<1>5. SumFunction([j \in {} |-> f[j]]) = 0
  BY <1>2, ZeroSum, FS_EmptySet
<1>6. SumFunction(f) = led[k].pts
  BY <1>1, <1>4, <1>5
<1>7. QED BY <1>3, <1>6 DEF Points, f


-----------------------------------------------------------------------------
(* Rows over rows. *)

\* A finite set of rows with points.
Rows(led) == Scored(led, DOMAIN led)

\* What is where when rows are laid over others.
LEMMA OverIs ==
  ASSUME NEW new, NEW led
  PROVE  /\ DOMAIN Over(new, led) = DOMAIN new \cup DOMAIN led
         /\ \A k \in DOMAIN new : Over(new, led)[k] = new[k]
         /\ \A k \in DOMAIN led : k \notin DOMAIN new => Over(new, led)[k] = led[k]
  BY DEF Over

\* Three layers.
LEMMA OverOver ==
  ASSUME NEW a, NEW b, NEW c
  PROVE  Over(Over(a, b), c) = Over(a, Over(b, c))
  BY DEF Over

\* Nothing has no domain.
LEMMA NoRowsIs == DOMAIN NoRows = {}
  BY DEF NoRows

\* The points of rows laid over others, when they are apart.
LEMMA OverPoints ==
  ASSUME NEW new, NEW led, Rows(new), Rows(led), Apart(new, led),
         NEW S \in SUBSET DOMAIN new, NEW T \in SUBSET DOMAIN led
  PROVE  Points(Over(new, led), S \cup T) = Points(new, S) + Points(led, T)
<1> DEFINE all == Over(new, led)
<1>1. (\A k \in S : all[k] = new[k]) /\ \A k \in T : all[k] = led[k]
  <2>1. (\A k \in S : k \in DOMAIN new) /\ \A k \in T : k \in DOMAIN led /\ k \notin DOMAIN new
    BY DEF Apart
  <2>2. QED BY <2>1 DEF Over
<1> HIDE DEF all
<1>2. Points(all, S) = Points(new, S) /\ Points(all, T) = Points(led, T)
  BY <1>1, PointsSame
<1>3. Scored(all, S) /\ Scored(all, T)
  BY <1>1, FS_Subset DEF Rows, Scored
<1>4. S \cap T = {}
  BY DEF Apart
<1>5. QED BY <1>2, <1>3, <1>4, PointsUnion DEF all

\* A subset of rows has points.
LEMMA RowsInt ==
  ASSUME NEW led, Rows(led), NEW S \in SUBSET DOMAIN led
  PROVE  Points(led, S) \in Int /\ IsFiniteSet(S) /\ Scored(led, S)
  BY PointsInt DEF Rows, Scored

\* Rows of a book, and rows that may be added to it, have points.
LEMMA BookRows ==
  ASSUME NEW led, Book(led)
  PROVE  Rows(led) /\ DOMAIN led \subseteq Key
  BY DEF Book, Rows, Scored, Proper, LedgerRow

\* Rows that may be added have points and keys of their own.
LEMMA AddsRows ==
  ASSUME NEW new, NEW led, Adds(new, led)
  PROVE  Rows(new) /\ DOMAIN new \subseteq Key /\ Apart(new, led)
  BY DEF Adds, Rows, Scored, Proper, LedgerRow

\* A book with rows added is a book.
LEMMA BookAdds ==
  ASSUME NEW new, NEW led, Book(led), Adds(new, led)
  PROVE  Book(Over(new, led))
<1> DEFINE all == Over(new, led)
<1>1. /\ DOMAIN all = DOMAIN new \cup DOMAIN led
      /\ \A k \in DOMAIN new : all[k] = new[k]
      /\ \A k \in DOMAIN led : all[k] = led[k]
  BY OverIs DEF Adds, Apart
<1> HIDE DEF all
<1>2. IsFiniteSet(DOMAIN all)
  BY <1>1, FS_Union DEF Book, Adds
<1>3. \A k \in DOMAIN all : Proper(k, all[k])
  BY <1>1 DEF Book, Adds
<1>4. Names(all, NoRows)
  BY <1>1, NoRowsIs DEF Book, Adds, Names
<1>5. Book(all)
  BY <1>2, <1>3, <1>4 DEF Book
<1>6. QED BY <1>5 DEF all

\* Rows added in two calls are added.
LEMMA AddsTwice ==
  ASSUME NEW a, NEW b, NEW led, Adds(b, led), Adds(a, Over(b, led))
  PROVE  Adds(Over(a, b), led)
<1> DEFINE two == Over(a, b)
<1>1. DOMAIN Over(b, led) = DOMAIN b \cup DOMAIN led
  BY OverIs
<1>2. /\ DOMAIN two = DOMAIN a \cup DOMAIN b
      /\ \A k \in DOMAIN a : two[k] = a[k]
      /\ \A k \in DOMAIN b : k \notin DOMAIN a => two[k] = b[k]
  BY OverIs
<1> HIDE DEF two
<1>3. IsFiniteSet(DOMAIN two)
  BY <1>2, FS_Union DEF Adds
<1>4. Apart(two, led)
  BY <1>1, <1>2 DEF Adds, Apart
<1>5. \A k \in DOMAIN two : Proper(k, two[k]) /\ two[k].used = 0
  BY <1>2 DEF Adds
<1>6. Names(two, led)
  BY <1>1, <1>2 DEF Adds, Names
<1>7. Adds(two, led)
  BY <1>3, <1>4, <1>5, <1>6 DEF Adds
<1>8. QED BY <1>7 DEF two

\* Sums written over rows change nothing else of them.
Sums(u) == \A k \in DOMAIN u : u[k] \in Int

\* Sums written over lots change nothing else of a row.
LEMMA UpdatedIs ==
  ASSUME NEW led, Book(led), NEW u, Sums(u)
  PROVE  /\ DOMAIN Updated(led, u) = DOMAIN led
         /\ \A k \in DOMAIN led :
              /\ Updated(led, u)[k].pts = led[k].pts /\ Updated(led, u)[k].lot = led[k].lot
              /\ Updated(led, u)[k].of = led[k].of
              /\ Updated(led, u)[k].used = IF k \in DOMAIN u THEN u[k] ELSE led[k].used
              /\ Updated(led, u)[k] \in LedgerRow
  BY DEF Book, Proper, LedgerRow, Updated, Sums

\* They leave a book.
LEMMA UpdatedBook ==
  ASSUME NEW led, Book(led), NEW u, Sums(u)
  PROVE  Book(Updated(led, u))
<1> DEFINE new == Updated(led, u)
<1>1. /\ DOMAIN new = DOMAIN led
      /\ \A k \in DOMAIN led :
           /\ new[k].pts = led[k].pts /\ new[k].lot = led[k].lot
           /\ new[k].of = led[k].of /\ new[k] \in LedgerRow
  BY UpdatedIs
<1> HIDE DEF new
<1>2. \A k \in DOMAIN new : Proper(k, new[k])
  BY <1>1 DEF Book, Proper
<1>3. Names(new, NoRows)
  BY <1>1 DEF Book, Names
<1>4. Book(new)
  BY <1>1, <1>2, <1>3 DEF Book
<1>5. QED BY <1>4 DEF new

\* Books with the same rows but for the sums written on lots.
Alike(a, b) ==
  /\ DOMAIN a = DOMAIN b
  /\ \A k \in DOMAIN a : a[k].pts = b[k].pts /\ a[k].lot = b[k].lot /\ a[k].of = b[k].of

\* They leave books alike.
LEMMA UpdatedAlike ==
  ASSUME NEW led, Book(led), NEW u, Sums(u)
  PROVE  Alike(Updated(led, u), led)
  BY UpdatedIs DEF Alike

-----------------------------------------------------------------------------
(* What was drawn from a lot. *)

\* Books alike draw the same.
LEMMA AlikeSums ==
  ASSUME NEW a, NEW b, Alike(a, b)
  PROVE  /\ \A lot : Drawn(a, lot) = Drawn(b, lot) /\ Consumed(a, lot) = Consumed(b, lot)
         /\ Total(a) = Total(b)
<1>1. ASSUME NEW S \in SUBSET DOMAIN a PROVE Points(a, S) = Points(b, S)
  <2>1. \A k \in S : a[k].pts = b[k].pts
    BY DEF Alike
  <2>2. QED BY <2>1, PointsSame
<1>2. ASSUME NEW lot PROVE Drawn(a, lot) = Drawn(b, lot)
  <2>1. OnLot(a, lot) = OnLot(b, lot) /\ OnLot(a, lot) \in SUBSET DOMAIN a
    BY DEF OnLot, Alike
  <2>2. QED BY <1>1, <2>1 DEF Drawn
<1>3. ASSUME NEW lot PROVE Consumed(a, lot) = Consumed(b, lot)
  <2>1. AboutLot(a, lot) = AboutLot(b, lot) /\ AboutLot(a, lot) \in SUBSET DOMAIN a
    BY DEF AboutLot, Alike
  <2>2. Consumed(a, lot) = 0 - Points(a, AboutLot(a, lot))
    BY DEF Consumed, Points, AboutLot
  <2>3. Consumed(b, lot) = 0 - Points(b, AboutLot(b, lot))
    BY DEF Consumed, Points, AboutLot
  <2>4. QED BY <1>1, <2>1, <2>2, <2>3
<1>4. Total(a) = Total(b)
  <2>1. Total(a) = Points(a, DOMAIN a) /\ Total(b) = Points(b, DOMAIN b)
    BY DEF Total, Points
  <2>2. QED BY <1>1, <2>1 DEF Alike
<1>5. QED BY <1>2, <1>3, <1>4

\* The sums are numbers.
LEMMA LotInts ==
  ASSUME NEW led, Rows(led)
  PROVE  (\A lot : Drawn(led, lot) \in Int /\ Consumed(led, lot) \in Int) /\ Total(led) \in Int
<1>1. ASSUME NEW lot PROVE Drawn(led, lot) \in Int /\ Consumed(led, lot) \in Int
  <2>1. OnLot(led, lot) \in SUBSET DOMAIN led /\ AboutLot(led, lot) \in SUBSET DOMAIN led
    BY DEF OnLot, AboutLot
  <2>2. Points(led, OnLot(led, lot)) \in Int /\ Points(led, AboutLot(led, lot)) \in Int
    BY <2>1, RowsInt
  <2>3. Consumed(led, lot) = 0 - Points(led, AboutLot(led, lot))
    BY DEF Consumed, Points, AboutLot
  <2>4. QED BY <2>2, <2>3 DEF Drawn
<1>2. Total(led) \in Int
  <2>1. Total(led) = Points(led, DOMAIN led) /\ DOMAIN led \in SUBSET DOMAIN led
    BY DEF Total, Points
  <2>2. QED BY <2>1, RowsInt
<1>3. QED BY <1>1, <1>2

\* New rows add to what was drawn, consumed and held.
LEMMA LotSums ==
  ASSUME NEW new, NEW led, Rows(new), Rows(led), Apart(new, led)
  PROVE  /\ \A lot : /\ Drawn(Over(new, led), lot) = Drawn(new, lot) + Drawn(led, lot)
                     /\ Consumed(Over(new, led), lot) = Consumed(new, lot) + Consumed(led, lot)
         /\ Total(Over(new, led)) = Total(new) + Total(led)
<1> DEFINE all == Over(new, led)
<1>0. /\ DOMAIN all = DOMAIN new \cup DOMAIN led
      /\ (\A k \in DOMAIN new : all[k] = new[k]) /\ \A k \in DOMAIN led : all[k] = led[k]
  BY DEF Over, Apart
<1>1. \A S \in SUBSET DOMAIN new, T \in SUBSET DOMAIN led :
        Points(all, S \cup T) = Points(new, S) + Points(led, T)
  <2>1. ASSUME NEW S \in SUBSET DOMAIN new, NEW T \in SUBSET DOMAIN led
        PROVE  Points(all, S \cup T) = Points(new, S) + Points(led, T)
    BY OverPoints
  <2>2. QED BY <2>1
<1> HIDE DEF all
<1>2. \A lot : Drawn(new, lot) \in Int /\ Drawn(led, lot) \in Int /\ Consumed(new, lot) \in Int /\ Consumed(led, lot) \in Int
  BY LotInts
<1>3. ASSUME NEW lot PROVE Drawn(all, lot) = Drawn(new, lot) + Drawn(led, lot)
  <2>1. OnLot(all, lot) = OnLot(new, lot) \cup OnLot(led, lot)
    BY <1>0 DEF OnLot
  <2>2. OnLot(new, lot) \in SUBSET DOMAIN new /\ OnLot(led, lot) \in SUBSET DOMAIN led
    BY DEF OnLot
  <2>3. Points(all, OnLot(all, lot)) = Points(new, OnLot(new, lot)) + Points(led, OnLot(led, lot))
    BY <1>1, <2>1, <2>2
  <2>4. Points(new, OnLot(new, lot)) \in Int /\ Points(led, OnLot(led, lot)) \in Int
    BY <2>2, RowsInt
  <2>5. QED BY <2>3, <2>4 DEF Drawn
<1>4. ASSUME NEW lot PROVE Consumed(all, lot) = Consumed(new, lot) + Consumed(led, lot)
  <2>1. AboutLot(all, lot) = AboutLot(new, lot) \cup AboutLot(led, lot)
    BY <1>0 DEF AboutLot
  <2>2. AboutLot(new, lot) \in SUBSET DOMAIN new /\ AboutLot(led, lot) \in SUBSET DOMAIN led
    BY DEF AboutLot
  <2>3. Points(all, AboutLot(all, lot)) = Points(new, AboutLot(new, lot)) + Points(led, AboutLot(led, lot))
    BY <1>1, <2>1, <2>2
  <2>4. Points(new, AboutLot(new, lot)) \in Int /\ Points(led, AboutLot(led, lot)) \in Int
    BY <2>2, RowsInt
  <2>5. /\ Consumed(all, lot) = 0 - Points(all, AboutLot(all, lot))
        /\ Consumed(new, lot) = 0 - Points(new, AboutLot(new, lot))
        /\ Consumed(led, lot) = 0 - Points(led, AboutLot(led, lot))
    BY DEF Consumed, Points, AboutLot
  <2>6. QED BY <2>3, <2>4, <2>5
<1>5. Total(all) = Total(new) + Total(led)
  <2>1. /\ Total(all) = Points(all, DOMAIN new \cup DOMAIN led)
        /\ Total(new) = Points(new, DOMAIN new) /\ Total(led) = Points(led, DOMAIN led)
    BY <1>0 DEF Total, Points
  <2>2. QED BY <1>1, <2>1
<1>6. QED BY <1>3, <1>4, <1>5 DEF all

\* A sum taken over a lot covers what was drawn from it: the rows that reverse
\* an award are negative.
LEMMA ConsumedCovers ==
  ASSUME NEW led, Book(led), NEW lot \in Key, LotKey(lot)
  PROVE  Drawn(led, lot) <= Consumed(led, lot)
<1> DEFINE S == OnLot(led, lot)
           T == {k \in DOMAIN led : led[k].of = lot /\ led[k].lot # lot}
<1>1. AboutLot(led, lot) = S \cup T /\ S \cap T = {}
  BY DEF OnLot, AboutLot
<1>2. S \in SUBSET DOMAIN led /\ T \in SUBSET DOMAIN led /\ Rows(led)
  BY BookRows DEF OnLot
<1>3. \A k \in T : led[k].pts \in Int /\ led[k].pts <= 0
  <2> SUFFICES ASSUME NEW k \in T PROVE led[k].pts \in Int /\ led[k].pts <= 0
    OBVIOUS
  <2>1. Proper(k, led[k]) /\ led[k].of = lot /\ lot # None
    BY RequestAssumption DEF Book
  <2>2. k[3] = "EARN"
    BY <2>1 DEF Proper, LotKey
  <2>3. QED BY <2>1, <2>2 DEF Proper, LedgerRow
<1>4. Consumed(led, lot) = 0 - Points(led, AboutLot(led, lot))
  BY DEF Consumed, Points, AboutLot
<1> HIDE DEF S, T
<1>5. Scored(led, S) /\ Scored(led, T) /\ Points(led, S) \in Int
  BY <1>2, RowsInt
<1>6. Points(led, S \cup T) = Points(led, S) + Points(led, T)
  BY <1>1, <1>5, PointsUnion
<1>7. Points(led, T) \in Int /\ Points(led, T) <= 0
  BY <1>3, <1>5, PointsNeg DEF Scored
<1>8. Drawn(led, lot) = 0 - Points(led, S)
  BY DEF Drawn, S
<1>9. QED BY <1>1, <1>4, <1>5, <1>6, <1>7, <1>8

\* Rows that only give back draw nothing.
LEMMA GiveBack ==
  ASSUME NEW led, Rows(led), NEW lot, \A k \in OnLot(led, lot) : led[k].pts > 0
  PROVE  Drawn(led, lot) \in Int /\ Drawn(led, lot) <= 0
<1>1. OnLot(led, lot) \in SUBSET DOMAIN led
  BY DEF OnLot
<1>2. Scored(led, OnLot(led, lot))
  BY <1>1, RowsInt
<1>3. Points(led, OnLot(led, lot)) \in Nat
  BY <1>2, PointsNat DEF Scored
<1>4. QED BY <1>3 DEF Drawn

\* A lot no row names has nothing drawn from it.
LEMMA Untouched ==
  ASSUME NEW led, NEW lot, OnLot(led, lot) = {}
  PROVE  Drawn(led, lot) = 0
  BY PointsNone DEF Drawn

\* Nor has one that rows neither draw on nor take back been consumed.
LEMMA Unconsumed ==
  ASSUME NEW led, NEW lot, AboutLot(led, lot) = {}
  PROVE  Consumed(led, lot) = 0
<1>1. Consumed(led, lot) = 0 - Points(led, AboutLot(led, lot))
  BY DEF Consumed, Points, AboutLot
<1>2. QED BY <1>1, PointsNone

-----------------------------------------------------------------------------
(* Numbering. *)

Numbers(S) == S \subseteq Nat

\* A finite set of naturals has a greatest element.
LEMMA GreatestNat ==
  ASSUME NEW S, IsFiniteSet(S), Numbers(S), S # {}
  PROVE  \E n \in S : \A m \in S : m <= n
<1> DEFINE Tops(s) == \E n \in s : \A m \in s : m <= n
           T == {s \in SUBSET S : s # {} /\ ~Tops(s)}
<1> SUFFICES ASSUME ~Tops(S) PROVE FALSE
  OBVIOUS
<1>1. PICK s \in T : \A t \in T : t \subseteq s => t = s
  <2>1. T \subseteq SUBSET S /\ T # {}
    OBVIOUS
  <2> HIDE DEF T
  <2>2. QED BY <2>1, MinimalSubset
<1>2. s \subseteq Nat /\ s # {} /\ ~Tops(s)
  BY DEF Numbers
<1>3. PICK x \in s : TRUE
  BY <1>2
<1>4. CASE s \ {x} = {}
  <2>1. \A m \in s : m = x
    BY <1>4
  <2>2. QED BY <1>2, <1>3, <2>1
<1>5. CASE s \ {x} # {}
  <2>1. s \ {x} \in SUBSET S /\ s \ {x} \subseteq s /\ s \ {x} # s
    BY <1>3
  <2>2. Tops(s \ {x})
    <3> HIDE DEF Tops
    <3>1. QED BY <1>1, <1>5, <2>1
  <2>3. PICK n \in s \ {x} : \A m \in s \ {x} : m <= n
    BY <2>2
  <2>4. x \in Nat /\ n \in Nat
    BY <1>2, <1>3
  <2>5. CASE x <= n
    <3>1. \A m \in s : m <= n
      BY <2>3, <2>5
    <3>2. QED BY <1>2, <3>1
  <2>6. CASE n < x
    <3>1. \A m \in s : m <= x
      BY <1>2, <2>3, <2>4, <2>6
    <3>2. QED BY <1>2, <1>3, <3>1
  <2>7. QED BY <2>4, <2>5, <2>6
<1>6. QED BY <1>4, <1>5

\* maxRowNos: the last number is that of a row, or none.
LEMMA LastNoIs ==
  ASSUME NEW led, IsFiniteSet(DOMAIN led), DOMAIN led \subseteq Key, NEW kind, NEW id, NEW type
  PROVE  /\ LastNo(led, kind, id, type) \in Nat
         /\ \A x \in DOMAIN led : x[1] = kind /\ x[2] = id /\ x[3] = type => x[4] <= LastNo(led, kind, id, type)
         /\ (\A x \in DOMAIN led : ~(x[1] = kind /\ x[2] = id)) => LastNo(led, kind, id, type) = 0
<1> DEFINE X == {x \in DOMAIN led : x[1] = kind /\ x[2] = id /\ x[3] = type}
           S == {0} \cup {k[4] : k \in X}
<1>1. IsFiniteSet(X)
  BY FS_Subset
<1>2. IsFiniteSet({k[4] : k \in X})
  <2>1. [k \in X |-> k[4]] \in Surjection(X, {k[4] : k \in X})
    BY Zenon DEF Surjection
  <2>2. QED BY <1>1, <2>1, FS_Surjection
<1>3. IsFiniteSet(S) /\ S # {}
  BY <1>2, FS_AddElement, FS_Singleton, FS_Union
<1>4. S \subseteq Nat
  BY DEF Key
<1>5. Max(S) = CHOOSE n \in S : \A m \in S : n >= m
  BY DEF Max
<1>6. LastNo(led, kind, id, type) = Max(S)
  BY DEF LastNo
<1>7. \A x \in X : x[4] \in S
  OBVIOUS
<1>8. X = {} => S = {0}
  OBVIOUS
<1> HIDE DEF S
<1>9. \E n \in S : \A m \in S : n >= m
  <2>1. PICK n \in S : \A m \in S : m <= n
    BY <1>3, <1>4, GreatestNat DEF Numbers
  <2>2. QED BY <1>4, <2>1
<1>10. Max(S) \in S /\ \A m \in S : Max(S) >= m
  BY <1>5, <1>9
<1>11. \A m \in S : m <= Max(S)
  BY <1>4, <1>10
<1>12. QED BY <1>4, <1>6, <1>7, <1>8, <1>10, <1>11

\* How many of some rows are older than one of them.
LEMMA OlderCount ==
  ASSUME NEW D, IsFiniteSet(D), D \subseteq Key, NEW x \in D
  PROVE  /\ Cardinality({y \in D : Older(y, x)}) \in Nat
         /\ Cardinality({y \in D : Older(y, x)}) < Cardinality(D)
         /\ \A z \in D : Older(x, z) => Cardinality({y \in D : Older(y, x)}) < Cardinality({y \in D : Older(y, z)})
<1> DEFINE B(z) == {y \in D : Older(y, z)}
<1>1. \A z \in D : IsFiniteSet(B(z)) /\ Cardinality(B(z)) \in Nat
  BY FS_Subset, FS_CardinalityType
<1>2. x \notin B(x)
  BY DEF Older, Key
<1>3. Cardinality(D) \in Nat /\ Cardinality(D \ {x}) = Cardinality(D) - 1 /\ IsFiniteSet(D \ {x})
  BY FS_CardinalityType, FS_RemoveElement
<1>4. Cardinality(B(x)) <= Cardinality(D \ {x})
  <2>1. B(x) \subseteq D \ {x}
    BY <1>2
  <2>2. QED BY <1>3, <2>1, FS_Subset
<1>5. ASSUME NEW z \in D, Older(x, z) PROVE Cardinality(B(x)) < Cardinality(B(z))
  <2>1. B(x) \subseteq B(z) \ {x} /\ x \in B(z)
    BY <1>2, <1>5 DEF Older, Key
  <2>2. IsFiniteSet(B(z) \ {x}) /\ Cardinality(B(z) \ {x}) = Cardinality(B(z)) - 1
    BY <1>1, <2>1, FS_RemoveElement
  <2>3. Cardinality(B(x)) <= Cardinality(B(z) \ {x})
    BY <2>1, <2>2, FS_Subset
  <2> HIDE DEF B
  <2>4. QED BY <1>1, <2>2, <2>3
<1> HIDE DEF B
<1>6. Cardinality(B(x)) < Cardinality(D)
  BY <1>1, <1>3, <1>4
<1>7. QED BY <1>1, <1>5, <1>6 DEF B

\* Rows that are rows of new under other keys.
Copies(rows_, at, new) ==
  /\ at \in [DOMAIN rows_ -> DOMAIN new]
  /\ \A j, k \in DOMAIN rows_ : at[j] = at[k] => j = k
  /\ \A k \in DOMAIN rows_ : rows_[k] = new[at[k]]

\* A document, and a type of its rows.
DocKey(kind, id, type) ==
  kind \in {"bill", "ret", "adj"} /\ id \in Nat /\ type \in {"EARN", "REDEEM", "EXPIRE", "ADJUST"}

\* Rows numbered after those of led, one for each of new if their order tells
\* them apart.
Placed(res, led, kind, id, type, new) ==
  /\ \A k \in DOMAIN res :
       /\ k \in Key /\ k[1] = kind /\ k[2] = id /\ k[3] = type
       /\ k[4] > LastNo(led, kind, id, type) /\ k[4] <= LastNo(led, kind, id, type) + Cardinality(DOMAIN new)
  /\ Apart(res, led) /\ IsFiniteSet(DOMAIN res)
  /\ DOMAIN new # {} => DOMAIN res # {}
  /\ \E at : /\ Copies(res, at, new)
             /\ (\A x, y \in DOMAIN new : x # y => Older(x, y) \/ Older(y, x)) =>
                  \A x \in DOMAIN new : \E k \in DOMAIN res : at[k] = x

\* The keys of numbered rows are new, and theirs alone.
LEMMA NumberedIs ==
  ASSUME NEW led, IsFiniteSet(DOMAIN led), DOMAIN led \subseteq Key,
         NEW kind, NEW id, NEW type, DocKey(kind, id, type),
         NEW new, IsFiniteSet(DOMAIN new), DOMAIN new \subseteq Key,
         NEW res, res = Numbered(led, kind, id, type, new)
  PROVE  Placed(res, led, kind, id, type, new)
<1> DEFINE D == DOMAIN new
           last == LastNo(led, kind, id, type)
           cnt(x) == Cardinality({y \in D : Older(y, x)})
           no == [x \in D |-> last + 1 + cnt(x)]
           K == {<<kind, id, type, no[x]>> : x \in D}
           at == [k \in K |-> CHOOSE x \in D : no[x] = k[4]]
<1>1. last \in Nat /\ \A x \in DOMAIN led : x[1] = kind /\ x[2] = id /\ x[3] = type => x[4] <= last
  BY LastNoIs
<1>2. \A x \in D : cnt(x) \in Nat /\ cnt(x) < Cardinality(D)
  BY OlderCount
<1>3. \A x, z \in D : Older(x, z) => cnt(x) < cnt(z)
  BY OlderCount
<1>4. res = [k \in K |-> new[CHOOSE x \in D : no[x] = k[4]]]
  BY DEF Numbered
<1>5. Cardinality(D) \in Nat
  BY FS_CardinalityType
<1> HIDE DEF last, cnt, D
<1>6. \A x \in D : no[x] \in Nat /\ no[x] > last /\ no[x] <= last + Cardinality(D)
  BY <1>1, <1>2, <1>5
<1>7. \A x, z \in D : Older(x, z) => no[x] # no[z]
  BY <1>1, <1>2, <1>3
<1> HIDE DEF no
<1>8. \A k \in K : k \in Key /\ k[1] = kind /\ k[2] = id /\ k[3] = type /\ \E x \in D : k[4] = no[x]
  BY <1>6 DEF Key, DocKey
<1>9. \A k \in K : at[k] \in D /\ no[at[k]] = k[4]
  BY <1>8
<1>10. IsFiniteSet(K)
  <2>1. [x \in D |-> <<kind, id, type, no[x]>>] \in Surjection(D, K)
    BY Zenon DEF Surjection
  <2>2. QED BY <2>1, FS_Surjection DEF D
<1>11. DOMAIN res = K /\ \A k \in K : res[k] = new[at[k]]
  BY <1>4
<1>12. \A j, k \in K : j[4] = k[4] => j = k
  <2> SUFFICES ASSUME NEW x \in D, NEW y \in D, no[x] = no[y]
               PROVE  <<kind, id, type, no[x]>> = <<kind, id, type, no[y]>>
    OBVIOUS
  <2>1. QED OBVIOUS
<1>13. D # {} => K # {}
  OBVIOUS
<1>14. \A x \in D : <<kind, id, type, no[x]>> \in K /\ <<kind, id, type, no[x]>>[4] = no[x]
  OBVIOUS
<1>15. at \in [K -> D]
  BY <1>9
<1> HIDE DEF K, at
<1>16. Copies(res, at, new)
  BY <1>9, <1>11, <1>12, <1>15 DEF Copies, D
<1>17. ASSUME \A x, y \in D : x # y => Older(x, y) \/ Older(y, x)
       PROVE  \A x \in D : \E k \in DOMAIN res : at[k] = x
  <2> SUFFICES ASSUME NEW x \in D PROVE \E k \in K : at[k] = x
    BY <1>11
  <2>1. PICK k \in K : k[4] = no[x]
    BY <1>14
  <2>2. at[k] = x
    BY <1>7, <1>9, <1>17, <2>1
  <2>3. QED BY <2>2
<1>18. \A k \in K : k[4] > last /\ k[4] <= last + Cardinality(D)
  BY <1>6, <1>8
<1>19. Apart(res, led)
  <2> SUFFICES ASSUME NEW k \in K, k \in DOMAIN led PROVE FALSE
    BY <1>11 DEF Apart
  <2>1. k[4] <= last /\ k[4] > last
    BY <1>1, <1>8, <1>18
  <2>2. k[4] \in Nat
    BY <1>8 DEF Key
  <2>3. QED BY <1>1, <2>1, <2>2
<1>20. QED BY <1>8, <1>10, <1>11, <1>13, <1>16, <1>17, <1>18, <1>19 DEF D, last, Placed

-----------------------------------------------------------------------------
(* The rows of a call. *)

\* No lot shows more left than it has.
Sure(led) == \A lot \in DOMAIN led : LotKey(lot) => Drawn(led, lot) <= led[lot].used

\* No lot is overdrawn.
Within(led) == \A lot \in DOMAIN led : IsLot(led, lot) => Drawn(led, lot) <= led[lot].pts

\* Rows of one document that may be added and name lots that stand.
DocRows(new, led, kind, id) ==
  /\ Adds(new, led)
  /\ \A k \in DOMAIN new : k[1] = kind /\ k[2] = id /\ (new[k].lot # None => new[k].lot \in DOMAIN led)

\* Rows that draw from no lot.
Gives(new) == \A k \in DOMAIN new : new[k].lot # None => new[k].pts > 0

\* A lot still holds what new rows draw from it.
Affords(new, led) ==
  \A lot \in DOMAIN led : IsLot(led, lot) => Drawn(new, lot) <= 0 \/ Drawn(new, lot) <= Balance(led, lot)

\* The balances of lots add up to a number.
LEMMA BalanceInt ==
  ASSUME NEW led, Book(led), NEW S \in SUBSET DOMAIN led
  PROVE  BalanceOf(led, S) \in Int /\ \A k \in S : Balance(led, k) \in Int
<1>1. \A k \in S : Balance(led, k) \in Int
  BY DEF Book, Proper, LedgerRow, Balance
<1>2. IsFiniteSet(S)
  BY FS_Subset DEF Book
<1>3. [k \in S |-> Balance(led, k)] \in [S -> Int]
  BY <1>1
<1>4. SumFunction([k \in S |-> Balance(led, k)]) \in Int
  BY <1>2, <1>3, SumType
<1>5. QED BY <1>1, <1>4 DEF BalanceOf

\* The lesser of two numbers.
LEMMA MinIs ==
  ASSUME NEW a \in Int, NEW b \in Int
  PROVE  Min({a, b}) \in Int /\ Min({a, b}) <= a /\ Min({a, b}) <= b /\ Min({a, b}) \in {a, b}
<1>1. \E x \in {a, b} : \A y \in {a, b} : x =< y
  OBVIOUS
<1>2. QED BY <1>1 DEF Min

\* What a lot gives is no more than it has.
LEMMA ShareIs ==
  ASSUME NEW led, Book(led), NEW points, points \in Int, NEW k, k \in Lots(led)
  PROVE  Share(led, points)[k] \in Int /\ Share(led, points)[k] <= Balance(led, k)
<1>1. Lots(led) \in SUBSET DOMAIN led
  BY DEF Lots, OpenLots
<1>2. Balance(led, k) \in Int
  BY <1>1, BalanceInt
<1> DEFINE older == {j \in Lots(led) : Older(j, k)}
           a == Balance(led, k)
           b == points - BalanceOf(led, older)
<1>3. BalanceOf(led, older) \in Int
  <2>1. older \in SUBSET DOMAIN led
    BY <1>1
  <2>2. QED BY <2>1, BalanceInt
<1>4. Share(led, points)[k] = Min({a, b})
  BY DEF Share
<1>5. a \in Int /\ b \in Int
  BY <1>2, <1>3
<1> HIDE DEF a, b
<1>6. Min({a, b}) \in Int /\ Min({a, b}) <= a
  BY <1>5, MinIs
<1>7. QED BY <1>4, <1>6 DEF a

\* What lots give: something, and no more than they have.
Portions(led, D, w) == \A k \in D : IsLot(led, k) /\ w[k] \in Int /\ w[k] > 0 /\ w[k] <= Balance(led, k)

\* Numbered rows that draw, each on a lot of its own.
LEMMA DrawRows ==
  ASSUME NEW led, Book(led), NEW kind, NEW id, NEW type, DocKey(kind, id, type), type # "EARN",
         NEW D, D \subseteq DOMAIN led, NEW w,
         Portions(led, D, w),
         NEW res, res = Numbered(led, kind, id, type, [k \in D |-> Row(0 - w[k], k, None)])
  PROVE  /\ DocRows(res, led, kind, id) /\ Affords(res, led)
         /\ \A k \in DOMAIN res : res[k].lot \in D /\ res[k].of = None
         /\ D # {} => DOMAIN res # {}
<1> DEFINE new == [k \in D |-> Row(0 - w[k], k, None)]
<1>1. IsFiniteSet(DOMAIN led) /\ DOMAIN led \subseteq Key /\ IsFiniteSet(D) /\ D \subseteq Key /\ D \subseteq DOMAIN led
  BY BookRows, FS_Subset DEF Book
<1>2. DOMAIN new = D /\ \A k \in D : new[k] = Row(0 - w[k], k, None)
  OBVIOUS
<1>3. res = Numbered(led, kind, id, type, new)
  OBVIOUS
<1>c. IsFiniteSet(DOMAIN new) /\ DOMAIN new \subseteq Key
  BY <1>1
<1> HIDE DEF new
<1>d. Placed(res, led, kind, id, type, new)
  BY <1>1, <1>c, <1>3, NumberedIs
<1>4. /\ \A k \in DOMAIN res : k \in Key /\ k[1] = kind /\ k[2] = id /\ k[3] = type
      /\ Apart(res, led) /\ IsFiniteSet(DOMAIN res)
      /\ D # {} => DOMAIN res # {}
      /\ \E at : Copies(res, at, new)
      /\ type \in {"REDEEM", "EXPIRE", "ADJUST"}
  BY <1>2, <1>d DEF Placed, DocKey
<1>5. PICK at : Copies(res, at, new)
  BY <1>4
<1>6. \A k \in DOMAIN res : at[k] \in D /\ res[k] = Row(0 - w[at[k]], at[k], None)
  BY <1>2, <1>5 DEF Copies
<1>a. \A k \in DOMAIN res : /\ res[k].pts = 0 - w[at[k]] /\ res[k].lot = at[k]
                            /\ res[k].of = None /\ res[k].used = 0
  <2> SUFFICES ASSUME NEW k \in DOMAIN res
               PROVE  res[k].pts = 0 - w[at[k]] /\ res[k].lot = at[k] /\ res[k].of = None /\ res[k].used = 0
    OBVIOUS
  <2>1. res[k] = Row(0 - w[at[k]], at[k], None)
    BY <1>6
  <2>2. QED BY <2>1 DEF Row
<1>b. \A k \in D : IsLot(led, k) /\ w[k] \in Int /\ w[k] > 0 /\ w[k] <= Balance(led, k)
  BY DEF Portions
<1>7. ASSUME NEW k \in DOMAIN res
      PROVE  Proper(k, res[k]) /\ res[k].used = 0 /\ res[k].lot \in D /\ res[k].of = None
  <2>1. at[k] \in D /\ at[k] \in Key /\ IsLot(led, at[k]) /\ w[at[k]] \in Int /\ w[at[k]] > 0
    BY <1>1, <1>6, <1>b
  <2>2. /\ res[k].pts = 0 - w[at[k]] /\ res[k].lot = at[k] /\ res[k].of = None /\ res[k].used = 0
        /\ res[k] \in LedgerRow
    BY <1>6, <2>1 DEF Row, LedgerRow
  <2>3. LotKey(at[k]) /\ at[k] # None
    BY <2>1, RequestAssumption DEF IsLot, LotKey
  <2>4. Proper(k, res[k])
    BY <1>4, <2>1, <2>2, <2>3 DEF Proper
  <2>5. QED BY <2>1, <2>2, <2>4
<1>8. Names(res, led)
  BY <1>1, <1>7 DEF Names
<1>9. Adds(res, led)
  BY <1>4, <1>7, <1>8 DEF Adds
<1>10. DocRows(res, led, kind, id)
  BY <1>1, <1>4, <1>7, <1>9 DEF DocRows
<1>11. Affords(res, led)
  <2> SUFFICES ASSUME NEW lot \in DOMAIN led, IsLot(led, lot)
               PROVE  Drawn(res, lot) <= 0 \/ Drawn(res, lot) <= Balance(led, lot)
    BY DEF Affords
  <2>1. CASE OnLot(res, lot) = {}
    BY <2>1, Untouched
  <2>2. CASE OnLot(res, lot) # {}
    <3>1. PICK k \in DOMAIN res : res[k].lot = lot
      BY <2>2 DEF OnLot
    <3>2. at[k] = lot /\ res[k].pts = 0 - w[lot] /\ lot \in D
      BY <1>6, <1>a, <3>1
    <3>3. OnLot(res, lot) = {k}
      <4>1. \A j \in DOMAIN res : res[j].lot = lot => at[j] = at[k]
        BY <1>a, <3>2
      <4>2. \A j \in DOMAIN res : res[j].lot = lot => j = k
        BY <1>5, <4>1 DEF Copies
      <4>3. QED BY <3>1, <4>2 DEF OnLot
    <3>4. res[k].pts \in Int /\ w[lot] \in Int /\ w[lot] <= Balance(led, lot)
      BY <1>b, <3>2
    <3>5. Points(res, {k}) = 0 - w[lot]
      BY <3>2, <3>4, PointsOne
    <3>6. Drawn(res, lot) = 0 - (0 - w[lot])
      BY <3>3, <3>5 DEF Drawn
    <3>8. Drawn(res, lot) <= Balance(led, lot)
      BY <3>4, <3>6
    <3>7. QED BY <3>8
  <2>3. QED BY <2>1, <2>2
<1>12. QED BY <1>4, <1>7, <1>10, <1>11

\* Draws take a share of each lot.
LEMMA DrawsAre ==
  ASSUME NEW led, Book(led), NEW kind, NEW id, NEW type, DocKey(kind, id, type), type # "EARN",
         NEW points, points \in Int, NEW res, res = Draws(led, kind, id, type, points)
  PROVE  DocRows(res, led, kind, id) /\ Affords(res, led) /\ \A k \in DOMAIN res : res[k].of = None
<1> DEFINE D == {k \in Lots(led) : Share(led, points)[k] > 0}
           w == Share(led, points)
<1>1. D \subseteq DOMAIN led /\ \A k \in D : IsLot(led, k)
  BY DEF Lots, OpenLots
<1>2. \A k \in Lots(led) : w[k] \in Int /\ w[k] <= Balance(led, k)
  BY ShareIs
<1>3. Portions(led, D, w)
  BY <1>1, <1>2 DEF Portions
<1>4. res = Numbered(led, kind, id, type, [k \in D |-> Row(0 - w[k], k, None)])
  BY DEF Draws
<1> HIDE DEF D, w
<1>5. QED BY <1>1, <1>3, <1>4, DrawRows

\* Of what lots hold enough, something is drawn.
LEMMA DrawsSome ==
  ASSUME NEW led, Book(led), NEW kind, NEW id, NEW type, DocKey(kind, id, type), type # "EARN",
         NEW points, points \in Int, points > 0, Redeemable(led) >= points,
         NEW res, res = Draws(led, kind, id, type, points)
  PROVE  DOMAIN res # {}
<1> DEFINE L == Lots(led)
           D == {k \in L : Share(led, points)[k] > 0}
           w == Share(led, points)
           cnt(x) == Cardinality({y \in L : Older(y, x)})
<1>1. L \subseteq DOMAIN led /\ IsFiniteSet(L) /\ L \subseteq Key
  BY BookRows, FS_Subset DEF Lots, OpenLots, Book
<1>2. L # {}
  <2> SUFFICES ASSUME L = {} PROVE FALSE
    OBVIOUS
  <2>1. [k \in L |-> Balance(led, k)] = [k \in {} |-> 0]
    OBVIOUS
  <2>2. Redeemable(led) = 0
    BY <2>1, ZeroSum, FS_EmptySet DEF Redeemable, BalanceOf
  <2>3. QED BY <2>2
<1>3. \A x \in L : cnt(x) \in Nat
  BY <1>1, FS_Subset, FS_CardinalityType
<1>4. \A x, z \in L : Older(x, z) => cnt(x) < cnt(z)
  BY <1>1, OlderCount
<1>5. PICK k \in L : \A z \in L : cnt(k) <= cnt(z)
  <2> HIDE DEF L
  <2> DEFINE T == {cnt(x) : x \in L}
  <2>1. T \subseteq Nat /\ T # {}
    BY <1>2, <1>3
  <2>2. \A x \in L : cnt(x) \in T
    OBVIOUS
  <2>3. \A n \in T : \E x \in L : n = cnt(x)
    OBVIOUS
  <2> HIDE DEF T, cnt
  <2>4. PICK n \in T : \A m \in T : n <= m
    BY <2>1, LeastNat
  <2>5. QED BY <2>2, <2>3, <2>4
<1>6. {j \in L : Older(j, k)} = {}
  <2> SUFFICES ASSUME NEW j \in L, Older(j, k) PROVE FALSE
    OBVIOUS
  <2>1. cnt(j) < cnt(k) /\ cnt(k) <= cnt(j) /\ cnt(j) \in Nat /\ cnt(k) \in Nat
    BY <1>3, <1>4, <1>5
  <2> HIDE DEF cnt
  <2>2. QED BY <2>1
<1>7. BalanceOf(led, {}) = 0
  <2>1. [j \in {} |-> Balance(led, j)] = [j \in {} |-> 0]
    OBVIOUS
  <2>2. QED BY <2>1, ZeroSum, FS_EmptySet DEF BalanceOf
<1>8. Balance(led, k) \in Int /\ Balance(led, k) > 0
  <2>1. k \in L /\ L \in SUBSET DOMAIN led
    BY <1>1
  <2>2. Balance(led, k) \in Int
    BY <2>1, BalanceInt
  <2>3. QED BY <2>1, <2>2 DEF Lots, OpenLots
<1>9. w[k] > 0
  <2>1. w[k] = Min({Balance(led, k), points - BalanceOf(led, {j \in L : Older(j, k)})})
    BY DEF Share
  <2>2. w[k] = Min({Balance(led, k), points - 0})
    BY <1>6, <1>7, <2>1
  <2> DEFINE a == Balance(led, k)
             b == points - 0
  <2>3. a \in Int /\ b \in Int /\ a > 0 /\ b > 0
    BY <1>8
  <2>4. w[k] = Min({a, b})
    BY <2>2
  <2> HIDE DEF a, b, w
  <2>5. Min({a, b}) \in {a, b}
    BY <2>3, MinIs
  <2>6. QED BY <2>3, <2>4, <2>5
<1>10. D # {}
  BY <1>5, <1>9
<1>11. Portions(led, D, w)
  <2>1. \A x \in L : w[x] \in Int /\ w[x] <= Balance(led, x)
    BY ShareIs
  <2>2. QED BY <2>1 DEF Portions, Lots, OpenLots
<1>12. res = Numbered(led, kind, id, type, [x \in D |-> Row(0 - w[x], x, None)])
  BY DEF Draws
<1>13. D \subseteq DOMAIN led
  BY <1>1
<1>14. ASSUME NEW C, C = D, NEW v, v = w PROVE DOMAIN res # {}
  <2>1. C \subseteq DOMAIN led /\ C # {} /\ Portions(led, C, v)
    BY <1>10, <1>11, <1>13, <1>14
  <2>2. res = Numbered(led, kind, id, type, [x \in C |-> Row(0 - v[x], x, None)])
    BY <1>12, <1>14
  <2> HIDE DEF D, w, L, cnt
  <2>3. QED BY <2>1, <2>2, DrawRows
<1>15. QED BY <1>14

\* Redemptions given back, each to its lot and once.
Undoing(res, led, kind, id) ==
  /\ \A k \in DOMAIN res : k[3] = "REDEEM" =>
       /\ res[k].of \in Originals(led, kind, id) /\ res[k].of[3] = "REDEEM"
       /\ led[res[k].of].pts = 0 - res[k].pts
  /\ \A j, k \in DOMAIN res : j[3] = "REDEEM" /\ k[3] = "REDEEM" /\ res[j].of = res[k].of => j = k
  /\ \A x \in Originals(led, kind, id) : x[3] = "REDEEM" => \E k \in DOMAIN res : k[3] = "REDEEM" /\ res[k].of = x

\* The rows that give redemptions back.
LEMMA RestoredAre ==
  ASSUME NEW led, Book(led), NEW kind, NEW id, DocKey(kind, id, "REDEEM"),
         NEW res, res = Restored(led, kind, id)
  PROVE  /\ DocRows(res, led, kind, id) /\ Gives(res) /\ Undoing(res, led, kind, id)
         /\ \A k \in DOMAIN res : k[3] = "REDEEM"
<1> DEFINE D == {k \in Originals(led, kind, id) : k[3] = "REDEEM"}
           new == [k \in D |-> Row(0 - led[k].pts, led[k].lot, k)]
<1>1. D \subseteq DOMAIN led /\ IsFiniteSet(D) /\ D \subseteq Key /\ IsFiniteSet(DOMAIN led) /\ DOMAIN led \subseteq Key
  <2>1. D \subseteq DOMAIN led
    BY DEF Originals
  <2>2. QED BY <2>1, BookRows, FS_Subset DEF Book
<1>2. DOMAIN new = D /\ IsFiniteSet(DOMAIN new) /\ DOMAIN new \subseteq Key
  BY <1>1
<1>3. res = Numbered(led, kind, id, "REDEEM", new)
  BY DEF Restored
<1>4. \A x \in D : new[x] = Row(0 - led[x].pts, led[x].lot, x)
  OBVIOUS
<1> HIDE DEF new
<1>5. Placed(res, led, kind, id, "REDEEM", new)
  BY <1>1, <1>2, <1>3, NumberedIs
<1>6. /\ \A k \in DOMAIN res : k \in Key /\ k[1] = kind /\ k[2] = id /\ k[3] = "REDEEM"
      /\ Apart(res, led) /\ IsFiniteSet(DOMAIN res)
  BY <1>5 DEF Placed
<1>7. \A x, y \in D : x # y => Older(x, y) \/ Older(y, x)
  <2> SUFFICES ASSUME NEW x \in D, NEW y \in D, x # y PROVE Older(x, y) \/ Older(y, x)
    OBVIOUS
  <2>1. x[1] = y[1] /\ x[2] = y[2] /\ x[3] = y[3] /\ x \in Key /\ y \in Key
    BY <1>1 DEF Originals
  <2>2. x[4] # y[4] /\ x[4] \in Nat /\ y[4] \in Nat
    BY <2>1 DEF Key
  <2>3. QED BY <2>1, <2>2 DEF Older
<1>8. PICK at : Copies(res, at, new) /\ \A x \in D : \E k \in DOMAIN res : at[k] = x
  <2> HIDE DEF D
  <2>1. QED BY <1>2, <1>5, <1>7 DEF Placed
<1>9. \A k \in DOMAIN res : /\ at[k] \in D /\ res[k] = Row(0 - led[at[k]].pts, led[at[k]].lot, at[k])
  BY <1>2, <1>4, <1>8 DEF Copies
<1>10. \A j, k \in DOMAIN res : at[j] = at[k] => j = k
  BY <1>8 DEF Copies
<1>11. ASSUME NEW k \in DOMAIN res
       PROVE  /\ at[k] \in D /\ res[k].pts = 0 - led[at[k]].pts /\ res[k].lot = led[at[k]].lot
              /\ res[k].of = at[k] /\ res[k].used = 0
  <2>1. at[k] \in D /\ res[k] = Row(0 - led[at[k]].pts, led[at[k]].lot, at[k])
    BY <1>9
  <2> HIDE DEF D
  <2>2. QED BY <2>1 DEF Row
<1>12. \A x \in D : x \in DOMAIN led /\ x \in Key /\ x[1] = kind /\ x[2] = id /\ x[3] = "REDEEM" /\ led[x].of = None
  BY <1>1 DEF Originals
<1>13. ASSUME NEW x \in D
       PROVE  /\ led[x].pts \in Int /\ led[x].pts < 0 /\ led[x].lot \in Key \cup {None}
              /\ led[x].lot # None => LotKey(led[x].lot) /\ led[x].lot \in DOMAIN led
  <2>1. Proper(x, led[x]) /\ x[3] = "REDEEM" /\ led[x].of = None /\ x \in DOMAIN led
    BY <1>12 DEF Book
  <2>2. led[x].pts \in Int /\ led[x].pts < 0 /\ led[x].lot \in Key \cup {None} /\ (led[x].lot # None => LotKey(led[x].lot))
    BY <2>1 DEF Proper, LedgerRow
  <2>3. led[x].lot # None => led[x].lot \in DOMAIN led
    BY <2>1, NoRowsIs DEF Book, Names
  <2>4. QED BY <2>2, <2>3
<1> HIDE DEF D
<1>14. ASSUME NEW k \in DOMAIN res
       PROVE  /\ Proper(k, res[k]) /\ res[k].used = 0 /\ res[k].pts > 0
              /\ (res[k].lot # None => res[k].lot \in DOMAIN led) /\ res[k].of \in DOMAIN led
  <2> DEFINE x == at[k]
             p == led[x].pts
             t == led[x].lot
  <2>1. x \in D /\ res[k].pts = 0 - p /\ res[k].lot = t /\ res[k].of = x /\ res[k].used = 0
    BY <1>11
  <2>2. x \in DOMAIN led /\ x \in Key /\ x[1] = kind /\ x[2] = id /\ x[3] = "REDEEM"
    BY <1>12, <2>1
  <2>3. p \in Int /\ p < 0 /\ t \in Key \cup {None} /\ (t # None => LotKey(t) /\ t \in DOMAIN led)
    BY <1>13, <2>1
  <2>4. x # None
    BY <2>2, RequestAssumption
  <2>5. k \in Key /\ k[1] = kind /\ k[2] = id /\ k[3] = "REDEEM"
    BY <1>6
  <2>6. res[k] = Row(0 - p, t, x)
    BY <1>9
  <2> HIDE DEF x, p, t
  <2>7. res[k] \in LedgerRow
    BY <2>2, <2>3, <2>6 DEF Row, LedgerRow
  <2>8. res[k].pts \in Int /\ res[k].pts > 0
    BY <2>1, <2>3
  <2>9. Proper(k, res[k])
    BY <2>1, <2>2, <2>3, <2>4, <2>5, <2>7, <2>8 DEF Proper
  <2>10. QED BY <2>1, <2>2, <2>3, <2>8, <2>9
<1>15. Adds(res, led)
  BY <1>6, <1>14 DEF Adds, Names
<1>16. DocRows(res, led, kind, id)
  BY <1>6, <1>14, <1>15 DEF DocRows
<1>17. Gives(res)
  BY <1>14 DEF Gives
<1>18. Undoing(res, led, kind, id)
  <2>1. \A k \in DOMAIN res : res[k].of = at[k] /\ at[k] \in D /\ led[at[k]].pts \in Int /\ res[k].pts = 0 - led[at[k]].pts
    BY <1>11, <1>13
  <2>2. \A k \in DOMAIN res : led[res[k].of].pts = 0 - res[k].pts
    BY <2>1
  <2>3. \A k \in DOMAIN res : res[k].of \in Originals(led, kind, id) /\ res[k].of[3] = "REDEEM"
    BY <2>1 DEF D
  <2>4. \A j, k \in DOMAIN res : res[j].of = res[k].of => j = k
    BY <1>10, <2>1
  <2>5. \A x \in Originals(led, kind, id) : x[3] = "REDEEM" => \E k \in DOMAIN res : k[3] = "REDEEM" /\ res[k].of = x
    <3> SUFFICES ASSUME NEW x \in Originals(led, kind, id), x[3] = "REDEEM" PROVE \E k \in DOMAIN res : k[3] = "REDEEM" /\ res[k].of = x
      OBVIOUS
    <3>1. x \in D
      BY DEF D
    <3>2. PICK k \in DOMAIN res : at[k] = x
      BY <1>8, <3>1
    <3>3. QED BY <1>6, <2>1, <3>2
  <2>6. QED BY <2>2, <2>3, <2>4, <2>5 DEF Undoing
<1>19. QED BY <1>6, <1>16, <1>17, <1>18

\* Rows that name no lot.
Lotless(new) == \A k \in DOMAIN new : new[k].lot = None

\* An award taken back is a row that names no lot.
LEMMA UnearnedAre ==
  ASSUME NEW led, Book(led), NEW kind, NEW id, DocKey(kind, id, "EARN"),
         NEW res, res = Unearned(led, kind, id)
  PROVE  /\ DocRows(res, led, kind, id) /\ Lotless(res)
         /\ \A k \in DOMAIN res : k[3] = "EARN"
<1> DEFINE take(k) == Min({led[k].pts, Balance(led, k)})
           D == {k \in Originals(led, kind, id) : k[3] = "EARN" /\ take(k) > 0}
           new == [k \in D |-> Row(0 - take(k), None, k)]
<1>1. D \subseteq DOMAIN led /\ IsFiniteSet(D) /\ D \subseteq Key /\ IsFiniteSet(DOMAIN led) /\ DOMAIN led \subseteq Key
  <2>1. D \subseteq DOMAIN led
    BY DEF Originals
  <2>2. QED BY <2>1, BookRows, FS_Subset DEF Book
<1>2. DOMAIN new = D /\ IsFiniteSet(DOMAIN new) /\ DOMAIN new \subseteq Key
  BY <1>1
<1>3. res = Numbered(led, kind, id, "EARN", new)
  BY DEF Unearned
<1>4. \A x \in D : new[x] = Row(0 - take(x), None, x)
  OBVIOUS
<1>5. \A x \in D : x \in DOMAIN led /\ x \in Key /\ x[1] = kind /\ x[2] = id /\ x[3] = "EARN" /\ take(x) > 0
  BY <1>1 DEF Originals
<1>6. ASSUME NEW x \in D PROVE take(x) \in Int
  <2>1. led[x].pts \in Int
    BY <1>1 DEF Book, Proper, LedgerRow
  <2>2. Balance(led, x) \in Int
    BY <1>1, BalanceInt
  <2>3. QED BY <2>1, <2>2, MinIs
<1> HIDE DEF new, D, take
<1>7. Placed(res, led, kind, id, "EARN", new)
  BY <1>1, <1>2, <1>3, NumberedIs
<1>8. /\ \A k \in DOMAIN res : k \in Key /\ k[1] = kind /\ k[2] = id /\ k[3] = "EARN"
      /\ Apart(res, led) /\ IsFiniteSet(DOMAIN res)
  BY <1>7 DEF Placed
<1>9. PICK at : Copies(res, at, new)
  BY <1>7 DEF Placed
<1>10. \A k \in DOMAIN res : at[k] \in D /\ res[k] = Row(0 - take(at[k]), None, at[k])
  BY <1>2, <1>4, <1>9 DEF Copies
<1>11. ASSUME NEW k \in DOMAIN res
       PROVE  /\ Proper(k, res[k]) /\ res[k].used = 0 /\ res[k].lot = None /\ res[k].of \in DOMAIN led
  <2> DEFINE x == at[k]
             p == take(x)
  <2>1. x \in D /\ res[k] = Row(0 - p, None, x)
    BY <1>10
  <2>2. x \in DOMAIN led /\ x \in Key /\ x[1] = kind /\ x[2] = id /\ x[3] = "EARN" /\ p \in Int /\ p > 0
    BY <1>5, <1>6, <2>1
  <2>3. x # None
    BY <2>2, RequestAssumption
  <2>4. k \in Key /\ k[1] = kind /\ k[2] = id /\ k[3] = "EARN"
    BY <1>8
  <2> HIDE DEF x, p
  <2>5. /\ res[k] \in LedgerRow /\ res[k].pts = 0 - p /\ res[k].lot = None /\ res[k].of = x /\ res[k].used = 0
    BY <2>1, <2>2 DEF Row, LedgerRow
  <2>6. res[k].pts < 0 /\ res[k].pts # 0 /\ ~(res[k].pts > 0)
    BY <2>2, <2>5
  <2>7. Proper(k, res[k])
    BY <2>2, <2>3, <2>4, <2>5, <2>6 DEF Proper
  <2>8. QED BY <2>2, <2>5, <2>7
<1>12. Adds(res, led)
  BY <1>8, <1>11 DEF Adds, Names
<1>13. QED BY <1>8, <1>11, <1>12 DEF DocRows, Lotless

\* Rows that name no lot draw nothing.
LEMMA LotlessIs ==
  ASSUME NEW new, Lotless(new)
  PROVE  Gives(new) /\ \A lot : lot # None => OnLot(new, lot) = {} /\ Drawn(new, lot) = 0
<1>1. \A lot : lot # None => OnLot(new, lot) = {}
  BY DEF Lotless, OnLot
<1>2. \A lot : OnLot(new, lot) = {} => Drawn(new, lot) = 0
  BY Untouched
<1>3. QED BY <1>1, <1>2 DEF Gives, Lotless

\* A row of a book is not None.
LEMMA RowSome ==
  ASSUME NEW led, Book(led)
  PROVE  None \notin DOMAIN led
  BY BookRows, RequestAssumption

\* Nothing is drawn from the lots a document leaves alone.
LEMMA LotlessAffords ==
  ASSUME NEW led, Book(led), NEW new, Lotless(new)
  PROVE  Affords(new, led)
<1>1. \A lot \in DOMAIN led : Drawn(new, lot) = 0
  BY LotlessIs, RowSome
<1>2. QED BY <1>1 DEF Affords

\* Rows of two kinds of one document.
LEMMA TwoRows ==
  ASSUME NEW led, NEW kind, NEW id, NEW a, NEW b, DocRows(a, led, kind, id), DocRows(b, led, kind, id), Apart(a, b)
  PROVE  /\ DocRows(Over(a, b), led, kind, id)
         /\ Gives(a) /\ Gives(b) => Gives(Over(a, b))
         /\ Book(led) /\ Lotless(b) /\ Affords(a, led) => Affords(Over(a, b), led)
<1> DEFINE two == Over(a, b)
<1>1. /\ DOMAIN two = DOMAIN a \cup DOMAIN b
      /\ (\A k \in DOMAIN a : two[k] = a[k]) /\ \A k \in DOMAIN b : two[k] = b[k]
  BY DEF Over, Apart
<1> HIDE DEF two
<1>2. IsFiniteSet(DOMAIN two)
  BY <1>1, FS_Union DEF DocRows, Adds
<1>3. Apart(two, led) /\ Names(two, led)
  BY <1>1 DEF DocRows, Adds, Apart, Names
<1>4. Adds(two, led)
  BY <1>1, <1>2, <1>3 DEF DocRows, Adds
<1>5. DocRows(two, led, kind, id)
  BY <1>1, <1>4 DEF DocRows
<1>6. Gives(a) /\ Gives(b) => Gives(two)
  BY <1>1 DEF Gives
<1>7. ASSUME Book(led), Lotless(b), Affords(a, led) PROVE Affords(two, led)
  <2> SUFFICES ASSUME NEW lot \in DOMAIN led PROVE Drawn(two, lot) = Drawn(a, lot)
    BY <1>7 DEF Affords
  <2>1. lot # None
    BY <1>7, RowSome
  <2>2. OnLot(b, lot) = {}
    BY <1>7, <2>1, LotlessIs
  <2>3. OnLot(two, lot) = OnLot(a, lot)
    BY <1>1, <2>2 DEF OnLot
  <2>4. \A k \in OnLot(a, lot) : two[k].pts = a[k].pts
    BY <1>1 DEF OnLot
  <2>5. Points(two, OnLot(a, lot)) = Points(a, OnLot(a, lot))
    BY <2>4, PointsSame
  <2>6. QED BY <2>3, <2>5 DEF Drawn
<1>8. QED BY <1>5, <1>6, <1>7 DEF two

\* One row that names no lot.
LEMMA OneRow ==
  ASSUME NEW led, NEW key, key \in Key, key \notin DOMAIN led, key[3] \in {"EARN", "ADJUST"},
         NEW p, p \in Int, p # 0, key[3] = "EARN" => p > 0,
         NEW res, res = [k \in {key} |-> Row(p, None, None)]
  PROVE  DocRows(res, led, key[1], key[2]) /\ Lotless(res) /\ DOMAIN res = {key}
<1>1. DOMAIN res = {key} /\ res[key].pts = p /\ res[key].lot = None /\ res[key].of = None /\ res[key].used = 0
  BY DEF Row
<1>2. res[key] \in LedgerRow
  BY DEF Row, LedgerRow
<1>3. Proper(key, res[key])
  BY <1>1, <1>2 DEF Proper
<1>4. IsFiniteSet(DOMAIN res)
  BY <1>1, FS_Singleton
<1>5. Adds(res, led)
  BY <1>1, <1>3, <1>4 DEF Adds, Apart, Names
<1>6. QED BY <1>1, <1>5 DEF DocRows, Lotless

-----------------------------------------------------------------------------
(* The calls of a transaction. *)

\* The calls that award points, that redeem them, and that reverse.
Awarding == {<<"earn">>, <<"redeem", "earn">>, <<"reverse", "earn">>, <<"reverse", "redeem", "earn">>}
Redeeming == {<<"redeem">>, <<"redeem", "earn">>, <<"reverse", "redeem">>, <<"reverse", "redeem", "earn">>}
Reversing == {<<"reverse">>, <<"reverse", "redeem">>, <<"reverse", "earn">>, <<"reverse", "redeem", "earn">>}

\* The calls left to each operation.
Calls(op) ==
  CASE op = "post" -> {<<>>, <<"earn">>, <<"redeem">>, <<"redeem", "earn">>}
    [] op = "amend" -> {<<>>, <<"earn">>, <<"redeem">>, <<"redeem", "earn">>} \cup Reversing
    [] op \in {"cancel", "unreturn"} -> {<<>>, <<"reverse">>}
    [] op = "retender" -> {<<>>, <<"unredeem">>}
    [] op = "return" -> {<<>>, <<"clawback">>, <<"claw">>}
    [] op = "adjust" -> {<<>>, <<"give">>, <<"takeBack">>}
    [] op = "close" -> {<<>>, <<"drain">>}
    [] OTHER -> {<<>>, <<"hold">>}

\* One call.
LEMMA OneCall == ASSUME NEW a PROVE Head(<<a>>) = a /\ Tail(<<a>>) = <<>>
  OBVIOUS

\* Two.
LEMMA TwoCalls == ASSUME NEW a, NEW b PROVE Head(<<a, b>>) = a /\ Tail(<<a, b>>) = <<b>>
  OBVIOUS

\* Three.
LEMMA ThreeCalls == ASSUME NEW a, NEW b, NEW c PROVE Head(<<a, b, c>>) = a /\ Tail(<<a, b, c>>) = <<b, c>>
  OBVIOUS
\* Short sequences joined.
LEMMA Joined ==
  ASSUME NEW S, NEW s \in Seq(S), NEW t \in Seq(S), Len(s) = 1
  PROVE  /\ Len(t) = 1 => s \o t = <<s[1], t[1]>>
         /\ Len(t) = 2 => s \o t = <<s[1], t[1], t[2]>>
<1> DEFINE u == s \o t
<1>1. u \in Seq(S) /\ Len(u) = Len(s) + Len(t) /\ \A i \in 1..(Len(s) + Len(t)) : u[i] = IF i <= Len(s) THEN s[i] ELSE t[i - Len(s)]
  BY ConcatProperties
<1> HIDE DEF u
<1>2. Len(t) \in Nat
  BY LenProperties
<1>3. ASSUME Len(t) = 1 PROVE u = <<s[1], t[1]>>
  <2>1. Len(u) = 2 /\ u[1] = s[1] /\ u[2] = t[1]
    BY <1>1, <1>3
  <2>2. u = [i \in 1..2 |-> u[i]]
    BY <1>1, <2>1, LenProperties
  <2>3. QED BY <2>1, <2>2
<1>4. ASSUME Len(t) = 2 PROVE u = <<s[1], t[1], t[2]>>
  <2>1. Len(u) = 3 /\ u[1] = s[1] /\ u[2] = t[1] /\ u[3] = t[2]
    BY <1>1, <1>4
  <2>2. u = [i \in 1..3 |-> u[i]]
    BY <1>1, <2>1, LenProperties
  <2>3. QED BY <2>1, <2>2
<1>5. QED BY <1>3, <1>4 DEF u

\* The calls a sale is given.
LEMMA Concats ==
  ASSUME NEW a, NEW b, NEW c
  PROVE /\ <<a>> \o <<b>> = <<a, b>> /\ <<>> \o <<a>> = <<a>> /\ <<a>> \o <<>> = <<a>> /\ <<>> \o <<>> = <<>>
        /\ <<a>> \o <<b, c>> = <<a, b, c>>
<1>0. PICK S : <<>> \in Seq(S) /\ <<a>> \in Seq(S) /\ <<b>> \in Seq(S) /\ <<b, c>> \in Seq(S)
  <2>1. <<>> \in Seq({a, b, c}) /\ <<a>> \in Seq({a, b, c}) /\ <<b>> \in Seq({a, b, c}) /\ <<b, c>> \in Seq({a, b, c})
    OBVIOUS
  <2>2. QED BY <2>1
<1>1. ASSUME NEW s, s = <<a>>, NEW t, t = <<b>>, NEW u, u = <<b, c>>
      PROVE  s \o t = <<a, b>> /\ s \o u = <<a, b, c>>
  <2>1. Len(s) = 1 /\ Len(t) = 1 /\ Len(u) = 2 /\ s[1] = a /\ t[1] = b /\ u[1] = b /\ u[2] = c
    BY <1>1
  <2>2. s \in Seq(S) /\ t \in Seq(S) /\ u \in Seq(S)
    BY <1>0, <1>1
  <2>3. s \o t = <<s[1], t[1]>> /\ s \o u = <<s[1], u[1], u[2]>>
    BY <2>1, <2>2, Joined
  <2>4. QED BY <2>1, <2>3
<1>2. <<a>> \o <<b>> = <<a, b>> /\ <<a>> \o <<b, c>> = <<a, b, c>>
  BY <1>1
<1>3. <<>> \o <<a>> = <<a>> /\ <<a>> \o <<>> = <<a>> /\ <<>> \o <<>> = <<>>
  BY <1>0, ConcatEmptySeq
<1>4. QED BY <1>2, <1>3

\* The calls left after the first.
LEMMA Shorter ==
  /\ Head(<<"claw">>) = "claw" /\ Tail(<<"claw">>) = <<>>
  /\ Head(<<"drain">>) = "drain" /\ Tail(<<"drain">>) = <<>>
  /\ Head(<<"earn">>) = "earn" /\ Tail(<<"earn">>) = <<>>
  /\ Head(<<"give">>) = "give" /\ Tail(<<"give">>) = <<>>
  /\ Head(<<"hold">>) = "hold" /\ Tail(<<"hold">>) = <<>>
  /\ Head(<<"clawback">>) = "clawback" /\ Tail(<<"clawback">>) = <<>>
  /\ Head(<<"redeem">>) = "redeem" /\ Tail(<<"redeem">>) = <<>>
  /\ Head(<<"takeBack">>) = "takeBack" /\ Tail(<<"takeBack">>) = <<>>
  /\ Head(<<"unredeem">>) = "unredeem" /\ Tail(<<"unredeem">>) = <<>>
  /\ Head(<<"reverse">>) = "reverse" /\ Tail(<<"reverse">>) = <<>>
  /\ Head(<<"redeem", "earn">>) = "redeem" /\ Tail(<<"redeem", "earn">>) = <<"earn">>
  /\ Head(<<"reverse", "earn">>) = "reverse" /\ Tail(<<"reverse", "earn">>) = <<"earn">>
  /\ Head(<<"reverse", "redeem">>) = "reverse" /\ Tail(<<"reverse", "redeem">>) = <<"redeem">>
  /\ Head(<<"reverse", "redeem", "earn">>) = "reverse" /\ Tail(<<"reverse", "redeem", "earn">>) = <<"redeem", "earn">>
  BY OneCall, TwoCalls, ThreeCalls

\* A call done leaves calls of the same operation.
LEMMA CallsLeft ==
  ASSUME NEW op \in Ops, NEW js, js \in Calls(op), js # <<>>
  PROVE  /\ Tail(js) \in Calls(op)
         /\ Head(js) # "clawback" \/ js = <<"clawback">>
         /\ Tail(js) \in Awarding => js \in Awarding
         /\ Tail(js) \in Redeeming => js \in Redeeming
         /\ Tail(js) # <<"give">> /\ Tail(js) # <<"clawback">>
         /\ Tail(js) # <<>> => Head(Tail(js)) # "clawback"
<1> DEFINE Goal == 
         /\ Tail(js) \in Calls(op)
         /\ Head(js) # "clawback" \/ js = <<"clawback">>
         /\ Tail(js) \in Awarding => js \in Awarding
         /\ Tail(js) \in Redeeming => js \in Redeeming
         /\ Tail(js) # <<"give">> /\ Tail(js) # <<"clawback">>
         /\ Tail(js) # <<>> => Head(Tail(js)) # "clawback"
<1>1. ASSUME js = <<"claw">> PROVE Goal
  BY <1>1, Shorter DEF Calls, Awarding, Redeeming, Reversing, Ops
<1>2. ASSUME js = <<"drain">> PROVE Goal
  BY <1>2, Shorter DEF Calls, Awarding, Redeeming, Reversing, Ops
<1>3. ASSUME js = <<"earn">> PROVE Goal
  BY <1>3, Shorter DEF Calls, Awarding, Redeeming, Reversing, Ops
<1>4. ASSUME js = <<"give">> PROVE Goal
  BY <1>4, Shorter DEF Calls, Awarding, Redeeming, Reversing, Ops
<1>5. ASSUME js = <<"hold">> PROVE Goal
  BY <1>5, Shorter DEF Calls, Awarding, Redeeming, Reversing, Ops
<1>6. ASSUME js = <<"clawback">> PROVE Goal
  BY <1>6, Shorter DEF Calls, Awarding, Redeeming, Reversing, Ops
<1>7. ASSUME js = <<"redeem">> PROVE Goal
  BY <1>7, Shorter DEF Calls, Awarding, Redeeming, Reversing, Ops
<1>8. ASSUME js = <<"takeBack">> PROVE Goal
  BY <1>8, Shorter DEF Calls, Awarding, Redeeming, Reversing, Ops
<1>9. ASSUME js = <<"unredeem">> PROVE Goal
  BY <1>9, Shorter DEF Calls, Awarding, Redeeming, Reversing, Ops
<1>10. ASSUME js = <<"reverse">> PROVE Goal
  BY <1>10, Shorter DEF Calls, Awarding, Redeeming, Reversing, Ops
<1>11. ASSUME js = <<"redeem", "earn">> PROVE Goal
  BY <1>11, Shorter DEF Calls, Awarding, Redeeming, Reversing, Ops
<1>12. ASSUME js = <<"reverse", "earn">> PROVE Goal
  BY <1>12, Shorter DEF Calls, Awarding, Redeeming, Reversing, Ops
<1>13. ASSUME js = <<"reverse", "redeem">> PROVE Goal
  BY <1>13, Shorter DEF Calls, Awarding, Redeeming, Reversing, Ops
<1>14. ASSUME js = <<"reverse", "redeem", "earn">> PROVE Goal
  BY <1>14, Shorter DEF Calls, Awarding, Redeeming, Reversing, Ops
<1>15. js \in {<<"claw">>, <<"drain">>, <<"earn">>, <<"give">>, <<"hold">>, <<"clawback">>, <<"redeem">>, <<"takeBack">>, <<"unredeem">>, <<"reverse">>, <<"redeem", "earn">>, <<"reverse", "earn">>, <<"reverse", "redeem">>, <<"reverse", "redeem", "earn">>}
  BY DEF Calls, Ops, Reversing
<1> HIDE DEF Goal
<1>16. Goal
  BY <1>1, <1>2, <1>3, <1>4, <1>5, <1>6, <1>7, <1>8, <1>9, <1>10, <1>11, <1>12, <1>13, <1>14, <1>15
<1>17. QED BY <1>16 DEF Goal

\* postCore's calls: the redemption the tenders asked for, then the award.
LEMMA PostJobsAre ==
  ASSUME NEW b \in Bill, NEW p \in Nat
  PROVE  /\ PostJobs(p, b) \in Calls("post") /\ PostJobs(p, b) \in Calls("amend")
         /\ <<"reverse">> \o PostJobs(p, b) \in Reversing
         /\ PostJobs(p, b) \in Awarding \/ <<"reverse">> \o PostJobs(p, b) \in Awarding => Earn[b] > 0
         /\ PostJobs(p, b) \in Redeeming \/ <<"reverse">> \o PostJobs(p, b) \in Redeeming => p > 0
<1>1. Earn[b] \in Nat
  BY PointsAssumption
<1>2. CASE p > 0 /\ Earn[b] > 0
  <2>1. PostJobs(p, b) = <<"redeem", "earn">>
    BY <1>2, Concats DEF PostJobs
  <2>2. <<"reverse">> \o <<"redeem", "earn">> = <<"reverse", "redeem", "earn">>
    BY Concats
  <2>3. QED BY <1>2, <2>1, <2>2 DEF Calls, Reversing, Awarding, Redeeming
<1>3. CASE p > 0 /\ ~(Earn[b] > 0)
  <2>1. PostJobs(p, b) = <<"redeem">>
    BY <1>3, Concats DEF PostJobs
  <2>2. <<"reverse">> \o <<"redeem">> = <<"reverse", "redeem">>
    BY Concats
  <2>3. QED BY <1>3, <2>1, <2>2 DEF Calls, Reversing, Awarding, Redeeming
<1>4. CASE ~(p > 0) /\ Earn[b] > 0
  <2>1. PostJobs(p, b) = <<"earn">>
    BY <1>4, Concats DEF PostJobs
  <2>2. <<"reverse">> \o <<"earn">> = <<"reverse", "earn">>
    BY Concats
  <2>3. QED BY <1>4, <2>1, <2>2 DEF Calls, Reversing, Awarding, Redeeming
<1>5. CASE ~(p > 0) /\ ~(Earn[b] > 0)
  <2>1. PostJobs(p, b) = <<>>
    BY <1>5, Concats DEF PostJobs
  <2>2. <<"reverse">> \o <<>> = <<"reverse">>
    BY Concats
  <2>3. QED BY <1>5, <2>1, <2>2 DEF Calls, Reversing, Awarding, Redeeming
<1>6. QED BY <1>2, <1>3, <1>4, <1>5

\* The document of a request.
Document(a, last) ==
  /\ a.op \in {"post", "amend", "cancel", "retender"} => a.kind = "bill" /\ a.id \in Bill
  /\ a.op \in {"return", "unreturn"} => a.kind = "ret" /\ a.id \in Bill
  /\ a.op \in {"adjust", "close"} => a.kind = "adj" /\ a.id \in 1..last
  /\ a.op = "reopen" => a.kind = "adj" /\ a.id = 0

\* What a request asks for, and the calls it has left.
Asks(step, js, a, last) ==
  /\ a.op \in Ops /\ a.pts \in Int /\ Document(a, last) /\ js \in Calls(a.op)
  /\ js \in Awarding => Earn[a.id] > 0
  /\ js \in Redeeming => a.pts > 0
  /\ js = <<"give">> => a.pts > 0
  /\ step = "look" <=> js = <<"clawback">>
  /\ step = "commit" <=> js = <<>>

\* Whose the first call is.
LEMMA CallsFirst ==
  ASSUME NEW op \in Ops, NEW js, js \in Calls(op), js # <<>>
  PROVE  /\ Head(js) \in {"redeem", "earn", "reverse", "unredeem", "clawback", "claw", "give", "takeBack", "drain", "hold"}
         /\ Head(js) = "redeem" => js \in Redeeming /\ op \in {"post", "amend"}
         /\ Head(js) = "earn" => js \in Awarding /\ op \in {"post", "amend"}
         /\ Head(js) = "reverse" => op \in {"amend", "cancel", "unreturn"}
         /\ Head(js) = "clawback" => js = <<"clawback">>
         /\ Head(js) = "give" => js = <<"give">> /\ op = "adjust"
         /\ Head(js) = "takeBack" => op = "adjust"
         /\ Head(js) = "drain" => op = "close"
         /\ op \in {"adjust", "close"} => Head(js) \in {"give", "takeBack", "drain"}
         /\ op = "cancel" => Head(js) = "reverse"
         /\ op \notin {"post", "amend"} => Tail(js) = <<>>
<1> DEFINE Goal ==
         /\ Head(js) \in {"redeem", "earn", "reverse", "unredeem", "clawback", "claw", "give", "takeBack", "drain", "hold"}
         /\ Head(js) = "redeem" => js \in Redeeming /\ op \in {"post", "amend"}
         /\ Head(js) = "earn" => js \in Awarding /\ op \in {"post", "amend"}
         /\ Head(js) = "reverse" => op \in {"amend", "cancel", "unreturn"}
         /\ Head(js) = "clawback" => js = <<"clawback">>
         /\ Head(js) = "give" => js = <<"give">> /\ op = "adjust"
         /\ Head(js) = "takeBack" => op = "adjust"
         /\ Head(js) = "drain" => op = "close"
         /\ op \in {"adjust", "close"} => Head(js) \in {"give", "takeBack", "drain"}
         /\ op = "cancel" => Head(js) = "reverse"
         /\ op \notin {"post", "amend"} => Tail(js) = <<>>
<1>1. ASSUME js = <<"claw">> PROVE Goal
  BY <1>1, Shorter DEF Calls, Awarding, Redeeming, Reversing, Ops
<1>2. ASSUME js = <<"drain">> PROVE Goal
  BY <1>2, Shorter DEF Calls, Awarding, Redeeming, Reversing, Ops
<1>3. ASSUME js = <<"earn">> PROVE Goal
  BY <1>3, Shorter DEF Calls, Awarding, Redeeming, Reversing, Ops
<1>4. ASSUME js = <<"give">> PROVE Goal
  BY <1>4, Shorter DEF Calls, Awarding, Redeeming, Reversing, Ops
<1>5. ASSUME js = <<"hold">> PROVE Goal
  BY <1>5, Shorter DEF Calls, Awarding, Redeeming, Reversing, Ops
<1>6. ASSUME js = <<"clawback">> PROVE Goal
  BY <1>6, Shorter DEF Calls, Awarding, Redeeming, Reversing, Ops
<1>7. ASSUME js = <<"redeem">> PROVE Goal
  BY <1>7, Shorter DEF Calls, Awarding, Redeeming, Reversing, Ops
<1>8. ASSUME js = <<"takeBack">> PROVE Goal
  BY <1>8, Shorter DEF Calls, Awarding, Redeeming, Reversing, Ops
<1>9. ASSUME js = <<"unredeem">> PROVE Goal
  BY <1>9, Shorter DEF Calls, Awarding, Redeeming, Reversing, Ops
<1>10. ASSUME js = <<"reverse">> PROVE Goal
  BY <1>10, Shorter DEF Calls, Awarding, Redeeming, Reversing, Ops
<1>11. ASSUME js = <<"redeem", "earn">> PROVE Goal
  BY <1>11, Shorter DEF Calls, Awarding, Redeeming, Reversing, Ops
<1>12. ASSUME js = <<"reverse", "earn">> PROVE Goal
  BY <1>12, Shorter DEF Calls, Awarding, Redeeming, Reversing, Ops
<1>13. ASSUME js = <<"reverse", "redeem">> PROVE Goal
  BY <1>13, Shorter DEF Calls, Awarding, Redeeming, Reversing, Ops
<1>14. ASSUME js = <<"reverse", "redeem", "earn">> PROVE Goal
  BY <1>14, Shorter DEF Calls, Awarding, Redeeming, Reversing, Ops
<1>15. js \in {<<"claw">>, <<"drain">>, <<"earn">>, <<"give">>, <<"hold">>, <<"clawback">>, <<"redeem">>, <<"takeBack">>, <<"unredeem">>, <<"reverse">>, <<"redeem", "earn">>, <<"reverse", "earn">>, <<"reverse", "redeem">>, <<"reverse", "redeem", "earn">>}
  BY DEF Calls, Ops, Reversing
<1> HIDE DEF Goal
<1>16. Goal
  BY <1>1, <1>2, <1>3, <1>4, <1>5, <1>6, <1>7, <1>8, <1>9, <1>10, <1>11, <1>12, <1>13, <1>14, <1>15
<1>17. QED BY <1>16 DEF Goal


\* The rows of a document.
Owned(rows_, a) == \A k \in DOMAIN rows_ : k[1] = a.kind /\ k[2] = a.id
Fresh(led, a) == \A k \in DOMAIN led : ~(k[1] = a.kind /\ k[2] = a.id)

\* The lots drained, and what is left over.
LEMMA DrainedAre ==
  ASSUME NEW led, Book(led), NEW id, id \in Nat, NEW bal, bal \in Int,
         \A k \in DOMAIN led : ~(k[1] = "adj" /\ k[2] = id),
         NEW res, res = Drained(led, bal, id)
  PROVE  /\ DocRows(res, led, "adj", id) /\ Affords(res, led)
         /\ \A k \in DOMAIN res : k[3] = "ADJUST"
<1> DEFINE D == OpenLots(led)
           w == [k \in D |-> Balance(led, k)]
           rest == bal - BalanceOf(led, D)
           last == <<"adj", id, "ADJUST", Cardinality(D) + 1>>
           new == [k \in D |-> Row(0 - w[k], k, None)]
           a == Numbered(led, "adj", id, "ADJUST", new)
           b == [k \in IF rest = 0 THEN {} ELSE {last} |-> Row(0 - rest, None, None)]
<1>1. D \subseteq DOMAIN led /\ IsFiniteSet(D) /\ D \subseteq Key /\ IsFiniteSet(DOMAIN led) /\ DOMAIN led \subseteq Key
  <2>1. D \subseteq DOMAIN led
    BY DEF OpenLots
  <2>2. QED BY <2>1, BookRows, FS_Subset DEF Book
<1>2. res = Over(a, b)
  <2>1. new = [k \in D |-> Row(0 - Balance(led, k), k, None)]
    OBVIOUS
  <2>2. QED BY <2>1 DEF Drained
<1>3. Portions(led, D, w)
  <2>1. \A k \in D : Balance(led, k) \in Int
    BY <1>1, BalanceInt
  <2>2. \A k \in D : IsLot(led, k) /\ Balance(led, k) > 0
    BY DEF OpenLots
  <2>3. QED BY <2>1, <2>2 DEF Portions
<1>4. DocKey("adj", id, "ADJUST")
  BY DEF DocKey
<1>5. DOMAIN new = D /\ IsFiniteSet(DOMAIN new) /\ DOMAIN new \subseteq Key
  BY <1>1
<1>6. rest \in Int
  <2>1. BalanceOf(led, D) \in Int
    BY <1>1, BalanceInt
  <2>2. QED BY <2>1
<1>7. Cardinality(D) \in Nat
  BY <1>1, FS_CardinalityType
<1>8. last \in Key /\ last[1] = "adj" /\ last[2] = id /\ last[3] = "ADJUST" /\ last[4] = Cardinality(D) + 1
  BY <1>7 DEF Key
<1>9. LastNo(led, "adj", id, "ADJUST") = 0
  BY <1>1, LastNoIs
<1>10. b = NoRows \/ (b = [k \in {last} |-> Row(0 - rest, None, None)] /\ rest # 0)
  <2>1. CASE rest = 0
    <3>1. b = [k \in {} |-> Row(0 - rest, None, None)]
      BY <2>1
    <3>2. [k \in {} |-> Row(0 - rest, None, None)] = [k \in {} |-> 0]
      OBVIOUS
    <3>3. b = NoRows
      BY <3>1, <3>2 DEF NoRows
    <3>4. QED BY <3>3
  <2>2. CASE rest # 0
    BY <2>2
  <2>3. QED BY <2>1, <2>2
<1> HIDE DEF last, rest, b
<1>11. DocRows(a, led, "adj", id) /\ Affords(a, led)
  <2>1. a = Numbered(led, "adj", id, "ADJUST", [k \in D |-> Row(0 - w[k], k, None)])
    OBVIOUS
  <2> HIDE DEF a, w, D
  <2>2. QED BY <1>1, <1>3, <1>4, <2>1, DrawRows
<1>12. Placed(a, led, "adj", id, "ADJUST", new)
  <2>1. a = Numbered(led, "adj", id, "ADJUST", new)
    OBVIOUS
  <2> HIDE DEF a, new, D
  <2>2. QED BY <1>1, <1>4, <1>5, <2>1, NumberedIs
<1>13. \A k \in DOMAIN a : k[4] <= Cardinality(D) /\ k[3] = "ADJUST" /\ k \in Key
  <2> HIDE DEF a, new, D
  <2>1. \A k \in DOMAIN a : k[4] <= 0 + Cardinality(DOMAIN new) /\ k[3] = "ADJUST" /\ k \in Key
    BY <1>9, <1>12 DEF Placed
  <2>2. QED BY <1>5, <1>7, <2>1
<1> HIDE DEF a, new, D, w
<1>14. /\ DocRows(b, led, "adj", id) /\ Lotless(b)
       /\ \A k \in DOMAIN b : k = last
  <2>1. CASE b = NoRows
    <3>1. DOMAIN b = {}
      BY <2>1, NoRowsIs
    <3>2. QED BY <3>1, FS_EmptySet DEF DocRows, Adds, Apart, Names, Lotless
  <2>2. CASE b = [k \in {last} |-> Row(0 - rest, None, None)] /\ rest # 0
    <3>1. last \notin DOMAIN led
      BY <1>8
    <3>2. 0 - rest \in Int /\ 0 - rest # 0
      BY <1>6, <2>2
    <3>3. DocRows(b, led, last[1], last[2]) /\ Lotless(b) /\ DOMAIN b = {last}
      BY <1>8, <2>2, <3>1, <3>2, OneRow
    <3>4. QED BY <1>8, <3>3
  <2>3. QED BY <1>10, <2>1, <2>2
<1>15. Apart(a, b)
  <2> SUFFICES ASSUME NEW k \in DOMAIN a, k = last PROVE FALSE
    BY <1>14 DEF Apart
  <2>1. k[4] <= Cardinality(D) /\ k[4] = Cardinality(D) + 1
    BY <1>8, <1>13
  <2>2. QED BY <1>7, <2>1
<1>16. DocRows(Over(a, b), led, "adj", id) /\ Affords(Over(a, b), led)
  BY <1>11, <1>14, <1>15, TwoRows
<1>17. DOMAIN Over(a, b) = DOMAIN a \cup DOMAIN b
  BY OverIs
<1>18. QED BY <1>2, <1>8, <1>13, <1>14, <1>16, <1>17

\* reverseForCancel: awards and redemptions.
LEMMA ReversalIs ==
  ASSUME NEW led, Book(led), NEW kind, NEW id, DocKey(kind, id, "EARN"),
         NEW res, res = Reversal(led, kind, id)
  PROVE  DocRows(res, led, kind, id) /\ Gives(res) /\ Undoing(res, led, kind, id)
<1> DEFINE a == Unearned(led, kind, id)
           b == Restored(led, kind, id)
<1>1. DocKey(kind, id, "REDEEM")
  BY DEF DocKey
<1>2. res = Over(a, b)
  BY DEF Reversal
<1>3. DocRows(a, led, kind, id) /\ Lotless(a) /\ \A k \in DOMAIN a : k[3] = "EARN"
  BY UnearnedAre
<1>4. DocRows(b, led, kind, id) /\ Gives(b) /\ Undoing(b, led, kind, id) /\ \A k \in DOMAIN b : k[3] = "REDEEM"
  BY <1>1, RestoredAre
<1> HIDE DEF a, b
<1>5. Apart(a, b)
  <2>1. \A k : ~(k[3] = "EARN" /\ k[3] = "REDEEM")
    OBVIOUS
  <2>2. QED BY <1>3, <1>4, <2>1 DEF Apart
<1>6. DocRows(Over(a, b), led, kind, id) /\ Gives(Over(a, b))
  BY <1>3, <1>4, <1>5, TwoRows, LotlessIs
<1>7. /\ DOMAIN res = DOMAIN a \cup DOMAIN b /\ \A k \in DOMAIN b : res[k] = b[k]
      /\ \A k \in DOMAIN res : k[3] = "REDEEM" => k \in DOMAIN b
  <2>1. \A k \in DOMAIN a : k[3] # "REDEEM"
    BY <1>3
  <2>2. QED BY <1>2, <1>5, <2>1 DEF Over, Apart
<1>8. Undoing(res, led, kind, id)
  BY <1>4, <1>7 DEF Undoing
<1>9. QED BY <1>2, <1>6, <1>8

\* Rows that only give ask nothing of a lot.
LEMMA GivesAffords ==
  ASSUME NEW led, Book(led), NEW new, Rows(new), Gives(new)
  PROVE  Affords(new, led)
<1>1. ASSUME NEW lot \in DOMAIN led PROVE Drawn(new, lot) <= 0
  <2>1. lot # None
    BY RowSome
  <2>2. \A k \in OnLot(new, lot) : new[k].pts > 0
    BY <2>1 DEF Gives, OnLot
  <2>3. QED BY <2>2, GiveBack
<1>2. QED BY <1>1 DEF Affords

\* Whatever of the rows reverses a redemption gives back what it took, once.
Returns(res, led, kind, id) ==
  /\ \A k \in DOMAIN res : k[3] = "REDEEM" /\ res[k].of # None =>
       /\ res[k].of \in Originals(led, kind, id) /\ res[k].of[3] = "REDEEM"
       /\ led[res[k].of].pts = 0 - res[k].pts
  /\ \A j, k \in DOMAIN res :
       j[3] = "REDEEM" /\ k[3] = "REDEEM" /\ res[j].of # None /\ res[j].of = res[k].of => j = k

\* Rows that reverse nothing, and rows of another type.
LEMMA ReturnsNone ==
  ASSUME NEW led, NEW kind, NEW id, NEW res,
         (\A k \in DOMAIN res : res[k].of = None) \/ (\A k \in DOMAIN res : k[3] # "REDEEM")
  PROVE  Returns(res, led, kind, id)
  BY DEF Returns

\* The rows of a call that draws.
LEMMA DrawPlan ==
  ASSUME NEW led, Book(led), NEW kind, NEW id, NEW type, DocKey(kind, id, type), type # "EARN",
         NEW points, points \in Int, NEW new, new = Draws(led, kind, id, type, points)
  PROVE  DocRows(new, led, kind, id) /\ Affords(new, led) /\ Returns(new, led, kind, id)
<1>1. DocRows(new, led, kind, id) /\ Affords(new, led) /\ \A k \in DOMAIN new : new[k].of = None
  BY DrawsAre
<1>2. QED BY <1>1, ReturnsNone

\* A row that gives points.
LEMMA GivePlan ==
  ASSUME NEW led, Book(led), NEW key, key \in Key, key \notin DOMAIN led, key[3] \in {"EARN", "ADJUST"},
         NEW p, p \in Int, p > 0, NEW new, new = [k \in {key} |-> Row(p, None, None)]
  PROVE  DocRows(new, led, key[1], key[2]) /\ Affords(new, led) /\ Gives(new) /\ Returns(new, led, key[1], key[2])
<1>0. p # 0
  OBVIOUS
<1>1. DocRows(new, led, key[1], key[2]) /\ Lotless(new) /\ DOMAIN new = {key}
  BY <1>0, OneRow
<1>2. \A k \in DOMAIN new : k[3] # "REDEEM"
  <2>1. key[3] # "REDEEM"
    OBVIOUS
  <2>2. QED BY <1>1, <2>1
<1>3. QED BY <1>1, <1>2, LotlessIs, LotlessAffords, ReturnsNone

\* No rows.
LEMMA NoPlan ==
  ASSUME NEW led, Book(led), NEW kind, NEW id
  PROVE  DocRows(NoRows, led, kind, id) /\ Affords(NoRows, led) /\ Gives(NoRows) /\ Returns(NoRows, led, kind, id)
<1>1. DOMAIN NoRows = {}
  BY NoRowsIs
<1>2. DocRows(NoRows, led, kind, id) /\ Lotless(NoRows)
  BY <1>1, FS_EmptySet DEF DocRows, Adds, Apart, Names, Lotless
<1>3. QED BY <1>1, <1>2, LotlessIs, LotlessAffords, ReturnsNone

\* What the rows of a call are good for.
Sound(new, led, a) == DocRows(new, led, a.kind, a.id) /\ Affords(new, led) /\ Returns(new, led, a.kind, a.id)

\* The document of a request has keys.
LEMMA DocKeys ==
  ASSUME NEW step, NEW js, NEW a, NEW last, last \in Nat, Asks(step, js, a, last)
  PROVE  /\ DocKey(a.kind, a.id, "EARN") /\ DocKey(a.kind, a.id, "REDEEM") /\ DocKey(a.kind, a.id, "EXPIRE")
         /\ DocKey(a.kind, a.id, "ADJUST") /\ a.id \in Nat
<1>1. a.op \in Ops /\ Document(a, last)
  BY DEF Asks
<1>2. \A b \in Bill : b \in Nat
  BY BillAssumption
<1>3. \A n \in 1..last : n \in Nat
  OBVIOUS
<1>4. a.kind \in {"bill", "ret", "adj"} /\ a.id \in Nat
  BY <1>1, <1>2, <1>3 DEF Document, Ops
<1>5. QED BY <1>4 DEF DocKey

\* The rows a call plans, whichever call it is.
LEMMA PlannedAre ==
  ASSUME NEW r \in Req, NEW led, Book(led), adjs \in Nat, Asks("plan", jobs[r], arg[r], adjs),
         jobs[r] # <<>>, SeenWallet(r) \in Int,
         arg[r].op \in {"adjust", "close"} => Fresh(led, arg[r])
  PROVE  /\ Sound(Planned(r, led), led, arg[r])
         /\ Head(jobs[r]) \notin Locking => Gives(Planned(r, led))
         /\ arg[r].op = "cancel" => Undoing(Planned(r, led), led, arg[r].kind, arg[r].id)
         /\ Head(jobs[r]) = "redeem" /\ ~Refused(r, led) => DOMAIN Planned(r, led) # {}
<1> DEFINE a == arg[r]
           h == Head(jobs[r])
           new == Planned(r, led)
<1>1. DocKey(a.kind, a.id, "EARN") /\ DocKey(a.kind, a.id, "REDEEM") /\ DocKey(a.kind, a.id, "EXPIRE") /\ DocKey(a.kind, a.id, "ADJUST") /\ a.id \in Nat
  BY DocKeys
<1>2. a.op \in Ops /\ a.pts \in Int /\ Document(a, adjs) /\ jobs[r] \in Calls(a.op)
  BY DEF Asks
<1>3. /\ h \in {"redeem", "earn", "reverse", "unredeem", "clawback", "claw", "give", "takeBack", "drain", "hold"}
      /\ h = "redeem" => jobs[r] \in Redeeming /\ a.op \in {"post", "amend"}
      /\ h = "earn" => jobs[r] \in Awarding /\ a.op \in {"post", "amend"}
      /\ h = "clawback" => jobs[r] = <<"clawback">>
      /\ h = "give" => jobs[r] = <<"give">> /\ a.op = "adjust"
      /\ h = "takeBack" => a.op = "adjust"
      /\ h = "drain" => a.op = "close"
      /\ a.op = "cancel" => h = "reverse"
  BY <1>2, CallsFirst
<1>4. h # "clawback"
  BY <1>3 DEF Asks
<1>5. CASE h = "redeem"
  <2>1. new = Draws(led, a.kind, a.id, "REDEEM", a.pts)
    BY <1>5 DEF Planned
  <2>2. a.pts > 0
    BY <1>3, <1>5 DEF Asks
  <2>3. ~Refused(r, led) => Redeemable(led) >= a.pts
    <3>1. Redeemable(led) \in Int
      <4>1. Lots(led) \in SUBSET DOMAIN led
        BY DEF Lots, OpenLots
      <4>2. QED BY <4>1, BalanceInt DEF Redeemable
    <3>2. QED BY <1>2, <1>5, <3>1 DEF Refused
  <2> HIDE DEF new, a
  <2>4. DocRows(new, led, a.kind, a.id) /\ Affords(new, led) /\ Returns(new, led, a.kind, a.id)
    BY <1>1, <1>2, <2>1, DrawPlan
  <2>5. ~Refused(r, led) => DOMAIN new # {}
    BY <1>1, <1>2, <2>1, <2>2, <2>3, DrawsSome
  <2>6. QED BY <1>3, <1>5, <2>4, <2>5 DEF a, new, Sound, Locking
<1>6. CASE h = "claw"
  <2>1. new = Draws(led, a.kind, a.id, "EXPIRE", a.pts)
    BY <1>6 DEF Planned
  <2> HIDE DEF new, a
  <2>2. DocRows(new, led, a.kind, a.id) /\ Affords(new, led) /\ Returns(new, led, a.kind, a.id)
    BY <1>1, <1>2, <2>1, DrawPlan
  <2>3. QED BY <1>3, <1>6, <2>2 DEF a, new, Sound, Locking
<1>7. CASE h = "takeBack"
  <2>1. new = Draws(led, a.kind, a.id, "ADJUST", 0 - a.pts)
    BY <1>7 DEF Planned
  <2>2. 0 - a.pts \in Int
    BY <1>2
  <2> HIDE DEF new, a
  <2>3. DocRows(new, led, a.kind, a.id) /\ Affords(new, led) /\ Returns(new, led, a.kind, a.id)
    BY <1>1, <2>1, <2>2, DrawPlan
  <2>4. QED BY <1>3, <1>7, <2>3 DEF a, new, Sound, Locking
<1>8. CASE h = "give"
  <2> DEFINE key == <<a.kind, a.id, "ADJUST", 1>>
  <2>1. new = [k \in {key} |-> Row(a.pts, None, None)]
    BY <1>8 DEF Planned
  <2>2. key \in Key /\ key[1] = a.kind /\ key[2] = a.id /\ key[3] = "ADJUST"
    BY <1>1 DEF DocKey, Key
  <2>3. key \notin DOMAIN led
    BY <1>3, <1>8, <2>2 DEF Fresh
  <2>4. a.pts > 0
    BY <1>3, <1>8 DEF Asks
  <2> HIDE DEF key, new
  <2>5. DocRows(new, led, key[1], key[2]) /\ Affords(new, led) /\ Gives(new) /\ Returns(new, led, key[1], key[2])
    BY <1>2, <2>1, <2>2, <2>3, <2>4, GivePlan
  <2>6. QED BY <1>3, <1>8, <2>2, <2>5 DEF new, Sound
<1>9. CASE h = "earn"
  <2> DEFINE n == LastNo(led, a.kind, a.id, "EARN")
             key == <<a.kind, a.id, "EARN", n + 1>>
  <2>1. new = [k \in {key} |-> Row(Earn[a.id], None, None)]
    BY <1>9 DEF Planned
  <2>2. n \in Nat /\ \A x \in DOMAIN led : x[1] = a.kind /\ x[2] = a.id /\ x[3] = "EARN" => x[4] <= n
    BY BookRows, LastNoIs DEF Book
  <2> HIDE DEF n
  <2>3. key \in Key /\ key[1] = a.kind /\ key[2] = a.id /\ key[3] = "EARN" /\ key[4] = n + 1
    BY <1>1, <2>2 DEF DocKey, Key
  <2>4. key \notin DOMAIN led
    <3> HIDE DEF key
    <3>1. QED BY <2>2, <2>3
  <2>5. Earn[a.id] \in Int /\ Earn[a.id] > 0
    <3>1. a.id \in Bill
      BY <1>2, <1>3, <1>9 DEF Document
    <3>2. Earn[a.id] \in Nat
      BY <3>1, PointsAssumption
    <3>3. Earn[a.id] > 0
      BY <1>3, <1>9 DEF Asks
    <3>4. QED BY <3>2, <3>3
  <2> HIDE DEF key, new
  <2>6. DocRows(new, led, key[1], key[2]) /\ Affords(new, led) /\ Gives(new) /\ Returns(new, led, key[1], key[2])
    BY <2>1, <2>3, <2>4, <2>5, GivePlan
  <2>7. QED BY <1>3, <1>9, <2>3, <2>6 DEF new, Sound
<1>10. CASE h = "reverse"
  <2>1. new = Reversal(led, a.kind, a.id)
    BY <1>10 DEF Planned
  <2> HIDE DEF new, a
  <2>2. DocRows(new, led, a.kind, a.id) /\ Gives(new) /\ Undoing(new, led, a.kind, a.id)
    BY <1>1, <2>1, ReversalIs
  <2>3. Affords(new, led)
    BY <2>2, AddsRows, GivesAffords DEF DocRows
  <2>4. Returns(new, led, a.kind, a.id)
    BY <2>2 DEF Undoing, Returns
  <2>5. QED BY <1>10, <2>2, <2>3, <2>4 DEF new, a, Sound
<1>11. CASE h = "unredeem"
  <2>1. new = Restored(led, a.kind, a.id)
    BY <1>11 DEF Planned
  <2> HIDE DEF new, a
  <2>2. DocRows(new, led, a.kind, a.id) /\ Gives(new) /\ Undoing(new, led, a.kind, a.id)
    BY <1>1, <2>1, RestoredAre
  <2>3. Affords(new, led)
    BY <2>2, AddsRows, GivesAffords DEF DocRows
  <2>4. Returns(new, led, a.kind, a.id)
    BY <2>2 DEF Undoing, Returns
  <2>5. QED BY <1>11, <2>2, <2>3, <2>4 DEF new, a, Sound
<1>12. CASE h = "drain"
  <2>1. a.op = "close" /\ a.kind = "adj"
    BY <1>2, <1>3, <1>12 DEF Document
  <2>2. CASE SeenWallet(r) = 0
    <3>1. new = NoRows
      BY <1>12, <2>2 DEF Planned
    <3>2. QED BY <1>12, <2>1, <3>1, NoPlan DEF Sound
  <2>3. CASE SeenWallet(r) # 0
    <3>1. new = Drained(led, SeenWallet(r), a.id)
      BY <1>12, <2>3 DEF Planned
    <3>2. \A k \in DOMAIN led : ~(k[1] = "adj" /\ k[2] = a.id)
      BY <2>1 DEF Fresh
    <3> HIDE DEF new, a
    <3>3. DocRows(new, led, "adj", a.id) /\ Affords(new, led) /\ \A k \in DOMAIN new : k[3] = "ADJUST"
      BY <1>1, <3>1, <3>2, DrainedAre
    <3>4. Returns(new, led, "adj", a.id)
      BY <3>3, ReturnsNone
    <3>5. QED BY <1>12, <2>1, <3>3, <3>4 DEF new, a, Sound, Locking
  <2>4. QED BY <2>2, <2>3
<1>13. CASE h = "hold"
  <2>1. new = NoRows
    BY <1>13 DEF Planned
  <2>2. QED BY <1>3, <1>13, <2>1, NoPlan DEF Sound
<1>14. QED BY <1>3, <1>4, <1>5, <1>6, <1>7, <1>8, <1>9, <1>10, <1>11, <1>12, <1>13

-----------------------------------------------------------------------------
(* Rows written, and the sums written over lots. *)

\* Sums that cover what own rows and the committed ones drew.
Covers(led, own, sums) ==
  /\ Sums(sums) /\ DOMAIN sums \subseteq DOMAIN Over(own, led)
  /\ \A lot \in DOMAIN Over(own, led) : LotKey(lot) =>
       /\ lot \in DOMAIN sums => Drawn(Over(own, led), lot) <= sums[lot]
       /\ lot \notin DOMAIN sums => OnLot(own, lot) = {}

\* A lot nothing of a book can name has nothing drawn from it.
LEMMA Unnamed ==
  ASSUME NEW led, Book(led), NEW lot, lot # None, lot \notin DOMAIN led
  PROVE  OnLot(led, lot) = {} /\ Drawn(led, lot) = 0
<1>1. OnLot(led, lot) = {}
  BY NoRowsIs DEF OnLot, Book, Names
<1>2. QED BY <1>1, Untouched

\* Rows planned from what a request sees may be added to what is there.
LEMMA SeenRows ==
  ASSUME NEW led, Book(led), NEW u, Sums(u), NEW new, NEW kind, NEW id, DocRows(new, Updated(led, u), kind, id)
  PROVE  DocRows(new, led, kind, id)
<1>1. DOMAIN Updated(led, u) = DOMAIN led
  BY UpdatedIs
<1>2. Adds(new, led)
  BY <1>1 DEF DocRows, Adds, Apart, Names
<1>3. QED BY <1>1, <1>2 DEF DocRows

\* What a request sees shows no lot with more left than it has.
LEMMA SureSeen ==
  ASSUME NEW led, Book(led), Sure(led), NEW own, Adds(own, led), NEW u, Covers(led, own, u)
  PROVE  Sure(Updated(Over(own, led), u))
<1> DEFINE all == Over(own, led)
           v == Updated(all, u)
<1>1. Book(all) /\ Sums(u)
  BY BookAdds DEF Covers
<1>2. DOMAIN v = DOMAIN all /\ \A lot \in DOMAIN all : v[lot].used = IF lot \in DOMAIN u THEN u[lot] ELSE all[lot].used
  <2> HIDE DEF all
  <2>1. QED BY <1>1, UpdatedIs
<1>3. \A lot : Drawn(v, lot) = Drawn(all, lot)
  <2> HIDE DEF all
  <2>1. QED BY <1>1, UpdatedAlike, AlikeSums
<1>4. \A lot : Drawn(all, lot) = Drawn(own, lot) + Drawn(led, lot)
  BY BookRows, AddsRows, LotSums
<1>5. \A lot : Drawn(own, lot) \in Int /\ Drawn(led, lot) \in Int
  BY BookRows, AddsRows, LotInts
<1>6. /\ DOMAIN all = DOMAIN own \cup DOMAIN led /\ (\A k \in DOMAIN own : all[k] = own[k])
      /\ \A k \in DOMAIN led : all[k] = led[k]
  BY OverIs DEF Adds, Apart
<1> HIDE DEF v
<1>7. ASSUME NEW lot \in DOMAIN all, LotKey(lot), lot \notin DOMAIN u PROVE Drawn(all, lot) <= all[lot].used
  <2>1. OnLot(own, lot) = {}
    BY <1>7 DEF Covers
  <2>2. Drawn(own, lot) = 0
    BY <2>1, Untouched
  <2>3. Drawn(all, lot) = Drawn(led, lot)
    BY <1>4, <1>5, <2>2
  <2>4. CASE lot \in DOMAIN led
    BY <1>6, <1>7, <2>3, <2>4 DEF Sure
  <2>5. CASE lot \notin DOMAIN led
    <3>1. lot # None
      BY <1>1, RowSome
    <3>2. Drawn(led, lot) = 0
      BY <2>5, <3>1, Unnamed
    <3>3. all[lot].used = 0
      BY <1>6, <2>5 DEF Adds
    <3>4. QED BY <2>3, <3>2, <3>3
  <2>6. QED BY <2>4, <2>5
<1>8. ASSUME NEW lot \in DOMAIN all, LotKey(lot), lot \in DOMAIN u PROVE Drawn(all, lot) <= u[lot]
  BY <1>8 DEF Covers
<1>9. \A lot \in DOMAIN v : LotKey(lot) => Drawn(v, lot) <= v[lot].used
  <2> SUFFICES ASSUME NEW lot \in DOMAIN all, LotKey(lot) PROVE Drawn(v, lot) <= v[lot].used
    BY <1>2
  <2> HIDE DEF all
  <2>1. CASE lot \in DOMAIN u
    BY <1>2, <1>3, <1>8, <2>1
  <2>2. CASE lot \notin DOMAIN u
    BY <1>2, <1>3, <1>7, <2>2
  <2>3. QED BY <2>1, <2>2
<1>10. Sure(v)
  BY <1>9 DEF Sure
<1>11. QED BY <1>10 DEF v

\* Draws planned from what is seen overdraw no lot.
LEMMA WithinPlan ==
  ASSUME NEW led, Book(led), Within(led), NEW u, Sums(u), Sure(Updated(led, u)),
         NEW new, NEW kind, NEW id, DocRows(new, led, kind, id), Affords(new, Updated(led, u))
  PROVE  Within(Over(new, led))
<1> DEFINE all == Over(new, led)
           v == Updated(led, u)
<1>1. /\ DOMAIN v = DOMAIN led
      /\ \A k \in DOMAIN led : v[k].pts = led[k].pts
  BY UpdatedIs
<1>2. \A lot : Drawn(v, lot) = Drawn(led, lot)
  BY UpdatedAlike, AlikeSums
<1>3. Book(v)
  BY UpdatedBook
<1>4. Sure(v) /\ Affords(new, v)
  OBVIOUS
<1> HIDE DEF v
<1>5. Adds(new, led)
  BY DEF DocRows
<1>6. \A lot : Drawn(all, lot) = Drawn(new, lot) + Drawn(led, lot) /\ Drawn(new, lot) \in Int /\ Drawn(led, lot) \in Int
  BY <1>5, BookRows, AddsRows, LotSums, LotInts
<1>7. /\ DOMAIN all = DOMAIN new \cup DOMAIN led /\ (\A k \in DOMAIN new : all[k] = new[k])
      /\ \A k \in DOMAIN led : all[k] = led[k]
  BY <1>5, OverIs DEF Adds, Apart
<1> HIDE DEF all
<1>8. ASSUME NEW lot \in DOMAIN led, IsLot(all, lot) PROVE Drawn(all, lot) <= all[lot].pts
  <2>1. IsLot(led, lot) /\ IsLot(v, lot) /\ LotKey(lot) /\ all[lot].pts = led[lot].pts /\ lot \in DOMAIN v
    BY <1>1, <1>7, <1>8 DEF IsLot, LotKey
  <2>2. Drawn(led, lot) <= v[lot].used
    BY <1>2, <1>4, <2>1 DEF Sure
  <2>3. Drawn(led, lot) <= led[lot].pts
    BY <2>1 DEF Within
  <2>4. Drawn(new, lot) <= 0 \/ Drawn(new, lot) <= v[lot].pts - v[lot].used
    BY <1>4, <2>1 DEF Affords, Balance
  <2>5. v[lot].pts \in Int /\ v[lot].used \in Int /\ v[lot].pts = led[lot].pts
    BY <1>1, <1>3, <2>1 DEF Book, Proper, LedgerRow
  <2>6. Drawn(all, lot) = Drawn(new, lot) + Drawn(led, lot) /\ Drawn(new, lot) \in Int /\ Drawn(led, lot) \in Int
    BY <1>6
  <2> DEFINE x == Drawn(new, lot)
             y == Drawn(led, lot)
             p == led[lot].pts
             q == v[lot].used
  <2>7. x \in Int /\ y \in Int /\ p \in Int /\ q \in Int /\ y <= q /\ y <= p /\ (x <= 0 \/ x <= p - q)
    BY <2>2, <2>3, <2>4, <2>5, <2>6
  <2>8. x + y <= p
    <3> HIDE DEF x, y, p, q
    <3>1. QED BY <2>7
  <2>9. QED BY <2>1, <2>6, <2>8
<1>9. ASSUME NEW lot \in DOMAIN new, lot \notin DOMAIN led, IsLot(all, lot) PROVE Drawn(all, lot) <= all[lot].pts
  <2>1. lot \in Key
    BY <1>5, AddsRows
  <2>2. lot # None
    BY <2>1, RequestAssumption
  <2>3. Drawn(led, lot) = 0
    BY <1>9, <2>2, Unnamed
  <2>4. OnLot(new, lot) = {}
    BY <1>9, <2>2 DEF DocRows, OnLot
  <2>5. Drawn(new, lot) = 0
    BY <2>4, Untouched
  <2>6. Drawn(all, lot) = 0
    BY <1>6, <2>3, <2>5
  <2>7. all[lot].pts \in Int /\ all[lot].pts > 0
    BY <1>5, <1>7, <1>9 DEF IsLot, Adds, Proper, LedgerRow
  <2>8. QED BY <2>6, <2>7
<1>10. Within(all)
  BY <1>7, <1>8, <1>9 DEF Within
<1>11. QED BY <1>10 DEF all

\* Rows that only give overdraw no lot either.
LEMMA WithinGives ==
  ASSUME NEW led, Book(led), Within(led), NEW own, Adds(own, led), Gives(own)
  PROVE  Within(Over(own, led))
<1> DEFINE all == Over(own, led)
<1>1. \A lot : Drawn(all, lot) = Drawn(own, lot) + Drawn(led, lot) /\ Drawn(own, lot) \in Int /\ Drawn(led, lot) \in Int
  BY BookRows, AddsRows, LotSums, LotInts
<1>2. /\ DOMAIN all = DOMAIN own \cup DOMAIN led /\ (\A k \in DOMAIN own : all[k] = own[k])
      /\ \A k \in DOMAIN led : all[k] = led[k]
  BY OverIs DEF Adds, Apart
<1>3. Book(all)
  BY BookAdds
<1> HIDE DEF all
<1>4. ASSUME NEW lot \in DOMAIN all PROVE lot # None /\ Drawn(own, lot) <= 0
  <2>1. lot # None
    BY <1>3, RowSome
  <2>2. \A k \in OnLot(own, lot) : own[k].pts > 0
    BY <2>1 DEF Gives, OnLot
  <2>3. QED BY <2>1, <2>2, AddsRows, GiveBack
<1>5. ASSUME NEW lot \in DOMAIN led, IsLot(all, lot) PROVE Drawn(all, lot) <= all[lot].pts
  <2>1. IsLot(led, lot) /\ all[lot].pts = led[lot].pts
    BY <1>2, <1>5 DEF IsLot
  <2>2. Drawn(led, lot) <= led[lot].pts
    BY <2>1 DEF Within
  <2>3. led[lot].pts \in Int
    BY DEF Book, Proper, LedgerRow
  <2>4. Drawn(own, lot) <= 0
    BY <1>2, <1>4
  <2>5. QED BY <1>1, <2>1, <2>2, <2>3, <2>4
<1>6. ASSUME NEW lot \in DOMAIN own, lot \notin DOMAIN led, IsLot(all, lot) PROVE Drawn(all, lot) <= all[lot].pts
  <2>1. Drawn(led, lot) = 0
    BY <1>2, <1>4, <1>6, Unnamed
  <2>2. all[lot].pts \in Int /\ all[lot].pts > 0
    BY <1>2, <1>3, <1>6 DEF IsLot, Book, Proper, LedgerRow
  <2>3. Drawn(own, lot) <= 0
    BY <1>2, <1>4
  <2>4. QED BY <1>1, <2>1, <2>2, <2>3
<1>7. Within(all)
  BY <1>2, <1>5, <1>6 DEF Within
<1>8. QED BY <1>7 DEF all

\* recomputeLots behind an insert: the sums cover the rows it wrote.
LEMMA InsertCovers ==
  ASSUME NEW led, Book(led), NEW own, Adds(own, led), NEW u, Covers(led, own, u),
         NEW new, NEW kind, NEW id, DocRows(new, Over(own, led), kind, id),
         NEW lots, lots = Touched(new) \ {None},
         NEW sums, sums = [k \in lots |-> Consumed(Over(Over(new, own), led), k)]
  PROVE  Covers(led, Over(new, own), Over(sums, u)) /\ Sums(sums)
<1> DEFINE old == Over(own, led)
           all == Over(Over(new, own), led)
           w == Over(sums, u)
<1>1. all = Over(new, old)
  BY OverOver
<1>2. Book(old) /\ Adds(new, old)
  BY BookAdds DEF DocRows
<1>3. Book(all)
  <2> HIDE DEF old, all
  <2>1. QED BY <1>1, <1>2, BookAdds
<1>4. /\ DOMAIN old = DOMAIN own \cup DOMAIN led /\ DOMAIN all = DOMAIN new \cup DOMAIN old
      /\ Apart(new, old)
  BY <1>1, <1>2, OverIs DEF Adds
<1>5. \A lot : Drawn(all, lot) = Drawn(new, lot) + Drawn(old, lot) /\ Drawn(new, lot) \in Int /\ Drawn(old, lot) \in Int
  <2> HIDE DEF old, all
  <2>1. Rows(new) /\ Rows(old)
    BY <1>2, BookRows, AddsRows
  <2>2. QED BY <1>1, <1>4, <2>1, LotSums, LotInts
<1>6. \A lot \in DOMAIN all : LotKey(lot) => Drawn(all, lot) <= Consumed(all, lot)
  <2> HIDE DEF all
  <2>1. DOMAIN all \subseteq Key
    BY <1>3, BookRows
  <2>2. QED BY <1>3, <2>1, ConsumedCovers
<1>7. \A lot : Consumed(all, lot) \in Int
  <2> HIDE DEF all
  <2>1. QED BY <1>3, BookRows, LotInts
<1>8. lots \subseteq DOMAIN all
  <2> SUFFICES ASSUME NEW lot \in lots PROVE lot \in DOMAIN all
    OBVIOUS
  <2>1. PICK k \in DOMAIN new : lot = new[k].lot \/ lot = new[k].of
    BY DEF Touched
  <2>2. lot # None
    OBVIOUS
  <2>3. new[k].lot # None => new[k].lot \in DOMAIN new \cup DOMAIN old
    BY <1>2 DEF Adds, Names
  <2>4. new[k].of # None => new[k].of \in DOMAIN new \cup DOMAIN old
    BY <1>2 DEF Adds, Names
  <2>5. QED BY <1>4, <2>1, <2>2, <2>3, <2>4
<1>9. \A lot : lot # None /\ lot \notin lots => OnLot(new, lot) = {}
  BY DEF OnLot, Touched
<1>10. /\ DOMAIN w = lots \cup DOMAIN u
       /\ \A lot \in lots : w[lot] = Consumed(all, lot)
       /\ \A lot \in DOMAIN u : lot \notin lots => w[lot] = u[lot]
  BY DEF Over
<1>11. Sums(sums) /\ Sums(w)
  <2>1. \A lot \in lots : sums[lot] = Consumed(all, lot)
    OBVIOUS
  <2>2. DOMAIN sums = lots
    OBVIOUS
  <2>3. Sums(u)
    BY DEF Covers
  <2> HIDE DEF w, all
  <2>4. QED BY <1>7, <1>10, <2>1, <2>2, <2>3 DEF Sums
<1>12. DOMAIN u \subseteq DOMAIN old
  BY DEF Covers
<1>13. None \notin DOMAIN all
  <2> HIDE DEF all
  <2>1. QED BY <1>3, RowSome
<1>14. \A lot \in DOMAIN old : LotKey(lot) =>
         /\ lot \in DOMAIN u => Drawn(old, lot) <= u[lot]
         /\ lot \notin DOMAIN u => OnLot(own, lot) = {}
  BY DEF Covers
<1> DEFINE mine_ == Over(new, own)
<1>15. \A lot : OnLot(new, lot) = {} /\ OnLot(own, lot) = {} => OnLot(mine_, lot) = {}
  BY DEF Over, OnLot
<1>16. ASSUME NEW lot \in DOMAIN all, LotKey(lot), lot \in DOMAIN w PROVE Drawn(all, lot) <= w[lot]
  <2>1. CASE lot \in lots
    BY <1>6, <1>10, <1>16, <2>1
  <2>2. CASE lot \notin lots
    <3>1. lot \in DOMAIN u /\ w[lot] = u[lot]
      BY <1>10, <1>16, <2>2
    <3>2. Drawn(old, lot) <= u[lot]
      BY <1>12, <1>14, <1>16, <3>1
    <3>3. OnLot(new, lot) = {}
      BY <1>9, <1>13, <2>2
    <3>4. Drawn(new, lot) = 0
      BY <3>3, Untouched
    <3>5. Drawn(all, lot) = Drawn(old, lot)
      BY <1>5, <3>4
    <3>6. QED BY <3>1, <3>2, <3>5
  <2>3. QED BY <2>1, <2>2
<1>17. ASSUME NEW lot \in DOMAIN all, LotKey(lot), lot \notin DOMAIN w PROVE OnLot(mine_, lot) = {}
  <2>1. lot \notin lots /\ lot \notin DOMAIN u
    BY <1>10, <1>17
  <2>2. OnLot(new, lot) = {}
    BY <1>9, <1>13, <2>1
  <2>3. CASE lot \in DOMAIN old
    BY <1>14, <1>15, <1>17, <2>1, <2>2, <2>3
  <2>4. CASE lot \notin DOMAIN old
    <3>1. OnLot(own, lot) = {}
      BY <1>4, <1>13, <2>4 DEF Adds, Names, OnLot
    <3>2. QED BY <1>15, <2>2, <3>1
  <2>5. QED BY <2>3, <2>4
<1>18. DOMAIN w \subseteq DOMAIN all
  BY <1>4, <1>8, <1>10, <1>12
<1> HIDE DEF w
<1>19. Covers(led, mine_, w)
  BY <1>11, <1>16, <1>17, <1>18 DEF Covers
<1>20. QED BY <1>11, <1>19 DEF w

\* The same sums cover the same rows.
LEMMA CoversSame ==
  ASSUME NEW led, NEW own, NEW u, NEW w, Covers(led, own, u), DOMAIN w = DOMAIN u, \A k \in DOMAIN u : w[k] = u[k]
  PROVE  Covers(led, own, w)
  BY DEF Covers, Sums

\* What another request commits leaves rows as good as they were.
LEMMA LaterAdds ==
  ASSUME NEW led, Book(led), NEW x, Adds(x, led), NEW v, Sums(v), NEW later, later = Updated(Over(x, led), v),
         NEW own, Adds(own, led), Apart(own, x)
  PROVE  Adds(own, later) /\ DOMAIN later = DOMAIN x \cup DOMAIN led
<1>1. DOMAIN later = DOMAIN x \cup DOMAIN led
  <2> DEFINE all == Over(x, led)
  <2>1. Book(all) /\ DOMAIN all = DOMAIN x \cup DOMAIN led /\ later = Updated(all, v)
    BY BookAdds, OverIs
  <2> HIDE DEF all
  <2>2. QED BY <2>1, UpdatedIs
<1>2. QED BY <1>1 DEF Adds, Apart, Names

\* And rows planned.
LEMMA LaterDoc ==
  ASSUME NEW led, NEW x, NEW later, DOMAIN later = DOMAIN x \cup DOMAIN led,
         NEW own, NEW new, NEW kind, NEW id, DocRows(new, Over(own, led), kind, id), Apart(new, x)
  PROVE  DocRows(new, Over(own, later), kind, id)
<1>1. DOMAIN Over(own, led) = DOMAIN own \cup DOMAIN led /\ DOMAIN Over(own, later) = DOMAIN own \cup DOMAIN later
  BY OverIs
<1>2. Adds(new, Over(own, later))
  BY <1>1 DEF DocRows, Adds, Apart, Names
<1>3. QED BY <1>1, <1>2 DEF DocRows

\* Points given back beside them only make the sums too high.
LEMMA LaterCovers ==
  ASSUME NEW led, Book(led), NEW x, Adds(x, led), Gives(x), NEW v, Sums(v),
         NEW later, later = Updated(Over(x, led), v),
         NEW own, Adds(own, led), Apart(own, x), NEW u, Covers(led, own, u)
  PROVE  Covers(later, own, u)
<1> DEFINE both == Over(x, led)
           old == Over(own, led)
           all == Over(own, later)
<1>1. Adds(own, later) /\ DOMAIN later = DOMAIN x \cup DOMAIN led
  BY LaterAdds
<1>2. Book(both) /\ Book(later)
  <2>1. Book(both)
    BY BookAdds
  <2> HIDE DEF both
  <2>2. later = Updated(both, v)
    BY DEF both
  <2>3. QED BY <2>1, <2>2, UpdatedBook
<1>3. \A lot : Drawn(later, lot) = Drawn(both, lot)
  <2> HIDE DEF both
  <2>1. later = Updated(both, v)
    BY DEF both
  <2>2. QED BY <1>2, <2>1, UpdatedAlike, AlikeSums
<1>4. Rows(x) /\ Rows(own) /\ Rows(led) /\ Rows(later)
  BY <1>2, BookRows, AddsRows
<1>5. \A lot : Drawn(both, lot) = Drawn(x, lot) + Drawn(led, lot)
  BY <1>4, AddsRows, LotSums
<1>6. \A lot : Drawn(old, lot) = Drawn(own, lot) + Drawn(led, lot)
  BY <1>4, AddsRows, LotSums
<1>7. \A lot : Drawn(all, lot) = Drawn(own, lot) + Drawn(later, lot)
  BY <1>1, <1>4, AddsRows, LotSums
<1>8. \A lot : Drawn(x, lot) \in Int /\ Drawn(own, lot) \in Int /\ Drawn(led, lot) \in Int
  BY <1>4, LotInts
<1>9. \A lot : lot # None => Drawn(x, lot) <= 0
  <2> SUFFICES ASSUME NEW lot, lot # None PROVE Drawn(x, lot) <= 0
    OBVIOUS
  <2>1. \A k \in OnLot(x, lot) : x[k].pts > 0
    BY DEF Gives, OnLot
  <2>2. QED BY <1>4, <2>1, GiveBack
<1>10. DOMAIN old = DOMAIN own \cup DOMAIN led /\ DOMAIN all = DOMAIN own \cup DOMAIN later
  BY OverIs
<1>11. None \notin DOMAIN all
  <2>1. Book(all)
    BY <1>1, <1>2, BookAdds
  <2> HIDE DEF all
  <2>2. QED BY <2>1, RowSome
<1> HIDE DEF all, old, both
<1>12. Sums(u) /\ DOMAIN u \subseteq DOMAIN old
  BY DEF Covers, old
<1>13. \A lot \in DOMAIN old : LotKey(lot) =>
         /\ lot \in DOMAIN u => Drawn(old, lot) <= u[lot]
         /\ lot \notin DOMAIN u => OnLot(own, lot) = {}
  BY DEF Covers, old
<1>14. ASSUME NEW lot \in DOMAIN all, LotKey(lot), lot \in DOMAIN u PROVE Drawn(all, lot) <= u[lot]
  <2>1. Drawn(old, lot) <= u[lot] /\ u[lot] \in Int
    BY <1>12, <1>13, <1>14 DEF Sums
  <2>2. Drawn(x, lot) <= 0
    BY <1>9, <1>11
  <2> DEFINE dx == Drawn(x, lot)
             do == Drawn(own, lot)
             dl == Drawn(led, lot)
             n == u[lot]
  <2>3. dx \in Int /\ do \in Int /\ dl \in Int /\ n \in Int /\ dx <= 0 /\ do + dl <= n
    BY <1>6, <1>8, <2>1, <2>2
  <2>4. Drawn(all, lot) = do + (dx + dl)
    BY <1>3, <1>5, <1>7
  <2>5. do + (dx + dl) <= n
    <3> HIDE DEF dx, do, dl, n
    <3>1. QED BY <2>3
  <2>6. QED BY <2>4, <2>5
<1>15. ASSUME NEW lot \in DOMAIN all, LotKey(lot), lot \notin DOMAIN u PROVE OnLot(own, lot) = {}
  <2>1. CASE lot \in DOMAIN old
    BY <1>13, <1>15, <2>1
  <2>2. CASE lot \notin DOMAIN old
    BY <1>10, <1>11, <2>2 DEF Adds, Names, OnLot
  <2>3. QED BY <2>1, <2>2
<1>16. DOMAIN u \subseteq DOMAIN all
  BY <1>1, <1>10, <1>12
<1>17. QED BY <1>12, <1>14, <1>15, <1>16 DEF Covers, all

\* Nothing written is covered by nothing.
LEMMA CoversNone ==
  ASSUME NEW led
  PROVE  Covers(led, NoRows, NoRows) /\ Adds(NoRows, led) /\ Gives(NoRows)
<1>1. DOMAIN NoRows = {}
  BY NoRowsIs
<1>2. QED BY <1>1, FS_EmptySet DEF Covers, Sums, OnLot, Adds, Apart, Names, Gives

-----------------------------------------------------------------------------
(* The invariant. *)

\* Everything has its type.
Kinds ==
  /\ pc \in [Req -> Pc] /\ DOMAIN jobs = Req /\ DOMAIN arg = Req /\ DOMAIN mine = Req
  /\ DOMAIN used = Req /\ DOMAIN memo = Req /\ purse \in [Req -> Int \cup {None}]
  /\ memLock \in Req \cup {None} /\ memShare \subseteq Req /\ memWrite \in Req \cup {None}
  /\ adjs \in 0..MaxAdjs /\ work \in Nat /\ wallet \in Int /\ closed \in BOOLEAN
  /\ bills \in [Bill -> {"NONE", "POSTED", "CANCELLED"}]
  /\ returns \in [Bill -> {"NONE", "POSTED", "CANCELLED"}]

\* Every transaction has the calls of its operation before it.
Asked == \A r \in Req : pc[r] # "idle" => Asks(pc[r], jobs[r], arg[r], adjs)

\* One request on a document at a time.
Alone ==
  \A r, s \in Req : r # s /\ pc[r] # "idle" /\ pc[s] # "idle" =>
    arg[r].kind # arg[s].kind \/ arg[r].id # arg[s].id

\* Rows are written under KEY SHARE on the wallet, and nobody shares it with
\* the holder of FOR UPDATE.
Locked ==
  /\ memLock # None => pc[memLock] # "idle" /\ memShare \subseteq {memLock}
  /\ \A r \in Req : r \in memShare => pc[r] # "idle"
  /\ \A r \in Req : r \notin memShare =>
       mine[r] = NoRows /\ used[r] = NoRows /\ purse[r] = None /\ pc[r] \notin {"setLots", "setWallet"}

\* The sums a request has written, or is about to.
Written(r) == IF pc[r] = "setLots" THEN Over(memo[r], used[r]) ELSE used[r]

\* The rows a request reads.
Led(r) == Over(mine[r], ledger)

\* The rows a request has written.
Holds(r) ==
  /\ Adds(mine[r], ledger) /\ Owned(mine[r], arg[r]) /\ Covers(ledger, mine[r], Written(r)) /\ Sums(used[r])
  /\ memLock # r => Gives(mine[r])
  /\ memLock = r => Within(Led(r))
  /\ pc[r] = "setWallet" => memo[r] \in Int

\* The rows it is about to write.
Plans(r) ==
  /\ DocRows(memo[r], Led(r), arg[r].kind, arg[r].id)
  /\ memLock # r => Gives(memo[r])
  /\ memLock = r => Within(Over(memo[r], Led(r)))

\* An adjustment or a close starts on a document without rows.
New(r) == mine[r] = NoRows /\ Fresh(ledger, arg[r])

Pending(r) ==
  /\ Holds(r)
  /\ pc[r] = "insert" => Plans(r)
  /\ arg[r].op \in {"adjust", "close"} /\ pc[r] \in {"plan", "insert"} => New(r)

\* The committed rows, and what every transaction has written.
BookInv ==
  /\ Book(ledger) /\ Sure(ledger) /\ Within(ledger)
  /\ \A k \in DOMAIN ledger : k[1] = "adj" => k[2] <= adjs
  /\ \A r \in Req : pc[r] # "idle" => Pending(r)

IInv == Kinds /\ Asked /\ Alone /\ Locked /\ BookInv

\* A step of r leaves the transactions of the others, and what locks they hold.
Beside(r) ==
  /\ DOMAIN jobs' = Req /\ DOMAIN arg' = Req /\ DOMAIN mine' = Req /\ DOMAIN used' = Req /\ DOMAIN memo' = Req
  /\ \A s \in Req : s # r =>
       /\ pc'[s] = pc[s] /\ jobs'[s] = jobs[s] /\ arg'[s] = arg[s] /\ mine'[s] = mine[s]
       /\ used'[s] = used[s] /\ memo'[s] = memo[s] /\ purse'[s] = purse[s]
       /\ memLock' = s <=> memLock = s
       /\ s \in memShare' <=> s \in memShare
  /\ adjs \in Nat /\ adjs' \in Nat /\ adjs' >= adjs

\* Where the calls of an operation begin.
LEMMA StartIs ==
  ASSUME NEW op \in Ops, NEW js, js \in Calls(op)
  PROVE  /\ Start(js) \in {"plan", "look", "commit"}
         /\ Start(js) = "look" <=> js = <<"clawback">>
         /\ Start(js) = "commit" <=> js = <<>>
<1>1. CASE js = <<>>
  <2>1. <<>> # <<"clawback">>
    OBVIOUS
  <2>2. QED BY <1>1, <2>1 DEF Start
<1>2. CASE js # <<>>
  <2>1. Head(js) = "clawback" <=> js = <<"clawback">>
    BY <1>2, CallsFirst, OneCall
  <2>2. QED BY <1>2, <2>1 DEF Start
<1>3. QED BY <1>1, <1>2

\* What an arrival brings.
Arrived(r) ==
  /\ pc[r] = "idle" /\ pc'[r] \in {"plan", "look", "commit"}
  /\ Asks(pc'[r], jobs'[r], arg'[r], adjs') /\ Free(arg'[r].kind, arg'[r].id)
  /\ work < MaxWork \/ arg'[r].op = "reopen"
  /\ arg'[r].op \in {"adjust", "close"} => arg'[r].id > adjs
  /\ arg'[r].op = "post" => bills[arg'[r].id] = "NONE"
  /\ arg'[r].op \in {"cancel", "amend", "retender"} => bills[arg'[r].id] = "POSTED"
  /\ arg'[r].op = "cancel" => pc'[r] = "plan"
  /\ adjs' \in 0..MaxAdjs
  /\ UNCHANGED <<ledger, wallet, closed, bills, work, returns, locks, mine, used, memo, purse>>

\* The transaction of an arrival.
LEMMA ArriveIs ==
  ASSUME Kinds, NEW r \in Req, NEW op, NEW kind, NEW id, NEW pts, NEW calls, Arrive(r, op, kind, id, pts, calls)
  PROVE  /\ pc[r] = "idle" /\ pc'[r] = Start(calls) /\ jobs'[r] = calls
         /\ arg'[r].op = op /\ arg'[r].kind = kind /\ arg'[r].id = id /\ arg'[r].pts = pts
         /\ Free(kind, id) /\ (work < MaxWork \/ op = "reopen") /\ op \in Op
         /\ UNCHANGED <<locks, mine, used, memo, purse>>
         /\ DOMAIN jobs' = Req /\ DOMAIN arg' = Req
         /\ \A s \in Req : s # r => pc'[s] = pc[s] /\ jobs'[s] = jobs[s] /\ arg'[s] = arg[s]
         /\ Start(calls) \in Pc => pc' \in [Req -> Pc]
<1>1. arg'[r] = [op |-> op, kind |-> kind, id |-> id, pts |-> pts]
  BY DEF Kinds, Arrive
<1>2. QED BY <1>1 DEF Kinds, Arrive

\* It asks for what its operation asks for.
LEMMA Admitted ==
  ASSUME Kinds, NEW r \in Req, NEW op, NEW kind, NEW id, NEW pts, NEW calls, Arrive(r, op, kind, id, pts, calls),
         pts \in Int, calls \in Calls(op), adjs' \in Nat, adjs' >= adjs,
         op \in {"post", "amend", "cancel", "retender"} => kind = "bill" /\ id \in Bill,
         op \in {"return", "unreturn"} => kind = "ret" /\ id \in Bill,
         op \in {"adjust", "close"} => kind = "adj" /\ id \in 1..adjs',
         op = "reopen" => kind = "adj" /\ id = 0,
         calls \in Awarding => Earn[id] > 0, calls \in Redeeming => pts > 0, calls = <<"give">> => pts > 0
  PROVE  /\ pc[r] = "idle" /\ pc'[r] \in {"plan", "look", "commit"} /\ pc' \in [Req -> Pc] /\ Beside(r)
         /\ Asks(pc'[r], jobs'[r], arg'[r], adjs') /\ Free(arg'[r].kind, arg'[r].id)
         /\ work < MaxWork \/ arg'[r].op = "reopen"
         /\ arg'[r].op = op /\ arg'[r].id = id /\ jobs'[r] = calls
         /\ UNCHANGED <<locks, mine, used, memo, purse>>
<1>1. /\ pc[r] = "idle" /\ pc'[r] = Start(calls) /\ jobs'[r] = calls
      /\ arg'[r].op = op /\ arg'[r].kind = kind /\ arg'[r].id = id /\ arg'[r].pts = pts
      /\ Free(kind, id) /\ (work < MaxWork \/ op = "reopen") /\ op \in Op
      /\ UNCHANGED <<locks, mine, used, memo, purse>>
      /\ DOMAIN jobs' = Req /\ DOMAIN arg' = Req
      /\ \A s \in Req : s # r => pc'[s] = pc[s] /\ jobs'[s] = jobs[s] /\ arg'[s] = arg[s]
      /\ Start(calls) \in Pc => pc' \in [Req -> Pc]
  BY ArriveIs
<1>2. op \in Ops
  BY <1>1, OpAssumption
<1>3. /\ Start(calls) \in {"plan", "look", "commit"}
      /\ Start(calls) = "look" <=> calls = <<"clawback">>
      /\ Start(calls) = "commit" <=> calls = <<>>
  BY <1>2, StartIs
<1>4. Document(arg'[r], adjs')
  BY <1>1 DEF Document
<1>5. Asks(pc'[r], jobs'[r], arg'[r], adjs')
  BY <1>1, <1>2, <1>3, <1>4 DEF Asks
<1>6. Beside(r)
  BY <1>1 DEF Beside, Kinds, locks
<1>7. Start(calls) \in Pc
  BY <1>3 DEF Pc
<1>8. QED BY <1>1, <1>3, <1>5, <1>6, <1>7

\* Every arrival.
LEMMA ArrivalIs ==
  ASSUME Kinds, NEW r \in Req, Arrival(r)
  PROVE  Arrived(r) /\ Beside(r) /\ pc' \in [Req -> Pc]
<1>0. adjs \in Nat /\ MaxAdjs \in Nat /\ adjs \in 0..MaxAdjs
  BY BoundAssumption DEF Kinds
<1>1. ASSUME NEW b \in Bill, NEW p \in Spend[b], PostRequest(r, b, p)
      PROVE  Arrived(r) /\ Beside(r) /\ pc' \in [Req -> Pc]
  <2>1. p \in Nat
    BY PointsAssumption
  <2>2. bills[b] = "NONE" /\ Arrive(r, "post", "bill", b, p, PostJobs(p, b)) /\ UNCHANGED rows
    BY <1>1 DEF PostRequest
  <2>3. /\ PostJobs(p, b) \in Calls("post") /\ (PostJobs(p, b) \in Awarding => Earn[b] > 0)
        /\ (PostJobs(p, b) \in Redeeming => p > 0) /\ PostJobs(p, b) # <<"give">>
    <3>1. PostJobs(p, b) \in Calls("post")
      BY <2>1, PostJobsAre
    <3>2. \A j : j \in Calls("post") => j # <<"give">>
      BY DEF Calls
    <3>3. QED BY <2>1, <3>1, <3>2, PostJobsAre
  <2>4. p \in Int /\ adjs' = adjs
    BY <2>1, <2>2 DEF rows
  <2>5. /\ pc[r] = "idle" /\ pc'[r] \in {"plan", "look", "commit"} /\ pc' \in [Req -> Pc] /\ Beside(r)
        /\ Asks(pc'[r], jobs'[r], arg'[r], adjs') /\ Free(arg'[r].kind, arg'[r].id)
        /\ (work < MaxWork \/ arg'[r].op = "reopen") /\ arg'[r].op = "post" /\ arg'[r].id = b
        /\ UNCHANGED <<locks, mine, used, memo, purse>>
    BY <1>0, <2>2, <2>3, <2>4, Admitted
  <2>6. QED BY <1>0, <2>2, <2>4, <2>5 DEF Arrived, rows
<1>2. ASSUME NEW b \in Bill, NEW p \in Spend[b], AmendRequest(r, b, p)
      PROVE  Arrived(r) /\ Beside(r) /\ pc' \in [Req -> Pc]
  <2> DEFINE js == <<"reverse">> \o PostJobs(p, b)
  <2>1. p \in Nat
    BY PointsAssumption
  <2>2. bills[b] = "POSTED" /\ Arrive(r, "amend", "bill", b, p, js) /\ UNCHANGED rows
    BY <1>2 DEF AmendRequest, Unwindable
  <2>3. js \in Calls("amend") /\ (js \in Awarding => Earn[b] > 0) /\ (js \in Redeeming => p > 0) /\ js # <<"give">>
    <3>1. js \in Reversing /\ (js \in Awarding => Earn[b] > 0) /\ (js \in Redeeming => p > 0)
      BY <2>1, PostJobsAre
    <3> HIDE DEF js
    <3>2. js \in Calls("amend") /\ js # <<"give">>
      BY <3>1 DEF Calls, Reversing
    <3>3. QED BY <3>1, <3>2
  <2> HIDE DEF js
  <2>4. p \in Int /\ adjs' = adjs
    BY <2>1, <2>2 DEF rows
  <2>5. /\ pc[r] = "idle" /\ pc'[r] \in {"plan", "look", "commit"} /\ pc' \in [Req -> Pc] /\ Beside(r)
        /\ Asks(pc'[r], jobs'[r], arg'[r], adjs') /\ Free(arg'[r].kind, arg'[r].id)
        /\ (work < MaxWork \/ arg'[r].op = "reopen") /\ arg'[r].op = "amend" /\ arg'[r].id = b
        /\ UNCHANGED <<locks, mine, used, memo, purse>>
    BY <1>0, <2>2, <2>3, <2>4, Admitted
  <2>6. QED BY <1>0, <2>2, <2>4, <2>5 DEF Arrived, rows
<1>3. ASSUME NEW b \in Bill, CancelRequest(r, b)
      PROVE  Arrived(r) /\ Beside(r) /\ pc' \in [Req -> Pc]
  <2> DEFINE js == <<"reverse">>
  <2>1. bills[b] = "POSTED" /\ Arrive(r, "cancel", "bill", b, 0, js) /\ UNCHANGED rows
    BY <1>3 DEF CancelRequest, Unwindable
  <2>2. /\ js \in Calls("cancel") /\ js \notin Awarding /\ js \notin Redeeming /\ js # <<"give">>
        /\ js # <<>> /\ js # <<"clawback">>
    BY DEF Calls, Awarding, Redeeming
  <2> HIDE DEF js
  <2>3. 0 \in Int /\ adjs' = adjs
    BY <2>1 DEF rows
  <2>4. /\ pc[r] = "idle" /\ pc'[r] \in {"plan", "look", "commit"} /\ pc' \in [Req -> Pc] /\ Beside(r)
        /\ Asks(pc'[r], jobs'[r], arg'[r], adjs') /\ Free(arg'[r].kind, arg'[r].id)
        /\ (work < MaxWork \/ arg'[r].op = "reopen") /\ arg'[r].op = "cancel" /\ arg'[r].id = b /\ jobs'[r] = js
        /\ UNCHANGED <<locks, mine, used, memo, purse>>
    BY <1>0, <2>1, <2>2, <2>3, Admitted
  <2>5. pc'[r] = "plan"
    BY <2>2, <2>4 DEF Asks
  <2>6. QED BY <1>0, <2>1, <2>3, <2>4, <2>5 DEF Arrived, rows
<1>4. ASSUME NEW b \in Bill, RetenderRequest(r, b)
      PROVE  Arrived(r) /\ Beside(r) /\ pc' \in [Req -> Pc]
  <2> DEFINE js == <<"unredeem">>
  <2>1. bills[b] = "POSTED" /\ Arrive(r, "retender", "bill", b, 0, js) /\ UNCHANGED rows
    BY <1>4 DEF RetenderRequest
  <2>2. js \in Calls("retender") /\ js \notin Awarding /\ js \notin Redeeming /\ js # <<"give">>
    BY DEF Calls, Awarding, Redeeming
  <2> HIDE DEF js
  <2>3. 0 \in Int /\ adjs' = adjs
    BY <2>1 DEF rows
  <2>4. /\ pc[r] = "idle" /\ pc'[r] \in {"plan", "look", "commit"} /\ pc' \in [Req -> Pc] /\ Beside(r)
        /\ Asks(pc'[r], jobs'[r], arg'[r], adjs') /\ Free(arg'[r].kind, arg'[r].id)
        /\ (work < MaxWork \/ arg'[r].op = "reopen") /\ arg'[r].op = "retender" /\ arg'[r].id = b
        /\ UNCHANGED <<locks, mine, used, memo, purse>>
    BY <1>0, <2>1, <2>2, <2>3, Admitted
  <2>5. QED BY <1>0, <2>1, <2>3, <2>4 DEF Arrived, rows
<1>5. ASSUME NEW b \in Bill, NEW want \in 1..Earn[b], Arrive(r, "return", "ret", b, want, <<"clawback">>), UNCHANGED rows
      PROVE  Arrived(r) /\ Beside(r) /\ pc' \in [Req -> Pc]
  <2> DEFINE js == <<"clawback">>
  <2>1. Arrive(r, "return", "ret", b, want, js) /\ UNCHANGED rows
    BY <1>5
  <2>2. js \in Calls("return") /\ js \notin Awarding /\ js \notin Redeeming /\ js # <<"give">>
    BY DEF Calls, Awarding, Redeeming
  <2> HIDE DEF js
  <2>3. want \in Int /\ adjs' = adjs
    BY <2>1 DEF rows
  <2>4. /\ pc[r] = "idle" /\ pc'[r] \in {"plan", "look", "commit"} /\ pc' \in [Req -> Pc] /\ Beside(r)
        /\ Asks(pc'[r], jobs'[r], arg'[r], adjs') /\ Free(arg'[r].kind, arg'[r].id)
        /\ (work < MaxWork \/ arg'[r].op = "reopen") /\ arg'[r].op = "return" /\ arg'[r].id = b
        /\ UNCHANGED <<locks, mine, used, memo, purse>>
    BY <1>0, <2>1, <2>2, <2>3, Admitted
  <2>5. QED BY <1>0, <2>1, <2>3, <2>4 DEF Arrived, rows
<1>6. ASSUME NEW b \in Bill, UnreturnRequest(r, b)
      PROVE  Arrived(r) /\ Beside(r) /\ pc' \in [Req -> Pc]
  <2> DEFINE js == <<"reverse">>
  <2>1. Arrive(r, "unreturn", "ret", b, 0, js) /\ UNCHANGED rows
    BY <1>6 DEF UnreturnRequest
  <2>2. js \in Calls("unreturn") /\ js \notin Awarding /\ js \notin Redeeming /\ js # <<"give">>
    BY DEF Calls, Awarding, Redeeming
  <2> HIDE DEF js
  <2>3. 0 \in Int /\ adjs' = adjs
    BY <2>1 DEF rows
  <2>4. /\ pc[r] = "idle" /\ pc'[r] \in {"plan", "look", "commit"} /\ pc' \in [Req -> Pc] /\ Beside(r)
        /\ Asks(pc'[r], jobs'[r], arg'[r], adjs') /\ Free(arg'[r].kind, arg'[r].id)
        /\ (work < MaxWork \/ arg'[r].op = "reopen") /\ arg'[r].op = "unreturn" /\ arg'[r].id = b
        /\ UNCHANGED <<locks, mine, used, memo, purse>>
    BY <1>0, <2>1, <2>2, <2>3, Admitted
  <2>5. QED BY <1>0, <2>1, <2>3, <2>4 DEF Arrived, rows
<1>7. ASSUME NEW p \in Give, AdjustRequest(r, p)
      PROVE  Arrived(r) /\ Beside(r) /\ pc' \in [Req -> Pc]
  <2> DEFINE js == <<IF p > 0 THEN "give" ELSE "takeBack">>
  <2>1. /\ Arrive(r, "adjust", "adj", adjs + 1, p, js) /\ adjs < MaxAdjs /\ adjs' = adjs + 1
        /\ UNCHANGED <<ledger, wallet, closed, bills, work, returns>>
    BY <1>7 DEF AdjustRequest
  <2>2. p \in Int
    BY PointsAssumption
  <2>3. /\ js \in Calls("adjust") /\ js \notin Awarding /\ js \notin Redeeming /\ (js = <<"give">> => p > 0)
    <3>1. CASE p > 0
      <4>1. js = <<"give">>
        BY <3>1
      <4>2. QED BY <3>1, <4>1 DEF Calls, Awarding, Redeeming
    <3>2. CASE ~(p > 0)
      <4>1. js = <<"takeBack">>
        BY <3>2
      <4>2. js # <<"give">>
        BY <4>1
      <4>3. QED BY <4>1, <4>2 DEF Calls, Awarding, Redeeming
    <3>3. QED BY <3>1, <3>2
  <2> HIDE DEF js
  <2>4. adjs' \in Nat /\ adjs' >= adjs /\ adjs + 1 \in 1..adjs' /\ adjs' \in 0..MaxAdjs /\ adjs + 1 > adjs
    BY <1>0, <2>1
  <2>5. /\ pc[r] = "idle" /\ pc'[r] \in {"plan", "look", "commit"} /\ pc' \in [Req -> Pc] /\ Beside(r)
        /\ Asks(pc'[r], jobs'[r], arg'[r], adjs') /\ Free(arg'[r].kind, arg'[r].id)
        /\ (work < MaxWork \/ arg'[r].op = "reopen") /\ arg'[r].op = "adjust" /\ arg'[r].id = adjs + 1
        /\ UNCHANGED <<locks, mine, used, memo, purse>>
    BY <2>1, <2>2, <2>3, <2>4, Admitted
  <2>6. QED BY <2>1, <2>4, <2>5 DEF Arrived
<1>8. ASSUME CloseRequest(r)
      PROVE  Arrived(r) /\ Beside(r) /\ pc' \in [Req -> Pc]
  <2> DEFINE js == <<"drain">>
  <2>1. /\ Arrive(r, "close", "adj", adjs + 1, 0, js) /\ adjs < MaxAdjs /\ adjs' = adjs + 1
        /\ UNCHANGED <<ledger, wallet, closed, bills, work, returns>>
    BY <1>8 DEF CloseRequest
  <2>2. js \in Calls("close") /\ js \notin Awarding /\ js \notin Redeeming /\ js # <<"give">>
    BY DEF Calls, Awarding, Redeeming
  <2> HIDE DEF js
  <2>3. adjs' \in Nat /\ adjs' >= adjs /\ adjs + 1 \in 1..adjs' /\ adjs' \in 0..MaxAdjs /\ adjs + 1 > adjs
    BY <1>0, <2>1
  <2>4. /\ pc[r] = "idle" /\ pc'[r] \in {"plan", "look", "commit"} /\ pc' \in [Req -> Pc] /\ Beside(r)
        /\ Asks(pc'[r], jobs'[r], arg'[r], adjs') /\ Free(arg'[r].kind, arg'[r].id)
        /\ (work < MaxWork \/ arg'[r].op = "reopen") /\ arg'[r].op = "close" /\ arg'[r].id = adjs + 1
        /\ UNCHANGED <<locks, mine, used, memo, purse>>
    BY <2>1, <2>2, <2>3, Admitted
  <2>5. QED BY <2>1, <2>3, <2>4 DEF Arrived
<1>9. ASSUME ReopenRequest(r)
      PROVE  Arrived(r) /\ Beside(r) /\ pc' \in [Req -> Pc]
  <2> DEFINE js == <<"hold">>
  <2>1. Arrive(r, "reopen", "adj", 0, 0, js) /\ UNCHANGED rows
    BY <1>9 DEF ReopenRequest
  <2>2. js \in Calls("reopen") /\ js \notin Awarding /\ js \notin Redeeming /\ js # <<"give">>
    BY DEF Calls, Awarding, Redeeming
  <2> HIDE DEF js
  <2>3. adjs' = adjs
    BY <2>1 DEF rows
  <2>4. /\ pc[r] = "idle" /\ pc'[r] \in {"plan", "look", "commit"} /\ pc' \in [Req -> Pc] /\ Beside(r)
        /\ Asks(pc'[r], jobs'[r], arg'[r], adjs') /\ Free(arg'[r].kind, arg'[r].id)
        /\ (work < MaxWork \/ arg'[r].op = "reopen") /\ arg'[r].op = "reopen" /\ arg'[r].id = 0
        /\ UNCHANGED <<locks, mine, used, memo, purse>>
    BY <1>0, <2>1, <2>2, <2>3, Admitted
  <2>5. QED BY <1>0, <2>1, <2>3, <2>4 DEF Arrived, rows
<1>10. QED BY <1>1, <1>2, <1>3, <1>4, <1>5, <1>6, <1>7, <1>8, <1>9 DEF Arrival, ReturnRequest

-----------------------------------------------------------------------------
(* What the steps of a transaction write. *)

\* The rows are those they were.
SameRows == UNCHANGED <<ledger, wallet, closed, bills, work, returns, adjs>>

\* None of the requests is no request.
LEMMA SomeReq == ASSUME NEW r \in Req PROVE r # None
  BY RequestAssumption

\* A transaction that ends forgets its rows and lets its locks go.
LEMMA ReleaseIs ==
  ASSUME Kinds, NEW r \in Req, Release(r), adjs' = adjs
  PROVE  /\ Beside(r) /\ pc' \in [Req -> Pc] /\ purse' \in [Req -> Int \cup {None}]
         /\ memLock' \in Req \cup {None} /\ memShare' \subseteq Req /\ memWrite' \in Req \cup {None}
         /\ pc'[r] = "idle" /\ mine'[r] = NoRows /\ used'[r] = NoRows /\ purse'[r] = None
         /\ memLock' = (IF memLock = r THEN None ELSE memLock) /\ memShare' = memShare \ {r}
<1>1. adjs \in Nat
  BY BoundAssumption DEF Kinds
<1>2. /\ DOMAIN jobs' = Req /\ DOMAIN arg' = Req /\ DOMAIN mine' = Req /\ DOMAIN used' = Req /\ DOMAIN memo' = Req
      /\ \A s \in Req : s # r =>
           /\ pc'[s] = pc[s] /\ jobs'[s] = jobs[s] /\ arg'[s] = arg[s] /\ mine'[s] = mine[s]
           /\ used'[s] = used[s] /\ memo'[s] = memo[s] /\ purse'[s] = purse[s]
  BY DEF Kinds, Release, Go
<1>3. /\ pc' \in [Req -> Pc] /\ purse' \in [Req -> Int \cup {None}]
      /\ pc'[r] = "idle" /\ mine'[r] = NoRows /\ used'[r] = NoRows /\ purse'[r] = None
  BY DEF Kinds, Release, Go, Pc
<1>4. /\ memLock' = (IF memLock = r THEN None ELSE memLock) /\ memShare' = memShare \ {r}
      /\ memWrite' = (IF memWrite = r THEN None ELSE memWrite)
  BY DEF Release
<1>5. memLock' \in Req \cup {None} /\ memShare' \subseteq Req /\ memWrite' \in Req \cup {None}
  BY <1>4 DEF Kinds
<1>6. \A s \in Req : s # r => (memLock' = s <=> memLock = s) /\ (s \in memShare' <=> s \in memShare)
  BY <1>4, SomeReq
<1>7. Beside(r)
  BY <1>1, <1>2, <1>6 DEF Beside
<1>8. QED BY <1>3, <1>4, <1>5, <1>7

\* A rollback changes no row.
LEMMA RollbackIs ==
  ASSUME Kinds, NEW r \in Req, Rollback(r)
  PROVE  /\ Kinds' /\ Beside(r) /\ SameRows
         /\ pc'[r] = "idle" /\ mine'[r] = NoRows /\ used'[r] = NoRows /\ purse'[r] = None
         /\ memLock' = (IF memLock = r THEN None ELSE memLock) /\ memShare' = memShare \ {r}
<1>1. Release(r) /\ SameRows /\ adjs' = adjs
  BY DEF Rollback, rows, SameRows
<1>2. /\ Beside(r) /\ pc' \in [Req -> Pc] /\ purse' \in [Req -> Int \cup {None}]
      /\ memLock' \in Req \cup {None} /\ memShare' \subseteq Req /\ memWrite' \in Req \cup {None}
      /\ pc'[r] = "idle" /\ mine'[r] = NoRows /\ used'[r] = NoRows /\ purse'[r] = None
      /\ memLock' = (IF memLock = r THEN None ELSE memLock) /\ memShare' = memShare \ {r}
  BY <1>1, ReleaseIs
<1>3. Kinds'
  BY <1>1, <1>2 DEF Kinds, Beside, SameRows
<1>4. QED BY <1>1, <1>2, <1>3

\* clawbackForReturn settles the points it will want.
LEMMA LookIs ==
  ASSUME Kinds, NEW r \in Req, LookForClawback(r)
  PROVE  /\ Kinds' /\ Beside(r) /\ SameRows /\ UNCHANGED <<locks, mine, used, memo, purse>>
         /\ pc[r] = "look" /\ arg'[r].op = arg[r].op /\ arg'[r].kind = arg[r].kind /\ arg'[r].id = arg[r].id
         /\ arg'[r].pts = Min({arg[r].pts, Redeemable(Visible(r))}) \/ arg'[r].pts = arg[r].pts
         /\ \/ pc'[r] = "plan" /\ jobs'[r] = <<"claw">>
            \/ pc'[r] = "commit" /\ jobs'[r] = <<>>
<1> DEFINE take == Min({arg[r].pts, Redeemable(Visible(r))})
<1>1. /\ pc[r] = "look" /\ arg' = [arg EXCEPT ![r].pts = take]
      /\ jobs' = [jobs EXCEPT ![r] = IF take > 0 THEN <<"claw">> ELSE <<>>]
      /\ pc' = [pc EXCEPT ![r] = IF take > 0 THEN "plan" ELSE "commit"]
      /\ UNCHANGED <<rows, locks, mine, used, memo, purse>>
  BY DEF LookForClawback, Go
<1> HIDE DEF take
<1>2. adjs \in Nat
  BY BoundAssumption DEF Kinds
<1>3. pc' \in [Req -> Pc] /\ DOMAIN jobs' = Req /\ DOMAIN arg' = Req
  BY <1>1 DEF Kinds, Pc
<1>4. SameRows /\ UNCHANGED <<locks, mine, used, memo, purse>>
  BY <1>1 DEF rows, SameRows
<1>5. Kinds'
  BY <1>3, <1>4 DEF Kinds, SameRows, locks
<1>6. \A s \in Req : s # r => pc'[s] = pc[s] /\ jobs'[s] = jobs[s] /\ arg'[s] = arg[s]
  BY <1>1 DEF Kinds
<1>7. Beside(r)
  BY <1>2, <1>3, <1>4, <1>6 DEF Kinds, Beside, SameRows, locks
<1>8. /\ \/ pc'[r] = "plan" /\ jobs'[r] = <<"claw">>
         \/ pc'[r] = "commit" /\ jobs'[r] = <<>>
  BY <1>1 DEF Kinds
<1>9. /\ arg'[r].op = arg[r].op /\ arg'[r].kind = arg[r].kind /\ arg'[r].id = arg[r].id
      /\ arg'[r].pts = take \/ arg'[r].pts = arg[r].pts
  <2>1. arg'[r] = [arg[r] EXCEPT !.pts = take]
    BY <1>1 DEF Kinds
  <2>2. QED BY <2>1
<1>10. QED BY <1>1, <1>4, <1>5, <1>7, <1>8, <1>9 DEF take

\* A call planned, or one with nothing to write.
Planning(r) ==
  /\ pc[r] = "plan" /\ ~Refused(r, Visible(r)) /\ SameRows
  /\ UNCHANGED <<memShare, memWrite, lotWrite, arg, mine, used, purse>>
  /\ Head(jobs[r]) \in Locking => memLock' = r /\ WalletFree(r)
  /\ Head(jobs[r]) \notin Locking => memLock' = memLock
  /\ \/ /\ DOMAIN Planned(r, Visible(r)) = {}
        /\ jobs'[r] = Tail(jobs[r]) /\ pc'[r] = Start(Tail(jobs[r])) /\ memo'[r] = memo[r]
     \/ /\ DOMAIN Planned(r, Visible(r)) # {}
        /\ jobs'[r] = jobs[r] /\ pc'[r] = "insert" /\ memo'[r] = Planned(r, Visible(r))

\* Every plan is one of those, or a rollback.
LEMMA PlanIs ==
  ASSUME Kinds, NEW r \in Req, Plan(r), Start(Tail(jobs[r])) \in Pc
  PROVE  pc[r] = "plan" /\ (Rollback(r) \/ (Kinds' /\ Beside(r) /\ Planning(r)))
<1> DEFINE led == Visible(r)
           locking == Head(jobs[r]) \in Locking
           new == Planned(r, led)
           start == Start(Tail(jobs[r]))
<1>1. pc[r] = "plan" /\ (locking => WalletFree(r))
  BY DEF Plan
<1>2. \/ Rollback(r)
      \/ /\ ~Refused(r, led)
         /\ memLock' = IF locking THEN r ELSE memLock
         /\ IF DOMAIN new = {}
            THEN /\ jobs' = [jobs EXCEPT ![r] = Tail(@)]
                 /\ pc' = [pc EXCEPT ![r] = start]
                 /\ UNCHANGED memo
            ELSE /\ memo' = [memo EXCEPT ![r] = new]
                 /\ pc' = [pc EXCEPT ![r] = "insert"]
                 /\ UNCHANGED jobs
         /\ UNCHANGED <<rows, memShare, memWrite, lotWrite, arg, mine, used, purse>>
  BY DEF Plan, Go
<1> SUFFICES ASSUME ~Refused(r, led), memLock' = IF locking THEN r ELSE memLock,
                    IF DOMAIN new = {}
                    THEN /\ jobs' = [jobs EXCEPT ![r] = Tail(@)]
                         /\ pc' = [pc EXCEPT ![r] = start]
                         /\ UNCHANGED memo
                    ELSE /\ memo' = [memo EXCEPT ![r] = new]
                         /\ pc' = [pc EXCEPT ![r] = "insert"]
                         /\ UNCHANGED jobs,
                    UNCHANGED <<rows, memShare, memWrite, lotWrite, arg, mine, used, purse>>
             PROVE  Kinds' /\ Beside(r) /\ Planning(r)
  BY <1>1, <1>2
<1> HIDE DEF new, locking, led, start
<1>3. SameRows /\ UNCHANGED <<memShare, memWrite, lotWrite, arg, mine, used, purse>>
  BY DEF rows, SameRows
<1>4. /\ memLock' \in Req \cup {None} /\ (locking => memLock' = r) /\ (~locking => memLock' = memLock)
  BY DEF Kinds
<1>5. start \in Pc
  BY DEF start
<1>6. /\ pc' \in [Req -> Pc] /\ DOMAIN jobs' = Req /\ DOMAIN memo' = Req
      /\ \A s \in Req : s # r => pc'[s] = pc[s] /\ jobs'[s] = jobs[s] /\ memo'[s] = memo[s]
      /\ \/ /\ DOMAIN new = {} /\ jobs'[r] = Tail(jobs[r]) /\ pc'[r] = start /\ memo'[r] = memo[r]
         \/ /\ DOMAIN new # {} /\ jobs'[r] = jobs[r] /\ pc'[r] = "insert" /\ memo'[r] = new
  <2>1. CASE DOMAIN new = {}
    BY <1>5, <2>1 DEF Kinds
  <2>2. CASE DOMAIN new # {}
    BY <2>2 DEF Kinds, Pc
  <2>3. QED BY <2>1, <2>2
<1>7. Kinds'
  BY <1>3, <1>4, <1>6 DEF Kinds, SameRows
<1>8. \A s \in Req : s # r => (memLock' = s <=> memLock = s)
  <2>1. CASE locking
    <3>1. memLock \in {None, r}
      BY <1>1, <2>1 DEF WalletFree
    <3>2. QED BY <1>4, <2>1, <3>1, SomeReq
  <2>2. CASE ~locking
    BY <1>4, <2>2
  <2>3. QED BY <2>1, <2>2
<1>9. adjs \in Nat
  BY BoundAssumption DEF Kinds
<1>10. Beside(r)
  BY <1>3, <1>6, <1>8, <1>9 DEF Kinds, Beside, SameRows
<1>11. Planning(r)
  BY <1>1, <1>3, <1>4, <1>6 DEF Planning, led, new, locking, start
<1>12. QED BY <1>7, <1>10, <1>11

\* Rows inserted, and the sums taken after them.
Inserting(r) ==
  /\ pc[r] = "insert" /\ memLock \in {None, r} /\ SameRows
  /\ UNCHANGED <<memLock, memWrite, jobs, arg, used, purse>>
  /\ memShare' = memShare \cup {r} /\ mine'[r] = Over(memo[r], mine[r])
  /\ \/ pc'[r] = "setWallet" /\ Touched(memo[r]) \ {None} = {} /\ memo'[r] = Total(Over(mine'[r], ledger))
     \/ /\ pc'[r] = "setLots" /\ Touched(memo[r]) \ {None} # {}
        /\ memo'[r] = [k \in Touched(memo[r]) \ {None} |-> Consumed(Over(mine'[r], ledger), k)]

\* An insert is one of those.
LEMMA InsertIs ==
  ASSUME Kinds, NEW r \in Req, Insert(r)
  PROVE  Kinds' /\ Beside(r) /\ Inserting(r)
<1> DEFINE all == Over(Over(memo[r], mine[r]), ledger)
           lots == Touched(memo[r]) \ {None}
           total == Total(all)
           sums == [k \in lots |-> Consumed(all, k)]
           next == IF lots = {} THEN "setWallet" ELSE "setLots"
           now == IF lots = {} THEN total ELSE sums
           own == Over(memo[r], mine[r])
<1>1. /\ pc[r] = "insert" /\ memLock \in {None, r} /\ memShare' = memShare \cup {r}
      /\ mine' = [mine EXCEPT ![r] = own] /\ memo' = [memo EXCEPT ![r] = now] /\ pc' = [pc EXCEPT ![r] = next]
      /\ UNCHANGED <<rows, memLock, memWrite, lotWrite, jobs, arg, used, purse>>
  BY DEF Insert, Go
<1>2. next \in Pc /\ adjs \in Nat
  BY BoundAssumption DEF Pc, Kinds
<1>3. lots = {} => next = "setWallet" /\ now = total
  OBVIOUS
<1>4. lots # {} => next = "setLots" /\ now = sums
  OBVIOUS
<1> HIDE DEF lots, total, sums, next, now, own
<1>5. /\ pc' \in [Req -> Pc] /\ pc'[r] = next /\ mine'[r] = own /\ memo'[r] = now
      /\ DOMAIN mine' = Req /\ DOMAIN memo' = Req
      /\ \A s \in Req : s # r => pc'[s] = pc[s] /\ mine'[s] = mine[s] /\ memo'[s] = memo[s]
  BY <1>1, <1>2 DEF Kinds
<1>6. SameRows /\ UNCHANGED <<memLock, memWrite, jobs, arg, used, purse>>
  BY <1>1 DEF rows, SameRows
<1>7. Kinds'
  BY <1>1, <1>5, <1>6 DEF Kinds, SameRows
<1>8. Beside(r)
  BY <1>1, <1>2, <1>5, <1>6 DEF Kinds, Beside, SameRows
<1>9. CASE lots = {}
  <2>1. pc'[r] = "setWallet" /\ memo'[r] = Total(Over(mine'[r], ledger))
    BY <1>3, <1>5, <1>9 DEF total, own
  <2>2. QED BY <1>1, <1>5, <1>6, <1>7, <1>8, <1>9, <2>1 DEF Inserting, lots, own
<1>10. CASE lots # {}
  <2>1. pc'[r] = "setLots" /\ memo'[r] = [k \in lots |-> Consumed(Over(mine'[r], ledger), k)]
    BY <1>4, <1>5, <1>10 DEF sums, own
  <2>2. QED BY <1>1, <1>5, <1>6, <1>7, <1>8, <1>10, <2>1 DEF Inserting, lots, own
<1>11. QED BY <1>9, <1>10

\* The sums of lots written, and the wallet summed.
SettingLots(r) ==
  /\ pc[r] = "setLots" /\ pc'[r] = "setWallet" /\ SameRows
  /\ UNCHANGED <<memLock, memShare, memWrite, jobs, arg, mine, purse>>
  /\ used'[r] = Over(memo[r], used[r]) /\ memo'[r] = Total(Led(r))

\* Every write of lots is one.
LEMMA SetLotsIs ==
  ASSUME Kinds, NEW r \in Req, SetLots(r)
  PROVE  Kinds' /\ Beside(r) /\ SettingLots(r)
<1> DEFINE now == Total(Over(mine[r], ledger))
           own == Over(memo[r], used[r])
<1>1. /\ pc[r] = "setLots"
      /\ used' = [used EXCEPT ![r] = own] /\ memo' = [memo EXCEPT ![r] = now] /\ pc' = [pc EXCEPT ![r] = "setWallet"]
      /\ UNCHANGED <<rows, memLock, memShare, memWrite, jobs, arg, mine, purse>>
  BY DEF SetLots, Go
<1>2. "setWallet" \in Pc /\ adjs \in Nat
  BY BoundAssumption DEF Pc, Kinds
<1> HIDE DEF now, own
<1>3. /\ pc' \in [Req -> Pc] /\ pc'[r] = "setWallet" /\ used'[r] = own /\ memo'[r] = now
      /\ DOMAIN used' = Req /\ DOMAIN memo' = Req
      /\ \A s \in Req : s # r => pc'[s] = pc[s] /\ used'[s] = used[s] /\ memo'[s] = memo[s]
  BY <1>1, <1>2 DEF Kinds
<1>4. SameRows /\ UNCHANGED <<memLock, memShare, memWrite, jobs, arg, mine, purse>>
  BY <1>1 DEF rows, SameRows
<1>5. Kinds'
  BY <1>3, <1>4 DEF Kinds, SameRows
<1>6. Beside(r)
  BY <1>2, <1>3, <1>4 DEF Kinds, Beside, SameRows
<1>7. QED BY <1>1, <1>3, <1>4, <1>5, <1>6 DEF SettingLots, Led, now, own

\* The wallet written.
SettingWallet(r) ==
  /\ pc[r] = "setWallet" /\ memLock \in {None, r} /\ SameRows
  /\ UNCHANGED <<memLock, memShare, arg, mine, used>>
  /\ purse'[r] = memo[r] /\ jobs'[r] = Tail(jobs[r]) /\ pc'[r] = Start(Tail(jobs[r]))

\* Every write of the wallet is one.
LEMMA SetWalletIs ==
  ASSUME Kinds, NEW r \in Req, SetWallet(r), memo[r] \in Int, Start(Tail(jobs[r])) \in Pc
  PROVE  Kinds' /\ Beside(r) /\ SettingWallet(r)
<1> DEFINE start == Start(Tail(jobs[r]))
<1>1. /\ pc[r] = "setWallet" /\ memLock \in {None, r} /\ memWrite' = r
      /\ purse' = [purse EXCEPT ![r] = memo[r]] /\ jobs' = [jobs EXCEPT ![r] = Tail(jobs[r])]
      /\ memo' = [memo EXCEPT ![r] = 0] /\ pc' = [pc EXCEPT ![r] = start]
      /\ UNCHANGED <<rows, memLock, memShare, lotWrite, arg, mine, used>>
  BY DEF SetWallet, Go
<1>2. start \in Pc /\ adjs \in Nat
  BY BoundAssumption DEF Kinds
<1> HIDE DEF start
<1>3. /\ pc' \in [Req -> Pc] /\ purse' \in [Req -> Int \cup {None}]
      /\ pc'[r] = start /\ purse'[r] = memo[r] /\ jobs'[r] = Tail(jobs[r])
      /\ DOMAIN jobs' = Req /\ DOMAIN memo' = Req
      /\ \A s \in Req : s # r => pc'[s] = pc[s] /\ jobs'[s] = jobs[s] /\ memo'[s] = memo[s] /\ purse'[s] = purse[s]
  BY <1>1, <1>2 DEF Kinds
<1>4. SameRows /\ UNCHANGED <<memLock, memShare, arg, mine, used>>
  BY <1>1 DEF rows, SameRows
<1>5. Kinds'
  BY <1>1, <1>3, <1>4 DEF Kinds, SameRows
<1>6. Beside(r)
  BY <1>2, <1>3, <1>4 DEF Kinds, Beside, SameRows
<1>7. QED BY <1>1, <1>3, <1>4, <1>5, <1>6 DEF SettingWallet, start

\* A transaction committed.
Committing(r) ==
  /\ pc[r] = "commit" /\ ledger' = Visible(r) /\ wallet' = SeenWallet(r) /\ adjs' = adjs
  /\ bills' = IF arg[r].op \in {"post", "cancel"}
              THEN [bills EXCEPT ![arg[r].id] = IF arg[r].op = "post" THEN "POSTED" ELSE "CANCELLED"]
              ELSE bills
  /\ work' = IF arg[r].op = "reopen" THEN work ELSE work + 1
  /\ pc'[r] = "idle" /\ mine'[r] = NoRows /\ used'[r] = NoRows /\ purse'[r] = None
  /\ memLock' = (IF memLock = r THEN None ELSE memLock) /\ memShare' = memShare \ {r}

\* Every commit is one.
LEMMA CommitIs ==
  ASSUME Kinds, NEW r \in Req, Commit(r)
  PROVE  Kinds' /\ Beside(r) /\ Committing(r)
<1> DEFINE a == arg[r]
<1>1. /\ pc[r] = "commit" /\ ledger' = Visible(r) /\ wallet' = SeenWallet(r)
      /\ closed' = (CASE a.op = "close" -> TRUE [] a.op = "reopen" -> FALSE [] OTHER -> closed)
      /\ work' = IF a.op = "reopen" THEN work ELSE work + 1
      /\ returns' = IF a.op \in {"return", "unreturn"}
                    THEN [returns EXCEPT ![a.id] = IF a.op = "return" THEN "POSTED" ELSE "CANCELLED"]
                    ELSE returns
      /\ Release(r) /\ adjs' = adjs
  BY DEF Commit
<1>2. bills' = IF arg[r].op \in {"post", "cancel"}
               THEN [bills EXCEPT ![arg[r].id] = IF arg[r].op = "post" THEN "POSTED" ELSE "CANCELLED"]
               ELSE bills
  BY DEF Commit
<1>3. /\ Beside(r) /\ pc' \in [Req -> Pc] /\ purse' \in [Req -> Int \cup {None}]
      /\ memLock' \in Req \cup {None} /\ memShare' \subseteq Req /\ memWrite' \in Req \cup {None}
      /\ pc'[r] = "idle" /\ mine'[r] = NoRows /\ used'[r] = NoRows /\ purse'[r] = None
      /\ memLock' = (IF memLock = r THEN None ELSE memLock) /\ memShare' = memShare \ {r}
  BY <1>1, ReleaseIs
<1>4. wallet' \in Int
  <2>1. CASE purse[r] = None
    BY <1>1, <2>1 DEF SeenWallet, Kinds
  <2>2. CASE purse[r] # None
    BY <1>1, <2>2 DEF SeenWallet, Kinds
  <2>3. QED BY <2>1, <2>2
<1>5. closed' \in BOOLEAN
  <2>1. CASE a.op = "close"
    BY <1>1, <2>1
  <2>2. CASE a.op = "reopen"
    BY <1>1, <2>2
  <2>3. CASE a.op # "close" /\ a.op # "reopen"
    BY <1>1, <2>3 DEF Kinds
  <2>4. QED BY <2>1, <2>2, <2>3
<1>6. bills' \in [Bill -> {"NONE", "POSTED", "CANCELLED"}]
  BY <1>2 DEF Kinds
<1>7. returns' \in [Bill -> {"NONE", "POSTED", "CANCELLED"}]
  BY <1>1 DEF Kinds
<1>8. work' \in Nat
  BY <1>1 DEF Kinds
<1>9. Kinds'
  <2>1. adjs' \in 0..MaxAdjs
    BY <1>1 DEF Kinds
  <2>2. DOMAIN jobs' = Req /\ DOMAIN arg' = Req /\ DOMAIN mine' = Req /\ DOMAIN used' = Req /\ DOMAIN memo' = Req
    BY <1>3 DEF Beside
  <2>3. QED BY <1>3, <1>4, <1>5, <1>6, <1>7, <1>8, <2>1, <2>2 DEF Kinds
<1>10. QED BY <1>1, <1>2, <1>3, <1>9 DEF Committing

-----------------------------------------------------------------------------
(* The invariant is kept. *)

\* Books alike are overdrawn alike.
LEMMA WithinAlike ==
  ASSUME NEW a, NEW b, Alike(a, b), Within(b)
  PROVE  Within(a)
<1>1. \A lot : Drawn(a, lot) = Drawn(b, lot)
  BY AlikeSums
<1>2. \A lot \in DOMAIN a : lot \in DOMAIN b /\ a[lot].pts = b[lot].pts
  BY DEF Alike
<1>3. QED BY <1>1, <1>2 DEF Within, IsLot

\* What a request reads.
LEMMA SeenIs ==
  ASSUME BookInv, NEW r \in Req, pc[r] # "idle"
  PROVE  /\ Book(Led(r)) /\ Book(Visible(r)) /\ Alike(Visible(r), Led(r)) /\ Sums(used[r])
         /\ pc[r] # "setLots" => Sure(Visible(r))
         /\ Visible(r) = Updated(Led(r), used[r])
         /\ DOMAIN Visible(r) = DOMAIN mine[r] \cup DOMAIN ledger
<1>1. Book(ledger) /\ Sure(ledger) /\ Adds(mine[r], ledger) /\ Covers(ledger, mine[r], Written(r)) /\ Sums(used[r])
  BY DEF BookInv, Pending, Holds
<1>2. Book(Led(r))
  BY <1>1, BookAdds DEF Led
<1>3. Visible(r) = Updated(Led(r), used[r])
  BY DEF Visible, Led
<1>4. Book(Visible(r)) /\ Alike(Visible(r), Led(r)) /\ DOMAIN Visible(r) = DOMAIN Led(r)
  BY <1>1, <1>2, <1>3, UpdatedBook, UpdatedAlike, UpdatedIs
<1>5. ASSUME pc[r] # "setLots" PROVE Sure(Visible(r))
  <2>1. Covers(ledger, mine[r], used[r])
    BY <1>1, <1>5 DEF Written
  <2>2. QED BY <1>1, <1>3, <2>1, SureSeen DEF Led
<1>6. DOMAIN Led(r) = DOMAIN mine[r] \cup DOMAIN ledger
  BY OverIs DEF Led
<1>7. QED BY <1>1, <1>2, <1>3, <1>4, <1>5, <1>6

\* What a step of r leaves of itself: its calls, its document and its locks.
Turn(r) ==
  /\ pc'[r] # "idle" => /\ Asks(pc'[r], jobs'[r], arg'[r], adjs')
                        /\ \/ Free(arg'[r].kind, arg'[r].id)
                           \/ pc[r] # "idle" /\ arg'[r].kind = arg[r].kind /\ arg'[r].id = arg[r].id
  /\ memLock' = r => pc'[r] # "idle" /\ memShare' \subseteq {r}
  /\ r \in memShare' => pc'[r] # "idle" /\ memLock' \in {None, r}
  /\ r \notin memShare' =>
       mine'[r] = NoRows /\ used'[r] = NoRows /\ purse'[r] = None /\ pc'[r] \notin {"setLots", "setWallet"}

\* A request may ask for a document that was made before.
LEMMA AsksOn ==
  ASSUME NEW step, NEW js, NEW a, NEW m, m \in Nat, NEW n, n \in Nat, n >= m, Asks(step, js, a, m)
  PROVE  Asks(step, js, a, n)
<1>1. 1..m \subseteq 1..n
  OBVIOUS
<1>2. Document(a, n)
  BY <1>1 DEF Asks, Document
<1>3. QED BY <1>2 DEF Asks

\* The calls, documents and locks of all.
LEMMA TurnKeeps ==
  ASSUME Kinds, Kinds', Asked, Alone, Locked, NEW r \in Req, Beside(r), Turn(r)
  PROVE  Asked' /\ Alone' /\ Locked'
<1>1. \A s \in Req : s # r =>
        /\ pc'[s] = pc[s] /\ jobs'[s] = jobs[s] /\ arg'[s] = arg[s] /\ mine'[s] = mine[s]
        /\ used'[s] = used[s] /\ memo'[s] = memo[s] /\ purse'[s] = purse[s]
        /\ (memLock' = s <=> memLock = s) /\ (s \in memShare' <=> s \in memShare)
  BY DEF Beside
<1>2. ASSUME NEW s \in Req, pc'[s] # "idle" PROVE Asks(pc'[s], jobs'[s], arg'[s], adjs')
  <2>1. CASE s = r
    BY <1>2, <2>1 DEF Turn
  <2>2. CASE s # r
    <3>1. Asks(pc[s], jobs[s], arg[s], adjs)
      BY <1>1, <1>2, <2>2 DEF Asked
    <3>2. adjs \in Nat /\ adjs' \in Nat /\ adjs' >= adjs
      BY DEF Beside
    <3>3. Asks(pc[s], jobs[s], arg[s], adjs')
      BY <3>1, <3>2, AsksOn
    <3>4. QED BY <1>1, <2>2, <3>3
  <2>3. QED BY <2>1, <2>2
<1>3. ASSUME NEW s \in Req, s # r, pc'[r] # "idle", pc'[s] # "idle"
      PROVE  arg'[r].kind # arg'[s].kind \/ arg'[r].id # arg'[s].id
  <2>1. pc[s] # "idle" /\ arg'[s] = arg[s]
    BY <1>1, <1>3
  <2>2. CASE Free(arg'[r].kind, arg'[r].id)
    BY <2>1, <2>2 DEF Free
  <2>3. CASE pc[r] # "idle" /\ arg'[r].kind = arg[r].kind /\ arg'[r].id = arg[r].id
    BY <1>3, <2>1, <2>3 DEF Alone
  <2>4. QED BY <1>3, <2>2, <2>3 DEF Turn
<1>4. ASSUME NEW s \in Req, NEW t \in Req, s # t, pc'[s] # "idle", pc'[t] # "idle"
      PROVE  arg'[s].kind # arg'[t].kind \/ arg'[s].id # arg'[t].id
  <2>1. CASE s = r
    BY <1>3, <1>4, <2>1
  <2>2. CASE t = r
    BY <1>3, <1>4, <2>2
  <2>3. CASE s # r /\ t # r
    BY <1>1, <1>4, <2>3 DEF Alone
  <2>4. QED BY <2>1, <2>2, <2>3
<1>5. ASSUME memLock' # None PROVE pc'[memLock'] # "idle" /\ memShare' \subseteq {memLock'}
  <2>1. memLock' \in Req
    BY <1>5 DEF Kinds
  <2>2. CASE memLock' = r
    BY <2>2 DEF Turn
  <2>3. CASE memLock' # r
    <3>1. memLock = memLock' /\ pc'[memLock'] = pc[memLock']
      BY <1>1, <2>1, <2>3
    <3>2. pc[memLock] # "idle" /\ memShare \subseteq {memLock}
      BY <1>5, <3>1 DEF Locked
    <3>3. r \notin memShare'
      BY <1>5, <2>3 DEF Turn
    <3>4. memShare' \subseteq Req
      BY DEF Kinds
    <3>5. \A s \in memShare' : s \in memShare
      BY <1>1, <3>3, <3>4
    <3>6. QED BY <3>1, <3>2, <3>5
  <2>4. QED BY <2>2, <2>3
<1>6. ASSUME NEW s \in Req, s \in memShare' PROVE pc'[s] # "idle"
  <2>1. CASE s = r
    BY <1>6, <2>1 DEF Turn
  <2>2. CASE s # r
    BY <1>1, <1>6, <2>2 DEF Locked
  <2>3. QED BY <2>1, <2>2
<1>7. ASSUME NEW s \in Req, s \notin memShare'
      PROVE  mine'[s] = NoRows /\ used'[s] = NoRows /\ purse'[s] = None /\ pc'[s] \notin {"setLots", "setWallet"}
  <2>1. CASE s = r
    BY <1>7, <2>1 DEF Turn
  <2>2. CASE s # r
    BY <1>1, <1>7, <2>2 DEF Locked
  <2>3. QED BY <2>1, <2>2
<1>8. Asked' /\ Alone'
  BY <1>2, <1>4 DEF Asked, Alone
<1>9. Locked'
  BY <1>5, <1>6, <1>7 DEF Locked
<1>10. QED BY <1>8, <1>9

\* While the ledger stands, the rows of the others do.
LEMMA PendingStays ==
  ASSUME NEW r \in Req, Beside(r), ledger' = ledger, NEW s \in Req, s # r, Pending(s)
  PROVE  Pending(s)'
<1>1. /\ pc'[s] = pc[s] /\ jobs'[s] = jobs[s] /\ arg'[s] = arg[s] /\ mine'[s] = mine[s]
      /\ used'[s] = used[s] /\ memo'[s] = memo[s]
      /\ (memLock' = s <=> memLock = s)
  BY DEF Beside
<1>2. Written(s)' = Written(s) /\ Led(s)' = Led(s)
  BY <1>1 DEF Written, Led
<1>3. Holds(s)'
  BY <1>1, <1>2 DEF Pending, Holds
<1>4. Plans(s) => Plans(s)'
  BY <1>1, <1>2 DEF Plans
<1>5. New(s) => New(s)'
  BY <1>1 DEF New
<1>6. QED BY <1>1, <1>3, <1>4, <1>5 DEF Pending

\* So does the whole book, if the rows of r are in order.
LEMMA BookStays ==
  ASSUME BookInv, NEW r \in Req, Beside(r), ledger' = ledger, pc'[r] # "idle" => Pending(r)'
  PROVE  BookInv'
<1>1. ASSUME NEW s \in Req, pc'[s] # "idle" PROVE Pending(s)'
  <2>1. CASE s = r
    BY <1>1, <2>1
  <2>2. CASE s # r
    <3>1. pc[s] # "idle"
      BY <1>1, <2>2 DEF Beside
    <3>2. Pending(s)
      BY <3>1 DEF BookInv
    <3>3. QED BY <2>2, <3>2, PendingStays
  <2>3. QED BY <2>1, <2>2
<1>2. ASSUME NEW k \in DOMAIN ledger, k[1] = "adj" PROVE k[2] <= adjs'
  <2>1. k[2] <= adjs
    BY <1>2 DEF BookInv
  <2>2. k[2] \in Nat
    <3>1. k \in Key
      BY BookRows DEF BookInv
    <3>2. QED BY <3>1 DEF Key
  <2>3. QED BY <2>1, <2>2 DEF Beside
<1>3. QED BY <1>1, <1>2 DEF BookInv

\* A step that leaves the ledger keeps the invariant if it keeps its turn.
LEMMA StepKeeps ==
  ASSUME IInv, Kinds', NEW r \in Req, Beside(r), ledger' = ledger, Turn(r), pc'[r] # "idle" => Pending(r)'
  PROVE  IInv'
<1>1. Kinds /\ Asked /\ Alone /\ Locked /\ BookInv
  BY DEF IInv
<1>2. Asked' /\ Alone' /\ Locked'
  BY <1>1, TurnKeeps
<1>3. BookInv'
  BY <1>1, BookStays
<1>4. QED BY <1>2, <1>3 DEF IInv

\* An arrival has written nothing.
LEMMA ArrivalKeeps ==
  ASSUME IInv, NEW r \in Req, Arrival(r)
  PROVE  IInv'
<1>1. Kinds /\ Locked /\ BookInv
  BY DEF IInv
<1>2. Arrived(r) /\ Beside(r) /\ pc' \in [Req -> Pc]
  BY <1>1, ArrivalIs
<1>3. /\ pc[r] = "idle" /\ pc'[r] \in {"plan", "look", "commit"} /\ adjs' \in 0..MaxAdjs
      /\ Asks(pc'[r], jobs'[r], arg'[r], adjs') /\ Free(arg'[r].kind, arg'[r].id)
      /\ arg'[r].op \in {"adjust", "close"} => arg'[r].id > adjs
      /\ UNCHANGED <<ledger, wallet, closed, bills, work, returns, memLock, memShare, memWrite, mine, used, memo, purse>>
  BY <1>2 DEF Arrived, locks
<1>4. Kinds'
  <2>1. DOMAIN jobs' = Req /\ DOMAIN arg' = Req
    BY <1>2 DEF Beside
  <2>2. QED BY <1>1, <1>2, <1>3, <2>1 DEF Kinds
<1>5. r \notin memShare /\ memLock # r
  <2>1. r # None
    BY SomeReq
  <2>2. QED BY <1>1, <1>3, <2>1 DEF Locked
<1>6. mine[r] = NoRows /\ used[r] = NoRows /\ purse[r] = None
  BY <1>1, <1>5 DEF Locked
<1>7. Turn(r)
  BY <1>3, <1>5, <1>6 DEF Turn
<1>8. Written(r)' = NoRows /\ mine'[r] = NoRows /\ used'[r] = NoRows
  BY <1>3, <1>6 DEF Written
<1>9. Holds(r)'
  <2>1. Covers(ledger', NoRows, NoRows) /\ Adds(NoRows, ledger') /\ Gives(NoRows)
    BY CoversNone
  <2>2. Owned(NoRows, arg'[r]) /\ Sums(NoRows)
    BY NoRowsIs DEF Owned, Sums
  <2>3. memLock' # r /\ pc'[r] # "setWallet"
    BY <1>3, <1>5
  <2>4. QED BY <1>8, <2>1, <2>2, <2>3 DEF Holds
<1>10. ASSUME arg'[r].op \in {"adjust", "close"} PROVE New(r)'
  <2>1. arg'[r].kind = "adj" /\ arg'[r].id > adjs /\ adjs \in Nat /\ arg'[r].id \in Int
    <3>1. arg'[r].kind = "adj" /\ arg'[r].id \in 1..adjs'
      BY <1>3, <1>10 DEF Asks, Document
    <3>2. QED BY <1>2, <1>3, <1>10, <3>1 DEF Beside
  <2>2. ASSUME NEW k \in DOMAIN ledger', k[1] = "adj" PROVE k[2] # arg'[r].id
    <3>1. k[2] <= adjs /\ k \in Key
      BY <1>1, <1>3, <2>2, BookRows DEF BookInv
    <3>2. k[2] \in Nat
      BY <3>1 DEF Key
    <3>3. QED BY <2>1, <3>1, <3>2
  <2>3. Fresh(ledger', arg'[r])
    BY <2>1, <2>2 DEF Fresh
  <2>4. QED BY <1>8, <2>3 DEF New
<1>11. Pending(r)'
  BY <1>3, <1>9, <1>10 DEF Pending
<1>12. QED BY <1>2, <1>3, <1>4, <1>7, <1>11, StepKeeps

\* A rollback leaves nothing.
LEMMA RollbackKeeps ==
  ASSUME IInv, NEW r \in Req, Rollback(r)
  PROVE  IInv'
<1>1. Kinds
  BY DEF IInv
<1>2. /\ Kinds' /\ Beside(r) /\ SameRows
      /\ pc'[r] = "idle" /\ mine'[r] = NoRows /\ used'[r] = NoRows /\ purse'[r] = None
      /\ memLock' = (IF memLock = r THEN None ELSE memLock) /\ memShare' = memShare \ {r}
  BY <1>1, RollbackIs
<1>3. memLock' # r /\ r \notin memShare'
  BY <1>2, SomeReq
<1>4. Turn(r)
  BY <1>2, <1>3 DEF Turn
<1>5. QED BY <1>2, <1>4, StepKeeps DEF SameRows

\* What a request has before its step.
LEMMA Before ==
  ASSUME IInv, NEW r \in Req, pc[r] # "idle"
  PROVE  /\ Kinds /\ Locked /\ BookInv /\ Asks(pc[r], jobs[r], arg[r], adjs) /\ Pending(r) /\ Holds(r) /\ adjs \in Nat
         /\ r \in memShare => memLock \in {None, r}
         /\ memLock = r => memShare \subseteq {r}
<1>1. Kinds /\ Asked /\ Locked /\ BookInv
  BY DEF IInv
<1>2. Asks(pc[r], jobs[r], arg[r], adjs) /\ Pending(r)
  BY <1>1 DEF Asked, BookInv
<1>3. adjs \in Nat
  BY <1>1, BoundAssumption DEF Kinds
<1>4. r \in memShare => memLock \in {None, r}
  BY <1>1 DEF Locked
<1>5. memLock = r => memShare \subseteq {r}
  BY <1>1, SomeReq DEF Locked
<1>6. QED BY <1>1, <1>2, <1>3, <1>4, <1>5 DEF Pending

\* Only a return looks before it plans.
LEMMA LookReturn ==
  ASSUME NEW js, NEW a, NEW last, Asks("look", js, a, last)
  PROVE  a.op = "return"
<1>1. js = <<"clawback">> /\ a.op \in Ops /\ js \in Calls(a.op)
  BY DEF Asks
<1>2. <<"clawback">> \notin {<<>>, <<"earn">>, <<"redeem">>, <<"redeem", "earn">>} \cup Reversing
  BY DEF Reversing
<1>3. QED BY <1>1, <1>2 DEF Calls, Ops

\* A request that has settled the points it wants has not written yet.
LEMMA LookKeeps ==
  ASSUME IInv, NEW r \in Req, LookForClawback(r)
  PROVE  IInv'
<1>1. Kinds
  BY DEF IInv
<1>2. /\ Kinds' /\ Beside(r) /\ SameRows /\ UNCHANGED <<locks, mine, used, memo, purse>>
      /\ pc[r] = "look" /\ arg'[r].op = arg[r].op /\ arg'[r].kind = arg[r].kind /\ arg'[r].id = arg[r].id
      /\ arg'[r].pts = Min({arg[r].pts, Redeemable(Visible(r))}) \/ arg'[r].pts = arg[r].pts
  BY <1>1, LookIs
<1>3. /\ \/ pc'[r] = "plan" /\ jobs'[r] = <<"claw">>
         \/ pc'[r] = "commit" /\ jobs'[r] = <<>>
  BY <1>1, LookIs
<1>4. /\ Locked /\ BookInv /\ Asks(pc[r], jobs[r], arg[r], adjs) /\ Pending(r) /\ Holds(r) /\ adjs \in Nat
      /\ r \in memShare => memLock \in {None, r}
      /\ memLock = r => memShare \subseteq {r}
  BY <1>2, Before
<1>5. UNCHANGED <<ledger, memLock, memShare, mine, used, memo, purse, adjs>>
  BY <1>2 DEF SameRows, locks
<1>6. arg'[r].pts \in Int
  <2>1. Book(Visible(r))
    BY <1>2, <1>4, SeenIs
  <2>2. Lots(Visible(r)) \in SUBSET DOMAIN Visible(r)
    BY DEF Lots, OpenLots
  <2>3. Redeemable(Visible(r)) \in Int
    BY <2>1, <2>2, BalanceInt DEF Redeemable
  <2>4. arg[r].pts \in Int
    BY <1>4 DEF Asks
  <2>5. Min({arg[r].pts, Redeemable(Visible(r))}) \in Int
    BY <2>3, <2>4, MinIs
  <2>6. QED BY <1>2, <2>4, <2>5
<1>7. arg[r].op = "return"
  BY <1>2, <1>4, LookReturn
<1>8. Asks(pc'[r], jobs'[r], arg'[r], adjs')
  <2>1. Document(arg'[r], adjs')
    BY <1>2, <1>4, <1>5 DEF Asks, Document
  <2>2. jobs'[r] \in Calls("return") /\ jobs'[r] \notin Awarding /\ jobs'[r] \notin Redeeming /\ jobs'[r] # <<"give">>
    <3>1. CASE jobs'[r] = <<"claw">>
      <4>1. <<"claw">> \in Calls("return")
        BY DEF Calls
      <4>2. <<"claw">> \notin Awarding /\ <<"claw">> \notin Redeeming /\ <<"claw">> # <<"give">>
        BY DEF Awarding, Redeeming
      <4>3. QED BY <3>1, <4>1, <4>2
    <3>2. CASE jobs'[r] = <<>>
      <4>1. <<>> \in Calls("return")
        BY DEF Calls
      <4>2. <<>> \notin Awarding /\ <<>> \notin Redeeming /\ <<>> # <<"give">>
        BY DEF Awarding, Redeeming
      <4>3. QED BY <3>2, <4>1, <4>2
    <3>3. QED BY <1>3, <3>1, <3>2
  <2>3. (pc'[r] = "look" <=> jobs'[r] = <<"clawback">>) /\ (pc'[r] = "commit" <=> jobs'[r] = <<>>)
    BY <1>3
  <2>4. "return" \in Ops
    BY DEF Ops
  <2>5. QED BY <1>2, <1>6, <1>7, <2>1, <2>2, <2>3, <2>4 DEF Asks
<1>9. pc'[r] \in {"plan", "commit"}
  BY <1>3
<1>10. Turn(r)
  BY <1>2, <1>4, <1>5, <1>8, <1>9 DEF Turn, Locked
<1>11. Written(r)' = Written(r) /\ Led(r)' = Led(r)
  BY <1>2, <1>5, <1>9 DEF Written, Led
<1>12. Owned(mine[r], arg'[r])
  BY <1>2, <1>4 DEF Holds, Owned
<1>13. Holds(r)'
  BY <1>4, <1>5, <1>9, <1>11, <1>12 DEF Holds
<1>14. Pending(r)'
  BY <1>2, <1>7, <1>9, <1>13 DEF Pending
<1>15. QED BY <1>2, <1>5, <1>10, <1>14, StepKeeps

\* What the wallet is seen to hold.
LEMMA SeenWalletInt ==
  ASSUME Kinds, NEW r \in Req
  PROVE  SeenWallet(r) \in Int
<1>1. CASE purse[r] = None
  BY <1>1 DEF SeenWallet, Kinds
<1>2. CASE purse[r] # None
  BY <1>2 DEF SeenWallet, Kinds
<1>3. QED BY <1>1, <1>2

\* What a call finds, and the rows it plans.
Found(r, new) ==
  /\ DocRows(new, Led(r), arg[r].kind, arg[r].id)
  /\ Head(jobs[r]) \notin Locking => Gives(new)
  /\ Within(Led(r)) => Within(Over(new, Led(r)))
  /\ Returns(new, Visible(r), arg[r].kind, arg[r].id)
  /\ arg[r].op = "cancel" => Undoing(new, Visible(r), arg[r].kind, arg[r].id)
  /\ Head(jobs[r]) = "redeem" /\ ~Refused(r, Visible(r)) => DOMAIN new # {}

\* The rows of a call, laid over those it read.
LEMMA CallFinds ==
  ASSUME IInv, NEW r \in Req, pc[r] = "plan"
  PROVE  /\ jobs[r] # <<>> /\ Found(r, Planned(r, Visible(r)))
<1>1. /\ Kinds /\ BookInv /\ Asks(pc[r], jobs[r], arg[r], adjs) /\ Pending(r) /\ Holds(r) /\ adjs \in Nat
  BY Before
<1>2. /\ Book(Led(r)) /\ Book(Visible(r)) /\ Alike(Visible(r), Led(r)) /\ Sums(used[r])
      /\ Sure(Visible(r)) /\ Visible(r) = Updated(Led(r), used[r])
      /\ DOMAIN Visible(r) = DOMAIN mine[r] \cup DOMAIN ledger
  BY <1>1, SeenIs
<1>3. jobs[r] # <<>>
  BY <1>1 DEF Asks
<1>4. arg[r].op \in {"adjust", "close"} => Fresh(Visible(r), arg[r])
  BY <1>1, <1>2, NoRowsIs DEF Pending, New, Fresh
<1>5. SeenWallet(r) \in Int
  BY <1>1, SeenWalletInt
<1> DEFINE new == Planned(r, Visible(r))
<1>6. /\ Sound(new, Visible(r), arg[r])
      /\ Head(jobs[r]) \notin Locking => Gives(new)
      /\ arg[r].op = "cancel" => Undoing(new, Visible(r), arg[r].kind, arg[r].id)
      /\ Head(jobs[r]) = "redeem" /\ ~Refused(r, Visible(r)) => DOMAIN new # {}
  BY <1>1, <1>2, <1>3, <1>4, <1>5, PlannedAre
<1> HIDE DEF new
<1>7. DocRows(new, Led(r), arg[r].kind, arg[r].id)
  BY <1>2, <1>6, SeenRows DEF Sound
<1>8. ASSUME Within(Led(r)) PROVE Within(Over(new, Led(r)))
  <2>1. Sure(Updated(Led(r), used[r])) /\ Affords(new, Updated(Led(r), used[r]))
    BY <1>2, <1>6 DEF Sound
  <2>2. QED BY <1>2, <1>7, <1>8, <2>1, WithinPlan
<1>9. Found(r, new)
  BY <1>6, <1>7, <1>8 DEF Found, Sound
<1>10. QED BY <1>3, <1>9 DEF new

\* The calls that follow one that is done.
LEMMA NextCall ==
  ASSUME NEW step, NEW js, NEW a, NEW last, last \in Nat, Asks(step, js, a, last), js # <<>>, step # "look"
  PROVE  /\ Start(Tail(js)) \in {"plan", "commit"}
         /\ Asks(Start(Tail(js)), Tail(js), a, last)
         /\ a.op \notin {"post", "amend"} => Start(Tail(js)) = "commit"
<1>1. a.op \in Ops /\ js \in Calls(a.op) /\ js # <<"clawback">>
  BY DEF Asks
<1>2. /\ Tail(js) \in Calls(a.op) /\ Tail(js) # <<"clawback">> /\ Tail(js) # <<"give">>
      /\ Tail(js) \in Awarding => js \in Awarding
      /\ Tail(js) \in Redeeming => js \in Redeeming
  BY <1>1, CallsLeft
<1>3. /\ Start(Tail(js)) \in {"plan", "look", "commit"}
      /\ Start(Tail(js)) = "look" <=> Tail(js) = <<"clawback">>
      /\ Start(Tail(js)) = "commit" <=> Tail(js) = <<>>
  BY <1>1, <1>2, StartIs
<1>4. a.op \notin {"post", "amend"} => Tail(js) = <<>>
  BY <1>1, CallsFirst
<1>5. QED BY <1>1, <1>2, <1>3, <1>4 DEF Asks

\* A call that plans its rows.
LEMMA PlanKeeps ==
  ASSUME IInv, NEW r \in Req, Plan(r)
  PROVE  IInv'
<1>1. pc[r] = "plan"
  BY DEF Plan
<1>2. /\ Kinds /\ Locked /\ BookInv /\ Asks(pc[r], jobs[r], arg[r], adjs) /\ Pending(r) /\ Holds(r) /\ adjs \in Nat
      /\ r \in memShare => memLock \in {None, r}
      /\ memLock = r => memShare \subseteq {r}
  BY <1>1, Before
<1> DEFINE new == Planned(r, Visible(r))
           start == Start(Tail(jobs[r]))
           locking == Head(jobs[r]) \in Locking
<1>3. jobs[r] # <<>> /\ Found(r, new)
  BY <1>1, CallFinds
<1>4. /\ start \in {"plan", "commit"} /\ Asks(start, Tail(jobs[r]), arg[r], adjs)
      /\ arg[r].op \notin {"post", "amend"} => start = "commit"
  BY <1>1, <1>2, <1>3, NextCall
<1>5. Rollback(r) \/ (Kinds' /\ Beside(r) /\ Planning(r))
  <2>1. start \in Pc
    BY <1>4 DEF Pc
  <2>2. QED BY <1>2, <2>1, PlanIs
<1>6. CASE Rollback(r)
  BY <1>6, RollbackKeeps
<1>7. CASE Kinds' /\ Beside(r) /\ Planning(r)
  <2> HIDE DEF new, start, locking
  <2>1. /\ UNCHANGED <<ledger, adjs, memShare, memWrite, arg, mine, used, purse>>
        /\ locking => memLock' = r /\ memLock \in {None, r} /\ memShare \subseteq {r}
        /\ ~locking => memLock' = memLock
        /\ \/ DOMAIN new = {} /\ jobs'[r] = Tail(jobs[r]) /\ pc'[r] = start /\ memo'[r] = memo[r]
           \/ DOMAIN new # {} /\ jobs'[r] = jobs[r] /\ pc'[r] = "insert" /\ memo'[r] = new
    BY <1>7 DEF Planning, SameRows, WalletFree, new, start, locking
  <2>2. pc'[r] \in {"plan", "commit", "insert"}
    BY <1>4, <2>1
  <2>3. Asks(pc'[r], jobs'[r], arg'[r], adjs')
    <3>1. CASE pc'[r] = start /\ jobs'[r] = Tail(jobs[r])
      BY <1>4, <2>1, <3>1
    <3>2. CASE pc'[r] = "insert" /\ jobs'[r] = jobs[r]
      BY <1>1, <1>2, <1>3, <2>1, <3>2 DEF Asks
    <3>3. QED BY <2>1, <3>1, <3>2
  <2>4. Turn(r)
    <3>1. memLock' = r => memShare' \subseteq {r}
      BY <1>2, <2>1
    <3>2. r \in memShare' => memLock' \in {None, r}
      BY <1>2, <2>1
    <3>3. r \notin memShare' =>
            mine'[r] = NoRows /\ used'[r] = NoRows /\ purse'[r] = None /\ pc'[r] \notin {"setLots", "setWallet"}
      BY <1>2, <2>1, <2>2 DEF Locked
    <3>4. QED BY <1>1, <2>1, <2>2, <2>3, <3>1, <3>2, <3>3 DEF Turn
  <2>5. Written(r)' = used[r] /\ Written(r) = used[r] /\ Led(r)' = Led(r)
    BY <1>1, <2>1, <2>2 DEF Written, Led
  <2>6. memLock' = r => Within(Led(r))
    <3>1. CASE memLock = r
      BY <1>2, <3>1 DEF Holds
    <3>2. CASE memLock # r
      <4>1. Book(ledger) /\ Within(ledger) /\ Adds(mine[r], ledger) /\ Gives(mine[r])
        BY <1>2, <3>2 DEF Holds, BookInv
      <4>2. QED BY <4>1, WithinGives DEF Led
    <3>3. QED BY <3>1, <3>2
  <2>7. memLock' # r => memLock # r /\ ~locking
    BY <2>1
  <2>8. Holds(r)'
    <3>1. Adds(mine[r], ledger) /\ Owned(mine[r], arg[r]) /\ Covers(ledger, mine[r], used[r]) /\ Sums(used[r])
      BY <1>2, <2>5 DEF Holds
    <3>2. memLock' # r => Gives(mine[r])
      BY <1>2, <2>7 DEF Holds
    <3>3. QED BY <2>1, <2>2, <2>5, <2>6, <3>1, <3>2 DEF Holds
  <2>9. ASSUME pc'[r] = "insert" PROVE Plans(r)'
    <3>1. memo'[r] = new
      BY <1>4, <2>1, <2>9
    <3>2. DocRows(new, Led(r), arg[r].kind, arg[r].id) /\ (memLock' # r => Gives(new))
      BY <1>3, <2>7 DEF Found, locking
    <3>3. memLock' = r => Within(Over(new, Led(r)))
      BY <1>3, <2>6 DEF Found
    <3>4. QED BY <2>1, <2>5, <3>1, <3>2, <3>3 DEF Plans
  <2>10. ASSUME arg[r].op \in {"adjust", "close"}, pc'[r] \in {"plan", "insert"} PROVE New(r)'
    BY <1>1, <1>2, <2>1, <2>10 DEF Pending, New
  <2>11. Pending(r)'
    BY <2>1, <2>8, <2>9, <2>10 DEF Pending
  <2>12. QED BY <1>7, <2>1, <2>4, <2>11, StepKeeps
<1>8. QED BY <1>5, <1>6, <1>7

\* The rows inserted are covered by the sums that will be written.
LEMMA InsertKeeps ==
  ASSUME IInv, NEW r \in Req, Insert(r)
  PROVE  IInv'
<1>1. Kinds' /\ Beside(r) /\ Inserting(r)
  BY InsertIs DEF IInv
<1> DEFINE lots == Touched(memo[r]) \ {None}
           sums == [k \in lots |-> Consumed(Over(Over(memo[r], mine[r]), ledger), k)]
           own == Over(memo[r], mine[r])
<1>2. /\ pc[r] = "insert" /\ memLock \in {None, r}
      /\ UNCHANGED <<ledger, adjs, memLock, jobs, arg, used, purse>>
      /\ memShare' = memShare \cup {r} /\ mine'[r] = own
      /\ \/ pc'[r] = "setWallet" /\ lots = {} /\ memo'[r] = Total(Over(own, ledger))
         \/ pc'[r] = "setLots" /\ memo'[r] = sums
  BY <1>1 DEF Inserting, SameRows
<1>3. /\ Kinds /\ Locked /\ BookInv /\ Asks(pc[r], jobs[r], arg[r], adjs) /\ Pending(r) /\ Holds(r) /\ adjs \in Nat
      /\ r \in memShare => memLock \in {None, r}
      /\ memLock = r => memShare \subseteq {r}
  BY <1>2, Before
<1>4. Plans(r) /\ Book(ledger) /\ Within(ledger)
  BY <1>2, <1>3 DEF Pending, BookInv
<1>5. /\ Adds(mine[r], ledger) /\ Owned(mine[r], arg[r]) /\ Covers(ledger, mine[r], used[r]) /\ Sums(used[r])
      /\ memLock # r => Gives(mine[r])
  BY <1>2, <1>3 DEF Holds, Written
<1>6. /\ DocRows(memo[r], Led(r), arg[r].kind, arg[r].id)
      /\ memLock # r => Gives(memo[r])
      /\ memLock = r => Within(Over(memo[r], Led(r)))
  BY <1>4 DEF Plans
<1>7. Covers(ledger, own, Over(sums, used[r])) /\ Sums(sums)
  <2>1. DocRows(memo[r], Over(mine[r], ledger), arg[r].kind, arg[r].id)
    BY <1>6 DEF Led
  <2> HIDE DEF lots, own
  <2>2. lots = Touched(memo[r]) \ {None} /\ own = Over(memo[r], mine[r])
    BY DEF lots, own
  <2>3. sums = [k \in lots |-> Consumed(Over(Over(memo[r], mine[r]), ledger), k)]
    OBVIOUS
  <2> HIDE DEF sums
  <2>4. Covers(ledger, Over(memo[r], mine[r]), Over(sums, used[r])) /\ Sums(sums)
    BY <1>4, <1>5, <2>1, <2>2, <2>3, InsertCovers
  <2>5. QED BY <2>2, <2>4
<1>8. Adds(own, ledger)
  BY <1>5, <1>6, AddsTwice DEF DocRows, Led
<1>9. Over(own, ledger) = Over(memo[r], Led(r))
  BY OverOver DEF Led
<1>10. Owned(own, arg[r])
  <2>1. DOMAIN own = DOMAIN memo[r] \cup DOMAIN mine[r]
    BY OverIs
  <2>2. QED BY <1>5, <1>6, <2>1 DEF Owned, DocRows
<1>11. memLock # r => Gives(own)
  <2>1. /\ DOMAIN own = DOMAIN memo[r] \cup DOMAIN mine[r]
        /\ \A k \in DOMAIN memo[r] : own[k] = memo[r][k]
        /\ \A k \in DOMAIN mine[r] : k \notin DOMAIN memo[r] => own[k] = mine[r][k]
    BY OverIs
  <2>2. QED BY <1>5, <1>6, <2>1 DEF Gives
<1>12. DOMAIN sums = lots
  OBVIOUS
<1> HIDE DEF own, sums, lots
<1>13. pc'[r] \in {"setLots", "setWallet"}
  BY <1>2
<1>14. Turn(r)
  <2>1. Asks(pc'[r], jobs'[r], arg'[r], adjs')
    BY <1>2, <1>3 DEF Asks
  <2>2. memLock' = r => memShare' \subseteq {r}
    BY <1>2, <1>3
  <2>3. QED BY <1>2, <1>13, <2>1, <2>2 DEF Turn
<1>15. Covers(ledger, own, Written(r)')
  <2>1. CASE pc'[r] = "setLots" /\ memo'[r] = sums
    BY <1>2, <1>7, <2>1 DEF Written
  <2>2. CASE pc'[r] = "setWallet" /\ lots = {}
    <3>1. Written(r)' = used[r]
      BY <1>2, <2>2 DEF Written
    <3>2. /\ DOMAIN used[r] = DOMAIN Over(sums, used[r])
          /\ \A k \in DOMAIN Over(sums, used[r]) : used[r][k] = Over(sums, used[r])[k]
      <4>1. DOMAIN sums = {}
        BY <1>12, <2>2
      <4>2. /\ DOMAIN Over(sums, used[r]) = DOMAIN sums \cup DOMAIN used[r]
            /\ \A k \in DOMAIN used[r] : k \notin DOMAIN sums => Over(sums, used[r])[k] = used[r][k]
        BY OverIs
      <4>3. QED BY <4>1, <4>2
    <3>3. Covers(ledger, own, used[r])
      BY <1>7, <3>2, CoversSame
    <3>4. QED BY <3>1, <3>3
  <2>3. QED BY <1>2, <2>1, <2>2
<1>16. pc'[r] = "setWallet" => memo'[r] \in Int
  <2>1. Book(Over(own, ledger))
    BY <1>4, <1>8, BookAdds
  <2>2. Total(Over(own, ledger)) \in Int
    BY <2>1, BookRows, LotInts
  <2>3. QED BY <1>2, <2>2
<1>17. Holds(r)'
  <2>1. Led(r)' = Over(own, ledger)
    BY <1>2 DEF Led
  <2>2. QED BY <1>2, <1>5, <1>6, <1>8, <1>9, <1>10, <1>11, <1>15, <1>16, <2>1 DEF Holds
<1>18. Pending(r)'
  BY <1>13, <1>17 DEF Pending
<1>19. QED BY <1>1, <1>2, <1>14, <1>18, StepKeeps

\* The sums written are those that covered the rows.
LEMMA SetLotsKeeps ==
  ASSUME IInv, NEW r \in Req, SetLots(r)
  PROVE  IInv'
<1>1. Kinds' /\ Beside(r) /\ SettingLots(r)
  BY SetLotsIs DEF IInv
<1>2. /\ pc[r] = "setLots" /\ pc'[r] = "setWallet"
      /\ UNCHANGED <<ledger, adjs, memLock, memShare, jobs, arg, mine, purse>>
      /\ used'[r] = Over(memo[r], used[r]) /\ memo'[r] = Total(Led(r))
  BY <1>1 DEF SettingLots, SameRows
<1>3. /\ Kinds /\ Locked /\ BookInv /\ Asks(pc[r], jobs[r], arg[r], adjs) /\ Pending(r) /\ Holds(r) /\ adjs \in Nat
      /\ r \in memShare => memLock \in {None, r}
      /\ memLock = r => memShare \subseteq {r}
  BY <1>2, Before
<1>4. r \in memShare
  BY <1>2, <1>3 DEF Locked
<1>5. Turn(r)
  <2>1. Asks(pc'[r], jobs'[r], arg'[r], adjs')
    BY <1>2, <1>3 DEF Asks
  <2>2. QED BY <1>2, <1>3, <1>4, <2>1 DEF Turn
<1>6. Written(r)' = Over(memo[r], used[r]) /\ Written(r) = Over(memo[r], used[r]) /\ Led(r)' = Led(r)
  BY <1>2 DEF Written, Led
<1>7. Sums(Over(memo[r], used[r])) /\ Covers(ledger, mine[r], Over(memo[r], used[r]))
  BY <1>3, <1>6 DEF Holds, Covers
<1>8. Total(Led(r)) \in Int
  BY <1>2, <1>3, SeenIs, BookRows, LotInts
<1>9. Holds(r)'
  BY <1>2, <1>3, <1>6, <1>7, <1>8 DEF Holds
<1>10. Pending(r)'
  BY <1>2, <1>9 DEF Pending
<1>11. QED BY <1>1, <1>2, <1>5, <1>10, StepKeeps

\* The next call finds the rows of those before it.
LEMMA SetWalletKeeps ==
  ASSUME IInv, NEW r \in Req, SetWallet(r)
  PROVE  IInv'
<1>1. pc[r] = "setWallet"
  BY DEF SetWallet
<1>2. /\ Kinds /\ Locked /\ BookInv /\ Asks(pc[r], jobs[r], arg[r], adjs) /\ Pending(r) /\ Holds(r) /\ adjs \in Nat
      /\ r \in memShare => memLock \in {None, r}
      /\ memLock = r => memShare \subseteq {r}
  BY <1>1, Before
<1>3. jobs[r] # <<>>
  BY <1>1, <1>2 DEF Asks
<1> DEFINE start == Start(Tail(jobs[r]))
<1>4. /\ start \in {"plan", "commit"} /\ Asks(start, Tail(jobs[r]), arg[r], adjs)
      /\ arg[r].op \notin {"post", "amend"} => start = "commit"
  BY <1>1, <1>2, <1>3, NextCall
<1>5. Kinds' /\ Beside(r) /\ SettingWallet(r)
  <2>1. start \in Pc /\ memo[r] \in Int
    BY <1>1, <1>2, <1>4 DEF Pc, Holds
  <2>2. QED BY <1>2, <2>1, SetWalletIs
<1>6. /\ UNCHANGED <<ledger, adjs, memLock, memShare, arg, mine, used>>
      /\ purse'[r] = memo[r] /\ jobs'[r] = Tail(jobs[r]) /\ pc'[r] = start
  BY <1>5 DEF SettingWallet, SameRows
<1> HIDE DEF start
<1>7. r \in memShare
  BY <1>1, <1>2 DEF Locked
<1>8. Turn(r)
  BY <1>1, <1>2, <1>4, <1>6, <1>7 DEF Turn
<1>9. Written(r)' = Written(r) /\ Led(r)' = Led(r)
  BY <1>1, <1>4, <1>6 DEF Written, Led
<1>10. Holds(r)'
  BY <1>2, <1>4, <1>6, <1>9 DEF Holds
<1>11. Pending(r)'
  BY <1>4, <1>6, <1>10 DEF Pending
<1>12. QED BY <1>5, <1>6, <1>8, <1>11, StepKeeps

\* Rows laid over books alike.
LEMMA AlikeOver ==
  ASSUME NEW a, NEW b, NEW x, Alike(a, b)
  PROVE  Alike(Over(x, a), Over(x, b))
<1>1. /\ DOMAIN Over(x, a) = DOMAIN x \cup DOMAIN a /\ DOMAIN Over(x, b) = DOMAIN x \cup DOMAIN b
      /\ \A k \in DOMAIN x : Over(x, a)[k] = x[k] /\ Over(x, b)[k] = x[k]
      /\ \A k \in DOMAIN a : k \notin DOMAIN x => Over(x, a)[k] = a[k]
      /\ \A k \in DOMAIN b : k \notin DOMAIN x => Over(x, b)[k] = b[k]
  BY DEF Over
<1>2. QED BY <1>1 DEF Alike

\* The rows of two requests are apart.
LEMMA MineApart ==
  ASSUME IInv, NEW r \in Req, NEW s \in Req, s # r, pc[r] # "idle", pc[s] # "idle"
  PROVE  /\ Apart(mine[s], mine[r])
         /\ pc[s] = "insert" => Apart(memo[s], mine[r])
         /\ \A k \in DOMAIN mine[r] : ~(k[1] = arg[s].kind /\ k[2] = arg[s].id)
<1>1. arg[r].kind # arg[s].kind \/ arg[r].id # arg[s].id
  BY DEF IInv, Alone
<1>2. Owned(mine[r], arg[r]) /\ Owned(mine[s], arg[s])
  BY Before DEF Holds
<1>3. Apart(mine[s], mine[r])
  BY <1>1, <1>2 DEF Owned, Apart
<1>4. ASSUME pc[s] = "insert" PROVE Apart(memo[s], mine[r])
  <2>1. Pending(s)
    BY Before
  <2>2. DocRows(memo[s], Led(s), arg[s].kind, arg[s].id)
    BY <1>4, <2>1 DEF Pending, Plans
  <2>3. QED BY <1>1, <1>2, <2>2 DEF Owned, Apart, DocRows
<1>5. QED BY <1>1, <1>2, <1>3, <1>4 DEF Owned

\* What r commits leaves the rows of the others in order: unless it holds the
\* wallet it only gives, and if it holds it the others have written nothing.
LEMMA CommitBeside ==
  ASSUME IInv, NEW r \in Req, Committing(r), Beside(r), NEW s \in Req, s # r, pc[s] # "idle"
  PROVE  Pending(s)'
<1> DEFINE x == mine[r]
           v == used[r]
           own == mine[s]
           u == Written(s)
           later == Updated(Over(x, ledger), v)
<1>1. pc[r] = "commit" /\ ledger' = later
  BY DEF Committing, Visible
<1>2. /\ Locked /\ BookInv /\ Pending(r) /\ Holds(r) /\ Pending(s) /\ Holds(s)
      /\ (r \in memShare => memLock \in {None, r}) /\ (s \in memShare => memLock \in {None, s})
      /\ (memLock = r => memShare \subseteq {r}) /\ (memLock = s => memShare \subseteq {s})
  BY <1>1, Before
<1>3. /\ Book(ledger) /\ Adds(x, ledger) /\ Sums(v) /\ Adds(own, ledger) /\ Owned(own, arg[s])
      /\ Covers(ledger, own, u) /\ Sums(used[s])
  BY <1>2 DEF BookInv, Holds
<1>4. /\ Apart(own, x) /\ (pc[s] = "insert" => Apart(memo[s], x))
      /\ \A k \in DOMAIN x : ~(k[1] = arg[s].kind /\ k[2] = arg[s].id)
  BY <1>1, MineApart
<1>5. /\ pc'[s] = pc[s] /\ arg'[s] = arg[s] /\ mine'[s] = own /\ used'[s] = used[s] /\ memo'[s] = memo[s]
      /\ (memLock' = s <=> memLock = s)
  BY DEF Beside
<1>6. Written(s)' = u
  BY <1>5 DEF Written
<1>7. r \notin memShare => x = NoRows /\ v = NoRows
  BY <1>2 DEF Locked
<1>8. s \notin memShare => own = NoRows /\ used[s] = NoRows /\ pc[s] \notin {"setLots", "setWallet"}
  BY <1>2 DEF Locked
<1>9. s \notin memShare => u = NoRows
  BY <1>8 DEF Written
<1>10. memLock # r => Gives(x)
  BY <1>2 DEF Holds
<1> HIDE DEF x, v, own, u, later
<1>11. Adds(own, later) /\ DOMAIN later = DOMAIN x \cup DOMAIN ledger
  BY <1>3, <1>4, LaterAdds DEF later
<1>12. Covers(later, own, u)
  <2>1. CASE memLock = r
    <3>1. s \notin memShare
      BY <1>2, <2>1
    <3>2. Covers(later, NoRows, NoRows)
      BY CoversNone
    <3>3. QED BY <1>8, <1>9, <3>1, <3>2
  <2>2. CASE memLock # r
    <3>1. Gives(x)
      BY <1>10, <2>2
    <3>2. later = Updated(Over(x, ledger), v)
      BY DEF later
    <3>3. QED BY <1>3, <1>4, <3>1, <3>2, LaterCovers
  <2>3. QED BY <2>1, <2>2
<1>13. ASSUME memLock = s PROVE Alike(Over(own, later), Over(own, ledger))
  <2>1. r \notin memShare
    BY <1>2, <1>13
  <2>2. x = NoRows /\ v = NoRows
    BY <1>7, <2>1
  <2>3. Alike(Over(NoRows, ledger), ledger) /\ Book(Over(NoRows, ledger))
    <3>1. /\ DOMAIN Over(NoRows, ledger) = DOMAIN ledger
          /\ \A k \in DOMAIN ledger : Over(NoRows, ledger)[k] = ledger[k]
      BY NoRowsIs DEF Over
    <3>2. Book(Over(NoRows, ledger))
      BY <1>3, <2>2, BookAdds
    <3>3. QED BY <3>1, <3>2 DEF Alike
  <2>4. Alike(later, Over(NoRows, ledger))
    BY <1>3, <2>2, <2>3, UpdatedAlike DEF later
  <2>5. Alike(later, ledger)
    BY <2>3, <2>4 DEF Alike
  <2>6. QED BY <2>5, AlikeOver
<1>14. Led(s) = Over(own, ledger) /\ Led(s)' = Over(own, later)
  BY <1>1, <1>5 DEF Led, own
<1>15. Holds(s)'
  <2>1. memLock # s => Gives(own)
    BY <1>2 DEF Holds, own
  <2>2. memLock = s => Within(Over(own, later))
    <3>1. memLock = s => Within(Over(own, ledger))
      BY <1>2, <1>14 DEF Holds
    <3>2. QED BY <1>13, <3>1, WithinAlike
  <2>3. pc[s] = "setWallet" => memo[s] \in Int
    BY <1>2 DEF Holds
  <2>4. QED BY <1>1, <1>3, <1>5, <1>6, <1>11, <1>12, <1>14, <2>1, <2>2, <2>3 DEF Holds
<1>16. ASSUME pc[s] = "insert" PROVE Plans(s)'
  <2>1. /\ DocRows(memo[s], Over(own, ledger), arg[s].kind, arg[s].id)
        /\ memLock # s => Gives(memo[s])
        /\ memLock = s => Within(Over(memo[s], Over(own, ledger)))
    BY <1>2, <1>14, <1>16 DEF Pending, Plans
  <2>2. DocRows(memo[s], Over(own, later), arg[s].kind, arg[s].id)
    BY <1>4, <1>11, <1>16, <2>1, LaterDoc
  <2>3. memLock = s => Within(Over(memo[s], Over(own, later)))
    BY <1>13, <2>1, AlikeOver, WithinAlike
  <2>4. QED BY <1>5, <1>14, <2>1, <2>2, <2>3 DEF Plans
<1>17. ASSUME arg[s].op \in {"adjust", "close"}, pc[s] \in {"plan", "insert"} PROVE New(s)'
  <2>1. own = NoRows /\ Fresh(ledger, arg[s])
    BY <1>2, <1>17 DEF Pending, New, own
  <2>2. Fresh(later, arg[s])
    BY <1>4, <1>11, <2>1 DEF Fresh
  <2>3. QED BY <1>1, <1>5, <2>1, <2>2 DEF New
<1>18. QED BY <1>5, <1>15, <1>16, <1>17 DEF Pending

\* The rows committed are a book, and no lot of it is overdrawn.
LEMMA CommitKeeps ==
  ASSUME IInv, NEW r \in Req, Commit(r)
  PROVE  IInv'
<1>1. Kinds' /\ Beside(r) /\ Committing(r)
  BY CommitIs DEF IInv
<1>2. /\ pc[r] = "commit" /\ ledger' = Visible(r) /\ adjs' = adjs /\ pc'[r] = "idle"
      /\ mine'[r] = NoRows /\ used'[r] = NoRows /\ purse'[r] = None
      /\ memLock' = (IF memLock = r THEN None ELSE memLock) /\ memShare' = memShare \ {r}
  BY <1>1 DEF Committing
<1>3. /\ Kinds /\ Locked /\ BookInv /\ Asks(pc[r], jobs[r], arg[r], adjs) /\ Pending(r) /\ Holds(r) /\ adjs \in Nat
  BY <1>2, Before
<1>4. memLock' # r /\ r \notin memShare'
  BY <1>2, SomeReq
<1>5. Turn(r)
  BY <1>2, <1>4 DEF Turn
<1>6. Asked' /\ Alone' /\ Locked'
  BY <1>1, <1>5, TurnKeeps DEF IInv
<1>7. Book(ledger') /\ Sure(ledger')
  BY <1>2, <1>3, SeenIs
<1>8. Within(ledger')
  <2>1. Within(Led(r))
    <3>1. CASE memLock = r
      BY <1>3, <3>1 DEF Holds
    <3>2. CASE memLock # r
      <4>1. Book(ledger) /\ Within(ledger) /\ Adds(mine[r], ledger) /\ Gives(mine[r])
        BY <1>3, <3>2 DEF Holds, BookInv
      <4>2. QED BY <4>1, WithinGives DEF Led
    <3>3. QED BY <3>1, <3>2
  <2>2. Alike(Visible(r), Led(r))
    BY <1>2, <1>3, SeenIs
  <2>3. QED BY <1>2, <2>1, <2>2, WithinAlike
<1>9. ASSUME NEW k \in DOMAIN ledger', k[1] = "adj" PROVE k[2] <= adjs'
  <2>1. k \in DOMAIN mine[r] \cup DOMAIN ledger
    BY <1>2, <1>3, SeenIs
  <2>2. CASE k \in DOMAIN ledger
    BY <1>2, <1>3, <1>9, <2>2 DEF BookInv
  <2>3. CASE k \in DOMAIN mine[r]
    <3>1. arg[r].kind = "adj" /\ k[2] = arg[r].id
      BY <1>3, <1>9, <2>3 DEF Holds, Owned
    <3>2. arg[r].id \in 1..adjs \/ arg[r].id = 0
      BY <1>3, <3>1 DEF Asks, Document, Ops
    <3>3. QED BY <1>2, <1>3, <3>1, <3>2
  <2>4. QED BY <2>1, <2>2, <2>3
<1>10. ASSUME NEW s \in Req, pc'[s] # "idle" PROVE Pending(s)'
  <2>1. s # r
    BY <1>2, <1>10
  <2>2. pc[s] # "idle"
    BY <1>1, <1>10, <2>1 DEF Beside
  <2>3. QED BY <1>1, <2>1, <2>2, CommitBeside
<1>11. BookInv'
  BY <1>7, <1>8, <1>9, <1>10 DEF BookInv
<1>12. QED BY <1>1, <1>6, <1>11 DEF IInv

-----------------------------------------------------------------------------
(* The invariant holds. *)

\* A transaction given up.
Ended(r) ==
  /\ pc[r] # "idle" /\ pc'[r] = "idle" /\ SameRows
  /\ mine'[r] = NoRows /\ used'[r] = NoRows /\ purse'[r] = None
  /\ memLock' = (IF memLock = r THEN None ELSE memLock) /\ memShare' = memShare \ {r}

\* A clawback that has settled its points.
Looking(r) ==
  /\ pc[r] = "look" /\ SameRows /\ UNCHANGED <<locks, mine, used, memo, purse>>
  /\ arg'[r].op = arg[r].op /\ arg'[r].kind = arg[r].kind /\ arg'[r].id = arg[r].id
  /\ pc'[r] \in {"plan", "commit"} /\ arg[r].op = "return"

\* One step of a request.
Step(r) == Arrival(r) \/ Advance(r) \/ Abort(r)

\* Every step is one of those above.
LEMMA StepIs ==
  ASSUME IInv, NEW r \in Req, Step(r)
  PROVE  /\ IInv' /\ Beside(r)
         /\ \/ Arrived(r) \/ Ended(r) \/ Looking(r) \/ Planning(r)
            \/ Inserting(r) \/ SettingLots(r) \/ SettingWallet(r) \/ Committing(r)
<1> DEFINE Is == \/ Arrived(r) \/ Ended(r) \/ Looking(r) \/ Planning(r)
                 \/ Inserting(r) \/ SettingLots(r) \/ SettingWallet(r) \/ Committing(r)
<1>1. Kinds
  BY DEF IInv
<1>2. ASSUME Arrival(r) PROVE IInv' /\ Beside(r) /\ Is
  BY <1>1, <1>2, ArrivalIs, ArrivalKeeps
<1>3. ASSUME pc[r] # "idle", Rollback(r) PROVE IInv' /\ Beside(r) /\ Is
  <2>1. Beside(r) /\ Ended(r)
    BY <1>1, <1>3, RollbackIs DEF Ended
  <2>2. QED BY <1>3, <2>1, RollbackKeeps
<1>4. ASSUME LookForClawback(r) PROVE IInv' /\ Beside(r) /\ Is
  <2>1. pc[r] = "look"
    BY <1>4 DEF LookForClawback
  <2>2. arg[r].op = "return"
    BY <2>1, Before, LookReturn
  <2>3. Beside(r) /\ Looking(r)
    BY <1>1, <1>4, <2>2, LookIs DEF Looking
  <2>4. QED BY <1>4, <2>3, LookKeeps
<1>5. ASSUME Plan(r) PROVE IInv' /\ Beside(r) /\ Is
  <2>1. pc[r] = "plan"
    BY <1>5 DEF Plan
  <2>2. /\ Asks(pc[r], jobs[r], arg[r], adjs) /\ adjs \in Nat
    BY <2>1, Before
  <2>3. jobs[r] # <<>>
    BY <2>1, <2>2 DEF Asks
  <2>4. Start(Tail(jobs[r])) \in Pc
    BY <2>1, <2>2, <2>3, NextCall DEF Pc
  <2>5. Rollback(r) \/ (Beside(r) /\ Planning(r))
    BY <1>1, <1>5, <2>4, PlanIs
  <2>6. QED BY <1>3, <1>5, <2>1, <2>5, PlanKeeps
<1>6. ASSUME Insert(r) PROVE IInv' /\ Beside(r) /\ Is
  BY <1>1, <1>6, InsertIs, InsertKeeps
<1>7. ASSUME SetLots(r) PROVE IInv' /\ Beside(r) /\ Is
  BY <1>1, <1>7, SetLotsIs, SetLotsKeeps
<1>8. ASSUME SetWallet(r) PROVE IInv' /\ Beside(r) /\ Is
  <2>1. pc[r] = "setWallet"
    BY <1>8 DEF SetWallet
  <2>2. /\ Asks(pc[r], jobs[r], arg[r], adjs) /\ adjs \in Nat /\ Holds(r)
    BY <2>1, Before
  <2>3. jobs[r] # <<>>
    BY <2>1, <2>2 DEF Asks
  <2>4. Start(Tail(jobs[r])) \in Pc /\ memo[r] \in Int
    BY <2>1, <2>2, <2>3, NextCall DEF Pc, Holds
  <2>5. Beside(r) /\ SettingWallet(r)
    BY <1>1, <1>8, <2>4, SetWalletIs
  <2>6. QED BY <1>8, <2>5, SetWalletKeeps
<1>9. ASSUME Commit(r) PROVE IInv' /\ Beside(r) /\ Is
  BY <1>1, <1>9, CommitIs, CommitKeeps
<1> HIDE DEF Is
<1>10. IInv' /\ Beside(r) /\ Is
  BY <1>2, <1>3, <1>4, <1>5, <1>6, <1>7, <1>8, <1>9 DEF Step, Advance, Abort
<1>11. QED BY <1>10 DEF Is

\* A wallet nobody has used yet.
LEMMA InitHolds ==
  ASSUME Init
  PROVE  IInv
<1>1. /\ ledger = NoRows /\ wallet = 0 /\ closed = FALSE /\ bills = [b \in Bill |-> "NONE"] /\ work = 0
      /\ returns = [b \in Bill |-> "NONE"] /\ adjs = 0
      /\ memLock = None /\ memShare = {} /\ memWrite = None
      /\ pc = [r \in Req |-> "idle"]
      /\ jobs = [r \in Req |-> <<>>] /\ arg = [r \in Req |-> NoArg]
      /\ mine = [r \in Req |-> NoRows] /\ used = [r \in Req |-> NoRows]
      /\ memo = [r \in Req |-> 0] /\ purse = [r \in Req |-> None]
  BY DEF Init
<1>2. Kinds
  <2>1. pc \in [Req -> Pc] /\ purse \in [Req -> Int \cup {None}]
    BY <1>1 DEF Pc
  <2>2. bills \in [Bill -> {"NONE", "POSTED", "CANCELLED"}] /\ returns \in [Bill -> {"NONE", "POSTED", "CANCELLED"}]
    BY <1>1
  <2>3. adjs \in 0..MaxAdjs
    BY <1>1, BoundAssumption
  <2>4. DOMAIN jobs = Req /\ DOMAIN arg = Req /\ DOMAIN mine = Req /\ DOMAIN used = Req /\ DOMAIN memo = Req
    BY <1>1
  <2>5. memLock \in Req \cup {None} /\ memShare \subseteq Req /\ memWrite \in Req \cup {None}
    BY <1>1
  <2>6. work \in Nat /\ wallet \in Int
    BY <1>1
  <2>7. closed \in BOOLEAN
    <3>1. closed = FALSE
      BY DEF Init
    <3>2. QED BY <3>1, Zenon
  <2>8. QED BY <2>1, <2>2, <2>3, <2>4, <2>5, <2>6, <2>7 DEF Kinds
<1>3. \A r \in Req : pc[r] = "idle" /\ mine[r] = NoRows /\ used[r] = NoRows /\ purse[r] = None
  BY <1>1
<1>4. Asked /\ Alone /\ Locked
  BY <1>1, <1>3 DEF Asked, Alone, Locked
<1>5. BookInv
  <2>1. Book(NoRows) /\ Sure(NoRows) /\ Within(NoRows)
    BY NoRowsIs, FS_EmptySet DEF Book, Names, Sure, Within
  <2>2. QED BY <1>1, <1>3, <2>1, NoRowsIs DEF BookInv
<1>6. QED BY <1>2, <1>4, <1>5 DEF IInv

\* A step, or none.
LEMMA NextIs ==
  ASSUME [Next]_vars
  PROVE  UNCHANGED vars \/ \E r \in Req : Step(r)
  BY DEF Next, Step

\* Nothing moves the invariant when nothing moves.
LEMMA IdleKeeps ==
  ASSUME IInv, UNCHANGED vars
  PROVE  IInv'
<1>1. UNCHANGED <<ledger, wallet, closed, bills, work, returns, adjs, memLock, memShare, memWrite, lotWrite, pc,
                  jobs, arg, mine, used, memo, purse>>
  BY DEF vars, rows, locks, txs
<1>2. Kinds' /\ Asked' /\ Alone' /\ Locked'
  BY <1>1 DEF IInv, Kinds, Asked, Alone, Locked
<1>3. ASSUME NEW r \in Req, Pending(r) PROVE Pending(r)'
  <2>1. Written(r)' = Written(r) /\ Led(r)' = Led(r)
    BY <1>1 DEF Written, Led
  <2>2. QED BY <1>1, <1>3, <2>1 DEF Pending, Holds, Plans, New
<1>4. BookInv'
  BY <1>1, <1>3 DEF IInv, BookInv
<1>5. QED BY <1>2, <1>4 DEF IInv

\* The rows, the locks and the requests stay in order.
THEOREM InvHolds == Spec => []IInv
<1>1. Init => IInv
  BY InitHolds
<1>2. IInv /\ [Next]_vars => IInv'
  BY IdleKeeps, NextIs, StepIs
<1>3. QED BY <1>1, <1>2, PTL DEF Spec

\* No point is spent twice, whichever requests run beside each other: a draw
\* reads the lots behind the FOR UPDATE of consume, and what commits beside an
\* unlocked request only gives back.
THEOREM NoDoubleSpend == Spec => []SpentWithinEarned
<1>1. IInv => SpentWithinEarned
  <2>1. SUFFICES ASSUME Within(ledger) PROVE SpentWithinEarned
    BY DEF IInv, BookInv
  <2>2. \A lot : OnLot(ledger, lot) = {j \in DOMAIN ledger : ledger[j].lot = lot}
    BY DEF OnLot
  <2>3. \A lot : Drawn(ledger, lot) =
                 0 - SumFunction([k \in {j \in DOMAIN ledger : ledger[j].lot = lot} |-> ledger[k].pts])
    BY <2>2 DEF Drawn, Points
  <2>4. QED BY <2>1, <2>3 DEF Within, SpentWithinEarned
<1>2. QED BY <1>1, InvHolds, PTL

-----------------------------------------------------------------------------
(* The types. *)

\* The requests that will count when they commit.
Busy == {r \in Req : pc[r] # "idle" /\ arg[r].op # "reopen"}

\* A request is admitted below the bound, and then counted once.
Paced == work + Cardinality(Busy) <= MaxWork + Cardinality(Req)

\* The requests are finitely many.
LEMMA FewReqs ==
  ASSUME NEW S \in SUBSET Req
  PROVE  /\ IsFiniteSet(S) /\ Cardinality(S) \in Nat /\ Cardinality(Req) \in Nat
         /\ Cardinality(S) <= Cardinality(Req)
  BY RequestAssumption, FS_Subset, FS_CardinalityType

\* They are counted when they commit, and not before.
LEMMA StepPaces ==
  ASSUME IInv, Paced, NEW r \in Req, Step(r)
  PROVE  Paced'
<1>1. /\ IInv' /\ Beside(r)
      /\ \/ Arrived(r) \/ Ended(r) \/ Looking(r) \/ Planning(r)
         \/ Inserting(r) \/ SettingLots(r) \/ SettingWallet(r) \/ Committing(r)
  BY StepIs
<1>2. work \in Nat /\ work' \in Nat /\ MaxWork \in Nat
  BY <1>1, BoundAssumption DEF IInv, Kinds
<1>3. \A s \in Req : s # r => pc'[s] = pc[s] /\ arg'[s] = arg[s]
  BY <1>1 DEF Beside
<1>4. /\ IsFiniteSet(Busy) /\ Cardinality(Busy) \in Nat /\ Cardinality(Req) \in Nat
      /\ Cardinality(Busy) <= Cardinality(Req)
  <2>1. Busy \in SUBSET Req
    BY DEF Busy
  <2>2. QED BY <2>1, FewReqs
<1>5. /\ IsFiniteSet(Busy') /\ Cardinality(Busy') \in Nat /\ Cardinality(Busy') <= Cardinality(Req)
  <2>1. Busy' \in SUBSET Req
    BY DEF Busy
  <2>2. QED BY <2>1, FewReqs
<1>6. \A s \in Busy' : s # r => s \in Busy
  BY <1>3 DEF Busy
<1>7. ASSUME work' = work, r \in Busy' => r \in Busy PROVE Paced'
  <2>1. Busy' \subseteq Busy
    BY <1>6, <1>7
  <2>2. Cardinality(Busy') <= Cardinality(Busy)
    BY <1>4, <2>1, FS_Subset
  <2>3. QED BY <1>2, <1>4, <1>5, <1>7, <2>2 DEF Paced
<1>8. ASSUME pc[r] # "idle", pc'[r] # "idle" => arg'[r].op = arg[r].op, work' = work PROVE Paced'
  <2>1. r \in Busy' => r \in Busy
    BY <1>8 DEF Busy
  <2>2. QED BY <1>7, <1>8, <2>1
<1>9. CASE Arrived(r)
  <2>1. work' = work /\ (work < MaxWork \/ arg'[r].op = "reopen")
    BY <1>9 DEF Arrived
  <2>2. CASE work < MaxWork
    BY <1>2, <1>4, <1>5, <2>1, <2>2 DEF Paced
  <2>3. CASE arg'[r].op = "reopen"
    <3>1. r \notin Busy'
      BY <2>3 DEF Busy
    <3>2. QED BY <1>7, <2>1, <3>1
  <2>4. QED BY <2>1, <2>2, <2>3
<1>10. CASE Committing(r)
  <2>1. pc[r] = "commit" /\ pc'[r] = "idle" /\ work' = IF arg[r].op = "reopen" THEN work ELSE work + 1
    BY <1>10 DEF Committing
  <2>2. r \notin Busy'
    BY <2>1 DEF Busy
  <2>3. CASE arg[r].op = "reopen"
    BY <1>7, <2>1, <2>2, <2>3
  <2>4. CASE arg[r].op # "reopen"
    <3>1. r \in Busy
      BY <2>1, <2>4 DEF Busy
    <3>2. Busy' \subseteq Busy \ {r}
      BY <1>6, <2>2
    <3>3. IsFiniteSet(Busy \ {r}) /\ Cardinality(Busy \ {r}) = Cardinality(Busy) - 1
      BY <1>4, <3>1, FS_RemoveElement
    <3>4. Cardinality(Busy') <= Cardinality(Busy \ {r})
      BY <3>2, <3>3, FS_Subset
    <3>5. QED BY <1>2, <1>4, <1>5, <2>1, <2>4, <3>3, <3>4 DEF Paced
  <2>5. QED BY <2>3, <2>4
<1>11. CASE Ended(r)
  BY <1>8, <1>11 DEF Ended, SameRows
<1>12. CASE Looking(r)
  BY <1>8, <1>12 DEF Looking, SameRows
<1>13. CASE Planning(r)
  BY <1>8, <1>13 DEF Planning, SameRows
<1>14. CASE Inserting(r)
  BY <1>8, <1>14 DEF Inserting, SameRows
<1>15. CASE SettingLots(r)
  BY <1>8, <1>15 DEF SettingLots, SameRows
<1>16. CASE SettingWallet(r)
  BY <1>8, <1>16 DEF SettingWallet, SameRows
<1>17. QED BY <1>1, <1>9, <1>10, <1>11, <1>12, <1>13, <1>14, <1>15, <1>16

\* The count of requests stays within its bound.
LEMMA PacedHolds == Spec => []Paced
<1>1. ASSUME Init PROVE Paced
  <2>1. Busy = {} /\ work = 0
    BY <1>1 DEF Init, Busy
  <2>2. Cardinality(Busy) = 0
    BY <2>1, FS_EmptySet
  <2>3. Cardinality(Req) \in Nat
    BY FewReqs
  <2>4. QED BY <2>1, <2>2, <2>3, BoundAssumption DEF Paced
<1>2. ASSUME IInv, Paced, [Next]_vars PROVE Paced'
  <2>1. CASE UNCHANGED vars
    <3>1. work' = work /\ Busy' = Busy
      BY <2>1 DEF vars, rows, txs, Busy
    <3>2. QED BY <1>2, <3>1 DEF Paced
  <2>2. QED BY <1>2, <2>1, NextIs, StepPaces
<1>3. QED BY <1>1, <1>2, InvHolds, PTL DEF Spec

\* The rows, the wallet and the requests have their types, and every row obeys
\* the sign its type asks for.
THEOREM LoyaltyTyped == Spec => []TypeOK
<1>1. ASSUME IInv, Paced PROVE TypeOK
  <2>1. Kinds /\ Book(ledger)
    BY <1>1 DEF IInv, BookInv
  <2>2. \A k \in DOMAIN ledger : k \in Key /\ ledger[k] \in LedgerRow /\ ledger[k].pts # 0
    BY <2>1 DEF Book, Proper
  <2>3. \A k \in DOMAIN ledger :
          /\ k[3] = "EARN" => ((ledger[k].of = None) <=> (ledger[k].pts > 0))
          /\ k[3] \in {"REDEEM", "EXPIRE"} => ((ledger[k].of = None) <=> (ledger[k].pts < 0))
    BY <2>1 DEF Book, Proper
  <2>4. work \in 0..(MaxWork + Cardinality(Req))
    <3>1. work \in Nat
      BY <2>1 DEF Kinds
    <3>2. Busy \in SUBSET Req
      BY DEF Busy
    <3>3. Cardinality(Busy) \in Nat /\ Cardinality(Req) \in Nat
      BY <3>2, FewReqs
    <3>4. QED BY <1>1, <3>1, <3>3, BoundAssumption DEF Paced
  <2>5. QED BY <2>1, <2>2, <2>3, <2>4 DEF TypeOK, Kinds
<1>2. QED BY <1>1, InvHolds, PacedHolds, PTL

-----------------------------------------------------------------------------
(* Redemptions and what gives them back. *)

\* A reversal of a redemption gives back what was taken, once.
Undoes(led) ==
  /\ \A j \in DOMAIN led : j[3] = "REDEEM" /\ led[j].of # None =>
       led[led[j].of].of = None /\ led[led[j].of].pts = 0 - led[j].pts
  /\ \A i, j \in DOMAIN led : i[3] = "REDEEM" /\ led[i].of # None /\ led[i].of = led[j].of => i = j

\* A reversal names a row of its document and of its type.
LEMMA Reverses ==
  ASSUME NEW led, Book(led), NEW j \in DOMAIN led, led[j].of # None
  PROVE  /\ led[j].of \in DOMAIN led /\ led[j].of[1] = j[1] /\ led[j].of[2] = j[2] /\ led[j].of[3] = j[3]
         /\ led[j].pts \in Int
  BY NoRowsIs DEF Book, Names, Proper, LedgerRow

\* When every redemption of a bill is given back, the bill has spent nothing.
LEMMA UndoneIsNothing ==
  ASSUME NEW led, Book(led), Undoes(led), NEW b, OpenRed(led, b) = {}
  PROVE  Points(led, Red(led, b)) = 0
<1> DEFINE A == {k \in Red(led, b) : led[k].of # None}
           B == {k \in Red(led, b) : led[k].of = None}
           m == [k \in A |-> led[k].of]
           f == [k \in B |-> 0 - led[k].pts]
           g == [k \in A |-> led[k].pts]
           h == [k \in B |-> led[k].pts]
<1>1. Rows(led)
  BY BookRows
<1>2. A \in SUBSET DOMAIN led /\ B \in SUBSET DOMAIN led /\ A \cap B = {} /\ A \cup B = Red(led, b)
  BY DEF Red
<1>3. Scored(led, A) /\ Scored(led, B)
  BY <1>1, <1>2, RowsInt
<1>4. m \in [A -> B]
  <2>1. ASSUME NEW k \in A PROVE led[k].of \in B
    <3>1. k \in DOMAIN led /\ k[1] = "bill" /\ k[2] = b /\ k[3] = "REDEEM" /\ led[k].of # None
      BY DEF Red
    <3>2. led[k].of \in DOMAIN led /\ led[k].of[1] = "bill" /\ led[k].of[2] = b /\ led[k].of[3] = "REDEEM"
      BY <3>1, Reverses
    <3>3. led[led[k].of].of = None
      BY <3>1 DEF Undoes
    <3>4. QED BY <3>2, <3>3 DEF Red
  <2>2. QED BY <2>1
<1>5. IsFiniteSet(A) /\ IsFiniteSet(B) /\ f \in [B -> Int] /\ g \in [A -> Int] /\ h \in [B -> Int]
  BY <1>3 DEF Scored
<1>6. Renames(g, f, m, A, B)
  <2>1. ASSUME NEW k \in A PROVE g[k] = f[m[k]]
    <3>1. k \in DOMAIN led /\ k[3] = "REDEEM" /\ led[k].of # None
      BY DEF Red
    <3>2. led[led[k].of].pts = 0 - led[k].pts
      BY <3>1 DEF Undoes
    <3>3. m[k] = led[k].of /\ m[k] \in B /\ g[k] = led[k].pts /\ led[k].pts \in Int
      BY <1>3, <1>4 DEF Scored
    <3>4. f[m[k]] = 0 - led[led[k].of].pts
      BY <3>3
    <3>5. QED BY <3>2, <3>3, <3>4
  <2>2. ASSUME NEW x \in A, NEW y \in A, m[x] = m[y] PROVE x = y
    <3>1. x \in DOMAIN led /\ y \in DOMAIN led /\ x[3] = "REDEEM" /\ led[x].of # None /\ led[x].of = led[y].of
      BY <2>2 DEF Red
    <3>2. QED BY <3>1 DEF Undoes
  <2>3. ASSUME NEW y \in B PROVE \E x \in A : m[x] = y
    <3>1. y \in Red(led, b) /\ led[y].of = None /\ y # None
      BY <1>2, RowSome
    <3>2. PICK j \in Red(led, b) : led[j].of = y
      BY <3>1 DEF OpenRed
    <3>3. j \in A /\ m[j] = y
      BY <3>1, <3>2
    <3>4. QED BY <3>3
  <2>4. QED BY <2>1, <2>2, <2>3 DEF Renames
<1>7. \A k \in B : f[k] = 0 - h[k]
  OBVIOUS
<1>8. Points(led, A) = SumFunction(g) /\ Points(led, B) = SumFunction(h)
  BY DEF Points
<1> HIDE DEF A, B, m, f, g, h
<1>9. SumFunction(g) = SumFunction(f)
  BY <1>4, <1>5, <1>6, SumRename
<1>10. SumFunction(f) = 0 - SumFunction(h) /\ SumFunction(h) \in Int
  BY <1>5, <1>7, SumMinus, SumType
<1>11. Points(led, A \cup B) = Points(led, A) + Points(led, B)
  BY <1>2, <1>3, PointsUnion
<1>12. Points(led, A) = 0 - Points(led, B) /\ Points(led, B) \in Int
  BY <1>8, <1>9, <1>10
<1>13. Points(led, A \cup B) = 0
  BY <1>11, <1>12
<1>14. QED BY <1>2, <1>13

\* Books alike are undone alike.
LEMMA UndoesAlike ==
  ASSUME NEW a, NEW led, Book(led), Alike(a, led)
  PROVE  (Undoes(led) => Undoes(a)) /\ \A b : OpenRed(a, b) = OpenRed(led, b)
<1>1. DOMAIN a = DOMAIN led /\ \A k \in DOMAIN led : a[k].pts = led[k].pts /\ a[k].of = led[k].of
  BY DEF Alike
<1>2. ASSUME Undoes(led) PROVE Undoes(a)
  <2>1. ASSUME NEW j \in DOMAIN a, j[3] = "REDEEM", a[j].of # None
        PROVE  a[a[j].of].of = None /\ a[a[j].of].pts = 0 - a[j].pts
    <3>1. j \in DOMAIN led /\ led[j].of # None /\ a[j].of = led[j].of /\ a[j].pts = led[j].pts
      BY <1>1, <2>1
    <3>2. led[led[j].of].of = None /\ led[led[j].of].pts = 0 - led[j].pts
      BY <1>2, <2>1, <3>1 DEF Undoes
    <3>3. led[j].of \in DOMAIN led
      BY <3>1, Reverses
    <3>4. a[led[j].of].of = None /\ a[led[j].of].pts = 0 - led[j].pts
      BY <1>1, <3>2, <3>3
    <3>5. QED BY <3>1, <3>4
  <2>2. ASSUME NEW i \in DOMAIN a, NEW j \in DOMAIN a, i[3] = "REDEEM", a[i].of # None, a[i].of = a[j].of
        PROVE  i = j
    BY <1>1, <1>2, <2>2 DEF Undoes
  <2>3. QED BY <2>1, <2>2 DEF Undoes
<1>3. ASSUME NEW b PROVE OpenRed(a, b) = OpenRed(led, b)
  <2>1. Red(a, b) = Red(led, b)
    BY <1>1 DEF Red
  <2>2. \A k \in Red(led, b) : a[k].of = led[k].of
    BY <1>1 DEF Red
  <2>3. QED BY <2>1, <2>2 DEF OpenRed
<1>4. QED BY <1>2, <1>3

\* New rows that return redemptions return each of them once.
LEMMA UndoesAdds ==
  ASSUME NEW led, Book(led), Undoes(led), NEW seen, Alike(seen, led),
         NEW new, NEW kind, NEW id, DocRows(new, led, kind, id), Returns(new, seen, kind, id)
  PROVE  Undoes(Over(new, led))
<1> DEFINE w == Over(new, led)
<1>1. /\ DOMAIN w = DOMAIN new \cup DOMAIN led
      /\ \A k \in DOMAIN new : w[k] = new[k]
      /\ \A k \in DOMAIN led : k \notin DOMAIN new => w[k] = led[k]
  BY OverIs
<1>2. Adds(new, led)
  BY DEF DocRows
<1>3. \A k \in DOMAIN led : w[k] = led[k] /\ k \notin DOMAIN new
  BY <1>1, <1>2 DEF Adds, Apart
<1>4. DOMAIN seen = DOMAIN led /\ \A k \in DOMAIN led : seen[k].pts = led[k].pts /\ seen[k].of = led[k].of
  BY DEF Alike
<1> HIDE DEF w
<1>5. ASSUME NEW j \in DOMAIN new, j[3] = "REDEEM", new[j].of # None
      PROVE  /\ new[j].of \in DOMAIN led /\ led[new[j].of].of = None /\ led[new[j].of].pts = 0 - new[j].pts
             /\ \A i \in DOMAIN led : led[i].of # new[j].of
  <2>1. new[j].of \in Originals(seen, kind, id) /\ seen[new[j].of].pts = 0 - new[j].pts
    BY <1>5 DEF Returns
  <2>2. /\ new[j].of \in DOMAIN seen /\ seen[new[j].of].of = None
        /\ \A i \in DOMAIN seen : seen[i].of # new[j].of
    BY <2>1 DEF Originals
  <2>3. QED BY <1>4, <2>1, <2>2
<1>6. ASSUME NEW j \in DOMAIN w, j[3] = "REDEEM", w[j].of # None
      PROVE  w[w[j].of].of = None /\ w[w[j].of].pts = 0 - w[j].pts
  <2>1. CASE j \in DOMAIN new
    BY <1>1, <1>3, <1>5, <1>6, <2>1
  <2>2. CASE j \in DOMAIN led
    <3>1. w[j] = led[j]
      BY <1>3, <2>2
    <3>2. led[j].of \in DOMAIN led
      BY <1>6, <2>2, <3>1, Reverses
    <3>3. led[led[j].of].of = None /\ led[led[j].of].pts = 0 - led[j].pts
      BY <1>6, <2>2, <3>1 DEF Undoes
    <3>4. QED BY <1>3, <3>1, <3>2, <3>3
  <2>3. QED BY <1>1, <1>6, <2>1, <2>2
<1>7. ASSUME NEW i \in DOMAIN w, NEW j \in DOMAIN w, i[3] = "REDEEM", w[i].of # None, w[i].of = w[j].of
      PROVE  i = j
  <2>1. j[3] = "REDEEM"
    <3>1. Book(w)
      BY <1>2, BookAdds DEF w
    <3>2. w[i].of[3] = i[3] /\ w[j].of[3] = j[3]
      BY <1>7, <3>1, Reverses
    <3>3. QED BY <1>7, <3>2
  <2>2. CASE i \in DOMAIN new /\ j \in DOMAIN new
    BY <1>1, <1>7, <2>1, <2>2 DEF Returns
  <2>3. CASE i \in DOMAIN new /\ j \in DOMAIN led
    BY <1>1, <1>3, <1>5, <1>7, <2>3
  <2>4. CASE i \in DOMAIN led /\ j \in DOMAIN new
    BY <1>1, <1>3, <1>5, <1>7, <2>1, <2>4
  <2>5. CASE i \in DOMAIN led /\ j \in DOMAIN led
    BY <1>3, <1>7, <2>5 DEF Undoes
  <2>6. QED BY <1>1, <2>2, <2>3, <2>4, <2>5
<1>8. QED BY <1>6, <1>7 DEF Undoes, w

\* The rows of two documents do not undo each other.
LEMMA UndoesJoin ==
  ASSUME NEW led, Book(led), NEW x, Adds(x, led), NEW own, Adds(own, led), NEW a, NEW c,
         Owned(x, a), Owned(own, c), a.kind # c.kind \/ a.id # c.id,
         Undoes(Over(x, led)), Undoes(Over(own, led))
  PROVE  Undoes(Over(own, Over(x, led)))
<1> DEFINE p == Over(x, led)
           q == Over(own, led)
           w == Over(own, p)
<1>1. /\ DOMAIN p = DOMAIN x \cup DOMAIN led /\ DOMAIN q = DOMAIN own \cup DOMAIN led
      /\ DOMAIN w = DOMAIN own \cup DOMAIN p
      /\ \A k \in DOMAIN x : p[k] = x[k]
      /\ \A k \in DOMAIN led : k \notin DOMAIN x => p[k] = led[k]
      /\ \A k \in DOMAIN own : q[k] = own[k] /\ w[k] = own[k]
      /\ \A k \in DOMAIN led : k \notin DOMAIN own => q[k] = led[k]
      /\ \A k \in DOMAIN p : k \notin DOMAIN own => w[k] = p[k]
  BY DEF Over
<1>2. /\ \A k \in DOMAIN x : k \notin DOMAIN led /\ k \notin DOMAIN own
      /\ \A k \in DOMAIN own : k \notin DOMAIN led
  BY DEF Adds, Apart, Owned
<1>3. Book(p) /\ Book(q)
  BY BookAdds
<1> HIDE DEF p, q, w
<1>4. (\A k \in DOMAIN q : w[k] = q[k]) /\ (\A k \in DOMAIN p : w[k] = p[k]) /\ DOMAIN w = DOMAIN p \cup DOMAIN q
  BY <1>1, <1>2
<1>5. ASSUME NEW j \in DOMAIN w, w[j].of # None
      PROVE  \/ j \in DOMAIN p /\ w[j].of \in DOMAIN p
             \/ j \in DOMAIN q /\ w[j].of \in DOMAIN q
  BY <1>3, <1>4, <1>5, Reverses
<1>6. ASSUME NEW j \in DOMAIN w, j[3] = "REDEEM", w[j].of # None
      PROVE  w[w[j].of].of = None /\ w[w[j].of].pts = 0 - w[j].pts
  <2>1. CASE j \in DOMAIN p /\ w[j].of \in DOMAIN p
    <3>1. w[j] = p[j] /\ w[w[j].of] = p[w[j].of]
      BY <1>4, <2>1
    <3>2. p[p[j].of].of = None /\ p[p[j].of].pts = 0 - p[j].pts
      BY <1>6, <2>1, <3>1 DEF Undoes, p
    <3>3. QED BY <3>1, <3>2
  <2>2. CASE j \in DOMAIN q /\ w[j].of \in DOMAIN q
    <3>1. w[j] = q[j] /\ w[w[j].of] = q[w[j].of]
      BY <1>4, <2>2
    <3>2. q[q[j].of].of = None /\ q[q[j].of].pts = 0 - q[j].pts
      BY <1>6, <2>2, <3>1 DEF Undoes, q
    <3>3. QED BY <3>1, <3>2
  <2>3. QED BY <1>5, <1>6, <2>1, <2>2
<1>7. ASSUME NEW i \in DOMAIN w, NEW j \in DOMAIN w, i[3] = "REDEEM", w[i].of # None, w[i].of = w[j].of
      PROVE  i = j
  <2>1. i[1] = j[1] /\ i[2] = j[2]
    <3>1. \A k \in DOMAIN w : w[k].of # None => w[k].of[1] = k[1] /\ w[k].of[2] = k[2]
      BY <1>3, <1>4, Reverses
    <3>2. QED BY <1>7, <3>1
  <2>2. CASE i \in DOMAIN p /\ j \in DOMAIN p
    <3>1. p[i].of # None /\ p[i].of = p[j].of
      BY <1>4, <1>7, <2>2
    <3>2. QED BY <1>7, <2>2, <3>1 DEF Undoes, p
  <2>3. CASE i \in DOMAIN q /\ j \in DOMAIN q
    <3>1. q[i].of # None /\ q[i].of = q[j].of
      BY <1>4, <1>7, <2>3
    <3>2. QED BY <1>7, <2>3, <3>1 DEF Undoes, q
  <2>4. CASE i \in DOMAIN x /\ j \in DOMAIN own
    BY <2>1, <2>4 DEF Owned
  <2>5. CASE i \in DOMAIN own /\ j \in DOMAIN x
    BY <2>1, <2>5 DEF Owned
  <2>6. QED BY <1>1, <2>2, <2>3, <2>4, <2>5
<1>8. QED BY <1>6, <1>7 DEF Undoes, w, p

\* A cancel leaves no redemption standing.
LEMMA UndoingAll ==
  ASSUME NEW led, Book(led), NEW seen, Alike(seen, led), NEW b,
         NEW new, DocRows(new, led, "bill", b), Undoing(new, seen, "bill", b)
  PROVE  OpenRed(Over(new, led), b) = {} /\ (DOMAIN new = {} => OpenRed(led, b) = {})
<1> DEFINE w == Over(new, led)
<1>1. /\ DOMAIN w = DOMAIN new \cup DOMAIN led
      /\ \A k \in DOMAIN new : w[k] = new[k]
      /\ \A k \in DOMAIN led : k \notin DOMAIN new => w[k] = led[k]
  BY OverIs
<1>2. \A k \in DOMAIN led : w[k] = led[k] /\ k \notin DOMAIN new
  BY <1>1 DEF DocRows, Adds, Apart
<1>3. DOMAIN seen = DOMAIN led /\ \A k \in DOMAIN led : seen[k].of = led[k].of
  BY DEF Alike
<1> HIDE DEF w
<1>4. ASSUME NEW x \in Red(led, b), led[x].of = None, \A j \in Red(led, b) : led[j].of # x
      PROVE  \E k \in DOMAIN new : k[3] = "REDEEM" /\ new[k].of = x
  <2>1. x \in DOMAIN led /\ x[1] = "bill" /\ x[2] = b /\ x[3] = "REDEEM" /\ x # None
    BY <1>4, RowSome DEF Red
  <2>2. ASSUME NEW j \in DOMAIN led PROVE led[j].of # x
    <3>1. CASE led[j].of = x
      <4>1. j[1] = "bill" /\ j[2] = b /\ j[3] = "REDEEM"
        BY <2>1, <3>1, Reverses
      <4>2. j \in Red(led, b)
        BY <4>1 DEF Red
      <4>3. QED BY <1>4, <4>2
    <3>2. QED BY <3>1
  <2>3. x \in Originals(seen, "bill", b)
    BY <1>3, <1>4, <2>1, <2>2 DEF Originals
  <2>4. QED BY <2>1, <2>3 DEF Undoing
<1>5. ASSUME DOMAIN new = {} PROVE OpenRed(led, b) = {}
  BY <1>4, <1>5 DEF OpenRed
<1>6. ASSUME NEW x \in Red(w, b), w[x].of = None, \A j \in Red(w, b) : w[j].of # x
      PROVE  FALSE
  <2>1. x \in DOMAIN led
    <3>1. CASE x \in DOMAIN new
      <4>1. new[x].of \in DOMAIN seen
        BY <1>6, <3>1 DEF Undoing, Originals, Red
      <4>2. new[x].of # None
        BY <1>3, <4>1, RowSome
      <4>3. QED BY <1>1, <1>6, <3>1, <4>2
    <3>2. QED BY <1>1, <1>6, <3>1 DEF Red
  <2>2. x \in Red(led, b) /\ led[x].of = None
    BY <1>2, <1>6, <2>1 DEF Red
  <2>3. ASSUME NEW j \in Red(led, b) PROVE led[j].of # x
    BY <1>1, <1>2, <1>6 DEF Red
  <2>4. PICK k \in DOMAIN new : k[3] = "REDEEM" /\ new[k].of = x
    BY <1>4, <2>2, <2>3
  <2>5. k \in Red(w, b) /\ w[k].of = x
    BY <1>1, <2>4 DEF Red, DocRows
  <2>6. QED BY <1>6, <2>5
<1>7. OpenRed(w, b) = {}
  BY <1>6 DEF OpenRed
<1>8. QED BY <1>5, <1>7 DEF w

\* Rows of other documents open no redemption of a bill.
LEMMA StaysUndone ==
  ASSUME NEW led, NEW x, Apart(x, led), NEW b, OpenRed(led, b) = {},
         \A k \in DOMAIN x : ~(k[1] = "bill" /\ k[2] = b)
  PROVE  OpenRed(Over(x, led), b) = {}
<1>1. /\ DOMAIN Over(x, led) = DOMAIN x \cup DOMAIN led
      /\ \A k \in DOMAIN led : k \notin DOMAIN x => Over(x, led)[k] = led[k]
  BY OverIs
<1>2. Red(Over(x, led), b) = Red(led, b)
  BY <1>1 DEF Red
<1>3. \A k \in Red(led, b) : Over(x, led)[k] = led[k]
  BY <1>1 DEF Red, Apart
<1>4. QED BY <1>2, <1>3 DEF OpenRed

\* A request found its bill as it asks for it, and the row lock keeps it so.
Status(r) ==
  /\ arg[r].op = "post" => bills[arg[r].id] = "NONE"
  /\ arg[r].op \in {"cancel", "amend", "retender"} => bills[arg[r].id] = "POSTED"

\* The rows a request has written and those it is about to write return each
\* redemption once; a cancel returns all of its bill.
Undone(r) ==
  /\ Undoes(Led(r))
  /\ pc[r] = "insert" => Undoes(Over(memo[r], Led(r)))
  /\ arg[r].op = "cancel" /\ pc[r] \in {"setLots", "setWallet", "commit"} => OpenRed(Led(r), arg[r].id) = {}
  /\ arg[r].op = "cancel" /\ pc[r] = "insert" => OpenRed(Over(memo[r], Led(r)), arg[r].id) = {}

UndoInv ==
  /\ Undoes(ledger)
  /\ \A b \in Bill : bills[b] = "CANCELLED" => OpenRed(ledger, b) = {}
  /\ \A r \in Req : pc[r] # "idle" => Status(r) /\ Undone(r)

\* While the ledger stands, so does what the others undo.
LEMMA UndoStays ==
  ASSUME UndoInv, NEW r \in Req, Beside(r), ledger' = ledger, bills' = bills,
         pc'[r] # "idle" => Status(r)' /\ Undone(r)'
  PROVE  UndoInv'
<1>1. ASSUME NEW s \in Req, pc'[s] # "idle" PROVE Status(s)' /\ Undone(s)'
  <2>1. CASE s = r
    BY <1>1, <2>1
  <2>2. CASE s # r
    <3>1. pc'[s] = pc[s] /\ arg'[s] = arg[s] /\ mine'[s] = mine[s] /\ memo'[s] = memo[s]
      BY <2>2 DEF Beside
    <3>2. Status(s) /\ Undone(s)
      BY <1>1, <3>1 DEF UndoInv
    <3>3. Led(s)' = Led(s)
      BY <3>1 DEF Led
    <3>4. QED BY <3>1, <3>2, <3>3 DEF Status, Undone
  <2>3. QED BY <2>1, <2>2
<1>2. QED BY <1>1 DEF UndoInv

\* A plan returns redemptions once, and that of a cancel returns them all.
LEMMA PlanUndoes ==
  ASSUME IInv, UndoInv, NEW r \in Req, Beside(r), Planning(r)
  PROVE  UndoInv'
<1> DEFINE new == Planned(r, Visible(r))
           b == arg[r].id
<1>1. /\ pc[r] = "plan" /\ UNCHANGED <<ledger, bills, arg, mine>>
      /\ \/ DOMAIN new = {} /\ pc'[r] = Start(Tail(jobs[r]))
         \/ DOMAIN new # {} /\ pc'[r] = "insert" /\ memo'[r] = new
  BY DEF Planning, SameRows
<1>2. jobs[r] # <<>> /\ Found(r, new)
  BY <1>1, CallFinds
<1>3. /\ BookInv /\ Asks(pc[r], jobs[r], arg[r], adjs) /\ adjs \in Nat
  BY <1>1, Before
<1>4. Start(Tail(jobs[r])) \in {"plan", "commit"}
  BY <1>1, <1>2, <1>3, NextCall
<1>5. Book(Led(r)) /\ Alike(Visible(r), Led(r))
  BY <1>1, <1>3, SeenIs
<1>6. Status(r) /\ Undone(r)
  BY <1>1 DEF UndoInv
<1>7. /\ DocRows(new, Led(r), arg[r].kind, b) /\ Returns(new, Visible(r), arg[r].kind, b)
      /\ arg[r].op = "cancel" => Undoing(new, Visible(r), arg[r].kind, b)
  BY <1>2 DEF Found
<1> HIDE DEF new, b
<1>8. Undoes(Led(r)) /\ Undoes(Over(new, Led(r)))
  BY <1>5, <1>6, <1>7, UndoesAdds DEF Undone
<1>9. ASSUME arg[r].op = "cancel"
      PROVE  OpenRed(Over(new, Led(r)), b) = {} /\ (DOMAIN new = {} => OpenRed(Led(r), b) = {})
  <2>1. arg[r].kind = "bill"
    BY <1>3, <1>9 DEF Asks, Document
  <2>2. DocRows(new, Led(r), "bill", b) /\ Undoing(new, Visible(r), "bill", b)
    BY <1>7, <1>9, <2>1
  <2>3. QED BY <1>5, <2>2, UndoingAll
<1>10. Led(r)' = Led(r) /\ arg'[r].op = arg[r].op /\ arg'[r].id = b
  BY <1>1 DEF Led, b
<1>11. Undone(r)'
  <2>1. CASE DOMAIN new = {} /\ pc'[r] = Start(Tail(jobs[r]))
    BY <1>4, <1>8, <1>9, <1>10, <2>1 DEF Undone
  <2>2. CASE pc'[r] = "insert" /\ memo'[r] = new
    BY <1>8, <1>9, <1>10, <2>2 DEF Undone
  <2>3. QED BY <1>1, <2>1, <2>2
<1>12. Status(r)'
  BY <1>1, <1>6 DEF Status
<1>13. QED BY <1>1, <1>11, <1>12, UndoStays

\* So do the other steps before the commit.
LEMMA StepUndoes ==
  ASSUME IInv, UndoInv, NEW r \in Req, Beside(r),
         \/ Arrived(r) \/ Ended(r) \/ Looking(r) \/ Inserting(r) \/ SettingLots(r) \/ SettingWallet(r)
  PROVE  UndoInv'
<1>1. CASE Arrived(r)
  <2>1. /\ pc[r] = "idle" /\ pc'[r] \in {"plan", "look", "commit"} /\ UNCHANGED <<ledger, bills, mine>>
        /\ arg'[r].op = "post" => bills[arg'[r].id] = "NONE"
        /\ arg'[r].op \in {"cancel", "amend", "retender"} => bills[arg'[r].id] = "POSTED"
        /\ arg'[r].op = "cancel" => pc'[r] = "plan"
    BY <1>1 DEF Arrived
  <2>2. r \notin memShare
    BY <2>1 DEF IInv, Locked
  <2>3. mine[r] = NoRows
    BY <2>2 DEF IInv, Locked
  <2>4. Led(r)' = Over(NoRows, ledger)
    BY <2>1, <2>3 DEF Led
  <2>5. Alike(Over(NoRows, ledger), ledger)
    BY NoRowsIs DEF Over, Alike
  <2>6. Undoes(Over(NoRows, ledger))
    BY <2>5, UndoesAlike DEF IInv, BookInv, UndoInv
  <2>7. Status(r)' /\ Undone(r)'
    BY <2>1, <2>4, <2>6 DEF Status, Undone
  <2>8. QED BY <2>1, <2>7, UndoStays
<1>2. CASE Ended(r)
  BY <1>2, UndoStays DEF Ended, SameRows
<1>3. CASE Looking(r)
  <2>1. /\ pc[r] = "look" /\ pc'[r] \in {"plan", "commit"} /\ UNCHANGED <<ledger, bills, mine>>
        /\ arg'[r].op = "return"
    BY <1>3 DEF Looking, SameRows
  <2>2. Undone(r) /\ Led(r)' = Led(r)
    BY <2>1 DEF UndoInv, Led
  <2>3. Status(r)' /\ Undone(r)'
    BY <2>1, <2>2 DEF Status, Undone
  <2>4. QED BY <2>1, <2>3, UndoStays
<1>4. CASE Inserting(r)
  <2>1. /\ pc[r] = "insert" /\ pc'[r] \in {"setLots", "setWallet"} /\ UNCHANGED <<ledger, bills, arg>>
        /\ mine'[r] = Over(memo[r], mine[r])
    BY <1>4 DEF Inserting, SameRows
  <2>2. Status(r) /\ Undone(r)
    BY <2>1 DEF UndoInv
  <2>3. Led(r)' = Over(memo[r], Led(r))
    BY <2>1, OverOver DEF Led
  <2>4. Status(r)' /\ Undone(r)'
    BY <2>1, <2>2, <2>3 DEF Status, Undone
  <2>5. QED BY <2>1, <2>4, UndoStays
<1>5. CASE SettingLots(r)
  <2>1. pc[r] = "setLots" /\ pc'[r] = "setWallet" /\ UNCHANGED <<ledger, bills, arg, mine>>
    BY <1>5 DEF SettingLots, SameRows
  <2>2. Status(r) /\ Undone(r) /\ Led(r)' = Led(r)
    BY <2>1 DEF UndoInv, Led
  <2>3. Status(r)' /\ Undone(r)'
    BY <2>1, <2>2 DEF Status, Undone
  <2>4. QED BY <2>1, <2>3, UndoStays
<1>6. CASE SettingWallet(r)
  <2>1. pc[r] = "setWallet" /\ pc'[r] = Start(Tail(jobs[r])) /\ UNCHANGED <<ledger, bills, arg, mine>>
    BY <1>6 DEF SettingWallet, SameRows
  <2>2. Status(r) /\ Undone(r) /\ Led(r)' = Led(r)
    BY <2>1 DEF UndoInv, Led
  <2>3. Asks(pc[r], jobs[r], arg[r], adjs) /\ adjs \in Nat
    BY <2>1, Before
  <2>4. jobs[r] # <<>>
    BY <2>1, <2>3 DEF Asks
  <2>5. pc'[r] \in {"plan", "commit"}
    BY <2>1, <2>3, <2>4, NextCall
  <2>6. Status(r)' /\ Undone(r)'
    BY <2>1, <2>2, <2>5 DEF Status, Undone
  <2>7. QED BY <2>1, <2>6, UndoStays
<1>7. QED BY <1>1, <1>2, <1>3, <1>4, <1>5, <1>6

\* Rows committed for one document leave what the rows of another undo.
LEMMA LaterUndoes ==
  ASSUME NEW led, Book(led), NEW x, Adds(x, led), NEW own, Adds(own, led), NEW a, NEW c,
         Owned(x, a), Owned(own, c), a.kind # c.kind \/ a.id # c.id,
         Undoes(Over(x, led)), Undoes(Over(own, led)), NEW later, Alike(later, Over(x, led))
  PROVE  /\ Undoes(Over(own, later))
         /\ c.kind = "bill" /\ OpenRed(Over(own, led), c.id) = {} => OpenRed(Over(own, later), c.id) = {}
<1>1. Undoes(Over(own, Over(x, led)))
  BY UndoesJoin
<1>2. Alike(Over(own, later), Over(own, Over(x, led)))
  BY AlikeOver
<1>3. Apart(own, x) /\ Apart(x, own) /\ Apart(x, led) /\ Apart(own, led)
  BY DEF Owned, Apart, Adds
<1>4. Book(Over(own, Over(x, led)))
  <2>1. DOMAIN Over(x, led) = DOMAIN x \cup DOMAIN led
    BY OverIs
  <2>2. Adds(own, Over(x, led))
    BY <1>3, <2>1 DEF Adds, Apart, Names
  <2>3. QED BY <2>2, BookAdds
<1>5. Undoes(Over(own, later)) /\ \A b : OpenRed(Over(own, later), b) = OpenRed(Over(own, Over(x, led)), b)
  BY <1>1, <1>2, <1>4, UndoesAlike
<1>6. ASSUME c.kind = "bill", OpenRed(Over(own, led), c.id) = {}
      PROVE  OpenRed(Over(own, Over(x, led)), c.id) = {}
  <2>1. \A k \in DOMAIN x : ~(k[1] = "bill" /\ k[2] = c.id)
    BY <1>6 DEF Owned
  <2>2. Apart(x, Over(own, led))
    <3>1. DOMAIN Over(own, led) = DOMAIN own \cup DOMAIN led
      BY OverIs
    <3>2. QED BY <1>3, <3>1 DEF Apart
  <2>3. OpenRed(Over(x, Over(own, led)), c.id) = {}
    BY <1>6, <2>1, <2>2, StaysUndone
  <2>4. Over(x, Over(own, led)) = Over(own, Over(x, led))
    <3>1. \A k \in DOMAIN x : k \notin DOMAIN own
      BY <1>3 DEF Apart
    <3>2. QED BY <3>1 DEF Over
  <2>5. QED BY <2>3, <2>4
<1>7. QED BY <1>5, <1>6

\* What a commit makes of the bills.
LEMMA BillsIs ==
  ASSUME Kinds, NEW r \in Req, Committing(r), Asks(pc[r], jobs[r], arg[r], adjs), NEW b \in Bill
  PROVE  /\ arg[r].op \in {"post", "cancel"} => arg[r].kind = "bill"
         /\ bills'[b] = "CANCELLED" => bills[b] = "CANCELLED" \/ (arg[r].op = "cancel" /\ b = arg[r].id)
         /\ bills'[b] # bills[b] => arg[r].op \in {"post", "cancel"} /\ b = arg[r].id
<1>1. bills' = IF arg[r].op \in {"post", "cancel"}
               THEN [bills EXCEPT ![arg[r].id] = IF arg[r].op = "post" THEN "POSTED" ELSE "CANCELLED"]
               ELSE bills
  BY DEF Committing
<1>2. bills \in [Bill -> {"NONE", "POSTED", "CANCELLED"}]
  BY DEF Kinds
<1>3. arg[r].op \in {"post", "cancel"} => arg[r].kind = "bill" /\ arg[r].id \in Bill
  BY DEF Asks, Document
<1>4. CASE arg[r].op = "post"
  <2>1. bills' = [bills EXCEPT ![arg[r].id] = "POSTED"]
    BY <1>1, <1>4
  <2>2. QED BY <1>2, <1>3, <1>4, <2>1
<1>5. CASE arg[r].op = "cancel"
  <2>1. bills' = [bills EXCEPT ![arg[r].id] = "CANCELLED"]
    BY <1>1, <1>5
  <2>2. QED BY <1>2, <1>3, <1>5, <2>1
<1>6. CASE arg[r].op \notin {"post", "cancel"}
  <2>1. bills' = bills
    BY <1>1, <1>6
  <2>2. QED BY <1>6, <2>1
<1>7. QED BY <1>4, <1>5, <1>6

\* A commit leaves every cancelled bill with nothing spent.
LEMMA CommitUndoes ==
  ASSUME IInv, UndoInv, NEW r \in Req, Beside(r), Committing(r)
  PROVE  UndoInv'
<1> DEFINE x == mine[r]
<1>1. pc[r] = "commit" /\ pc'[r] = "idle" /\ ledger' = Visible(r)
  BY DEF Committing
<1>2. /\ Kinds /\ BookInv /\ Asks(pc[r], jobs[r], arg[r], adjs) /\ Holds(r) /\ adjs \in Nat
  BY <1>1, Before
<1>3. Status(r) /\ Undone(r)
  BY <1>1 DEF UndoInv
<1>4. Book(ledger) /\ Adds(x, ledger) /\ Owned(x, arg[r])
  BY <1>2 DEF BookInv, Holds
<1>5. Book(Led(r)) /\ Alike(ledger', Led(r)) /\ Led(r) = Over(x, ledger)
  BY <1>1, <1>2, SeenIs DEF Led
<1>6. Undoes(Led(r)) /\ (arg[r].op = "cancel" => OpenRed(Led(r), arg[r].id) = {})
  BY <1>1, <1>3 DEF Undone
<1>7. Undoes(ledger') /\ \A b : OpenRed(ledger', b) = OpenRed(Led(r), b)
  BY <1>5, <1>6, UndoesAlike
<1>8. ASSUME NEW b \in Bill, bills'[b] = "CANCELLED" PROVE OpenRed(ledger', b) = {}
  <2>1. CASE arg[r].op = "cancel" /\ b = arg[r].id
    BY <1>6, <1>7, <2>1
  <2>2. CASE bills[b] = "CANCELLED"
    <3>1. OpenRed(ledger, b) = {}
      BY <2>2 DEF UndoInv
    <3>2. ~(arg[r].kind = "bill" /\ arg[r].id = b)
      BY <1>2, <1>3, <2>2 DEF Status, Asks, Document, Ops
    <3>3. \A k \in DOMAIN x : ~(k[1] = "bill" /\ k[2] = b)
      BY <1>4, <3>2 DEF Owned
    <3>4. OpenRed(Over(x, ledger), b) = {}
      BY <1>4, <3>1, <3>3, StaysUndone DEF Adds
    <3>5. QED BY <1>5, <1>7, <3>4
  <2>3. QED BY <1>2, <1>8, <2>1, <2>2, BillsIs
<1>9. ASSUME NEW s \in Req, pc'[s] # "idle" PROVE Status(s)' /\ Undone(s)'
  <2>1. s # r
    BY <1>1, <1>9
  <2>2. pc'[s] = pc[s] /\ arg'[s] = arg[s] /\ mine'[s] = mine[s] /\ memo'[s] = memo[s] /\ pc[s] # "idle"
    BY <1>9, <2>1 DEF Beside
  <2>3. Status(s) /\ Undone(s)
    BY <2>2 DEF UndoInv
  <2>4. /\ Asks(pc[s], jobs[s], arg[s], adjs) /\ Pending(s) /\ Holds(s)
    BY <2>2, Before
  <2>5. arg[r].kind # arg[s].kind \/ arg[r].id # arg[s].id
    BY <1>1, <2>1, <2>2 DEF IInv, Alone
  <2>6. Status(s)'
    <3>1. arg[s].op \in {"post", "cancel", "amend", "retender"} => arg[s].kind = "bill" /\ arg[s].id \in Bill
      BY <2>4 DEF Asks, Document
    <3>2. arg[s].op \in {"post", "cancel", "amend", "retender"} => bills'[arg[s].id] = bills[arg[s].id]
      BY <1>2, <2>5, <3>1, BillsIs
    <3>3. QED BY <2>2, <2>3, <3>2 DEF Status
  <2>7. ASSUME NEW own, Adds(own, ledger), Owned(own, arg[s]), Undoes(Over(own, ledger))
        PROVE  /\ Undoes(Over(own, ledger'))
               /\ arg[s].op = "cancel" /\ OpenRed(Over(own, ledger), arg[s].id) = {}
                    => OpenRed(Over(own, ledger'), arg[s].id) = {}
    <3>1. arg[s].op = "cancel" => arg[s].kind = "bill"
      BY <2>4 DEF Asks, Document
    <3>2. Undoes(Over(x, ledger)) /\ Alike(ledger', Over(x, ledger))
      BY <1>5, <1>6
    <3> HIDE DEF x
    <3>3. /\ Undoes(Over(own, ledger'))
          /\ arg[s].kind = "bill" /\ OpenRed(Over(own, ledger), arg[s].id) = {}
               => OpenRed(Over(own, ledger'), arg[s].id) = {}
      BY <1>4, <2>5, <2>7, <3>2, LaterUndoes
    <3>4. QED BY <3>1, <3>3
  <2>8. Adds(mine[s], ledger) /\ Owned(mine[s], arg[s]) /\ Undoes(Over(mine[s], ledger))
    BY <2>3, <2>4 DEF Holds, Undone, Led
  <2>9. /\ Undoes(Led(s)')
        /\ arg[s].op = "cancel" /\ OpenRed(Led(s), arg[s].id) = {} => OpenRed(Led(s)', arg[s].id) = {}
    <3>1. Led(s)' = Over(mine[s], ledger') /\ Led(s) = Over(mine[s], ledger)
      BY <2>2 DEF Led
    <3>2. QED BY <2>7, <2>8, <3>1
  <2>10. ASSUME pc[s] = "insert"
         PROVE  /\ Undoes(Over(memo[s], Led(s)'))
                /\ arg[s].op = "cancel" => OpenRed(Over(memo[s], Led(s)'), arg[s].id) = {}
    <3> DEFINE own == Over(memo[s], mine[s])
    <3>1. DocRows(memo[s], Led(s), arg[s].kind, arg[s].id)
      BY <2>4, <2>10 DEF Pending, Plans
    <3>2. Adds(own, ledger)
      BY <2>8, <3>1, AddsTwice DEF DocRows, Led
    <3>3. Owned(own, arg[s])
      <4>1. DOMAIN own = DOMAIN memo[s] \cup DOMAIN mine[s]
        BY OverIs
      <4>2. QED BY <2>8, <3>1, <4>1 DEF Owned, DocRows
    <3>4. Over(own, ledger) = Over(memo[s], Led(s)) /\ Over(own, ledger') = Over(memo[s], Led(s)')
      BY <2>2, OverOver DEF Led
    <3> HIDE DEF own
    <3>5. /\ Undoes(Over(own, ledger))
          /\ arg[s].op = "cancel" => OpenRed(Over(own, ledger), arg[s].id) = {}
      BY <2>3, <2>10, <3>4 DEF Undone
    <3>6. /\ Undoes(Over(own, ledger'))
          /\ arg[s].op = "cancel" => OpenRed(Over(own, ledger'), arg[s].id) = {}
      BY <2>7, <3>2, <3>3, <3>5
    <3>7. QED BY <3>4, <3>6
  <2>11. Undone(s)'
    BY <2>2, <2>3, <2>9, <2>10 DEF Undone
  <2>12. QED BY <2>6, <2>11
<1>10. QED BY <1>7, <1>8, <1>9 DEF UndoInv

\* What was redeemed for a bill is returned when the bill is cancelled.
LEMMA UndoHolds == Spec => []UndoInv
<1>1. ASSUME Init PROVE UndoInv
  <2>1. ledger = NoRows /\ (\A b \in Bill : bills[b] = "NONE") /\ \A r \in Req : pc[r] = "idle"
    BY <1>1 DEF Init
  <2>2. Undoes(NoRows)
    BY NoRowsIs DEF Undoes
  <2>3. QED BY <2>1, <2>2 DEF UndoInv
<1>2. ASSUME IInv, UndoInv, [Next]_vars PROVE UndoInv'
  <2>1. CASE UNCHANGED vars
    <3>1. UNCHANGED <<ledger, bills, pc, arg, mine, memo>>
      BY <2>1 DEF vars, rows, txs
    <3>2. \A r \in Req : Led(r)' = Led(r)
      BY <3>1 DEF Led
    <3>3. QED BY <1>2, <3>1, <3>2 DEF UndoInv, Status, Undone
  <2>2. ASSUME NEW r \in Req, Step(r) PROVE UndoInv'
    <3>1. /\ Beside(r)
          /\ \/ Arrived(r) \/ Ended(r) \/ Looking(r) \/ Planning(r)
             \/ Inserting(r) \/ SettingLots(r) \/ SettingWallet(r) \/ Committing(r)
      BY <1>2, <2>2, StepIs
    <3>2. QED BY <1>2, <3>1, StepUndoes, PlanUndoes, CommitUndoes
  <2>3. QED BY <1>2, <2>1, <2>2, NextIs
<1>3. QED BY <1>1, <1>2, InvHolds, PTL DEF Spec

\* A cancelled bill has spent nothing, amended and re-tendered before or not:
\* reverseForCancel returns what stands and reversedIds keeps it to once.
THEOREM CancelReturnsAll == Spec => []CancelledSpentNothing
<1>1. ASSUME IInv, UndoInv PROVE CancelledSpentNothing
  <2>1. Book(ledger) /\ Undoes(ledger) /\ \A b \in Bill : bills[b] = "CANCELLED" => OpenRed(ledger, b) = {}
    BY <1>1 DEF IInv, BookInv, UndoInv
  <2>2. \A b \in Bill : bills[b] = "CANCELLED" => Points(ledger, Red(ledger, b)) = 0
    BY <2>1, UndoneIsNothing
  <2>3. QED BY <2>2 DEF CancelledSpentNothing, Points, Red
<1>2. QED BY <1>1, InvHolds, UndoHolds, PTL

-----------------------------------------------------------------------------
(* Draws leave the caches exact. *)

\* The sums written for the lots a request drew on are those of the rows.
Exact(r) ==
  \A k \in DOMAIN mine[r] : mine[r][k].lot # None /\ mine[r][k].of = None =>
    mine[r][k].lot \in DOMAIN Written(r) /\ Written(r)[mine[r][k].lot] = Consumed(Led(r), mine[r][k].lot)

\* So are those of the wallet, between the calls.
Summed(r) ==
  /\ pc[r] \in {"plan", "commit"} /\ DOMAIN mine[r] # {} => purse[r] = Total(Led(r))
  /\ pc[r] = "setWallet" => memo[r] = Total(Led(r))

\* A request with one call has written nothing before it.
Once(r) == arg[r].op \notin {"post", "amend"} /\ pc[r] \in {"look", "plan", "insert"} => mine[r] = NoRows

ExactInv == \A r \in Req : pc[r] # "idle" => Once(r) /\ (memLock = r => Summed(r) /\ Exact(r))

\* A sale locks the wallet only to redeem.
LEMMA SaleLocks ==
  ASSUME NEW op \in {"post", "amend"}, NEW js, js \in Calls(op), js # <<>>, Head(js) \in Locking
  PROVE  Head(js) = "redeem"
<1>1. js \in {<<"earn">>, <<"redeem">>, <<"redeem", "earn">>} \cup Reversing
  <2>1. CASE op = "post"
    BY <2>1 DEF Calls
  <2>2. CASE op = "amend"
    BY <2>2 DEF Calls
  <2>3. QED BY <2>1, <2>2
<1>2. Head(js) \in {"earn", "redeem", "reverse"}
  BY <1>1, Shorter DEF Reversing
<1>3. "earn" \notin Locking /\ "reverse" \notin Locking
  BY DEF Locking
<1>4. QED BY <1>2, <1>3

\* What others commit while a request holds the wallet leaves its sums exact.
LEMMA ExactBeside ==
  ASSUME IInv, ExactInv, NEW r \in Req, Beside(r), ledger' = ledger \/ Committing(r),
         NEW s \in Req, s # r, pc'[s] # "idle"
  PROVE  Once(s)' /\ (memLock' = s => Summed(s)' /\ Exact(s)')
<1>1. /\ pc'[s] = pc[s] /\ arg'[s] = arg[s] /\ mine'[s] = mine[s] /\ used'[s] = used[s] /\ memo'[s] = memo[s]
      /\ purse'[s] = purse[s] /\ (memLock' = s <=> memLock = s)
  BY DEF Beside
<1>2. Once(s) /\ (memLock = s => Summed(s) /\ Exact(s))
  BY <1>1 DEF ExactInv
<1>3. Once(s)'
  BY <1>1, <1>2 DEF Once
<1>4. Written(s)' = Written(s)
  BY <1>1 DEF Written
<1>5. ASSUME memLock = s PROVE Alike(Led(s)', Led(s))
  <2>1. CASE ledger' = ledger
    <3>1. Led(s)' = Led(s)
      BY <1>1, <2>1 DEF Led
    <3>2. QED BY <3>1 DEF Alike
  <2>2. CASE Committing(r)
    <3>1. pc[r] = "commit" /\ ledger' = Visible(r)
      BY <2>2 DEF Committing
    <3>2. /\ BookInv /\ Locked /\ (memLock = s => memShare \subseteq {s})
      BY <1>1, <3>1, Before
    <3>3. mine[r] = NoRows
      BY <1>5, <3>2 DEF Locked
    <3>4. Alike(ledger', Led(r)) /\ Led(r) = Over(NoRows, ledger)
      BY <3>1, <3>2, <3>3, SeenIs DEF Led
    <3>5. Alike(Over(NoRows, ledger), ledger)
      BY NoRowsIs DEF Over, Alike
    <3>6. Alike(ledger', ledger)
      BY <3>4, <3>5 DEF Alike
    <3>7. Led(s)' = Over(mine[s], ledger') /\ Led(s) = Over(mine[s], ledger)
      BY <1>1 DEF Led
    <3>8. QED BY <3>6, <3>7, AlikeOver
  <2>3. QED BY <2>1, <2>2
<1>6. ASSUME memLock = s PROVE Summed(s)' /\ Exact(s)'
  <2>1. (\A lot : Consumed(Led(s)', lot) = Consumed(Led(s), lot)) /\ Total(Led(s)') = Total(Led(s))
    BY <1>5, <1>6, AlikeSums
  <2>2. QED BY <1>1, <1>2, <1>4, <1>6, <2>1 DEF Summed, Exact
<1>7. QED BY <1>1, <1>3, <1>6

\* Before it locks the wallet a request has drawn on nothing.
LEMMA UnlockedExact ==
  ASSUME IInv, NEW r \in Req, pc[r] # "idle", memLock # r
  PROVE  Exact(r)
<1>1. Holds(r)
  BY Before
<1>2. Adds(mine[r], ledger) /\ Gives(mine[r])
  BY <1>1 DEF Holds
<1>3. ASSUME NEW k \in DOMAIN mine[r], mine[r][k].lot # None, mine[r][k].of = None PROVE FALSE
  <2>1. Proper(k, mine[r][k]) /\ mine[r][k].pts > 0
    BY <1>2, <1>3 DEF Adds, Gives
  <2>2. mine[r][k].pts < 0 /\ mine[r][k].pts \in Int
    BY <1>3, <2>1 DEF Proper, LedgerRow
  <2>3. QED BY <2>1, <2>2
<1>4. QED BY <1>3 DEF Exact

\* A request that has just locked the wallet writes before it ends, or has
\* nothing to write.
LEMMA PlanExact ==
  ASSUME IInv, ExactInv, NEW r \in Req, Planning(r)
  PROVE  Once(r)' /\ (memLock' = r => Summed(r)' /\ Exact(r)')
<1> DEFINE new == Planned(r, Visible(r))
           start == Start(Tail(jobs[r]))
<1>1. /\ pc[r] = "plan" /\ UNCHANGED <<ledger, arg, mine, used, purse>> /\ ~Refused(r, Visible(r))
      /\ Head(jobs[r]) \notin Locking => memLock' = memLock
      /\ \/ DOMAIN new = {} /\ pc'[r] = start
         \/ DOMAIN new # {} /\ pc'[r] = "insert"
  BY DEF Planning, SameRows
<1>2. jobs[r] # <<>> /\ Found(r, new)
  BY <1>1, CallFinds
<1>3. Asks(pc[r], jobs[r], arg[r], adjs) /\ adjs \in Nat
  BY <1>1, Before
<1>4. start \in {"plan", "commit"} /\ (arg[r].op \notin {"post", "amend"} => start = "commit")
  BY <1>1, <1>2, <1>3, NextCall
<1>5. Once(r) /\ (memLock = r => Summed(r) /\ Exact(r))
  BY <1>1 DEF ExactInv
<1>6. Head(jobs[r]) = "redeem" => DOMAIN new # {}
  BY <1>1, <1>2 DEF Found
<1> HIDE DEF new, start
<1>7. Led(r)' = Led(r) /\ Written(r)' = used[r] /\ Written(r) = used[r]
  BY <1>1, <1>4 DEF Led, Written
<1>8. Exact(r)
  BY <1>1, <1>5, UnlockedExact
<1>9. Exact(r)'
  BY <1>1, <1>7, <1>8 DEF Exact
<1>10. Once(r)'
  BY <1>1, <1>4, <1>5 DEF Once
<1>11. ASSUME memLock' = r PROVE Summed(r)'
  <2>1. CASE pc'[r] = "insert"
    BY <2>1 DEF Summed
  <2>2. CASE DOMAIN new = {} /\ pc'[r] = start
    <3>1. CASE DOMAIN mine[r] = {}
      BY <1>1, <1>4, <2>2, <3>1 DEF Summed
    <3>2. CASE DOMAIN mine[r] # {}
      <4>1. arg[r].op \in {"post", "amend"}
        BY <1>1, <1>5, <3>2, NoRowsIs DEF Once
      <4>2. jobs[r] \in Calls(arg[r].op)
        BY <1>3 DEF Asks
      <4>3. Head(jobs[r]) \notin Locking
        BY <1>2, <1>6, <2>2, <4>1, <4>2, SaleLocks
      <4>4. memLock = r
        BY <1>1, <1>11, <4>3
      <4>5. purse[r] = Total(Led(r))
        BY <1>1, <1>5, <3>2, <4>4 DEF Summed
      <4>6. QED BY <1>1, <1>4, <1>7, <2>2, <4>5 DEF Summed
    <3>3. QED BY <3>1, <3>2
  <2>3. QED BY <1>1, <2>1, <2>2
<1>12. QED BY <1>9, <1>10, <1>11

\* The rows inserted change the sums of the lots they touch, and of no other.
LEMMA InsertExact ==
  ASSUME IInv, ExactInv, NEW r \in Req, Inserting(r), memLock = r
  PROVE  Summed(r)' /\ Exact(r)'
<1> DEFINE new == memo[r]
           lots == Touched(new) \ {None}
           all == Over(Over(new, mine[r]), ledger)
<1>1. /\ pc[r] = "insert" /\ UNCHANGED <<ledger, used>> /\ mine'[r] = Over(new, mine[r])
      /\ \/ pc'[r] = "setWallet" /\ lots = {} /\ memo'[r] = Total(all)
         \/ pc'[r] = "setLots" /\ memo'[r] = [k \in lots |-> Consumed(all, k)]
  BY DEF Inserting, SameRows
<1>2. BookInv /\ Pending(r) /\ Holds(r)
  BY <1>1, Before
<1>3. /\ Adds(mine[r], ledger) /\ DocRows(new, Led(r), arg[r].kind, arg[r].id)
  BY <1>1, <1>2 DEF Holds, Pending, Plans
<1>4. Exact(r) /\ Written(r) = used[r]
  BY <1>1 DEF ExactInv, Written
<1>5. Led(r)' = all /\ all = Over(new, Led(r))
  BY <1>1, OverOver DEF Led
<1>6. Book(Led(r))
  BY <1>1, <1>2, SeenIs
<1>7. Rows(new) /\ Rows(Led(r)) /\ Apart(new, Led(r))
  BY <1>3, <1>6, AddsRows, BookRows DEF DocRows
<1>8. /\ DOMAIN mine'[r] = DOMAIN new \cup DOMAIN mine[r]
      /\ \A k \in DOMAIN new : mine'[r][k] = new[k]
      /\ \A k \in DOMAIN mine[r] : k \notin DOMAIN new => mine'[r][k] = mine[r][k]
  BY <1>1 DEF Over
<1> HIDE DEF all, new
<1>9. ASSUME NEW lot \in lots
      PROVE  lot \in DOMAIN Written(r)' /\ Written(r)'[lot] = Consumed(all, lot)
  <2>1. pc'[r] = "setLots" /\ memo'[r] = [k \in lots |-> Consumed(all, k)]
    BY <1>1
  <2> HIDE DEF lots
  <2>2. lot \in DOMAIN memo'[r] /\ memo'[r][lot] = Consumed(all, lot)
    BY <2>1
  <2>3. Written(r)' = Over(memo'[r], used[r])
    BY <1>1, <2>1 DEF Written
  <2>4. QED BY <2>2, <2>3 DEF Over
<1>10. ASSUME NEW lot, lot \notin lots, lot # None, LotKey(lot), lot \in DOMAIN used[r]
       PROVE  /\ lot \in DOMAIN Written(r)' /\ Written(r)'[lot] = used[r][lot]
              /\ Consumed(all, lot) = Consumed(Led(r), lot)
  <2>1. lot \in DOMAIN Written(r)' /\ Written(r)'[lot] = used[r][lot]
    <3>1. CASE pc'[r] = "setWallet"
      BY <1>1, <1>10, <3>1 DEF Written
    <3>2. CASE pc'[r] = "setLots" /\ memo'[r] = [k \in lots |-> Consumed(all, k)]
      <4> HIDE DEF lots
      <4>1. lot \notin DOMAIN memo'[r]
        BY <1>10, <3>2
      <4>2. Written(r)' = Over(memo'[r], used[r])
        BY <1>1, <3>2 DEF Written
      <4>3. QED BY <1>10, <4>1, <4>2 DEF Over
    <3>3. QED BY <1>1, <3>1, <3>2
  <2>2. AboutLot(new, lot) = {}
    <3>1. ASSUME NEW k \in DOMAIN new, new[k].lot = lot \/ new[k].of = lot PROVE FALSE
      <4>1. CASE new[k].lot = lot
        BY <1>10, <4>1 DEF Touched
      <4>2. CASE new[k].of = lot
        <5>1. Proper(k, new[k])
          BY <1>3 DEF DocRows, Adds
        <5>2. k[3] = "EARN"
          BY <1>10, <4>2, <5>1 DEF Proper, LotKey
        <5>3. QED BY <1>10, <4>2, <5>2 DEF Touched
      <4>3. QED BY <3>1, <4>1, <4>2
    <3>2. QED BY <3>1 DEF AboutLot
  <2>3. Consumed(new, lot) = 0
    BY <2>2, Unconsumed
  <2>4. Consumed(all, lot) = Consumed(new, lot) + Consumed(Led(r), lot)
    BY <1>5, <1>7, LotSums
  <2>5. Consumed(Led(r), lot) \in Int
    BY <1>7, LotInts
  <2>6. QED BY <2>1, <2>3, <2>4, <2>5
<1>11. ASSUME NEW k \in DOMAIN mine'[r], mine'[r][k].lot # None, mine'[r][k].of = None
       PROVE  /\ mine'[r][k].lot \in DOMAIN Written(r)'
              /\ Written(r)'[mine'[r][k].lot] = Consumed(all, mine'[r][k].lot)
  <2>1. CASE k \in DOMAIN new
    <3>1. new[k].lot \in lots /\ mine'[r][k].lot = new[k].lot
      BY <1>8, <1>11, <2>1 DEF Touched
    <3>2. QED BY <1>9, <3>1
  <2>2. CASE k \in DOMAIN mine[r] /\ k \notin DOMAIN new
    <3>1. mine'[r][k] = mine[r][k]
      BY <1>8, <2>2
    <3>2. /\ mine[r][k].lot \in DOMAIN used[r]
          /\ used[r][mine[r][k].lot] = Consumed(Led(r), mine[r][k].lot)
      BY <1>4, <1>11, <2>2, <3>1 DEF Exact
    <3>3. LotKey(mine[r][k].lot) /\ mine[r][k].lot # None
      BY <1>3, <1>11, <2>2, <3>1 DEF Adds, Proper
    <3>4. CASE mine[r][k].lot \in lots
      BY <1>9, <3>1, <3>4
    <3>5. CASE mine[r][k].lot \notin lots
      <4>1. /\ mine[r][k].lot \in DOMAIN Written(r)' /\ Written(r)'[mine[r][k].lot] = used[r][mine[r][k].lot]
            /\ Consumed(all, mine[r][k].lot) = Consumed(Led(r), mine[r][k].lot)
        BY <1>10, <3>2, <3>3, <3>5
      <4>2. QED BY <3>1, <3>2, <4>1
    <3>6. QED BY <3>4, <3>5
  <2>3. QED BY <1>8, <1>11, <2>1, <2>2
<1>12. Exact(r)'
  BY <1>5, <1>11 DEF Exact
<1>13. Summed(r)'
  BY <1>1, <1>5 DEF Summed
<1>14. QED BY <1>12, <1>13

\* Every step keeps the sums exact.
LEMMA StepExact ==
  ASSUME IInv, ExactInv, NEW r \in Req, Step(r)
  PROVE  ExactInv'
<1>1. /\ IInv' /\ Beside(r)
      /\ \/ Arrived(r) \/ Ended(r) \/ Looking(r) \/ Planning(r)
         \/ Inserting(r) \/ SettingLots(r) \/ SettingWallet(r) \/ Committing(r)
  BY StepIs
<1> DEFINE Own == pc'[r] # "idle" => Once(r)' /\ (memLock' = r => Summed(r)' /\ Exact(r)')
<1>2. ASSUME Arrived(r) PROVE Own
  <2>1. pc[r] = "idle" /\ pc'[r] \in {"plan", "look", "commit"} /\ UNCHANGED <<mine, memLock>>
    BY <1>2 DEF Arrived, locks
  <2>2. r \notin memShare /\ memLock # r
    BY <2>1, SomeReq DEF IInv, Locked
  <2>3. mine'[r] = NoRows /\ memLock' # r
    BY <2>1, <2>2 DEF IInv, Locked
  <2>4. QED BY <2>3 DEF Once
<1>3. ASSUME Ended(r) PROVE Own
  BY <1>3 DEF Ended
<1>4. ASSUME Looking(r) PROVE Own
  <2>1. /\ pc[r] = "look" /\ pc'[r] \in {"plan", "commit"} /\ UNCHANGED <<mine, memLock>>
        /\ arg[r].op = "return"
    BY <1>4 DEF Looking, locks
  <2>2. mine'[r] = NoRows
    BY <2>1 DEF ExactInv, Once
  <2>3. DOMAIN mine'[r] = {}
    BY <2>2, NoRowsIs
  <2>4. QED BY <2>1, <2>2, <2>3 DEF Once, Summed, Exact
<1>5. ASSUME Planning(r) PROVE Own
  BY <1>5, PlanExact
<1>6. ASSUME Inserting(r) PROVE Own
  <2>1. memLock' = memLock /\ pc'[r] \in {"setLots", "setWallet"}
    BY <1>6 DEF Inserting
  <2>2. Once(r)'
    BY <2>1 DEF Once
  <2>3. QED BY <1>6, <2>1, <2>2, InsertExact
<1>7. ASSUME SettingLots(r) PROVE Own
  <2>1. /\ pc[r] = "setLots" /\ pc'[r] = "setWallet" /\ UNCHANGED <<ledger, memLock, mine>>
        /\ used'[r] = Over(memo[r], used[r]) /\ memo'[r] = Total(Led(r))
    BY <1>7 DEF SettingLots, SameRows
  <2>2. memLock = r => Exact(r)
    BY <2>1 DEF ExactInv
  <2>3. Written(r)' = Written(r) /\ Led(r)' = Led(r)
    BY <2>1 DEF Written, Led
  <2>4. memLock' = r => Exact(r)'
    BY <2>1, <2>2, <2>3 DEF Exact
  <2>5. Once(r)' /\ Summed(r)'
    BY <2>1, <2>3 DEF Once, Summed
  <2>6. QED BY <2>4, <2>5
<1>8. ASSUME SettingWallet(r) PROVE Own
  <2>1. /\ pc[r] = "setWallet" /\ pc'[r] = Start(Tail(jobs[r])) /\ UNCHANGED <<ledger, memLock, mine, used, arg>>
        /\ purse'[r] = memo[r]
    BY <1>8 DEF SettingWallet, SameRows
  <2>2. Asks(pc[r], jobs[r], arg[r], adjs) /\ adjs \in Nat
    BY <2>1, Before
  <2>3. jobs[r] # <<>>
    BY <2>1, <2>2 DEF Asks
  <2>4. pc'[r] \in {"plan", "commit"} /\ (arg[r].op \notin {"post", "amend"} => pc'[r] = "commit")
    BY <2>1, <2>2, <2>3, NextCall
  <2>5. memLock = r => memo[r] = Total(Led(r)) /\ Exact(r)
    BY <2>1 DEF ExactInv, Summed
  <2>6. Written(r)' = Written(r) /\ Led(r)' = Led(r)
    BY <2>1, <2>4 DEF Written, Led
  <2>7. memLock' = r => Exact(r)'
    BY <2>1, <2>5, <2>6 DEF Exact
  <2>8. memLock' = r => Summed(r)'
    BY <2>1, <2>4, <2>5, <2>6 DEF Summed
  <2>9. Once(r)'
    BY <2>1, <2>4 DEF Once
  <2>10. QED BY <2>7, <2>8, <2>9
<1>9. ASSUME Committing(r) PROVE Own
  BY <1>9 DEF Committing
<1>10. Own
  BY <1>1, <1>2, <1>3, <1>4, <1>5, <1>6, <1>7, <1>8, <1>9
<1>11. ledger' = ledger \/ Committing(r)
  BY <1>1 DEF Arrived, Ended, Looking, Planning, Inserting, SettingLots, SettingWallet, SameRows
<1>12. ASSUME NEW s \in Req, pc'[s] # "idle" PROVE Once(s)' /\ (memLock' = s => Summed(s)' /\ Exact(s)')
  <2>1. CASE s = r
    BY <1>10, <1>12, <2>1
  <2>2. CASE s # r
    BY <1>1, <1>11, <1>12, <2>2, ExactBeside
  <2>3. QED BY <2>1, <2>2
<1>13. QED BY <1>12 DEF ExactInv

\* The sums of a request that holds the wallet are exact.
LEMMA ExactHolds == Spec => []ExactInv
<1>1. ASSUME Init PROVE ExactInv
  <2>1. \A r \in Req : pc[r] = "idle"
    BY <1>1 DEF Init
  <2>2. QED BY <2>1 DEF ExactInv
<1>2. ASSUME IInv, ExactInv, [Next]_vars PROVE ExactInv'
  <2>1. CASE UNCHANGED vars
    <3>1. UNCHANGED <<ledger, memLock, pc, arg, mine, used, memo, purse>>
      BY <2>1 DEF vars, rows, locks, txs
    <3>2. \A r \in Req : Led(r)' = Led(r) /\ Written(r)' = Written(r)
      BY <3>1 DEF Led, Written
    <3>3. QED BY <1>2, <3>1, <3>2 DEF ExactInv, Once, Summed, Exact
  <2>2. QED BY <1>2, <2>1, NextIs, StepExact
<1>3. QED BY <1>1, <1>2, InvHolds, PTL DEF Spec

\* A request that commits while it holds the wallet, having written rows.
DrawsExactly ==
  \A r \in Req :
    (memLock = r /\ memLock' = None /\ DOMAIN mine[r] # {} /\ ledger' # ledger) =>
      /\ wallet' = Total(ledger')
      /\ \A k \in DOMAIN mine[r] :
           (mine[r][k].lot # None /\ mine[r][k].of = None) =>
             ledger'[mine[r][k].lot].used = Consumed(ledger', mine[r][k].lot)

\* It leaves the wallet and the lots it drew on as the rows say.
LEMMA CommitExact ==
  ASSUME IInv, ExactInv, [Next]_vars
  PROVE  DrawsExactly
<1> SUFFICES ASSUME NEW r \in Req, memLock = r, memLock' = None, DOMAIN mine[r] # {}, ledger' # ledger
             PROVE  /\ wallet' = Total(ledger')
                    /\ \A k \in DOMAIN mine[r] :
                         (mine[r][k].lot # None /\ mine[r][k].of = None) =>
                           ledger'[mine[r][k].lot].used = Consumed(ledger', mine[r][k].lot)
  BY DEF DrawsExactly
<1>1. PICK s \in Req : Step(s)
  <2>1. ~UNCHANGED vars
    BY DEF vars, rows
  <2>2. QED BY <2>1, NextIs
<1>2. /\ Beside(s)
      /\ \/ Arrived(s) \/ Ended(s) \/ Looking(s) \/ Planning(s)
         \/ Inserting(s) \/ SettingLots(s) \/ SettingWallet(s) \/ Committing(s)
  BY <1>1, StepIs
<1>3. Committing(s)
  BY <1>2 DEF Arrived, Ended, Looking, Planning, Inserting, SettingLots, SettingWallet, SameRows
<1>4. s = r
  BY <1>2, SomeReq DEF Beside
<1>5. pc[r] = "commit" /\ ledger' = Visible(r) /\ wallet' = SeenWallet(r)
  BY <1>3, <1>4 DEF Committing
<1>6. BookInv /\ Holds(r)
  BY <1>5, Before
<1>7. Summed(r) /\ Exact(r)
  BY <1>5 DEF ExactInv
<1>8. /\ Book(Led(r)) /\ Alike(ledger', Led(r)) /\ Sums(used[r]) /\ ledger' = Updated(Led(r), used[r])
  BY <1>5, <1>6, SeenIs
<1>9. (\A lot : Consumed(ledger', lot) = Consumed(Led(r), lot)) /\ Total(ledger') = Total(Led(r))
  BY <1>8, AlikeSums
<1>10. wallet' = Total(ledger')
  <2>1. purse[r] = Total(Led(r))
    BY <1>5, <1>7 DEF Summed
  <2>2. Total(Led(r)) \in Int
    BY <1>8, BookRows, LotInts
  <2>3. purse[r] # None
    BY <2>1, <2>2, RequestAssumption
  <2>4. QED BY <1>5, <1>9, <2>1, <2>3 DEF SeenWallet
<1>11. ASSUME NEW k \in DOMAIN mine[r], mine[r][k].lot # None, mine[r][k].of = None
       PROVE  ledger'[mine[r][k].lot].used = Consumed(ledger', mine[r][k].lot)
  <2>1. Written(r) = used[r]
    BY <1>5 DEF Written
  <2>2. mine[r][k].lot \in DOMAIN used[r] /\ used[r][mine[r][k].lot] = Consumed(Led(r), mine[r][k].lot)
    BY <1>7, <1>11, <2>1 DEF Exact
  <2>3. mine[r][k].lot \in DOMAIN Led(r)
    <3>1. mine[r][k].lot \in DOMAIN mine[r] \cup DOMAIN ledger
      BY <1>6, <1>11 DEF Holds, Adds, Names
    <3>2. QED BY <3>1, OverIs DEF Led
  <2>4. ledger'[mine[r][k].lot].used = used[r][mine[r][k].lot]
    BY <1>8, <2>2, <2>3, UpdatedIs
  <2>5. QED BY <1>9, <2>2, <2>4
<1>12. QED BY <1>10, <1>11

\* A draw leaves the wallet and the lots it drew on exactly as the rows say:
\* behind FOR UPDATE nobody writes rows between its sums and its commit.
THEOREM DrawRepairs == Spec => DrawLeavesExact
<1>1. IInv /\ ExactInv /\ [Next]_vars => DrawsExactly
  BY CommitExact
<1>2. QED BY <1>1, InvHolds, ExactHolds, PTL DEF Spec, DrawLeavesExact, DrawsExactly
=============================================================================
