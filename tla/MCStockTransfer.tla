-------------------------- MODULE MCStockTransfer --------------------------
(* Small instances of StockTransfer for TLC. *)
EXTENDS StockTransfer, TLC

CONSTANTS b1, b2, g1, g2, g3, o1, o2, o3, n1, n2, la, lb, r1, r2

Goods(q, x) == [good |-> q, broken |-> x]

\* One despatch of two lots between branches, and its receipts.
TwoBranches == {b1, b2}
PairSites == {g1, g2}
PairBranch == g1 :> b1 @@ g2 :> b2
OneOut == {o1}
OneFrom == o1 :> g1
OneTo == o1 :> g2
TwoLots == {la, lb}
TwoLotLoad == o1 :> (la :> 2 @@ lb :> 1)
TwoLotClaims == {
  la :> Goods(1, 0) @@ lb :> Goods(1, 0),
  la :> Goods(1, 1) @@ lb :> Goods(0, 0),
  la :> Goods(0, 1) @@ lb :> Goods(0, 0)}
TwoLotOpening == g1 :> (la :> 2 @@ lb :> 1) @@ g2 :> (la :> 0 @@ lb :> 0)

\* Two despatches to one godown from two of the other branch, and a transfer
\* between those two that competes with them for the stock.
Sites == {g1, g2, g3}
Branches == g1 :> b1 @@ g2 :> b2 @@ g3 :> b1
ThreeOuts == {o1, o2, o3}
MixFrom == o1 :> g1 @@ o2 :> g3 @@ o3 :> g1
MixTo == o1 :> g2 @@ o2 :> g2 @@ o3 :> g3
OneLot == {la}
MixLoad == o1 :> (la :> 2) @@ o2 :> (la :> 1) @@ o3 :> (la :> 1)
OneLotClaims == {la :> Goods(1, 0), la :> Goods(1, 1)}
MixOpening == g1 :> (la :> 2) @@ g2 :> (la :> 0) @@ g3 :> (la :> 1)

Requests == Permutations(Req)

=============================================================================
