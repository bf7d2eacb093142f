--------------------------- MODULE MCStockVoucher ---------------------------
(* Small instances of StockVoucher for TLC. *)
EXTENDS StockVoucher, TLC

CONSTANTS d1, d2, d3, r1, r2

\* Two openings of one holding that race, and an adjustment out of it.
RaceDocs == {d1, d2, d3}
RaceKind == d1 :> "OPENING" @@ d2 :> "OPENING" @@ d3 :> "ADJUST"
OneItem == {1}
OneBlocked == 1 :> "BLOCK"
OneItemSheets == {1 :> 1, 1 :> -1}

\* A voucher and a sale on two items, one of each policy.  The lists overlap
\* in both items, in one, or not at all.
PairDocs == {d1, d2}
PairKind == d1 :> "ADJUST" @@ d2 :> "SALE"
TwoItems == {1, 2}
MixedPolicy == 1 :> "BLOCK" @@ 2 :> "ALLOW"
TwoItemSheets == {1 :> 1 @@ 2 :> 1, 1 :> -1 @@ 2 :> 0, 1 :> 0 @@ 2 :> -1, 1 :> -1 @@ 2 :> -1}

Requests == Permutations(Req)

=============================================================================
