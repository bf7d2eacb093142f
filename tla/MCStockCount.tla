---------------------------- MODULE MCStockCount ----------------------------
(* Small instances of StockCount for TLC: two sheets, one movement. *)
EXTENDS StockCount, TLC

CONSTANTS c1, c2, m1, r1, r2

Sheets == {c1, c2}
OneMove == {m1}
Sold == m1 :> -1
AllInside == {c1, c2, m1}

Requests == Permutations(Req)

=============================================================================
