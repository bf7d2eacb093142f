----------------------------- MODULE MCLotTotal -----------------------------
(* Small instances of LotTotal for TLC. *)
EXTENDS LotTotal, TLC

CONSTANTS b1, b2, m1, m2, m3, r1, r2, r3

\* One unit in each branch, both of which move.
TwoBranches == {b1, b2}
PairMoves == {m1, m2, m3}
PairAt == m1 :> b1 @@ m2 :> b2 @@ m3 :> b1
PairQty == m1 :> -1 @@ m2 :> -1 @@ m3 :> 1
PairOpening == b1 :> 1 @@ b2 :> 1
Scopes == {TwoBranches, {b1}}

Requests == Permutations(Req)

=============================================================================
