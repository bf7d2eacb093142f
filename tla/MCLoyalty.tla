----------------------------- MODULE MCLoyalty ------------------------------
(* Small instances of Loyalty for TLC. *)
EXTENDS Loyalty, TLC

CONSTANTS r1, r2

\* Two bills that earn one point each, the second of them still cooling.
TwoBills == {1, 2}
OneEach == [b \in TwoBills |-> 1]

\* The second bill may pay with the points of the first.
SecondSpends == 1 :> {0} @@ 2 :> {0, 1}

\* A goodwill point, or a point taken back.
GiveOrTake == {1, -1}

Requests == Permutations(Req)

=============================================================================
