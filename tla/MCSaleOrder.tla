---------------------------- MODULE MCSaleOrder ----------------------------
(* Instances of SaleOrder for TLC. *)
EXTENDS SaleOrder, TLC

CONSTANTS o1, o2, b1, b2, b3, r1, r2

\* Two orders that meet on item 1; the first has a line on item 2, of which
\* there is nothing to reserve.
TwoOrders == (1 :> o1) @@ (2 :> o1) @@ (3 :> o2)
CrossedItems == (1 :> 1) @@ (2 :> 2) @@ (3 :> 1)
Wanted == (1 :> 2) @@ (2 :> 1) @@ (3 :> 1)
Shelf == (1 :> 2) @@ (2 :> 0)

Takes(x, y, z) == (1 :> x) @@ (2 :> y) @@ (3 :> z)
ThreeBills == (b1 :> Takes(2, 0, 0)) @@ (b2 :> Takes(1, 0, 0)) @@ (b3 :> Takes(0, 1, 0))
Rebilled == {Takes(1, 0, 0)}

\* Both orders are only confirmed, billed and cancelled.
BilledOnly ==
  (o1 :> {"confirm", "cancel", "post", "savePost", "unpost", "rebill"}) @@
  (o2 :> {"confirm", "cancel"})

\* One line each, on one item: o1 is edited, cut and deleted while it is
\* billed, and o2 competes for the stock.
LineEach == (1 :> o1) @@ (2 :> o2)
SameItem == [l \in 1..2 |-> 1]
TwoAndOne == (1 :> 2) @@ (2 :> 1)
Two == 1 :> 2
PartBill == b1 :> ((1 :> 1) @@ (2 :> 0))
Edited == (o1 :> Op \ {"rebill"}) @@ (o2 :> {"confirm"})

Requests == Permutations({r1, r2})
=============================================================================
