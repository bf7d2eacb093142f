------------------------------ MODULE MCTill --------------------------------
(* Small instances of Till for TLC. *)
EXTENDS Till, TLC

CONSTANTS r1, r2, c1

\* Two sessions, one after the other.
Two == {1, 2}

\* The first takes a bill and moves cash both ways, the second neither.
FirstBills == 1 :> 1 @@ 2 :> 0
FirstMoves == {<<1, "TOP_UP">>, <<1, "DROP">>}

Requests == Permutations(Req)

=============================================================================
