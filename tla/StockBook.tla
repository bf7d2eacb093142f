----------------------------- MODULE StockBook ------------------------------
(***************************************************************************)
(* What the stock documents promise, without requests, locks, ledger rows  *)
(* or rebuilds: one book in which a document is entered once, all of its   *)
(* lines at a time, and struck out once.  The on-hand figure is kept by    *)
(* adding and subtracting; StockVoucher recomputes it from the ledger in   *)
(* the middle of a transaction, and is shown to implement this.            *)
(***************************************************************************)
EXTENDS Integers

CONSTANTS Doc, KindOf, Item, Policy, Sheet

VARIABLES
  life,    \* where a document stands
  entry,   \* what the document has in the book now, per item
  onHand   \* what the book says is there, per item

bookVars == <<life, entry, onHand>>

Nothing == [i \in Item |-> 0]

Init ==
  /\ life = [d \in Doc |-> "ABSENT"]
  /\ entry = [d \in Doc |-> Nothing]
  /\ onHand = Nothing

\* A movement is allowed when no item it touches that must not go below zero
\* does: an item whose policy is BLOCK, or any item when strict is set.
Allowed(move, strict) ==
  \A i \in Item : (move[i] # 0 /\ (strict \/ Policy[i] = "BLOCK")) => onHand[i] + move[i] >= 0

\* No other document opens an item that this one opens.
FirstOpening(d, f) ==
  KindOf[d] = "OPENING" =>
    \A e \in Doc \ {d}, i \in Item : KindOf[e] = "OPENING" /\ f[i] # 0 => entry[e][i] = 0

\* A draft is written or rewritten: nothing is in the book.
Draft(d) ==
  /\ life[d] = "ABSENT" /\ KindOf[d] # "SALE"
  /\ life' = [life EXCEPT ![d] = "DRAFT"]
  /\ UNCHANGED <<entry, onHand>>

\* A draft is given up.
Void(d) ==
  /\ life[d] = "DRAFT"
  /\ life' = [life EXCEPT ![d] = "CANCELLED"]
  /\ UNCHANGED <<entry, onHand>>

\* The document is entered.
Enter(d, f) ==
  /\ life[d] \in {"ABSENT", "DRAFT"}
  /\ FirstOpening(d, f)
  /\ Allowed(f, KindOf[d] = "ADJUST")
  /\ life' = [life EXCEPT ![d] = "POSTED"]
  /\ entry' = [entry EXCEPT ![d] = f]
  /\ onHand' = [i \in Item |-> onHand[i] + f[i]]

\* The document is struck out, and can never be entered again.
Strike(d) ==
  /\ life[d] = "POSTED"
  /\ Allowed([i \in Item |-> 0 - entry[d][i]], KindOf[d] # "SALE")
  /\ life' = [life EXCEPT ![d] = "CANCELLED"]
  /\ entry' = [entry EXCEPT ![d] = Nothing]
  /\ onHand' = [i \in Item |-> onHand[i] - entry[d][i]]

Next == \E d \in Doc : Draft(d) \/ Void(d) \/ Strike(d) \/ \E f \in Sheet : Enter(d, f)

Spec == Init /\ [][Next]_bookVars

=============================================================================
