----------------------------- MODULE TillProofs -----------------------------
(***************************************************************************)
(* Proofs about Till, for every set of sessions, counters, amounts and     *)
(* requests.                                                               *)
(*                                                                         *)
(* Every step writes the rows of one session, so the invariant is a        *)
(* predicate on those rows: a step is shown to put rows in their place     *)
(* that satisfy it (Updates), and to spare the session of every other      *)
(* transaction in flight.                                                  *)
(***************************************************************************)
EXTENDS Till, SumLemmas

-----------------------------------------------------------------------------
(* The inductive invariant, on the rows of a session. *)

MovedIn(m) == m["TOP_UP"].amt - m["DROP"].amt
Differs(m) == \E k \in Kind : m[k].diff # 0
Due(row, m, b) == row.float + b + MovedIn(m)
Held(row, t) == t + (IF row.prev = None THEN 0 ELSE row.issued)

\* Nothing has happened in a session that is not open yet, only a count that
\* stands is closed, and only a closed session has disposed of its cash.
StageOK(row, g, m, b, f) ==
  /\ row.status = "NONE" =>
       /\ g = NoGap /\ \A k \in Kind : m[k] = NoMove
       /\ b = 0 /\ f = 0 /\ ~row.counted /\ ~row.pending
  /\ row.status # "NONE" => row.counter \in Counter
  /\ row.status # "CLOSED" => row.left = 0 /\ m["CLOSE_HANDOVER"] = NoMove
  /\ row.status = "CLOSED" => row.counted
  /\ row.counted => row.status \in {"COUNTING", "PENDING_APPROVAL", "CLOSED"}
  /\ row.left <= row.cash

\* A movement that does not stand is no row, a difference is of a bag that was
\* received, and a top-up is no bag.
MoveOK(mv) == (mv.amt = 0 => mv = NoMove) /\ (mv.diff # 0 => mv.receipt = "RECEIVED")
MovesOK(m) == (\A k \in Kind : MoveOK(m[k])) /\ m["TOP_UP"].receipt = "NONE"

\* The count that stands, its variance and the hand-over.
CountOK(row, g, m) ==
  /\ row.counted => g.amt = row.cash - row.expected /\ g.moved = MovedIn(m)
  /\ row.status = "CLOSED" => m["CLOSE_HANDOVER"].amt = row.cash - row.left

PendingOK(row, g, m) == row.pending <=> Differs(m) \/ g.st = "PENDING"

DrawerOK(row, m, b, t) ==
  row.status # "NONE" =>
    Held(row, t) = IF row.status = "CLOSED" THEN row.left + Due(row, m, b) - row.expected
                                            ELSE Due(row, m, b)

RowsOK(row, g, m, b, f, t) ==
  /\ StageOK(row, g, m, b, f) /\ MovesOK(m) /\ CountOK(row, g, m) /\ PendingOK(row, g, m)
  /\ DrawerOK(row, m, b, t)

SessionOK(s) == RowsOK(ses[s], gap[s], moves[s], bills[s], inflight[s], till[s])

\* An open in flight has its id to itself, and a fresh row to insert.
OpenOK(r) ==
  LET s == arg[r].s
      row == arg[r].row
  IN
  /\ s \in Session /\ ses[s].status = "NONE" /\ \A q \in Req \ {r} : arg[q].s # s
  /\ row.status = "OPEN" /\ row.counter \in Counter /\ row.left = 0 /\ ~row.counted /\ ~row.pending

\* A close in flight has the session locked, and what it read of it stands.
CloseOK(r) ==
  LET s == arg[r].s
      row == arg[r].row
      g == arg[r].gap
  IN
  /\ s \in Session /\ sLock[s] = r /\ ses[s].status \in Live
  /\ row.counter \in Counter /\ row.counted /\ g.st # "PENDING"
  /\ row.float = ses[s].float /\ row.prev = ses[s].prev /\ row.issued = ses[s].issued
  /\ g.amt = row.cash - row.expected /\ g.moved = MovedIn(moves[s])
  /\ row.pending <=> Differs(moves[s])
  /\ arg[r].left <= row.cash

\* A reopen in flight has the session locked, and its cash was not received.
ReopenOK(r) ==
  LET s == arg[r].s IN
  /\ s \in Session /\ sLock[s] = r
  /\ ses[s].status = "CLOSED" /\ moves[s]["CLOSE_HANDOVER"].receipt # "RECEIVED"

RequestOK(r) ==
  /\ pc[r] = "idle" => arg[r] = NoArg
  /\ pc[r] = "open" => OpenOK(r)
  /\ pc[r] = "close" => CloseOK(r)
  /\ pc[r] = "reopen" => ReopenOK(r)

TillInv ==
  TypeOK /\ (\A s \in Session : SessionOK(s)) /\ (\A r \in Req : RequestOK(r)) /\ AwaitingTies

-----------------------------------------------------------------------------
(* Sums over the bags. *)

\* What a bag has on the awaiting ledger, and all the bags of a session.
OnLedger(mv) == Waiting(mv) - mv.diff
Owed(m) == OnLedger(m["TOP_UP"]) + OnLedger(m["DROP"]) + OnLedger(m["CLOSE_HANDOVER"])

\* The kinds, one by one.
LEMMA Kinds == "TOP_UP" \in Kind /\ "DROP" \in Kind /\ "CLOSE_HANDOVER" \in Kind /\ IsFiniteSet(Kind)
<1>1. Kind = (({"TOP_UP"}) \cup {"DROP"}) \cup {"CLOSE_HANDOVER"}
  BY DEF Kind
<1>2. IsFiniteSet({"TOP_UP"})
  BY FS_Singleton
<1>3. IsFiniteSet({"TOP_UP"} \cup {"DROP"})
  BY <1>2, FS_AddElement
<1>4. IsFiniteSet(({"TOP_UP"} \cup {"DROP"}) \cup {"CLOSE_HANDOVER"})
  BY <1>3, FS_AddElement
<1>5. QED BY <1>1, <1>4 DEF Kind

\* A sum over the kinds is the sum of three.
LEMMA SumKinds ==
  ASSUME NEW f \in [Kind -> Int]
  PROVE  SumFunction(f) = f["TOP_UP"] + f["DROP"] + f["CLOSE_HANDOVER"]
<1> DEFINE a == f["TOP_UP"]
           b == f["DROP"]
           c == f["CLOSE_HANDOVER"]
           z == [k \in Kind |-> 0]
           f1 == [z EXCEPT !["TOP_UP"] = a]
           f2 == [f1 EXCEPT !["DROP"] = b]
           f3 == [f2 EXCEPT !["CLOSE_HANDOVER"] = c]
<1>0. a \in Int /\ b \in Int /\ c \in Int /\ IsFiniteSet(Kind)
  BY Kinds
<1>1. z \in [Kind -> Int] /\ f1 = [z EXCEPT !["TOP_UP"] = a] /\ SumFunction(z) = 0
  BY <1>0, ZeroSum
<1>2. f2 = [f1 EXCEPT !["DROP"] = b]
  OBVIOUS
<1>3. f3 = [f2 EXCEPT !["CLOSE_HANDOVER"] = c]
  OBVIOUS
<1>4. z["TOP_UP"] = 0 /\ f1["DROP"] = 0 /\ f2["CLOSE_HANDOVER"] = 0 /\ f3 = f
  BY <1>0, Kinds DEF Kind
<1> HIDE DEF a, b, c, z, f1, f2, f3
<1>5. f1 \in [Kind -> Int]
  BY <1>0, <1>1
<1>6. f2 \in [Kind -> Int]
  BY <1>0, <1>2, <1>5
<1>7. SumFunction(f1) = SumFunction(z) - z["TOP_UP"] + a
  BY <1>0, <1>1, Kinds, SumUpdate
<1>8. SumFunction(f2) = SumFunction(f1) - f1["DROP"] + b
  BY <1>0, <1>5, <1>2, Kinds, SumUpdate
<1>9. SumFunction(f3) = SumFunction(f2) - f2["CLOSE_HANDOVER"] + c
  BY <1>0, <1>6, <1>3, Kinds, SumUpdate
<1>10. SumFunction(f3) = a + b + c
  BY <1>0, <1>1, <1>4, <1>7, <1>8, <1>9
<1>11. QED BY <1>4, <1>10 DEF a, b, c

\* What the bags of one session add to a sum over all of them.
LEMMA SumSession ==
  ASSUME NEW f \in [Session \X Kind -> Int], NEW g \in [Session \X Kind -> Int], NEW s \in Session,
         \A t \in Session, k \in Kind : t # s => g[<<t, k>>] = f[<<t, k>>]
  PROVE  SumFunction(g) = SumFunction(f)
           + ((g[<<s, "TOP_UP">>] + g[<<s, "DROP">>] + g[<<s, "CLOSE_HANDOVER">>])
              - (f[<<s, "TOP_UP">>] + f[<<s, "DROP">>] + f[<<s, "CLOSE_HANDOVER">>]))
<1> DEFINE D == Session \X Kind
           x == <<s, "TOP_UP">>
           y == <<s, "DROP">>
           w == <<s, "CLOSE_HANDOVER">>
           a == g[x]
           b == g[y]
           c == g[w]
           f1 == [f EXCEPT ![x] = a]
           f2 == [f1 EXCEPT ![y] = b]
           f3 == [f2 EXCEPT ![w] = c]
<1>0. IsFiniteSet(D)
  BY Kinds, SessionAssumption, FS_Product
<1>1. x \in D /\ y \in D /\ w \in D /\ x # y /\ x # w /\ y # w
  BY Kinds
<1>2. a \in Int /\ b \in Int /\ c \in Int
  BY <1>1
<1>3. f3 = g
  <2>1. \A d \in D : f3[d] = g[d]
    <3> SUFFICES ASSUME NEW t \in Session, NEW k \in Kind PROVE f3[<<t, k>>] = g[<<t, k>>]
      OBVIOUS
    <3>1. CASE t # s
      BY <3>1
    <3>2. CASE t = s
      BY <3>2, <1>1 DEF Kind
    <3>3. QED BY <3>1, <3>2
  <2>2. f3 \in [D -> Int]
    BY <1>2
  <2> HIDE DEF f3, D
  <2>3. g \in [D -> Int]
    BY DEF D
  <2>4. QED BY <2>1, <2>2, <2>3
<1>4. f \in [D -> Int] /\ f1 = [f EXCEPT ![x] = a]
  OBVIOUS
<1>5. f2 = [f1 EXCEPT ![y] = b]
  OBVIOUS
<1>6. f3 = [f2 EXCEPT ![w] = c]
  OBVIOUS
<1> HIDE DEF D, x, y, w, a, b, c, f1, f2, f3
<1>7. f1 \in [D -> Int] /\ f1[y] = f[y] /\ f1[w] = f[w]
  BY <1>1, <1>2, <1>4
<1>8. f2 \in [D -> Int] /\ f2[w] = f[w]
  BY <1>1, <1>2, <1>5, <1>7
<1>9. SumFunction(f1) = SumFunction(f) - f[x] + a
  BY <1>0, <1>1, <1>2, <1>4, SumUpdate
<1>10. SumFunction(f2) = SumFunction(f1) - f1[y] + b
  BY <1>0, <1>1, <1>2, <1>5, <1>7, SumUpdate
<1>11. SumFunction(f3) = SumFunction(f2) - f2[w] + c
  BY <1>0, <1>1, <1>2, <1>6, <1>8, SumUpdate
<1>12. SumFunction(f) \in Int /\ f[x] \in Int /\ f[y] \in Int /\ f[w] \in Int
  BY <1>0, <1>1, <1>4, SumType
<1>13. SumFunction(g) = SumFunction(f) + ((a + b + c) - (f[x] + f[y] + f[w]))
  BY <1>2, <1>3, <1>7, <1>8, <1>9, <1>10, <1>11, <1>12
<1>14. QED BY <1>13 DEF a, b, c, x, y, w

-----------------------------------------------------------------------------
(* Steps. *)

\* The rows of session s become row, g, m, b, f and t, the awaiting ledger w.
Sets(s, row, g, m, b, f, t, w) ==
  /\ ses' = [ses EXCEPT ![s] = row] /\ gap' = [gap EXCEPT ![s] = g]
  /\ moves' = [moves EXCEPT ![s] = m] /\ bills' = [bills EXCEPT ![s] = b]
  /\ inflight' = [inflight EXCEPT ![s] = f] /\ till' = [till EXCEPT ![s] = t] /\ awaiting' = w

\* They are rows the invariant asks for.
Fits(s, row, g, m, b, f, t, w) ==
  /\ row \in Row /\ g \in Gap /\ m \in [Kind -> MoveRow] /\ b \in Nat /\ f \in Nat /\ t \in Int /\ w \in Int
  /\ b + f <= MaxBills[s]
  /\ RowsOK(row, g, m, b, f, t)
  /\ w = awaiting + (Owed(m) - Owed(moves[s]))

Updates(s) ==
  \E row, g, m, b, f, t, w : Sets(s, row, g, m, b, f, t, w) /\ Fits(s, row, g, m, b, f, t, w)

\* A transaction in flight is left alone.
Spares(q) ==
  /\ pc'[q] = pc[q] /\ arg'[q] = arg[q]
  /\ pc[q] \in {"close", "reopen"} =>
       LET s == arg[q].s IN
       sLock'[s] = q /\ ses'[s] = ses[s] /\ gap'[s] = gap[s] /\ moves'[s] = moves[s]
  /\ pc[q] = "open" => ses'[arg[q].s] = ses[arg[q].s] /\ \A p \in Req \ {q} : arg'[p].s # arg[q].s

\* What is known of a transaction that is left alone stays true.
LEMMA SparesKeeps ==
  ASSUME NEW q \in Req, RequestOK(q), Spares(q), TypeOK
  PROVE  RequestOK(q)'
<1>0. pc[q] \in {"idle", "open", "close", "reopen"}
  BY DEF TypeOK
<1>1. CASE pc[q] = "idle"
  BY <1>1 DEF RequestOK, Spares
<1>2. CASE pc[q] = "open"
  <2>1. OpenOK(q)'
    BY <1>2 DEF RequestOK, Spares, OpenOK
  <2>2. QED BY <1>2, <2>1 DEF RequestOK, Spares
<1>3. CASE pc[q] = "close"
  <2>1. CloseOK(q)'
    BY <1>3 DEF RequestOK, Spares, CloseOK
  <2>2. QED BY <1>3, <2>1 DEF RequestOK, Spares
<1>4. CASE pc[q] = "reopen"
  <2>1. ReopenOK(q)'
    BY <1>4 DEF RequestOK, Spares, ReopenOK
  <2>2. QED BY <1>4, <2>1 DEF RequestOK, Spares
<1>5. QED BY <1>0, <1>1, <1>2, <1>3, <1>4

\* The fields of the rows.
LEMMA RowFields ==
  ASSUME NEW row \in Row
  PROVE  /\ row.status \in Status /\ row.counter \in Counter \cup {None} /\ row.prev \in Session \cup {None}
         /\ row.issued \in Nat /\ row.float \in Nat /\ row.attempts \in Nat /\ row.granted \in Nat
         /\ row.counted \in BOOLEAN /\ row.cash \in Nat /\ row.expected \in Int /\ row.left \in Nat
         /\ row.z \in Nat /\ row.pending \in BOOLEAN
  BY DEF Row

\* The fields of a movement.
LEMMA MoveFields ==
  ASSUME NEW m \in [Kind -> MoveRow], NEW k \in Kind
  PROVE  m[k].amt \in Nat /\ m[k].diff \in Int /\ m[k].receipt \in {"NONE", "AWAITING", "RECEIVED"}
<1>1. m[k] \in MoveRow
  OBVIOUS
<1>2. QED BY <1>1 DEF MoveRow

\* The blank rows have their types.
LEMMA BlankTypes == NoRow \in Row /\ NoGap \in Gap /\ NoMove \in MoveRow /\ NoArg \in Arg
<1>1. NoRow \in Row
  BY DEF NoRow, Row, Status
<1>2. NoGap \in Gap /\ NoMove \in MoveRow
  BY DEF NoGap, Gap, NoMove, MoveRow
<1>3. QED BY <1>1, <1>2 DEF NoArg, Arg

\* What a bag has on the awaiting ledger is a number.
LEMMA OwedType ==
  ASSUME NEW m \in [Kind -> MoveRow]
  PROVE  Owed(m) \in Int /\ MovedIn(m) \in Int /\ \A k \in Kind : OnLedger(m[k]) \in Int /\ Waiting(m[k]) \in Nat
<1>1. \A k \in Kind : Waiting(m[k]) \in Nat
  BY MoveFields DEF Waiting
<1>2. \A k \in Kind : OnLedger(m[k]) \in Int
  BY <1>1, MoveFields DEF OnLedger
<1>3. QED BY <1>1, <1>2, Kinds, MoveFields DEF Owed, MovedIn

\* The rows of one session.
LEMMA SessionTypes ==
  ASSUME TypeOK, NEW s \in Session
  PROVE  /\ ses[s] \in Row /\ gap[s] \in Gap /\ moves[s] \in [Kind -> MoveRow] /\ bills[s] \in Nat
         /\ inflight[s] \in Nat /\ till[s] \in Int /\ awaiting \in Int
         /\ bills[s] + inflight[s] <= MaxBills[s] /\ MaxBills[s] \in Nat
  BY BoundAssumption DEF TypeOK

\* The awaiting ledger, bag by bag.
Ledger == [x \in Session \X Kind |-> OnLedger(moves[x[1]][x[2]])]

\* AwaitingTies, as a sum over that ledger.
LEMMA LedgerIs ==
  ASSUME TypeOK
  PROVE  Ledger \in [Session \X Kind -> Int] /\ (AwaitingTies <=> awaiting = SumFunction(Ledger))
         /\ \A s \in Session, k \in Kind : Ledger[<<s, k>>] = OnLedger(moves[s][k])
<1>1. \A s \in Session, k \in Kind : OnLedger(moves[s][k]) \in Int
  BY OwedType, SessionTypes
<1>2. Ledger \in [Session \X Kind -> Int]
  BY <1>1 DEF Ledger
<1>3. \A s \in Session, k \in Kind : Ledger[<<s, k>>] = OnLedger(moves[s][k])
  BY DEF Ledger
<1>4. AwaitingTies <=> awaiting = SumFunction(Ledger)
  BY DEF AwaitingTies, Ledger, OnLedger
<1>5. QED BY <1>2, <1>3, <1>4

\* A step that puts fitting rows in place keeps what is said of sessions.
LEMMA UpdatesKeep ==
  ASSUME TillInv, NEW s \in Session, Updates(s),
         zLast' \in [Counter -> Nat], sLock' \in [Session -> Req \cup {None}],
         cLock' \in [Counter -> Req \cup {None}], arg' \in [Req -> Arg],
         pc' \in [Req -> {"idle", "open", "close", "reopen"}]
  PROVE  TypeOK' /\ (\A t \in Session : SessionOK(t)') /\ AwaitingTies'
<1>0. TypeOK
  BY DEF TillInv
<1> PICK row, g, m, b, f, t, w : Sets(s, row, g, m, b, f, t, w) /\ Fits(s, row, g, m, b, f, t, w)
  BY DEF Updates
<1>1. /\ ses' \in [Session -> Row] /\ gap' \in [Session -> Gap] /\ moves' \in [Session -> [Kind -> MoveRow]]
      /\ bills' \in [Session -> Nat] /\ inflight' \in [Session -> Nat] /\ till' \in [Session -> Int]
      /\ awaiting' \in Int
  BY <1>0 DEF Sets, Fits, TypeOK
<1>2. /\ ses'[s] = row /\ gap'[s] = g /\ moves'[s] = m /\ bills'[s] = b /\ inflight'[s] = f /\ till'[s] = t
      /\ awaiting' = w
  BY <1>0 DEF Sets, TypeOK
<1>3. \A u \in Session \ {s} :
        /\ ses'[u] = ses[u] /\ gap'[u] = gap[u] /\ moves'[u] = moves[u] /\ bills'[u] = bills[u]
        /\ inflight'[u] = inflight[u] /\ till'[u] = till[u]
  BY <1>0 DEF Sets, TypeOK
<1>4. \A u \in Session : SessionOK(u)'
  <2>1. SessionOK(s)'
    BY <1>2 DEF SessionOK, Fits
  <2>2. ASSUME NEW u \in Session \ {s} PROVE SessionOK(u)'
    <3>1. SessionOK(u)
      BY DEF TillInv
    <3>2. QED BY <1>3, <3>1 DEF SessionOK
  <2>3. QED BY <2>1, <2>2
<1>5. \A u \in Session : ses'[u].left <= ses'[u].cash
  BY <1>4 DEF SessionOK, RowsOK, StageOK
<1>6. \A u \in Session : bills'[u] + inflight'[u] <= MaxBills[u]
  BY <1>0, <1>2, <1>3 DEF Fits, TypeOK
<1>7. TypeOK'
  BY <1>1, <1>5, <1>6 DEF TypeOK
<1>8. AwaitingTies'
  <2> DEFINE F == Ledger
             G == Ledger'
  <2>1. F \in [Session \X Kind -> Int] /\ awaiting = SumFunction(F)
        /\ \A u \in Session, k \in Kind : F[<<u, k>>] = OnLedger(moves[u][k])
    BY <1>0, LedgerIs DEF TillInv
  <2>2. G \in [Session \X Kind -> Int] /\ (AwaitingTies' <=> awaiting' = SumFunction(G))
        /\ \A u \in Session, k \in Kind : G[<<u, k>>] = OnLedger(moves'[u][k])
    <3>1. \A u \in Session, k \in Kind : OnLedger(moves'[u][k]) \in Int
      BY <1>1, OwedType
    <3>2. G \in [Session \X Kind -> Int]
      BY <3>1 DEF Ledger
    <3>3. \A u \in Session, k \in Kind : G[<<u, k>>] = OnLedger(moves'[u][k])
      BY DEF Ledger
    <3>4. AwaitingTies' <=> awaiting' = SumFunction(G)
      BY DEF AwaitingTies, Ledger, OnLedger, Waiting
    <3>5. QED BY <3>2, <3>3, <3>4
  <2> HIDE DEF F, G
  <2>3. \A u \in Session, k \in Kind : u # s => G[<<u, k>>] = F[<<u, k>>]
    BY <1>3, <2>1, <2>2
  <2>4. SumFunction(G) = SumFunction(F)
           + ((G[<<s, "TOP_UP">>] + G[<<s, "DROP">>] + G[<<s, "CLOSE_HANDOVER">>])
              - (F[<<s, "TOP_UP">>] + F[<<s, "DROP">>] + F[<<s, "CLOSE_HANDOVER">>]))
    BY <2>1, <2>2, <2>3, SumSession
  <2>5. G[<<s, "TOP_UP">>] + G[<<s, "DROP">>] + G[<<s, "CLOSE_HANDOVER">>] = Owed(m)
    BY <1>2, <2>2, Kinds DEF Owed
  <2>6. F[<<s, "TOP_UP">>] + F[<<s, "DROP">>] + F[<<s, "CLOSE_HANDOVER">>] = Owed(moves[s])
    BY <2>1, Kinds DEF Owed
  <2>7. SumFunction(G) = awaiting + (Owed(m) - Owed(moves[s]))
    BY <2>1, <2>4, <2>5, <2>6
  <2>8. QED BY <1>2, <2>2, <2>7 DEF Fits
<1>9. QED BY <1>4, <1>7, <1>8

-----------------------------------------------------------------------------
(* Operations of one step. *)

\* A variable that stays, as an update.
LEMMA Stays ==
  ASSUME TypeOK, NEW s \in Session
  PROVE  /\ ses = [ses EXCEPT ![s] = ses[s]] /\ gap = [gap EXCEPT ![s] = gap[s]]
         /\ moves = [moves EXCEPT ![s] = moves[s]] /\ bills = [bills EXCEPT ![s] = bills[s]]
         /\ inflight = [inflight EXCEPT ![s] = inflight[s]] /\ till = [till EXCEPT ![s] = till[s]]
  BY DEF TypeOK

\* Movements that stay leave the awaiting ledger as it is.
LEMMA SameOwed ==
  ASSUME TypeOK, NEW s \in Session
  PROVE  awaiting = awaiting + (Owed(moves[s]) - Owed(moves[s]))
  BY SessionTypes, OwedType

\* Suspend, resume and the end of billing.
LEMMA StatusStep ==
  ASSUME TillInv, NEW s \in Session, NEW st \in {"OPEN", "SUSPENDED", "COUNTING"},
         ses[s].status \in Movable, SetStatus(s, st)
  PROVE  Updates(s)
<1>0. TypeOK /\ RowsOK(ses[s], gap[s], moves[s], bills[s], inflight[s], till[s])
  BY DEF TillInv, SessionOK
<1> DEFINE row == [ses[s] EXCEPT !.status = st]
<1>1. ses[s] \in Row
  BY <1>0, SessionTypes
<1>2. /\ row \in Row /\ row.status = st /\ row.counter = ses[s].counter /\ row.prev = ses[s].prev
      /\ row.issued = ses[s].issued /\ row.float = ses[s].float /\ row.counted = ses[s].counted
      /\ row.cash = ses[s].cash /\ row.expected = ses[s].expected /\ row.left = ses[s].left
      /\ row.pending = ses[s].pending
  BY <1>1 DEF Row, Status, Holding, Live
<1>3. ses' = [ses EXCEPT ![s] = row]
  BY DEF SetStatus
<1> HIDE DEF row
<1>4. Sets(s, row, gap[s], moves[s], bills[s], inflight[s], till[s], awaiting)
  BY <1>0, <1>3, Stays DEF SetStatus, Sets
<1>5. RowsOK(row, gap[s], moves[s], bills[s], inflight[s], till[s])
  <2>1. StageOK(row, gap[s], moves[s], bills[s], inflight[s])
    BY <1>0, <1>2 DEF RowsOK, StageOK, Movable
  <2>2. CountOK(row, gap[s], moves[s]) /\ PendingOK(row, gap[s], moves[s])
    BY <1>0, <1>2 DEF RowsOK, CountOK, PendingOK
  <2>3. DrawerOK(row, moves[s], bills[s], till[s])
    BY <1>0, <1>2 DEF RowsOK, DrawerOK, Held, Due, Movable
  <2>4. QED BY <1>0, <2>1, <2>2, <2>3 DEF RowsOK
<1>6. Fits(s, row, gap[s], moves[s], bills[s], inflight[s], till[s], awaiting)
  BY <1>0, <1>2, <1>5, SessionTypes, SameOwed DEF Fits
<1>7. QED BY <1>4, <1>6 DEF Updates

\* Bills: money checked, then posted to the till cash ledger or dropped.
LEMMA BillStep ==
  ASSUME TillInv, NEW s \in Session, BillCheck(s) \/ BillCommit(s) \/ BillFails(s)
  PROVE  Updates(s)
<1>0. TypeOK /\ RowsOK(ses[s], gap[s], moves[s], bills[s], inflight[s], till[s])
  BY DEF TillInv, SessionOK
<1>1. /\ ses[s] \in Row /\ gap[s] \in Gap /\ moves[s] \in [Kind -> MoveRow] /\ bills[s] \in Nat
      /\ inflight[s] \in Nat /\ till[s] \in Int /\ awaiting \in Int
      /\ bills[s] + inflight[s] <= MaxBills[s] /\ MaxBills[s] \in Nat
  BY <1>0, SessionTypes
<1>2. ASSUME NEW b \in Nat, NEW f \in Nat, NEW t \in Int, b + f <= MaxBills[s], ses[s].status # "NONE",
             b - bills[s] = t - till[s],
             bills' = [bills EXCEPT ![s] = b], inflight' = [inflight EXCEPT ![s] = f],
             till' = [till EXCEPT ![s] = t], UNCHANGED <<ses, gap, moves, awaiting>>
      PROVE  Updates(s)
  <2>1. Sets(s, ses[s], gap[s], moves[s], b, f, t, awaiting)
    BY <1>0, <1>2, Stays DEF Sets
  <2>2. StageOK(ses[s], gap[s], moves[s], b, f)
    BY <1>0, <1>2 DEF RowsOK, StageOK
  <2>3. DrawerOK(ses[s], moves[s], b, t)
    <3>1. MovedIn(moves[s]) \in Int
      BY <1>1, OwedType
    <3>2. ses[s].float \in Nat /\ ses[s].issued \in Nat /\ ses[s].left \in Nat /\ ses[s].expected \in Int
      BY <1>1, RowFields
    <3>3. DrawerOK(ses[s], moves[s], bills[s], till[s])
      BY <1>0 DEF RowsOK
    <3>4. Held(ses[s], t) = Held(ses[s], till[s]) + (b - bills[s]) /\ Held(ses[s], till[s]) \in Int
      BY <1>1, <1>2, <3>2 DEF Held
    <3>5. Due(ses[s], moves[s], b) = Due(ses[s], moves[s], bills[s]) + (b - bills[s])
          /\ Due(ses[s], moves[s], bills[s]) \in Int
      BY <1>1, <3>1, <3>2 DEF Due
    <3>6. QED BY <1>1, <1>2, <3>2, <3>3, <3>4, <3>5 DEF DrawerOK
  <2>4. RowsOK(ses[s], gap[s], moves[s], b, f, t)
    BY <1>0, <2>2, <2>3 DEF RowsOK
  <2>5. Fits(s, ses[s], gap[s], moves[s], b, f, t, awaiting)
    BY <1>0, <1>1, <1>2, <2>4, SameOwed DEF Fits
  <2>6. QED BY <2>1, <2>5 DEF Updates
<1>3. inflight[s] > 0 => ses[s].status # "NONE"
  BY <1>0 DEF RowsOK, StageOK
<1>4. CASE BillCheck(s)
  <2>1. bills[s] + (inflight[s] + 1) <= MaxBills[s] /\ inflight[s] + 1 \in Nat /\ ses[s].status # "NONE"
        /\ bills[s] - bills[s] = till[s] - till[s]
    BY <1>1, <1>4 DEF BillCheck
  <2>2. bills' = [bills EXCEPT ![s] = bills[s]] /\ till' = [till EXCEPT ![s] = till[s]]
        /\ inflight' = [inflight EXCEPT ![s] = inflight[s] + 1] /\ UNCHANGED <<ses, gap, moves, awaiting>>
    BY <1>0, <1>4, Stays DEF BillCheck, rows
  <2>3. QED BY <1>1, <1>2, <2>1, <2>2
<1>5. CASE BillCommit(s)
  <2>1. (bills[s] + 1) + (inflight[s] - 1) <= MaxBills[s] /\ inflight[s] - 1 \in Nat /\ bills[s] + 1 \in Nat
        /\ (bills[s] + 1) - bills[s] = (till[s] + 1) - till[s] /\ till[s] + 1 \in Int
    BY <1>1, <1>5 DEF BillCommit
  <2>2. bills' = [bills EXCEPT ![s] = bills[s] + 1] /\ till' = [till EXCEPT ![s] = till[s] + 1]
        /\ inflight' = [inflight EXCEPT ![s] = inflight[s] - 1] /\ UNCHANGED <<ses, gap, moves, awaiting>>
        /\ inflight[s] > 0
    BY <1>5 DEF BillCommit
  <2>3. QED BY <1>2, <1>3, <2>1, <2>2
<1>6. CASE BillFails(s)
  <2>1. bills[s] + (inflight[s] - 1) <= MaxBills[s] /\ inflight[s] - 1 \in Nat
        /\ bills[s] - bills[s] = till[s] - till[s]
    BY <1>1, <1>6 DEF BillFails
  <2>2. bills' = [bills EXCEPT ![s] = bills[s]] /\ till' = [till EXCEPT ![s] = till[s]]
        /\ inflight' = [inflight EXCEPT ![s] = inflight[s] - 1] /\ UNCHANGED <<ses, gap, moves, awaiting>>
        /\ inflight[s] > 0
    BY <1>0, <1>6, Stays DEF BillFails, rows
  <2>3. QED BY <1>1, <1>2, <1>3, <2>1, <2>2
<1>7. QED BY <1>4, <1>5, <1>6

\* Movements of the rows of a kind.
LEMMA PutMove ==
  ASSUME TypeOK, NEW s \in Session, NEW k \in Kind, NEW mv \in MoveRow
  PROVE  LET m == [moves[s] EXCEPT ![k] = mv] IN
         /\ m \in [Kind -> MoveRow] /\ m[k] = mv /\ \A j \in Kind \ {k} : m[j] = moves[s][j]
         /\ Owed(m) = Owed(moves[s]) + (OnLedger(mv) - OnLedger(moves[s][k]))
<1> DEFINE m == [moves[s] EXCEPT ![k] = mv]
<1>0. moves[s] \in [Kind -> MoveRow]
  BY SessionTypes
<1>1. m \in [Kind -> MoveRow] /\ m[k] = mv /\ \A j \in Kind \ {k} : m[j] = moves[s][j]
  BY <1>0
<1> HIDE DEF m
<1>2. \A j \in Kind : OnLedger(m[j]) \in Int /\ OnLedger(moves[s][j]) \in Int
  BY <1>0, <1>1, OwedType
<1>3. Owed(m) = Owed(moves[s]) + (OnLedger(mv) - OnLedger(moves[s][k]))
  <2>1. CASE k = "TOP_UP"
    BY <1>1, <1>2, <2>1, Kinds DEF Owed
  <2>2. CASE k = "DROP"
    BY <1>1, <1>2, <2>2, Kinds DEF Owed
  <2>3. CASE k = "CLOSE_HANDOVER"
    BY <1>1, <1>2, <2>3, Kinds DEF Owed
  <2>4. QED BY <2>1, <2>2, <2>3 DEF Kind
<1>4. QED BY <1>1, <1>3 DEF m

\* A bag is a movement without a difference.
LEMMA BagType ==
  ASSUME NEW n \in Nat
  PROVE  /\ Bag(n) \in MoveRow /\ Bag(n).amt = n /\ Bag(n).diff = 0 /\ MoveOK(Bag(n))
         /\ OnLedger(Bag(n)) = Waiting(Bag(n)) /\ Waiting(Bag(n)) \in Nat
         /\ Bag(n).receipt # "RECEIVED"
<1>1. Bag(n) \in MoveRow
  BY BlankTypes DEF Bag, MoveRow
<1>2. Bag(n).amt = n /\ Bag(n).diff = 0 /\ MoveOK(Bag(n)) /\ Bag(n).receipt # "RECEIVED"
  BY DEF Bag, NoMove, MoveOK
<1>3. Waiting(Bag(n)) \in Nat
  BY <1>2 DEF Waiting
<1>4. OnLedger(Bag(n)) = Waiting(Bag(n))
  BY <1>2, <1>3 DEF OnLedger
<1>5. QED BY <1>1, <1>2, <1>3, <1>4

\* A movement made or taken back by hand while no count stands: the till cash
\* ledger moves with what is expected.
LEMMA HandStep ==
  ASSUME TillInv, NEW s \in Session, NEW k \in {"TOP_UP", "DROP"}, NEW mv \in MoveRow, NEW d \in Int,
         ses[s].status \in Live, ~ses[s].counted,
         MoveOK(mv), mv.diff = 0, k = "TOP_UP" => mv.receipt = "NONE", moves[s][k].diff = 0,
         d = (IF k = "DROP" THEN moves[s][k].amt - mv.amt ELSE mv.amt - moves[s][k].amt),
         moves' = [moves EXCEPT ![s] = [moves[s] EXCEPT ![k] = mv]],
         till' = [till EXCEPT ![s] = till[s] + d],
         awaiting' = awaiting + (OnLedger(mv) - OnLedger(moves[s][k])),
         UNCHANGED <<ses, gap, bills, inflight>>
  PROVE  Updates(s)
<1>0. TypeOK /\ RowsOK(ses[s], gap[s], moves[s], bills[s], inflight[s], till[s])
  BY DEF TillInv, SessionOK
<1>1. /\ ses[s] \in Row /\ gap[s] \in Gap /\ moves[s] \in [Kind -> MoveRow] /\ bills[s] \in Nat
      /\ inflight[s] \in Nat /\ till[s] \in Int /\ awaiting \in Int
      /\ bills[s] + inflight[s] <= MaxBills[s] /\ MaxBills[s] \in Nat
  BY <1>0, SessionTypes
<1> DEFINE m == [moves[s] EXCEPT ![k] = mv]
           w == awaiting + (OnLedger(mv) - OnLedger(moves[s][k]))
<1>2. k \in Kind /\ k # "CLOSE_HANDOVER"
  BY DEF Kind
<1>3. /\ m \in [Kind -> MoveRow] /\ m[k] = mv /\ \A j \in Kind \ {k} : m[j] = moves[s][j]
      /\ Owed(m) = Owed(moves[s]) + (OnLedger(mv) - OnLedger(moves[s][k]))
  BY <1>0, <1>2, PutMove
<1>4. Sets(s, ses[s], gap[s], m, bills[s], inflight[s], till[s] + d, w)
  BY <1>0, Stays DEF Sets
<1> HIDE DEF m
<1>5. MovedIn(m) = MovedIn(moves[s]) + d /\ MovedIn(moves[s]) \in Int
  <2>1. \A j \in Kind : m[j].amt \in Nat /\ moves[s][j].amt \in Nat
    BY <1>1, <1>3, MoveFields
  <2>2. CASE k = "DROP"
    BY <1>3, <2>1, <2>2, Kinds DEF MovedIn
  <2>3. CASE k = "TOP_UP"
    BY <1>3, <2>1, <2>3, Kinds DEF MovedIn
  <2>4. QED BY <2>2, <2>3
<1>6. StageOK(ses[s], gap[s], m, bills[s], inflight[s])
  BY <1>0, <1>2, <1>3, Kinds DEF RowsOK, StageOK, Live
<1>7. MovesOK(m)
  BY <1>0, <1>2, <1>3, Kinds DEF RowsOK, MovesOK
<1>8. CountOK(ses[s], gap[s], m)
  BY DEF CountOK, Live
<1>9. PendingOK(ses[s], gap[s], m)
  <2>1. Differs(m) <=> Differs(moves[s])
    BY <1>2, <1>3 DEF Differs
  <2>2. QED BY <1>0, <2>1 DEF RowsOK, PendingOK
<1>10. DrawerOK(ses[s], m, bills[s], till[s] + d)
  <2>1. ses[s].float \in Nat /\ ses[s].issued \in Nat
    BY <1>1, RowFields
  <2>2. Held(ses[s], till[s]) = Due(ses[s], moves[s], bills[s])
    BY <1>0 DEF RowsOK, DrawerOK, Live
  <2>3. Held(ses[s], till[s] + d) = Held(ses[s], till[s]) + d /\ Held(ses[s], till[s]) \in Int
    BY <1>1, <2>1 DEF Held
  <2>4. Due(ses[s], m, bills[s]) = Due(ses[s], moves[s], bills[s]) + d
    BY <1>1, <1>5, <2>1 DEF Due
  <2>5. QED BY <2>2, <2>3, <2>4 DEF DrawerOK, Live
<1>11. RowsOK(ses[s], gap[s], m, bills[s], inflight[s], till[s] + d)
  BY <1>6, <1>7, <1>8, <1>9, <1>10 DEF RowsOK
<1>12. Owed(m) \in Int /\ Owed(moves[s]) \in Int /\ OnLedger(mv) \in Int /\ OnLedger(moves[s][k]) \in Int
  BY <1>1, <1>2, <1>3, OwedType
<1>13. w \in Int /\ w = awaiting + (Owed(m) - Owed(moves[s]))
  BY <1>1, <1>3, <1>12
<1> HIDE DEF w
<1>14. Fits(s, ses[s], gap[s], m, bills[s], inflight[s], till[s] + d, w)
  BY <1>1, <1>3, <1>11, <1>13 DEF Fits
<1>15. QED BY <1>4, <1>14 DEF Updates

\* TillMovementService.create.
LEMMA MoveStep ==
  ASSUME TillInv, NEW s \in Session, NEW k \in {"TOP_UP", "DROP"}, NEW n \in Float, Move(s, k, n)
  PROVE  Updates(s)
<1>0. TypeOK /\ RowsOK(ses[s], gap[s], moves[s], bills[s], inflight[s], till[s])
  BY DEF TillInv, SessionOK
<1>1. n \in Nat /\ n > 0 /\ k \in Kind
  BY MoneyAssumption DEF Move, Kind
<1>2. ses[s].status \in {"OPEN", "SUSPENDED"} /\ ~(moves[s][k].amt > 0)
  BY DEF Move, Free, Movable, Standing
<1>3. ~ses[s].counted
  BY <1>0, <1>2 DEF RowsOK, StageOK
<1>4. moves[s][k] = NoMove
  <2>1. moves[s][k].amt \in Nat
    BY <1>0, <1>1, SessionTypes, MoveFields
  <2>2. moves[s][k].amt = 0
    BY <1>2, <2>1
  <2>3. QED BY <1>0, <1>1, <2>2 DEF RowsOK, MovesOK, MoveOK
<1>5. OnLedger(NoMove) = 0 /\ NoMove.amt = 0 /\ NoMove.diff = 0
  BY DEF OnLedger, Waiting, NoMove
<1>6. CASE k = "DROP"
  <2> DEFINE mv == Bag(n)
             d == 0 - n
  <2>1. mv \in MoveRow /\ mv.diff = 0 /\ MoveOK(mv) /\ OnLedger(mv) = Waiting(mv) /\ Waiting(mv) \in Nat /\ mv.amt = n
    BY <1>1, BagType
  <2>2. moves' = [moves EXCEPT ![s] = [moves[s] EXCEPT ![k] = mv]] /\ awaiting' = awaiting + Waiting(mv)
        /\ till' = [till EXCEPT ![s] = till[s] - n] /\ UNCHANGED <<ses, gap, bills, inflight>>
    BY <1>6 DEF Move
  <2> HIDE DEF mv
  <2>3. till[s] - n = till[s] + d /\ d \in Int /\ d = moves[s][k].amt - mv.amt
    BY <1>0, <1>1, <1>4, <1>5, <2>1, SessionTypes
  <2>4. awaiting' = awaiting + (OnLedger(mv) - OnLedger(moves[s][k]))
    BY <1>0, <1>4, <1>5, <2>1, <2>2, SessionTypes
  <2>5. till' = [till EXCEPT ![s] = till[s] + d]
    BY <2>2, <2>3
  <2>6. moves[s][k].diff = 0 /\ ses[s].status \in Live
    BY <1>2, <1>4, <1>5 DEF Live
  <2>7. d = (IF k = "DROP" THEN moves[s][k].amt - mv.amt ELSE mv.amt - moves[s][k].amt)
    BY <1>6, <2>3
  <2> HIDE DEF d
  <2>8. QED BY <1>3, <1>6, <2>1, <2>2, <2>3, <2>4, <2>5, <2>6, <2>7, HandStep
<1>7. CASE k = "TOP_UP"
  <2> DEFINE mv == [NoMove EXCEPT !.amt = n]
             d == n
  <2>1. mv \in MoveRow /\ mv.diff = 0 /\ mv.receipt = "NONE" /\ mv.amt = n
    BY <1>1 DEF NoMove, MoveRow
  <2>2. moves' = [moves EXCEPT ![s] = [moves[s] EXCEPT ![k] = mv]] /\ awaiting' = awaiting
        /\ till' = [till EXCEPT ![s] = till[s] + d] /\ UNCHANGED <<ses, gap, bills, inflight>>
    BY <1>7 DEF Move
  <2> HIDE DEF mv
  <2>3. MoveOK(mv) /\ OnLedger(mv) = 0
    BY <1>1, <2>1 DEF MoveOK, OnLedger, Waiting
  <2>4. awaiting' = awaiting + (OnLedger(mv) - OnLedger(moves[s][k]))
    BY <1>0, <1>4, <1>5, <2>2, <2>3, SessionTypes
  <2>5. moves[s][k].diff = 0 /\ ses[s].status \in Live
    BY <1>2, <1>4, <1>5 DEF Live
  <2>6. d \in Int /\ d = (IF k = "DROP" THEN moves[s][k].amt - mv.amt ELSE mv.amt - moves[s][k].amt)
    BY <1>1, <1>4, <1>5, <1>7, <2>1
  <2> HIDE DEF d
  <2>7. QED BY <1>3, <1>7, <2>1, <2>2, <2>3, <2>4, <2>5, <2>6, HandStep
<1>8. QED BY <1>6, <1>7

\* void: a movement that was not received is taken back.
LEMMA VoidStep ==
  ASSUME TillInv, NEW s \in Session, NEW k \in {"TOP_UP", "DROP"}, VoidMove(s, k)
  PROVE  Updates(s)
<1>0. TypeOK /\ RowsOK(ses[s], gap[s], moves[s], bills[s], inflight[s], till[s])
  BY DEF TillInv, SessionOK
<1> DEFINE mv == moves[s][k]
           n == mv.amt
           d == IF k = "DROP" THEN n ELSE 0 - n
<1>1. k \in Kind
  BY DEF Kind
<1>2. ses[s].status \in Live /\ ~ses[s].counted /\ mv.receipt # "RECEIVED"
  BY DEF VoidMove, Voidable, Free
<1>3. mv.diff = 0 /\ mv.amt \in Nat /\ Waiting(mv) \in Nat
  <2>1. MoveOK(mv)
    BY <1>0, <1>1 DEF RowsOK, MovesOK
  <2>2. QED BY <1>0, <1>1, <1>2, <2>1, SessionTypes, MoveFields, OwedType DEF MoveOK
<1>4. OnLedger(mv) = Waiting(mv)
  BY <1>3 DEF OnLedger
<1>5. NoMove \in MoveRow /\ MoveOK(NoMove) /\ NoMove.diff = 0 /\ NoMove.receipt = "NONE" /\ OnLedger(NoMove) = 0
      /\ NoMove.amt = 0
  BY BlankTypes DEF NoMove, MoveOK, OnLedger, Waiting
<1>6. moves' = [moves EXCEPT ![s] = [moves[s] EXCEPT ![k] = NoMove]] /\ awaiting' = awaiting - Waiting(mv)
      /\ till' = [till EXCEPT ![s] = IF k = "DROP" THEN till[s] + n ELSE till[s] - n]
      /\ UNCHANGED <<ses, gap, bills, inflight>>
  BY DEF VoidMove
<1>7. awaiting' = awaiting + (OnLedger(NoMove) - OnLedger(moves[s][k]))
  BY <1>0, <1>3, <1>4, <1>5, <1>6, SessionTypes
<1>8. d \in Int /\ (IF k = "DROP" THEN till[s] + n ELSE till[s] - n) = till[s] + d
  BY <1>0, <1>3, SessionTypes
<1>9. till' = [till EXCEPT ![s] = till[s] + d]
  BY <1>6, <1>8
<1>10. d = (IF k = "DROP" THEN moves[s][k].amt - NoMove.amt ELSE NoMove.amt - moves[s][k].amt)
  BY <1>3, <1>5
<1> HIDE DEF d
<1>11. QED BY <1>2, <1>3, <1>5, <1>6, <1>7, <1>8, <1>9, <1>10, HandStep

-----------------------------------------------------------------------------
(* Counts and decisions. *)

\* The queries of the model, on the rows of the session.
LEMMA Queries ==
  ASSUME TypeOK, NEW s \in Session
  PROVE  /\ Moved(s) = MovedIn(moves[s]) /\ Expected(s) = Due(ses[s], moves[s], bills[s])
         /\ (PendingReceive(s) <=> Differs(moves[s]))
         /\ (AnyPending(s) <=> Differs(moves[s]) \/ gap[s].st = "PENDING")
         /\ Moved(s) \in Int /\ Expected(s) \in Int
<1>1. Moved(s) = MovedIn(moves[s]) /\ Expected(s) = Due(ses[s], moves[s], bills[s])
  BY DEF Moved, MovedIn, Expected, Due
<1>2. MovedIn(moves[s]) \in Int /\ ses[s].float \in Nat /\ bills[s] \in Nat
  BY SessionTypes, OwedType, RowFields
<1>3. (PendingReceive(s) <=> Differs(moves[s])) /\ (AnyPending(s) <=> Differs(moves[s]) \/ gap[s].st = "PENDING")
  BY DEF PendingReceive, AnyPending, Differs
<1>4. QED BY <1>1, <1>2, <1>3 DEF Due

\* countIn: what a count leaves of the row and of its variance.
LEMMA CountedIs ==
  ASSUME TypeOK, NEW s \in Session, NEW n \in Nat, NEW forced \in BOOLEAN
  PROVE  LET row == CountedRow(s, n, forced)
             g == CountedGap(s, n, forced)
             o == Outcome(ses[s], n, Expected(s), forced)
         IN
         /\ row \in Row /\ g \in Gap
         /\ row.counter = ses[s].counter /\ row.prev = ses[s].prev /\ row.issued = ses[s].issued
         /\ row.float = ses[s].float /\ row.left = ses[s].left
         /\ o \in {"ACCEPTED", "SENT_FOR_APPROVAL", "RECOUNT_REQUIRED"}
         /\ forced => o # "RECOUNT_REQUIRED"
         /\ o = "RECOUNT_REQUIRED" =>
              /\ row.status = ses[s].status /\ row.counted = ses[s].counted /\ row.cash = ses[s].cash
              /\ row.expected = ses[s].expected /\ row.pending = ses[s].pending /\ g = gap[s]
         /\ o # "RECOUNT_REQUIRED" =>
              /\ row.status = IF o = "SENT_FOR_APPROVAL" THEN "PENDING_APPROVAL" ELSE "COUNTING"
              /\ row.counted /\ row.cash = n /\ row.expected = Expected(s)
              /\ row.pending <=> o = "SENT_FOR_APPROVAL" \/ PendingReceive(s)
              /\ g.st = (IF o = "ACCEPTED" THEN "DECIDED" ELSE "PENDING")
              /\ g.amt = n - Expected(s) /\ g.moved = Moved(s)
<1> DEFINE row == CountedRow(s, n, forced)
           g == CountedGap(s, n, forced)
           o == Outcome(ses[s], n, Expected(s), forced)
           tried == [ses[s] EXCEPT !.attempts = ses[s].attempts + 1]
           pend == (o = "SENT_FOR_APPROVAL") \/ PendingReceive(s)
           st == IF o = "SENT_FOR_APPROVAL" THEN "PENDING_APPROVAL" ELSE "COUNTING"
<1>0. ses[s] \in Row /\ gap[s] \in Gap /\ Expected(s) \in Int /\ Moved(s) \in Int
  BY SessionTypes, Queries
<1>1. o \in {"ACCEPTED", "SENT_FOR_APPROVAL", "RECOUNT_REQUIRED"} /\ (forced => o # "RECOUNT_REQUIRED")
  BY DEF Outcome
<1>2. row = IF o = "RECOUNT_REQUIRED" THEN tried
            ELSE [tried EXCEPT !.counted = TRUE, !.cash = n, !.expected = Expected(s), !.pending = pend, !.status = st]
  BY DEF CountedRow
<1>3. g = IF o = "RECOUNT_REQUIRED" THEN gap[s]
          ELSE [st |-> IF o = "ACCEPTED" THEN "DECIDED" ELSE "PENDING", amt |-> n - Expected(s), moved |-> Moved(s)]
  BY DEF CountedGap
<1>4. pend \in BOOLEAN /\ st \in Status /\ (pend <=> o = "SENT_FOR_APPROVAL" \/ PendingReceive(s))
  BY DEF Status, Holding, Live
<1>5. /\ tried \in Row /\ tried.counter = ses[s].counter /\ tried.prev = ses[s].prev
      /\ tried.issued = ses[s].issued /\ tried.float = ses[s].float /\ tried.left = ses[s].left
      /\ tried.status = ses[s].status /\ tried.counted = ses[s].counted /\ tried.cash = ses[s].cash
      /\ tried.expected = ses[s].expected /\ tried.pending = ses[s].pending
  <2>1. ses[s].attempts + 1 \in Nat
    BY <1>0, RowFields
  <2>2. QED BY <1>0, <2>1 DEF Row
<1> HIDE DEF row, g, o, tried, pend
<1>6. CASE o = "RECOUNT_REQUIRED"
  <2>1. row = tried /\ g = gap[s]
    BY <1>2, <1>3, <1>6
  <2>2. QED BY <1>0, <1>1, <1>5, <1>6, <2>1 DEF row, g, o
<1>7. CASE o # "RECOUNT_REQUIRED"
  <2>1. row = [tried EXCEPT !.counted = TRUE, !.cash = n, !.expected = Expected(s), !.pending = pend, !.status = st]
    BY <1>2, <1>7
  <2>2. /\ row \in Row /\ row.counter = tried.counter /\ row.prev = tried.prev /\ row.issued = tried.issued
        /\ row.float = tried.float /\ row.left = tried.left /\ row.status = st /\ row.counted = TRUE
        /\ row.cash = n /\ row.expected = Expected(s) /\ row.pending = pend
    BY <1>0, <1>4, <1>5, <2>1 DEF Row
  <2>3. g \in Gap /\ g.st = (IF o = "ACCEPTED" THEN "DECIDED" ELSE "PENDING")
        /\ g.amt = n - Expected(s) /\ g.moved = Moved(s)
    BY <1>0, <1>3, <1>7 DEF Gap
  <2>4. row.pending <=> o = "SENT_FOR_APPROVAL" \/ PendingReceive(s)
    BY <1>4, <2>2
  <2>5. QED BY <1>1, <1>5, <1>7, <2>2, <2>3, <2>4 DEF row, g, o, st
<1>8. QED BY <1>6, <1>7

\* A count, by the cashier or by a supervisor, that writes its row.
LEMMA CountStep ==
  ASSUME TillInv, NEW s \in Session, NEW n \in Nat, NEW forced \in BOOLEAN,
         ses[s].status \in Live, forced \/ ses[s].status = "COUNTING",
         ses' = [ses EXCEPT ![s] = CountedRow(s, n, forced)],
         gap' = [gap EXCEPT ![s] = CountedGap(s, n, forced)],
         UNCHANGED <<moves, bills, till, awaiting, inflight>>
  PROVE  Updates(s)
<1>0. TypeOK /\ RowsOK(ses[s], gap[s], moves[s], bills[s], inflight[s], till[s])
  BY DEF TillInv, SessionOK
<1> DEFINE row == CountedRow(s, n, forced)
           g == CountedGap(s, n, forced)
           o == Outcome(ses[s], n, Expected(s), forced)
<1>1. Sets(s, row, g, moves[s], bills[s], inflight[s], till[s], awaiting)
  BY <1>0, Stays DEF Sets
<1>2. /\ row \in Row /\ g \in Gap
      /\ row.counter = ses[s].counter /\ row.prev = ses[s].prev /\ row.issued = ses[s].issued
      /\ row.float = ses[s].float /\ row.left = ses[s].left
      /\ o \in {"ACCEPTED", "SENT_FOR_APPROVAL", "RECOUNT_REQUIRED"}
      /\ o = "RECOUNT_REQUIRED" =>
           /\ row.status = ses[s].status /\ row.counted = ses[s].counted /\ row.cash = ses[s].cash
           /\ row.expected = ses[s].expected /\ row.pending = ses[s].pending /\ g = gap[s]
      /\ o # "RECOUNT_REQUIRED" =>
           /\ row.status = IF o = "SENT_FOR_APPROVAL" THEN "PENDING_APPROVAL" ELSE "COUNTING"
           /\ row.counted /\ row.cash = n /\ row.expected = Expected(s)
           /\ row.pending <=> o = "SENT_FOR_APPROVAL" \/ PendingReceive(s)
           /\ g.st = (IF o = "ACCEPTED" THEN "DECIDED" ELSE "PENDING")
           /\ g.amt = n - Expected(s) /\ g.moved = Moved(s)
  BY <1>0, CountedIs
<1> HIDE DEF row, g, o
<1>3. row.status \notin {"NONE", "CLOSED"} /\ ses[s].status \notin {"NONE", "CLOSED"}
  BY <1>2 DEF Live
<1>4. RowsOK(row, g, moves[s], bills[s], inflight[s], till[s])
  <2>0. (PendingReceive(s) <=> Differs(moves[s])) /\ Moved(s) = MovedIn(moves[s])
    BY <1>0, Queries
  <2>1. StageOK(row, g, moves[s], bills[s], inflight[s])
    <3>1. row.counter \in Counter /\ row.left = 0 /\ moves[s]["CLOSE_HANDOVER"] = NoMove
      BY <1>0, <1>2, <1>3 DEF RowsOK, StageOK
    <3>2. row.counted => row.status \in {"COUNTING", "PENDING_APPROVAL", "CLOSED"}
      BY <1>0, <1>2 DEF RowsOK, StageOK
    <3>3. row.left <= row.cash
      <4>1. row.cash \in Nat
        BY <1>2, RowFields
      <4>2. QED BY <3>1, <4>1
    <3>4. QED BY <1>3, <3>1, <3>2, <3>3 DEF StageOK
  <2>2. CountOK(row, g, moves[s])
    BY <1>0, <1>2, <1>3, <2>0 DEF RowsOK, CountOK
  <2>3. PendingOK(row, g, moves[s])
    BY <1>0, <1>2, <2>0 DEF RowsOK, PendingOK
  <2>4. DrawerOK(row, moves[s], bills[s], till[s])
    BY <1>0, <1>2, <1>3 DEF RowsOK, DrawerOK, Held, Due
  <2>5. QED BY <1>0, <2>1, <2>2, <2>3, <2>4 DEF RowsOK
<1>5. Fits(s, row, g, moves[s], bills[s], inflight[s], till[s], awaiting)
  BY <1>0, <1>2, <1>4, SessionTypes, SameOwed DEF Fits
<1>6. QED BY <1>1, <1>5 DEF Updates

\* decideVariance: the variance is treated, or the count no longer stands.
LEMMA DecideStep ==
  ASSUME TillInv, NEW s \in Session, Approve(s) \/ Recount(s)
  PROVE  Updates(s)
<1>0. TypeOK /\ RowsOK(ses[s], gap[s], moves[s], bills[s], inflight[s], till[s])
  BY DEF TillInv, SessionOK
<1>1. ses[s] \in Row /\ gap[s] \in Gap /\ (PendingReceive(s) <=> Differs(moves[s])) /\ PendingReceive(s) \in BOOLEAN
  BY <1>0, SessionTypes, Queries DEF PendingReceive
<1>2. ses[s].status = "PENDING_APPROVAL"
  BY DEF Approve, Recount, Free
<1>3. CASE Approve(s)
  <2> DEFINE row == [[ses[s] EXCEPT !.status = "COUNTING"] EXCEPT !.pending = PendingReceive(s)]
             g == [gap[s] EXCEPT !.st = "DECIDED"]
  <2>1. ses' = [ses EXCEPT ![s] = row] /\ gap' = [gap EXCEPT ![s] = g]
        /\ UNCHANGED <<moves, bills, till, awaiting, inflight>>
    BY <1>0, <1>3 DEF Approve, TypeOK
  <2>2. /\ row \in Row /\ row.status = "COUNTING" /\ row.counter = ses[s].counter /\ row.prev = ses[s].prev
        /\ row.issued = ses[s].issued /\ row.float = ses[s].float /\ row.counted = ses[s].counted
        /\ row.cash = ses[s].cash /\ row.expected = ses[s].expected /\ row.left = ses[s].left
        /\ row.pending = PendingReceive(s)
    BY <1>1 DEF Row, Status, Holding, Live
  <2>3. g \in Gap /\ g.st = "DECIDED" /\ g.amt = gap[s].amt /\ g.moved = gap[s].moved
    BY <1>1 DEF Gap
  <2> HIDE DEF row, g
  <2>4. Sets(s, row, g, moves[s], bills[s], inflight[s], till[s], awaiting)
    BY <1>0, <2>1, Stays DEF Sets
  <2>5. StageOK(row, g, moves[s], bills[s], inflight[s])
    BY <1>0, <1>2, <2>2 DEF RowsOK, StageOK
  <2>6. CountOK(row, g, moves[s]) /\ PendingOK(row, g, moves[s])
    BY <1>0, <1>1, <2>2, <2>3 DEF RowsOK, CountOK, PendingOK
  <2>7. DrawerOK(row, moves[s], bills[s], till[s])
    BY <1>0, <1>2, <2>2 DEF RowsOK, DrawerOK, Held, Due
  <2>8. RowsOK(row, g, moves[s], bills[s], inflight[s], till[s])
    BY <1>0, <2>5, <2>6, <2>7 DEF RowsOK
  <2>9. Fits(s, row, g, moves[s], bills[s], inflight[s], till[s], awaiting)
    BY <1>0, <2>2, <2>3, <2>8, SessionTypes, SameOwed DEF Fits
  <2>10. QED BY <2>4, <2>9 DEF Updates
<1>4. CASE Recount(s)
  <2> DEFINE row == [ses[s] EXCEPT !.status = "COUNTING", !.granted = ses[s].granted + 1,
                                   !.counted = FALSE, !.cash = 0]
  <2>1. ses' = [ses EXCEPT ![s] = row] /\ UNCHANGED <<gap, moves, bills, till, awaiting, inflight>>
    BY <1>0, <1>4 DEF Recount, TypeOK
  <2>2. /\ row \in Row /\ row.status = "COUNTING" /\ row.counter = ses[s].counter /\ row.prev = ses[s].prev
        /\ row.issued = ses[s].issued /\ row.float = ses[s].float /\ row.counted = FALSE
        /\ row.cash = 0 /\ row.expected = ses[s].expected /\ row.left = ses[s].left
        /\ row.pending = ses[s].pending
    <3>1. ses[s].granted + 1 \in Nat
      BY <1>1, RowFields
    <3>2. QED BY <1>1, <3>1 DEF Row, Status, Holding, Live
  <2> HIDE DEF row
  <2>4. Sets(s, row, gap[s], moves[s], bills[s], inflight[s], till[s], awaiting)
    BY <1>0, <2>1, Stays DEF Sets
  <2>5. StageOK(row, gap[s], moves[s], bills[s], inflight[s])
    BY <1>0, <1>2, <2>2 DEF RowsOK, StageOK
  <2>6. CountOK(row, gap[s], moves[s]) /\ PendingOK(row, gap[s], moves[s])
    BY <1>0, <1>1, <2>2 DEF RowsOK, CountOK, PendingOK
  <2>7. DrawerOK(row, moves[s], bills[s], till[s])
    BY <1>0, <1>2, <2>2 DEF RowsOK, DrawerOK, Held, Due
  <2>8. RowsOK(row, gap[s], moves[s], bills[s], inflight[s], till[s])
    BY <1>0, <2>5, <2>6, <2>7 DEF RowsOK
  <2>9. Fits(s, row, gap[s], moves[s], bills[s], inflight[s], till[s], awaiting)
    BY <1>0, <2>2, <2>8, SessionTypes, SameOwed DEF Fits
  <2>10. QED BY <2>4, <2>9 DEF Updates
<1>5. QED BY <1>3, <1>4

-----------------------------------------------------------------------------
(* The receipt of the bags. *)

\* Bags received or decided: amounts stay, the header tells what waits.
LEMMA BagStep ==
  ASSUME TillInv, NEW s \in Session, NEW m \in [Kind -> MoveRow], NEW pend \in BOOLEAN,
         ses[s].status # "NONE", MovesOK(m), \A k \in Kind : m[k].amt = moves[s][k].amt,
         ses[s].status # "CLOSED" => m["CLOSE_HANDOVER"] = moves[s]["CLOSE_HANDOVER"],
         pend <=> Differs(m) \/ gap[s].st = "PENDING",
         ses' = [ses EXCEPT ![s] = [ses[s] EXCEPT !.pending = pend]],
         moves' = [moves EXCEPT ![s] = m], awaiting' = awaiting + (Owed(m) - Owed(moves[s])),
         UNCHANGED <<gap, bills, till, inflight>>
  PROVE  Updates(s)
<1>0. TypeOK /\ RowsOK(ses[s], gap[s], moves[s], bills[s], inflight[s], till[s])
  BY DEF TillInv, SessionOK
<1> DEFINE row == [ses[s] EXCEPT !.pending = pend]
           w == awaiting + (Owed(m) - Owed(moves[s]))
<1>1. ses[s] \in Row /\ moves[s] \in [Kind -> MoveRow]
  BY <1>0, SessionTypes
<1>2. /\ row \in Row /\ row.status = ses[s].status /\ row.counter = ses[s].counter /\ row.prev = ses[s].prev
      /\ row.issued = ses[s].issued /\ row.float = ses[s].float /\ row.counted = ses[s].counted
      /\ row.cash = ses[s].cash /\ row.expected = ses[s].expected /\ row.left = ses[s].left
      /\ row.pending = pend
  BY <1>1 DEF Row
<1>3. Sets(s, row, gap[s], m, bills[s], inflight[s], till[s], w)
  BY <1>0, Stays DEF Sets
<1>4. w \in Int
  BY <1>0, <1>1, SessionTypes, OwedType
<1> HIDE DEF row
<1>5. MovedIn(m) = MovedIn(moves[s])
  BY Kinds DEF MovedIn
<1>6. StageOK(row, gap[s], m, bills[s], inflight[s])
  BY <1>0, <1>2 DEF RowsOK, StageOK
<1>7. CountOK(row, gap[s], m)
  BY <1>0, <1>2, <1>5, Kinds DEF RowsOK, CountOK
<1>8. PendingOK(row, gap[s], m)
  BY <1>2 DEF PendingOK
<1>9. DrawerOK(row, m, bills[s], till[s])
  BY <1>0, <1>2, <1>5 DEF RowsOK, DrawerOK, Held, Due
<1>10. RowsOK(row, gap[s], m, bills[s], inflight[s], till[s])
  BY <1>6, <1>7, <1>8, <1>9 DEF RowsOK
<1>11. Fits(s, row, gap[s], m, bills[s], inflight[s], till[s], w)
  BY <1>0, <1>2, <1>4, <1>10, SessionTypes DEF Fits
<1>12. QED BY <1>3, <1>11 DEF Updates

\* What is known of a bag that waits.
LEMMA WaitingBag ==
  ASSUME TillInv, NEW s \in Session, NEW k \in Kind, moves[s][k].receipt = "AWAITING"
  PROVE  /\ moves[s][k].diff = 0 /\ moves[s][k].amt \in Nat /\ moves[s][k].amt # 0 /\ k # "TOP_UP"
         /\ OnLedger(moves[s][k]) = moves[s][k].amt /\ Waiting(moves[s][k]) = moves[s][k].amt
         /\ ses[s].status # "NONE" /\ (k = "CLOSE_HANDOVER" => ses[s].status = "CLOSED")
<1>0. TypeOK /\ RowsOK(ses[s], gap[s], moves[s], bills[s], inflight[s], till[s])
  BY DEF TillInv, SessionOK
<1>1. moves[s][k].amt \in Nat
  BY <1>0, SessionTypes, MoveFields
<1>2. moves[s][k] # NoMove
  BY DEF NoMove
<1>3. moves[s][k].diff = 0 /\ moves[s][k].amt # 0 /\ k # "TOP_UP"
  BY <1>0, <1>2 DEF RowsOK, MovesOK, MoveOK
<1>4. ses[s].status # "NONE" /\ (k = "CLOSE_HANDOVER" => ses[s].status = "CLOSED")
  BY <1>0, <1>2 DEF RowsOK, StageOK
<1>5. Waiting(moves[s][k]) = moves[s][k].amt
  BY DEF Waiting
<1>6. QED BY <1>1, <1>3, <1>4, <1>5 DEF OnLedger

\* receive: one bag, for what it held.
LEMMA ReceiveStep ==
  ASSUME TillInv, NEW s \in Session, NEW k \in {"DROP", "CLOSE_HANDOVER"}, NEW n \in Cash, Receive(s, k, n)
  PROVE  Updates(s)
<1>0. TypeOK /\ RowsOK(ses[s], gap[s], moves[s], bills[s], inflight[s], till[s])
  BY DEF TillInv, SessionOK
<1> DEFINE mv == moves[s][k]
           difference == n - mv.amt
           posted == Abs(difference) <= Tolerance
           x == IF posted THEN 0 ELSE difference
           mv2 == [[mv EXCEPT !.receipt = "RECEIVED"] EXCEPT !.diff = x]
           m == [moves[s] EXCEPT ![k] = mv2]
           pend == PendingAfter(s, difference)
<1>1. n \in Nat /\ k \in Kind /\ Tolerance \in Nat
  BY MoneyAssumption DEF Kind
<1>2. /\ mv.diff = 0 /\ mv.amt \in Nat /\ mv.amt # 0 /\ OnLedger(mv) = mv.amt
      /\ ses[s].status # "NONE" /\ (k = "CLOSE_HANDOVER" => ses[s].status = "CLOSED")
  BY <1>1, WaitingBag DEF Receive
<1>3. /\ moves' = [moves EXCEPT ![s] = m] /\ ses' = [ses EXCEPT ![s] = [ses[s] EXCEPT !.pending = pend]]
      /\ awaiting' = awaiting - n + (IF posted THEN difference ELSE 0) /\ UNCHANGED <<gap, bills, till, inflight>>
  BY <1>0, <1>1 DEF Receive, TypeOK
<1>4. difference \in Int /\ x \in Int /\ posted \in BOOLEAN
  BY <1>1, <1>2
<1>5. mv \in MoveRow
  BY <1>0, <1>1, SessionTypes
<1>6. mv2 \in MoveRow /\ mv2.amt = mv.amt /\ mv2.receipt = "RECEIVED" /\ mv2.diff = x
  BY <1>4, <1>5 DEF MoveRow
<1>7. (~posted <=> Abs(difference) > Tolerance) /\ (~posted => difference # 0) /\ (posted => x = 0) /\ (~posted => x = difference)
  BY <1>1, <1>4 DEF Abs
<1>8. pend \in BOOLEAN /\ (pend <=> ses[s].pending \/ ~posted)
  <2>1. ses[s].pending \in BOOLEAN
    BY <1>0, SessionTypes, RowFields
  <2>2. QED BY <1>7, <2>1 DEF PendingAfter
<1> HIDE DEF pend, mv2
<1>9. /\ m \in [Kind -> MoveRow] /\ m[k] = mv2 /\ \A j \in Kind \ {k} : m[j] = moves[s][j]
      /\ Owed(m) = Owed(moves[s]) + (OnLedger(mv2) - OnLedger(mv))
  BY <1>0, <1>1, <1>6, PutMove
<1> HIDE DEF m
<1>10. OnLedger(mv2) = 0 - x
  BY <1>4, <1>6 DEF OnLedger, Waiting
<1>11. awaiting' = awaiting + (Owed(m) - Owed(moves[s]))
  <2>1. awaiting \in Int /\ Owed(moves[s]) \in Int
    BY <1>0, SessionTypes, OwedType
  <2>2. Owed(m) - Owed(moves[s]) = 0 - x - mv.amt
    BY <1>2, <1>4, <1>9, <1>10, <2>1
  <2> DEFINE a == mv.amt
  <2>3. a \in Nat /\ difference = n - a
    BY <1>2
  <2>4. CASE posted
    BY <1>1, <1>3, <1>7, <2>1, <2>2, <2>3, <2>4
  <2>5. CASE ~posted
    BY <1>1, <1>3, <1>7, <2>1, <2>2, <2>3, <2>5
  <2>6. QED BY <2>4, <2>5
<1>12. MovesOK(m)
  <2>1. MoveOK(mv2)
    BY <1>2, <1>6 DEF MoveOK
  <2>2. QED BY <1>0, <1>1, <1>9, <2>1, Kinds DEF RowsOK, MovesOK
<1>13. \A j \in Kind : m[j].amt = moves[s][j].amt
  BY <1>6, <1>9
<1>14. pend <=> Differs(m) \/ gap[s].st = "PENDING"
  <2>1. Differs(m) <=> Differs(moves[s]) \/ ~posted
    BY <1>1, <1>2, <1>6, <1>7, <1>9 DEF Differs
  <2>2. ses[s].pending <=> Differs(moves[s]) \/ gap[s].st = "PENDING"
    BY <1>0 DEF RowsOK, PendingOK
  <2> HIDE DEF posted
  <2>3. QED BY <1>8, <2>1, <2>2
<1>15. ses[s].status # "CLOSED" => m["CLOSE_HANDOVER"] = moves[s]["CLOSE_HANDOVER"]
  BY <1>2, <1>9, Kinds
<1>16. QED BY <1>2, <1>3, <1>8, <1>9, <1>11, <1>12, <1>13, <1>14, <1>15, BagStep

\* decideReceive: the difference of one bag.
LEMMA DecideReceiveStep ==
  ASSUME TillInv, NEW s \in Session, NEW k \in {"DROP", "CLOSE_HANDOVER"}, DecideReceive(s, k)
  PROVE  Updates(s)
<1>0. TypeOK /\ RowsOK(ses[s], gap[s], moves[s], bills[s], inflight[s], till[s])
  BY DEF TillInv, SessionOK
<1> DEFINE mv == moves[s][k]
           mv2 == [mv EXCEPT !.diff = 0]
           m == [moves[s] EXCEPT ![k] = mv2]
           pend == gap[s].st = "PENDING" \/ \E j \in Kind \ {k} : moves[s][j].diff # 0
<1>1. k \in Kind /\ mv.diff # 0
  BY DEF Kind, DecideReceive
<1>2. mv \in MoveRow /\ mv.diff \in Int /\ mv.amt \in Nat
  BY <1>0, <1>1, SessionTypes, MoveFields
<1>3. mv.receipt = "RECEIVED" /\ mv.amt # 0 /\ mv # NoMove
  <2>1. MoveOK(mv)
    BY <1>0, <1>1 DEF RowsOK, MovesOK
  <2>2. mv # NoMove
    BY <1>1 DEF NoMove
  <2>3. QED BY <1>1, <2>1, <2>2 DEF MoveOK
<1>4. ses[s].status # "NONE" /\ (k = "CLOSE_HANDOVER" => ses[s].status = "CLOSED")
  BY <1>0, <1>1, <1>3 DEF RowsOK, StageOK
<1>5. /\ moves' = [moves EXCEPT ![s] = m] /\ ses' = [ses EXCEPT ![s] = [ses[s] EXCEPT !.pending = pend]]
      /\ awaiting' = awaiting + mv.diff /\ UNCHANGED <<gap, bills, till, inflight>>
  BY <1>0, <1>1 DEF DecideReceive, TypeOK
<1>6. mv2 \in MoveRow /\ mv2.amt = mv.amt /\ mv2.receipt = "RECEIVED" /\ mv2.diff = 0
  BY <1>2, <1>3 DEF MoveRow
<1> HIDE DEF mv2
<1>7. /\ m \in [Kind -> MoveRow] /\ m[k] = mv2 /\ \A j \in Kind \ {k} : m[j] = moves[s][j]
      /\ Owed(m) = Owed(moves[s]) + (OnLedger(mv2) - OnLedger(mv))
  BY <1>0, <1>1, <1>6, PutMove
<1> HIDE DEF m
<1>8. awaiting' = awaiting + (Owed(m) - Owed(moves[s]))
  <2>1. awaiting \in Int /\ Owed(moves[s]) \in Int
    BY <1>0, SessionTypes, OwedType
  <2>2. OnLedger(mv2) = 0 /\ OnLedger(mv) = 0 - mv.diff
    BY <1>2, <1>3, <1>6 DEF OnLedger, Waiting
  <2>3. QED BY <1>2, <1>5, <1>7, <2>1, <2>2
<1>9. MovesOK(m)
  <2>1. MoveOK(mv2)
    BY <1>3, <1>6 DEF MoveOK
  <2>2. QED BY <1>0, <1>1, <1>7, <2>1, Kinds DEF RowsOK, MovesOK
<1>10. \A j \in Kind : m[j].amt = moves[s][j].amt
  BY <1>6, <1>7
<1>11. pend \in BOOLEAN /\ (pend <=> Differs(m) \/ gap[s].st = "PENDING")
  BY <1>1, <1>6, <1>7 DEF Differs
<1>12. ses[s].status # "CLOSED" => m["CLOSE_HANDOVER"] = moves[s]["CLOSE_HANDOVER"]
  BY <1>4, <1>7, Kinds
<1> HIDE DEF pend
<1>13. QED BY <1>4, <1>5, <1>7, <1>8, <1>9, <1>10, <1>11, <1>12, BagStep

\* approveCash: all the bags of a closed session for one total.
LEMMA ApproveCashStep ==
  ASSUME TillInv, NEW s \in Session, NEW total \in Cash, NEW decided \in BOOLEAN, ApproveCash(s, total, decided)
  PROVE  Updates(s)
<1>0. TypeOK /\ RowsOK(ses[s], gap[s], moves[s], bills[s], inflight[s], till[s])
  BY DEF TillInv, SessionOK
<1> DEFINE bags == {k \in Kind : moves[s][k].receipt = "AWAITING"}
           anchor == IF "CLOSE_HANDOVER" \in bags THEN "CLOSE_HANDOVER" ELSE "DROP"
           W(k) == Waiting(moves[s][k])
           all == SumFunction([k \in Kind |-> Waiting(moves[s][k])])
           difference == total - all
           posted == decided \/ Abs(difference) <= Tolerance
           x(k) == IF k = anchor /\ ~posted THEN difference ELSE 0
           m == [k \in Kind |-> IF k \notin bags THEN moves[s][k]
                                ELSE [moves[s][k] EXCEPT !.receipt = "RECEIVED", !.diff = x(k)]]
           pend == IF decided THEN AnyPending(s) ELSE PendingAfter(s, difference)
<1>1. total \in Nat /\ Tolerance \in Nat /\ moves[s] \in [Kind -> MoveRow] /\ awaiting \in Int
  BY <1>0, MoneyAssumption, SessionTypes
<1>2. \A k \in Kind : W(k) \in Nat /\ OnLedger(moves[s][k]) \in Int
  BY <1>1, OwedType
<1>3. all = W("TOP_UP") + W("DROP") + W("CLOSE_HANDOVER") /\ all \in Nat
  <2>1. [k \in Kind |-> Waiting(moves[s][k])] \in [Kind -> Int]
    BY <1>2
  <2>2. all = W("TOP_UP") + W("DROP") + W("CLOSE_HANDOVER")
    BY <2>1, Kinds, SumKinds
  <2>3. QED BY <1>2, <2>2, Kinds
<1>4. ses[s].status = "CLOSED" /\ bags # {} /\ (decided => Abs(difference) > Tolerance)
  BY DEF ApproveCash, Free
<1>5. /\ moves' = [moves EXCEPT ![s] = m] /\ ses' = [ses EXCEPT ![s] = [ses[s] EXCEPT !.pending = pend]]
      /\ awaiting' = awaiting - total + (IF posted THEN difference ELSE 0)
      /\ UNCHANGED <<gap, bills, till, inflight>>
  BY <1>0 DEF ApproveCash, TypeOK
<1>6. \A k \in bags : /\ moves[s][k].diff = 0 /\ moves[s][k].amt \in Nat /\ moves[s][k].amt # 0 /\ k # "TOP_UP"
                      /\ OnLedger(moves[s][k]) = W(k)
  BY WaitingBag
<1>7. anchor \in bags /\ anchor \in Kind /\ anchor # "TOP_UP" /\ \A k \in Kind : k \in bags \/ W(k) = 0
  <2>1. anchor \in bags
    BY <1>4, <1>6 DEF Kind
  <2>2. \A k \in Kind : k \in bags \/ W(k) = 0
    BY DEF Waiting
  <2>3. QED BY <1>6, <2>1, <2>2
<1> HIDE DEF all
<1>8. difference \in Int /\ posted \in BOOLEAN /\ \A k \in Kind : x(k) \in Int
  BY <1>1, <1>3
<1>9. (~posted => difference # 0) /\ (~decided => (~posted <=> Abs(difference) > Tolerance))
  BY <1>1, <1>8 DEF Abs
<1>10. pend \in BOOLEAN /\ (pend <=> ses[s].pending \/ ~posted)
  <2>1. ses[s].pending \in BOOLEAN /\ (ses[s].pending <=> Differs(moves[s]) \/ gap[s].st = "PENDING")
    BY <1>0, SessionTypes, RowFields DEF RowsOK, PendingOK
  <2>2. AnyPending(s) \in BOOLEAN /\ (AnyPending(s) <=> ses[s].pending)
    BY <1>0, <2>1, Queries DEF AnyPending, PendingReceive
  <2>3. PendingAfter(s, difference) \in BOOLEAN /\ (PendingAfter(s, difference) <=> ses[s].pending \/ Abs(difference) > Tolerance)
    BY <2>1 DEF PendingAfter
  <2>4. CASE decided
    BY <2>2, <2>4
  <2>5. CASE ~decided
    <3> HIDE DEF difference
    <3>1. QED BY <1>9, <2>3, <2>5
  <2>6. QED BY <2>4, <2>5
<1> HIDE DEF pend, difference
<1>11. /\ \A k \in Kind \ bags : m[k] = moves[s][k]
       /\ \A k \in bags : m[k] = [moves[s][k] EXCEPT !.receipt = "RECEIVED", !.diff = x(k)]
       /\ \A k \in Kind : ~(k = anchor) => x(k) = 0
       /\ x(anchor) = IF posted THEN 0 ELSE difference
  OBVIOUS
<1> HIDE DEF posted, x, anchor
<1>12. \A k \in bags : /\ m[k] \in MoveRow /\ m[k].amt = moves[s][k].amt /\ m[k].receipt = "RECEIVED"
                       /\ m[k].diff = x(k)
  <2> SUFFICES ASSUME NEW k \in bags
               PROVE  /\ m[k] \in MoveRow /\ m[k].amt = moves[s][k].amt /\ m[k].receipt = "RECEIVED"
                      /\ m[k].diff = x(k)
    OBVIOUS
  <2>1. k \in Kind /\ moves[s][k] \in MoveRow /\ x(k) \in Int
    BY <1>1, <1>8
  <2> DEFINE v == moves[s][k]
  <2>2. m[k] = [v EXCEPT !.receipt = "RECEIVED", !.diff = x(k)]
    BY <1>11
  <2> HIDE DEF m
  <2>3. v \in MoveRow
    BY <2>1
  <2>4. SUFFICES m[k] \in MoveRow /\ m[k].amt = v.amt /\ m[k].receipt = "RECEIVED" /\ m[k].diff = x(k)
    OBVIOUS
  <2> HIDE DEF v
  <2>5. QED BY <2>1, <2>2, <2>3 DEF MoveRow
<1>13. m \in [Kind -> MoveRow]
  <2>1. \A k \in Kind : m[k] \in MoveRow
    BY <1>1, <1>11, <1>12
  <2>2. m = [k \in Kind |-> m[k]]
    OBVIOUS
  <2> HIDE DEF m
  <2>3. QED BY <2>1, <2>2
<1> HIDE DEF m
<1>14. \A k \in Kind : OnLedger(m[k]) = OnLedger(moves[s][k]) - W(k) - x(k)
  <2> SUFFICES ASSUME NEW k \in Kind PROVE OnLedger(m[k]) = OnLedger(moves[s][k]) - W(k) - x(k)
    OBVIOUS
  <2>1. CASE k \in bags
    <3>1. OnLedger(m[k]) = 0 - x(k)
      BY <1>8, <1>12, <2>1 DEF OnLedger, Waiting
    <3>2. OnLedger(moves[s][k]) = W(k) /\ W(k) \in Nat /\ x(k) \in Int
      BY <1>2, <1>6, <1>8, <2>1
    <3> HIDE DEF W
    <3>3. QED BY <3>1, <3>2
  <2>2. CASE k \notin bags
    <3>1. m[k] = moves[s][k] /\ W(k) = 0 /\ x(k) = 0 /\ OnLedger(moves[s][k]) \in Int
      BY <1>2, <1>7, <1>11, <2>2
    <3> HIDE DEF W
    <3>2. QED BY <3>1
  <2>3. QED BY <2>1, <2>2
<1>15. x("TOP_UP") + x("DROP") + x("CLOSE_HANDOVER") = IF posted THEN 0 ELSE difference
  <2>1. CASE anchor = "DROP"
    <3>1. x("TOP_UP") = 0 /\ x("CLOSE_HANDOVER") = 0
      BY <1>11, <2>1, Kinds
    <3>2. x("DROP") = (IF posted THEN 0 ELSE difference) /\ x("DROP") \in Int
      BY <1>8, <1>11, <2>1, Kinds
    <3>3. QED BY <3>1, <3>2
  <2>2. CASE anchor = "CLOSE_HANDOVER"
    <3>1. x("TOP_UP") = 0 /\ x("DROP") = 0
      BY <1>11, <2>2, Kinds
    <3>2. x("CLOSE_HANDOVER") = (IF posted THEN 0 ELSE difference) /\ x("CLOSE_HANDOVER") \in Int
      BY <1>8, <1>11, <2>2, Kinds
    <3>3. QED BY <3>1, <3>2
  <2>3. QED BY <1>7, <2>1, <2>2 DEF Kind
<1>16. awaiting' = awaiting + (Owed(m) - Owed(moves[s]))
  <2> HIDE DEF W
  <2>1. Owed(m) - Owed(moves[s]) = 0 - (W("TOP_UP") + W("DROP") + W("CLOSE_HANDOVER"))
                                     - (x("TOP_UP") + x("DROP") + x("CLOSE_HANDOVER"))
    BY <1>2, <1>8, <1>14, Kinds DEF Owed
  <2>2. Owed(m) - Owed(moves[s]) = 0 - all - (IF posted THEN 0 ELSE difference)
    BY <1>3, <1>15, <2>1
  <2>3. difference = total - all
    BY DEF difference
  <2>4. awaiting' = awaiting + (0 - all - (IF posted THEN 0 ELSE difference))
    BY <1>1, <1>3, <1>5, <1>8, <2>3
  <2>5. QED BY <2>2, <2>4
<1>17. MovesOK(m)
  <2>1. \A k \in bags : MoveOK(m[k])
    BY <1>6, <1>12 DEF MoveOK
  <2>2. \A k \in Kind : MoveOK(moves[s][k])
    BY <1>0 DEF RowsOK, MovesOK
  <2>3. \A k \in Kind : MoveOK(m[k])
    BY <1>11, <2>1, <2>2
  <2>4. m["TOP_UP"] = moves[s]["TOP_UP"]
    BY <1>6, <1>11, Kinds
  <2>5. QED BY <1>0, <2>3, <2>4 DEF RowsOK, MovesOK
<1>18. \A k \in Kind : m[k].amt = moves[s][k].amt
  BY <1>11, <1>12
<1>19. pend <=> Differs(m) \/ gap[s].st = "PENDING"
  <2>1. \A k \in Kind : m[k].diff = IF k \in bags THEN x(k) ELSE moves[s][k].diff
    BY <1>11, <1>12
  <2>2. Differs(m) <=> Differs(moves[s]) \/ ~posted
    <3>1. \A k \in bags : moves[s][k].diff = 0
      BY <1>6
    <3>2. (x(anchor) # 0 <=> ~posted) /\ \A k \in Kind : k # anchor => x(k) = 0
      BY <1>8, <1>9, <1>11
    <3>3. QED BY <1>7, <2>1, <3>1, <3>2 DEF Differs
  <2>3. ses[s].pending <=> Differs(moves[s]) \/ gap[s].st = "PENDING"
    BY <1>0 DEF RowsOK, PendingOK
  <2>4. QED BY <1>8, <1>10, <2>2, <2>3
<1>20. QED BY <1>4, <1>5, <1>10, <1>13, <1>16, <1>17, <1>18, <1>19, BagStep

-----------------------------------------------------------------------------
(* The steps of a transaction. *)

\* Every transaction in flight has a session of its own.
LEMMA OwnSession ==
  ASSUME TillInv, NEW q \in Req, pc[q] # "idle"
  PROVE  /\ arg[q].s \in Session
         /\ pc[q] = "open" => ses[arg[q].s].status = "NONE" /\ \A p \in Req \ {q} : arg[p].s # arg[q].s
         /\ pc[q] # "open" => ses[arg[q].s].status # "NONE" /\ sLock[arg[q].s] = q
<1>1. RequestOK(q) /\ pc[q] \in {"open", "close", "reopen"}
  BY DEF TillInv, TypeOK
<1>2. CASE pc[q] = "open"
  BY <1>1, <1>2 DEF RequestOK, OpenOK
<1>3. CASE pc[q] = "close"
  BY <1>1, <1>3 DEF RequestOK, CloseOK, Live
<1>4. CASE pc[q] = "reopen"
  BY <1>1, <1>4 DEF RequestOK, ReopenOK
<1>5. QED BY <1>1, <1>2, <1>3, <1>4

\* What an update leaves alone.
LEMMA UpdatesOnly ==
  ASSUME TypeOK, NEW s \in Session, Updates(s), NEW t \in Session, t # s
  PROVE  ses'[t] = ses[t] /\ gap'[t] = gap[t] /\ moves'[t] = moves[t]
  BY DEF Updates, Sets, TypeOK

\* A one-step operation spares the transactions in flight: it waits for the
\* session's row, or does not write it.
LEMMA AloneSpares ==
  ASSUME TillInv, NEW s \in Session, Updates(s), UNCHANGED txs,
         UNCHANGED <<ses, gap, moves>> \/ (sLock[s] = None /\ ses[s].status # "NONE"),
         NEW q \in Req
  PROVE  Spares(q)
<1>0. TypeOK /\ UNCHANGED <<sLock, pc, arg>> /\ q # None
  BY NoneAssumption DEF TillInv, txs
<1>1. CASE pc[q] = "idle"
  BY <1>0, <1>1 DEF Spares
<1>2. CASE pc[q] # "idle"
  <2>1. /\ arg[q].s \in Session
        /\ pc[q] = "open" => ses[arg[q].s].status = "NONE" /\ \A p \in Req \ {q} : arg[p].s # arg[q].s
        /\ pc[q] # "open" => ses[arg[q].s].status # "NONE" /\ sLock[arg[q].s] = q
    BY <1>2, OwnSession
  <2>2. ses'[arg[q].s] = ses[arg[q].s] /\ gap'[arg[q].s] = gap[arg[q].s] /\ moves'[arg[q].s] = moves[arg[q].s]
    <3>1. CASE UNCHANGED <<ses, gap, moves>>
      BY <3>1
    <3>2. CASE sLock[s] = None /\ ses[s].status # "NONE"
      <4>1. arg[q].s # s
        BY <1>0, <2>1, <3>2
      <4>2. QED BY <1>0, <2>1, <4>1, UpdatesOnly
    <3>3. QED BY <3>1, <3>2
  <2>3. QED BY <1>0, <2>1, <2>2 DEF Spares
<1>3. QED BY <1>1, <1>2

\* The end of a transaction spares the others.
LEMMA DoneSpares ==
  ASSUME TillInv, NEW r \in Req, pc[r] # "idle", Done(r), NEW q \in Req, q # r,
         \A t \in Session : t # arg[r].s => ses'[t] = ses[t] /\ gap'[t] = gap[t] /\ moves'[t] = moves[t]
  PROVE  Spares(q)
<1>0. TypeOK
  BY DEF TillInv
<1>1. pc'[q] = pc[q] /\ arg'[q] = arg[q] /\ arg'[r] = NoArg /\ \A p \in Req \ {r} : arg'[p] = arg[p]
  BY <1>0 DEF Done, TypeOK
<1>2. CASE pc[q] = "idle"
  BY <1>1, <1>2 DEF Spares
<1>3. CASE pc[q] # "idle"
  <2>1. /\ arg[q].s \in Session
        /\ pc[q] = "open" => ses[arg[q].s].status = "NONE" /\ \A p \in Req \ {q} : arg[p].s # arg[q].s
        /\ pc[q] # "open" => ses[arg[q].s].status # "NONE" /\ sLock[arg[q].s] = q
    BY <1>3, OwnSession
  <2>2. /\ arg[r].s \in Session
        /\ pc[r] = "open" => ses[arg[r].s].status = "NONE" /\ \A p \in Req \ {r} : arg[p].s # arg[r].s
        /\ pc[r] # "open" => ses[arg[r].s].status # "NONE" /\ sLock[arg[r].s] = r
    BY OwnSession
  <2>3. arg[q].s # arg[r].s
    BY <2>1, <2>2
  <2>4. ses'[arg[q].s] = ses[arg[q].s] /\ gap'[arg[q].s] = gap[arg[q].s] /\ moves'[arg[q].s] = moves[arg[q].s]
    BY <2>1, <2>3
  <2>5. sLock[arg[q].s] = q => sLock'[arg[q].s] = q
    BY <2>1 DEF Done
  <2>6. NoArg.s # arg[q].s
    BY <2>1, NoneAssumption DEF NoArg
  <2>7. \A p \in Req \ {q} : pc[q] = "open" => arg'[p].s # arg[q].s
    BY <1>1, <2>1, <2>6
  <2>8. QED BY <1>1, <2>1, <2>4, <2>5, <2>7 DEF Spares
<1>4. QED BY <1>2, <1>3

\* Its locks and its request keep their types.
LEMMA DoneType ==
  ASSUME TypeOK, NEW r \in Req, Done(r)
  PROVE  /\ sLock' \in [Session -> Req \cup {None}] /\ cLock' \in [Counter -> Req \cup {None}]
         /\ arg' \in [Req -> Arg] /\ pc' \in [Req -> {"idle", "open", "close", "reopen"}]
         /\ pc'[r] = "idle" /\ arg'[r] = NoArg
  BY BlankTypes DEF TypeOK, Done

\* A commit keeps the invariant when its rows fit.
LEMMA CommitKeeps ==
  ASSUME TillInv, NEW r \in Req, pc[r] # "idle", Done(r), Updates(arg[r].s), zLast' \in [Counter -> Nat]
  PROVE  TillInv'
<1>0. TypeOK /\ arg[r].s \in Session
  BY OwnSession DEF TillInv
<1>1. TypeOK' /\ (\A t \in Session : SessionOK(t)') /\ AwaitingTies'
  BY <1>0, DoneType, UpdatesKeep
<1>2. ASSUME NEW q \in Req PROVE RequestOK(q)'
  <2>1. CASE q = r
    BY <1>0, <2>1, DoneType DEF RequestOK
  <2>2. CASE q # r
    <3>1. \A t \in Session : t # arg[r].s => ses'[t] = ses[t] /\ gap'[t] = gap[t] /\ moves'[t] = moves[t]
      BY <1>0, UpdatesOnly
    <3>2. Spares(q)
      BY <2>2, <3>1, DoneSpares
    <3>3. QED BY <1>0, <3>2, SparesKeeps DEF TillInv
  <2>3. QED BY <2>1, <2>2
<1>3. QED BY <1>1, <1>2 DEF TillInv

\* A step that writes no row keeps what is said of sessions.
LEMMA RowsKeep ==
  ASSUME TillInv, UNCHANGED <<rows, inflight>>,
         sLock' \in [Session -> Req \cup {None}], cLock' \in [Counter -> Req \cup {None}],
         arg' \in [Req -> Arg], pc' \in [Req -> {"idle", "open", "close", "reopen"}]
  PROVE  TypeOK' /\ (\A t \in Session : SessionOK(t)') /\ AwaitingTies'
<1>1. TypeOK'
  BY DEF TillInv, TypeOK, rows
<1>2. \A t \in Session : SessionOK(t)'
  BY DEF TillInv, SessionOK, rows
<1>3. AwaitingTies'
  BY DEF TillInv, AwaitingTies, rows
<1>4. QED BY <1>1, <1>2, <1>3

\* A transaction that fails leaves no trace.
LEMMA RollbackStep ==
  ASSUME TillInv, NEW r \in Req, pc[r] # "idle", Rollback(r)
  PROVE  TillInv'
<1>0. TypeOK /\ Done(r) /\ UNCHANGED <<rows, inflight>>
  BY DEF TillInv, Rollback
<1>1. TypeOK' /\ (\A t \in Session : SessionOK(t)') /\ AwaitingTies'
  BY <1>0, DoneType, RowsKeep
<1>2. ASSUME NEW q \in Req PROVE RequestOK(q)'
  <2>1. CASE q = r
    BY <1>0, <2>1, DoneType DEF RequestOK
  <2>2. CASE q # r
    <3>1. Spares(q)
      BY <1>0, <2>2, DoneSpares DEF rows
    <3>2. QED BY <1>0, <3>1, SparesKeeps DEF TillInv
  <2>3. QED BY <2>1, <2>2
<1>3. QED BY <1>1, <1>2 DEF TillInv

\* The beginning of a transaction: r takes what it read, and perhaps the lock
\* of a session nobody has.
LEMMA BeginKeeps ==
  ASSUME TillInv, NEW r \in Req, pc[r] = "idle", NEW s \in Session, NEW a \in Arg, a.s = s,
         NEW step \in {"open", "close", "reopen"},
         pc' = [pc EXCEPT ![r] = step], arg' = [arg EXCEPT ![r] = a],
         UNCHANGED <<rows, inflight>>, cLock' \in [Counter -> Req \cup {None}],
         sLock' = sLock \/ (sLock[s] = None /\ sLock' = [sLock EXCEPT ![s] = r]),
         ses[s].status # "NONE" \/ \A q \in Req : arg[q].s # s,
         RequestOK(r)'
  PROVE  TillInv'
<1>0. TypeOK
  BY DEF TillInv
<1>1. arg' \in [Req -> Arg] /\ pc' \in [Req -> {"idle", "open", "close", "reopen"}]
      /\ sLock' \in [Session -> Req \cup {None}]
  BY <1>0 DEF TypeOK
<1>2. TypeOK' /\ (\A t \in Session : SessionOK(t)') /\ AwaitingTies'
  BY <1>1, RowsKeep
<1>3. ASSUME NEW q \in Req, q # r PROVE Spares(q)
  <2>1. pc'[q] = pc[q] /\ arg'[q] = arg[q] /\ arg'[r] = a /\ \A p \in Req \ {r} : arg'[p] = arg[p]
    BY <1>0, <1>3 DEF TypeOK
  <2>2. CASE pc[q] = "idle"
    BY <2>1, <2>2 DEF Spares
  <2>3. CASE pc[q] # "idle"
    <3>1. /\ arg[q].s \in Session
          /\ pc[q] = "open" => ses[arg[q].s].status = "NONE" /\ \A p \in Req \ {q} : arg[p].s # arg[q].s
          /\ pc[q] # "open" => ses[arg[q].s].status # "NONE" /\ sLock[arg[q].s] = q
      BY <2>3, OwnSession
    <3>2. sLock[arg[q].s] = q => sLock'[arg[q].s] = q
      BY <1>0, <3>1, NoneAssumption DEF TypeOK
    <3>3. pc[q] = "open" => arg[q].s # s
      BY <3>1
    <3>4. UNCHANGED <<ses, gap, moves>>
      BY DEF rows
    <3>5. \A p \in Req \ {q} : pc[q] = "open" => arg'[p].s # arg[q].s
      BY <2>1, <3>1, <3>3
    <3>6. QED BY <2>1, <3>1, <3>2, <3>4, <3>5 DEF Spares
  <2>4. QED BY <2>2, <2>3
<1>4. \A q \in Req : RequestOK(q)'
  BY <1>0, <1>3, SparesKeeps DEF TillInv
<1>5. QED BY <1>2, <1>4 DEF TillInv

-----------------------------------------------------------------------------
(* Every step keeps the invariant. *)

\* The operations of one step.
LEMMA AloneStep ==
  ASSUME TillInv, NEW s \in Session, Alone(s)
  PROVE  /\ Updates(s) /\ UNCHANGED <<zLast, txs>>
         /\ UNCHANGED <<ses, gap, moves>> \/ (sLock[s] = None /\ ses[s].status # "NONE")
<1>1. CASE Suspend(s) \/ Resume(s) \/ EndBilling(s)
  <2>1. Free(s, Movable) /\ \E st \in {"OPEN", "SUSPENDED", "COUNTING"} : SetStatus(s, st)
    BY <1>1 DEF Suspend, Resume, EndBilling, Free, Movable
  <2>2. ses[s].status \in Movable /\ sLock[s] = None
    BY <2>1 DEF Free
  <2>3. Updates(s)
    BY <2>1, <2>2, StatusStep
  <2>4. UNCHANGED <<zLast, txs>>
    BY <2>1 DEF SetStatus
  <2>5. QED BY <2>2, <2>3, <2>4 DEF Movable
<1>2. CASE BillCheck(s) \/ BillCommit(s) \/ BillFails(s)
  <2>1. UNCHANGED <<zLast, txs>> /\ UNCHANGED <<ses, gap, moves>>
    BY <1>2 DEF BillCheck, BillCommit, BillFails, rows
  <2>2. QED BY <1>2, <2>1, BillStep
<1>3. ASSUME NEW k \in {"TOP_UP", "DROP"}, VoidMove(s, k)
      PROVE  Updates(s) /\ UNCHANGED <<zLast, txs>> /\ sLock[s] = None /\ ses[s].status # "NONE"
  <2>1. UNCHANGED <<zLast, txs>> /\ sLock[s] = None /\ ses[s].status # "NONE"
    BY <1>3 DEF VoidMove, Voidable, Free, Live
  <2>2. QED BY <1>3, <2>1, VoidStep
<1>4. ASSUME NEW k \in {"TOP_UP", "DROP"}, NEW n \in Float, Move(s, k, n)
      PROVE  Updates(s) /\ UNCHANGED <<zLast, txs>> /\ sLock[s] = None /\ ses[s].status # "NONE"
  <2>1. UNCHANGED <<zLast, txs>> /\ sLock[s] = None /\ ses[s].status # "NONE"
    BY <1>4 DEF Move, Free, Movable
  <2>2. QED BY <1>4, <2>1, MoveStep
<1>5. ASSUME NEW n \in Cash, Count(s, n)
      PROVE  Updates(s) /\ UNCHANGED <<zLast, txs>> /\ sLock[s] = None /\ ses[s].status # "NONE"
  <2>1. UNCHANGED <<zLast, txs>> /\ sLock[s] = None /\ ses[s].status = "COUNTING"
    BY <1>5 DEF Count, Free
  <2>2. /\ ses' = [ses EXCEPT ![s] = CountedRow(s, n, FALSE)] /\ gap' = [gap EXCEPT ![s] = CountedGap(s, n, FALSE)]
        /\ UNCHANGED <<moves, bills, till, awaiting, inflight>>
    BY <1>5 DEF Count
  <2>3. n \in Nat /\ ses[s].status \in Live
    BY <2>1, MoneyAssumption DEF Live
  <2>4. QED BY <2>1, <2>2, <2>3, CountStep
<1>6. CASE Approve(s) \/ Recount(s)
  <2>1. UNCHANGED <<zLast, txs>> /\ sLock[s] = None /\ ses[s].status # "NONE"
    BY <1>6 DEF Approve, Recount, Free
  <2>2. QED BY <1>6, <2>1, DecideStep
<1>7. ASSUME NEW k \in {"DROP", "CLOSE_HANDOVER"}, DecideReceive(s, k)
      PROVE  Updates(s) /\ UNCHANGED <<zLast, txs>> /\ sLock[s] = None /\ ses[s].status # "NONE"
  <2>1. UNCHANGED <<zLast, txs>> /\ sLock[s] = None /\ moves[s][k].diff # 0
    BY <1>7 DEF DecideReceive
  <2>2. k \in Kind /\ moves[s][k] # NoMove
    BY <2>1 DEF Kind, NoMove
  <2>3. ses[s].status # "NONE"
    BY <2>2 DEF TillInv, SessionOK, RowsOK, StageOK
  <2>4. QED BY <1>7, <2>1, <2>3, DecideReceiveStep
<1>8. ASSUME NEW k \in {"DROP", "CLOSE_HANDOVER"}, NEW n \in Cash, Receive(s, k, n)
      PROVE  Updates(s) /\ UNCHANGED <<zLast, txs>> /\ sLock[s] = None /\ ses[s].status # "NONE"
  <2>1. UNCHANGED <<zLast, txs>> /\ sLock[s] = None /\ moves[s][k].receipt = "AWAITING" /\ k \in Kind
    BY <1>8 DEF Receive, Kind
  <2>2. ses[s].status # "NONE"
    BY <2>1, WaitingBag
  <2>3. QED BY <1>8, <2>1, <2>2, ReceiveStep
<1>9. ASSUME NEW total \in Cash, NEW decided \in BOOLEAN, ApproveCash(s, total, decided)
      PROVE  Updates(s) /\ UNCHANGED <<zLast, txs>> /\ sLock[s] = None /\ ses[s].status # "NONE"
  <2>1. UNCHANGED <<zLast, txs>> /\ sLock[s] = None /\ ses[s].status # "NONE"
    BY <1>9 DEF ApproveCash, Free
  <2>2. QED BY <1>9, <2>1, ApproveCashStep
<1>10. QED BY <1>1, <1>2, <1>3, <1>4, <1>5, <1>6, <1>7, <1>8, <1>9 DEF Alone

\* An update outside every transaction keeps the invariant.
LEMMA LoneUpdate ==
  ASSUME TillInv, NEW s \in Session, Updates(s), UNCHANGED <<zLast, txs>>,
         UNCHANGED <<ses, gap, moves>> \/ (sLock[s] = None /\ ses[s].status # "NONE")
  PROVE  TillInv'
<1>0. TypeOK /\ UNCHANGED <<zLast, sLock, cLock, pc, arg>>
  BY DEF TillInv, txs
<1>1. TypeOK' /\ (\A t \in Session : SessionOK(t)') /\ AwaitingTies'
  BY <1>0, UpdatesKeep DEF TypeOK
<1>2. \A q \in Req : Spares(q)
  BY AloneSpares
<1>3. \A q \in Req : RequestOK(q)'
  BY <1>0, <1>2, SparesKeeps DEF TillInv
<1>4. QED BY <1>1, <1>3 DEF TillInv

\* The insert of an open, and the posting of its float.
LEMMA OpenCommitStep ==
  ASSUME TillInv, NEW r \in Req, OpenCommit(r)
  PROVE  TillInv'
<1> DEFINE s == arg[r].s
           row == arg[r].row
           t == IF row.prev = None THEN row.float ELSE row.float - row.issued
<1>0. TypeOK /\ pc[r] = "open"
  BY DEF TillInv, OpenCommit
<1>1. OpenOK(r)
  BY <1>0 DEF TillInv, RequestOK
<1>2. CASE Rollback(r)
  BY <1>0, <1>2, RollbackStep
<1>3. CASE ~Rollback(r)
  <2>1. /\ ses' = [ses EXCEPT ![s] = row] /\ till' = [till EXCEPT ![s] = t] /\ Done(r)
        /\ UNCHANGED <<gap, moves, bills, awaiting, zLast, inflight>>
    BY <1>3 DEF OpenCommit
  <2>2. /\ s \in Session /\ ses[s].status = "NONE" /\ row.status = "OPEN" /\ row.counter \in Counter
        /\ row.left = 0 /\ ~row.counted /\ ~row.pending
    BY <1>1 DEF OpenOK
  <2>3. row \in Row
    BY <1>0 DEF TypeOK, Arg
  <2> HIDE DEF s, row
  <2>4. RowsOK(ses[s], gap[s], moves[s], bills[s], inflight[s], till[s])
    BY <2>2 DEF TillInv, SessionOK
  <2>5. gap[s] = NoGap /\ (\A k \in Kind : moves[s][k] = NoMove) /\ bills[s] = 0
    BY <2>2, <2>4 DEF RowsOK, StageOK
  <2>6. row.float \in Nat /\ row.issued \in Nat /\ row.cash \in Nat
    BY <2>3, RowFields
  <2>7. t \in Int
    BY <2>6
  <2>8. Sets(s, row, gap[s], moves[s], bills[s], inflight[s], t, awaiting)
    BY <1>0, <2>1, <2>2, Stays DEF Sets
  <2>9. StageOK(row, gap[s], moves[s], bills[s], inflight[s])
    BY <2>2, <2>5, <2>6, Kinds DEF StageOK
  <2>10. CountOK(row, gap[s], moves[s]) /\ PendingOK(row, gap[s], moves[s])
    BY <2>2, <2>5 DEF CountOK, PendingOK, Differs, NoMove, NoGap
  <2>11. DrawerOK(row, moves[s], bills[s], t)
    <3>1. MovedIn(moves[s]) = 0
      BY <2>5, Kinds DEF MovedIn, NoMove
    <3>2. Due(row, moves[s], bills[s]) = row.float
      BY <2>5, <2>6, <3>1 DEF Due
    <3>3. Held(row, t) = row.float
      BY <2>6 DEF Held
    <3>4. QED BY <2>2, <3>2, <3>3 DEF DrawerOK
  <2> HIDE DEF t
  <2>12. RowsOK(row, gap[s], moves[s], bills[s], inflight[s], t)
    BY <2>4, <2>9, <2>10, <2>11 DEF RowsOK
  <2>13. Fits(s, row, gap[s], moves[s], bills[s], inflight[s], t, awaiting)
    BY <1>0, <2>2, <2>3, <2>7, <2>12, SessionTypes, SameOwed DEF Fits
  <2>14. Updates(s)
    BY <2>8, <2>13 DEF Updates
  <2>15. zLast' \in [Counter -> Nat]
    BY <1>0, <2>1 DEF TypeOK
  <2>16. QED BY <1>0, <2>1, <2>14, <2>15, CommitKeeps DEF s
<1>4. QED BY <1>2, <1>3

\* The hand-over of the close put in place or taken away leaves the movements
\* by hand as they are.
LEMMA HandOver ==
  ASSUME TypeOK, NEW s \in Session, NEW mv \in MoveRow, MovesOK(moves[s]), MoveOK(mv),
         mv.diff = 0, moves[s]["CLOSE_HANDOVER"].diff = 0
  PROVE  LET m == [moves[s] EXCEPT !["CLOSE_HANDOVER"] = mv] IN
         /\ m \in [Kind -> MoveRow] /\ m["CLOSE_HANDOVER"] = mv /\ MovesOK(m)
         /\ MovedIn(m) = MovedIn(moves[s]) /\ (Differs(m) <=> Differs(moves[s]))
         /\ Owed(m) = Owed(moves[s]) + (Waiting(mv) - Waiting(moves[s]["CLOSE_HANDOVER"]))
         /\ Waiting(mv) \in Nat /\ Waiting(moves[s]["CLOSE_HANDOVER"]) \in Nat
<1> DEFINE m == [moves[s] EXCEPT !["CLOSE_HANDOVER"] = mv]
           old == moves[s]["CLOSE_HANDOVER"]
<1>0. "CLOSE_HANDOVER" \in Kind
  BY Kinds
<1>1. /\ m \in [Kind -> MoveRow] /\ m["CLOSE_HANDOVER"] = mv
      /\ \A j \in Kind \ {"CLOSE_HANDOVER"} : m[j] = moves[s][j]
      /\ Owed(m) = Owed(moves[s]) + (OnLedger(mv) - OnLedger(old))
  BY <1>0, PutMove
<1>2. Waiting(mv) \in Nat /\ Waiting(old) \in Nat
  <2>1. mv.amt \in Nat
    BY DEF MoveRow
  <2>2. QED BY <1>0, <2>1, SessionTypes, OwedType DEF Waiting
<1>3. OnLedger(mv) = Waiting(mv) /\ OnLedger(old) = Waiting(old)
  BY <1>2 DEF OnLedger
<1> HIDE DEF m
<1>4. MovesOK(m) /\ MovedIn(m) = MovedIn(moves[s])
  BY <1>1, Kinds DEF MovesOK, MovedIn
<1>5. Differs(m) <=> Differs(moves[s])
  BY <1>0, <1>1 DEF Differs
<1>6. Owed(m) = Owed(moves[s]) + (Waiting(mv) - Waiting(old))
  BY <1>1, <1>3
<1>7. QED BY <1>1, <1>2, <1>4, <1>5, <1>6 DEF m

\* closeIn, the writes.
LEMMA CloseCommitStep ==
  ASSUME TillInv, NEW r \in Req, CloseCommit(r)
  PROVE  TillInv'
<1> DEFINE s == arg[r].s
           old == arg[r].row
           g == arg[r].gap
           left == arg[r].left
           handed == old.cash - left
           z == IF old.z = 0 THEN arg[r].z + 1 ELSE old.z
           row == [old EXCEPT !.status = "CLOSED", !.left = left, !.z = z]
           g2 == [g EXCEPT !.st = "POSTED"]
           m == [moves[s] EXCEPT !["CLOSE_HANDOVER"] = Bag(handed)]
           t == till[s] + g.amt - handed
           w == awaiting + Waiting(Bag(handed))
<1>0. TypeOK /\ pc[r] = "close"
  BY DEF TillInv, CloseCommit
<1>1. CloseOK(r)
  BY <1>0 DEF TillInv, RequestOK
<1>2. /\ ses' = [ses EXCEPT ![s] = row] /\ gap' = [gap EXCEPT ![s] = g2] /\ Done(r)
      /\ UNCHANGED <<bills, inflight>>
  BY DEF CloseCommit
<1>3. moves' = [moves EXCEPT ![s] = m] /\ till' = [till EXCEPT ![s] = t] /\ awaiting' = w
  BY DEF CloseCommit
<1>4. zLast' = IF old.z = 0 THEN [zLast EXCEPT ![old.counter] = z] ELSE zLast
  BY DEF CloseCommit
<1>5. /\ s \in Session /\ ses[s].status \in Live /\ old.counter \in Counter /\ old.counted
      /\ old.float = ses[s].float /\ old.prev = ses[s].prev /\ old.issued = ses[s].issued
      /\ g.amt = old.cash - old.expected /\ g.moved = MovedIn(moves[s])
      /\ (old.pending <=> Differs(moves[s])) /\ left <= old.cash
  BY <1>1 DEF CloseOK
<1>6. old \in Row /\ g \in Gap /\ left \in Nat /\ arg[r].z \in Nat
  BY <1>0 DEF TypeOK, Arg
<1>7. /\ old.cash \in Nat /\ old.z \in Nat /\ old.expected \in Int /\ old.float \in Nat /\ old.issued \in Nat
      /\ old.counted \in BOOLEAN /\ old.pending \in BOOLEAN
  BY <1>6, RowFields
<1>8. handed \in Nat /\ z \in Nat
  BY <1>5, <1>6, <1>7
<1>9. /\ row \in Row /\ row.status = "CLOSED" /\ row.left = left /\ row.counter = old.counter
      /\ row.prev = old.prev /\ row.issued = old.issued /\ row.float = old.float /\ row.counted = old.counted
      /\ row.cash = old.cash /\ row.expected = old.expected /\ row.pending = old.pending
  <2> HIDE DEF old, left, z
  <2>1. QED BY <1>6, <1>8 DEF Row, Status
<1>10. g2 \in Gap /\ g2.st = "POSTED" /\ g2.amt = g.amt /\ g2.moved = g.moved
  <2> HIDE DEF g
  <2>1. QED BY <1>6 DEF Gap
<1>11. zLast' \in [Counter -> Nat]
  <2>1. zLast \in [Counter -> Nat]
    BY <1>0 DEF TypeOK
  <2> HIDE DEF z, old
  <2>2. QED BY <1>4, <1>8, <2>1
<1>12. Bag(handed) \in MoveRow /\ MoveOK(Bag(handed)) /\ Bag(handed).diff = 0 /\ Bag(handed).amt = handed
  BY <1>8, BagType
<1> HIDE DEF s, old, g, left, handed, z, row, g2
<1>13. RowsOK(ses[s], gap[s], moves[s], bills[s], inflight[s], till[s])
  BY <1>5 DEF TillInv, SessionOK
<1>14. MovesOK(moves[s]) /\ moves[s]["CLOSE_HANDOVER"] = NoMove
  BY <1>5, <1>13 DEF RowsOK, StageOK, Live
<1>15. NoMove.diff = 0 /\ Waiting(NoMove) = 0
  BY DEF NoMove, Waiting
<1>16. /\ m \in [Kind -> MoveRow] /\ m["CLOSE_HANDOVER"] = Bag(handed) /\ MovesOK(m)
       /\ MovedIn(m) = MovedIn(moves[s]) /\ (Differs(m) <=> Differs(moves[s]))
       /\ Owed(m) = Owed(moves[s]) + (Waiting(Bag(handed)) - Waiting(moves[s]["CLOSE_HANDOVER"]))
       /\ Waiting(Bag(handed)) \in Nat
  BY <1>0, <1>5, <1>12, <1>14, <1>15, HandOver
<1> HIDE DEF m
<1>17. awaiting \in Int /\ Owed(moves[s]) \in Int /\ till[s] \in Int /\ MovedIn(moves[s]) \in Int /\ bills[s] \in Nat
  BY <1>0, <1>5, SessionTypes, OwedType
<1>18. w \in Int /\ w = awaiting + (Owed(m) - Owed(moves[s]))
  BY <1>14, <1>15, <1>16, <1>17
<1>19. t \in Int /\ t = till[s] - old.expected + left
  BY <1>5, <1>6, <1>7, <1>8, <1>17 DEF handed
<1>20. Sets(s, row, g2, m, bills[s], inflight[s], t, w)
  BY <1>0, <1>2, <1>3, <1>5, Stays DEF Sets
<1> HIDE DEF t, w
<1>21. StageOK(row, g2, m, bills[s], inflight[s])
  BY <1>5, <1>9 DEF StageOK
<1>22. CountOK(row, g2, m) /\ PendingOK(row, g2, m)
  <2>1. row.counted => g2.amt = row.cash - row.expected /\ g2.moved = MovedIn(m)
    BY <1>5, <1>9, <1>10, <1>16
  <2>2. m["CLOSE_HANDOVER"].amt = row.cash - row.left
    BY <1>9, <1>12, <1>16 DEF handed
  <2>3. PendingOK(row, g2, m)
    BY <1>5, <1>9, <1>10, <1>16 DEF PendingOK
  <2>4. QED BY <2>1, <2>2, <2>3 DEF CountOK
<1>23. DrawerOK(row, m, bills[s], t)
  <2>1. Held(ses[s], till[s]) = Due(ses[s], moves[s], bills[s])
    BY <1>5, <1>13 DEF RowsOK, DrawerOK, Live
  <2>2. Held(row, t) = Held(ses[s], till[s]) - old.expected + left /\ Held(ses[s], till[s]) \in Int
    BY <1>5, <1>6, <1>7, <1>9, <1>17, <1>19 DEF Held
  <2>3. Due(row, m, bills[s]) = Due(ses[s], moves[s], bills[s])
    BY <1>5, <1>9, <1>16 DEF Due
  <2>4. Held(row, t) = left + Due(row, m, bills[s]) - old.expected
    BY <1>6, <1>7, <2>1, <2>2, <2>3
  <2>5. QED BY <1>9, <2>4 DEF DrawerOK
<1>24. RowsOK(row, g2, m, bills[s], inflight[s], t)
  BY <1>16, <1>21, <1>22, <1>23 DEF RowsOK
<1>25. Fits(s, row, g2, m, bills[s], inflight[s], t, w)
  BY <1>0, <1>5, <1>9, <1>10, <1>16, <1>18, <1>19, <1>24, SessionTypes DEF Fits
<1>26. Updates(s)
  BY <1>20, <1>25 DEF Updates
<1>27. QED BY <1>0, <1>2, <1>11, <1>26, CommitKeeps DEF s

\* reopen, the writes: the ledger goes back to what the drawer should hold.
LEMMA ReopenCommitStep ==
  ASSUME TillInv, NEW r \in Req, ReopenCommit(r)
  PROVE  TillInv'
<1> DEFINE s == arg[r].s
           row == ReopenedRow(s)
           old == moves[s]["CLOSE_HANDOVER"]
           m == [moves[s] EXCEPT !["CLOSE_HANDOVER"] = NoMove]
           t == till[s] + (old.amt - gap[s].amt)
           w == awaiting - Waiting(old)
<1>0. TypeOK /\ pc[r] = "reopen"
  BY DEF TillInv, ReopenCommit
<1>1. ReopenOK(r)
  BY <1>0 DEF TillInv, RequestOK
<1>2. CASE Rollback(r)
  BY <1>0, <1>2, RollbackStep
<1>3. CASE ~Rollback(r)
  <2>1. /\ ses' = [ses EXCEPT ![s] = row] /\ gap' = [gap EXCEPT ![s] = NoGap] /\ Done(r)
        /\ UNCHANGED <<bills, zLast, inflight>>
    BY <1>3 DEF ReopenCommit
  <2>2. moves' = [moves EXCEPT ![s] = m] /\ till' = [till EXCEPT ![s] = t] /\ awaiting' = w
    BY <1>3 DEF ReopenCommit, Unwound
  <2>3. s \in Session /\ ses[s].status = "CLOSED" /\ old.receipt # "RECEIVED"
    BY <1>1 DEF ReopenOK
  <2> HIDE DEF s
  <2>4. RowsOK(ses[s], gap[s], moves[s], bills[s], inflight[s], till[s])
    BY <2>3 DEF TillInv, SessionOK
  <2>5. ses[s] \in Row /\ gap[s] \in Gap /\ moves[s] \in [Kind -> MoveRow] /\ bills[s] \in Nat
        /\ inflight[s] \in Nat /\ till[s] \in Int /\ awaiting \in Int
    BY <1>0, <2>3, SessionTypes
  <2>6. /\ ses[s].cash \in Nat /\ ses[s].expected \in Int /\ ses[s].left \in Nat /\ ses[s].float \in Nat
        /\ ses[s].issued \in Nat /\ ses[s].granted \in Nat
    BY <2>5, RowFields
  <2>7. (PendingReceive(s) <=> Differs(moves[s])) /\ PendingReceive(s) \in BOOLEAN
    BY <1>0, <2>3, Queries DEF PendingReceive
  <2>8. /\ row \in Row /\ row.status = "COUNTING" /\ row.counter = ses[s].counter /\ row.prev = ses[s].prev
        /\ row.issued = ses[s].issued /\ row.float = ses[s].float /\ row.counted = FALSE
        /\ row.cash = 0 /\ row.left = 0 /\ row.pending = PendingReceive(s)
    <3>1. ses[s].granted + 1 \in Nat
      BY <2>6
    <3>2. row = [ses[s] EXCEPT !.status = "COUNTING", !.counted = FALSE, !.cash = 0, !.left = 0,
                               !.granted = ses[s].granted + 1, !.pending = PendingReceive(s)]
      BY DEF ReopenedRow
    <3> HIDE DEF row
    <3>3. QED BY <2>5, <2>7, <3>1, <3>2 DEF Row, Status, Holding, Live
  <2>9. MovesOK(moves[s]) /\ old.diff = 0
    BY <2>3, <2>4, Kinds DEF RowsOK, MovesOK, MoveOK
  <2>10. NoMove \in MoveRow /\ MoveOK(NoMove) /\ NoMove.diff = 0 /\ Waiting(NoMove) = 0
    BY BlankTypes DEF NoMove, MoveOK, Waiting
  <2>11. /\ m \in [Kind -> MoveRow] /\ m["CLOSE_HANDOVER"] = NoMove /\ MovesOK(m)
         /\ MovedIn(m) = MovedIn(moves[s]) /\ (Differs(m) <=> Differs(moves[s]))
         /\ Owed(m) = Owed(moves[s]) + (Waiting(NoMove) - Waiting(old)) /\ Waiting(old) \in Nat
    BY <1>0, <2>3, <2>9, <2>10, HandOver
  <2> HIDE DEF m, row
  <2>12. Owed(moves[s]) \in Int /\ MovedIn(moves[s]) \in Int
    BY <2>5, OwedType
  <2>13. w \in Int /\ w = awaiting + (Owed(m) - Owed(moves[s]))
    BY <2>5, <2>10, <2>11, <2>12
  <2>14. ses[s].counted /\ gap[s].amt = ses[s].cash - ses[s].expected /\ old.amt = ses[s].cash - ses[s].left
    BY <2>3, <2>4 DEF RowsOK, StageOK, CountOK
  <2>15. t \in Int /\ t = till[s] + ses[s].expected - ses[s].left
    BY <2>5, <2>6, <2>14
  <2>16. Sets(s, row, NoGap, m, bills[s], inflight[s], t, w)
    BY <1>0, <2>1, <2>2, <2>3, Stays DEF Sets
  <2> HIDE DEF t, w
  <2>17. StageOK(row, NoGap, m, bills[s], inflight[s])
    BY <2>3, <2>4, <2>8, <2>11 DEF RowsOK, StageOK
  <2>18. CountOK(row, NoGap, m) /\ PendingOK(row, NoGap, m)
    BY <2>7, <2>8, <2>11 DEF CountOK, PendingOK, NoGap
  <2>19. DrawerOK(row, m, bills[s], t)
    <3>1. Held(ses[s], till[s]) = ses[s].left + Due(ses[s], moves[s], bills[s]) - ses[s].expected
      BY <2>3, <2>4 DEF RowsOK, DrawerOK
    <3>2. Held(row, t) = Held(ses[s], till[s]) + ses[s].expected - ses[s].left /\ Held(ses[s], till[s]) \in Int
      BY <2>5, <2>6, <2>8, <2>15 DEF Held
    <3>3. Due(row, m, bills[s]) = Due(ses[s], moves[s], bills[s]) /\ Due(ses[s], moves[s], bills[s]) \in Int
      BY <2>5, <2>6, <2>8, <2>11, <2>12 DEF Due
    <3>4. Held(row, t) = Due(row, m, bills[s])
      BY <2>6, <3>1, <3>2, <3>3
    <3>5. QED BY <2>8, <3>4 DEF DrawerOK
  <2>20. RowsOK(row, NoGap, m, bills[s], inflight[s], t)
    BY <2>11, <2>17, <2>18, <2>19 DEF RowsOK
  <2>21. Fits(s, row, NoGap, m, bills[s], inflight[s], t, w)
    BY <1>0, <2>3, <2>8, <2>11, <2>13, <2>15, <2>20, SessionTypes, BlankTypes DEF Fits
  <2>22. Updates(s)
    BY <2>16, <2>21 DEF Updates
  <2>23. zLast' \in [Counter -> Nat]
    BY <1>0, <2>1 DEF TypeOK
  <2>24. QED BY <1>0, <2>1, <2>22, <2>23, CommitKeeps DEF s
<1>4. QED BY <1>2, <1>3

\* The beginning of an open: a fresh row for an id nobody holds.
LEMMA OpenBeginStep ==
  ASSUME TillInv, NEW r \in Req, NEW s \in Session, NEW c \in Counter, OpenBegin(r, s, c)
  PROVE  TillInv'
<1>0. TypeOK /\ pc[r] = "idle" /\ ses[s].status = "NONE" /\ \A q \in Req : arg[q].s # s
  BY DEF TillInv, OpenBegin
<1>1. PICK p \in Session \cup {None}, i \in Nat, n \in Nat :
        arg' = [arg EXCEPT ![r] = [NoArg EXCEPT !.s = s, !.row = Opening(c, p, i, n)]]
  <2>1. PICK row \in Openings(c) : arg' = [arg EXCEPT ![r] = [NoArg EXCEPT !.s = s, !.row = row]]
    BY DEF OpenBegin
  <2>2. \E p \in Session \cup {None}, i \in Nat, n \in Nat : row = Opening(c, p, i, n)
    <3>1. \A p \in Session : ses[p].left \in Nat
      BY <1>0, SessionTypes, RowFields
    <3>2. QED BY <2>1, <3>1, MoneyAssumption DEF Openings
  <2>3. QED BY <2>1, <2>2
<1> DEFINE row == Opening(c, p, i, n)
           a == [NoArg EXCEPT !.s = s, !.row = row]
<1>2. /\ row \in Row /\ row.status = "OPEN" /\ row.counter = c /\ row.left = 0
      /\ row.counted = FALSE /\ row.pending = FALSE
  <2>1. NoRow \in Row /\ NoRow.left = 0 /\ NoRow.counted = FALSE /\ NoRow.pending = FALSE
    BY BlankTypes DEF NoRow
  <2>2. QED BY <2>1 DEF Opening, Row, Status, Holding, Live
<1> HIDE DEF row
<1>3. a \in Arg /\ a.s = s /\ a.row = row
  BY <1>2, BlankTypes DEF NoArg, Arg
<1>4. /\ pc' = [pc EXCEPT ![r] = "open"] /\ cLock' = [cLock EXCEPT ![c] = r] /\ UNCHANGED <<rows, inflight, sLock>>
  BY DEF OpenBegin
<1>5. arg' = [arg EXCEPT ![r] = a]
  BY <1>1 DEF row
<1> HIDE DEF a
<1>6. cLock' \in [Counter -> Req \cup {None}]
  BY <1>0, <1>4 DEF TypeOK
<1>7. pc'[r] = "open" /\ arg'[r] = a /\ \A q \in Req \ {r} : arg'[q] = arg[q]
  BY <1>0, <1>4, <1>5 DEF TypeOK
<1>8. ses' = ses
  BY <1>4 DEF rows
<1>9. OpenOK(r)'
  BY <1>0, <1>2, <1>3, <1>7, <1>8 DEF OpenOK
<1>10. RequestOK(r)'
  BY <1>7, <1>9 DEF RequestOK
<1>11. QED BY <1>0, <1>3, <1>4, <1>5, <1>6, <1>10, BeginKeeps

\* The beginning of a close, of a count that stands.
LEMMA CloseBeginStep ==
  ASSUME TillInv, NEW r \in Req, NEW s \in Session, NEW row \in Row, NEW g \in Gap,
         Free(s, Live), CloseBegin(r, s, row, g), row.counter \in Counter,
         row.float = ses[s].float, row.prev = ses[s].prev, row.issued = ses[s].issued,
         g.amt = row.cash - row.expected, g.moved = MovedIn(moves[s]),
         row.pending <=> Differs(moves[s])
  PROVE  TillInv'
<1>0. TypeOK /\ pc[r] = "idle" /\ sLock[s] = None /\ ses[s].status \in Live /\ row.counted /\ g.st # "PENDING"
  BY DEF TillInv, CloseBegin, Free
<1>1. row.cash \in Nat /\ zLast[row.counter] \in Nat
  BY <1>0, RowFields DEF TypeOK
<1>2. PICK left \in Cash \cap 0..row.cash :
        arg' = [arg EXCEPT ![r] = [s |-> s, row |-> row, gap |-> g, left |-> left, z |-> zLast[row.counter]]]
  BY DEF CloseBegin
<1>3. left \in Nat /\ left <= row.cash
  BY <1>1
<1> DEFINE a == [s |-> s, row |-> row, gap |-> g, left |-> left, z |-> zLast[row.counter]]
<1>4. a \in Arg /\ a.s = s /\ a.row = row /\ a.gap = g /\ a.left = left
  BY <1>1, <1>3 DEF Arg
<1>5. arg' = [arg EXCEPT ![r] = a] /\ pc' = [pc EXCEPT ![r] = "close"]
      /\ sLock' = [sLock EXCEPT ![s] = r] /\ UNCHANGED <<rows, inflight, cLock>>
  BY <1>2 DEF CloseBegin
<1> HIDE DEF a
<1>6. cLock' \in [Counter -> Req \cup {None}]
  BY <1>0, <1>5 DEF TypeOK
<1>7. pc'[r] = "close" /\ arg'[r] = a /\ sLock'[s] = r
  BY <1>0, <1>5 DEF TypeOK
<1>8. ses' = ses /\ moves' = moves
  BY <1>5 DEF rows
<1>9. CloseOK(r)'
  <2>1. MovedIn(moves'[s]) = MovedIn(moves[s]) /\ (Differs(moves'[s]) <=> Differs(moves[s]))
    BY <1>8
  <2>2. QED BY <1>0, <1>3, <1>4, <1>7, <1>8, <2>1 DEF CloseOK
<1>10. RequestOK(r)'
  BY <1>7, <1>9 DEF RequestOK
<1>11. ses[s].status # "NONE"
  BY <1>0 DEF Live
<1>12. QED BY <1>0, <1>4, <1>5, <1>6, <1>10, <1>11, BeginKeeps

\* close: the count and its variance are the ones on the rows.
LEMMA CloseStep ==
  ASSUME TillInv, NEW r \in Req, NEW s \in Session, Close(r, s)
  PROVE  TillInv'
<1>0. TypeOK /\ RowsOK(ses[s], gap[s], moves[s], bills[s], inflight[s], till[s])
  BY DEF TillInv, SessionOK
<1>1. Free(s, Live) /\ ses[s].status = "COUNTING" /\ CloseBegin(r, s, ses[s], gap[s])
  BY DEF Close, Free, Live
<1>2. ses[s].counted /\ gap[s].st # "PENDING"
  BY <1>1 DEF CloseBegin
<1>3. ses[s] \in Row /\ gap[s] \in Gap
  BY <1>0, SessionTypes
<1>4. /\ ses[s].counter \in Counter /\ gap[s].amt = ses[s].cash - ses[s].expected
      /\ gap[s].moved = MovedIn(moves[s]) /\ (ses[s].pending <=> Differs(moves[s]))
  BY <1>0, <1>1, <1>2 DEF RowsOK, StageOK, CountOK, PendingOK
<1>5. QED BY <1>1, <1>3, <1>4, CloseBeginStep

\* A row and a variance a close may start from.
Closable(s, row, g) ==
  /\ row \in Row /\ g \in Gap /\ row.counter = ses[s].counter
  /\ row.float = ses[s].float /\ row.prev = ses[s].prev /\ row.issued = ses[s].issued
  /\ g.amt = row.cash - row.expected /\ g.moved = MovedIn(moves[s])
  /\ row.pending <=> Differs(moves[s])

\* A count that was accepted at once is one.
LEMMA CountedClosable ==
  ASSUME TypeOK, NEW s \in Session, NEW n \in Nat, NEW forced \in BOOLEAN, forced,
         CountedRow(s, n, forced).status = "COUNTING"
  PROVE  Closable(s, CountedRow(s, n, forced), CountedGap(s, n, forced))
<1> DEFINE row == CountedRow(s, n, forced)
           g == CountedGap(s, n, forced)
           o == Outcome(ses[s], n, Expected(s), forced)
<1>1. /\ row \in Row /\ g \in Gap
      /\ row.counter = ses[s].counter /\ row.prev = ses[s].prev /\ row.issued = ses[s].issued
      /\ row.float = ses[s].float /\ (forced => o # "RECOUNT_REQUIRED")
      /\ o # "RECOUNT_REQUIRED" =>
           /\ row.status = IF o = "SENT_FOR_APPROVAL" THEN "PENDING_APPROVAL" ELSE "COUNTING"
           /\ row.counted /\ row.cash = n /\ row.expected = Expected(s)
           /\ row.pending <=> o = "SENT_FOR_APPROVAL" \/ PendingReceive(s)
           /\ g.amt = n - Expected(s) /\ g.moved = Moved(s)
  BY CountedIs
<1> HIDE DEF row, g, o
<1>2. o \notin {"SENT_FOR_APPROVAL", "RECOUNT_REQUIRED"}
  BY <1>1 DEF row
<1>3. Moved(s) = MovedIn(moves[s]) /\ (PendingReceive(s) <=> Differs(moves[s]))
  BY Queries
<1>4. QED BY <1>1, <1>2, <1>3 DEF Closable, row, g

\* forceClose: the supervisor's count closes the session, or is sent for approval.
LEMMA ForceCloseStep ==
  ASSUME TillInv, NEW r \in Req, NEW s \in Session, NEW n \in Cash, ForceClose(r, s, n)
  PROVE  TillInv'
<1> DEFINE row == CountedRow(s, n, TRUE)
           g == CountedGap(s, n, TRUE)
<1>0. TypeOK /\ RowsOK(ses[s], gap[s], moves[s], bills[s], inflight[s], till[s]) /\ n \in Nat
  BY MoneyAssumption DEF TillInv, SessionOK
<1>1. Free(s, Live) /\ ses[s].status \in Live /\ sLock[s] = None
  BY DEF ForceClose, Free
<1>2. ses[s].status # "NONE" /\ ses[s].counter \in Counter
  BY <1>0, <1>1 DEF Live, RowsOK, StageOK
<1>3. CASE row.status = "COUNTING" /\ CloseBegin(r, s, row, g)
  <2>1. TypeOK /\ n \in Nat
    BY <1>0
  <2>2. Closable(s, row, g)
    BY <1>3, <2>1, CountedClosable, Zenon
  <2> HIDE DEF row, g
  <2>3. QED BY <1>1, <1>2, <1>3, <2>2, CloseBeginStep DEF Closable
<1>4. CASE row.status = "PENDING_APPROVAL" /\ ses' = [ses EXCEPT ![s] = row] /\ gap' = [gap EXCEPT ![s] = g]
           /\ UNCHANGED <<moves, bills, till, awaiting, zLast, inflight, txs>>
  <2>1. Updates(s)
    BY <1>0, <1>1, <1>4, CountStep
  <2>2. QED BY <1>1, <1>2, <1>4, <2>1, LoneUpdate
<1>5. QED BY <1>3, <1>4 DEF ForceClose

\* The beginning of a reopen.
LEMMA ReopenBeginStep ==
  ASSUME TillInv, NEW r \in Req, NEW s \in Session, ReopenBegin(r, s)
  PROVE  TillInv'
<1> DEFINE a == [NoArg EXCEPT !.s = s]
<1>0. /\ TypeOK /\ pc[r] = "idle" /\ sLock[s] = None /\ ses[s].status = "CLOSED"
      /\ moves[s]["CLOSE_HANDOVER"].receipt # "RECEIVED"
  BY DEF TillInv, ReopenBegin, Reopenable
<1>1. a \in Arg /\ a.s = s
  BY BlankTypes DEF NoArg, Arg
<1>2. arg' = [arg EXCEPT ![r] = a] /\ pc' = [pc EXCEPT ![r] = "reopen"]
      /\ sLock' = [sLock EXCEPT ![s] = r] /\ UNCHANGED <<rows, inflight, cLock>>
  BY DEF ReopenBegin
<1> HIDE DEF a
<1>3. cLock' \in [Counter -> Req \cup {None}]
  BY <1>0, <1>2 DEF TypeOK
<1>4. pc'[r] = "reopen" /\ arg'[r] = a /\ sLock'[s] = r /\ ses' = ses /\ moves' = moves
  BY <1>0, <1>2 DEF TypeOK, rows
<1>5. RequestOK(r)'
  BY <1>0, <1>1, <1>4 DEF RequestOK, ReopenOK
<1>6. QED BY <1>0, <1>1, <1>2, <1>3, <1>5, BeginKeeps

\* Before the first session is opened.
LEMMA TillInit == Init => TillInv
<1> SUFFICES ASSUME Init PROVE TillInv
  OBVIOUS
<1>1. \A s \in Session : /\ ses[s] = NoRow /\ gap[s] = NoGap /\ (\A k \in Kind : moves[s][k] = NoMove)
                         /\ bills[s] = 0 /\ inflight[s] = 0 /\ till[s] = 0
  BY DEF Init
<1>2. NoRow.left = 0 /\ NoRow.cash = 0 /\ NoRow.status = "NONE" /\ NoRow.counted = FALSE /\ NoRow.pending = FALSE
  BY DEF NoRow
<1>3. NoMove.amt = 0 /\ NoMove.diff = 0 /\ NoMove.receipt = "NONE" /\ Waiting(NoMove) = 0
  BY DEF NoMove, Waiting
<1>4. TypeOK
  <2>1. ses \in [Session -> Row] /\ gap \in [Session -> Gap] /\ moves \in [Session -> [Kind -> MoveRow]]
    BY BlankTypes DEF Init
  <2>2. \A s \in Session : ses[s].left <= ses[s].cash
    BY <1>1, <1>2
  <2>3. bills \in [Session -> Nat] /\ inflight \in [Session -> Nat] /\ till \in [Session -> Int] /\ awaiting \in Int
    BY DEF Init
  <2>4. \A s \in Session : bills[s] + inflight[s] <= MaxBills[s]
    BY <1>1, BoundAssumption
  <2>5. zLast \in [Counter -> Nat] /\ sLock \in [Session -> Req \cup {None}] /\ cLock \in [Counter -> Req \cup {None}]
    BY DEF Init
  <2>6. pc \in [Req -> {"idle", "open", "close", "reopen"}] /\ arg \in [Req -> Arg]
    BY BlankTypes DEF Init
  <2>7. QED BY <2>1, <2>2, <2>3, <2>4, <2>5, <2>6 DEF TypeOK
<1>5. ASSUME NEW s \in Session PROVE SessionOK(s)
  <2>1. StageOK(ses[s], gap[s], moves[s], bills[s], inflight[s])
    BY <1>1, <1>2, Kinds DEF StageOK
  <2>2. MovesOK(moves[s])
    BY <1>1, <1>3, Kinds DEF MovesOK, MoveOK
  <2>3. CountOK(ses[s], gap[s], moves[s]) /\ DrawerOK(ses[s], moves[s], bills[s], till[s])
    BY <1>1, <1>2 DEF CountOK, DrawerOK
  <2>4. PendingOK(ses[s], gap[s], moves[s])
    BY <1>1, <1>2, <1>3 DEF PendingOK, Differs, NoGap
  <2>5. QED BY <2>1, <2>2, <2>3, <2>4 DEF SessionOK, RowsOK
<1>6. \A r \in Req : RequestOK(r)
  BY DEF Init, RequestOK
<1>7. AwaitingTies
  <2>1. \A s \in Session, k \in Kind : OnLedger(moves[s][k]) = 0
    BY <1>1, <1>3 DEF OnLedger
  <2>2. Ledger = [x \in Session \X Kind |-> 0]
    BY <2>1 DEF Ledger
  <2>3. IsFiniteSet(Session \X Kind)
    BY Kinds, SessionAssumption, FS_Product
  <2>4. SumFunction([x \in Session \X Kind |-> 0]) = 0
    BY <2>3, ZeroSum
  <2>5. awaiting = SumFunction(Ledger)
    BY <2>2, <2>4 DEF Init
  <2>6. QED BY <1>4, <2>5, LedgerIs
<1>8. QED BY <1>4, <1>5, <1>6, <1>7 DEF TillInv

\* Every step of the till keeps the invariant.
LEMMA TillNext == TillInv /\ [Next]_vars => TillInv'
<1> SUFFICES ASSUME TillInv, [Next]_vars PROVE TillInv'
  OBVIOUS
<1>1. CASE UNCHANGED vars
  <2>1. UNCHANGED <<ses, gap, moves, bills, till, awaiting, zLast>>
    BY <1>1 DEF vars, rows
  <2>2. UNCHANGED <<inflight, sLock, cLock, pc, arg>>
    BY <1>1 DEF vars, txs
  <2>3. TypeOK'
    BY <2>1, <2>2 DEF TillInv, TypeOK
  <2>4. \A s \in Session : SessionOK(s)'
    BY <2>1, <2>2 DEF TillInv, SessionOK
  <2>5. \A r \in Req : RequestOK(r)'
    BY <2>1, <2>2 DEF TillInv, RequestOK, OpenOK, CloseOK, ReopenOK
  <2>6. AwaitingTies'
    BY <2>1 DEF TillInv, AwaitingTies
  <2>7. QED BY <2>3, <2>4, <2>5, <2>6 DEF TillInv
<1>2. ASSUME NEW s \in Session, Alone(s) PROVE TillInv'
  BY <1>2, AloneStep, LoneUpdate
<1>3. ASSUME NEW r \in Req, Transaction(r) PROVE TillInv'
  <2>1. ASSUME NEW s \in Session, NEW c \in Counter, OpenBegin(r, s, c) PROVE TillInv'
    BY <2>1, OpenBeginStep
  <2>2. ASSUME NEW s \in Session, Close(r, s) PROVE TillInv'
    BY <2>2, CloseStep
  <2>3. ASSUME NEW s \in Session, ReopenBegin(r, s) PROVE TillInv'
    BY <2>3, ReopenBeginStep
  <2>4. ASSUME NEW s \in Session, NEW n \in Cash, ForceClose(r, s, n) PROVE TillInv'
    BY <2>4, ForceCloseStep
  <2>5. CASE OpenCommit(r)
    BY <2>5, OpenCommitStep
  <2>6. CASE CloseCommit(r)
    BY <2>6, CloseCommitStep
  <2>7. CASE ReopenCommit(r)
    BY <2>7, ReopenCommitStep
  <2>8. CASE Abort(r)
    BY <2>8, RollbackStep DEF Abort
  <2>9. QED BY <1>3, <2>1, <2>2, <2>3, <2>4, <2>5, <2>6, <2>7, <2>8 DEF Transaction
<1>4. QED BY <1>1, <1>2, <1>3 DEF Next

-----------------------------------------------------------------------------
(* The theorems. *)

\* The rows, ledgers and requests of the till keep their types, and the float
\* left is never more than what was counted (ck_tss_disposal).
THEOREM TillTypes == Spec => []TypeOK
<1>1. TillInv => TypeOK
  BY DEF TillInv
<1>2. QED BY TillInit, TillNext, <1>1, PTL DEF Spec

\* However a session is billed, counted, decided, closed and reopened, its till
\* cash ledger holds the expected cash until the close, and the float left and
\* the bills that came late after it (closeIn and reopen mirror each other).
THEOREM DrawerTied == Spec => []DrawerTies
<1>1. TillInv => DrawerTies
  <2> SUFFICES ASSUME TillInv, NEW s \in Session, ses[s].status # "NONE"
               PROVE  DrawerBook(s) = IF ses[s].status = "CLOSED"
                                      THEN ses[s].left + Expected(s) - ses[s].expected ELSE Expected(s)
    BY DEF DrawerTies
  <2>1. TypeOK /\ DrawerOK(ses[s], moves[s], bills[s], till[s])
    BY DEF TillInv, SessionOK, RowsOK
  <2>2. Expected(s) = Due(ses[s], moves[s], bills[s])
    BY <2>1, Queries
  <2>3. DrawerBook(s) = Held(ses[s], till[s])
    BY DEF DrawerBook, Held
  <2>4. QED BY <2>1, <2>2, <2>3 DEF DrawerOK
<1>2. QED BY TillInit, TillNext, <1>1, PTL DEF Spec

\* No movement is added or voided behind a count that stands (create and void
\* under the session's lock, against the status and tssCloseCountId).
THEOREM CountHolds == Spec => []CountStands
<1>1. TillInv => CountStands
  <2> SUFFICES ASSUME TillInv, NEW s \in Session, ses[s].counted PROVE gap[s].moved = Moved(s)
    BY DEF CountStands
  <2>1. TypeOK /\ CountOK(ses[s], gap[s], moves[s])
    BY DEF TillInv, SessionOK, RowsOK
  <2>2. QED BY <2>1, Queries DEF CountOK
<1>2. QED BY TillInit, TillNext, <1>1, PTL DEF Spec

\* The cash awaiting receipt is exactly the bags that wait and the differences
\* nobody decided (receive, approveCash, decideReceive, void and reopen).
THEOREM AwaitingTied == Spec => []AwaitingTies
<1>1. TillInv => AwaitingTies
  BY DEF TillInv
<1>2. QED BY TillInit, TillNext, <1>1, PTL DEF Spec

\* tss_variance_status is PENDING exactly while a variance of the session waits
\* for a decision.
THEOREM PendingTold == Spec => []PendingTells
<1>1. TillInv => PendingTells
  <2> SUFFICES ASSUME TillInv, NEW s \in Session PROVE ses[s].pending <=> AnyPending(s)
    BY DEF PendingTells
  <2>1. TypeOK /\ PendingOK(ses[s], gap[s], moves[s])
    BY DEF TillInv, SessionOK, RowsOK
  <2>2. QED BY <2>1, Queries DEF PendingOK
<1>2. QED BY TillInit, TillNext, <1>1, PTL DEF Spec

=============================================================================
