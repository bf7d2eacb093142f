------------------------ MODULE StockTransferProofs -------------------------
(***************************************************************************)
(* Proofs about StockTransfer, for every set of branches, godowns, lots,   *)
(* despatches, receipts and requests.                                      *)
(*                                                                         *)
(* Everything rests on three locks.  A despatch's row lock keeps its       *)
(* status and its transit rows as they were checked; a receipt's row lock  *)
(* keeps its lines; the item locks of the branches keep the balances and   *)
(* the open rows that were summed.                                         *)
(***************************************************************************)
EXTENDS StockTransfer, SumLemmas

-----------------------------------------------------------------------------
(* Types. *)

\* Ids to stand in for an idle request's.
LEMMA AnyType == AnyOut \in Out /\ AnyIn \in In
  BY OutAssumption DEF AnyOut, AnyIn

\* The empty claim, stock and transit row have their types.
LEMMA BlankType ==
  NoClaim \in [Lot -> Count] /\ NoStock \in [Site -> [Lot -> Int]] /\ NoRow \in Row
  BY DEF NoClaim, NoStock, NoRow, Count, Row, RowStatus

\* The lines a transaction acts on are a line list.
LEMMA CountedType ==
  ASSUME TypeOK, NEW r \in Req
  PROVE  Counted(r) \in [Lot -> Count]
  BY DEF TypeOK, Counted

\* What is claimed of a lot is a quantity.
LEMMA ClaimedType ==
  ASSUME NEW c \in [Lot -> Count], NEW l \in Lot
  PROVE  /\ c[l].good \in Nat /\ c[l].broken \in Nat
         /\ Claimed(c, l) \in Nat /\ Claimed(c, l) = c[l].good + c[l].broken
<1>1. c[l] \in Count
  OBVIOUS
<1>2. c[l].good \in Nat /\ c[l].broken \in Nat
  BY <1>1 DEF Count
<1>3. QED BY <1>2 DEF Claimed

\* A despatch carries a natural number of each lot.
LEMMA LoadType ==
  ASSUME NEW o \in Out, NEW l \in Lot
  PROVE  Load[o][l] \in Nat
  BY LoadAssumption

\* What is left in transit is what was sent less what arrived or broke.
LEMMA RemainingType ==
  ASSUME NEW o \in Out, NEW l \in Lot, NEW rw \in Row
  PROVE  Remaining(o, l, rw) \in Int /\ Remaining(o, l, rw) = Load[o][l] - (rw.received + rw.damage)
<1>1. rw.received \in Nat /\ rw.damage \in Nat
  BY DEF Row
<1>2. QED BY <1>1, LoadType DEF Remaining

\* A settled row is a transit row with the claim added.
LEMMA SettledType ==
  ASSUME NEW o \in Out, NEW l \in Lot, NEW rw \in Row, NEW c \in [Lot -> Count]
  PROVE  LET rw2 == Settled(o, l, rw, c) IN
         /\ rw2 \in Row
         /\ rw2.received = rw.received + c[l].good
         /\ rw2.damage = rw.damage + c[l].broken
         /\ rw2.status = IF Remaining(o, l, rw2) <= 0 THEN "RECEIVED" ELSE "PARTIAL"
<1>0. c[l].good \in Nat /\ c[l].broken \in Nat
  BY ClaimedType
<1> DEFINE got == [rw EXCEPT !.received = @ + c[l].good, !.damage = @ + c[l].broken]
           rw2 == Settled(o, l, rw, c)
<1>1. got \in Row /\ got.received = rw.received + c[l].good /\ got.damage = rw.damage + c[l].broken
  <2>1. rw.received \in Nat /\ rw.damage \in Nat /\ rw.status \in RowStatus
    BY DEF Row
  <2>2. got = [rw EXCEPT !.received = rw.received + c[l].good, !.damage = rw.damage + c[l].broken]
    OBVIOUS
  <2>3. rw.received + c[l].good \in Nat /\ rw.damage + c[l].broken \in Nat
    BY <1>0, <2>1
  <2> HIDE DEF got
  <2>4. QED BY <2>2, <2>3 DEF Row
<1>2. rw2 = [got EXCEPT !.status = IF Remaining(o, l, got) <= 0 THEN "RECEIVED" ELSE "PARTIAL"]
  BY DEF Settled
<1> HIDE DEF got
<1>3. rw2.received = got.received /\ rw2.damage = got.damage /\ rw2 \in Row
      /\ rw2.status = IF Remaining(o, l, got) <= 0 THEN "RECEIVED" ELSE "PARTIAL"
  BY <1>1, <1>2 DEF Row, RowStatus
<1> HIDE DEF rw2
<1>4. Remaining(o, l, rw2) = Remaining(o, l, got)
  BY <1>3 DEF Remaining
<1>5. QED BY <1>1, <1>3, <1>4 DEF rw2

\* The rows a transaction leaves behind are transit rows.
LEMMA SeenType ==
  ASSUME TypeOK, NEW r \in Req, NEW l \in Lot
  PROVE  RowAfter(r, l) \in Row /\ Seen(r, l) \in [Out -> Row]
<1>1. row[l][out[r]] \in Row /\ out[r] \in Out
  BY DEF TypeOK
<1>2. Settled(out[r], l, row[l][out[r]], Counted(r)) \in Row
  BY <1>1, CountedType, SettledType
<1>3. RowAfter(r, l) \in Row
  <2>1. \A s \in RowStatus : [row[l][out[r]] EXCEPT !.status = s] \in Row
    BY <1>1 DEF Row
  <2>2. [NoRow EXCEPT !.status = "IN_TRANSIT"] \in Row
    BY BlankType DEF Row, RowStatus
  <2>3. "RECEIVED" \in RowStatus /\ "CANCELLED" \in RowStatus
    BY DEF RowStatus
  <2>4. QED BY <1>1, <1>2, <2>1, <2>2, <2>3, BlankType DEF RowAfter
<1>4. QED BY <1>1, <1>3 DEF TypeOK, Seen

\* What is on its way to a godown is a number.
LEMMA InboundType ==
  ASSUME NEW s \in Site, NEW l \in Lot, NEW rws \in [Out -> Row]
  PROVE  Inbound(s, l, rws) \in Int
<1>1. [o \in Out |-> IF To[o] = s /\ IsOpen(rws[o]) THEN Remaining(o, l, rws[o]) ELSE 0] \in [Out -> Int]
  BY RemainingType
<1>2. QED BY <1>1, SumType, FiniteAssumption DEF Inbound

\* What a transaction adds at a site is a number.
LEMMA DeltaType ==
  ASSUME TypeOK, NEW r \in Req, NEW s \in Site, NEW l \in Lot
  PROVE  Delta(r, s, l) \in Int
<1>1. Load[out[r]][l] \in Nat /\ Claimed(Counted(r), l) \in Nat
  BY LoadType, CountedType, ClaimedType DEF TypeOK
<1>2. QED BY <1>1 DEF Delta

\* The initial state is well typed.
LEMMA InitType == Init => TypeOK
<1> SUFFICES ASSUME Init PROVE TypeOK
  OBVIOUS
<1>1. onHand \in [Site -> [Lot -> Int]]
  BY OpeningAssumption DEF Init
<1>2. QED BY <1>1, AnyType, BlankType DEF Init, TypeOK, OutStatus, Pc, Op

\* Releasing the locks keeps the types of locks and requests.
LEMMA ReleaseType ==
  ASSUME TypeOK, NEW r \in Req, Release(r)
  PROVE  /\ outLock' \in [Out -> Req \cup {None}]
         /\ inLock' \in [In -> Req \cup {None}]
         /\ itemLock' \in [Branch -> Req \cup {None}]
         /\ pc' \in [Req -> Pc] /\ op' \in [Req -> Op]
         /\ out' \in [Req -> Out] /\ inn' \in [Req -> In]
         /\ form' \in [Req -> [Lot -> Count]]
         /\ hand' \in [Req -> [Site -> [Lot -> Int]]]
         /\ calc' \in [Req -> [Lot -> Int]]
  BY AnyType, BlankType DEF TypeOK, Release, Pc, Op

\* A rolled back transaction keeps the types.
LEMMA RollbackType ==
  ASSUME TypeOK, NEW r \in Req, Rollback(r)
  PROVE  TypeOK'
  BY ReleaseType DEF TypeOK, Rollback, rows

\* What an arriving request may be, and where it starts.
Start(r, o, n, what, c, next) ==
  /\ Arrive(r, o, n, what, c, next)
  /\ \/ what \in {"despatch", "settle", "recall", "cancel"} /\ next = "out" /\ inLock' = inLock
     \/ what \in {"keyIn", "keyInPost", "receive", "delete"} /\ next = "in" /\ inLock' = inLock
     \/ /\ what \in {"keyIn", "keyInPost"} /\ next = (IF what = "keyIn" THEN "commit" ELSE "out")
        /\ inStatus[n] = "ABSENT" /\ inLock[n] = None /\ inLock' = [inLock EXCEPT ![n] = r]

\* Every arrival is one of them.
LEMMA ArrivalStarts ==
  ASSUME NEW r \in Req, Arrival(r)
  PROVE  \E o \in Out, n \in In, what \in Op, c \in [Lot -> Count], next \in Pc :
           Start(r, o, n, what, c, next)
<1> USE AnyType, BlankType DEF Op, Pc
<1>1. ASSUME NEW o \in Out, NEW n \in In, NEW c \in Claim, NEW what \in Op, KeyInRequest(r, o, n, what, c)
      PROVE  \E next \in Pc : Start(r, o, n, what, c, next)
  BY <1>1 DEF KeyInRequest, Start
<1>2. ASSUME NEW o \in Out, DespatchRequest(r, o) PROVE Start(r, o, AnyIn, "despatch", NoClaim, "out")
  BY <1>2 DEF DespatchRequest, Start
<1>3. ASSUME NEW o \in Out, SettleRequest(r, o) PROVE Start(r, o, AnyIn, "settle", NoClaim, "out")
  BY <1>3 DEF SettleRequest, Start
<1>4. ASSUME NEW o \in Out, RecallRequest(r, o) PROVE Start(r, o, AnyIn, "recall", NoClaim, "out")
  BY <1>4 DEF RecallRequest, Start
<1>5. ASSUME NEW o \in Out, CancelRequest(r, o) PROVE Start(r, o, AnyIn, "cancel", NoClaim, "out")
  BY <1>5 DEF CancelRequest, Start
<1>6. ASSUME NEW n \in In, ReceiveRequest(r, n) PROVE Start(r, AnyOut, n, "receive", NoClaim, "in")
  BY <1>6 DEF ReceiveRequest, Start
<1>7. ASSUME NEW n \in In, DeleteRequest(r, n) PROVE Start(r, AnyOut, n, "delete", NoClaim, "in")
  BY <1>7 DEF DeleteRequest, Start
<1>8. \A c \in Claim : c \in [Lot -> Count]
  BY ClaimAssumption
<1>9. CASE \E o \in Out, n \in In, c \in Claim, what \in Op : KeyInRequest(r, o, n, what, c)
  BY <1>1, <1>8, <1>9
<1>10. CASE \E o \in Out : DespatchRequest(r, o) \/ SettleRequest(r, o)
                           \/ RecallRequest(r, o) \/ CancelRequest(r, o)
  <2> PICK o \in Out : DespatchRequest(r, o) \/ SettleRequest(r, o)
                       \/ RecallRequest(r, o) \/ CancelRequest(r, o)
    BY <1>10
  <2>1. \E what \in Op : Start(r, o, AnyIn, what, NoClaim, "out")
    BY <1>2, <1>3, <1>4, <1>5
  <2>2. QED BY <2>1
<1>11. CASE \E n \in In : ReceiveRequest(r, n) \/ DeleteRequest(r, n)
  <2> PICK n \in In : ReceiveRequest(r, n) \/ DeleteRequest(r, n)
    BY <1>11
  <2>1. \E what \in Op : Start(r, AnyOut, n, what, NoClaim, "in")
    BY <1>6, <1>7
  <2>2. QED BY <2>1
<1>12. QED BY <1>9, <1>10, <1>11 DEF Arrival

\* What Apply does when it does not refuse.
Computed(r) ==
  /\ pc[r] = "apply"
  /\ hand' = [hand EXCEPT ![r] = [s \in Site |-> [l \in Lot |->
                IF Delta(r, s, l) # 0 THEN onHand[s][l] + Delta(r, s, l) ELSE 0]]]
  /\ calc' = [calc EXCEPT ![r] = [l \in Lot |->
                IF Refreshes(r, l) THEN Inbound(To[out[r]], l, Seen(r, l)) ELSE 0]]
  /\ pc' = [pc EXCEPT ![r] = "commit"]
  /\ UNCHANGED <<rows, locks, op, out, inn, form>>

\* Apply refuses, or computes figures of which none is negative.
LEMMA ApplyEffect ==
  ASSUME TypeOK, NEW r \in Req, Apply(r)
  PROVE  Rollback(r) \/ (Computed(r) /\ \A s \in Site, l \in Lot : ~(hand'[r][s][l] < 0))
<1> DEFINE new == [s \in Site |-> [l \in Lot |->
                IF Delta(r, s, l) # 0 THEN onHand[s][l] + Delta(r, s, l) ELSE 0]]
<1>1. Rollback(r) \/ (~Blocks(r, new) /\ Computed(r) /\ hand' = [hand EXCEPT ![r] = new])
  BY DEF Apply, Computed
<1> HIDE DEF new
<1>2. QED BY <1>1 DEF Blocks, TypeOK

\* The amounts computed under the locks have their types.
LEMMA ComputedType ==
  ASSUME TypeOK, NEW r \in Req, Computed(r)
  PROVE  TypeOK'
<1> DEFINE new == [s \in Site |-> [l \in Lot |->
                IF Delta(r, s, l) # 0 THEN onHand[s][l] + Delta(r, s, l) ELSE 0]]
           inb == [l \in Lot |-> IF Refreshes(r, l) THEN Inbound(To[out[r]], l, Seen(r, l)) ELSE 0]
<1>1. new \in [Site -> [Lot -> Int]]
  <2>1. \A s \in Site, l \in Lot : onHand[s][l] \in Int /\ Delta(r, s, l) \in Int
    BY DeltaType DEF TypeOK
  <2>2. QED BY <2>1
<1>2. inb \in [Lot -> Int]
  <2>1. To[out[r]] \in Site
    BY OutAssumption DEF TypeOK
  <2>2. \A l \in Lot : Inbound(To[out[r]], l, Seen(r, l)) \in Int
    BY <2>1, SeenType, InboundType
  <2>3. QED BY <2>2
<1>3. hand' = [hand EXCEPT ![r] = new] /\ calc' = [calc EXCEPT ![r] = inb]
  BY DEF Computed
<1> HIDE DEF new, inb
<1>4. QED BY <1>1, <1>2, <1>3 DEF Computed, TypeOK, Pc, rows, locks

\* The status a commit gives a despatch is one of its statuses.
LEMMA OutAfterType ==
  ASSUME TypeOK, NEW r \in Req
  PROVE  OutAfter(r) \in OutStatus
<1>1. outStatus[out[r]] \in OutStatus
  BY DEF TypeOK
<1>2. QED BY <1>1 DEF OutAfter, OutStatus

\* The commit of a posting keeps the types.
LEMMA CommitMoveType ==
  ASSUME TypeOK, NEW r \in Req, CommitMove(r)
  PROVE  TypeOK'
<1>0. out[r] \in Out /\ inn[r] \in In /\ To[out[r]] \in Site
  BY OutAssumption DEF TypeOK
<1>1. outStatus' \in [Out -> OutStatus]
  BY OutAfterType DEF CommitMove, TypeOK
<1>2. row' \in [Lot -> [Out -> Row]]
  BY SeenType DEF CommitMove
<1>3. onHand' \in [Site -> [Lot -> Int]]
  BY DEF CommitMove, TypeOK
<1>4. transitIn' \in [Site -> [Lot -> Int]]
  BY DEF CommitMove, TypeOK
<1>5. inStatus' \in [In -> {"ABSENT", "DRAFT", "POSTED"}] /\ link' \in [In -> Out] /\ claim' \in [In -> [Lot -> Count]]
  BY <1>0, CountedType DEF CommitMove, TypeOK
<1>6. Release(r) /\ inDeleted' = inDeleted
  BY DEF CommitMove
<1>7. QED BY <1>1, <1>2, <1>3, <1>4, <1>5, <1>6, ReleaseType DEF TypeOK

-----------------------------------------------------------------------------
(* The locks. *)

\* r has its despatch locked and checked.
Moving(r) ==
  pc[r] \in {"first", "second", "apply"} \/ (pc[r] = "commit" /\ op[r] \notin {"keyIn", "delete"})

\* Operations that lock a receipt.
OfReceipt(r) == op[r] \in {"keyIn", "keyInPost", "receive", "delete"}

StageOK ==
  \A r \in Req :
    /\ pc[r] \in {"out", "first", "second", "apply"} => op[r] \notin {"keyIn", "delete"}
    /\ pc[r] = "in" => OfReceipt(r)

OutHeld == \A r \in Req : Moving(r) => outLock[out[r]] = r
InHeld == \A r \in Req : OfReceipt(r) /\ pc[r] \notin {"idle", "in"} => inLock[inn[r]] = r
ItemsHeld ==
  \A r \in Req : Moving(r) =>
    /\ pc[r] # "first" => itemLock[First(r)] = r
    /\ pc[r] \in {"apply", "commit"} => itemLock[Second(r)] = r

LockInv == TypeOK /\ StageOK /\ OutHeld /\ InHeld /\ ItemsHeld

\* The receipt's row is locked and may be written.
GrantIn(r) ==
  /\ pc[r] = "in" /\ inLock[inn[r]] = None
  /\ DraftIn(inn[r]) \/ op[r] = "delete"
  /\ inLock' = [inLock EXCEPT ![inn[r]] = r]
  /\ pc' = [pc EXCEPT ![r] = IF Receives(op[r]) THEN "out" ELSE "commit"]
  /\ out' = [out EXCEPT ![r] = IF op[r] = "receive" THEN link[inn[r]] ELSE @]
  /\ UNCHANGED <<rows, outLock, itemLock, op, inn, form, hand, calc>>

\* The despatch's row is locked and passes its checks.
GrantOut(r) ==
  /\ pc[r] = "out" /\ outLock[out[r]] = None /\ Allowed(r)
  /\ outLock' = [outLock EXCEPT ![out[r]] = r]
  /\ pc' = [pc EXCEPT ![r] = "first"]
  /\ UNCHANGED <<rows, inLock, itemLock, op, out, inn, form, hand, calc>>

\* A step of a request.
Starts(r) ==
  \E o \in Out, n \in In, what \in Op, c \in [Lot -> Count], next \in Pc :
    Start(r, o, n, what, c, next)
Goes(r) ==
  \/ Starts(r) \/ Rollback(r) \/ GrantIn(r) \/ GrantOut(r) \/ LockFirst(r) \/ LockSecond(r)
  \/ (Computed(r) /\ \A s \in Site, l \in Lot : ~(hand'[r][s][l] < 0))
  \/ CommitMove(r) \/ CommitKeyIn(r) \/ CommitDelete(r)

\* Every step of the specification is one of these.
LEMMA StepGoes ==
  ASSUME TypeOK, NEW r \in Req, Arrival(r) \/ Advance(r) \/ Abort(r) \/ Victim(r)
  PROVE  Goes(r)
<1>1. CASE Arrival(r)
  BY <1>1, ArrivalStarts DEF Goes, Starts
<1>2. CASE LockIn(r)
  BY <1>2 DEF LockIn, Goes, GrantIn
<1>3. CASE LockOut(r)
  BY <1>3 DEF LockOut, Goes, GrantOut
<1>4. CASE Apply(r)
  BY <1>4, ApplyEffect DEF Goes
<1>5. CASE Abort(r) \/ Victim(r)
  BY <1>5 DEF Goes, Abort, Victim
<1>6. CASE LockFirst(r) \/ LockSecond(r) \/ CommitMove(r) \/ CommitKeyIn(r) \/ CommitDelete(r)
  BY <1>6 DEF Goes
<1>7. QED BY <1>1, <1>2, <1>3, <1>4, <1>5, <1>6 DEF Advance

\* Every step of a request keeps the types.
LEMMA GoesType ==
  ASSUME TypeOK, NEW r \in Req, Goes(r)
  PROVE  TypeOK'
<1>1. CASE Starts(r)
  <2> PICK o \in Out, n \in In, what \in Op, c \in [Lot -> Count], next \in Pc :
        Start(r, o, n, what, c, next)
    BY <1>1 DEF Starts
  <2>1. inLock' \in [In -> Req \cup {None}]
    BY DEF Start, TypeOK
  <2>2. QED BY <2>1 DEF Start, Arrive, TypeOK, rows
<1>2. CASE GrantIn(r)
  <2>1. inn[r] \in In /\ link[inn[r]] \in Out /\ out[r] \in Out
    BY DEF TypeOK
  <2>2. out' = [out EXCEPT ![r] = link[inn[r]]] \/ out' = [out EXCEPT ![r] = out[r]]
    BY <1>2 DEF GrantIn
  <2>3. out' \in [Req -> Out]
    BY <2>1, <2>2 DEF TypeOK
  <2>4. QED BY <1>2, <2>3 DEF GrantIn, TypeOK, Pc, rows
<1>3. CASE GrantOut(r)
  BY <1>3 DEF GrantOut, TypeOK, Pc, rows
<1>4. CASE LockFirst(r) \/ LockSecond(r)
  <2>1. \E b : itemLock' = [itemLock EXCEPT ![b] = r]
    BY <1>4 DEF LockFirst, LockSecond
  <2>2. \E p \in Pc : pc' = [pc EXCEPT ![r] = p]
    BY <1>4 DEF LockFirst, LockSecond, Pc
  <2>3. UNCHANGED <<rows, outLock, inLock, op, out, inn, form, hand, calc>>
    BY <1>4 DEF LockFirst, LockSecond
  <2>4. itemLock' \in [Branch -> Req \cup {None}] /\ pc' \in [Req -> Pc]
    BY <2>1, <2>2 DEF TypeOK
  <2>5. QED BY <2>3, <2>4 DEF TypeOK, rows
<1>5. CASE CommitKeyIn(r)
  BY <1>5, ReleaseType DEF CommitKeyIn, TypeOK
<1>6. CASE CommitDelete(r)
  BY <1>6, ReleaseType DEF CommitDelete, TypeOK
<1>7. QED BY <1>1, <1>2, <1>3, <1>4, <1>5, <1>6, RollbackType, ComputedType, CommitMoveType DEF Goes

\* Every step keeps the types.
LEMMA NextType == TypeOK /\ [Next]_vars => TypeOK'
<1> SUFFICES ASSUME TypeOK, [Next]_vars PROVE TypeOK'
  OBVIOUS
<1>1. CASE UNCHANGED vars
  BY <1>1 DEF TypeOK, vars, rows, locks, reqs
<1>2. CASE Next
  BY <1>2, StepGoes, GoesType DEF Next
<1>3. QED BY <1>1, <1>2

\* Every row, lock and request has its type in every behaviour, for any
\* godowns, lots, despatches and receipts.
THEOREM TransferTypes == Spec => []TypeOK
<1>1. QED BY InitType, NextType, PTL DEF Spec

\* What a request knows about itself.
Same(r) ==
  /\ pc'[r] = pc[r] /\ op'[r] = op[r] /\ out'[r] = out[r] /\ inn'[r] = inn[r]
  /\ form'[r] = form[r] /\ hand'[r] = hand[r] /\ calc'[r] = calc[r]

\* The locks r holds stay with it.
Holds(r) ==
  /\ \A o \in Out : outLock[o] = r => outLock'[o] = r
  /\ \A n \in In : inLock[n] = r => inLock'[n] = r
  /\ \A b \in Branch : itemLock[b] = r => itemLock'[b] = r

\* The headers r has locked, and the transit rows of a despatch, stay as they are.
Guards(r) ==
  /\ \A o \in Out : outLock[o] = r =>
       outStatus'[o] = outStatus[o] /\ \A l \in Lot : row'[l][o] = row[l][o]
  /\ \A n \in In : inLock[n] = r =>
       inStatus'[n] = inStatus[n] /\ link'[n] = link[n] /\ claim'[n] = claim[n]

Kept(r) == Same(r) /\ Holds(r) /\ Guards(r)

\* Releasing q's locks takes none of r's.
LEMMA ReleaseKeeps ==
  ASSUME TypeOK, NEW q \in Req, NEW r \in Req, r # q, Release(q)
  PROVE  Same(r) /\ Holds(r)
<1>1. Same(r)
  BY DEF TypeOK, Release, Same
<1>2. Holds(r)
  BY DEF TypeOK, Release, Holds
<1>3. QED BY <1>1, <1>2

\* Only the despatch of q, and its receipt, change when q commits.
LEMMA CommitGuards ==
  ASSUME LockInv, NEW q \in Req, NEW r \in Req, r # q, CommitMove(q)
  PROVE  Guards(r)
<1> USE DEF LockInv
<1>1. outLock[out[q]] = q
  BY DEF CommitMove, OutHeld, Moving
<1>2. Receives(op[q]) => inLock[inn[q]] = q
  BY DEF CommitMove, InHeld, OfReceipt, Receives
<1>3. ASSUME NEW o \in Out, o # out[q]
      PROVE  outStatus'[o] = outStatus[o] /\ \A l \in Lot : row'[l][o] = row[l][o]
  <2>1. outStatus'[o] = outStatus[o]
    BY <1>3 DEF CommitMove, TypeOK
  <2>2. \A l \in Lot : Seen(q, l)[o] = row[l][o]
    BY <1>3 DEF Seen, TypeOK
  <2>3. QED BY <2>1, <2>2 DEF CommitMove
<1>4. ASSUME NEW n \in In, ~(Receives(op[q]) /\ n = inn[q])
      PROVE  inStatus'[n] = inStatus[n] /\ link'[n] = link[n] /\ claim'[n] = claim[n]
  BY <1>4 DEF CommitMove, TypeOK
<1>5. QED BY <1>1, <1>2, <1>3, <1>4 DEF Guards

\* A step of one request keeps what every other one relies on.
LEMMA StepKeeps ==
  ASSUME LockInv, NEW q \in Req, NEW r \in Req, r # q, Goes(q)
  PROVE  Kept(r)
<1> USE DEF LockInv
<1>0. ASSUME UNCHANGED rows PROVE Guards(r)
  BY <1>0 DEF Guards, rows
<1>1. CASE Starts(q)
  <2> PICK o \in Out, n \in In, what \in Op, c \in [Lot -> Count], next \in Pc :
        Start(q, o, n, what, c, next)
    BY <1>1 DEF Starts
  <2>1. Same(r)
    BY DEF Start, Arrive, Same, TypeOK
  <2>2. Holds(r)
    BY NoneAssumption DEF Start, Arrive, Holds, TypeOK
  <2>3. QED BY <1>0, <2>1, <2>2 DEF Kept, Start, Arrive
<1>2. CASE Rollback(q)
  BY <1>0, <1>2, ReleaseKeeps DEF Rollback, Kept
<1>3. CASE GrantIn(q)
  <2>1. Same(r)
    BY <1>3 DEF GrantIn, Same, TypeOK
  <2>2. Holds(r)
    BY <1>3, NoneAssumption DEF GrantIn, Holds, TypeOK
  <2>3. QED BY <1>0, <1>3, <2>1, <2>2 DEF Kept, GrantIn
<1>4. CASE GrantOut(q)
  <2>1. Same(r)
    BY <1>4 DEF GrantOut, Same, TypeOK
  <2>2. Holds(r)
    BY <1>4, NoneAssumption DEF GrantOut, Holds, TypeOK
  <2>3. QED BY <1>0, <1>4, <2>1, <2>2 DEF Kept, GrantOut
<1>5. CASE LockFirst(q) \/ LockSecond(q)
  <2>1. Same(r)
    BY <1>5 DEF LockFirst, LockSecond, Same, TypeOK
  <2>2. \E b : itemLock[b] \in {None, q} /\ itemLock' = [itemLock EXCEPT ![b] = q]
    BY <1>5 DEF LockFirst, LockSecond
  <2>3. UNCHANGED <<rows, outLock, inLock>>
    BY <1>5 DEF LockFirst, LockSecond
  <2>4. Holds(r)
    BY <2>2, <2>3, NoneAssumption DEF Holds, TypeOK
  <2>5. QED BY <1>0, <2>1, <2>3, <2>4 DEF Kept
<1>6. CASE Computed(q)
  <2>1. Same(r) /\ Holds(r)
    BY <1>6 DEF Computed, Same, Holds, TypeOK, locks
  <2>2. QED BY <1>0, <1>6, <2>1 DEF Kept, Computed
<1>7. CASE CommitMove(q)
  BY <1>7, ReleaseKeeps, CommitGuards DEF CommitMove, Kept
<1>8. CASE CommitKeyIn(q)
  <2>1. inLock[inn[q]] = q
    BY <1>8 DEF CommitKeyIn, InHeld, OfReceipt
  <2>2. Guards(r)
    BY <1>8, <2>1 DEF CommitKeyIn, Guards, TypeOK
  <2>3. QED BY <1>8, <2>2, ReleaseKeeps DEF CommitKeyIn, Kept
<1>9. CASE CommitDelete(q)
  BY <1>9, ReleaseKeeps DEF CommitDelete, Kept, Guards
<1>10. QED BY <1>1, <1>2, <1>3, <1>4, <1>5, <1>6, <1>7, <1>8, <1>9 DEF Goes

\* The locks a request holds, by its step and operation.
LocksOf(r) ==
  /\ pc[r] \in {"out", "first", "second", "apply"} => op[r] \notin {"keyIn", "delete"}
  /\ pc[r] = "in" => OfReceipt(r)
  /\ Moving(r) => outLock[out[r]] = r
  /\ OfReceipt(r) /\ pc[r] \notin {"idle", "in"} => inLock[inn[r]] = r
  /\ Moving(r) /\ pc[r] # "first" => itemLock[First(r)] = r
  /\ Moving(r) /\ pc[r] \in {"apply", "commit"} => itemLock[Second(r)] = r

\* The lock invariant, request by request.
LEMMA LockParts ==
  LockInv <=> TypeOK /\ \A r \in Req : LocksOf(r)
  BY DEF LockInv, StageOK, OutHeld, InHeld, ItemsHeld, LocksOf

\* Another request's step leaves r's locks with it.
LEMMA OtherLocks ==
  ASSUME LockInv, NEW r \in Req, Kept(r)
  PROVE  LocksOf(r)'
<1>1. First(r)' = First(r) /\ Second(r)' = Second(r)
  BY DEF Kept, Same, First, Second
<1>2. (Moving(r)' <=> Moving(r)) /\ (OfReceipt(r)' <=> OfReceipt(r))
  BY DEF Kept, Same, Moving, OfReceipt
<1>3. out[r] \in Out /\ inn[r] \in In /\ First(r) \in Branch /\ Second(r) \in Branch
  BY SiteAssumption, OutAssumption DEF LockInv, TypeOK, First, Second
<1>4. LocksOf(r)
  BY LockParts
<1>5. QED BY <1>1, <1>2, <1>3, <1>4 DEF Kept, Same, Holds, LocksOf

\* Its own step takes the locks its next state asks for.
LEMMA OwnLocks ==
  ASSUME LockInv, NEW r \in Req, Goes(r)
  PROVE  LocksOf(r)'
<1>0. TypeOK /\ LocksOf(r)
  BY LockParts DEF LockInv
<1> USE DEF Moving, OfReceipt
<1>1. CASE Release(r)
  BY <1>0, <1>1 DEF Release, LocksOf, TypeOK
<1>2. CASE Starts(r)
  <2> PICK o \in Out, n \in In, what \in Op, c \in [Lot -> Count], next \in Pc :
        Start(r, o, n, what, c, next)
    BY <1>2 DEF Starts
  <2>1. pc'[r] = next /\ op'[r] = what /\ inn'[r] = n
    BY <1>0 DEF Start, Arrive, TypeOK
  <2>2. next \in {"in", "out"} \/ (next = "commit" /\ what = "keyIn")
    BY DEF Start
  <2>3. what \in {"keyIn", "keyInPost", "receive", "delete"} /\ next # "in" => inLock'[n] = r
    BY <1>0 DEF Start, TypeOK
  <2>4. next = "out" => what \notin {"keyIn", "delete"}
    BY DEF Start
  <2>5. next = "in" => what \in {"keyIn", "keyInPost", "receive", "delete"}
    BY DEF Start
  <2>6. QED BY <2>1, <2>2, <2>3, <2>4, <2>5 DEF LocksOf
<1>3. CASE GrantIn(r)
  <2>1. pc'[r] = (IF Receives(op[r]) THEN "out" ELSE "commit") /\ op'[r] = op[r] /\ inn'[r] = inn[r]
        /\ inLock'[inn[r]] = r
    BY <1>0, <1>3 DEF GrantIn, TypeOK
  <2>2. op[r] \in {"keyIn", "keyInPost", "receive", "delete"}
    BY <1>0, <1>3 DEF GrantIn, LocksOf
  <2>3. QED BY <2>1, <2>2 DEF LocksOf, Receives
<1>4. CASE GrantOut(r)
  <2>1. pc'[r] = "first" /\ op' = op /\ out' = out /\ inn' = inn /\ outLock'[out[r]] = r /\ inLock' = inLock
    BY <1>0, <1>4 DEF GrantOut, TypeOK
  <2>2. pc[r] = "out"
    BY <1>4 DEF GrantOut
  <2>3. QED BY <1>0, <2>1, <2>2 DEF LocksOf
<1>5. First(r) \in Branch /\ Second(r) \in Branch
  BY <1>0, SiteAssumption, OutAssumption DEF TypeOK, First, Second
<1>6. CASE LockFirst(r)
  <2>1. pc[r] = "first" /\ pc'[r] = "second" /\ itemLock'[First(r)] = r
        /\ UNCHANGED <<op, out, inn, outLock, inLock>>
    BY <1>0, <1>5, <1>6 DEF LockFirst, TypeOK
  <2>2. First(r)' = First(r)
    BY <2>1 DEF First
  <2>3. QED BY <1>0, <2>1, <2>2 DEF LocksOf
<1>7. CASE LockSecond(r)
  <2>1. pc[r] = "second" /\ pc'[r] = "apply" /\ itemLock' = [itemLock EXCEPT ![Second(r)] = r]
        /\ UNCHANGED <<op, out, inn, outLock, inLock>>
    BY <1>0, <1>7 DEF LockSecond, TypeOK
  <2>2. First(r)' = First(r) /\ Second(r)' = Second(r)
    BY <2>1 DEF First, Second
  <2>3. itemLock[First(r)] = r
    BY <1>0, <2>1 DEF LocksOf
  <2>4. itemLock'[First(r)] = r /\ itemLock'[Second(r)] = r
    BY <1>0, <1>5, <2>1, <2>3 DEF TypeOK
  <2>5. QED BY <1>0, <2>1, <2>2, <2>4 DEF LocksOf
<1>8. CASE Computed(r)
  <2>1. pc[r] = "apply" /\ pc'[r] = "commit" /\ UNCHANGED <<op, out, inn, outLock, inLock, itemLock>>
    BY <1>0, <1>8 DEF Computed, TypeOK, locks
  <2>2. First(r)' = First(r) /\ Second(r)' = Second(r)
    BY <2>1 DEF First, Second
  <2>3. QED BY <1>0, <2>1, <2>2 DEF LocksOf
<1>9. QED BY <1>1, <1>2, <1>3, <1>4, <1>6, <1>7, <1>8
       DEF Goes, Rollback, CommitMove, CommitKeyIn, CommitDelete

\* The locks hold through every step.
LEMMA LockStep ==
  ASSUME LockInv, NEW q \in Req, Goes(q), TypeOK'
  PROVE  LockInv'
<1>1. ASSUME NEW r \in Req PROVE LocksOf(r)'
  <2>1. CASE r = q
    BY <2>1, OwnLocks
  <2>2. CASE r # q
    BY <2>2, StepKeeps, OtherLocks
  <2>3. QED BY <2>1, <2>2
<1>2. QED BY <1>1, LockParts DEF LockInv, StageOK, OutHeld, InHeld, ItemsHeld, LocksOf

\* Before any request no lock is held.
LEMMA LockInit == Init => LockInv
  BY InitType DEF Init, LockInv, StageOK, OutHeld, InHeld, ItemsHeld, Moving

-----------------------------------------------------------------------------
(* Headers and transit rows. *)

\* What was checked of the despatch under its lock and still holds: of a
\* recall all but the drafts keyed in against it since.
Sound(r) ==
  LET o == out[r] IN
  CASE op[r] = "despatch" -> outStatus[o] = "DRAFT"
    [] Receives(op[r]) -> Receivable(o, Counted(r))
    [] op[r] = "settle" -> Settleable(o)
    [] op[r] = "recall" ->
         outStatus[o] = "IN_TRANSIT" /\ \A l \in Lot : row[l][o].status \in {"NONE", "IN_TRANSIT"}
    [] OTHER -> outStatus[o] = "POSTED"

Checked == \A r \in Req : Moving(r) => Sound(r)

\* A receipt under its lock is not posted yet.
NotPosted ==
  \A r \in Req : OfReceipt(r) /\ op[r] # "delete" /\ pc[r] \notin {"idle", "in"} =>
    inStatus[inn[r]] # "POSTED"

Got(rw) == rw.received + rw.damage

\* A transit row: what it received fits its status and its load.
RowOK(o, l, rw) ==
  /\ Got(rw) <= Load[o][l]
  /\ rw.status = "PARTIAL" => 0 < Got(rw) /\ Got(rw) < Load[o][l]
  /\ rw.status = "RECEIVED" => 0 < Got(rw)
  /\ rw.status \notin {"PARTIAL", "RECEIVED"} => Got(rw) = 0
  /\ rw.status # "NONE" => 0 < Load[o][l]

\* A header and its rows: as long as the despatch is in transit every lot it
\* sent has a row, and none is closed before all of it has come.
HeadOK(st, o, rws) ==
  /\ st \in {"DRAFT", "POSTED"} => \A l \in Lot : rws[l].status = "NONE"
  /\ st = "IN_TRANSIT" =>
       /\ ~SameBranch(o)
       /\ \E l \in Lot : IsOpen(rws[l])
       /\ \A l \in Lot : /\ rws[l].status # "CANCELLED"
                         /\ rws[l].status = "RECEIVED" => Got(rws[l]) = Load[o][l]
                         /\ rws[l].status = "NONE" => Load[o][l] = 0
  /\ st = "POSTED" => SameBranch(o)
  /\ st = "RECEIVED" => \A l \in Lot : rws[l].status \in {"NONE", "RECEIVED"}
  /\ st = "CANCELLED" => \A l \in Lot : rws[l].status \in {"NONE", "CANCELLED"}

RowsOK == \A l \in Lot, o \in Out : RowOK(o, l, row[l][o])
HeadsOK == \A o \in Out : HeadOK(outStatus[o], o, [l \in Lot |-> row[l][o]])

HeaderInv == LockInv /\ Checked /\ NotPosted /\ RowsOK /\ HeadsOK

\* The operations of a request that holds its despatch.
LEMMA MovingOps ==
  ASSUME LockInv, NEW r \in Req, Moving(r)
  PROVE  op[r] \in {"despatch", "settle", "recall", "cancel"} \/ Receives(op[r])
  BY DEF LockInv, TypeOK, StageOK, Moving, Op, Receives

\* The lines a request acts on are kept by its lock.
LEMMA CountedKept ==
  ASSUME LockInv, NEW r \in Req, Moving(r), Kept(r), Receives(op[r])
  PROVE  Counted(r)' = Counted(r)
<1>1. inLock[inn[r]] = r /\ inn[r] \in In
  BY DEF LockInv, InHeld, TypeOK, Moving, OfReceipt, Receives
<1>2. claim'[inn[r]] = claim[inn[r]]
  BY <1>1 DEF Kept, Guards
<1>3. QED BY <1>2 DEF Kept, Same, Counted

\* What was checked of a despatch depends on its header, its rows and the
\* lines of the request alone.
LEMMA SoundSame ==
  ASSUME NEW r \in Req, Sound(r), op'[r] = op[r], out'[r] = out[r],
         Receives(op[r]) => Counted(r)' = Counted(r),
         outStatus'[out[r]] = outStatus[out[r]], \A l \in Lot : row'[l][out[r]] = row[l][out[r]]
  PROVE  Sound(r)'
<1>1. CASE op[r] = "despatch"
  <2>1. outStatus[out[r]] = "DRAFT"
    BY <1>1 DEF Sound, Receives
  <2>2. outStatus'[out'[r]] = "DRAFT" /\ op'[r] = "despatch"
    BY <1>1, <2>1
  <2>3. QED BY <2>2 DEF Sound, Receives
<1>2. CASE Receives(op[r])
  <2>1. Receivable(out[r], Counted(r))
    BY <1>2 DEF Sound, Receives
  <2>2. Receivable(out[r], Counted(r))'
    BY <1>2, <2>1 DEF Receivable
  <2>3. QED BY <1>2, <2>2 DEF Sound, Receives
<1>3. CASE op[r] = "settle"
  <2>1. Settleable(out[r])'
    BY <1>3 DEF Sound, Receives, Settleable
  <2>2. QED BY <1>3, <2>1 DEF Sound, Receives
<1>4. CASE op[r] = "recall"
  BY <1>4 DEF Sound, Receives
<1>5. CASE op[r] \notin {"despatch", "settle", "recall"} /\ ~Receives(op[r])
  BY <1>5 DEF Sound, Receives
<1>6. QED BY <1>1, <1>2, <1>3, <1>4, <1>5

\* What a request checked survives the steps of the others.
LEMMA OtherSound ==
  ASSUME HeaderInv, NEW r \in Req, Kept(r)
  PROVE  /\ Moving(r)' => Sound(r)'
         /\ OfReceipt(r)' /\ op'[r] # "delete" /\ pc'[r] \notin {"idle", "in"} => inStatus'[inn'[r]] # "POSTED"
<1> USE DEF HeaderInv
<1>1. ASSUME Moving(r) PROVE Sound(r)'
  <2>1. outLock[out[r]] = r /\ out[r] \in Out
    BY <1>1 DEF LockInv, OutHeld, TypeOK
  <2>2. outStatus'[out[r]] = outStatus[out[r]] /\ \A l \in Lot : row'[l][out[r]] = row[l][out[r]]
    BY <2>1 DEF Kept, Guards
  <2>3. op'[r] = op[r] /\ out'[r] = out[r]
    BY DEF Kept, Same
  <2>4. Sound(r)
    BY <1>1 DEF Checked
  <2>5. QED BY <1>1, <2>2, <2>3, <2>4, CountedKept, SoundSame
<1>2. Moving(r)' => Moving(r)
  BY DEF Kept, Same, Moving
<1>3. ASSUME OfReceipt(r), op[r] # "delete", pc[r] \notin {"idle", "in"}
      PROVE  inStatus'[inn[r]] # "POSTED"
  <2>1. inLock[inn[r]] = r /\ inn[r] \in In
    BY <1>3 DEF LockInv, InHeld, TypeOK
  <2>2. QED BY <1>3, <2>1 DEF NotPosted, Kept, Guards
<1>4. QED BY <1>1, <1>2, <1>3 DEF Kept, Same, OfReceipt

\* The checks made under the despatch's lock are the ones that stay.
LEMMA AllowedSound ==
  ASSUME NEW r \in Req, Allowed(r)
  PROVE  Sound(r)
  BY DEF Allowed, Sound, Receives, Recallable

\* A request checks before it moves.
LEMMA OwnSound ==
  ASSUME HeaderInv, NEW r \in Req, Goes(r)
  PROVE  /\ Moving(r)' => Sound(r)'
         /\ OfReceipt(r)' /\ op'[r] # "delete" /\ pc'[r] \notin {"idle", "in"} => inStatus'[inn'[r]] # "POSTED"
<1> USE DEF HeaderInv
<1>0. TypeOK
  BY DEF LockInv
<1>1. CASE Release(r)
  <2>1. pc'[r] = "idle"
    BY <1>0, <1>1 DEF Release, TypeOK
  <2>2. QED BY <2>1 DEF Moving
<1>2. CASE Starts(r)
  <2> PICK o \in Out, n \in In, what \in Op, c \in [Lot -> Count], next \in Pc :
        Start(r, o, n, what, c, next)
    BY <1>2 DEF Starts
  <2>1. pc'[r] = next /\ op'[r] = what /\ inn'[r] = n /\ inStatus' = inStatus
    BY <1>0 DEF Start, Arrive, TypeOK, rows
  <2>2. next \in {"in", "out"} \/ (next = "commit" /\ what = "keyIn")
    BY DEF Start
  <2>3. what \in {"keyIn", "keyInPost", "receive"} /\ next # "in" => inStatus[n] = "ABSENT"
    BY DEF Start
  <2>4. QED BY <2>1, <2>2, <2>3 DEF Moving, OfReceipt
<1>3. CASE GrantIn(r)
  <2>1. pc'[r] = (IF Receives(op[r]) THEN "out" ELSE "commit") /\ op'[r] = op[r] /\ inn'[r] = inn[r]
        /\ inStatus' = inStatus /\ pc[r] = "in"
    BY <1>0, <1>3 DEF GrantIn, TypeOK, rows
  <2>2. OfReceipt(r)
    BY <2>1 DEF LockInv, StageOK
  <2>3. ~Moving(r)'
    BY <2>1, <2>2 DEF OfReceipt, Moving, Receives
  <2>4. op[r] # "delete" => inStatus[inn[r]] # "POSTED"
    BY <1>3 DEF GrantIn, DraftIn
  <2>5. QED BY <2>1, <2>3, <2>4
<1>4. ASSUME UNCHANGED <<rows, op, out, inn, form>>, pc[r] \notin {"idle", "in"}, Sound(r)
      PROVE  /\ Moving(r)' => Sound(r)'
             /\ OfReceipt(r)' /\ op'[r] # "delete" /\ pc'[r] \notin {"idle", "in"} => inStatus'[inn'[r]] # "POSTED"
  <2>1. Counted(r)' = Counted(r)
    BY <1>4 DEF Counted, rows
  <2>2. Sound(r)'
    BY <1>4, <2>1, SoundSame DEF rows
  <2>3. QED BY <1>4, <2>2 DEF NotPosted, OfReceipt, rows
<1>5. CASE GrantOut(r)
  BY <1>4, <1>5, AllowedSound DEF GrantOut
<1>6. CASE LockFirst(r) \/ LockSecond(r) \/ Computed(r)
  <2>1. UNCHANGED <<rows, op, out, inn, form>> /\ pc[r] \in {"first", "second", "apply"}
    BY <1>6 DEF LockFirst, LockSecond, Computed
  <2>2. Sound(r)
    BY <2>1 DEF Checked, Moving
  <2>3. QED BY <1>4, <2>1, <2>2
<1>7. QED BY <1>1, <1>2, <1>3, <1>5, <1>6 DEF Goes, Rollback, CommitMove, CommitKeyIn, CommitDelete

-----------------------------------------------------------------------------
(* The row a commit leaves. *)

\* A receipt adds its claim to the row, which has room for it.
LEMMA ReceiptRow ==
  ASSUME HeaderInv, NEW r \in Req, Moving(r), Receives(op[r]), NEW l \in Lot
  PROVE  LET o == out[r]  rw == row[l][o]  rw2 == RowAfter(r, l)  n == Claimed(Counted(r), l) IN
         /\ Got(rw2) = Got(rw) + n
         /\ n = 0 => rw2 = rw
         /\ n > 0 => /\ IsOpen(rw) /\ Got(rw2) <= Load[o][l]
                     /\ rw2.status = IF Got(rw2) = Load[o][l] THEN "RECEIVED" ELSE "PARTIAL"
<1> DEFINE o == out[r]
           rw == row[l][o]
           rw2 == RowAfter(r, l)
           n == Claimed(Counted(r), l)
<1>0. o \in Out /\ rw \in Row /\ rw2 \in Row /\ Counted(r) \in [Lot -> Count]
  BY CountedType, SeenType DEF HeaderInv, LockInv, TypeOK
<1>1. n \in Nat /\ n = Counted(r)[l].good + Counted(r)[l].broken
      /\ Counted(r)[l].good \in Nat /\ Counted(r)[l].broken \in Nat
  BY <1>0, ClaimedType
<1>2. rw.received \in Nat /\ rw.damage \in Nat /\ Load[o][l] \in Nat
  BY <1>0, LoadType DEF Row
<1>3. rw2 = IF n = 0 THEN rw ELSE Settled(o, l, rw, Counted(r))
  BY DEF RowAfter, Receives
<1>4. CASE n = 0
  BY <1>1, <1>2, <1>3, <1>4 DEF Got
<1>5. CASE n # 0
  <2>1. outStatus[o] = "IN_TRANSIT" /\ rw.status # "NONE" /\ n <= Remaining(o, l, rw)
    <3>1. Receivable(o, Counted(r))
      BY DEF HeaderInv, Checked, Sound, Receives
    <3>2. n > 0
      BY <1>1, <1>5
    <3>3. QED BY <3>1, <3>2 DEF Receivable
  <2>2. rw2.received = rw.received + Counted(r)[l].good /\ rw2.damage = rw.damage + Counted(r)[l].broken
        /\ rw2.status = IF Remaining(o, l, rw2) <= 0 THEN "RECEIVED" ELSE "PARTIAL"
    BY <1>0, <1>3, <1>5, SettledType
  <2>3. Remaining(o, l, rw) = Load[o][l] - Got(rw) /\ Remaining(o, l, rw2) = Load[o][l] - Got(rw2)
    BY <1>0, RemainingType DEF Got
  <2>4. rw.status \in {"IN_TRANSIT", "PARTIAL"}
    <3>1. HeadOK("IN_TRANSIT", o, [k \in Lot |-> row[k][o]])
      BY <1>0, <2>1 DEF HeaderInv, HeadsOK
    <3>2. rw.status # "CANCELLED" /\ (rw.status = "RECEIVED" => Got(rw) = Load[o][l])
      BY <3>1 DEF HeadOK
    <3>3. rw.status # "RECEIVED"
      BY <1>1, <1>2, <1>5, <2>1, <2>3, <3>2 DEF Got
    <3>4. QED BY <1>0, <2>1, <3>2, <3>3 DEF Row, RowStatus
  <2>5. Got(rw2) = Got(rw) + n /\ Got(rw2) <= Load[o][l] /\ Got(rw2) \in Nat
    BY <1>1, <1>2, <2>1, <2>2, <2>3 DEF Got
  <2>6. rw2.status = IF Got(rw2) = Load[o][l] THEN "RECEIVED" ELSE "PARTIAL"
    BY <1>2, <2>2, <2>3, <2>5
  <2>7. QED BY <1>5, <2>4, <2>5, <2>6 DEF IsOpen
<1>6. QED BY <1>4, <1>5

\* The other operations set the status of a row and receive nothing.
LEMMA PlainRow ==
  ASSUME HeaderInv, NEW r \in Req, Moving(r), ~Receives(op[r]), NEW l \in Lot
  PROVE  LET o == out[r]  rw == row[l][o]  rw2 == RowAfter(r, l) IN
         /\ Got(rw2) = Got(rw)
         /\ op[r] = "despatch" =>
              /\ rw.status = "NONE"
              /\ rw2.status = IF SameBranch(o) \/ Load[o][l] = 0 THEN "NONE" ELSE "IN_TRANSIT"
         /\ op[r] = "settle" => rw2.status = IF rw.status = "PARTIAL" THEN "RECEIVED" ELSE rw.status
         /\ op[r] = "recall" => rw2.status = IF rw.status = "IN_TRANSIT" THEN "CANCELLED" ELSE rw.status
         /\ op[r] = "cancel" => rw2 = rw
<1> DEFINE o == out[r]
           rw == row[l][o]
           rw2 == RowAfter(r, l)
<1>0. o \in Out /\ rw \in Row
  BY DEF HeaderInv, LockInv, TypeOK
<1>1. CASE op[r] = "despatch"
  <2>1. outStatus[o] = "DRAFT"
    BY <1>1 DEF HeaderInv, Checked, Sound
  <2>2. HeadOK("DRAFT", o, [k \in Lot |-> row[k][o]])
    BY <1>0, <2>1 DEF HeaderInv, HeadsOK
  <2>3. rw.status = "NONE"
    BY <2>2 DEF HeadOK
  <2>4. Got(rw) = 0
    BY <1>0, <2>3 DEF HeaderInv, RowsOK, RowOK
  <2>5. rw2 = IF SameBranch(o) \/ Load[o][l] = 0 THEN NoRow ELSE [NoRow EXCEPT !.status = "IN_TRANSIT"]
    BY <1>1 DEF RowAfter
  <2>6. Got(NoRow) = 0 /\ NoRow.status = "NONE"
        /\ Got([NoRow EXCEPT !.status = "IN_TRANSIT"]) = 0 /\ [NoRow EXCEPT !.status = "IN_TRANSIT"].status = "IN_TRANSIT"
    BY DEF Got, NoRow
  <2>7. QED BY <1>1, <2>3, <2>4, <2>5, <2>6
<1>2. \A st : Got([rw EXCEPT !.status = st]) = Got(rw) /\ [rw EXCEPT !.status = st].status = st
  BY <1>0 DEF Got, Row
<1>3. CASE op[r] = "settle"
  <2>1. rw2 = IF rw.status = "PARTIAL" THEN [rw EXCEPT !.status = "RECEIVED"] ELSE rw
    BY <1>3 DEF RowAfter, Receives
  <2>2. QED BY <1>2, <1>3, <2>1
<1>4. CASE op[r] = "recall"
  <2>1. rw2 = IF rw.status = "IN_TRANSIT" THEN [rw EXCEPT !.status = "CANCELLED"] ELSE rw
    BY <1>4 DEF RowAfter, Receives
  <2>2. QED BY <1>2, <1>4, <2>1
<1>5. CASE op[r] = "cancel"
  <2>1. rw2 = rw
    BY <1>5 DEF RowAfter, Receives
  <2>2. QED BY <1>5, <2>1
<1>6. QED BY <1>1, <1>3, <1>4, <1>5, MovingOps DEF HeaderInv

\* The transit row a commit writes is one the invariant asks for.
LEMMA RowAfterOK ==
  ASSUME HeaderInv, NEW r \in Req, Moving(r), NEW l \in Lot
  PROVE  RowOK(out[r], l, RowAfter(r, l))
<1> DEFINE o == out[r]
           rw == row[l][o]
           rw2 == RowAfter(r, l)
<1> SUFFICES RowOK(o, l, rw2)
  OBVIOUS
<1>0. o \in Out /\ rw \in Row /\ rw2 \in Row /\ Load[o][l] \in Nat /\ Got(rw) \in Nat /\ Got(rw2) \in Nat
  BY SeenType, LoadType DEF HeaderInv, LockInv, TypeOK, Row, Got
<1>1. RowOK(o, l, rw)
  BY <1>0 DEF HeaderInv, RowsOK
<1>2. CASE Receives(op[r])
  <2> DEFINE n == Claimed(Counted(r), l)
  <2>1. n \in Nat
    BY CountedType, ClaimedType DEF HeaderInv, LockInv
  <2>2. /\ Got(rw2) = Got(rw) + n
        /\ n = 0 => rw2 = rw
        /\ n > 0 => /\ IsOpen(rw) /\ Got(rw2) <= Load[o][l]
                    /\ rw2.status = IF Got(rw2) = Load[o][l] THEN "RECEIVED" ELSE "PARTIAL"
    BY <1>2, ReceiptRow
  <2>3. CASE n = 0
    BY <1>1, <2>2, <2>3
  <2>4. CASE n > 0
    <3>1. rw.status # "NONE"
      BY <2>2, <2>4 DEF IsOpen
    <3>2. 0 < Load[o][l] /\ Got(rw) <= Load[o][l]
      BY <1>1, <3>1 DEF RowOK
    <3>3. Got(rw2) = Got(rw) + n /\ Got(rw2) <= Load[o][l] /\ 0 < Got(rw2)
      BY <1>0, <2>1, <2>2, <2>4
    <3>4. rw2.status = IF Got(rw2) = Load[o][l] THEN "RECEIVED" ELSE "PARTIAL"
      BY <2>2, <2>4
    <3>5. Got(rw2) # Load[o][l] => Got(rw2) < Load[o][l]
      BY <1>0, <3>3
    <3> HIDE DEF n, rw, rw2, o
    <3>6. QED BY <3>2, <3>3, <3>4, <3>5, Zenon DEF RowOK
  <2>5. QED BY <2>1, <2>3, <2>4
<1>3. CASE ~Receives(op[r])
  <2>1. /\ Got(rw2) = Got(rw)
        /\ op[r] = "despatch" =>
             /\ rw.status = "NONE"
             /\ rw2.status = IF SameBranch(o) \/ Load[o][l] = 0 THEN "NONE" ELSE "IN_TRANSIT"
        /\ op[r] = "settle" => rw2.status = IF rw.status = "PARTIAL" THEN "RECEIVED" ELSE rw.status
        /\ op[r] = "recall" => rw2.status = IF rw.status = "IN_TRANSIT" THEN "CANCELLED" ELSE rw.status
        /\ op[r] = "cancel" => rw2 = rw
    BY <1>3, PlainRow
  <2>2. op[r] \in {"despatch", "settle", "recall", "cancel"}
    BY <1>3, MovingOps DEF HeaderInv
  <2>3. Load[o][l] # 0 => 0 < Load[o][l]
    BY <1>0
  <2> HIDE DEF rw, rw2, o
  <2>4. CASE op[r] = "despatch"
    BY <1>1, <2>1, <2>3, <2>4 DEF RowOK
  <2>5. CASE op[r] = "settle"
    <3>1. CASE rw.status = "PARTIAL"
      BY <1>1, <2>1, <2>5, <3>1 DEF RowOK
    <3>2. CASE rw.status # "PARTIAL"
      BY <1>1, <2>1, <2>5, <3>2 DEF RowOK
    <3>3. QED BY <3>1, <3>2
  <2>6. CASE op[r] = "recall"
    <3>1. CASE rw.status = "IN_TRANSIT"
      BY <1>1, <2>1, <2>6, <3>1 DEF RowOK
    <3>2. CASE rw.status # "IN_TRANSIT"
      BY <1>1, <2>1, <2>6, <3>2 DEF RowOK
    <3>3. QED BY <3>1, <3>2
  <2>7. CASE op[r] = "cancel"
    BY <1>1, <2>1, <2>7
  <2>8. QED BY <2>2, <2>4, <2>5, <2>6, <2>7
<1>4. QED BY <1>2, <1>3

\* The header a commit leaves goes with its rows.
LEMMA HeadAfterOK ==
  ASSUME HeaderInv, NEW r \in Req, Moving(r)
  PROVE  HeadOK(OutAfter(r), out[r], [l \in Lot |-> RowAfter(r, l)])
<1> DEFINE o == out[r]
           rws == [l \in Lot |-> row[l][o]]
           rws2 == [l \in Lot |-> RowAfter(r, l)]
<1> SUFFICES HeadOK(OutAfter(r), o, rws2)
  OBVIOUS
<1>0. o \in Out /\ Sound(r) /\ HeadOK(outStatus[o], o, rws)
  BY DEF HeaderInv, LockInv, TypeOK, Checked, HeadsOK
<1>1. ASSUME NEW l \in Lot
      PROVE  /\ rws2[l] \in Row /\ rws[l] = row[l][o] /\ rws2[l] = RowAfter(r, l) /\ Load[o][l] \in Nat
             /\ RowOK(o, l, rws2[l]) /\ RowOK(o, l, rws[l]) /\ Got(rws2[l]) \in Nat
             /\ Remaining(o, l, rws2[l]) = Load[o][l] - Got(rws2[l])
  <2>1. rws2[l] \in Row /\ rws[l] = row[l][o] /\ rws2[l] = RowAfter(r, l) /\ Load[o][l] \in Nat
    BY <1>0, SeenType, LoadType DEF HeaderInv, LockInv
  <2>2. RowOK(o, l, rws2[l]) /\ RowOK(o, l, rws[l])
    BY <1>0, <2>1, RowAfterOK DEF HeaderInv, RowsOK
  <2>3. Got(rws2[l]) \in Nat
    BY <2>1 DEF Got, Row
  <2>4. Remaining(o, l, rws2[l]) = Load[o][l] - Got(rws2[l])
    BY <1>0, <2>1, RemainingType DEF Got
  <2>5. QED BY <2>1, <2>2, <2>3, <2>4
<1>2. CASE op[r] = "despatch"
  <2>1. \A l \in Lot : rws2[l].status = IF SameBranch(o) \/ Load[o][l] = 0 THEN "NONE" ELSE "IN_TRANSIT"
    BY <1>1, <1>2, PlainRow DEF Receives
  <2>2. OutAfter(r) = IF SameBranch(o) THEN "POSTED" ELSE "IN_TRANSIT"
    BY <1>2 DEF OutAfter, Receives
  <2>3. \E l \in Lot : Load[o][l] # 0
    BY <1>0, <1>1, LoadAssumption
  <2> HIDE DEF rws2, rws, o
  <2>4. CASE SameBranch(o)
    BY <2>1, <2>2, <2>4 DEF HeadOK
  <2>5. CASE ~SameBranch(o)
    BY <2>1, <2>2, <2>3, <2>5 DEF HeadOK, IsOpen
  <2>6. QED BY <2>4, <2>5
<1>3. CASE Receives(op[r])
  <2>1. outStatus[o] = "IN_TRANSIT"
    BY <1>0, <1>3 DEF Sound, Receives, Receivable
  <2>2. HeadOK("IN_TRANSIT", o, rws)
    BY <1>0, <2>1
  <2>3. ASSUME NEW l \in Lot
        PROVE  /\ rws2[l].status \in {"NONE", "IN_TRANSIT", "PARTIAL", "RECEIVED"}
               /\ rws2[l].status = "RECEIVED" => Got(rws2[l]) = Load[o][l]
               /\ IsOpen(rws2[l]) => Got(rws2[l]) < Load[o][l]
               /\ rws2[l].status = "NONE" => Load[o][l] = 0
    <3> DEFINE n == Claimed(Counted(r), l)
    <3>1. n \in Nat
      BY CountedType, ClaimedType DEF HeaderInv, LockInv
    <3>2. /\ n = 0 => rws2[l] = rws[l]
          /\ n > 0 => rws2[l].status = IF Got(rws2[l]) = Load[o][l] THEN "RECEIVED" ELSE "PARTIAL"
      BY <1>1, <1>3, ReceiptRow
    <3>3. IsOpen(rws2[l]) => Got(rws2[l]) < Load[o][l]
      <4> HIDE DEF rws2, o
      <4>1. QED BY <1>1 DEF RowOK, IsOpen
    <3>4. /\ rws[l].status # "CANCELLED" /\ (rws[l].status = "RECEIVED" => Got(rws[l]) = Load[o][l])
          /\ rws[l].status = "NONE" => Load[o][l] = 0
      BY <2>2 DEF HeadOK
    <3>5. rws2[l].status \in RowStatus
      BY <1>1 DEF Row
    <3>6. CASE n = 0
      BY <3>2, <3>3, <3>4, <3>5, <3>6 DEF RowStatus
    <3>7. CASE n > 0
      BY <3>2, <3>3, <3>7
    <3>8. QED BY <3>1, <3>6, <3>7
  <2>4. OutAfter(r) = IF NothingLeft(r) THEN "RECEIVED" ELSE "IN_TRANSIT"
    BY <1>3, <2>1 DEF OutAfter, Receives
  <2>5. NothingLeft(r) <=> \A l \in Lot : rws2[l].status # "NONE" => Remaining(o, l, rws2[l]) <= 0
    BY <1>1 DEF NothingLeft
  <2>6. ~SameBranch(o)
    BY <2>2 DEF HeadOK
  <2> HIDE DEF rws2, rws, o
  <2>7. ASSUME NEW l \in Lot, rws2[l].status # "NONE"
        PROVE  Remaining(o, l, rws2[l]) <= 0 <=> rws2[l].status = "RECEIVED"
    BY <1>1, <2>3, <2>7 DEF IsOpen
  <2>8. CASE NothingLeft(r)
    BY <2>4, <2>5, <2>7, <2>8 DEF HeadOK
  <2>9. CASE ~NothingLeft(r)
    <3>1. \E l \in Lot : IsOpen(rws2[l])
      BY <2>3, <2>5, <2>7, <2>9 DEF IsOpen
    <3>2. QED BY <2>3, <2>4, <2>6, <2>9, <3>1 DEF HeadOK
  <2>10. QED BY <2>8, <2>9
<1>4. CASE op[r] = "settle"
  <2>1. outStatus[o] = "IN_TRANSIT" /\ \A l \in Lot : rws[l].status # "IN_TRANSIT"
    BY <1>0, <1>1, <1>4 DEF Sound, Receives, Settleable
  <2>2. HeadOK("IN_TRANSIT", o, rws)
    BY <1>0, <2>1
  <2>3. \A l \in Lot : rws2[l].status = IF rws[l].status = "PARTIAL" THEN "RECEIVED" ELSE rws[l].status
    BY <1>1, <1>4, PlainRow DEF Receives
  <2>4. \A l \in Lot : rws2[l].status \in RowStatus
    BY <1>1 DEF Row
  <2>5. OutAfter(r) = "RECEIVED"
    BY <1>4 DEF OutAfter, Receives
  <2> HIDE DEF rws2, rws, o
  <2>6. QED BY <2>1, <2>2, <2>3, <2>4, <2>5 DEF HeadOK, RowStatus
<1>5. CASE op[r] = "recall"
  <2>1. \A l \in Lot : rws[l].status \in {"NONE", "IN_TRANSIT"}
    BY <1>0, <1>1, <1>5 DEF Sound, Receives
  <2>2. \A l \in Lot : rws2[l].status = IF rws[l].status = "IN_TRANSIT" THEN "CANCELLED" ELSE rws[l].status
    BY <1>1, <1>5, PlainRow DEF Receives
  <2>3. OutAfter(r) = "CANCELLED"
    BY <1>5 DEF OutAfter, Receives
  <2> HIDE DEF rws2, rws, o
  <2>4. QED BY <2>1, <2>2, <2>3 DEF HeadOK
<1>6. CASE op[r] = "cancel"
  <2>1. outStatus[o] = "POSTED"
    BY <1>0, <1>6 DEF Sound, Receives
  <2>2. HeadOK("POSTED", o, rws)
    BY <1>0, <2>1
  <2>3. \A l \in Lot : rws2[l] = rws[l]
    BY <1>1, <1>6, PlainRow DEF Receives
  <2>4. OutAfter(r) = "CANCELLED"
    BY <1>6 DEF OutAfter, Receives
  <2> HIDE DEF rws2, rws, o
  <2>5. QED BY <2>2, <2>3, <2>4 DEF HeadOK
<1>7. QED BY <1>2, <1>3, <1>4, <1>5, <1>6, MovingOps DEF HeaderInv

\* What a commit writes on the despatches.
LEMMA CommitRows ==
  ASSUME TypeOK, NEW r \in Req, CommitMove(r)
  PROVE  /\ outStatus'[out[r]] = OutAfter(r)
         /\ \A l \in Lot : row'[l][out[r]] = RowAfter(r, l)
         /\ \A o \in Out : o # out[r] =>
              outStatus'[o] = outStatus[o] /\ \A l \in Lot : row'[l][o] = row[l][o]
<1>1. out[r] \in Out
  BY DEF TypeOK
<1>2. \A l \in Lot : row'[l] = Seen(r, l)
  BY DEF CommitMove
<1>3. \A l \in Lot : Seen(r, l)[out[r]] = RowAfter(r, l)
  BY <1>1 DEF Seen, TypeOK
<1>4. \A l \in Lot, o \in Out : o # out[r] => Seen(r, l)[o] = row[l][o]
  BY DEF Seen, TypeOK
<1>5. outStatus'[out[r]] = OutAfter(r) /\ \A o \in Out : o # out[r] => outStatus'[o] = outStatus[o]
  BY <1>1 DEF CommitMove, TypeOK
<1>6. QED BY <1>2, <1>3, <1>4, <1>5

\* A step that leaves the rows of despatches alone.
LEMMA QuietStep ==
  ASSUME NEW r \in Req, Goes(r), ~CommitMove(r)
  PROVE  UNCHANGED <<outStatus, row, onHand, transitIn>>
<1>1. CASE Starts(r)
  BY <1>1 DEF Starts, Start, Arrive, rows
<1>2. CASE ~Starts(r)
  BY <1>2 DEF Goes, Rollback, GrantIn, GrantOut, LockFirst, LockSecond, Computed,
       CommitKeyIn, CommitDelete, rows
<1>3. QED BY <1>1, <1>2

\* Every step keeps headers and transit rows together.
LEMMA HeaderStep ==
  ASSUME HeaderInv, NEW q \in Req, Goes(q), TypeOK'
  PROVE  HeaderInv'
<1>0. LockInv /\ TypeOK
  BY DEF HeaderInv, LockInv
<1>1. LockInv'
  BY <1>0, LockStep
<1>2. ASSUME NEW r \in Req
      PROVE  /\ Moving(r)' => Sound(r)'
             /\ OfReceipt(r)' /\ op'[r] # "delete" /\ pc'[r] \notin {"idle", "in"} => inStatus'[inn'[r]] # "POSTED"
  <2>1. CASE r = q
    BY <2>1, OwnSound
  <2>2. CASE r # q
    BY <1>0, <2>2, StepKeeps, OtherSound
  <2>3. QED BY <2>1, <2>2
<1>3. RowsOK' /\ HeadsOK'
  <2>1. CASE ~CommitMove(q)
    BY <2>1, QuietStep DEF HeaderInv, RowsOK, HeadsOK, HeadOK, RowOK
  <2>2. CASE CommitMove(q)
    <3>0. Moving(q)
      BY <2>2 DEF CommitMove, Moving
    <3>1. ASSUME NEW l \in Lot, NEW o \in Out PROVE RowOK(o, l, row'[l][o])
      BY <1>0, <2>2, <3>0, CommitRows, RowAfterOK DEF HeaderInv, RowsOK
    <3>2. ASSUME NEW o \in Out PROVE HeadOK(outStatus'[o], o, [l \in Lot |-> row'[l][o]])
      <4>1. CASE o = out[q]
        <5>1. [l \in Lot |-> row'[l][o]] = [l \in Lot |-> RowAfter(q, l)]
          BY <1>0, <2>2, <4>1, CommitRows
        <5>2. QED BY <1>0, <2>2, <3>0, <4>1, <5>1, CommitRows, HeadAfterOK
      <4>2. CASE o # out[q]
        <5>1. [l \in Lot |-> row'[l][o]] = [l \in Lot |-> row[l][o]]
          BY <1>0, <2>2, <4>2, CommitRows
        <5>2. QED BY <1>0, <2>2, <4>2, <5>1, CommitRows DEF HeaderInv, HeadsOK
      <4>3. QED BY <4>1, <4>2
    <3>3. QED BY <3>1, <3>2 DEF RowsOK, HeadsOK
  <2>3. QED BY <2>1, <2>2
<1>4. QED BY <1>1, <1>2, <1>3 DEF HeaderInv, Checked, NotPosted

\* Before any despatch there is no transit row.
LEMMA HeaderInit == Init => HeaderInv
<1> SUFFICES ASSUME Init PROVE HeaderInv
  OBVIOUS
<1>1. Checked /\ NotPosted
  BY DEF Init, Checked, NotPosted, Moving
<1>2. RowsOK
  <2>1. \A l \in Lot, o \in Out : row[l][o] = NoRow /\ Load[o][l] \in Nat
    BY LoadType DEF Init
  <2>2. \A l \in Lot, o \in Out : Load[o][l] \in Nat => RowOK(o, l, NoRow)
    BY DEF RowOK, NoRow, Got
  <2>3. QED BY <2>1, <2>2 DEF RowsOK
<1>3. HeadsOK
  BY DEF Init, HeadsOK, HeadOK, NoRow
<1>4. QED BY <1>1, <1>2, <1>3, LockInit DEF HeaderInv

\* Headers, rows and checks stand in every behaviour.
LEMMA HeaderNext ==
  HeaderInv /\ [Next]_vars => HeaderInv'
<1> SUFFICES ASSUME HeaderInv, [Next]_vars PROVE HeaderInv'
  OBVIOUS
<1>0. TypeOK /\ TypeOK'
  BY NextType DEF HeaderInv, LockInv
<1>1. CASE UNCHANGED vars
  <2> USE <1>1 DEF vars, rows, locks, reqs
  <2>1. LockInv'
    BY <1>0 DEF HeaderInv, LockInv, StageOK, OutHeld, InHeld, ItemsHeld, Moving, OfReceipt, First, Second
  <2>2. RowsOK' /\ HeadsOK' /\ NotPosted'
    BY DEF HeaderInv, RowsOK, HeadsOK, NotPosted, OfReceipt
  <2>3. Checked'
    <3>1. ASSUME NEW r \in Req, Moving(r)' PROVE Sound(r)'
      <4>1. Moving(r) /\ Counted(r)' = Counted(r)
        BY <3>1 DEF Moving, Counted
      <4>2. QED BY <4>1, SoundSame DEF HeaderInv, Checked
    <3>2. QED BY <3>1 DEF Checked
  <2>4. QED BY <2>1, <2>2, <2>3 DEF HeaderInv
<1>2. CASE Next
  <2> PICK r \in Req : Arrival(r) \/ Advance(r) \/ Abort(r) \/ Victim(r)
    BY <1>2 DEF Next
  <2>1. Goes(r)
    BY <1>0, StepGoes
  <2>2. QED BY <1>0, <2>1, HeaderStep
<1>3. QED BY <1>1, <1>2

\* No lot of a despatch is received beyond what was sent, and the row's status
\* says how much of it came, however receipts, short-settlements and recalls
\* race for it (assertReceivable, settleTransitRows).
THEOREM NoOverReceipt == Spec => []NeverOverReceived
<1>1. HeaderInv => NeverOverReceived
  BY DEF HeaderInv, RowsOK, RowOK, Got, NeverOverReceived
<1>2. QED BY HeaderInit, HeaderNext, <1>1, PTL DEF Spec

\* The despatch's header and its transit rows agree in every behaviour
\* (settleTransitRows, settleTransitShort, recallTransferOut).
THEOREM HeaderFollowsRows == Spec => []HeaderMatchesRows
<1>1. HeaderInv => HeaderMatchesRows
  <2> SUFFICES ASSUME HeaderInv, NEW o \in Out
               PROVE  LET live == {l \in Lot : row[l][o].status # "NONE"} IN
                      /\ outStatus[o] \in {"DRAFT", "POSTED"} => live = {}
                      /\ outStatus[o] = "IN_TRANSIT" => \E l \in live : IsOpen(row[l][o])
                      /\ outStatus[o] = "RECEIVED" => \A l \in live : row[l][o].status = "RECEIVED"
                      /\ outStatus[o] = "CANCELLED" => \A l \in live : row[l][o].status = "CANCELLED"
    BY DEF HeaderMatchesRows
  <2>1. HeadOK(outStatus[o], o, [l \in Lot |-> row[l][o]])
    BY DEF HeaderInv, HeadsOK
  <2>2. QED BY <2>1 DEF HeadOK, IsOpen
<1>2. QED BY HeaderInit, HeaderNext, <1>1, PTL DEF Spec

\* A posted receipt, and a despatch closed or recalled, stay as they are.
THEOREM TransferIsFinal == Spec => TransferFinal
<1> DEFINE Final == /\ \A n \in In : inStatus[n] = "POSTED" =>
                         inStatus'[n] = "POSTED" /\ claim'[n] = claim[n] /\ link'[n] = link[n]
                    /\ \A o \in Out : outStatus[o] \in {"RECEIVED", "CANCELLED"} =>
                         outStatus'[o] = outStatus[o] /\ \A l \in Lot : row'[l][o] = row[l][o]
<1>1. ASSUME HeaderInv, NEW r \in Req, Goes(r) PROVE Final
  <2>0. TypeOK
    BY <1>1 DEF HeaderInv, LockInv
  <2>1. CASE CommitMove(r)
    <3>1. Sound(r)
      BY <1>1, <2>1 DEF HeaderInv, Checked, CommitMove, Moving
    <3>2. outStatus[out[r]] \in {"DRAFT", "IN_TRANSIT", "POSTED"}
      BY <3>1 DEF Sound, Receivable, Settleable
    <3>3. Receives(op[r]) => inStatus[inn[r]] # "POSTED"
      BY <1>1, <2>1 DEF HeaderInv, NotPosted, CommitMove, OfReceipt, Receives
    <3>4. \A n \in In : ~(Receives(op[r]) /\ n = inn[r]) =>
            inStatus'[n] = inStatus[n] /\ link'[n] = link[n] /\ claim'[n] = claim[n]
      BY <2>0, <2>1 DEF CommitMove, TypeOK
    <3>5. QED BY <2>0, <2>1, <3>2, <3>3, <3>4, CommitRows
  <2>2. CASE CommitKeyIn(r)
    <3>1. inStatus[inn[r]] # "POSTED"
      BY <1>1, <2>2 DEF HeaderInv, NotPosted, CommitKeyIn, OfReceipt
    <3>2. QED BY <2>0, <2>2, <3>1 DEF CommitKeyIn, TypeOK
  <2>3. CASE ~CommitMove(r) /\ ~CommitKeyIn(r)
    <3>1. UNCHANGED <<inStatus, claim, link>>
      <4>1. CASE Starts(r)
        BY <4>1 DEF Starts, Start, Arrive, rows
      <4>2. CASE ~Starts(r)
        BY <1>1, <2>3, <4>2 DEF Goes, Rollback, GrantIn, GrantOut, LockFirst, LockSecond, Computed,
             CommitDelete, rows
      <4>3. QED BY <4>1, <4>2
    <3>2. QED BY <1>1, <2>3, <3>1, QuietStep
  <2>4. QED BY <2>1, <2>2, <2>3
<1>2. HeaderInv /\ [Next]_vars => [Final]_vars
  <2> SUFFICES ASSUME HeaderInv, Next PROVE Final
    OBVIOUS
  <2> PICK r \in Req : Arrival(r) \/ Advance(r) \/ Abort(r) \/ Victim(r)
    BY DEF Next
  <2>1. Goes(r)
    BY StepGoes DEF HeaderInv, LockInv
  <2>2. QED BY <1>1, <2>1
<1>3. QED BY HeaderInit, HeaderNext, <1>2, PTL DEF Spec, TransferFinal

-----------------------------------------------------------------------------
(* Receipts and rows. *)

\* What a receipt counts for against a despatch.
Brought(n, o, l) == IF inStatus[n] = "POSTED" /\ link[n] = o THEN Claimed(claim[n], l) ELSE 0

ReceiptInv == HeaderInv /\ ReceiptsAddUp

\* What the receipts brought are numbers.
LEMMA BroughtType ==
  ASSUME TypeOK, NEW o \in Out, NEW l \in Lot
  PROVE  [n \in In |-> Brought(n, o, l)] \in [In -> Int]
<1>1. \A n \in In : Claimed(claim[n], l) \in Nat
  BY ClaimedType DEF TypeOK
<1>2. QED BY <1>1 DEF Brought

\* A row whose receipts stay and that receives nothing still adds up.
LEMMA ReceiptsSame ==
  ASSUME ReceiptsAddUp, NEW o \in Out, NEW l \in Lot, Got(row'[l][o]) = Got(row[l][o]),
         \A n \in In : Brought(n, o, l)' = Brought(n, o, l)
  PROVE  Got(row'[l][o]) = SumFunction([n \in In |-> Brought(n, o, l)'])
<1>1. [n \in In |-> Brought(n, o, l)'] = [n \in In |-> Brought(n, o, l)]
  OBVIOUS
<1>2. Got(row[l][o]) = SumFunction([n \in In |-> Brought(n, o, l)])
  BY DEF ReceiptsAddUp, Got, Brought
<1>3. QED BY <1>1, <1>2

\* A receipt that posts brings its claim, to its despatch and to no other.
LEMMA CommitBrings ==
  ASSUME HeaderInv, NEW r \in Req, CommitMove(r), NEW o \in Out, NEW l \in Lot, NEW n \in In
  PROVE  /\ ~(Receives(op[r]) /\ n = inn[r]) => Brought(n, o, l)' = Brought(n, o, l)
         /\ Receives(op[r]) /\ n = inn[r] =>
              /\ Brought(n, o, l) = 0
              /\ Brought(n, o, l)' = IF o = out[r] THEN Claimed(Counted(r), l) ELSE 0
<1>0. TypeOK /\ inn[r] \in In
  BY DEF HeaderInv, LockInv, TypeOK
<1>1. CASE ~(Receives(op[r]) /\ n = inn[r])
  <2>1. inStatus'[n] = inStatus[n] /\ link'[n] = link[n] /\ claim'[n] = claim[n]
    BY <1>0, <1>1 DEF CommitMove, TypeOK
  <2>2. QED BY <1>1, <2>1 DEF Brought, Claimed
<1>2. CASE Receives(op[r]) /\ n = inn[r]
  <2>1. inStatus[n] # "POSTED"
    BY <1>2 DEF HeaderInv, NotPosted, CommitMove, OfReceipt, Receives
  <2>2. inStatus'[n] = "POSTED" /\ link'[n] = out[r] /\ claim'[n] = Counted(r)
    BY <1>0, <1>2 DEF CommitMove, TypeOK
  <2>3. QED BY <1>2, <2>1, <2>2 DEF Brought, Claimed
<1>3. QED BY <1>1, <1>2

\* Every step keeps the tally of the receipts.
LEMMA ReceiptStep ==
  ASSUME ReceiptInv, NEW r \in Req, Goes(r), TypeOK'
  PROVE  ReceiptsAddUp'
<1>0. HeaderInv /\ TypeOK
  BY DEF ReceiptInv, HeaderInv, LockInv
<1>1. ASSUME NEW o \in Out, NEW l \in Lot
      PROVE  Got(row'[l][o]) = SumFunction([n \in In |-> Brought(n, o, l)'])
  <2>1. CASE CommitMove(r) /\ Receives(op[r]) /\ o = out[r]
    <3> DEFINE f == [n \in In |-> Brought(n, o, l)]
               c == Claimed(Counted(r), l)
    <3>1. inn[r] \in In /\ c \in Int /\ f \in [In -> Int]
      <4>1. c \in Nat
        BY <1>0, CountedType, ClaimedType
      <4>2. f \in [In -> Int]
        BY <1>0, BroughtType
      <4>3. inn[r] \in In
        BY <1>0 DEF TypeOK
      <4> HIDE DEF c, f
      <4>4. QED BY <4>1, <4>2, <4>3
    <3>2. [n \in In |-> Brought(n, o, l)'] = [f EXCEPT ![inn[r]] = c]
      BY <1>0, <2>1, CommitBrings
    <3>3. f[inn[r]] = 0
      BY <1>0, <2>1, <3>1, CommitBrings
    <3>4. Got(row[l][o]) = SumFunction(f)
      BY DEF ReceiptInv, ReceiptsAddUp, Got, Brought
    <3>5. Got(row'[l][o]) = Got(row[l][o]) + c
      <4>1. Moving(r)
        BY <2>1 DEF CommitMove, Moving
      <4>2. QED BY <1>0, <2>1, <4>1, CommitRows, ReceiptRow
    <3>6. SumFunction(f) \in Int
      BY <3>1, SumType, FiniteAssumption
    <3> HIDE DEF f, c
    <3>7. SumFunction([f EXCEPT ![inn[r]] = c]) = SumFunction(f) - f[inn[r]] + c
      BY <3>1, SumUpdate, FiniteAssumption
    <3>8. QED BY <3>1, <3>2, <3>3, <3>4, <3>5, <3>6, <3>7
  <2>2. CASE CommitMove(r) /\ ~(Receives(op[r]) /\ o = out[r])
    <3>1. Got(row'[l][o]) = Got(row[l][o])
      <4>1. Moving(r)
        BY <2>2 DEF CommitMove, Moving
      <4>2. CASE o = out[r]
        BY <1>0, <2>2, <4>1, <4>2, CommitRows, PlainRow
      <4>3. CASE o # out[r]
        BY <1>0, <2>2, <4>3, CommitRows
      <4>4. QED BY <4>2, <4>3
    <3>2. \A n \in In : Brought(n, o, l)' = Brought(n, o, l)
      BY <1>0, <2>2, CommitBrings
    <3>3. QED BY <3>1, <3>2, ReceiptsSame DEF ReceiptInv
  <2>3. CASE ~CommitMove(r)
    <3>1. row' = row
      BY <2>3, QuietStep
    <3>2. CASE CommitKeyIn(r)
      <4>1. inStatus[inn[r]] # "POSTED" /\ inStatus'[inn[r]] # "POSTED"
        BY <1>0, <3>2 DEF HeaderInv, NotPosted, CommitKeyIn, OfReceipt, TypeOK
      <4>2. \A n \in In : n # inn[r] => inStatus'[n] = inStatus[n] /\ link'[n] = link[n] /\ claim'[n] = claim[n]
        BY <1>0, <3>2 DEF CommitKeyIn, TypeOK
      <4>3. \A n \in In : Brought(n, o, l)' = Brought(n, o, l)
        BY <4>1, <4>2 DEF Brought, Claimed
      <4>4. QED BY <3>1, <4>3, ReceiptsSame DEF ReceiptInv
    <3>3. CASE ~CommitKeyIn(r)
      <4>1. UNCHANGED <<inStatus, claim, link>>
        <5>1. CASE Starts(r)
          BY <5>1 DEF Starts, Start, Arrive, rows
        <5>2. CASE ~Starts(r)
          BY <2>3, <3>3, <5>2 DEF Goes, Rollback, GrantIn, GrantOut, LockFirst, LockSecond, Computed,
               CommitDelete, rows
        <5>3. QED BY <5>1, <5>2
      <4>2. \A n \in In : Brought(n, o, l)' = Brought(n, o, l)
        BY <4>1 DEF Brought, Claimed
      <4>3. QED BY <3>1, <4>2, ReceiptsSame DEF ReceiptInv
    <3>4. QED BY <3>2, <3>3
  <2>4. QED BY <2>1, <2>2, <2>3
<1>2. QED BY <1>1 DEF ReceiptsAddUp, Got, Brought, Claimed

\* The posted receipts of a despatch add up to its transit rows: a receipt
\* posts once, and against the despatch it names (svh_link_src_doc_id).
THEOREM ReceiptsTally == Spec => []ReceiptsAddUp
<1>1. Init => ReceiptInv
  <2> SUFFICES ASSUME Init PROVE ReceiptsAddUp
    BY HeaderInit DEF ReceiptInv
  <2>1. ASSUME NEW l \in Lot, NEW o \in Out
        PROVE  Got(row[l][o]) = SumFunction([n \in In |-> Brought(n, o, l)])
    <3>1. [n \in In |-> Brought(n, o, l)] = [n \in In |-> 0]
      BY DEF Init, Brought
    <3>2. Got(row[l][o]) = 0
      BY DEF Init, Got, NoRow
    <3>3. QED BY <3>1, <3>2, ZeroSum, FiniteAssumption
  <2>2. QED BY <2>1 DEF ReceiptsAddUp, Got, Brought
<1>2. ReceiptInv /\ [Next]_vars => ReceiptInv'
  <2> SUFFICES ASSUME ReceiptInv, [Next]_vars PROVE ReceiptInv'
    OBVIOUS
  <2>0. HeaderInv' /\ TypeOK'
    BY HeaderNext DEF ReceiptInv, HeaderInv, LockInv
  <2>1. CASE UNCHANGED vars
    <3>1. UNCHANGED <<row, inStatus, link, claim>>
      BY <2>1 DEF vars, rows
    <3>2. QED BY <2>0, <3>1 DEF ReceiptInv, ReceiptsAddUp, Claimed
  <2>2. CASE Next
    <3> PICK r \in Req : Arrival(r) \/ Advance(r) \/ Abort(r) \/ Victim(r)
      BY <2>2 DEF Next
    <3>1. Goes(r)
      BY StepGoes DEF ReceiptInv, HeaderInv, LockInv
    <3>2. QED BY <2>0, <3>1, ReceiptStep DEF ReceiptInv
  <2>3. QED BY <2>1, <2>2
<1>3. ReceiptInv => ReceiptsAddUp
  BY DEF ReceiptInv
<1>4. QED BY <1>1, <1>2, <1>3, PTL DEF Spec

-----------------------------------------------------------------------------
(* The stock. *)

\* The balances a transaction is about to commit are the committed ones plus
\* what it adds.
HandFresh ==
  \A r \in Req : Moving(r) /\ pc[r] = "commit" =>
    \A s \in Site, l \in Lot : Delta(r, s, l) # 0 => hand[r][s][l] = onHand[s][l] + Delta(r, s, l)

\* The transit-in figures it is about to commit are the sums over the rows it
\* is about to commit.
CalcFresh ==
  \A r \in Req : Moving(r) /\ pc[r] = "commit" =>
    \A l \in Lot : Refreshes(r, l) => calc[r][l] = Inbound(To[out[r]], l, Seen(r, l))

HandNonneg == \A r \in Req, s \in Site, l \in Lot : ~(hand[r][s][l] < 0)

StockInv == HeaderInv /\ HandFresh /\ CalcFresh /\ TransitInIsOpenRows /\ NothingLost

\* The two ends of a despatch are different sites.
LEMMA Ends ==
  ASSUME NEW o \in Out
  PROVE  /\ From[o] \in Site /\ To[o] \in Site /\ From[o] # To[o]
         /\ BranchOf[From[o]] \in Branch /\ BranchOf[To[o]] \in Branch
  BY OutAssumption, SiteAssumption

\* What a transaction adds, at the two ends and nowhere else.
LEMMA DeltaAt ==
  ASSUME HeaderInv, NEW r \in Req, Moving(r), NEW l \in Lot
  PROVE  LET o == out[r]  L == Load[o][l]  n == Claimed(Counted(r), l) IN
         /\ \A s \in Site : s \notin {From[o], To[o]} => Delta(r, s, l) = 0
         /\ Delta(r, From[o], l) = CASE op[r] = "despatch" -> 0 - L
                                     [] op[r] \in {"recall", "cancel"} -> L
                                     [] OTHER -> 0
         /\ Delta(r, To[o], l) = CASE op[r] = "despatch" -> IF SameBranch(o) THEN L ELSE 0
                                   [] Receives(op[r]) -> n
                                   [] op[r] = "cancel" -> 0 - L
                                   [] OTHER -> 0
<1> DEFINE o == out[r]
           L == Load[o][l]
           n == Claimed(Counted(r), l)
<1>0. o \in Out /\ L \in Nat /\ n \in Nat /\ From[o] # To[o]
  BY Ends, LoadType, CountedType, ClaimedType DEF HeaderInv, LockInv, TypeOK
<1>1. CASE op[r] = "despatch"
  BY <1>0, <1>1 DEF Delta, Receives
<1>2. CASE Receives(op[r])
  BY <1>0, <1>2 DEF Delta, Receives
<1>3. CASE op[r] = "settle"
  BY <1>0, <1>3 DEF Delta, Receives
<1>4. CASE op[r] = "recall"
  BY <1>0, <1>4 DEF Delta, Receives
<1>5. CASE op[r] = "cancel"
  BY <1>0, <1>5 DEF Delta, Receives
<1>6. QED BY <1>1, <1>2, <1>3, <1>4, <1>5, MovingOps DEF HeaderInv

\* A balance that is about to change is under the item lock of its branch.
LEMMA DeltaHeld ==
  ASSUME HeaderInv, NEW r \in Req, Moving(r), pc[r] = "commit", NEW s \in Site, NEW l \in Lot,
         Delta(r, s, l) # 0
  PROVE  itemLock[BranchOf[s]] = r
<1> DEFINE o == out[r]
<1>0. o \in Out /\ itemLock[First(r)] = r /\ itemLock[Second(r)] = r
  BY DEF HeaderInv, LockInv, TypeOK, ItemsHeld
<1>1. s = From[o] \/ s = To[o]
  BY DeltaAt
<1>2. CASE op[r] = "despatch"
  <2>1. First(r) = BranchOf[To[o]] /\ Second(r) = BranchOf[From[o]]
    BY <1>2 DEF First, Second
  <2>2. QED BY <1>0, <1>1, <2>1
<1>3. CASE Receives(op[r])
  <2>1. First(r) = BranchOf[To[o]]
    BY <1>3 DEF First, Receives
  <2>2. s = To[o]
    BY <1>1, <1>3, DeltaAt DEF Receives
  <2>3. QED BY <1>0, <2>1, <2>2
<1>4. CASE op[r] = "settle"
  BY <1>4 DEF Delta, Receives
<1>5. CASE op[r] = "recall"
  <2>1. First(r) = BranchOf[From[o]] /\ Second(r) = BranchOf[To[o]]
    BY <1>5 DEF First, Second
  <2>2. QED BY <1>0, <1>1, <2>1
<1>6. CASE op[r] = "cancel"
  <2>1. First(r) = BranchOf[From[o]]
    BY <1>6 DEF First
  <2>2. outStatus[o] = "POSTED"
    BY <1>6 DEF HeaderInv, Checked, Sound, Receives
  <2>3. SameBranch(o)
    BY <1>0, <2>2 DEF HeaderInv, HeadsOK, HeadOK
  <2>4. QED BY <1>0, <1>1, <2>1, <2>3 DEF SameBranch
<1>7. QED BY <1>2, <1>3, <1>4, <1>5, <1>6, MovingOps DEF HeaderInv

\* A transfer between branches has the item lock of its destination.
LEMMA ToHeld ==
  ASSUME HeaderInv, NEW r \in Req, Moving(r), pc[r] = "commit", ~SameBranch(out[r])
  PROVE  itemLock[BranchOf[To[out[r]]]] = r
<1> DEFINE o == out[r]
<1>0. o \in Out /\ itemLock[First(r)] = r /\ itemLock[Second(r)] = r
  BY DEF HeaderInv, LockInv, TypeOK, ItemsHeld
<1>1. CASE op[r] = "recall"
  <2>1. Second(r) = BranchOf[To[o]]
    BY <1>1 DEF Second
  <2>2. QED BY <1>0, <2>1
<1>2. CASE op[r] = "cancel"
  <2>1. outStatus[o] = "POSTED"
    BY <1>2 DEF HeaderInv, Checked, Sound, Receives
  <2>2. QED BY <1>0, <2>1 DEF HeaderInv, HeadsOK, HeadOK
<1>3. CASE op[r] \notin {"recall", "cancel"}
  <2>1. First(r) = BranchOf[To[o]]
    BY <1>3 DEF First
  <2>2. QED BY <1>0, <2>1
<1>4. QED BY <1>1, <1>2, <1>3

\* A blank row is one without a status.
LEMMA BlankRow ==
  ASSUME HeaderInv, NEW o \in Out, NEW l \in Lot, row[l][o].status = "NONE"
  PROVE  row[l][o] = NoRow
<1>1. row[l][o] \in Row
  BY DEF HeaderInv, LockInv, TypeOK
<1>2. Got(row[l][o]) = 0
  BY DEF HeaderInv, RowsOK, RowOK
<1>3. row[l][o].received = 0 /\ row[l][o].damage = 0
  BY <1>1, <1>2 DEF Row, Got
<1>4. QED BY <1>1, <1>3 DEF Row, NoRow

\* A row that changes is one whose transit-in figure is computed again.
LEMMA RowRefreshes ==
  ASSUME HeaderInv, NEW r \in Req, Moving(r), NEW l \in Lot, ~Refreshes(r, l)
  PROVE  RowAfter(r, l) = row[l][out[r]]
<1> DEFINE o == out[r]
           rw == row[l][o]
<1>0. o \in Out /\ rw \in Row /\ Load[o][l] \in Nat /\ HeadOK(outStatus[o], o, [k \in Lot |-> row[k][o]])
      /\ RowOK(o, l, rw) /\ Sound(r)
  BY LoadType DEF HeaderInv, LockInv, TypeOK, HeadsOK, RowsOK, Checked
<1>1. SameBranch(o) \/ Load[o][l] = 0
  BY <1>0 DEF Refreshes
<1>2. CASE op[r] = "despatch"
  <2>1. RowAfter(r, l) = NoRow
    BY <1>1, <1>2 DEF RowAfter, Receives
  <2>2. rw.status = "NONE"
    BY <1>2, PlainRow DEF Receives
  <2>3. QED BY <1>0, <2>1, <2>2, BlankRow
<1>3. CASE op[r] = "cancel"
  BY <1>3, PlainRow DEF Receives
<1>4. CASE outStatus[o] = "IN_TRANSIT" /\ op[r] # "despatch"
  <2>1. ~SameBranch(o)
    BY <1>0, <1>4 DEF HeadOK
  <2>2. rw.status = "NONE"
    BY <1>0, <1>1, <2>1 DEF RowOK
  <2>3. CASE Receives(op[r])
    <3>1. ~IsOpen(rw)
      BY <2>2 DEF IsOpen
    <3>2. Claimed(Counted(r), l) \in Nat
      BY CountedType, ClaimedType DEF HeaderInv, LockInv
    <3>3. QED BY <2>3, <3>1, <3>2, ReceiptRow
  <2>4. CASE ~Receives(op[r])
    BY <1>4, <2>2, <2>4 DEF RowAfter
  <2>5. QED BY <2>3, <2>4
<1>5. op[r] \in {"despatch", "cancel"} \/ outStatus[o] = "IN_TRANSIT"
  BY <1>0, MovingOps DEF HeaderInv, Sound, Receives, Receivable, Settleable
<1>6. QED BY <1>2, <1>3, <1>4, <1>5

\* A commit of q leaves alone what r's item locks guard.
LEMMA StockKept ==
  ASSUME HeaderInv, NEW q \in Req, NEW r \in Req, r # q, Goes(q), NEW b \in Branch, itemLock[b] = r,
         NEW l \in Lot
  PROVE  /\ \A s \in Site : BranchOf[s] = b => onHand'[s][l] = onHand[s][l]
         /\ \A o \in Out : BranchOf[To[o]] = b => row'[l][o] = row[l][o]
<1>1. CASE ~CommitMove(q)
  BY <1>1, QuietStep
<1>2. CASE CommitMove(q)
  <2>0. TypeOK /\ Moving(q) /\ pc[q] = "commit"
    BY <1>2 DEF HeaderInv, LockInv, CommitMove, Moving
  <2>1. ASSUME NEW s \in Site, BranchOf[s] = b PROVE onHand'[s][l] = onHand[s][l]
    <3>1. Delta(q, s, l) = 0
      BY <2>0, <2>1, DeltaHeld
    <3>2. QED BY <1>2, <3>1 DEF CommitMove
  <2>2. ASSUME NEW o \in Out, BranchOf[To[o]] = b PROVE row'[l][o] = row[l][o]
    <3>1. CASE o # out[q]
      BY <1>2, <2>0, <3>1, CommitRows
    <3>2. CASE o = out[q]
      <4>1. SameBranch(o)
        BY <2>0, <2>2, <3>2, ToHeld
      <4>2. RowAfter(q, l) = row[l][o]
        BY <2>0, <3>2, <4>1, RowRefreshes DEF Refreshes
      <4>3. QED BY <1>2, <2>0, <3>2, <4>2, CommitRows
    <3>3. QED BY <3>1, <3>2
  <2>3. QED BY <2>1, <2>2
<1>3. QED BY <1>1, <1>2

\* What the transaction of r comes to, under other requests' steps.
LEMMA PlanKept ==
  ASSUME HeaderInv, NEW r \in Req, Moving(r), Kept(r)
  PROVE  /\ Moving(r)' /\ out'[r] = out[r]
         /\ \A s \in Site, l \in Lot : Delta(r, s, l)' = Delta(r, s, l)
         /\ \A l \in Lot : RowAfter(r, l)' = RowAfter(r, l) /\ Refreshes(r, l)' = Refreshes(r, l)
<1>0. op'[r] = op[r] /\ out'[r] = out[r] /\ pc'[r] = pc[r] /\ out[r] \in Out
  BY DEF Kept, Same, HeaderInv, LockInv, TypeOK
<1>1. Receives(op[r]) => Counted(r)' = Counted(r)
  BY CountedKept DEF HeaderInv
<1>2. \A l \in Lot : row'[l][out[r]] = row[l][out[r]]
  BY <1>0 DEF HeaderInv, LockInv, OutHeld, Kept, Guards
<1>3. Moving(r)'
  BY <1>0 DEF Moving
<1>4. ASSUME NEW s \in Site, NEW l \in Lot PROVE Delta(r, s, l)' = Delta(r, s, l)
  <2>1. CASE Receives(op[r])
    BY <1>0, <1>1, <2>1 DEF Delta, Receives, Claimed
  <2>2. CASE ~Receives(op[r])
    BY <1>0, <2>2 DEF Delta
  <2>3. QED BY <2>1, <2>2
<1>5. ASSUME NEW l \in Lot PROVE RowAfter(r, l)' = RowAfter(r, l)
  <2>1. CASE Receives(op[r])
    <3> DEFINE After(o, rw, c) == IF Claimed(c, l) = 0 THEN rw ELSE Settled(o, l, rw, c)
    <3>1. RowAfter(r, l) = After(out[r], row[l][out[r]], Counted(r))
      BY <2>1 DEF RowAfter, Receives
    <3>2. RowAfter(r, l)' = After(out'[r], row'[l][out'[r]], Counted(r)')
      BY <1>0, <2>1 DEF RowAfter, Receives, Claimed, Settled, Remaining
    <3> HIDE DEF After
    <3>3. QED BY <1>0, <1>1, <1>2, <2>1, <3>1, <3>2
  <2>2. CASE ~Receives(op[r])
    BY <1>0, <1>2, <2>2 DEF RowAfter
  <2>3. QED BY <2>1, <2>2
<1>6. \A l \in Lot : Refreshes(r, l)' = Refreshes(r, l)
  BY <1>0 DEF Refreshes
<1>7. QED BY <1>0, <1>3, <1>4, <1>5, <1>6

\* Two sets of rows that agree on the despatches to a godown give one figure.
LEMMA InboundSame ==
  ASSUME NEW s, NEW l, NEW a, NEW b, \A o \in Out : To[o] = s => a[o] = b[o]
  PROVE  Inbound(s, l, a) = Inbound(s, l, b)
<1>1. [o \in Out |-> IF To[o] = s /\ IsOpen(a[o]) THEN Remaining(o, l, a[o]) ELSE 0]
        = [o \in Out |-> IF To[o] = s /\ IsOpen(b[o]) THEN Remaining(o, l, b[o]) ELSE 0]
  OBVIOUS
<1>2. QED BY <1>1 DEF Inbound

\* The figures r is about to commit stay right while others step.
LEMMA OtherFresh ==
  ASSUME StockInv, NEW q \in Req, NEW r \in Req, r # q, Goes(q), Moving(r)', pc'[r] = "commit", NEW l \in Lot
  PROVE  /\ \A s \in Site : Delta(r, s, l)' # 0 => hand'[r][s][l] = onHand'[s][l] + Delta(r, s, l)'
         /\ Refreshes(r, l)' => calc'[r][l] = Inbound(To[out'[r]], l, Seen(r, l)')
<1>0. HeaderInv /\ LockInv /\ TypeOK /\ HandFresh /\ CalcFresh
  BY DEF StockInv, HeaderInv, LockInv
<1>1. Kept(r)
  BY <1>0, StepKeeps
<1>2. Moving(r) /\ pc[r] = "commit" /\ hand'[r] = hand[r] /\ calc'[r] = calc[r] /\ op'[r] = op[r] /\ out'[r] = out[r]
  BY <1>1 DEF Kept, Same, Moving
<1>3. /\ \A s \in Site : Delta(r, s, l)' = Delta(r, s, l)
      /\ RowAfter(r, l)' = RowAfter(r, l) /\ Refreshes(r, l)' = Refreshes(r, l)
  BY <1>0, <1>1, <1>2, PlanKept
<1>4. ASSUME NEW s \in Site, Delta(r, s, l) # 0 PROVE hand'[r][s][l] = onHand'[s][l] + Delta(r, s, l)
  <2>1. itemLock[BranchOf[s]] = r /\ BranchOf[s] \in Branch
    BY <1>0, <1>2, <1>4, DeltaHeld, SiteAssumption
  <2>2. onHand'[s][l] = onHand[s][l]
    BY <1>0, <2>1, StockKept
  <2>3. hand[r][s][l] = onHand[s][l] + Delta(r, s, l)
    BY <1>0, <1>2, <1>4 DEF HandFresh
  <2>4. QED BY <1>2, <2>2, <2>3
<1>5. ASSUME Refreshes(r, l) PROVE calc'[r][l] = Inbound(To[out[r]], l, Seen(r, l)')
  <2> DEFINE g == To[out[r]]
  <2>0. out[r] \in Out
    BY <1>0 DEF TypeOK
  <2>1. itemLock[BranchOf[g]] = r /\ BranchOf[g] \in Branch
    BY <1>0, <1>2, <1>5, <2>0, ToHeld, Ends DEF Refreshes
  <2>2. \A o \in Out : To[o] = g => row'[l][o] = row[l][o]
    BY <1>0, <2>1, StockKept
  <2>3. Seen(r, l) = [row[l] EXCEPT ![out[r]] = RowAfter(r, l)]
        /\ Seen(r, l)' = [row'[l] EXCEPT ![out[r]] = RowAfter(r, l)]
    BY <1>2, <1>3 DEF Seen
  <2>4. DOMAIN row[l] = Out /\ DOMAIN row'[l] = Out
    <3>1. TypeOK'
      BY <1>0, GoesType
    <3>2. QED BY <1>0, <3>1 DEF TypeOK
  <2>5. \A o \in Out : To[o] = g => Seen(r, l)'[o] = Seen(r, l)[o]
    BY <2>0, <2>2, <2>3, <2>4
  <2>6. Inbound(g, l, Seen(r, l)') = Inbound(g, l, Seen(r, l))
    BY <2>5, InboundSame
  <2>7. calc[r][l] = Inbound(g, l, Seen(r, l))
    BY <1>0, <1>2, <1>5 DEF CalcFresh
  <2>8. QED BY <1>2, <2>6, <2>7
<1>6. QED BY <1>2, <1>3, <1>4, <1>5

\* Its own step computes them, or ends with the transaction.
LEMMA OwnFresh ==
  ASSUME HeaderInv, NEW r \in Req, Goes(r), Moving(r)', pc'[r] = "commit", NEW l \in Lot
  PROVE  /\ \A s \in Site : Delta(r, s, l)' # 0 => hand'[r][s][l] = onHand'[s][l] + Delta(r, s, l)'
         /\ Refreshes(r, l)' => calc'[r][l] = Inbound(To[out'[r]], l, Seen(r, l)')
<1>0. TypeOK
  BY DEF HeaderInv, LockInv
<1>1. Computed(r)
  <2>1. ~Release(r)
    BY <1>0 DEF Release, TypeOK
  <2>2. ~Starts(r)
    <3> SUFFICES ASSUME Starts(r) PROVE FALSE
      OBVIOUS
    <3> PICK o \in Out, n \in In, what \in Op, c \in [Lot -> Count], next \in Pc :
          Start(r, o, n, what, c, next)
      BY DEF Starts
    <3>1. pc'[r] = next /\ op'[r] = what
      BY <1>0 DEF Start, Arrive, TypeOK
    <3>2. next \in {"in", "out"} \/ (next = "commit" /\ what = "keyIn")
      BY DEF Start
    <3>3. QED BY <3>1, <3>2 DEF Moving
  <2>3. ~GrantIn(r)
    <3> SUFFICES ASSUME GrantIn(r) PROVE FALSE
      OBVIOUS
    <3>1. pc[r] = "in" /\ op'[r] = op[r] /\ pc'[r] = IF Receives(op[r]) THEN "out" ELSE "commit"
      BY <1>0 DEF GrantIn, TypeOK
    <3>2. QED BY <3>1 DEF HeaderInv, LockInv, StageOK, OfReceipt, Moving, Receives
  <2>4. ~GrantOut(r) /\ ~LockFirst(r) /\ ~LockSecond(r)
    BY <1>0 DEF GrantOut, LockFirst, LockSecond, TypeOK
  <2>5. QED BY <2>1, <2>2, <2>3, <2>4 DEF Goes, Rollback, CommitMove, CommitKeyIn, CommitDelete
<1>2. UNCHANGED <<op, out, inn, form, onHand, row, claim>>
  BY <1>1 DEF Computed, rows
<1>3. Counted(r)' = Counted(r)
  BY <1>2 DEF Counted
<1>4. \A s \in Site : Delta(r, s, l)' = Delta(r, s, l)
  BY <1>2, <1>3 DEF Delta, Claimed
<1>5. Seen(r, l)' = Seen(r, l) /\ Refreshes(r, l)' = Refreshes(r, l)
  BY <1>2, <1>3 DEF Seen, RowAfter, Claimed, Settled, Remaining, Refreshes
<1>6. \A s \in Site : Delta(r, s, l) # 0 => hand'[r][s][l] = onHand[s][l] + Delta(r, s, l)
  BY <1>0, <1>1 DEF Computed, TypeOK
<1>7. Refreshes(r, l) => calc'[r][l] = Inbound(To[out[r]], l, Seen(r, l))
  BY <1>0, <1>1 DEF Computed, TypeOK
<1>8. QED BY <1>2, <1>4, <1>5, <1>6, <1>7

\* The transit-in figures stay sums of open rows.
LEMMA TransitStep ==
  ASSUME StockInv, NEW r \in Req, Goes(r), NEW s \in Site, NEW l \in Lot
  PROVE  transitIn'[s][l] = Inbound(s, l, row'[l])
<1>0. HeaderInv /\ TypeOK /\ transitIn[s][l] = Inbound(s, l, row[l])
  BY DEF StockInv, HeaderInv, LockInv, TransitInIsOpenRows
<1>1. CASE ~CommitMove(r)
  BY <1>0, <1>1, QuietStep
<1>2. CASE CommitMove(r)
  <2> DEFINE o == out[r]
  <2>0. Moving(r) /\ pc[r] = "commit" /\ o \in Out
    BY <1>0, <1>2 DEF CommitMove, Moving, TypeOK
  <2>1. row'[l] = Seen(r, l)
    BY <1>2 DEF CommitMove
  <2>2. transitIn'[s][l] = IF s = To[o] /\ Refreshes(r, l) THEN calc[r][l] ELSE transitIn[s][l]
    BY <1>0, <1>2 DEF CommitMove, TypeOK
  <2>3. CASE s = To[o] /\ Refreshes(r, l)
    <3>1. calc[r][l] = Inbound(To[o], l, Seen(r, l))
      BY <2>0, <2>3 DEF StockInv, CalcFresh
    <3>2. QED BY <2>1, <2>2, <2>3, <3>1
  <2>4. CASE ~(s = To[o] /\ Refreshes(r, l))
    <3>1. ASSUME NEW p \in Out, To[p] = s PROVE row'[l][p] = row[l][p]
      <4>1. CASE p # o
        BY <1>0, <1>2, <4>1, CommitRows
      <4>2. CASE p = o
        BY <1>0, <1>2, <2>0, <2>4, <3>1, <4>2, CommitRows, RowRefreshes
      <4>3. QED BY <4>1, <4>2
    <3>2. Inbound(s, l, row'[l]) = Inbound(s, l, row[l])
      BY <3>1, InboundSame
    <3>3. QED BY <1>0, <2>2, <2>4, <3>2
  <2>5. QED BY <2>3, <2>4
<1>3. QED BY <1>1, <1>2

\* What of a despatch is still between the two godowns.
Between(o, l) ==
  IF row[l][o].status \in {"NONE", "CANCELLED"} THEN 0 ELSE Remaining(o, l, row[l][o])

\* What is between the sites are numbers.
LEMMA BetweenType ==
  ASSUME TypeOK, NEW l \in Lot
  PROVE  [o \in Out |-> Between(o, l)] \in [Out -> Int]
<1>1. \A o \in Out : row[l][o] \in Row
  BY DEF TypeOK
<1>2. QED BY <1>1, RemainingType DEF Between

\* A commit takes from one end, and from what is between, what it adds to the
\* other.
LEMMA Balanced ==
  ASSUME HeaderInv, NEW r \in Req, CommitMove(r), NEW l \in Lot, NEW o \in Out, o = out[r]
  PROVE  Delta(r, From[o], l) + Delta(r, To[o], l) + Between(o, l)' = Between(o, l)
<1> DEFINE rw == row[l][o]
           rw2 == RowAfter(r, l)
           L == Load[o][l]
           n == Claimed(Counted(r), l)
           Rest(w) == IF w.status \in {"NONE", "CANCELLED"} THEN 0 ELSE L - Got(w)
<1>0. TypeOK /\ Moving(r) /\ rw \in Row /\ rw2 \in Row /\ L \in Nat /\ n \in Nat
  BY SeenType, LoadType, CountedType, ClaimedType DEF HeaderInv, LockInv, CommitMove, Moving, TypeOK
<1>1. Got(rw) \in Nat /\ Got(rw2) \in Nat /\ RowOK(o, l, rw) /\ Sound(r)
      /\ HeadOK(outStatus[o], o, [k \in Lot |-> row[k][o]])
  BY <1>0 DEF Row, Got, HeaderInv, RowsOK, HeadsOK, Checked
<1>2. Between(o, l) = Rest(rw)
  BY <1>0, RemainingType DEF Between, Got
<1>3. Between(o, l)' = Rest(rw2)
  <2>1. row'[l][o] = rw2
    BY <1>0, CommitRows
  <2>2. Between(o, l)' = IF row'[l][o].status \in {"NONE", "CANCELLED"} THEN 0 ELSE Remaining(o, l, row'[l][o])
    BY DEF Between, Remaining
  <2>3. Remaining(o, l, rw2) = L - Got(rw2)
    BY <1>0, RemainingType DEF Got
  <2>4. QED BY <2>1, <2>2, <2>3
<1> DEFINE d1 == Delta(r, From[o], l)
           d2 == Delta(r, To[o], l)
<1>4. CASE op[r] = "despatch"
  <2>1. d1 = 0 - L /\ d2 = IF SameBranch(o) THEN L ELSE 0
    BY <1>0, <1>4, DeltaAt DEF Receives
  <2>2. Got(rw2) = Got(rw) /\ rw.status = "NONE"
        /\ rw2.status = IF SameBranch(o) \/ L = 0 THEN "NONE" ELSE "IN_TRANSIT"
    BY <1>0, <1>4, PlainRow DEF Receives
  <2>3. Got(rw) = 0
    BY <1>1, <2>2 DEF RowOK
  <2>4. Rest(rw) = 0 /\ Rest(rw2) = IF SameBranch(o) THEN 0 ELSE L
    BY <1>0, <2>2, <2>3
  <2> HIDE DEF rw, rw2, L, n, Rest, d1, d2
  <2>5. d1 + d2 + Rest(rw2) = Rest(rw)
    BY <1>0, <2>1, <2>4
  <2>6. QED BY <1>2, <1>3, <2>5 DEF d1, d2
<1>5. CASE Receives(op[r])
  <2>1. d1 = 0 /\ d2 = n
    BY <1>0, <1>5, DeltaAt DEF Receives
  <2>2. /\ Got(rw2) = Got(rw) + n
        /\ n = 0 => rw2 = rw
        /\ n > 0 => /\ IsOpen(rw) /\ Got(rw2) <= L
                    /\ rw2.status = IF Got(rw2) = L THEN "RECEIVED" ELSE "PARTIAL"
    BY <1>0, <1>5, ReceiptRow
  <2>3. Rest(rw2) + n = Rest(rw)
    <3>1. CASE n = 0
      BY <1>0, <1>1, <2>2, <3>1
    <3>2. CASE n > 0
      <4>1. Rest(rw) = L - Got(rw) /\ Rest(rw2) = L - Got(rw2)
        BY <2>2, <3>2 DEF IsOpen
      <4> HIDE DEF rw, rw2, L, n, Rest
      <4>2. QED BY <1>0, <1>1, <2>2, <4>1
    <3>3. QED BY <1>0, <3>1, <3>2
  <2>4. Rest(rw2) \in Int
    BY <1>0, <1>1
  <2> HIDE DEF rw, rw2, L, n, Rest, d1, d2
  <2>5. d1 + d2 + Rest(rw2) = Rest(rw)
    BY <1>0, <2>1, <2>3, <2>4
  <2>6. QED BY <1>2, <1>3, <2>5 DEF d1, d2
<1>6. CASE op[r] = "settle"
  <2>1. d1 = 0 /\ d2 = 0
    BY <1>0, <1>6, DeltaAt DEF Receives
  <2>2. Got(rw2) = Got(rw) /\ rw2.status = IF rw.status = "PARTIAL" THEN "RECEIVED" ELSE rw.status
    BY <1>0, <1>6, PlainRow DEF Receives
  <2>3. Rest(rw2) = Rest(rw) /\ Rest(rw) \in Int
    BY <1>0, <1>1, <2>2
  <2> HIDE DEF rw, rw2, L, n, Rest, d1, d2
  <2>4. d1 + d2 + Rest(rw2) = Rest(rw)
    BY <2>1, <2>3
  <2>5. QED BY <1>2, <1>3, <2>4 DEF d1, d2
<1>7. CASE op[r] = "recall"
  <2>1. d1 = L /\ d2 = 0
    BY <1>0, <1>7, DeltaAt DEF Receives
  <2>2. rw2.status = IF rw.status = "IN_TRANSIT" THEN "CANCELLED" ELSE rw.status
    BY <1>0, <1>7, PlainRow DEF Receives
  <2>3. rw.status \in {"NONE", "IN_TRANSIT"} /\ (rw.status = "NONE" => L = 0) /\ Got(rw) = 0
    BY <1>1, <1>7 DEF Sound, Receives, HeadOK, RowOK
  <2>4. Rest(rw2) = 0 /\ Rest(rw) = L
    BY <1>0, <2>2, <2>3
  <2> HIDE DEF rw, rw2, L, n, Rest, d1, d2
  <2>5. d1 + d2 + Rest(rw2) = Rest(rw)
    BY <1>0, <2>1, <2>4
  <2>6. QED BY <1>2, <1>3, <2>5 DEF d1, d2
<1>8. CASE op[r] = "cancel"
  <2>1. d1 = L /\ d2 = 0 - L
    BY <1>0, <1>8, DeltaAt DEF Receives
  <2>2. rw2 = rw
    BY <1>0, <1>8, PlainRow DEF Receives
  <2>3. Rest(rw) \in Int
    BY <1>0, <1>1
  <2> HIDE DEF rw, rw2, L, n, Rest, d1, d2
  <2>4. d1 + d2 + Rest(rw2) = Rest(rw)
    BY <1>0, <2>1, <2>2, <2>3
  <2>5. QED BY <1>2, <1>3, <2>4 DEF d1, d2
<1>9. QED BY <1>0, <1>4, <1>5, <1>6, <1>7, <1>8, MovingOps DEF HeaderInv

\* What stands in all godowns moves by what the commit adds at the two ends.
LEMMA StandingMoves ==
  ASSUME StockInv, NEW r \in Req, CommitMove(r), NEW l \in Lot
  PROVE  SumFunction([s \in Site |-> onHand'[s][l]])
           = SumFunction([s \in Site |-> onHand[s][l]]) + Delta(r, From[out[r]], l) + Delta(r, To[out[r]], l)
<1> DEFINE f == [s \in Site |-> onHand[s][l]]
           a == From[out[r]]
           b == To[out[r]]
           da == Delta(r, a, l)
           db == Delta(r, b, l)
           g == [f EXCEPT ![a] = f[a] + da]
           h == [g EXCEPT ![b] = f[b] + db]
<1>0. HeaderInv /\ TypeOK /\ Moving(r) /\ pc[r] = "commit" /\ out[r] \in Out
  BY DEF StockInv, HeaderInv, LockInv, CommitMove, Moving, TypeOK
<1>1. a \in Site /\ b \in Site /\ a # b
  BY <1>0, Ends
<1>2. f \in [Site -> Int] /\ da \in Int /\ db \in Int
  BY <1>0, <1>1, DeltaType DEF TypeOK
<1>3. \A s \in Site : onHand'[s][l] = onHand[s][l] + Delta(r, s, l)
  <2>1. ASSUME NEW s \in Site PROVE onHand'[s][l] = IF Delta(r, s, l) # 0 THEN hand[r][s][l] ELSE onHand[s][l]
    BY DEF CommitMove
  <2>2. ASSUME NEW s \in Site, Delta(r, s, l) # 0 PROVE hand[r][s][l] = onHand[s][l] + Delta(r, s, l)
    BY <1>0, <2>2 DEF StockInv, HandFresh
  <2>3. \A s \in Site : onHand[s][l] \in Int
    BY <1>0 DEF TypeOK
  <2>4. QED BY <2>1, <2>2, <2>3
<1>4. [s \in Site |-> onHand'[s][l]] = h
  <2>1. \A s \in Site : s # a /\ s # b => Delta(r, s, l) = 0
    BY <1>0, DeltaAt
  <2>2. ASSUME NEW s \in Site PROVE onHand'[s][l] = h[s]
    <3>1. CASE s = a
      BY <1>1, <1>3, <3>1
    <3>2. CASE s = b
      BY <1>1, <1>3, <3>2
    <3>3. CASE s # a /\ s # b
      <4>1. onHand'[s][l] = f[s] + 0 /\ f[s] \in Int
        BY <1>2, <1>3, <2>1, <3>3
      <4>2. h[s] = f[s]
        BY <1>1, <3>3
      <4>3. QED BY <4>1, <4>2
    <3>4. QED BY <3>1, <3>2, <3>3
  <2>3. h = [s \in Site |-> h[s]]
    OBVIOUS
  <2> HIDE DEF h
  <2>4. QED BY <2>2, <2>3
<1>5. g \in [Site -> Int] /\ g[b] = f[b] /\ f[a] \in Int /\ f[b] \in Int
      /\ f[a] + da \in Int /\ f[b] + db \in Int
  <2> HIDE DEF f, a, b, da, db
  <2>1. f[a] \in Int /\ f[b] \in Int
    BY <1>1, <1>2
  <2>2. f[a] + da \in Int /\ f[b] + db \in Int
    BY <1>2, <2>1
  <2>3. QED BY <1>1, <1>2, <2>1, <2>2
<1> HIDE DEF f, a, b, da, db
<1>6. SumFunction(g) = SumFunction(f) - f[a] + (f[a] + da)
  <2> DEFINE v == f[a] + da
  <2>1. IsFiniteSet(Site) /\ f \in [Site -> Int] /\ a \in Site /\ v \in Int
    BY <1>1, <1>2, <1>5, FiniteAssumption
  <2> HIDE DEF v
  <2>2. SumFunction([f EXCEPT ![a] = v]) = SumFunction(f) - f[a] + v
    BY <2>1, SumUpdate
  <2>3. QED BY <2>2 DEF v
<1>7. SumFunction(f) \in Int
  BY <1>2, SumType, FiniteAssumption
<1> HIDE DEF g
<1>8. SumFunction(h) = SumFunction(g) - g[b] + (f[b] + db)
  BY <1>1, <1>2, <1>5, SumUpdate, FiniteAssumption
<1> HIDE DEF h
<1>9. SumFunction(h) = SumFunction(f) + da + db
  BY <1>2, <1>5, <1>6, <1>7, <1>8
<1>10. QED BY <1>4, <1>9 DEF f, a, b, da, db

\* What is between godowns moves at the despatch that commits.
LEMMA MovingMoves ==
  ASSUME HeaderInv, NEW r \in Req, CommitMove(r), TypeOK', NEW l \in Lot, NEW o \in Out, o = out[r]
  PROVE  SumFunction([p \in Out |-> Between(p, l)'])
           = SumFunction([p \in Out |-> Between(p, l)]) - Between(o, l) + Between(o, l)'
<1> DEFINE f == [p \in Out |-> Between(p, l)]
           v == Between(o, l)'
<1>0. TypeOK
  BY DEF HeaderInv, LockInv
<1>1. f \in [Out -> Int]
  BY <1>0, BetweenType
<1>2. v \in Int
  <2>1. row'[l][o] \in Row
    BY DEF TypeOK
  <2>2. Remaining(o, l, row'[l][o]) \in Int
    BY <2>1, RemainingType
  <2>3. v = IF row'[l][o].status \in {"NONE", "CANCELLED"} THEN 0 ELSE Remaining(o, l, row'[l][o])
    BY DEF Between, Remaining
  <2> HIDE DEF v
  <2>4. QED BY <2>2, <2>3
<1>3. \A p \in Out : p # o => Between(p, l)' = Between(p, l)
  <2>1. \A p \in Out : p # o => row'[l][p] = row[l][p]
    BY <1>0, CommitRows
  <2>2. QED BY <2>1 DEF Between, Remaining
<1>4. [p \in Out |-> Between(p, l)'] = [f EXCEPT ![o] = v]
  BY <1>3
<1>5. f[o] = Between(o, l)
  OBVIOUS
<1> HIDE DEF f, v
<1>6. SumFunction([f EXCEPT ![o] = v]) = SumFunction(f) - f[o] + v
  BY <1>1, <1>2, SumUpdate, FiniteAssumption
<1>7. QED BY <1>4, <1>5, <1>6 DEF f, v

\* No step loses stock or makes any.
LEMMA NothingLostStep ==
  ASSUME StockInv, NEW r \in Req, Goes(r), TypeOK'
  PROVE  NothingLost'
<1> DEFINE Standing(l) == SumFunction([s \in Site |-> onHand[s][l]])
           Moves(l) == SumFunction([p \in Out |-> Between(p, l)])
           Start0(l) == SumFunction([s \in Site |-> Opening[s][l]])
<1>0. HeaderInv /\ TypeOK
  BY DEF StockInv, HeaderInv, LockInv
<1>1. \A l \in Lot : Standing(l) + Moves(l) = Start0(l)
  BY DEF StockInv, NothingLost, Between
<1>2. CASE ~CommitMove(r)
  <2>1. UNCHANGED <<onHand, row>>
    BY <1>2, QuietStep
  <2>2. QED BY <2>1 DEF StockInv, NothingLost, Remaining
<1>3. CASE CommitMove(r)
  <2>1. ASSUME NEW l \in Lot PROVE Standing(l)' + Moves(l)' = Start0(l)
    <3>0. PICK o \in Out : o = out[r]
      BY <1>0 DEF TypeOK
    <3> DEFINE da == Delta(r, From[o], l)
               db == Delta(r, To[o], l)
               v == Between(o, l)
               w == Between(o, l)'
    <3>1. Standing(l)' = Standing(l) + da + db
      BY <1>3, <3>0, StandingMoves
    <3>2. Moves(l)' = Moves(l) - v + w
      BY <1>0, <1>3, <3>0, MovingMoves
    <3>3. da + db + w = v
      BY <1>0, <1>3, <3>0, Balanced
    <3>4. da \in Int /\ db \in Int
      BY <1>0, DeltaType, Ends
    <3>5. v \in Int
      <4>1. [p \in Out |-> Between(p, l)][o] \in Int
        BY <1>0, BetweenType
      <4>2. QED BY <4>1
    <3>6. w \in Int
      <4>1. row'[l][o] \in Row
        BY DEF TypeOK
      <4>2. Remaining(o, l, row'[l][o]) \in Int
        BY <4>1, RemainingType
      <4>3. w = IF row'[l][o].status \in {"NONE", "CANCELLED"} THEN 0 ELSE Remaining(o, l, row'[l][o])
        BY DEF Between, Remaining
      <4> HIDE DEF w
      <4>4. QED BY <4>2, <4>3
    <3>7. Standing(l) \in Int
      <4>1. [s \in Site |-> onHand[s][l]] \in [Site -> Int]
        BY <1>0 DEF TypeOK
      <4>2. QED BY <4>1, SumType, FiniteAssumption
    <3>8. Moves(l) \in Int
      BY <1>0, BetweenType, SumType, FiniteAssumption
    <3>9. Standing(l) + Moves(l) = Start0(l)
      BY <1>1
    <3>10. QED
      <4> DEFINE x == Standing(l)
                 y == Moves(l)
                 x2 == Standing(l)'
                 y2 == Moves(l)'
                 z == Start0(l)
      <4>1. x2 = x + da + db /\ y2 = y - v + w /\ da + db + w = v /\ x + y = z
        BY <3>1, <3>2, <3>3, <3>9
      <4>2. x \in Int /\ y \in Int /\ da \in Int /\ db \in Int /\ v \in Int /\ w \in Int
        BY <3>4, <3>5, <3>6, <3>7, <3>8
      <4> HIDE DEF x, y, x2, y2, z, da, db, v, w
      <4>3. x2 + y2 = z
        BY <4>1, <4>2
      <4>4. QED BY <4>3 DEF x2, y2, z
  <2>2. QED BY <2>1 DEF NothingLost, Between, Remaining
<1>4. QED BY <1>2, <1>3

\* Before any despatch all the stock is at the sites.
LEMMA StockInit == Init => StockInv
<1> SUFFICES ASSUME Init PROVE StockInv
  OBVIOUS
<1>1. HandFresh /\ CalcFresh
  BY DEF Init, HandFresh, CalcFresh, Moving
<1>2. TransitInIsOpenRows
  <2>1. ASSUME NEW s \in Site, NEW l \in Lot PROVE transitIn[s][l] = Inbound(s, l, row[l])
    <3>1. transitIn[s][l] = 0 /\ \A o \in Out : ~IsOpen(row[l][o])
      BY DEF Init, NoStock, IsOpen, NoRow
    <3>2. [o \in Out |-> IF To[o] = s /\ IsOpen(row[l][o]) THEN Remaining(o, l, row[l][o]) ELSE 0] = [o \in Out |-> 0]
      BY <3>1
    <3>3. QED BY <3>1, <3>2, ZeroSum, FiniteAssumption DEF Inbound
  <2>2. QED BY <2>1 DEF TransitInIsOpenRows
<1>3. NothingLost
  <2>1. ASSUME NEW l \in Lot
        PROVE  SumFunction([s \in Site |-> onHand[s][l]]) + SumFunction([o \in Out |-> Between(o, l)])
                 = SumFunction([s \in Site |-> Opening[s][l]])
    <3>1. [o \in Out |-> Between(o, l)] = [o \in Out |-> 0]
      BY DEF Init, Between, NoRow
    <3>2. SumFunction([o \in Out |-> Between(o, l)]) = 0
      BY <3>1, ZeroSum, FiniteAssumption
    <3>3. [s \in Site |-> onHand[s][l]] = [s \in Site |-> Opening[s][l]]
      BY DEF Init
    <3>4. [s \in Site |-> Opening[s][l]] \in [Site -> Int]
      BY OpeningAssumption
    <3>5. SumFunction([s \in Site |-> Opening[s][l]]) \in Int
      BY <3>4, SumType, FiniteAssumption
    <3>6. QED BY <3>2, <3>3, <3>5
  <2>2. QED BY <2>1 DEF NothingLost, Between
<1>4. QED BY <1>1, <1>2, <1>3, HeaderInit DEF StockInv

\* Every step of the specification keeps the stock.
LEMMA StockNext == StockInv /\ [Next]_vars => StockInv'
<1> SUFFICES ASSUME StockInv, [Next]_vars PROVE StockInv'
  OBVIOUS
<1>0. HeaderInv /\ TypeOK /\ HeaderInv' /\ TypeOK'
  BY HeaderNext DEF StockInv, HeaderInv, LockInv
<1>1. CASE UNCHANGED vars
  <2> USE <1>1 DEF vars, rows, locks, reqs
  <2>1. TransitInIsOpenRows' /\ NothingLost'
    BY DEF StockInv, TransitInIsOpenRows, NothingLost, Inbound, Remaining, IsOpen
  <2>2. \A r \in Req : (Moving(r)' <=> Moving(r)) /\ Counted(r)' = Counted(r)
    BY DEF Moving, Counted
  <2>3. \A r \in Req, s \in Site, l \in Lot : Delta(r, s, l)' = Delta(r, s, l)
    BY <2>2 DEF Delta, Claimed
  <2>4. \A r \in Req, l \in Lot : Seen(r, l)' = Seen(r, l) /\ Refreshes(r, l)' = Refreshes(r, l)
    BY <2>2 DEF Seen, RowAfter, Claimed, Settled, Remaining, Refreshes
  <2>5. HandFresh' /\ CalcFresh'
    BY <2>2, <2>3, <2>4 DEF StockInv, HandFresh, CalcFresh
  <2>6. QED BY <1>0, <2>1, <2>5 DEF StockInv
<1>2. CASE Next
  <2> PICK q \in Req : Arrival(q) \/ Advance(q) \/ Abort(q) \/ Victim(q)
    BY <1>2 DEF Next
  <2>1. Goes(q)
    BY <1>0, StepGoes
  <2>2. ASSUME NEW r \in Req, Moving(r)', pc'[r] = "commit", NEW l \in Lot
        PROVE  /\ \A s \in Site : Delta(r, s, l)' # 0 => hand'[r][s][l] = onHand'[s][l] + Delta(r, s, l)'
               /\ Refreshes(r, l)' => calc'[r][l] = Inbound(To[out'[r]], l, Seen(r, l)')
    <3>1. CASE r = q
      BY <1>0, <2>1, <2>2, <3>1, OwnFresh
    <3>2. CASE r # q
      BY <2>1, <2>2, <3>2, OtherFresh
    <3>3. QED BY <3>1, <3>2
  <2>3. HandFresh'
    BY <2>2 DEF HandFresh
  <2>4. CalcFresh'
    BY <2>2 DEF CalcFresh
  <2>5. TransitInIsOpenRows'
    BY <2>1, TransitStep DEF TransitInIsOpenRows
  <2>6. QED BY <1>0, <2>1, <2>3, <2>4, <2>5, NothingLostStep DEF StockInv
<1>3. QED BY <1>1, <1>2

\* What a holding has on its way is what its open transit rows still have to
\* bring, after every commit (refreshTransitIn under the item lock).
THEOREM TransitInExact == Spec => []TransitInIsOpenRows
<1>1. StockInv => TransitInIsOpenRows
  BY DEF StockInv
<1>2. QED BY StockInit, StockNext, <1>1, PTL DEF Spec

\* Nothing is made or lost between godowns, whatever despatches, receipts,
\* recalls, short-settlements and cancellations cross each other.
THEOREM StockConserved == Spec => []NothingLost
<1>1. StockInv => NothingLost
  BY DEF StockInv
<1>2. QED BY StockInit, StockNext, <1>1, PTL DEF Spec

\* No transfer leaves a godown below zero: the figure that was judged is the
\* figure that is committed (assertNegativeStockPolicy).
THEOREM NoNegativeTransfer == Spec => []NeverNegative
<1> DEFINE Inv == TypeOK /\ HandNonneg /\ NeverNegative
<1>1. Init => Inv
  <2> SUFFICES ASSUME Init PROVE HandNonneg /\ NeverNegative
    BY InitType
  <2>1. HandNonneg
    BY DEF Init, HandNonneg, NoStock
  <2>2. NeverNegative
    BY OpeningAssumption DEF Init, NeverNegative
  <2>3. QED BY <2>1, <2>2
<1>2. Inv /\ [Next]_vars => Inv'
  <2> SUFFICES ASSUME Inv, [Next]_vars PROVE HandNonneg' /\ NeverNegative'
    BY NextType
  <2>1. CASE UNCHANGED vars
    BY <2>1 DEF HandNonneg, NeverNegative, vars, rows, reqs
  <2>2. CASE Next
    <3> PICK r \in Req : Arrival(r) \/ Advance(r) \/ Abort(r) \/ Victim(r)
      BY <2>2 DEF Next
    <3>1. Goes(r) /\ TypeOK'
      BY StepGoes, GoesType
    <3>2. \/ Release(r)
          \/ Computed(r) /\ \A s \in Site, l \in Lot : ~(hand'[r][s][l] < 0)
          \/ hand' = hand
      <4>1. CASE Starts(r)
        BY <4>1 DEF Starts, Start, Arrive
      <4>2. CASE GrantIn(r) \/ GrantOut(r)
        BY <4>2 DEF GrantIn, GrantOut
      <4>3. CASE LockFirst(r) \/ LockSecond(r)
        BY <4>3 DEF LockFirst, LockSecond
      <4>4. CASE Rollback(r) \/ CommitMove(r) \/ CommitKeyIn(r) \/ CommitDelete(r)
        BY <4>4 DEF Rollback, CommitMove, CommitKeyIn, CommitDelete
      <4>5. CASE Computed(r) /\ \A s \in Site, l \in Lot : ~(hand'[r][s][l] < 0)
        BY <4>5
      <4>6. QED BY <3>1, <4>1, <4>2, <4>3, <4>4, <4>5 DEF Goes
    <3>3. /\ \A q \in Req : q # r => hand'[q] = hand[q]
          /\ \A s \in Site, l \in Lot : ~(hand'[r][s][l] < 0)
      <4>1. CASE Computed(r) /\ \A s \in Site, l \in Lot : ~(hand'[r][s][l] < 0)
        BY <4>1 DEF Computed, TypeOK
      <4>2. CASE Release(r)
        <5>1. hand' = [hand EXCEPT ![r] = NoStock]
          BY <4>2 DEF Release
        <5>2. QED BY <5>1 DEF NoStock, TypeOK
      <4>3. CASE hand' = hand
        BY <4>3 DEF HandNonneg
      <4>4. QED BY <3>2, <4>1, <4>2, <4>3
    <3>4. HandNonneg'
      BY <3>3 DEF HandNonneg
    <3>5. NeverNegative'
      <4>1. CASE ~CommitMove(r)
        BY <3>1, <4>1, QuietStep DEF NeverNegative
      <4>2. CASE CommitMove(r)
        <5>1. ASSUME NEW s \in Site, NEW l \in Lot PROVE onHand'[s][l] >= 0
          <6>1. onHand'[s][l] = hand[r][s][l] \/ onHand'[s][l] = onHand[s][l]
            BY <4>2 DEF CommitMove
          <6>2. ~(hand[r][s][l] < 0) /\ hand[r][s][l] \in Int /\ onHand[s][l] >= 0
            BY DEF HandNonneg, NeverNegative, TypeOK
          <6>3. QED BY <6>1, <6>2
        <5>2. QED BY <5>1 DEF NeverNegative
      <4>3. QED BY <4>1, <4>2
    <3>6. QED BY <3>4, <3>5
  <2>3. QED BY <2>1, <2>2
<1>3. QED BY <1>1, <1>2, PTL DEF Spec

=============================================================================
