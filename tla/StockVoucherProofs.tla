------------------------- MODULE StockVoucherProofs -------------------------
(***************************************************************************)
(* Proofs about StockVoucher, for every set of documents, items, policies  *)
(* and requests, in three parts: the locks and the balances; the status    *)
(* against the ledger and the openings; the trail and the refinement of    *)
(* StockBook.                                                              *)
(***************************************************************************)
EXTENDS StockVoucher, SumLemmas

\* A document id to stand in for an idle request's.
LEMMA AnyDocIsDoc == AnyDoc \in Doc
  BY DocAssumption DEF AnyDoc

\* The lines a transaction acts on are a line list.
LEMMA ActingType ==
  ASSUME TypeOK, NEW r \in Req
  PROVE  Acting(r) \in [Item -> Int]
  BY DEF TypeOK, Acting

\* The rows a transaction leaves behind are ledger rows.
LEMMA SeenType ==
  ASSUME TypeOK, NEW r \in Req, NEW i \in Item
  PROVE  NewRow(r, i) \in Row /\ Seen(r, i) \in [Doc -> Row]
  <1>1. NewRow(r, i) \in Row
    BY ActingType DEF TypeOK, NewRow, Mirror, Row
  <1>2. QED BY <1>1 DEF TypeOK, Seen

\* A sum of ledger rows is a quantity.
LEMMA OnHandType ==
  ASSUME NEW rws \in [Doc -> Row]
  PROVE  OnHandOf(rws) \in Int
<1>1. [d \in Doc |-> rws[d].fwd + rws[d].rev] \in [Doc -> Int]
  BY DEF Row
<1>2. QED BY <1>1, SumType, DocAssumption DEF OnHandOf

\* The initial state is well typed.
LEMMA InitType == Init => TypeOK
  BY AnyDocIsDoc DEF Init, TypeOK, NoLines, NoRow, Row, Step, Op, Pc, Status

\* Releasing the locks keeps the types of locks and requests.
LEMMA ReleaseType ==
  ASSUME TypeOK, NEW r \in Req, Release(r)
  PROVE  /\ hdrLock' \in [Doc -> Req \cup {None}]
         /\ itemLock' \in [Item -> Req \cup {None}]
         /\ pc' \in [Req -> Pc] /\ op' \in [Req -> Op] /\ doc' \in [Req -> Doc]
         /\ form' \in [Req -> [Item -> Int]]
         /\ calc' \in [Req -> [Item -> Int]]
  BY AnyDocIsDoc DEF TypeOK, Release, NoLines, Pc, Op

\* A rolled back transaction keeps the types.
LEMMA RollbackType ==
  ASSUME TypeOK, NEW r \in Req, Rollback(r)
  PROVE  TypeOK'
  BY ReleaseType DEF TypeOK, Rollback, rows

\* The trail stays a count per step.
LEMMA LoggedType ==
  ASSUME TypeOK, NEW d \in Doc, NEW steps, Logged(d, steps)
  PROVE  trail' \in [Doc -> [Step -> Nat]]
  BY DEF TypeOK, Logged

\* What a commit writes into ledger and balance has the type of both.
LEMMA LandType ==
  ASSUME TypeOK, NEW r \in Req, Land(r)
  PROVE  ledger' \in [Item -> [Doc -> Row]] /\ onHand' \in [Item -> Int]
  BY SeenType DEF TypeOK, Land

\* A request that arrives keeps the types.
LEMMA ArriveType ==
  ASSUME TypeOK, NEW r \in Req, NEW d \in Doc, NEW o \in Op, NEW f \in [Item -> Int],
         NEW next \in Pc, Arrive(r, d, o, f, next),
         hdrLock' \in [Doc -> Req \cup {None}]
  PROVE  TypeOK'
  BY DEF TypeOK, Arrive, rows

\* Every arrival keeps the types.
LEMMA ArrivalType ==
  ASSUME TypeOK, NEW r \in Req, Arrival(r)
  PROVE  TypeOK'
<1> PICK d \in Doc :
      \/ \E o \in Op, f \in Sheet : Create(r, d, o, f) \/ SaveRequest(r, d, o, f)
      \/ \E f \in Sheet : SaleRequest(r, d, f)
      \/ PostRequest(r, d) \/ CancelRequest(r, d) \/ DeleteRequest(r, d) \/ SaleCancelRequest(r, d)
  BY DEF Arrival
<1> NoLines \in [Item -> Int]
  BY DEF NoLines
<1>1. ASSUME NEW o \in Op, NEW f \in Sheet, Create(r, d, o, f) PROVE TypeOK'
  <2>1. hdrLock' \in [Doc -> Req \cup {None}]
    BY <1>1 DEF TypeOK, Create
  <2>2. f \in [Item -> Int] /\ (IF o = "save" THEN "commit" ELSE "items") \in Pc
    BY SheetAssumption DEF Pc
  <2>3. QED BY <1>1, <2>1, <2>2, ArriveType DEF Create
<1>2. ASSUME NEW o \in Op, NEW f \in Sheet, SaveRequest(r, d, o, f) PROVE TypeOK'
  <2>1. hdrLock' \in [Doc -> Req \cup {None}]
    BY <1>2 DEF TypeOK, SaveRequest
  <2>2. f \in [Item -> Int] /\ "lock" \in Pc
    BY SheetAssumption DEF Pc
  <2>3. QED BY <1>2, <2>1, <2>2, ArriveType DEF SaveRequest
<1>3. ASSUME PostRequest(r, d) \/ CancelRequest(r, d) \/ DeleteRequest(r, d) \/ SaleCancelRequest(r, d)
      PROVE  TypeOK'
  <2>1. hdrLock' \in [Doc -> Req \cup {None}]
    BY <1>3 DEF TypeOK, PostRequest, CancelRequest, DeleteRequest, SaleCancelRequest
  <2>2. \E o \in Op : Arrive(r, d, o, NoLines, "lock")
    BY <1>3 DEF PostRequest, CancelRequest, DeleteRequest, SaleCancelRequest, Op
  <2>3. "lock" \in Pc
    BY DEF Pc
  <2>4. QED BY <2>1, <2>2, <2>3, ArriveType
<1>4. ASSUME NEW f \in Sheet, SaleRequest(r, d, f) PROVE TypeOK'
  <2>1. hdrLock' \in [Doc -> Req \cup {None}]
    BY <1>4 DEF TypeOK, SaleRequest
  <2>2. f \in [Item -> Int] /\ "items" \in Pc /\ "sale" \in Op
    BY SheetAssumption DEF Pc, Op
  <2>3. QED BY <1>4, <2>1, <2>2, ArriveType DEF SaleRequest
<1>5. QED BY <1>1, <1>2, <1>3, <1>4

\* Every step of a transaction before its commit keeps the types.
LEMMA AdvanceType ==
  ASSUME TypeOK, NEW r \in Req,
         LockHeader(r) \/ LockItem(r) \/ ItemsLocked(r) \/ Preflight(r) \/ Apply(r)
  PROVE  TypeOK'
<1>1. CASE LockHeader(r)
  BY <1>1, RollbackType DEF LockHeader, TypeOK, Pc, rows
<1>2. CASE LockItem(r)
  BY <1>2 DEF LockItem, TypeOK, rows, reqs
<1>3. CASE ItemsLocked(r)
  BY <1>3 DEF ItemsLocked, TypeOK, Pc, rows, locks
<1>4. CASE Preflight(r)
  BY <1>4, RollbackType DEF Preflight, TypeOK, Pc, rows, locks
<1>5. CASE Apply(r)
  <2>1. [i \in Item |-> IF i \in Need(r) THEN OnHandOf(Seen(r, i)) ELSE 0] \in [Item -> Int]
    <3>1. \A i \in Item : OnHandOf(Seen(r, i)) \in Int
      BY SeenType, OnHandType
    <3>2. QED BY <3>1
  <2>2. QED BY <1>5, <2>1, RollbackType DEF Apply, TypeOK, Pc, rows, locks
<1>6. QED BY <1>1, <1>2, <1>3, <1>4, <1>5

\* Every commit keeps the types.
LEMMA CommitType ==
  ASSUME TypeOK, NEW r \in Req, Commit(r)
  PROVE  TypeOK'
<1>0. doc[r] \in Doc
  BY DEF TypeOK
<1>1. CASE CommitSave(r)
  BY <1>0, <1>1, ReleaseType, LoggedType DEF CommitSave, TypeOK, Status
<1>2. CASE CommitPost(r)
  <2>1. trail' \in [Doc -> [Step -> Nat]]
    BY <1>0, <1>2, LoggedType DEF CommitPost
  <2>2. QED BY <1>0, <1>2, <2>1, ReleaseType, LandType, ActingType DEF CommitPost, Booked, TypeOK, Status
<1>3. CASE CommitCancelDraft(r)
  BY <1>0, <1>3, ReleaseType, LoggedType DEF CommitCancelDraft, TypeOK, Status
<1>4. CASE CommitCancel(r)
  <2>1. trail' \in [Doc -> [Step -> Nat]]
    BY <1>0, <1>4, LoggedType DEF CommitCancel
  <2>2. QED BY <1>0, <1>4, <2>1, ReleaseType, LandType DEF CommitCancel, Unbooked, TypeOK, Status
<1>5. CASE CommitDelete(r)
  BY <1>0, <1>5, ReleaseType DEF CommitDelete, TypeOK
<1>6. QED BY <1>1, <1>2, <1>3, <1>4, <1>5 DEF Commit

\* Every step keeps the types.
LEMMA NextType == TypeOK /\ [Next]_vars => TypeOK'
<1> SUFFICES ASSUME TypeOK, [Next]_vars PROVE TypeOK'
  OBVIOUS
<1>1. CASE UNCHANGED vars
  BY <1>1 DEF TypeOK, vars, rows, locks, reqs
<1>2. CASE Next
  <2> PICK r \in Req : Arrival(r) \/ Advance(r) \/ Abort(r)
    BY <1>2 DEF Next
  <2>1. CASE Arrival(r)
    BY <2>1, ArrivalType
  <2>2. CASE Advance(r)
    BY <2>2, AdvanceType, CommitType DEF Advance
  <2>3. CASE Abort(r)
    BY <2>3, RollbackType DEF Abort
  <2>4. QED BY <2>1, <2>2, <2>3
<1>3. QED BY <1>1, <1>2

\* Every row, lock and request has its type in every behaviour, whatever the
\* constants: sums of ledger rows included.
THEOREM TypeCorrect == Spec => []TypeOK
  BY InitType, NextType, PTL DEF Spec

-----------------------------------------------------------------------------
(* The book: who holds which lock, and what the holder has computed. *)

\* r has locked every item it touches.
Locked(r) == pc[r] \in {"check", "apply"} \/ (pc[r] = "commit" /\ Moves(op[r]))

\* A transaction past its first step holds its header row.
HdrHeld == \A r \in Req : pc[r] \notin {"idle", "lock"} => hdrLock[doc[r]] = r

\* Only an operation that moves stock reaches the item locks.
StageOK ==
  \A r \in Req :
    /\ pc[r] \in {"items", "check", "apply"} => Moves(op[r])
    /\ pc[r] = "lock" => op[r] # "sale"

ItemsHeld == \A r \in Req : Locked(r) => \A i \in Need(r) : itemLock[i] = r

\* The balances a transaction is about to commit are the sums of the rows it
\* is about to commit, and none of them is one the policy refuses.
Fresh ==
  \A r \in Req : pc[r] = "commit" /\ Moves(op[r]) =>
    \A i \in Need(r) :
      /\ calc[r][i] = OnHandOf(Seen(r, i))
      /\ Refuses(r, i) => ~(calc[r][i] < 0)

LockInv == TypeOK /\ HdrHeld /\ StageOK /\ ItemsHeld
BookInv == LockInv /\ Fresh /\ OnHandIsLedger /\ BlockedNeverNegative

\* A step of one request leaves every other request as it is, with the locks
\* it holds and the rows they guard.
Kept(r) ==
  /\ pc'[r] = pc[r] /\ op'[r] = op[r] /\ doc'[r] = doc[r]
  /\ form'[r] = form[r] /\ calc'[r] = calc[r]
  /\ \A d \in Doc : hdrLock[d] = r =>
       /\ hdrLock'[d] = r /\ status'[d] = status[d] /\ lines'[d] = lines[d]
       /\ \A i \in Item : ledger'[i][d] = ledger[i][d]
  /\ \A i \in Item : itemLock[i] = r => itemLock'[i] = r /\ ledger'[i] = ledger[i]

\* Releasing q's locks takes none of r's.
LEMMA ReleaseKeeps ==
  ASSUME TypeOK, NEW q \in Req, NEW r \in Req, r # q, Release(q)
  PROVE  /\ pc'[r] = pc[r] /\ op'[r] = op[r] /\ doc'[r] = doc[r]
         /\ form'[r] = form[r] /\ calc'[r] = calc[r]
         /\ \A d \in Doc : hdrLock[d] = r => hdrLock'[d] = r
         /\ \A i \in Item : itemLock[i] = r => itemLock'[i] = r
  BY DEF TypeOK, Release

\* A rollback of q is no concern of r.
LEMMA RollbackKeeps ==
  ASSUME TypeOK, NEW q \in Req, NEW r \in Req, r # q, Rollback(q)
  PROVE  Kept(r)
  BY ReleaseKeeps DEF Rollback, Kept, rows

\* The rows q commits are not the ones r has locked.
LEMMA LandKeeps ==
  ASSUME LockInv, NEW q \in Req, NEW r \in Req, r # q,
         pc[q] = "commit", Moves(op[q]), Land(q)
  PROVE  /\ \A i \in Item : itemLock[i] = r => ledger'[i] = ledger[i]
         /\ \A d \in Doc : hdrLock[d] = r => \A i \in Item : ledger'[i][d] = ledger[i][d]
<1>1. \A i \in Item : itemLock[i] = r => i \notin Need(q)
  BY DEF LockInv, ItemsHeld, Locked
<1>2. hdrLock[doc[q]] = q
  BY DEF LockInv, HdrHeld
<1>3. \A i \in Item, d \in Doc : d # doc[q] => Seen(q, i)[d] = ledger[i][d]
  BY DEF Seen, LockInv, TypeOK
<1>4. QED BY <1>1, <1>2, <1>3 DEF Land, LockInv, TypeOK

\* What Apply does when it does not refuse.
Computed(r) ==
  /\ calc' = [calc EXCEPT ![r] = [i \in Item |->
                IF i \in Need(r) THEN OnHandOf(Seen(r, i)) ELSE 0]]
  /\ pc' = [pc EXCEPT ![r] = "commit"]
  /\ UNCHANGED <<rows, locks, op, doc, form>>

\* Apply refuses, or computes figures the policy accepts.
LEMMA ApplyEffect ==
  ASSUME NEW r \in Req, Apply(r)
  PROVE  \/ Rollback(r)
         \/ /\ Computed(r)
            /\ \A i \in Need(r) : i \in Item /\ Refuses(r, i) => ~(OnHandOf(Seen(r, i)) < 0)
<1> DEFINE new == [i \in Item |-> IF i \in Need(r) THEN OnHandOf(Seen(r, i)) ELSE 0]
<1>1. \A i \in Item : i \in Need(r) => new[i] = OnHandOf(Seen(r, i))
  OBVIOUS
<1>2. \/ Rollback(r)
      \/ ~(\E i \in Need(r) : Refuses(r, i) /\ new[i] < 0) /\ Computed(r)
  BY DEF Apply, Computed
<1> HIDE DEF new
<1>3. QED BY <1>1, <1>2

\* A step of one request keeps what every other one relies on.
LEMMA StepKeeps ==
  ASSUME LockInv, NEW q \in Req, NEW r \in Req, r # q,
         Arrival(q) \/ Advance(q) \/ Abort(q)
  PROVE  Kept(r)
<1> USE DEF LockInv
<1>1. CASE Arrival(q)
  <2> USE NoneAssumption DEF TypeOK, Arrive, Kept, rows
  <2> PICK d \in Doc :
        \/ \E o \in Op, f \in Sheet : Create(q, d, o, f) \/ SaveRequest(q, d, o, f)
        \/ \E f \in Sheet : SaleRequest(q, d, f)
        \/ PostRequest(q, d) \/ CancelRequest(q, d) \/ DeleteRequest(q, d) \/ SaleCancelRequest(q, d)
    BY <1>1 DEF Arrival
  <2>1. ASSUME NEW o \in Op, NEW f \in Sheet, Create(q, d, o, f) PROVE Kept(r)
    BY <2>1 DEF Create
  <2>2. ASSUME NEW o \in Op, NEW f \in Sheet, SaveRequest(q, d, o, f) PROVE Kept(r)
    BY <2>2 DEF SaveRequest
  <2>3. CASE PostRequest(q, d)
    BY <2>3 DEF PostRequest
  <2>4. CASE CancelRequest(q, d)
    BY <2>4 DEF CancelRequest
  <2>5. CASE DeleteRequest(q, d)
    BY <2>5 DEF DeleteRequest
  <2>6. CASE SaleCancelRequest(q, d)
    BY <2>6 DEF SaleCancelRequest
  <2>7. ASSUME NEW f \in Sheet, SaleRequest(q, d, f) PROVE Kept(r)
    BY <2>7 DEF SaleRequest
  <2>8. QED BY <2>1, <2>2, <2>3, <2>4, <2>5, <2>6, <2>7
<1>2. CASE LockHeader(q)
  BY <1>2, RollbackKeeps, NoneAssumption DEF LockHeader, TypeOK, Kept, rows
<1>3. CASE LockItem(q)
  BY <1>3, NoneAssumption DEF LockItem, NextItem, TypeOK, Kept, rows, reqs
<1>4. CASE ItemsLocked(q)
  BY <1>4 DEF ItemsLocked, TypeOK, Kept, rows, locks
<1>5. CASE Preflight(q)
  BY <1>5, RollbackKeeps DEF Preflight, TypeOK, Kept, rows, locks
<1>6. CASE Apply(q)
  <2>1. CASE Rollback(q)
    BY <2>1, RollbackKeeps
  <2>2. CASE Computed(q)
    BY <2>2 DEF Computed, TypeOK, Kept, rows, locks
  <2>3. QED BY <1>6, <2>1, <2>2, ApplyEffect
<1>7. CASE Commit(q)
  <2>0. pc[q] = "commit" /\ hdrLock[doc[q]] = q /\ Release(q)
    BY <1>7 DEF Commit, CommitSave, CommitPost, CommitCancelDraft, CommitCancel, CommitDelete, HdrHeld
  <2>1. CASE CommitSave(q)
    BY <2>0, <2>1, ReleaseKeeps DEF CommitSave, Kept, TypeOK
  <2>2. CASE CommitPost(q)
    <3>1. Moves(op[q])
      BY <2>2 DEF CommitPost, Moves
    <3>2. QED BY <2>0, <2>2, <3>1, ReleaseKeeps, LandKeeps DEF CommitPost, Kept, TypeOK
  <2>3. CASE CommitCancelDraft(q)
    BY <2>0, <2>3, ReleaseKeeps DEF CommitCancelDraft, Kept, TypeOK
  <2>4. CASE CommitCancel(q)
    <3>1. Moves(op[q])
      BY <2>4 DEF CommitCancel, Moves
    <3>2. QED BY <2>0, <2>4, <3>1, ReleaseKeeps, LandKeeps DEF CommitCancel, Kept, TypeOK
  <2>5. CASE CommitDelete(q)
    BY <2>0, <2>5, ReleaseKeeps DEF CommitDelete, Kept, TypeOK
  <2>6. QED BY <1>7, <2>1, <2>2, <2>3, <2>4, <2>5 DEF Commit
<1>8. CASE Abort(q)
  BY <1>8, RollbackKeeps DEF Abort
<1>9. QED BY <1>1, <1>2, <1>3, <1>4, <1>5, <1>6, <1>7, <1>8 DEF Advance

\* What r computes stays the same while it holds its locks.
LEMMA KeptMeans ==
  ASSUME LockInv, NEW r \in Req, Kept(r), pc[r] \notin {"idle", "lock"}
  PROVE  /\ Acting(r)' = Acting(r)
         /\ Need(r)' = Need(r)
         /\ Locked(r)' = Locked(r)
         /\ \A i \in Item : Refuses(r, i)' = Refuses(r, i)
         /\ \A i \in Item : itemLock[i] = r => Seen(r, i)' = Seen(r, i)
<1>0. doc[r] \in Doc /\ hdrLock[doc[r]] = r
  BY DEF LockInv, HdrHeld, TypeOK
<1>1. Acting(r)' = Acting(r)
  BY <1>0 DEF Kept, Acting
<1>2. Need(r)' = Need(r)
  <2>1. op'[r] = op[r] /\ doc'[r] = doc[r]
    BY DEF Kept
  <2>2. \A i \in Item : ledger'[i][doc[r]] = ledger[i][doc[r]]
    BY <1>0 DEF Kept
  <2>3. CASE op[r] = "cancel"
    BY <2>1, <2>2, <2>3 DEF Need
  <2>4. CASE op[r] # "cancel"
    BY <1>1, <2>1, <2>4 DEF Need
  <2>5. QED BY <2>3, <2>4
<1>3. Locked(r)' = Locked(r)
  BY DEF Kept, Locked
<1>4. \A i \in Item : Refuses(r, i)' = Refuses(r, i)
  BY DEF Kept, Refuses, ForceBlock
<1>5. ASSUME NEW i \in Item, itemLock[i] = r PROVE Seen(r, i)' = Seen(r, i)
  BY <1>0, <1>1, <1>5 DEF Kept, Seen, NewRow, Mirror
<1>6. QED BY <1>1, <1>2, <1>3, <1>4, <1>5

\* Before the first document every sum and every balance is zero.
LEMMA InitBook == Init => BookInv
<1> SUFFICES ASSUME Init PROVE BookInv
  OBVIOUS
<1>1. LockInv
  BY InitType DEF Init, LockInv, HdrHeld, StageOK, ItemsHeld, Locked
<1>2. Fresh
  BY DEF Init, Fresh
<1>3. OnHandIsLedger
  <2> SUFFICES ASSUME NEW i \in Item PROVE onHand[i] = OnHandOf(ledger[i])
    BY DEF OnHandIsLedger
  <2>1. [d \in Doc |-> ledger[i][d].fwd + ledger[i][d].rev] = [d \in Doc |-> 0]
    BY DEF Init, NoRow
  <2>2. QED BY <2>1, ZeroSum, DocAssumption DEF Init, OnHandOf, NoLines
<1>4. BlockedNeverNegative
  BY <1>3 DEF Init, OnHandIsLedger, BlockedNeverNegative, NoLines
<1>5. QED BY <1>1, <1>2, <1>3, <1>4 DEF BookInv

\* What the step of q makes of q itself: it is out of its transaction, or
\* waits for its header, or holds what its stage demands.
LEMMA OwnStep ==
  ASSUME LockInv, NEW q \in Req, Arrival(q) \/ Advance(q) \/ Abort(q)
  PROVE  /\ pc'[q] \notin {"idle", "lock"} => hdrLock'[doc'[q]] = q
         /\ pc'[q] \in {"items", "check", "apply"} => Moves(op'[q])
         /\ pc'[q] = "lock" => op'[q] # "sale"
         /\ Locked(q)' => \A i \in Need(q)' : itemLock'[i] = q
         /\ pc'[q] = "commit" /\ Moves(op'[q]) => Computed(q)
<1> USE DEF LockInv
<1> DEFINE Idle == pc'[q] = "idle"
<1>0. Rollback(q) \/ Commit(q) => Idle
  BY DEF Rollback, Release, Commit, CommitSave, CommitPost, CommitCancelDraft, CommitCancel,
         CommitDelete, TypeOK
<1>1. CASE Idle
  BY <1>1 DEF Locked
<1>2. CASE Arrival(q)
  <2> USE DEF TypeOK, Arrive, Locked
  <2> PICK d \in Doc :
        \/ \E o \in Op, f \in Sheet : Create(q, d, o, f) \/ SaveRequest(q, d, o, f)
        \/ \E f \in Sheet : SaleRequest(q, d, f)
        \/ PostRequest(q, d) \/ CancelRequest(q, d) \/ DeleteRequest(q, d) \/ SaleCancelRequest(q, d)
    BY <1>2 DEF Arrival
  <2>1. CASE \E o \in Op, f \in Sheet : Create(q, d, o, f)
    <3>1. PICK o \in Op, f \in Sheet : Create(q, d, o, f)
      BY <2>1
    <3>2. doc'[q] = d /\ op'[q] = o /\ hdrLock'[d] = q
      BY <3>1 DEF Create
    <3>3. pc'[q] = IF o = "save" THEN "commit" ELSE "items"
      BY <3>1 DEF Create
    <3>4. o \in {"save", "savePost"}
      BY <3>1 DEF Create
    <3>5. QED BY <3>2, <3>3, <3>4 DEF Moves
  <2>2. CASE \E o \in Op, f \in Sheet : SaveRequest(q, d, o, f)
    BY <2>2 DEF SaveRequest
  <2>3. CASE PostRequest(q, d) \/ CancelRequest(q, d) \/ DeleteRequest(q, d) \/ SaleCancelRequest(q, d)
    BY <2>3 DEF PostRequest, CancelRequest, DeleteRequest, SaleCancelRequest
  <2>4. CASE \E f \in Sheet : SaleRequest(q, d, f)
    <3>1. doc'[q] = d /\ op'[q] = "sale" /\ hdrLock'[d] = q /\ pc'[q] = "items"
      BY <2>4 DEF SaleRequest
    <3>2. QED BY <3>1 DEF Moves
  <2>5. QED BY <2>1, <2>2, <2>3, <2>4
<1>3. CASE LockHeader(q) /\ ~Idle
  BY <1>0, <1>3 DEF LockHeader, TypeOK, Locked, StageOK
<1>4. CASE LockItem(q)
  BY <1>4 DEF LockItem, TypeOK, rows, reqs, Locked, HdrHeld, StageOK
<1>5. CASE (ItemsLocked(q) \/ Preflight(q) \/ Apply(q)) /\ ~Idle
  <2>1. /\ UNCHANGED <<rows, locks, op, doc, form>>
        /\ \A i \in Need(q) : itemLock[i] = q
        /\ pc[q] \in {"items", "check", "apply"}
        /\ pc'[q] # "commit" \/ Computed(q)
    <3>1. CASE ItemsLocked(q)
      BY <3>1 DEF ItemsLocked, TypeOK
    <3>2. CASE Preflight(q) /\ ~Idle
      BY <1>0, <3>2 DEF Preflight, TypeOK, ItemsHeld, Locked
    <3>3. CASE Apply(q) /\ ~Idle
      <4>1. Computed(q) /\ pc[q] = "apply"
        BY <1>0, <3>3, ApplyEffect DEF Apply
      <4>2. QED BY <4>1 DEF Computed, TypeOK, ItemsHeld, Locked
    <3>4. QED BY <1>5, <3>1, <3>2, <3>3
  <2>2. Need(q)' = Need(q)
    BY <2>1 DEF rows, Need, Acting
  <2>3. op' = op /\ doc' = doc /\ hdrLock' = hdrLock /\ itemLock' = itemLock
    BY <2>1 DEF locks
  <2>4. Moves(op[q]) /\ hdrLock[doc[q]] = q
    BY <2>1 DEF StageOK, HdrHeld
  <2>5. op[q] # "sale" \/ pc'[q] # "lock"
    BY <1>5, <1>0, ApplyEffect DEF ItemsLocked, Preflight, Computed, TypeOK
  <2>6. QED BY <2>1, <2>2, <2>3, <2>4, <2>5
<1>6. QED BY <1>0, <1>1, <1>2, <1>3, <1>4, <1>5 DEF Advance, Abort

\* The locks a stage demands are held after every step.
LEMMA LockStep ==
  ASSUME LockInv, NEW q \in Req, Arrival(q) \/ Advance(q) \/ Abort(q)
  PROVE  LockInv'
<1>1. TypeOK'
  BY NextType DEF Next, LockInv
<1>2. ASSUME NEW r \in Req
      PROVE  /\ pc'[r] \notin {"idle", "lock"} => hdrLock'[doc'[r]] = r
             /\ pc'[r] \in {"items", "check", "apply"} => Moves(op'[r])
             /\ pc'[r] = "lock" => op'[r] # "sale"
             /\ Locked(r)' => \A i \in Need(r)' : itemLock'[i] = r
  <2>1. CASE r = q
    BY <2>1, OwnStep
  <2>2. CASE r # q
    <3>1. Kept(r)
      BY <2>2, StepKeeps
    <3>2. doc[r] \in Doc
      BY DEF LockInv, TypeOK
    <3>3. CASE pc[r] \in {"idle", "lock"}
      BY <3>1, <3>3 DEF Kept, Locked, LockInv, StageOK
    <3>4. CASE pc[r] \notin {"idle", "lock"}
      <4>1. Need(r)' = Need(r) /\ Locked(r)' = Locked(r)
        BY <3>1, <3>4, KeptMeans
      <4>2. hdrLock'[doc'[r]] = r
        BY <3>1, <3>2, <3>4 DEF Kept, LockInv, HdrHeld
      <4>3. Locked(r)' => \A i \in Need(r)' : itemLock'[i] = r
        BY <3>1, <4>1 DEF Kept, LockInv, ItemsHeld, Need
      <4>4. QED BY <3>1, <4>2, <4>3 DEF Kept, LockInv, StageOK
    <3>5. QED BY <3>3, <3>4
  <2>3. QED BY <2>1, <2>2
<1>3. HdrHeld' /\ StageOK' /\ ItemsHeld'
  BY <1>2 DEF HdrHeld, StageOK, ItemsHeld
<1>4. QED BY <1>1, <1>3 DEF LockInv

\* The figures waiting for a commit stay those of the rows waiting with them:
\* the item locks keep every other writer away from the sum.
LEMMA FreshStep ==
  ASSUME BookInv, NEW q \in Req, Arrival(q) \/ Advance(q) \/ Abort(q)
  PROVE  Fresh'
<1> SUFFICES ASSUME NEW r \in Req, pc'[r] = "commit", Moves(op'[r]), NEW i \in Need(r)'
             PROVE  /\ calc'[r][i] = OnHandOf(Seen(r, i)')
                    /\ Refuses(r, i)' => ~(calc'[r][i] < 0)
  BY DEF Fresh, OnHandOf
<1>0. LockInv /\ i \in Item
  BY DEF BookInv, Need
<1>1. CASE r = q
  <2>1. Computed(q)
    BY <1>0, <1>1, OwnStep
  <2>2. Apply(q) /\ ~Rollback(q)
    <3>1. pc[q] \in Pc /\ pc'[q] = "commit" /\ UNCHANGED rows /\ UNCHANGED locks
          /\ op' = op /\ doc' = doc /\ form' = form
      BY <1>1, <2>1 DEF Computed, LockInv, TypeOK, BookInv
    <3>2. ~Rollback(q) /\ ~Commit(q)
      BY <1>0, <3>1 DEF Rollback, Release, Commit, CommitSave, CommitPost, CommitCancelDraft,
                        CommitCancel, CommitDelete, LockInv, TypeOK
    <3>3. ~Arrival(q)
      <4> SUFFICES ASSUME Arrival(q) PROVE FALSE
        OBVIOUS
      <4>1. PICK d \in Doc :
              \/ \E o \in Op, f \in Sheet : Create(q, d, o, f) \/ SaveRequest(q, d, o, f)
              \/ \E f \in Sheet : SaleRequest(q, d, f)
              \/ PostRequest(q, d) \/ CancelRequest(q, d) \/ DeleteRequest(q, d) \/ SaleCancelRequest(q, d)
        BY DEF Arrival
      <4>2. PICK o \in Op, f \in Sheet : Create(q, d, o, f)
        BY <1>0, <3>1, <4>1 DEF SaveRequest, SaleRequest, PostRequest, CancelRequest, DeleteRequest,
                                SaleCancelRequest, Arrive, LockInv, TypeOK
      <4>3. hdrLock[d] = None /\ hdrLock'[d] = q
        BY <1>0, <4>2 DEF Create, LockInv, TypeOK
      <4>4. QED BY <3>1, <4>3, NoneAssumption DEF locks
    <3>4. ~LockItem(q) /\ ~ItemsLocked(q) /\ ~(Preflight(q) /\ ~Rollback(q))
      BY <1>0, <3>1 DEF LockItem, ItemsLocked, Preflight, LockInv, TypeOK, reqs
    <3>5. ~(LockHeader(q) /\ ~Rollback(q))
      BY <1>0, <1>1, <3>1 DEF LockHeader, LockInv, TypeOK
    <3>6. QED BY <3>2, <3>3, <3>4, <3>5 DEF Advance, Abort
  <2>3. /\ Need(q)' = Need(q) /\ Seen(q, i)' = Seen(q, i)
        /\ Refuses(q, i)' <=> Refuses(q, i)
    BY <2>1 DEF Computed, rows, Need, Acting, Seen, NewRow, Mirror, Refuses, ForceBlock
  <2>4. calc'[q][i] = OnHandOf(Seen(q, i))
    BY <1>0, <1>1, <2>1, <2>3 DEF Computed, LockInv, TypeOK
  <2>5. QED BY <1>0, <1>1, <2>2, <2>3, <2>4, ApplyEffect
<1>2. CASE r # q
  <2>1. Kept(r)
    BY <1>0, <1>2, StepKeeps
  <2>2. pc[r] = "commit" /\ Moves(op[r]) /\ calc'[r] = calc[r]
    BY <2>1 DEF Kept
  <2>3. Need(r)' = Need(r) /\ Refuses(r, i)' = Refuses(r, i)
    BY <1>0, <2>1, <2>2, KeptMeans
  <2>4. itemLock[i] = r
    BY <1>0, <2>2, <2>3 DEF LockInv, ItemsHeld, Locked
  <2>5. Seen(r, i)' = Seen(r, i)
    BY <1>0, <2>1, <2>2, <2>4, KeptMeans
  <2>6. QED BY <2>2, <2>3, <2>5 DEF BookInv, Fresh
<1>3. QED BY <1>1, <1>2

\* Ledger and balance change together, in the commit of a movement, or not at all.
LEMMA BookChange ==
  ASSUME LockInv, NEW q \in Req, Arrival(q) \/ Advance(q) \/ Abort(q)
  PROVE  \/ ledger' = ledger /\ onHand' = onHand
         \/ Land(q) /\ pc[q] = "commit" /\ Moves(op[q]) /\ (CommitPost(q) \/ CommitCancel(q))
<1>1. CASE Arrival(q)
  BY <1>1 DEF Arrival, Create, SaveRequest, SaleRequest, PostRequest, CancelRequest, DeleteRequest, SaleCancelRequest, Arrive, rows
<1>2. CASE Advance(q)
  BY <1>2, ApplyEffect DEF Advance, LockHeader, LockItem, ItemsLocked, Preflight, Computed, Rollback, Commit,
     CommitSave, CommitPost, CommitCancelDraft, CommitCancel, CommitDelete, Moves, rows
<1>3. CASE Abort(q)
  BY <1>3 DEF Abort, Rollback, rows
<1>4. QED BY <1>1, <1>2, <1>3

\* Every step keeps the book.
LEMMA BookStep == BookInv /\ [Next]_vars => BookInv'
<1> SUFFICES ASSUME BookInv, [Next]_vars PROVE BookInv'
  OBVIOUS
<1>1. CASE UNCHANGED vars
  <2> USE <1>1 DEF vars, rows, locks, reqs
  <2>1. \A r \in Req : Need(r)' = Need(r)
    BY DEF Need, Acting
  <2>2. \A r \in Req : Locked(r)' = Locked(r)
    BY DEF Locked
  <2>3. TypeOK' /\ HdrHeld' /\ StageOK'
    BY DEF BookInv, LockInv, TypeOK, HdrHeld, StageOK
  <2>4. ItemsHeld'
    BY <2>1, <2>2 DEF BookInv, LockInv, ItemsHeld
  <2>5. Fresh'
    <3>1. \A r \in Req, i \in Item : Seen(r, i)' = Seen(r, i)
      BY DEF Seen, NewRow, Mirror, Acting
    <3>2. \A r \in Req, i \in Item : Refuses(r, i)' = Refuses(r, i)
      BY DEF Refuses, ForceBlock
    <3>3. \A r \in Req : \A i \in Need(r) : i \in Item
      BY DEF Need
    <3>4. \A r \in Req, i \in Item : OnHandOf(Seen(r, i))' = OnHandOf(Seen(r, i))
      BY <3>1 DEF OnHandOf
    <3>5. QED BY <2>1, <3>2, <3>3, <3>4 DEF BookInv, Fresh
  <2>6. OnHandIsLedger' /\ BlockedNeverNegative'
    BY DEF BookInv, OnHandIsLedger, BlockedNeverNegative, OnHandOf
  <2>7. QED BY <2>3, <2>4, <2>5, <2>6 DEF BookInv, LockInv
<1>2. ASSUME NEW q \in Req, Arrival(q) \/ Advance(q) \/ Abort(q) PROVE BookInv'
  <2>0. LockInv /\ LockInv' /\ Fresh'
    BY <1>2, LockStep, FreshStep DEF BookInv
  <2>1. CASE ledger' = ledger /\ onHand' = onHand
    BY <2>0, <2>1 DEF BookInv, OnHandIsLedger, BlockedNeverNegative, OnHandOf
  <2>2. CASE Land(q) /\ pc[q] = "commit" /\ Moves(op[q])
    <3>1. ASSUME NEW i \in Item
          PROVE  /\ onHand'[i] = OnHandOf(ledger'[i])
                 /\ Policy[i] = "BLOCK" => ~(OnHandOf(ledger'[i]) < 0)
      <4>1. CASE i \in Need(q)
        <5>1. onHand'[i] = calc[q][i] /\ ledger'[i] = Seen(q, i)
          BY <2>2, <4>1 DEF Land
        <5>2. calc[q][i] = OnHandOf(Seen(q, i)) /\ (Refuses(q, i) => ~(calc[q][i] < 0))
          BY <2>2, <4>1 DEF BookInv, Fresh
        <5>3. QED BY <5>1, <5>2 DEF Refuses
      <4>2. CASE i \notin Need(q)
        BY <2>2, <4>2 DEF Land, BookInv, OnHandIsLedger, BlockedNeverNegative
      <4>3. QED BY <4>1, <4>2
    <3>2. OnHandIsLedger' /\ BlockedNeverNegative'
      BY <3>1 DEF OnHandIsLedger, BlockedNeverNegative, OnHandOf
    <3>3. QED BY <2>0, <3>2 DEF BookInv
  <2>3. QED BY <1>2, <2>0, <2>1, <2>2, BookChange
<1>3. QED BY <1>1, <1>2 DEF Next

\* The locks and the figures under way are consistent in every behaviour.
THEOREM BookCorrect == Spec => []BookInv
  BY InitBook, BookStep, PTL DEF Spec

\* stock_balance never drifts from stock_ledger, whatever the documents, the
\* items, the line lists and the number of concurrent requests.
THEOREM BalanceIsLedger == Spec => []OnHandIsLedger
<1>1. BookInv => OnHandIsLedger
  BY DEF BookInv
<1>2. QED BY <1>1, BookCorrect, PTL

\* No interleaving of posts and cancels takes a BLOCK item below zero.
THEOREM BlockHolds == Spec => []BlockedNeverNegative
<1>1. BookInv => BlockedNeverNegative
  BY DEF BookInv
<1>2. QED BY <1>1, BookCorrect, PTL

\* What a step of the specification may never do: an adjustment or the cancel
\* of a stock voucher never commits a negative holding.
THEOREM OverdraftRefused == Spec => NeverOverdraws
<1> DEFINE Bad == [\A d \in Doc, i \in Item :
       (/\ ledger'[i][d] # ledger[i][d]
        /\ IF status'[d] = "CANCELLED" THEN IsVoucher(d) ELSE KindOf[d] = "ADJUST")
       => onHand'[i] >= 0]_vars
<1>1. BookInv /\ [Next]_vars => Bad
  <2> SUFFICES ASSUME BookInv, Next, NEW d \in Doc, NEW i \in Item,
                      ledger'[i][d] # ledger[i][d],
                      IF status'[d] = "CANCELLED" THEN IsVoucher(d) ELSE KindOf[d] = "ADJUST"
               PROVE  onHand'[i] >= 0
    OBVIOUS
  <2>0. TypeOK
    BY DEF BookInv, LockInv
  <2>1. PICK q \in Req : Arrival(q) \/ Advance(q) \/ Abort(q)
    BY DEF Next
  <2>2. Land(q) /\ pc[q] = "commit" /\ Moves(op[q]) /\ (CommitPost(q) \/ CommitCancel(q))
    BY <2>1, BookChange DEF BookInv
  <2>3. i \in Need(q) /\ d = doc[q]
    BY <2>0, <2>2 DEF Land, Seen, TypeOK
  <2>4. ForceBlock(q)
    <3>1. CASE CommitPost(q)
      BY <2>0, <2>3, <3>1 DEF CommitPost, ForceBlock, TypeOK
    <3>2. CASE CommitCancel(q)
      BY <2>0, <2>3, <3>2 DEF CommitCancel, ForceBlock, TypeOK
    <3>3. QED BY <2>2, <3>1, <3>2
  <2>5. ~(calc[q][i] < 0)
    BY <2>2, <2>3, <2>4 DEF BookInv, Fresh, Refuses
  <2>6. onHand'[i] = calc[q][i] /\ calc[q][i] \in Int
    BY <2>0, <2>2, <2>3 DEF Land, TypeOK
  <2>7. QED BY <2>5, <2>6
<1>2. QED BY <1>1, BookCorrect, PTL DEF Spec, NeverOverdraws

-----------------------------------------------------------------------------
(***************************************************************************)
(* Proofs about StockVoucher, second part: the ledger and the accounts say *)
(* what the header says, and no holding is opened twice.                   *)
(*                                                                         *)
(* Both rest on the lock invariant of the first part.  The first needs     *)
(* in addition that the status a transaction checked under the header lock *)
(* is still the document's status when it commits; the second that what    *)
(* the preflight found is still true then.                                 *)
(***************************************************************************)

\* What the header check of a transaction established.
ClearedFor(r) ==
  LET d == doc[r] IN
  /\ op[r] \in {"save", "savePost"} => status[d] \in {"ABSENT", "DRAFT"}
  /\ op[r] \in {"post", "cancelDraft"} => status[d] = "DRAFT"
  /\ op[r] = "sale" => status[d] = "ABSENT"
  /\ op[r] = "cancel" => status[d] = "POSTED"

\* A stock voucher is saved and posted, a sales shadow is not.
RightKind(r) ==
  /\ op[r] \in {"savePost", "post"} => IsVoucher(doc[r])
  /\ op[r] = "sale" => ~IsVoucher(doc[r])

Cleared == \A r \in Req :
  /\ pc[r] \notin {"idle", "lock"} => ClearedFor(r)
  /\ pc[r] # "idle" => RightKind(r)

\* What the preflight of an opening found is still so.
Vetted == \A r \in Req :
  pc[r] \in {"apply", "commit"} /\ op[r] \in {"post", "savePost"} => ~AlreadyOpened(r)

StatusInv == LockInv /\ Cleared /\ StatusMatchesLedger
OpenInv == LockInv /\ Cleared /\ Vetted /\ OpenedOnce

-----------------------------------------------------------------------------
\* A step of q checks the header before it goes on with it.
LEMMA OwnCleared ==
  ASSUME LockInv, Cleared, NEW q \in Req, Arrival(q) \/ Advance(q) \/ Abort(q)
  PROVE  /\ pc'[q] \notin {"idle", "lock"} => ClearedFor(q)'
         /\ pc'[q] # "idle" => RightKind(q)'
<1> USE DEF LockInv
<1>0. Rollback(q) \/ Commit(q) => pc'[q] = "idle"
  BY DEF Rollback, Release, Commit, CommitSave, CommitPost, CommitCancelDraft, CommitCancel,
         CommitDelete, TypeOK
<1>1. CASE pc'[q] = "idle"
  BY <1>1
<1>2. CASE Arrival(q)
  <2> USE DEF TypeOK, Arrive, rows
  <2> PICK d \in Doc :
        \/ \E o \in Op, f \in Sheet : Create(q, d, o, f) \/ SaveRequest(q, d, o, f)
        \/ \E f \in Sheet : SaleRequest(q, d, f)
        \/ PostRequest(q, d) \/ CancelRequest(q, d) \/ DeleteRequest(q, d) \/ SaleCancelRequest(q, d)
    BY <1>2 DEF Arrival
  <2>1. CASE \E o \in Op, f \in Sheet : Create(q, d, o, f)
    BY <2>1 DEF Create, ClearedFor, RightKind
  <2>2. CASE \E o \in Op, f \in Sheet : SaveRequest(q, d, o, f)
    BY <2>2 DEF SaveRequest, RightKind
  <2>3. CASE PostRequest(q, d) \/ CancelRequest(q, d) \/ DeleteRequest(q, d) \/ SaleCancelRequest(q, d)
    BY <2>3 DEF PostRequest, CancelRequest, DeleteRequest, SaleCancelRequest, RightKind
  <2>4. CASE \E f \in Sheet : SaleRequest(q, d, f)
    BY <2>4 DEF SaleRequest, ClearedFor, RightKind
  <2>5. QED BY <2>1, <2>2, <2>3, <2>4
<1>3. CASE LockHeader(q) /\ pc'[q] # "idle"
  <2>1. HeaderOk(q) /\ pc[q] = "lock" /\ UNCHANGED <<rows, op, doc>>
    BY <1>0, <1>3 DEF LockHeader
  <2>2. RightKind(q)
    BY <2>1 DEF Cleared
  <2>3. op[q] # "sale"
    BY <2>1 DEF StageOK
  <2>4. op[q] \in Op
    BY DEF TypeOK
  <2>5. ClearedFor(q)
    BY <2>1, <2>3, <2>4 DEF HeaderOk, ClearedFor, Op
  <2>6. QED BY <2>1, <2>2, <2>5 DEF ClearedFor, RightKind, rows
<1>4. CASE (LockItem(q) \/ ItemsLocked(q) \/ Preflight(q) \/ Apply(q)) /\ pc'[q] # "idle"
  <2>1. pc[q] \notin {"idle", "lock"} /\ UNCHANGED <<rows, op, doc>>
    BY <1>0, <1>4, ApplyEffect DEF LockItem, ItemsLocked, Preflight, Apply, Computed, reqs
  <2>2. ClearedFor(q) /\ RightKind(q)
    BY <2>1 DEF Cleared
  <2>3. QED BY <2>1, <2>2 DEF ClearedFor, RightKind, rows
<1>5. QED BY <1>0, <1>1, <1>2, <1>3, <1>4 DEF Advance, Abort

\* A status checked under the header lock stays until the commit.
LEMMA ClearedStep ==
  ASSUME LockInv, Cleared, NEW q \in Req, Arrival(q) \/ Advance(q) \/ Abort(q)
  PROVE  Cleared'
<1> SUFFICES ASSUME NEW r \in Req
             PROVE  /\ pc'[r] \notin {"idle", "lock"} => ClearedFor(r)'
                    /\ pc'[r] # "idle" => RightKind(r)'
  BY DEF Cleared
<1>1. CASE r = q
  BY <1>1, OwnCleared
<1>2. CASE r # q
  <2>1. Kept(r) /\ doc[r] \in Doc
    BY <1>2, StepKeeps DEF LockInv, TypeOK
  <2>2. pc[r] \notin {"idle", "lock"} => status'[doc[r]] = status[doc[r]]
    BY <2>1 DEF Kept, LockInv, HdrHeld
  <2>3. QED BY <2>1, <2>2 DEF Kept, Cleared, ClearedFor, RightKind
<1>3. QED BY <1>1, <1>2

-----------------------------------------------------------------------------
\* What StatusMatchesLedger says of one document.
Matches(d) ==
  /\ status[d] \in {"ABSENT", "DRAFT"} =>
       books[d] = "none" /\ \A i \in Item : ledger[i][d] = NoRow
  /\ status[d] = "POSTED" =>
       /\ \A i \in Item : ledger[i][d] = [fwd |-> lines[d][i], rev |-> 0]
       /\ books[d] = IF Perpetual /\ IsVoucher(d) THEN "posted" ELSE "none"
  /\ status[d] = "CANCELLED" =>
       /\ \A i \in Item : ledger[i][d].fwd + ledger[i][d].rev = 0
       /\ books[d] # "posted"

\* A commit touches the rows of its own document only.
LEMMA OtherRows ==
  ASSUME LockInv, NEW q \in Req, Commit(q), NEW d \in Doc, d # doc[q]
  PROVE  /\ status'[d] = status[d] /\ lines'[d] = lines[d] /\ books'[d] = books[d]
         /\ \A i \in Item : ledger'[i][d] = ledger[i][d]
<1>1. Land(q) => \A i \in Item : ledger'[i][d] = ledger[i][d]
  BY DEF Land, Seen, LockInv, TypeOK
<1>2. QED BY <1>1 DEF Commit, CommitSave, CommitPost, CommitCancelDraft, CommitCancel, CommitDelete,
                     LockInv, TypeOK

\* A commit leaves its own document in step with its ledger rows.
LEMMA OwnRows ==
  ASSUME StatusInv, NEW q \in Req, Commit(q), NEW d \in Doc, d = doc[q]
  PROVE  Matches(d)'
<1>0. /\ d \in Doc /\ op[q] \in Op /\ TypeOK /\ Matches(d)
      /\ pc[q] = "commit" /\ ClearedFor(q) /\ RightKind(q)
  BY DEF StatusInv, LockInv, TypeOK, Cleared, StatusMatchesLedger, Matches, Commit, CommitSave,
         CommitPost, CommitCancelDraft, CommitCancel, CommitDelete
<1>1. CASE CommitSave(q)
  <2>1. status[d] \in {"ABSENT", "DRAFT"} /\ status'[d] = "DRAFT"
    BY <1>0, <1>1 DEF CommitSave, ClearedFor, TypeOK
  <2>2. QED BY <1>0, <1>1, <2>1 DEF CommitSave, Matches
<1>2. CASE CommitPost(q)
  <2>1. status[d] \in {"ABSENT", "DRAFT"} /\ status'[d] = "POSTED"
    BY <1>0, <1>2 DEF CommitPost, ClearedFor, TypeOK
  <2>2. books[d] = "none" /\ \A i \in Item : ledger[i][d] = NoRow
    BY <1>0, <2>1 DEF Matches
  <2>3. lines'[d] = Acting(q) /\ Land(q) /\ op[q] # "cancel"
    BY <1>0, <1>2 DEF CommitPost, TypeOK
  <2>4. ASSUME NEW i \in Item PROVE ledger'[i][d] = [fwd |-> Acting(q)[i], rev |-> 0]
    <3>1. CASE i \in Need(q)
      BY <1>0, <2>3, <3>1 DEF Land, Seen, NewRow, Mirror, TypeOK
    <3>2. CASE i \notin Need(q)
      <4>1. Acting(q)[i] = 0
        BY <2>3, <3>2 DEF Need
      <4>2. QED BY <2>2, <2>3, <3>2, <4>1 DEF Land, NoRow
    <3>3. QED BY <3>1, <3>2
  <2>5. books'[d] = IF Perpetual /\ IsVoucher(d) THEN "posted" ELSE "none"
    BY <1>0, <1>2, <2>2 DEF CommitPost, Booked, RightKind, TypeOK
  <2>6. QED BY <2>1, <2>3, <2>4, <2>5 DEF Matches
<1>3. CASE CommitCancelDraft(q)
  <2>1. status[d] = "DRAFT" /\ status'[d] = "CANCELLED"
    BY <1>0, <1>3 DEF CommitCancelDraft, ClearedFor, TypeOK
  <2>2. books[d] = "none" /\ \A i \in Item : ledger[i][d] = NoRow
    BY <1>0, <2>1 DEF Matches
  <2>3. QED BY <1>3, <2>1, <2>2 DEF CommitCancelDraft, Matches, NoRow
<1>4. CASE CommitCancel(q)
  <2>1. status[d] = "POSTED" /\ status'[d] = "CANCELLED" /\ Land(q) /\ op[q] = "cancel"
    BY <1>0, <1>4 DEF CommitCancel, ClearedFor, TypeOK
  <2>2. \A i \in Item : ledger[i][d] = [fwd |-> lines[d][i], rev |-> 0] /\ lines[d][i] \in Int
    BY <1>0, <2>1 DEF Matches, TypeOK
  <2>3. ASSUME NEW i \in Item PROVE ledger'[i][d].fwd + ledger'[i][d].rev = 0
    <3>1. CASE i \in Need(q)
      <4>1. ledger'[i][d] = NewRow(q, i)
        BY <1>0, <2>1, <3>1 DEF Land, Seen, TypeOK
      <4>2. ledger[i][d].fwd = lines[d][i] /\ lines[d][i] \in Int
        <5>1. ledger[i][d] = [fwd |-> lines[d][i], rev |-> 0] /\ lines[d][i] \in Int
          BY <2>2
        <5>2. [fwd |-> lines[d][i], rev |-> 0].fwd = lines[d][i]
          OBVIOUS
        <5>3. QED BY <5>1, <5>2, Zenon
      <4>3. NewRow(q, i) = [fwd |-> lines[d][i], rev |-> 0 - lines[d][i]]
        BY <2>1, <4>2 DEF NewRow, Mirror
      <4>4. ledger'[i][d].fwd = lines[d][i] /\ ledger'[i][d].rev = 0 - lines[d][i]
        BY <4>1, <4>3
      <4>5. QED BY <4>2, <4>4
    <3>2. CASE i \notin Need(q)
      <4>1. ledger'[i][d] = [fwd |-> lines[d][i], rev |-> 0] /\ lines[d][i] = 0
        BY <2>1, <2>2, <3>2 DEF Land, Need
      <4>2. QED BY <4>1
    <3>3. QED BY <3>1, <3>2
  <2>4. books'[d] # "posted"
    BY <1>0, <1>4 DEF CommitCancel, Unbooked, TypeOK
  <2>5. QED BY <2>1, <2>3, <2>4 DEF Matches
<1>5. CASE CommitDelete(q)
  BY <1>0, <1>5 DEF CommitDelete, Matches
<1>6. QED BY <1>1, <1>2, <1>3, <1>4, <1>5 DEF Commit

\* Outside a commit no row changes.
LEMMA RowsChange ==
  ASSUME NEW q \in Req, Arrival(q) \/ Advance(q) \/ Abort(q)
  PROVE  UNCHANGED rows \/ Commit(q)
<1>1. CASE Arrival(q)
  BY <1>1 DEF Arrival, Create, SaveRequest, SaleRequest, PostRequest, CancelRequest, DeleteRequest, SaleCancelRequest, Arrive
<1>2. CASE Advance(q)
  BY <1>2, ApplyEffect DEF Advance, LockHeader, LockItem, ItemsLocked, Preflight, Computed, Rollback
<1>3. CASE Abort(q)
  BY <1>3 DEF Abort, Rollback
<1>4. QED BY <1>1, <1>2, <1>3

\* Every step keeps every document in step with its ledger rows.
LEMMA StatusStep == StatusInv /\ [Next]_vars => StatusInv'
<1> SUFFICES ASSUME StatusInv, [Next]_vars PROVE StatusInv'
  OBVIOUS
<1>1. CASE UNCHANGED vars
  <2> USE <1>1 DEF vars, rows, locks, reqs
  <2>1. LockInv'
    <3>1. \A r \in Req : Need(r)' = Need(r) /\ Locked(r)' = Locked(r)
      BY DEF Need, Acting, Locked
    <3>2. QED BY <3>1 DEF StatusInv, LockInv, TypeOK, HdrHeld, StageOK, ItemsHeld
  <2>2. Cleared' /\ StatusMatchesLedger'
    BY DEF StatusInv, Cleared, ClearedFor, RightKind, StatusMatchesLedger
  <2>3. QED BY <2>1, <2>2 DEF StatusInv
<1>2. ASSUME NEW q \in Req, Arrival(q) \/ Advance(q) \/ Abort(q) PROVE StatusInv'
  <2>1. LockInv /\ LockInv' /\ Cleared'
    BY <1>2, LockStep, ClearedStep DEF StatusInv
  <2>2. StatusMatchesLedger'
    <3>1. CASE UNCHANGED rows
      BY <3>1 DEF rows, StatusInv, StatusMatchesLedger
    <3>2. CASE Commit(q)
      <4> SUFFICES ASSUME NEW d \in Doc PROVE Matches(d)'
        BY DEF StatusMatchesLedger, Matches
      <4>1. CASE d = doc[q]
        BY <3>2, <4>1, OwnRows
      <4>2. CASE d # doc[q]
        <5>1. Matches(d)
          BY DEF StatusInv, StatusMatchesLedger, Matches
        <5>2. QED BY <2>1, <3>2, <4>2, <5>1, OtherRows DEF Matches
      <4>3. QED BY <4>1, <4>2
    <3>3. QED BY <1>2, <3>1, <3>2, RowsChange
  <2>3. QED BY <2>1, <2>2 DEF StatusInv
<1>3. QED BY <1>1, <1>2 DEF Next

\* Ledger and accounts hold exactly what the document's status says, whatever
\* requests race for it.
THEOREM LedgerFollowsStatus == Spec => []StatusMatchesLedger
<1>1. Init => StatusInv
  BY InitBook DEF BookInv, Init, StatusInv, Cleared, StatusMatchesLedger
<1>2. StatusInv => StatusMatchesLedger
  BY DEF StatusInv
<1>3. QED BY <1>1, <1>2, StatusStep, PTL DEF Spec

-----------------------------------------------------------------------------
\* What the preflight found of r's holdings stays while r holds their locks.
LEMMA VettedKept ==
  ASSUME LockInv, NEW r \in Req, Kept(r), pc[r] \in {"apply", "commit"},
         op[r] \in {"post", "savePost"}, ~AlreadyOpened(r)
  PROVE  ~AlreadyOpened(r)'
<1>1. Need(r)' = Need(r) /\ doc'[r] = doc[r] /\ \A i \in Need(r) : i \in Item
  BY KeptMeans DEF Kept, Need
<1>2. \A i \in Need(r) : itemLock[i] = r
  BY DEF LockInv, ItemsHeld, Locked, Moves
<1>3. \A i \in Need(r) : ledger'[i] = ledger[i]
  BY <1>1, <1>2 DEF Kept
<1>4. QED BY <1>1, <1>3 DEF AlreadyOpened, Unreversed

\* A step of q that brings it to the commit of an opening has had it vetted.
LEMMA OwnVetted ==
  ASSUME LockInv, Vetted, NEW q \in Req, Arrival(q) \/ Advance(q) \/ Abort(q),
         pc'[q] \in {"apply", "commit"}, op'[q] \in {"post", "savePost"}
  PROVE  ~AlreadyOpened(q)'
<1> USE DEF LockInv
<1>0. ~Rollback(q) /\ ~Commit(q)
  BY DEF Rollback, Release, Commit, CommitSave, CommitPost, CommitCancelDraft, CommitCancel,
         CommitDelete, TypeOK
<1>1. ~Arrival(q)
  <2> SUFFICES ASSUME Arrival(q) PROVE FALSE
    OBVIOUS
  <2>1. PICK d \in Doc :
        \/ \E o \in Op, f \in Sheet : Create(q, d, o, f) \/ SaveRequest(q, d, o, f)
        \/ \E f \in Sheet : SaleRequest(q, d, f)
        \/ PostRequest(q, d) \/ CancelRequest(q, d) \/ DeleteRequest(q, d) \/ SaleCancelRequest(q, d)
    BY DEF Arrival
  <2>2. PICK o \in Op, f \in Sheet : Create(q, d, o, f)
    BY <2>1 DEF SaveRequest, SaleRequest, PostRequest, CancelRequest, DeleteRequest, SaleCancelRequest, Arrive, TypeOK
  <2>3. op'[q] = o /\ pc'[q] = IF o = "save" THEN "commit" ELSE "items"
    BY <2>2 DEF Create, Arrive, TypeOK
  <2>4. QED BY <2>3
<1>2. ~LockHeader(q) /\ ~LockItem(q)
  BY <1>0 DEF LockHeader, LockItem, TypeOK, Moves, reqs
<1>3. UNCHANGED <<rows, op, doc, form>> /\ ~AlreadyOpened(q)
  <2>1. CASE ItemsLocked(q)
    BY <2>1 DEF ItemsLocked, TypeOK
  <2>2. CASE Preflight(q)
    BY <1>0, <2>2 DEF Preflight
  <2>3. CASE Apply(q)
    BY <1>0, <2>3, ApplyEffect DEF Apply, Computed, Vetted
  <2>4. QED BY <1>0, <1>1, <1>2, <2>1, <2>2, <2>3 DEF Advance, Abort
<1>4. Need(q)' = Need(q)
  BY <1>3 DEF Need, Acting, rows
<1>5. QED BY <1>3, <1>4 DEF AlreadyOpened, Unreversed, rows

\* A commit opens no holding that another opening holds open.
LEMMA OpenedStep ==
  ASSUME OpenInv, NEW q \in Req, Commit(q), Land(q), CommitPost(q) \/ CommitCancel(q)
  PROVE  OpenedOnce'
<1>0. /\ TypeOK /\ doc[q] \in Doc /\ pc[q] = "commit"
      /\ RightKind(q) /\ (op[q] \in {"post", "savePost"} => ~AlreadyOpened(q))
  BY DEF OpenInv, LockInv, TypeOK, Cleared, Vetted, CommitPost, CommitCancel
<1>1. \A i \in Item, d \in Doc : d # doc[q] => ledger'[i][d] = ledger[i][d]
  BY <1>0 DEF Land, Seen, TypeOK
<1>3. ASSUME NEW i \in Item, NEW d \in Doc, d = doc[q], KindOf[d] = "OPENING",
             ledger'[i][d].fwd # 0, ledger'[i][d].rev = 0,
             NEW e \in Doc, e # d, KindOf[e] = "OPENING", Unreversed(i, e)
      PROVE  FALSE
  <2>1. CASE i \notin Need(q)
    <3>1. ledger'[i] = ledger[i]
      BY <2>1 DEF Land
    <3>2. QED BY <1>3, <3>1 DEF OpenInv, OpenedOnce, Unreversed
  <2>2. CASE i \in Need(q) /\ CommitPost(q)
    <3>1. op[q] \in {"post", "savePost"}
      BY <1>0, <1>3, <2>2 DEF CommitPost, RightKind, IsVoucher
    <3>2. QED BY <1>0, <1>3, <2>2, <3>1 DEF AlreadyOpened
  <2>3. CASE i \in Need(q) /\ CommitCancel(q)
    <3>1. op[q] = "cancel"
      BY <2>3 DEF CommitCancel
    <3>2. ledger'[i][d] = NewRow(q, i)
      BY <1>0, <1>3, <2>3 DEF Land, Seen, TypeOK
    <3>3. ledger[i][d].fwd # 0 /\ ledger[i][d].fwd \in Int
      BY <1>0, <1>3, <2>3, <3>1 DEF Need, TypeOK, Row
    <3>4. ledger'[i][d].rev = 0 - ledger[i][d].fwd
      BY <1>3, <3>1, <3>2 DEF NewRow, Mirror
    <3>5. QED BY <1>3, <3>3, <3>4
  <2>4. QED BY <2>1, <2>2, <2>3
<1>4. QED
  <2> SUFFICES ASSUME NEW i \in Item, NEW d \in Doc, NEW e \in Doc, d # e,
                      KindOf[d] = "OPENING", Unreversed(i, d)',
                      KindOf[e] = "OPENING", Unreversed(i, e)'
               PROVE  FALSE
    BY DEF OpenedOnce
  <2>1. CASE d = doc[q]
    BY <1>1, <1>3, <2>1 DEF Unreversed
  <2>2. CASE e = doc[q]
    BY <1>1, <1>3, <2>2 DEF Unreversed
  <2>3. CASE d # doc[q] /\ e # doc[q]
    BY <1>1, <2>3 DEF Unreversed, OpenInv, OpenedOnce
  <2>4. QED BY <2>1, <2>2, <2>3

\* Every step keeps the holdings opened once.
LEMMA OpenStep == OpenInv /\ [Next]_vars => OpenInv'
<1> SUFFICES ASSUME OpenInv, [Next]_vars PROVE OpenInv'
  OBVIOUS
<1>1. CASE UNCHANGED vars
  <2> USE <1>1 DEF vars, rows, locks, reqs
  <2>1. \A r \in Req : Need(r)' = Need(r) /\ Locked(r)' = Locked(r)
    BY DEF Need, Acting, Locked
  <2>2. LockInv'
    BY <2>1 DEF OpenInv, LockInv, TypeOK, HdrHeld, StageOK, ItemsHeld
  <2>3. \A r \in Req : AlreadyOpened(r)' = AlreadyOpened(r)
    BY <2>1 DEF AlreadyOpened, Unreversed
  <2>4. Cleared' /\ Vetted' /\ OpenedOnce'
    BY <2>3 DEF OpenInv, Cleared, ClearedFor, RightKind, Vetted, OpenedOnce, Unreversed
  <2>5. QED BY <2>2, <2>4 DEF OpenInv
<1>2. ASSUME NEW q \in Req, Arrival(q) \/ Advance(q) \/ Abort(q) PROVE OpenInv'
  <2>1. LockInv /\ LockInv' /\ Cleared'
    BY <1>2, LockStep, ClearedStep DEF OpenInv
  <2>2. Vetted'
    <3> SUFFICES ASSUME NEW r \in Req, pc'[r] \in {"apply", "commit"}, op'[r] \in {"post", "savePost"}
                 PROVE  ~AlreadyOpened(r)'
      BY DEF Vetted
    <3>1. CASE r = q
      BY <1>2, <2>1, <3>1, OwnVetted DEF OpenInv
    <3>2. CASE r # q
      <4>1. Kept(r)
        BY <1>2, <2>1, <3>2, StepKeeps
      <4>2. pc[r] \in {"apply", "commit"} /\ op[r] \in {"post", "savePost"}
        BY <4>1 DEF Kept
      <4>3. QED BY <2>1, <4>1, <4>2, VettedKept DEF OpenInv, Vetted
    <3>3. QED BY <3>1, <3>2
  <2>3. OpenedOnce'
    <3>1. CASE ledger' = ledger
      BY <3>1 DEF OpenInv, OpenedOnce, Unreversed
    <3>2. CASE Land(q) /\ (CommitPost(q) \/ CommitCancel(q))
      BY <3>2, OpenedStep DEF Commit
    <3>3. QED BY <1>2, <2>1, <3>1, <3>2, BookChange
  <2>4. QED BY <2>1, <2>2, <2>3 DEF OpenInv
<1>3. QED BY <1>1, <1>2 DEF Next

\* However the posts of two openings interleave, one holding is opened once.
THEOREM OneOpening == Spec => []OpenedOnce
<1>1. Init => OpenInv
  BY InitBook DEF BookInv, Init, OpenInv, Cleared, Vetted, OpenedOnce, Unreversed, NoRow
<1>2. OpenInv => OpenedOnce
  BY DEF OpenInv
<1>3. QED BY <1>1, <1>2, OpenStep, PTL DEF Spec

-----------------------------------------------------------------------------
(***************************************************************************)
(* Proofs about StockVoucher, third part: the trail tells the story of the *)
(* header, and the requests implement the book of StockBook.               *)
(*                                                                         *)
(* Both need what the requests carry: the lines of a document come from a  *)
(* save, so a posted document has a line with a quantity.  The refinement  *)
(* then combines the invariants of the first two parts: Fresh says that    *)
(* the rebuilt balance is the sum with the document's rows in it, Cleared  *)
(* that the document is where the commit needs it, Vetted that no other    *)
(* opening stands.                                                         *)
(***************************************************************************)

\* A request that writes lines carries a line list, and every operation but
\* the cancel and the sale is one of stock vouchers.
Carries(r) ==
  /\ op[r] \in {"save", "savePost", "sale"} => form[r] \in Sheet
  /\ op[r] \notin {"sale", "cancel"} => IsVoucher(doc[r])

Carried == \A r \in Req : pc[r] # "idle" => Carries(r)

\* Every document that exists has the lines of a save.
Listed == \A d \in Doc : status[d] # "ABSENT" => lines[d] \in Sheet

SheetInv == StatusInv /\ Carried /\ Listed

-----------------------------------------------------------------------------
\* A step of q leaves it with a line list if it needs one.
LEMMA OwnCarries ==
  ASSUME LockInv, Carried, NEW q \in Req, Arrival(q) \/ Advance(q) \/ Abort(q), pc'[q] # "idle"
  PROVE  Carries(q)'
<1> USE DEF LockInv
<1>0. ~Rollback(q) /\ ~Commit(q)
  BY DEF Rollback, Release, Commit, CommitSave, CommitPost, CommitCancelDraft, CommitCancel,
         CommitDelete, TypeOK
<1>1. CASE Arrival(q)
  <2> USE DEF TypeOK, Arrive, Carries
  <2> PICK d \in Doc :
        \/ \E o \in Op, f \in Sheet : Create(q, d, o, f) \/ SaveRequest(q, d, o, f)
        \/ \E f \in Sheet : SaleRequest(q, d, f)
        \/ PostRequest(q, d) \/ CancelRequest(q, d) \/ DeleteRequest(q, d) \/ SaleCancelRequest(q, d)
    BY <1>1 DEF Arrival
  <2>1. CASE \E o \in Op, f \in Sheet : Create(q, d, o, f)
    BY <2>1 DEF Create
  <2>2. CASE \E o \in Op, f \in Sheet : SaveRequest(q, d, o, f)
    BY <2>2 DEF SaveRequest
  <2>3. CASE PostRequest(q, d) \/ CancelRequest(q, d) \/ DeleteRequest(q, d) \/ SaleCancelRequest(q, d)
    BY <2>3 DEF PostRequest, CancelRequest, DeleteRequest, SaleCancelRequest
  <2>4. CASE \E f \in Sheet : SaleRequest(q, d, f)
    BY <2>4 DEF SaleRequest
  <2>5. QED BY <2>1, <2>2, <2>3, <2>4
<1>2. CASE Advance(q)
  <2>1. pc[q] # "idle" /\ UNCHANGED <<op, doc, form>>
    BY <1>0, <1>2, ApplyEffect DEF Advance, LockHeader, LockItem, ItemsLocked, Preflight, Apply,
                                   Computed, reqs
  <2>2. QED BY <2>1 DEF Carried, Carries
<1>3. QED BY <1>0, <1>1, <1>2 DEF Abort

\* The lines a post lands with are a line list.
LEMMA ActingListed ==
  ASSUME SheetInv, NEW q \in Req, CommitPost(q)
  PROVE  Acting(q) \in Sheet
<1>1. pc[q] = "commit" /\ op[q] \in {"post", "savePost", "sale"} /\ doc[q] \in Doc
  BY DEF CommitPost, SheetInv, StatusInv, LockInv, TypeOK
<1>2. CASE op[q] = "post"
  <2>1. status[doc[q]] = "DRAFT"
    BY <1>1, <1>2 DEF SheetInv, StatusInv, Cleared, ClearedFor
  <2>2. QED BY <1>1, <1>2, <2>1 DEF SheetInv, Listed, Acting
<1>3. CASE op[q] # "post"
  BY <1>1, <1>3 DEF SheetInv, Carried, Carries, Acting
<1>4. QED BY <1>2, <1>3

\* Every step keeps the documents' lines line lists.
LEMMA SheetStep == SheetInv /\ [Next]_vars => SheetInv'
<1> SUFFICES ASSUME SheetInv, [Next]_vars PROVE SheetInv'
  OBVIOUS
<1>0. StatusInv' /\ LockInv /\ TypeOK
  BY StatusStep DEF SheetInv, StatusInv, LockInv
<1>1. CASE UNCHANGED vars
  BY <1>0, <1>1 DEF vars, rows, reqs, SheetInv, Carried, Carries, Listed
<1>2. ASSUME NEW q \in Req, Arrival(q) \/ Advance(q) \/ Abort(q) PROVE SheetInv'
  <2>1. Carried'
    <3> SUFFICES ASSUME NEW r \in Req, pc'[r] # "idle" PROVE Carries(r)'
      BY DEF Carried
    <3>1. CASE r = q
      BY <1>0, <1>2, <3>1, OwnCarries DEF SheetInv
    <3>2. CASE r # q
      <4>1. Kept(r)
        BY <1>0, <1>2, <3>2, StepKeeps
      <4>2. QED BY <4>1 DEF Kept, SheetInv, Carried, Carries
    <3>3. QED BY <3>1, <3>2
  <2>2. Listed'
    <3>1. CASE UNCHANGED rows
      BY <3>1 DEF rows, SheetInv, Listed
    <3>2. CASE Commit(q)
      <4> SUFFICES ASSUME NEW d \in Doc, status'[d] # "ABSENT" PROVE lines'[d] \in Sheet
        BY DEF Listed
      <4>1. CASE d # doc[q]
        BY <1>0, <3>2, <4>1, OtherRows DEF SheetInv, Listed
      <4>2. CASE d = doc[q]
        <5>0. pc[q] = "commit" /\ ClearedFor(q) /\ Carries(q)
          BY <3>2 DEF Commit, CommitSave, CommitPost, CommitCancelDraft, CommitCancel, CommitDelete,
                      SheetInv, StatusInv, Cleared, Carried
        <5>1. CASE CommitSave(q)
          BY <1>0, <4>2, <5>0, <5>1 DEF CommitSave, Carries, TypeOK
        <5>2. CASE CommitPost(q)
          BY <1>0, <4>2, <5>2, ActingListed DEF CommitPost, TypeOK
        <5>3. CASE CommitCancelDraft(q) \/ CommitCancel(q) \/ CommitDelete(q)
          <6>1. lines' = lines /\ (status[d] # "ABSENT")
            BY <1>0, <4>2, <5>0, <5>3 DEF CommitCancelDraft, CommitCancel, CommitDelete, ClearedFor, TypeOK
          <6>2. QED BY <6>1 DEF SheetInv, Listed
        <5>4. QED BY <3>2, <5>1, <5>2, <5>3 DEF Commit
      <4>3. QED BY <4>1, <4>2
    <3>3. QED BY <1>2, <3>1, <3>2, RowsChange
  <2>3. QED BY <1>0, <2>1, <2>2 DEF SheetInv
<1>3. QED BY <1>1, <1>2 DEF Next

\* The initial state has no document.
LEMMA SheetInit == Init => SheetInv
  BY InitBook DEF BookInv, Init, StatusInv, Cleared, StatusMatchesLedger, SheetInv, Carried, Listed

-----------------------------------------------------------------------------
(* The trail. *)

\* What TrailMatchesHeader says of one document.
Told(d) ==
  /\ trail[d]["CREATED"] = (IF status[d] = "ABSENT" THEN 0 ELSE 1)
  /\ trail[d]["CANCELLED"] = (IF status[d] = "CANCELLED" THEN 1 ELSE 0)
  /\ status[d] \in {"ABSENT", "DRAFT"} => trail[d]["POSTED"] = 0
  /\ status[d] = "POSTED" => trail[d]["POSTED"] = 1
  /\ trail[d]["POSTED"] = 1 => status[d] = "POSTED" \/ \E i \in Item : ledger[i][d] # NoRow

TrailInv == SheetInv /\ TrailMatchesHeader

\* A commit adds one row per step it logs.
LEMMA LoggedOne ==
  ASSUME TypeOK, NEW d \in Doc, NEW steps, Logged(d, steps)
  PROVE  /\ \A s \in Step : trail'[d][s] = trail[d][s] + (IF s \in steps THEN 1 ELSE 0)
         /\ \A e \in Doc : e # d => trail'[e] = trail[e]
  BY DEF TypeOK, Logged

\* A commit adds to the trail of its own document only.
LEMMA OtherTrail ==
  ASSUME LockInv, NEW q \in Req, Commit(q), NEW d \in Doc, d # doc[q]
  PROVE  trail'[d] = trail[d]
<1>1. doc[q] \in Doc /\ TypeOK
  BY DEF LockInv, TypeOK
<1>2. QED BY <1>1, LoggedOne DEF Commit, CommitSave, CommitPost, CommitCancelDraft, CommitCancel, CommitDelete

\* The cancel of a posted document leaves rows that show it was posted.
LEMMA CancelLeavesRows ==
  ASSUME SheetInv, NEW q \in Req, CommitCancel(q), NEW d \in Doc, d = doc[q]
  PROVE  \E i \in Item : ledger'[i][d] # NoRow
<1>1. /\ TypeOK /\ op[q] = "cancel" /\ Land(q) /\ status[d] = "POSTED"
  BY DEF CommitCancel, SheetInv, StatusInv, LockInv, Cleared, ClearedFor
<1>2. lines[d] \in Sheet /\ \A i \in Item : ledger[i][d] = [fwd |-> lines[d][i], rev |-> 0]
  BY <1>1 DEF SheetInv, StatusInv, StatusMatchesLedger, Listed
<1>3. PICK i \in Item : lines[d][i] # 0
  BY <1>2, SheetAssumption
<1>4. ledger[i][d].fwd = lines[d][i]
  <2>1. [fwd |-> lines[d][i], rev |-> 0].fwd = lines[d][i]
    OBVIOUS
  <2>2. QED BY <1>2, <2>1, Zenon
<1>5. i \in Need(q)
  BY <1>1, <1>3, <1>4 DEF Need
<1>6. ledger'[i][d] = Mirror(ledger[i][d])
  BY <1>1, <1>5 DEF Land, Seen, NewRow, TypeOK
<1>7. ledger'[i][d].fwd # 0
  BY <1>3, <1>4, <1>6 DEF Mirror
<1>8. QED BY <1>7 DEF NoRow

\* A commit leaves the trail of its own document in step with its header.
LEMMA OwnTrail ==
  ASSUME TrailInv, NEW q \in Req, Commit(q), NEW d \in Doc, d = doc[q], IsVoucher(d)
  PROVE  Told(d)'
<1>0. /\ TypeOK /\ SheetInv /\ Told(d) /\ pc[q] = "commit" /\ ClearedFor(q) /\ RightKind(q)
      /\ status[d] \in Status /\ \A s \in Step : trail[d][s] \in Nat
  BY DEF TrailInv, SheetInv, StatusInv, LockInv, TypeOK, TrailMatchesHeader, Told, Cleared, Commit,
         CommitSave, CommitPost, CommitCancelDraft, CommitCancel, CommitDelete
<1>1. CASE CommitSave(q)
  <2>1. status[d] \in {"ABSENT", "DRAFT"} /\ status'[d] = "DRAFT"
    BY <1>0, <1>1 DEF CommitSave, ClearedFor, TypeOK
  <2>2. \A s \in Step : trail'[d][s] = trail[d][s] +
          (IF s \in (IF status[d] = "ABSENT" THEN {"CREATED"} ELSE {}) THEN 1 ELSE 0)
    BY <1>0, <1>1, LoggedOne DEF CommitSave
  <2>3. CASE status[d] = "ABSENT"
    <3>1. \A s \in Step : trail'[d][s] = trail[d][s] + (IF s \in {"CREATED"} THEN 1 ELSE 0)
      BY <2>2, <2>3
    <3>2. QED BY <1>0, <2>1, <2>3, <3>1 DEF Told, Step
  <2>4. CASE status[d] = "DRAFT"
    <3>1. \A s \in Step : trail'[d][s] = trail[d][s]
      BY <1>0, <2>2, <2>4
    <3>2. QED BY <1>0, <2>1, <2>4, <3>1 DEF Told, Step
  <2>5. QED BY <2>1, <2>3, <2>4
<1>2. CASE CommitPost(q)
  <2>1. status[d] \in {"ABSENT", "DRAFT"} /\ status'[d] = "POSTED" /\ op[q] # "sale"
    BY <1>0, <1>2 DEF CommitPost, ClearedFor, RightKind, TypeOK
  <2>2. Logged(d, {"POSTED"} \cup (IF status[d] = "ABSENT" THEN {"CREATED"} ELSE {}))
    BY <1>2, <2>1 DEF CommitPost
  <2>3. \A s \in Step : trail'[d][s] = trail[d][s] +
          (IF s \in {"POSTED"} \cup (IF status[d] = "ABSENT" THEN {"CREATED"} ELSE {}) THEN 1 ELSE 0)
    BY <1>0, <2>2, LoggedOne
  <2>4. QED BY <1>0, <2>1, <2>3 DEF Told, Step
<1>3. CASE CommitCancelDraft(q)
  <2>1. status[d] = "DRAFT" /\ status'[d] = "CANCELLED"
    BY <1>0, <1>3 DEF CommitCancelDraft, ClearedFor, TypeOK
  <2>2. \A s \in Step : trail'[d][s] = trail[d][s] + (IF s \in {"CANCELLED"} THEN 1 ELSE 0)
    BY <1>0, <1>3, LoggedOne DEF CommitCancelDraft
  <2>3. QED BY <1>0, <2>1, <2>2 DEF Told, Step
<1>4. CASE CommitCancel(q)
  <2>1. status[d] = "POSTED" /\ status'[d] = "CANCELLED"
    BY <1>0, <1>4 DEF CommitCancel, ClearedFor, TypeOK
  <2>2. Logged(d, {"CANCELLED"})
    BY <1>4 DEF CommitCancel
  <2>3. \A s \in Step : trail'[d][s] = trail[d][s] + (IF s \in {"CANCELLED"} THEN 1 ELSE 0)
    BY <1>0, <2>2, LoggedOne
  <2>4. \E i \in Item : ledger'[i][d] # NoRow
    BY <1>0, <1>4, CancelLeavesRows
  <2>5. QED BY <1>0, <2>1, <2>3, <2>4 DEF Told, Step
<1>5. CASE CommitDelete(q)
  BY <1>0, <1>5 DEF CommitDelete, Told
<1>6. QED BY <1>1, <1>2, <1>3, <1>4, <1>5 DEF Commit

\* Every step keeps the trail in step with the headers.
LEMMA TrailStep == TrailInv /\ [Next]_vars => TrailInv'
<1> SUFFICES ASSUME TrailInv, [Next]_vars PROVE TrailInv'
  OBVIOUS
<1>0. SheetInv' /\ LockInv
  BY SheetStep DEF TrailInv, SheetInv, StatusInv
<1>1. CASE UNCHANGED rows
  BY <1>0, <1>1 DEF rows, TrailInv, TrailMatchesHeader
<1>2. ASSUME NEW q \in Req, Commit(q) PROVE TrailInv'
  <2> SUFFICES ASSUME NEW d \in Doc, IsVoucher(d) PROVE Told(d)'
    BY <1>0 DEF TrailInv, TrailMatchesHeader, Told
  <2>1. CASE d = doc[q]
    BY <1>2, <2>1, OwnTrail
  <2>2. CASE d # doc[q]
    <3>1. Told(d)
      BY DEF TrailInv, TrailMatchesHeader, Told
    <3>2. QED BY <1>0, <1>2, <2>2, <3>1, OtherRows, OtherTrail DEF Told
  <2>3. QED BY <2>1, <2>2
<1>3. QED BY <1>1, <1>2, RowsChange DEF Next, vars

\* txn_status_log tells the story of every stock voucher's header, whatever
\* requests race for it.
THEOREM TrailFollowsHeader == Spec => []TrailMatchesHeader
<1>1. Init => TrailInv
  BY SheetInit DEF Init, TrailInv, TrailMatchesHeader, Step, NoRow
<1>2. TrailInv => TrailMatchesHeader
  BY DEF TrailInv
<1>3. QED BY <1>1, <1>2, TrailStep, PTL DEF Spec

-----------------------------------------------------------------------------
(* The refinement. *)

\* What a document has in the book now: forward rows less their mirrors.
Net(d, i) == ledger[i][d].fwd + ledger[i][d].rev
Entry == [d \in Doc |-> [i \in Item |-> Net(d, i)]]

RefineInv == BookInv /\ OpenInv /\ SheetInv

\* Rows of a document are integers, and so is their net.
LEMMA NetType ==
  ASSUME TypeOK, NEW d \in Doc, NEW i \in Item
  PROVE  Net(d, i) \in Int /\ onHand[i] \in Int
  BY DEF TypeOK, Row, Net

\* The rebuilt sum is the old balance with the document's rows exchanged.
LEMMA Rebuilt ==
  ASSUME BookInv, NEW r \in Req, NEW i \in Item
  PROVE  OnHandOf(Seen(r, i)) = onHand[i] - Net(doc[r], i) + (NewRow(r, i).fwd + NewRow(r, i).rev)
<1> DEFINE d == doc[r]
           new == NewRow(r, i)
           f == [e \in Doc |-> ledger[i][e].fwd + ledger[i][e].rev]
           v == new.fwd + new.rev
           g == [e \in Doc |-> Seen(r, i)[e].fwd + Seen(r, i)[e].rev]
<1>0. TypeOK /\ d \in Doc /\ new \in Row /\ IsFiniteSet(Doc)
  BY SeenType, DocAssumption DEF BookInv, LockInv, TypeOK
<1>1. f \in [Doc -> Int] /\ v \in Int
  BY <1>0 DEF TypeOK, Row
<1>2. g = [f EXCEPT ![d] = v]
  <2> HIDE DEF new, d
  <2>1. Seen(r, i) = [ledger[i] EXCEPT ![d] = new]
    BY DEF Seen, new, d
  <2>2. \A e \in Doc : Seen(r, i)[e] = IF e = d THEN new ELSE ledger[i][e]
    BY <1>0, <2>1 DEF TypeOK
  <2>3. QED BY <1>0, <2>2
<1>3. onHand[i] = SumFunction(f)
  BY DEF BookInv, OnHandIsLedger, OnHandOf
<1>4. f[d] = Net(doc[r], i)
  BY <1>0 DEF Net
<1>5. OnHandOf(Seen(r, i)) = SumFunction(g)
  BY DEF OnHandOf
<1> HIDE DEF f, g, v
<1>6. SumFunction([f EXCEPT ![d] = v]) = SumFunction(f) - f[d] + v
  <2> HIDE DEF d
  <2>1. QED BY <1>0, <1>1, SumUpdate
<1>7. QED BY <1>2, <1>3, <1>4, <1>5, <1>6 DEF v

\* A document with no unreversed row on an item has nothing there.
LEMMA NothingStands ==
  ASSUME StatusInv, NEW e \in Doc, NEW i \in Item, ~Unreversed(i, e)
  PROVE  Net(e, i) = 0
<1>1. status[e] \in Status /\ ledger[i][e] \in Row /\ lines[e][i] \in Int
  BY DEF StatusInv, LockInv, TypeOK
<1>2. CASE status[e] \in {"ABSENT", "DRAFT"}
  <2>1. ledger[i][e] = NoRow
    BY <1>2 DEF StatusInv, StatusMatchesLedger
  <2>2. QED BY <2>1 DEF Net, NoRow
<1>3. CASE status[e] = "POSTED"
  <2>1. ledger[i][e] = [fwd |-> lines[e][i], rev |-> 0]
    BY <1>3 DEF StatusInv, StatusMatchesLedger
  <2>2. ledger[i][e].rev = 0
    BY <2>1
  <2>3. QED BY <1>1, <2>2 DEF Net, Unreversed, Row
<1>4. CASE status[e] = "CANCELLED"
  BY <1>4 DEF StatusInv, StatusMatchesLedger, Net
<1>5. QED BY <1>1, <1>2, <1>3, <1>4 DEF Status

\* A row without a mirror nets to its quantity.
LEMMA ForwardRow ==
  ASSUME NEW x \in Int
  PROVE  [fwd |-> x, rev |-> 0].fwd + [fwd |-> x, rev |-> 0].rev = x
  OBVIOUS

\* A commit of one document leaves the entries of the others.
LEMMA EntryOthers ==
  ASSUME RefineInv, NEW q \in Req, Commit(q), NEW d \in Doc, d = doc[q],
         NEW f \in [Item -> Int], \A i \in Item : Net(d, i)' = f[i]
  PROVE  Entry' = [Entry EXCEPT ![d] = f]
<1>1. LockInv
  BY DEF RefineInv, BookInv
<1>2. \A e \in Doc, i \in Item : e # d => Net(e, i)' = Net(e, i)
  BY <1>1, OtherRows DEF Net
<1>3. ASSUME NEW e \in Doc PROVE Entry'[e] = [Entry EXCEPT ![d] = f][e]
  <2>1. CASE e = d
    BY <2>1 DEF Entry
  <2>2. CASE e # d
    BY <1>2, <2>2 DEF Entry
  <2>3. QED BY <2>1, <2>2
<1>4. QED BY <1>3 DEF Entry

\* A post enters the document, all of its lines at once.
LEMMA PostEnters ==
  ASSUME RefineInv, NEW q \in Req, CommitPost(q), NEW d \in Doc, d = doc[q],
         NEW f, f = Acting(q)
  PROVE  f \in Sheet /\ Book!Enter(d, f)
<1>0. /\ TypeOK /\ LockInv /\ StatusInv /\ d \in Doc /\ Commit(q) /\ Land(q)
      /\ pc[q] = "commit" /\ op[q] \in {"post", "savePost", "sale"} /\ Moves(op[q])
      /\ ClearedFor(q) /\ RightKind(q)
  BY DEF RefineInv, BookInv, SheetInv, StatusInv, LockInv, TypeOK, CommitPost, Commit, Moves, Cleared
<1>1. f \in Sheet /\ f \in [Item -> Int]
  BY ActingListed, SheetAssumption DEF RefineInv
<1>2. status[d] \in {"ABSENT", "DRAFT"} /\ status' = [status EXCEPT ![d] = "POSTED"]
  BY <1>0 DEF ClearedFor, CommitPost
<1>3. \A i \in Item : ledger[i][d] = NoRow /\ Net(d, i) = 0
  <2>1. \A i \in Item : ledger[i][d] = NoRow
    BY <1>0, <1>2 DEF StatusInv, StatusMatchesLedger
  <2>2. QED BY <2>1 DEF Net, NoRow
<1>4. \A i \in Item : i \in Need(q) <=> f[i] # 0
  BY <1>0 DEF Need
<1>5. ASSUME NEW i \in Item, i \in Need(q)
      PROVE  /\ NewRow(q, i) = [fwd |-> f[i], rev |-> 0]
             /\ calc[q][i] = onHand[i] + f[i]
             /\ Refuses(q, i) => onHand[i] + f[i] >= 0
  <2>1. NewRow(q, i) = [fwd |-> f[i], rev |-> 0]
    BY <1>0 DEF NewRow
  <2>2. calc[q][i] = OnHandOf(Seen(q, i)) /\ (Refuses(q, i) => ~(calc[q][i] < 0))
    BY <1>0, <1>5 DEF RefineInv, BookInv, Fresh
  <2>3. OnHandOf(Seen(q, i)) = onHand[i] - Net(d, i) + (NewRow(q, i).fwd + NewRow(q, i).rev)
    BY Rebuilt DEF RefineInv
  <2>4. NewRow(q, i).fwd + NewRow(q, i).rev = f[i] /\ f[i] \in Int /\ onHand[i] \in Int
    <3>1. f[i] \in Int /\ onHand[i] \in Int
      BY <1>0, <1>1 DEF TypeOK
    <3>2. QED BY <2>1, <3>1
  <2>5. calc[q][i] = onHand[i] + f[i]
    BY <1>3, <2>2, <2>3, <2>4
  <2>6. QED BY <2>1, <2>2, <2>4, <2>5
<1>6. ASSUME NEW i \in Item PROVE onHand'[i] = onHand[i] + f[i] /\ Net(d, i)' = f[i]
  <2>0. f[i] \in Int /\ onHand[i] \in Int
    BY <1>0, <1>1 DEF TypeOK
  <2>1. CASE i \in Need(q)
    <3>1. onHand'[i] = calc[q][i] /\ ledger'[i][d] = [fwd |-> f[i], rev |-> 0]
      BY <1>0, <1>5, <2>1 DEF Land, Seen, TypeOK
    <3>2. Net(d, i)' = f[i]
      BY <2>0, <3>1, ForwardRow, Zenon DEF Net
    <3>3. QED BY <1>5, <2>1, <3>1, <3>2
  <2>2. CASE i \notin Need(q)
    <3>1. onHand'[i] = onHand[i] /\ ledger'[i][d] = NoRow /\ f[i] = 0
      BY <1>0, <1>3, <1>4, <2>2 DEF Land
    <3>2. Net(d, i)' = 0
      BY <3>1 DEF Net, NoRow
    <3>3. QED BY <2>0, <3>1, <3>2
  <2>3. QED BY <2>1, <2>2
<1>7. onHand' = [i \in Item |-> onHand[i] + f[i]]
  <2>1. onHand' = [i \in Item |-> onHand'[i]]
    BY <1>0 DEF Land
  <2>2. QED BY <1>6, <2>1
<1>8. Entry' = [Entry EXCEPT ![d] = f]
  <2>1. QED BY <1>0, <1>1, <1>6, EntryOthers
<1>9. Book!FirstOpening(d, f)
  <2> SUFFICES ASSUME KindOf[d] = "OPENING", NEW e \in Doc \ {d}, NEW i \in Item,
                      KindOf[e] = "OPENING", f[i] # 0
               PROVE  Net(e, i) = 0
    BY DEF Book!FirstOpening, Net
  <2>1. op[q] \in {"post", "savePost"}
    BY <1>0 DEF RightKind, IsVoucher
  <2>2. ~AlreadyOpened(q)
    BY <1>0, <2>1 DEF RefineInv, OpenInv, Vetted
  <2>3. ~Unreversed(i, e)
    BY <1>4, <2>2 DEF AlreadyOpened
  <2>4. QED BY <1>0, <2>3, NothingStands
<1>10. Book!Allowed(f, KindOf[d] = "ADJUST")
  <2> SUFFICES ASSUME NEW i \in Item, f[i] # 0, KindOf[d] = "ADJUST" \/ Policy[i] = "BLOCK"
               PROVE  onHand[i] + f[i] >= 0
    BY DEF Book!Allowed
  <2>1. Refuses(q, i)
    BY <1>0 DEF Refuses, ForceBlock
  <2>2. QED BY <1>4, <1>5, <2>1
<1>11. QED
  <2>1. QED BY <1>1, <1>2, <1>7, <1>8, <1>9, <1>10 DEF Book!Enter, Entry, Net

\* A cancel strikes the document out, all of its lines at once.
LEMMA CancelStrikes ==
  ASSUME RefineInv, NEW q \in Req, CommitCancel(q), NEW d \in Doc, d = doc[q]
  PROVE  Book!Strike(d)
<1>0. /\ TypeOK /\ LockInv /\ StatusInv /\ Commit(q) /\ Land(q)
      /\ pc[q] = "commit" /\ op[q] = "cancel" /\ Moves(op[q])
  BY DEF RefineInv, BookInv, SheetInv, StatusInv, LockInv, TypeOK, CommitCancel, Commit, Moves
<1>1. status[d] = "POSTED" /\ status' = [status EXCEPT ![d] = "CANCELLED"]
  BY <1>0 DEF StatusInv, Cleared, ClearedFor, CommitCancel
<1>2. ASSUME NEW i \in Item
      PROVE  /\ lines[d][i] \in Int /\ onHand[i] \in Int
             /\ ledger[i][d] = [fwd |-> lines[d][i], rev |-> 0]
             /\ ledger[i][d].fwd = lines[d][i] /\ Net(d, i) = lines[d][i]
  <2>1. ledger[i][d] = [fwd |-> lines[d][i], rev |-> 0]
    BY <1>0, <1>1 DEF StatusInv, StatusMatchesLedger
  <2>2. lines[d][i] \in Int /\ onHand[i] \in Int
    BY <1>0 DEF TypeOK
  <2>3. [fwd |-> lines[d][i], rev |-> 0].fwd = lines[d][i]
    OBVIOUS
  <2>4. ledger[i][d].fwd = lines[d][i]
    BY <2>1, <2>3, Zenon
  <2>5. Net(d, i) = lines[d][i]
    BY <2>1, <2>2, ForwardRow, Zenon DEF Net
  <2>6. QED BY <2>1, <2>2, <2>4, <2>5
<1>3. \A i \in Item : i \in Need(q) <=> Net(d, i) # 0
  BY <1>0, <1>2 DEF Need
<1>ints. \A i \in Item : Net(d, i) \in Int /\ onHand[i] \in Int
  BY <1>0, NetType
<1>4. ASSUME NEW i \in Item, i \in Need(q)
      PROVE  /\ calc[q][i] = onHand[i] - Net(d, i)
             /\ Refuses(q, i) => onHand[i] - Net(d, i) >= 0
  <2>0. calc[q][i] = OnHandOf(Seen(q, i)) /\ (Refuses(q, i) => ~(calc[q][i] < 0))
    BY <1>0, <1>4 DEF RefineInv, BookInv, Fresh
  <2>1. NewRow(q, i).fwd = Net(d, i) /\ NewRow(q, i).rev = 0 - Net(d, i)
    <3>1. NewRow(q, i) = [fwd |-> Net(d, i), rev |-> 0 - Net(d, i)]
      BY <1>0, <1>2 DEF NewRow, Mirror
    <3>2. QED BY <3>1
  <2>2. OnHandOf(Seen(q, i)) = onHand[i] - Net(d, i) + (NewRow(q, i).fwd + NewRow(q, i).rev)
    BY Rebuilt DEF RefineInv
  <2>3. QED BY <1>ints, <2>0, <2>1, <2>2
<1>5. ASSUME NEW i \in Item PROVE onHand'[i] = onHand[i] - Net(d, i)
  <2>1. CASE i \in Need(q)
    BY <1>0, <1>4, <2>1 DEF Land
  <2>2. CASE i \notin Need(q)
    BY <1>0, <1>ints, <1>3, <2>2 DEF Land
  <2>3. QED BY <2>1, <2>2
<1>6. onHand' = [i \in Item |-> onHand[i] - Net(d, i)]
  <2>1. onHand' = [i \in Item |-> onHand'[i]]
    BY <1>0 DEF Land
  <2>2. QED BY <1>5, <2>1
<1>7. Entry' = [Entry EXCEPT ![d] = [i \in Item |-> 0]]
  <2>1. Matches(d)' /\ status'[d] = "CANCELLED"
    BY <1>0, <1>1, OwnRows DEF TypeOK
  <2>2. \A i \in Item : Net(d, i)' = 0
    BY <2>1 DEF Matches, Net
  <2>3. QED BY <1>0, <2>2, EntryOthers
<1>8. Book!Allowed([i \in Item |-> 0 - Entry[d][i]], KindOf[d] # "SALE")
  <2> SUFFICES ASSUME NEW i \in Item, 0 - Net(d, i) # 0, KindOf[d] # "SALE" \/ Policy[i] = "BLOCK"
               PROVE  onHand[i] + (0 - Net(d, i)) >= 0
    BY DEF Book!Allowed, Entry
  <2>1. i \in Need(q)
    BY <1>ints, <1>3
  <2>2. Refuses(q, i)
    BY <1>0 DEF Refuses, ForceBlock, IsVoucher
  <2>3. QED BY <1>ints, <1>4, <2>1, <2>2
<1>9. onHand' = [i \in Item |-> onHand[i] - Entry[d][i]]
  BY <1>6 DEF Entry
<1>10. QED BY <1>1, <1>7, <1>8, <1>9 DEF Book!Strike, Book!Nothing, Entry, Net

\* Every commit is a step of the book or changes nothing in it.
LEMMA CommitInBook ==
  ASSUME RefineInv, NEW q \in Req, Commit(q)
  PROVE  Book!Next \/ UNCHANGED <<status, Entry, onHand>>
<1>1. PICK d \in Doc : d = doc[q]
  BY DEF RefineInv, BookInv, LockInv, TypeOK
<1>2. CASE CommitPost(q)
  <2>1. PICK f : f = Acting(q)
    OBVIOUS
  <2>2. f \in Sheet /\ Book!Enter(d, f)
    BY <1>1, <1>2, <2>1, PostEnters
  <2>3. QED BY <2>2 DEF Book!Next
<1>3. CASE CommitCancel(q)
  <2>1. Book!Strike(d)
    BY <1>1, <1>3, CancelStrikes
  <2>2. QED BY <2>1 DEF Book!Next
<1>4. ASSUME CommitSave(q) \/ CommitCancelDraft(q) \/ CommitDelete(q)
      PROVE  Book!Next \/ UNCHANGED <<status, Entry, onHand>>
  <2>0. /\ TypeOK /\ pc[q] = "commit" /\ ClearedFor(q) /\ Carries(q)
        /\ UNCHANGED <<Entry, onHand>>
    BY <1>4 DEF CommitSave, CommitCancelDraft, CommitDelete, RefineInv, BookInv, LockInv, OpenInv, Cleared,
                SheetInv, Carried, Entry, Net
  <2>1. CASE CommitSave(q)
    <3>1. status' = [status EXCEPT ![d] = "DRAFT"] /\ status[d] \in {"ABSENT", "DRAFT"}
      BY <1>1, <2>0, <2>1 DEF CommitSave, ClearedFor
    <3>2. CASE status[d] = "ABSENT"
      <4>1. KindOf[d] # "SALE"
        BY <1>1, <2>0, <2>1 DEF CommitSave, Carries, IsVoucher
      <4>2. Book!Draft(d)
        BY <2>0, <3>1, <3>2, <4>1 DEF Book!Draft, Entry, Net
      <4>3. QED BY <4>2 DEF Book!Next
    <3>3. CASE status[d] = "DRAFT"
      BY <2>0, <3>1, <3>3 DEF TypeOK
    <3>4. QED BY <3>1, <3>2, <3>3
  <2>2. CASE CommitCancelDraft(q)
    <3>1. Book!Void(d)
      BY <1>1, <2>0, <2>2 DEF CommitCancelDraft, ClearedFor, Book!Void, Entry, Net
    <3>2. QED BY <3>1 DEF Book!Next
  <2>3. CASE CommitDelete(q)
    BY <2>0, <2>3 DEF CommitDelete
  <2>4. QED BY <1>4, <2>1, <2>2, <2>3
<1>5. QED BY <1>2, <1>3, <1>4 DEF Commit

\* The requests, their locks, ledgers and rebuilds implement the book: a
\* document's lines enter it once and leave it once, whole, and the balance a
\* transaction rebuilt is the one that adding and subtracting would give.
THEOREM ImplementsBook == Spec => RefinesBook
<1>1. Init => Book!Init
  <2> SUFFICES ASSUME Init PROVE Book!Init
    OBVIOUS
  <2>1. Entry = [d \in Doc |-> [i \in Item |-> 0]]
    BY DEF Init, Entry, Net, NoRow
  <2>2. QED BY <2>1 DEF Init, Book!Init, Book!Nothing, NoLines, Entry, Net
<1>2. RefineInv /\ [Next]_vars => [Book!Next]_(Book!bookVars)
  <2> SUFFICES ASSUME RefineInv, [Next]_vars
               PROVE  Book!Next \/ UNCHANGED <<status, Entry, onHand>>
    BY DEF Book!bookVars, Entry, Net
  <2>1. CASE UNCHANGED rows
    BY <2>1 DEF rows, Entry, Net
  <2>2. ASSUME NEW q \in Req, Commit(q)
        PROVE  Book!Next \/ UNCHANGED <<status, Entry, onHand>>
    BY <2>2, CommitInBook
  <2>3. QED BY <2>1, <2>2, RowsChange DEF Next, vars
<1>3. Init => RefineInv
  BY InitBook, SheetInit DEF RefineInv, BookInv, Init, OpenInv, Cleared, Vetted, OpenedOnce, Unreversed, NoRow
<1>4. RefineInv /\ [Next]_vars => RefineInv'
  BY BookStep, OpenStep, SheetStep DEF RefineInv
<1>5. QED BY <1>1, <1>2, <1>3, <1>4, PTL DEF Spec, RefinesBook, Book!Spec

=============================================================================
