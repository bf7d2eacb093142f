-------------------------- MODULE StockCountProofs --------------------------
(***************************************************************************)
(* Proofs about StockCount, for every set of sheets, movements, figures    *)
(* and requests.                                                           *)
(*                                                                         *)
(* The sheet's row lock keeps its status and its figures as they were      *)
(* checked; the item's lock keeps the holding, so that the book figure the *)
(* drift check compared is still the holding when the variance is written. *)
(***************************************************************************)
EXTENDS StockCount, SumLemmas

-----------------------------------------------------------------------------
(* The inductive invariant. *)

\* A post, of a saved sheet or of one saved with it.
Posts(r) == op[r] \in {"post", "savePost"}

\* r has its sheet locked.
HasSheet(r) ==
  /\ op[r] # "move"
  /\ \/ pc[r] \in {"freeze", "book", "item", "drift", "apply", "commit"}
     \/ pc[r] = "guard" /\ Posts(r)

\* r has the item locked, unless it has nothing to write.
HasItem(r) ==
  \/ pc[r] \in {"drift", "apply"}
  \/ pc[r] = "guard" /\ Posts(r)
  \/ pc[r] = "commit" /\ (Posts(r) \/ op[r] \in {"cancel", "move"})

Writes(r) == op[r] # "cancel" \/ Delta(r) # 0

\* The document and the operation a step is for.
StageOf(r) ==
  /\ doc[r] \in IF op[r] = "move" THEN Move ELSE Sheet
  /\ pc[r] \in {"freeze", "book"} => op[r] \in {"save", "savePost"}
  /\ pc[r] \in {"item", "guard", "apply"} => Posts(r) \/ op[r] \in {"cancel", "move"}
  /\ pc[r] = "drift" => Posts(r)
  /\ pc[r] = "later" => op[r] = "cancel"
  /\ op[r] = "move" => pc[r] \notin {"idle", "lock"}

LocksOf(r) ==
  /\ HasSheet(r) => hdrLock[doc[r]] = r
  /\ HasItem(r) /\ Writes(r) => itemLock = r

\* What was read of the sheet under its lock still holds.
CheckedOf(r) ==
  HasSheet(r) =>
    /\ op[r] \in {"save", "savePost", "post", "cancelDraft"} => status[doc[r]] \in {"ABSENT", "DRAFT"}
    /\ op[r] = "cancel" => status[doc[r]] = "POSTED"

\* What was read of the holding under the item's lock still holds.
FreshOf(r) ==
  /\ pc[r] = "commit" /\ (Posts(r) \/ op[r] \in {"cancel", "move"}) /\ Writes(r) =>
       calc[r] = onHand + Delta(r)
  /\ Posts(r) /\ pc[r] \in {"guard", "apply", "commit"} => BookOf(r) = onHand

\* A movement lands once.
OnceOf(r) ==
  op[r] = "move" =>
    /\ doc[r] \notin moved
    /\ \A q \in Req \ {r} : op[q] = "move" => doc[q] # doc[r]

StageInv == TypeOK /\ \A r \in Req : StageOf(r)
CountInv == StageInv /\ \A r \in Req : LocksOf(r) /\ CheckedOf(r) /\ FreshOf(r)
SumInv == CountInv /\ (\A r \in Req : OnceOf(r)) /\ BookIsSum

-----------------------------------------------------------------------------
(* Steps. *)

\* What an arriving request may be, and where it starts.
Start(r, d, o, f, next) ==
  /\ Arrive(r, d, o, f, next)
  /\ \/ /\ o \in {"save", "savePost", "post", "cancelDraft", "delete"} /\ d \in Sheet
        /\ next = "lock" /\ hdrLock' = hdrLock
     \/ /\ o \in {"save", "savePost"} /\ d \in Sheet /\ next = "freeze"
        /\ status[d] = "ABSENT" /\ hdrLock[d] = None /\ hdrLock' = [hdrLock EXCEPT ![d] = r]
     \/ o = "cancel" /\ d \in Sheet /\ next = "later" /\ hdrLock' = hdrLock
     \/ /\ o = "move" /\ d \in Move /\ next = "guard" /\ hdrLock' = hdrLock
        /\ d \notin moved /\ \A q \in Req : pc[q] = "idle" \/ doc[q] # d

Starts(r) == \E d \in Sheet \cup Move, o \in Op, f \in Slip, next \in Pc : Start(r, d, o, f, next)

\* The sheet's row is locked and may be written.
Grant(r) ==
  /\ pc[r] = "lock" /\ hdrLock[doc[r]] = None
  /\ HeaderOk(r) \/ op[r] = "delete"
  /\ hdrLock' = [hdrLock EXCEPT ![doc[r]] = r]
  /\ pc' = [pc EXCEPT ![r] = CASE op[r] \in {"save", "savePost"} -> "freeze"
                               [] op[r] \in {"post", "cancel"} -> "item"
                               [] OTHER -> "commit"]
  /\ UNCHANGED <<rows, clock, itemLock, op, doc, form, began, calc>>

\* A check is passed: only the step changes.
Passes(r) ==
  /\ \/ pc[r] = "freeze" /\ pc' = [pc EXCEPT ![r] = "book"]
     \/ pc[r] = "drift" /\ ~Drifted(r) /\ pc' = [pc EXCEPT ![r] = "guard"]
     \/ pc[r] = "later" /\ pc' = [pc EXCEPT ![r] = "guard"]
     \/ /\ pc[r] = "guard"
        /\ pc' = [pc EXCEPT ![r] = CASE op[r] = "move" -> "item"
                                     [] op[r] = "cancel" -> "lock"
                                     [] OTHER -> "apply"]
  /\ UNCHANGED <<rows, clock, locks, op, doc, form, began, calc>>

\* The holding is rebuilt from what the lock keeps.
Computes(r) ==
  /\ pc[r] = "apply"
  /\ calc' = [calc EXCEPT ![r] = onHand + Delta(r)]
  /\ pc' = [pc EXCEPT ![r] = "commit"]
  /\ UNCHANGED <<rows, clock, locks, op, doc, form, began>>

Commits(r) ==
  CommitSave(r) \/ CommitPost(r) \/ CommitCancel(r) \/ CommitDelete(r) \/ CommitMove(r)

Goes(r) ==
  \/ Starts(r) \/ Rollback(r) \/ Grant(r) \/ Passes(r)
  \/ ReadBook(r) \/ LockItem(r) \/ Computes(r) \/ Commits(r)

\* An idle request's fields, and a form as it arrives, have their types.
LEMMA SlipType == AnySheet \in Sheet /\ Blank \in Slip /\ Form \subseteq Slip
<1>1. AnySheet \in Sheet
  BY CountedAssumption DEF AnySheet
<1>2. \A n \in Counted : n \in Int
  BY CountedAssumption
<1>3. \A b \in Freeze : b \in BOOLEAN
  BY InsideAssumption
<1>4. QED BY <1>1, <1>2, <1>3 DEF Blank, Slip, Form

\* Every arrival is one of those.
LEMMA ArrivalStarts ==
  ASSUME NEW r \in Req, Arrival(r)
  PROVE  Starts(r)
<1> USE SlipType DEF Op, Pc
<1>1. ASSUME NEW c \in Sheet, NEW o \in Op, NEW f \in Form, Create(r, c, o, f)
      PROVE  Start(r, c, o, f, "freeze")
  BY <1>1 DEF Create, Start
<1>2. ASSUME NEW c \in Sheet, NEW o \in Op, NEW f \in Form, SaveRequest(r, c, o, f)
      PROVE  Start(r, c, o, f, "lock")
  BY <1>2 DEF SaveRequest, Start
<1>3. ASSUME NEW c \in Sheet, PostRequest(r, c) PROVE Start(r, c, "post", Blank, "lock")
  BY <1>3 DEF PostRequest, Start
<1>4. ASSUME NEW c \in Sheet, CancelRequest(r, c)
      PROVE  Start(r, c, "cancelDraft", Blank, "lock") \/ Start(r, c, "cancel", Blank, "later")
  BY <1>4 DEF CancelRequest, Start
<1>5. ASSUME NEW c \in Sheet, DeleteRequest(r, c) PROVE Start(r, c, "delete", Blank, "lock")
  BY <1>5 DEF DeleteRequest, Start
<1>6. ASSUME NEW m \in Move, MoveRequest(r, m) PROVE Start(r, m, "move", Blank, "guard")
  BY <1>6 DEF MoveRequest, Start
<1>7. CASE \E c \in Sheet : \E o \in Op, f \in Form : Create(r, c, o, f) \/ SaveRequest(r, c, o, f)
  BY <1>1, <1>2, <1>7 DEF Starts
<1>8. CASE \E c \in Sheet : PostRequest(r, c) \/ CancelRequest(r, c) \/ DeleteRequest(r, c)
  BY <1>3, <1>4, <1>5, <1>8 DEF Starts
<1>9. CASE \E m \in Move : MoveRequest(r, m)
  BY <1>6, <1>9 DEF Starts
<1>10. QED BY <1>7, <1>8, <1>9 DEF Arrival

\* Every step of a request is an arrival, a roll back, a lock granted, a check
\* passed, a figure read or written, or a commit.
LEMMA StepGoes ==
  ASSUME NEW r \in Req, Arrival(r) \/ Advance(r) \/ Abort(r)
  PROVE  Goes(r)
<1>1. CASE Arrival(r)
  BY <1>1, ArrivalStarts DEF Goes
<1>2. CASE LockHeader(r)
  BY <1>2 DEF LockHeader, Goto, Goes, Grant, rows
<1>3. CASE CheckFreeze(r) \/ CheckDrift(r) \/ Guard(r) \/ CheckLater(r)
  <2>1. Rollback(r) \/ Passes(r)
    BY <1>3 DEF CheckFreeze, CheckDrift, Guard, CheckLater, Goto, Passes
  <2>2. QED BY <2>1 DEF Goes
<1>4. CASE Apply(r)
  BY <1>4 DEF Apply, Goto, Goes, Computes
<1>5. CASE Abort(r)
  BY <1>5 DEF Abort, Goes
<1>6. CASE ReadBook(r) \/ LockItem(r)
  BY <1>6 DEF Goes
<1>7. CASE CommitSave(r) \/ CommitPost(r) \/ CommitCancel(r) \/ CommitDelete(r) \/ CommitMove(r)
  BY <1>7 DEF Goes, Commits
<1>8. QED BY <1>1, <1>2, <1>3, <1>4, <1>5, <1>6, <1>7 DEF Advance

-----------------------------------------------------------------------------
(* Types. *)

\* The figures a transaction acts on are numbers.
LEMMA FigureType ==
  ASSUME StageInv, NEW r \in Req
  PROVE  /\ form[r].book \in Int /\ form[r].counted \in Int /\ form[r].frozen \in BOOLEAN
         /\ op[r] # "move" => BookOf(r) \in Int /\ CountOf(r) \in Int
         /\ Delta(r) \in Int
<1>1. form[r].book \in Int /\ form[r].counted \in Int /\ form[r].frozen \in BOOLEAN
  BY DEF StageInv, TypeOK, Slip
<1>2. op[r] # "move" => BookOf(r) \in Int /\ CountOf(r) \in Int
  BY <1>1 DEF StageInv, StageOf, TypeOK, BookOf, CountOf
<1>3. op[r] = "move" => Qty[doc[r]] \in Int
  BY QtyAssumption DEF StageInv, StageOf
<1>4. QED BY <1>1, <1>2, <1>3 DEF Delta

\* No request has begun.
LEMMA InitStage == Init => StageInv
<1> SUFFICES ASSUME Init PROVE StageInv
  OBVIOUS
<1>1. TypeOK
  BY SlipType, QtyAssumption, ClockAssumption DEF Init, TypeOK, Pc, Op
<1>2. ASSUME NEW r \in Req PROVE StageOf(r)
  BY <1>2, SlipType DEF Init, StageOf
<1>3. QED BY <1>1, <1>2 DEF StageInv

\* Releasing the locks keeps the types of locks and requests.
LEMMA ReleaseType ==
  ASSUME TypeOK, NEW r \in Req, Release(r)
  PROVE  /\ hdrLock' \in [Sheet -> Req \cup {None}] /\ itemLock' \in Req \cup {None}
         /\ pc' \in [Req -> Pc] /\ op' \in [Req -> Op] /\ doc' \in [Req -> Sheet \cup Move]
         /\ form' \in [Req -> Slip] /\ began' \in [Req -> Nat] /\ calc' \in [Req -> Int]
         /\ clock' \in 0..MaxClock
  BY SlipType DEF TypeOK, Release, Pc, Op

\* A commit keeps the types.
LEMMA CommitType ==
  ASSUME StageInv, NEW r \in Req, Commits(r)
  PROVE  TypeOK'
<1> USE DEF StageInv
<1>0. form[r].book \in Int /\ form[r].counted \in Int /\ form[r].frozen \in BOOLEAN
      /\ calc[r] \in Int /\ began[r] \in Nat
  BY FigureType DEF TypeOK
<1>1. ASSUME WriteSheet(r)
      PROVE  frozen' \in [Sheet -> BOOLEAN] /\ book' \in [Sheet -> Int] /\ counted' \in [Sheet -> Int]
  BY <1>0, <1>1 DEF WriteSheet, TypeOK
<1>2. CASE CommitSave(r)
  BY <1>1, <1>2, ReleaseType DEF CommitSave, TypeOK
<1>3. CASE CommitPost(r)
  <2>1. Cardinality({b \in Sheet : nth[b] > 0}) \in Nat
    <3>1. IsFiniteSet({b \in Sheet : nth[b] > 0})
      BY FiniteAssumption, FS_Subset
    <3>2. QED BY <3>1, FS_CardinalityType
  <2>2. nth' \in [Sheet -> Nat] /\ stamp' \in [Sheet -> Nat] /\ onHand' \in Int
    <3> DEFINE n == 1 + Cardinality({b \in Sheet : nth[b] > 0})
    <3>1. n \in Nat /\ nth' = [nth EXCEPT ![doc[r]] = n]
      BY <1>3, <2>1 DEF CommitPost
    <3> HIDE DEF n
    <3>2. nth' \in [Sheet -> Nat]
      BY <3>1 DEF TypeOK
    <3>3. stamp' \in [Sheet -> Nat] /\ onHand' \in Int
      BY <1>0, <1>3 DEF CommitPost, TypeOK
    <3>4. QED BY <3>2, <3>3
  <2>3. status' \in [Sheet -> {"ABSENT", "DRAFT", "POSTED", "CANCELLED"}]
    BY <1>3 DEF CommitPost, TypeOK
  <2>4. Release(r) /\ WriteSheet(r) /\ UNCHANGED <<deleted, moved>>
    BY <1>3 DEF CommitPost
  <2>5. QED BY <1>1, <2>2, <2>3, <2>4, ReleaseType DEF TypeOK
<1>4. CASE CommitCancel(r)
  BY <1>0, <1>4, ReleaseType DEF CommitCancel, TypeOK
<1>5. CASE CommitDelete(r)
  BY <1>5, ReleaseType DEF CommitDelete, TypeOK
<1>6. CASE CommitMove(r)
  <2>1. doc[r] \in Move
    BY <1>6 DEF CommitMove, StageOf
  <2>2. QED BY <1>0, <1>6, <2>1, ReleaseType DEF CommitMove, TypeOK
<1>7. QED BY <1>2, <1>3, <1>4, <1>5, <1>6 DEF Commits

\* Every step of a request keeps the types.
LEMMA GoesType ==
  ASSUME StageInv, NEW r \in Req, Goes(r)
  PROVE  TypeOK'
<1> USE DEF StageInv
<1>1. CASE Starts(r)
  <2> PICK d \in Sheet \cup Move, o \in Op, f \in Slip, next \in Pc : Start(r, d, o, f, next)
    BY <1>1 DEF Starts
  <2>1. hdrLock' \in [Sheet -> Req \cup {None}]
    BY DEF Start, TypeOK
  <2>2. clock' \in 0..MaxClock /\ began' \in [Req -> Nat]
    BY ClockAssumption DEF Start, Arrive, TypeOK
  <2>3. QED BY <2>1, <2>2 DEF Start, Arrive, TypeOK, rows
<1>2. CASE Rollback(r)
  BY <1>2, ReleaseType DEF Rollback, TypeOK, rows
<1>3. CASE Grant(r)
  BY <1>3 DEF Grant, TypeOK, Pc, rows
<1>4. CASE Passes(r)
  <2>1. pc' \in [Req -> Pc]
    BY <1>4 DEF Passes, TypeOK, Pc
  <2>2. QED BY <1>4, <2>1 DEF Passes, TypeOK, rows, locks
<1>5. CASE ReadBook(r)
  <2>1. pc' \in [Req -> Pc]
    BY <1>5 DEF ReadBook, Goto, TypeOK, Pc
  <2>2. form[r] \in Slip /\ onHand \in Int
    BY DEF TypeOK
  <2>3. form' = [form EXCEPT ![r] = [form[r] EXCEPT !.book = onHand]]
    BY <1>5 DEF ReadBook
  <2>4. [form[r] EXCEPT !.book = onHand] \in Slip
    BY <2>2 DEF Slip
  <2>5. form' \in [Req -> Slip]
    BY <2>3, <2>4 DEF TypeOK
  <2>6. QED BY <1>5, <2>1, <2>5 DEF ReadBook, Goto, TypeOK, rows, locks
<1>6. CASE LockItem(r)
  <2>1. pc' \in [Req -> Pc] /\ itemLock' \in Req \cup {None}
    BY <1>6 DEF LockItem, Goto, TypeOK, Pc
  <2>2. QED BY <1>6, <2>1 DEF LockItem, Goto, TypeOK, rows
<1>7. CASE Computes(r)
  <2>1. calc' \in [Req -> Int]
    BY <1>7, FigureType DEF Computes, TypeOK
  <2>2. QED BY <1>7, <2>1 DEF Computes, TypeOK, Pc, rows, locks
<1>8. QED BY <1>1, <1>2, <1>3, <1>4, <1>5, <1>6, <1>7, CommitType DEF Goes

\* What a request knows about itself.
Same(r) ==
  pc'[r] = pc[r] /\ op'[r] = op[r] /\ doc'[r] = doc[r] /\ form'[r] = form[r] /\ calc'[r] = calc[r]

\* A step of one request leaves the others where they are.
LEMMA OtherSame ==
  ASSUME TypeOK, NEW q \in Req, NEW r \in Req, r # q, Goes(q)
  PROVE  Same(r)
<1>1. CASE Starts(q)
  BY <1>1 DEF Starts, Start, Arrive, Same, TypeOK
<1>2. CASE Release(q)
  BY <1>2 DEF Release, Same, TypeOK
<1>3. CASE Grant(q)
  BY <1>3 DEF Grant, Same, TypeOK
<1>4. CASE Passes(q)
  BY <1>4 DEF Passes, Same, TypeOK
<1>5. CASE ReadBook(q) \/ LockItem(q)
  BY <1>5 DEF ReadBook, LockItem, Goto, Same, TypeOK
<1>6. CASE Computes(q)
  BY <1>6 DEF Computes, Same, TypeOK
<1>7. QED BY <1>1, <1>2, <1>3, <1>4, <1>5, <1>6
       DEF Goes, Rollback, Commits, CommitSave, CommitPost, CommitCancel, CommitDelete, CommitMove

\* A request's own step takes it where its operation goes.
LEMMA OwnStage ==
  ASSUME StageInv, NEW r \in Req, Goes(r)
  PROVE  StageOf(r)'
<1>0. TypeOK /\ StageOf(r)
  BY DEF StageInv
<1> USE DEF Posts
<1>1. CASE Starts(r)
  <2> PICK d \in Sheet \cup Move, o \in Op, f \in Slip, next \in Pc : Start(r, d, o, f, next)
    BY <1>1 DEF Starts
  <2>1. pc'[r] = next /\ op'[r] = o /\ doc'[r] = d
    BY <1>0 DEF Start, Arrive, TypeOK
  <2>2. QED BY <2>1 DEF Start, StageOf
<1>2. CASE Release(r)
  BY <1>0, <1>2, SlipType DEF Release, StageOf, TypeOK
<1>3. CASE Grant(r)
  <2>1. op'[r] = op[r] /\ doc'[r] = doc[r] /\ pc[r] = "lock"
        /\ pc'[r] = CASE op[r] \in {"save", "savePost"} -> "freeze"
                      [] op[r] \in {"post", "cancel"} -> "item"
                      [] OTHER -> "commit"
    BY <1>0, <1>3 DEF Grant, TypeOK
  <2>2. QED BY <1>0, <2>1 DEF StageOf, TypeOK, Op
<1>4. CASE Passes(r)
  <2>1. op'[r] = op[r] /\ doc'[r] = doc[r]
    BY <1>4 DEF Passes
  <2>2. \/ pc[r] = "freeze" /\ pc'[r] = "book"
        \/ pc[r] \in {"drift", "later"} /\ pc'[r] = "guard"
        \/ pc[r] = "guard" /\ op[r] = "cancel" /\ pc'[r] = "lock"
        \/ pc[r] = "guard" /\ op[r] = "move" /\ pc'[r] = "item"
        \/ pc[r] = "guard" /\ op[r] \notin {"cancel", "move"} /\ pc'[r] = "apply"
    BY <1>0, <1>4 DEF Passes, TypeOK
  <2>3. QED BY <1>0, <2>1, <2>2 DEF StageOf
<1>5. CASE ReadBook(r) \/ LockItem(r)
  <2>1. op'[r] = op[r] /\ doc'[r] = doc[r]
        /\ \/ pc[r] = "book" /\ pc'[r] = IF op[r] = "save" THEN "commit" ELSE "item"
           \/ pc[r] = "item" /\ pc'[r] = IF op[r] \in {"post", "savePost"} THEN "drift" ELSE "apply"
    BY <1>0, <1>5 DEF ReadBook, LockItem, Goto, TypeOK
  <2>2. QED BY <1>0, <2>1 DEF StageOf
<1>6. CASE Computes(r)
  <2>1. op'[r] = op[r] /\ doc'[r] = doc[r] /\ pc'[r] = "commit"
    BY <1>0, <1>6 DEF Computes, TypeOK
  <2>2. QED BY <1>0, <2>1 DEF StageOf
<1>7. QED BY <1>1, <1>2, <1>3, <1>4, <1>5, <1>6
       DEF Goes, Rollback, Commits, CommitSave, CommitPost, CommitCancel, CommitDelete, CommitMove

\* Types and stages hold through every step.
LEMMA StageStep ==
  ASSUME StageInv, NEW q \in Req, Goes(q)
  PROVE  StageInv'
<1>1. ASSUME NEW r \in Req PROVE StageOf(r)'
  <2>1. CASE r = q
    BY <2>1, OwnStage
  <2>2. CASE r # q
    BY <2>2, OtherSame DEF StageInv, StageOf, Same, Posts
  <2>3. QED BY <2>1, <2>2
<1>2. QED BY <1>1, GoesType DEF StageInv

\* Every step of the specification keeps the stages.
LEMMA StageNext == StageInv /\ [Next]_vars => StageInv'
<1> SUFFICES ASSUME StageInv, [Next]_vars PROVE StageInv'
  OBVIOUS
<1>1. CASE UNCHANGED vars
  BY <1>1 DEF StageInv, TypeOK, StageOf, Posts, vars, rows, locks, reqs
<1>2. CASE Next
  BY <1>2, StepGoes, StageStep DEF Next
<1>3. QED BY <1>1, <1>2

\* Every sheet, figure, lock and request has its type in every behaviour, for
\* any sheets and movements: no movement ends up as the document of a count.
THEOREM CountTypes == Spec => []TypeOK
<1>1. StageInv => TypeOK
  BY DEF StageInv
<1>2. QED BY <1>1, InitStage, StageNext, PTL DEF Spec

-----------------------------------------------------------------------------
(* Locks, and what they keep. *)

\* The locks r holds stay with it, and so does what they guard.
Keeps(r) ==
  /\ \A c \in Sheet : hdrLock[c] = r =>
       hdrLock'[c] = r /\ status'[c] = status[c] /\ book'[c] = book[c] /\ counted'[c] = counted[c]
  /\ itemLock = r => itemLock' = r /\ onHand' = onHand

\* The item is locked after the sheet.
LEMMA ItemAfterSheet ==
  ASSUME StageInv, NEW r \in Req, HasItem(r)
  PROVE  op[r] = "move" \/ HasSheet(r)
  BY DEF HasItem, HasSheet

\* A transaction acts on the same figures while its form and its sheet stay.
LEMMA DeltaSame ==
  ASSUME NEW r \in Req, op'[r] = op[r], doc'[r] = doc[r], form'[r] = form[r],
         op[r] # "move" => book'[doc[r]] = book[doc[r]] /\ counted'[doc[r]] = counted[doc[r]]
  PROVE  /\ op[r] # "move" => BookOf(r)' = BookOf(r) /\ CountOf(r)' = CountOf(r)
         /\ Delta(r)' = Delta(r) /\ (Writes(r)' <=> Writes(r))
<1>1. op[r] # "move" => BookOf(r)' = BookOf(r) /\ CountOf(r)' = CountOf(r)
  BY DEF BookOf, CountOf
<1>2. Delta(r)' = Delta(r)
  BY <1>1 DEF Delta
<1>3. QED BY <1>1, <1>2 DEF Writes

\* A commit writes the sheet q has locked, and the holding only under the
\* item's lock.
LEMMA CommitKeeps ==
  ASSUME CountInv, NEW q \in Req, NEW r \in Req, r # q, Commits(q)
  PROVE  Keeps(r)
<1> USE DEF CountInv, StageInv
<1>0. TypeOK /\ StageOf(q) /\ LocksOf(q) /\ pc[q] = "commit" /\ Release(q)
  BY DEF Commits, CommitSave, CommitPost, CommitCancel, CommitDelete, CommitMove
<1>1. op[q] # "move" => hdrLock[doc[q]] = q
  BY <1>0 DEF LocksOf, HasSheet
<1>2. ASSUME NEW c \in Sheet, hdrLock[c] = r
      PROVE  hdrLock'[c] = r /\ status'[c] = status[c] /\ book'[c] = book[c] /\ counted'[c] = counted[c]
  <2>1. hdrLock'[c] = r
    BY <1>0, <1>2 DEF Release
  <2>2. op[q] # "move" => c # doc[q]
    BY <1>1, <1>2
  <2>3. status'[c] = status[c]
    BY <1>0, <2>2 DEF Commits, CommitSave, CommitPost, CommitCancel, CommitDelete, CommitMove, TypeOK
  <2>4. (WriteSheet(q) /\ op[q] # "move") \/ UNCHANGED <<book, counted>>
    BY DEF Commits, CommitSave, CommitPost, CommitCancel, CommitDelete, CommitMove
  <2>5. book'[c] = book[c] /\ counted'[c] = counted[c]
    BY <1>0, <2>2, <2>4 DEF WriteSheet, TypeOK
  <2>6. QED BY <2>1, <2>3, <2>5
<1>3. ASSUME itemLock = r PROVE itemLock' = r /\ onHand' = onHand
  <2>1. itemLock' = r
    BY <1>0, <1>3 DEF Release
  <2>2. HasItem(q) => ~Writes(q)
    BY <1>0, <1>3 DEF LocksOf
  <2>3. CASE CommitPost(q)
    BY <1>0, <2>2, <2>3 DEF CommitPost, HasItem, Posts, Writes
  <2>4. CASE CommitMove(q)
    BY <1>0, <2>2, <2>4 DEF CommitMove, HasItem, Writes
  <2>5. CASE CommitCancel(q)
    BY <1>0, <2>1, <2>2, <2>5 DEF CommitCancel, HasItem, Writes
  <2>6. CASE CommitSave(q) \/ CommitDelete(q)
    BY <2>1, <2>6 DEF CommitSave, CommitDelete
  <2>7. QED BY <2>1, <2>3, <2>4, <2>5, <2>6 DEF Commits
<1>4. QED BY <1>2, <1>3 DEF Keeps

\* A step of one request keeps what every other one relies on.
LEMMA StepKeeps ==
  ASSUME CountInv, NEW q \in Req, NEW r \in Req, r # q, Goes(q)
  PROVE  Keeps(r)
<1> USE DEF CountInv, StageInv
<1>0. r # None
  BY NoneAssumption
<1>1. CASE Starts(q)
  <2> PICK d \in Sheet \cup Move, o \in Op, f \in Slip, next \in Pc : Start(q, d, o, f, next)
    BY <1>1 DEF Starts
  <2>1. UNCHANGED <<status, book, counted, onHand, itemLock>>
    BY DEF Start, Arrive, rows
  <2>2. \A c \in Sheet : hdrLock[c] = r => hdrLock'[c] = r
    BY <1>0 DEF Start, TypeOK
  <2>3. QED BY <2>1, <2>2 DEF Keeps
<1>2. CASE Rollback(q)
  BY <1>2 DEF Rollback, Release, Keeps, rows
<1>3. CASE Grant(q)
  BY <1>0, <1>3 DEF Grant, Keeps, rows, TypeOK
<1>4. CASE Passes(q)
  BY <1>4 DEF Passes, Keeps, rows, locks
<1>5. CASE ReadBook(q)
  BY <1>5 DEF ReadBook, Goto, Keeps, rows, locks
<1>6. CASE LockItem(q)
  BY <1>0, <1>6 DEF LockItem, Goto, Keeps, rows
<1>7. CASE Computes(q)
  BY <1>7 DEF Computes, Keeps, rows, locks
<1>8. QED BY <1>1, <1>2, <1>3, <1>4, <1>5, <1>6, <1>7, CommitKeeps DEF Goes

\* Another request's step leaves r its locks and what it read under them.
LEMMA OtherCount ==
  ASSUME CountInv, NEW r \in Req, Same(r), Keeps(r)
  PROVE  LocksOf(r)' /\ CheckedOf(r)' /\ FreshOf(r)'
<1>0. TypeOK /\ StageOf(r) /\ LocksOf(r) /\ CheckedOf(r) /\ FreshOf(r)
  BY DEF CountInv, StageInv
<1>1. (HasSheet(r)' <=> HasSheet(r)) /\ (HasItem(r)' <=> HasItem(r)) /\ (Posts(r)' <=> Posts(r))
  BY DEF Same, HasSheet, HasItem, Posts
<1>2. HasSheet(r) => doc[r] \in Sheet /\ hdrLock[doc[r]] = r
  BY <1>0 DEF LocksOf, StageOf, HasSheet
<1>3. HasSheet(r) => /\ hdrLock'[doc[r]] = r /\ status'[doc[r]] = status[doc[r]]
                     /\ book'[doc[r]] = book[doc[r]] /\ counted'[doc[r]] = counted[doc[r]]
  BY <1>2 DEF Keeps
<1>4. HasSheet(r) \/ op[r] = "move" => Delta(r)' = Delta(r) /\ (Writes(r)' <=> Writes(r))
  BY <1>3, DeltaSame DEF Same, HasSheet
<1>5. HasSheet(r) => BookOf(r)' = BookOf(r)
  BY <1>3, DeltaSame DEF Same, HasSheet
<1>6. HasItem(r) => op[r] = "move" \/ HasSheet(r)
  BY ItemAfterSheet DEF CountInv
<1>7. LocksOf(r)'
  BY <1>0, <1>1, <1>3, <1>4, <1>6 DEF LocksOf, Keeps, Same
<1>8. CheckedOf(r)'
  BY <1>0, <1>1, <1>3 DEF CheckedOf, Same
<1>9. HasItem(r) /\ Writes(r) => onHand' = onHand
  BY <1>0 DEF LocksOf, Keeps
<1>10. FreshOf(r)'
  <2>1. ASSUME pc[r] = "commit", Posts(r) \/ op[r] \in {"cancel", "move"}, Writes(r)
        PROVE  calc'[r] = onHand' + Delta(r)'
    <3>1. HasItem(r)
      BY <2>1 DEF HasItem
    <3>2. calc[r] = onHand + Delta(r)
      BY <1>0, <2>1 DEF FreshOf
    <3>3. QED BY <1>4, <1>6, <1>9, <2>1, <3>1, <3>2 DEF Same
  <2>2. ASSUME Posts(r), pc[r] \in {"guard", "apply", "commit"}
        PROVE  BookOf(r)' = onHand'
    <3>1. HasItem(r) /\ HasSheet(r) /\ Writes(r)
      BY <2>2 DEF HasItem, HasSheet, Writes, Posts
    <3>2. QED BY <1>0, <1>5, <1>9, <2>2, <3>1 DEF FreshOf
  <2>3. pc[r] = "commit" /\ (Posts(r) \/ op[r] \in {"cancel", "move"}) => op[r] = "move" \/ HasSheet(r)
    BY DEF HasSheet
  <2>4. QED BY <1>1, <1>4, <2>1, <2>2, <2>3 DEF FreshOf, Same
<1>11. QED BY <1>7, <1>8, <1>10

\* A request's own step takes the locks its next step asks for, and reads
\* under them.
LEMMA OwnCount ==
  ASSUME CountInv, NEW r \in Req, Goes(r)
  PROVE  LocksOf(r)' /\ CheckedOf(r)' /\ FreshOf(r)'
<1>0. TypeOK /\ StageOf(r) /\ LocksOf(r) /\ CheckedOf(r) /\ FreshOf(r)
  BY DEF CountInv, StageInv
<1>1. CASE Starts(r)
  <2> PICK d \in Sheet \cup Move, o \in Op, f \in Slip, next \in Pc : Start(r, d, o, f, next)
    BY <1>1 DEF Starts
  <2>1. pc'[r] = next /\ op'[r] = o /\ doc'[r] = d /\ status' = status
    BY <1>0 DEF Start, Arrive, TypeOK, rows
  <2>2. next \in {"lock", "freeze", "later"} \/ (next = "guard" /\ o = "move")
    BY DEF Start
  <2>3. next = "freeze" => hdrLock'[d] = r /\ status[d] = "ABSENT" /\ o \in {"save", "savePost"}
    BY <1>0 DEF Start, TypeOK
  <2>4. ~HasItem(r)' /\ (HasSheet(r)' => next = "freeze")
    BY <2>1, <2>2 DEF HasItem, HasSheet, Posts
  <2>5. FreshOf(r)'
    BY <2>1, <2>2 DEF FreshOf, Posts
  <2>6. QED BY <2>1, <2>3, <2>4, <2>5 DEF LocksOf, CheckedOf
<1>2. CASE Release(r)
  <2>1. pc'[r] = "idle"
    BY <1>0, <1>2 DEF Release, TypeOK
  <2>2. QED BY <2>1 DEF LocksOf, CheckedOf, FreshOf, HasSheet, HasItem
<1>3. CASE Grant(r)
  <2>1. op'[r] = op[r] /\ doc'[r] = doc[r] /\ pc[r] = "lock" /\ status' = status
        /\ pc'[r] = CASE op[r] \in {"save", "savePost"} -> "freeze"
                      [] op[r] \in {"post", "cancel"} -> "item"
                      [] OTHER -> "commit"
    BY <1>0, <1>3 DEF Grant, TypeOK, rows
  <2>2. op[r] # "move" /\ doc[r] \in Sheet
    BY <1>0, <2>1 DEF StageOf
  <2>3. hdrLock'[doc[r]] = r /\ (HeaderOk(r) \/ op[r] = "delete")
    BY <1>0, <1>3, <2>2 DEF Grant, TypeOK
  <2>4. ~HasItem(r)'
    BY <2>1, <2>2 DEF HasItem, Posts
  <2>5. FreshOf(r)'
    BY <2>1, <2>2 DEF FreshOf, Posts
  <2>6. CheckedOf(r)'
    BY <2>1, <2>3 DEF CheckedOf, HeaderOk
  <2>7. QED BY <2>1, <2>3, <2>4, <2>5, <2>6 DEF LocksOf
<1>4. ASSUME UNCHANGED <<rows, op, doc, form, hdrLock>>, HasSheet(r)' => HasSheet(r),
             HasItem(r)' /\ Writes(r) => itemLock' = r
      PROVE  LocksOf(r)' /\ CheckedOf(r)' /\ Delta(r)' = Delta(r) /\ (Writes(r)' <=> Writes(r))
             /\ (op[r] # "move" => BookOf(r)' = BookOf(r)) /\ onHand' = onHand /\ (Posts(r)' <=> Posts(r))
  <2>1. Delta(r)' = Delta(r) /\ (Writes(r)' <=> Writes(r)) /\ (op[r] # "move" => BookOf(r)' = BookOf(r))
    BY <1>4, DeltaSame DEF rows
  <2>2. LocksOf(r)'
    BY <1>0, <1>4, <2>1 DEF LocksOf
  <2>3. CheckedOf(r)'
    BY <1>0, <1>4 DEF CheckedOf, rows
  <2>4. QED BY <1>4, <2>1, <2>2, <2>3 DEF rows, Posts
<1>5. CASE Passes(r)
  <2>0. UNCHANGED <<rows, op, doc, form, hdrLock, itemLock, calc>>
    BY <1>5 DEF Passes, locks
  <2>1. \/ pc[r] = "freeze" /\ pc'[r] = "book"
        \/ pc[r] = "drift" /\ ~Drifted(r) /\ pc'[r] = "guard"
        \/ pc[r] = "later" /\ pc'[r] = "guard"
        \/ pc[r] = "guard" /\ op[r] = "cancel" /\ pc'[r] = "lock"
        \/ pc[r] = "guard" /\ op[r] = "move" /\ pc'[r] = "item"
        \/ pc[r] = "guard" /\ op[r] \notin {"cancel", "move"} /\ pc'[r] = "apply"
    BY <1>0, <1>5 DEF Passes, TypeOK
  <2>2. HasSheet(r)' => HasSheet(r)
    BY <1>0, <2>0, <2>1 DEF HasSheet, StageOf, Posts
  <2>3. HasItem(r)' => HasItem(r)
    BY <1>0, <2>0, <2>1 DEF HasItem, StageOf, Posts
  <2>4. HasItem(r)' /\ Writes(r) => itemLock' = r
    BY <1>0, <2>0, <2>3 DEF LocksOf
  <2>5. ASSUME Posts(r), pc'[r] \in {"guard", "apply", "commit"} PROVE BookOf(r) = onHand
    BY <1>0, <2>1, <2>5 DEF FreshOf, Drifted, StageOf, Posts
  <2>6. pc'[r] # "commit"
    BY <2>1
  <2>7. Posts(r) => op[r] # "move"
    BY DEF Posts
  <2>8. FreshOf(r)'
    BY <1>4, <2>0, <2>2, <2>4, <2>5, <2>6, <2>7 DEF FreshOf
  <2>9. QED BY <1>4, <2>0, <2>2, <2>4, <2>8
<1>6. CASE ReadBook(r)
  <2>1. op' = op /\ doc' = doc /\ status' = status /\ hdrLock' = hdrLock /\ pc[r] = "book"
        /\ pc'[r] = IF op[r] = "save" THEN "commit" ELSE "item"
    BY <1>0, <1>6 DEF ReadBook, Goto, TypeOK, rows, locks
  <2>2. ~HasItem(r)' /\ FreshOf(r)'
    BY <1>0, <2>1 DEF HasItem, FreshOf, Posts, StageOf
  <2>3. HasSheet(r)
    BY <1>0, <2>1 DEF HasSheet, StageOf
  <2>4. QED BY <1>0, <2>1, <2>2, <2>3 DEF LocksOf, CheckedOf
<1>7. CASE LockItem(r)
  <2>0. UNCHANGED <<rows, op, doc, form, hdrLock, calc>>
    BY <1>7 DEF LockItem, Goto
  <2>1. pc[r] = "item" /\ pc'[r] = IF op[r] \in {"post", "savePost"} THEN "drift" ELSE "apply"
    BY <1>0, <1>7 DEF LockItem, Goto, TypeOK
  <2>2. HasSheet(r)' => HasSheet(r)
    BY <2>0, <2>1 DEF HasSheet
  <2>3. Writes(r) => itemLock' = r
    BY <1>7 DEF LockItem, Writes
  <2>4. FreshOf(r)'
    BY <2>0, <2>1 DEF FreshOf, Posts
  <2>5. QED BY <1>4, <2>0, <2>2, <2>3, <2>4
<1>8. CASE Computes(r)
  <2>0. UNCHANGED <<rows, op, doc, form, hdrLock, itemLock>>
    BY <1>8 DEF Computes, locks
  <2>1. pc[r] = "apply" /\ pc'[r] = "commit" /\ calc'[r] = onHand + Delta(r)
    BY <1>0, <1>8 DEF Computes, TypeOK
  <2>2. HasSheet(r)' => HasSheet(r)
    BY <2>0, <2>1 DEF HasSheet
  <2>3. HasItem(r) /\ (HasItem(r)' /\ Writes(r) => itemLock' = r)
    BY <1>0, <2>0, <2>1 DEF HasItem, LocksOf
  <2>4. Posts(r) => BookOf(r) = onHand /\ op[r] # "move"
    BY <1>0, <2>1 DEF FreshOf, Posts
  <2>5. FreshOf(r)'
    BY <1>4, <2>0, <2>1, <2>2, <2>3, <2>4 DEF FreshOf
  <2>6. QED BY <1>4, <2>0, <2>2, <2>3, <2>5
<1>9. QED BY <1>1, <1>2, <1>3, <1>5, <1>6, <1>7, <1>8
       DEF Goes, Rollback, Commits, CommitSave, CommitPost, CommitCancel, CommitDelete, CommitMove

\* The locks, and what is read under them, hold through every step.
LEMMA CountStep ==
  ASSUME CountInv, NEW q \in Req, Goes(q)
  PROVE  CountInv'
<1>1. StageInv'
  BY StageStep DEF CountInv
<1>2. ASSUME NEW r \in Req PROVE LocksOf(r)' /\ CheckedOf(r)' /\ FreshOf(r)'
  <2>1. CASE r = q
    BY <2>1, OwnCount
  <2>2. CASE r # q
    BY <2>2, StepKeeps, OtherSame, OtherCount DEF CountInv, StageInv
  <2>3. QED BY <2>1, <2>2
<1>3. QED BY <1>1, <1>2 DEF CountInv

\* Before any request, no lock is held and nothing is checked.
LEMMA CountInit == Init => CountInv
<1> SUFFICES ASSUME Init PROVE CountInv
  OBVIOUS
<1>1. ASSUME NEW r \in Req PROVE LocksOf(r) /\ CheckedOf(r) /\ FreshOf(r)
  BY DEF Init, LocksOf, CheckedOf, FreshOf, HasSheet, HasItem
<1>2. QED BY <1>1, InitStage DEF CountInv

\* Stuttering steps keep it.
LEMMA CountStutter ==
  ASSUME CountInv, UNCHANGED vars
  PROVE  CountInv'
<1>1. StageInv'
  BY StageNext DEF CountInv
<1>2. ASSUME NEW r \in Req PROVE LocksOf(r)' /\ CheckedOf(r)' /\ FreshOf(r)'
  <2>1. Same(r) /\ Keeps(r)
    BY DEF Same, Keeps, vars, rows, locks, reqs
  <2>2. QED BY <2>1, OtherCount
<1>3. QED BY <1>1, <1>2 DEF CountInv

\* Every step of the specification keeps the locks and what was checked.
LEMMA CountNext == CountInv /\ [Next]_vars => CountInv'
  BY StepGoes, CountStep, CountStutter DEF Next

\* What a commit does to the holding and to the sheet.
LEMMA PostEffect ==
  ASSUME CountInv, NEW r \in Req, CommitPost(r)
  PROVE  /\ doc[r] \in Sheet /\ status[doc[r]] \in {"ABSENT", "DRAFT"}
         /\ onHand' = onHand + (counted'[doc[r]] - book'[doc[r]])
         /\ book'[doc[r]] = onHand
         /\ \A c \in Sheet \ {doc[r]} : book'[c] = book[c] /\ counted'[c] = counted[c]
<1>0. TypeOK /\ StageOf(r) /\ CheckedOf(r) /\ FreshOf(r) /\ StageInv
  BY DEF CountInv, StageInv
<1>1. pc[r] = "commit" /\ Posts(r) /\ op[r] \notin {"move", "cancel"} /\ HasSheet(r) /\ Writes(r)
  BY DEF CommitPost, Posts, HasSheet, Writes
<1>2. doc[r] \in Sheet /\ status[doc[r]] \in {"ABSENT", "DRAFT"}
  BY <1>0, <1>1 DEF StageOf, CheckedOf, Posts
<1>3. BookOf(r) = onHand /\ calc[r] = onHand + Delta(r)
  BY <1>0, <1>1 DEF FreshOf
<1>4. Delta(r) = CountOf(r) - BookOf(r) /\ CountOf(r) \in Int /\ BookOf(r) \in Int /\ onHand \in Int
  BY <1>0, <1>1, FigureType DEF Delta, TypeOK
<1>5. book'[doc[r]] = BookOf(r) /\ counted'[doc[r]] = CountOf(r)
  BY <1>0, <1>1, <1>2 DEF CommitPost, WriteSheet, BookOf, CountOf, TypeOK, Posts
<1>6. onHand' = onHand + Delta(r)
  BY <1>3, <1>4 DEF CommitPost
<1>7. \A c \in Sheet \ {doc[r]} : book'[c] = book[c] /\ counted'[c] = counted[c]
  BY <1>0 DEF CommitPost, WriteSheet, TypeOK
<1>8. QED BY <1>2, <1>3, <1>4, <1>5, <1>6, <1>7

\* Only a post makes a sheet posted.
LEMMA OnlyPosts ==
  ASSUME CountInv, NEW q \in Req, Goes(q), NEW c \in Sheet, status[c] # "POSTED", status'[c] = "POSTED"
  PROVE  CommitPost(q) /\ doc[q] = c
<1>0. TypeOK
  BY DEF CountInv, StageInv
<1>1. CASE UNCHANGED status
  BY <1>1
<1>2. CASE CommitSave(q)
  BY <1>0, <1>2 DEF CommitSave, TypeOK
<1>3. CASE CommitCancel(q)
  BY <1>0, <1>3 DEF CommitCancel, TypeOK
<1>4. CASE CommitPost(q)
  BY <1>0, <1>4 DEF CommitPost, TypeOK
<1>5. UNCHANGED status \/ Commits(q)
  BY DEF Goes, Starts, Start, Arrive, Rollback, Grant, Passes, ReadBook, LockItem, Goto, Computes, rows
<1>6. QED BY <1>1, <1>2, <1>3, <1>4, <1>5 DEF Commits, CommitDelete, CommitMove

\* Posting a count leaves the holding at what was counted, for any sheets,
\* movements and requests, however they interleave: no movement can slip in
\* between the drift check of validate and the commit.
THEOREM CountsLand == Spec => CountLands
<1>1. ASSUME CountInv, [Next]_vars
      PROVE  [\A c \in Sheet : status[c] # "POSTED" /\ status'[c] = "POSTED" => onHand' = counted'[c]]_vars
  <2> SUFFICES ASSUME Next, NEW c \in Sheet, status[c] # "POSTED", status'[c] = "POSTED"
               PROVE  onHand' = counted'[c]
    BY <1>1
  <2>1. PICK q \in Req : Goes(q)
    BY StepGoes DEF Next
  <2>2. CommitPost(q) /\ doc[q] = c
    BY <1>1, <2>1, OnlyPosts
  <2>3. onHand' = onHand + (counted'[c] - book'[c]) /\ book'[c] = onHand
    BY <1>1, <2>2, PostEffect
  <2>4. onHand \in Int /\ counted'[c] \in Int
    BY <1>1, CountNext DEF CountInv, StageInv, TypeOK
  <2>5. QED BY <2>3, <2>4
<1>2. QED BY <1>1, CountInit, CountNext, PTL DEF Spec, CountLands

-----------------------------------------------------------------------------
(* The book. *)

\* A request that brings a movement is under way.
LEMMA MoveUnderWay ==
  ASSUME StageInv, NEW r \in Req, op[r] = "move"
  PROVE  pc[r] # "idle"
  BY DEF StageInv, StageOf

\* Only an arrival makes a request a movement, and of one nobody has.
LEMMA NewMove ==
  ASSUME StageInv, NEW q \in Req, Goes(q), op'[q] = "move"
  PROVE  \/ op[q] = "move" /\ doc'[q] = doc[q] /\ moved' = moved
         \/ /\ doc'[q] \notin moved /\ moved' = moved
            /\ \A r \in Req : pc[r] = "idle" \/ doc[r] # doc'[q]
<1>0. TypeOK
  BY DEF StageInv
<1>1. CASE Starts(q)
  <2> PICK d \in Sheet \cup Move, o \in Op, f \in Slip, next \in Pc : Start(q, d, o, f, next)
    BY <1>1 DEF Starts
  <2>1. op'[q] = o /\ doc'[q] = d /\ moved' = moved
    BY <1>0 DEF Start, Arrive, TypeOK, rows
  <2>2. QED BY <2>1 DEF Start
<1>2. CASE Release(q)
  BY <1>0, <1>2 DEF Release, TypeOK
<1>3. CASE UNCHANGED <<op, doc, moved>>
  BY <1>3
<1>4. Starts(q) \/ Release(q) \/ UNCHANGED <<op, doc, moved>>
  BY DEF Goes, Rollback, Grant, Passes, ReadBook, LockItem, Goto, Computes, rows,
         Commits, CommitSave, CommitPost, CommitCancel, CommitDelete, CommitMove
<1>5. QED BY <1>1, <1>2, <1>3, <1>4

\* No movement lands twice.
LEMMA OnceStep ==
  ASSUME StageInv, \A r \in Req : OnceOf(r), NEW q \in Req, Goes(q), NEW r \in Req
  PROVE  OnceOf(r)'
<1>0. TypeOK
  BY DEF StageInv
<1> SUFFICES ASSUME op'[r] = "move"
             PROVE  doc'[r] \notin moved' /\ \A p \in Req \ {r} : op'[p] = "move" => doc'[p] # doc'[r]
  BY DEF OnceOf
<1>1. \A p \in Req \ {q} : op'[p] = op[p] /\ doc'[p] = doc[p]
  BY <1>0, OtherSame DEF Same
<1>2. moved' = moved \/ (op[q] = "move" /\ moved' = moved \cup {doc[q]})
  BY DEF Goes, Starts, Start, Arrive, Rollback, Grant, Passes, ReadBook, LockItem, Goto, Computes, rows,
         Commits, CommitSave, CommitPost, CommitCancel, CommitDelete, CommitMove
<1>3. CASE r = q
  <2>1. \/ op[r] = "move" /\ doc'[r] = doc[r] /\ moved' = moved
        \/ /\ doc'[r] \notin moved /\ moved' = moved
           /\ \A p \in Req : pc[p] = "idle" \/ doc[p] # doc'[r]
    BY <1>3, NewMove
  <2>2. \A p \in Req : op[p] = "move" => pc[p] # "idle"
    BY MoveUnderWay
  <2>3. QED BY <1>1, <1>3, <2>1, <2>2 DEF OnceOf
<1>4. CASE r # q
  <2>1. op[r] = "move" /\ doc'[r] = doc[r]
    BY <1>1, <1>4
  <2>2. doc[r] \notin moved /\ \A p \in Req \ {r} : op[p] = "move" => doc[p] # doc[r]
    BY <2>1 DEF OnceOf
  <2>3. pc[r] # "idle"
    BY <2>1, MoveUnderWay
  <2>4. op'[q] = "move" => doc'[q] # doc[r]
    BY <1>4, <2>2, <2>3, NewMove
  <2>5. QED BY <1>1, <1>2, <1>4, <2>1, <2>2, <2>4
<1>5. QED BY <1>3, <1>4

\* The variances of the posted sheets, and the movements that landed.
Variance == [c \in Sheet |-> IF status[c] = "POSTED" THEN counted[c] - book[c] ELSE 0]
Landed == [m \in moved |-> Qty[m]]

\* Their sums are numbers.
LEMMA BookTypes ==
  ASSUME TypeOK
  PROVE  /\ Variance \in [Sheet -> Int] /\ SumFunction(Variance) \in Int
         /\ IsFiniteSet(moved) /\ SumFunction(Landed) \in Int /\ Opening \in Int /\ onHand \in Int
<1>1. Variance \in [Sheet -> Int]
  BY DEF TypeOK, Variance
<1>2. IsFiniteSet(moved)
  BY FiniteAssumption, FS_Subset DEF TypeOK
<1>3. Landed \in [moved -> Int]
  BY QtyAssumption DEF TypeOK, Landed
<1>4. SumFunction(Variance) \in Int
  BY <1>1, FiniteAssumption, SumType
<1>5. SumFunction(Landed) \in Int
  BY <1>2, <1>3, SumType
<1>6. QED BY <1>1, <1>2, <1>4, <1>5, QtyAssumption DEF TypeOK

\* The variance of a posted sheet enters the book.
LEMMA PostBook ==
  ASSUME CountInv, BookIsSum, NEW r \in Req, CommitPost(r), TypeOK'
  PROVE  BookIsSum'
<1>0. TypeOK
  BY DEF CountInv, StageInv
<1> DEFINE d == doc[r]
           v == counted'[d] - book'[d]
<1>1. d \in Sheet /\ status[d] \in {"ABSENT", "DRAFT"} /\ onHand' = onHand + v
      /\ \A c \in Sheet \ {d} : book'[c] = book[c] /\ counted'[c] = counted[c]
  BY PostEffect
<1>2. v \in Int
  BY <1>1 DEF TypeOK
<1>3. status'[d] = "POSTED" /\ moved' = moved /\ \A c \in Sheet \ {d} : status'[c] = status[c]
  BY <1>0, <1>1 DEF CommitPost, TypeOK
<1>4. Variance' = [Variance EXCEPT ![d] = v]
  BY <1>1, <1>3 DEF Variance
<1>5. Variance[d] = 0
  BY <1>1 DEF Variance
<1> HIDE DEF v, d
<1>6. SumFunction(Variance') = SumFunction(Variance) - Variance[d] + v
  BY <1>0, <1>1, <1>2, <1>4, BookTypes, FiniteAssumption, SumUpdate
<1>7. Landed' = Landed
  BY <1>3 DEF Landed
<1>8. onHand = Opening + SumFunction(Landed) + SumFunction(Variance)
  BY DEF BookIsSum, Landed, Variance
<1>9. onHand' = Opening + SumFunction(Landed') + SumFunction(Variance')
  BY <1>0, <1>1, <1>2, <1>5, <1>6, <1>7, <1>8, BookTypes
<1>10. QED BY <1>9 DEF BookIsSum, Landed, Variance

\* Cancelling a posted sheet takes its variance out, a draft has none.
LEMMA CancelBook ==
  ASSUME CountInv, BookIsSum, NEW r \in Req, CommitCancel(r)
  PROVE  BookIsSum'
<1>0. TypeOK /\ StageInv /\ StageOf(r) /\ CheckedOf(r) /\ FreshOf(r)
  BY DEF CountInv, StageInv
<1> DEFINE d == doc[r]
<1>1. pc[r] = "commit" /\ op[r] \in {"cancelDraft", "cancel"} /\ HasSheet(r)
  BY DEF CommitCancel, HasSheet
<1>2. d \in Sheet /\ (op[r] = "cancel" => status[d] = "POSTED") /\ (op[r] = "cancelDraft" => status[d] \in {"ABSENT", "DRAFT"})
  BY <1>0, <1>1 DEF StageOf, CheckedOf
<1>3. status' = [status EXCEPT ![d] = "CANCELLED"] /\ UNCHANGED <<book, counted, moved>>
  BY DEF CommitCancel
<1>4. Variance' = [Variance EXCEPT ![d] = 0]
  BY <1>0, <1>2, <1>3 DEF Variance, TypeOK
<1>5. Landed' = Landed
  BY <1>3 DEF Landed
<1>6. Variance[d] = (IF op[r] = "cancel" THEN counted[d] - book[d] ELSE 0)
  BY <1>1, <1>2 DEF Variance
<1>7. onHand' = onHand - Variance[d]
  <2>1. CASE op[r] = "cancel"
    <3>1. Delta(r) = book[d] - counted[d]
      BY <2>1 DEF Delta, BookOf, CountOf
    <3>2. book[d] \in Int /\ counted[d] \in Int /\ onHand \in Int
      BY <1>0, <1>2 DEF TypeOK
    <3>3. Delta(r) # 0 => calc[r] = onHand + Delta(r)
      BY <1>0, <1>1, <2>1 DEF FreshOf, Writes
    <3>4. onHand' = IF Delta(r) # 0 THEN calc[r] ELSE onHand
      BY <2>1 DEF CommitCancel
    <3>5. onHand' = onHand + Delta(r) /\ Delta(r) \in Int
      BY <3>1, <3>2, <3>3, <3>4
    <3>6. QED BY <1>6, <2>1, <3>1, <3>2, <3>5
  <2>2. CASE op[r] = "cancelDraft"
    <3>1. onHand' = onHand
      BY <2>2 DEF CommitCancel
    <3>2. QED BY <1>0, <1>6, <2>2, <3>1 DEF TypeOK
  <2>3. QED BY <1>1, <2>1, <2>2
<1> HIDE DEF d
<1>8. SumFunction(Variance') = SumFunction(Variance) - Variance[d] + 0
  <2> DEFINE v == 0
  <2>1. v \in Int /\ Variance' = [Variance EXCEPT ![d] = v]
    BY <1>4
  <2>2. SUFFICES SumFunction(Variance') = SumFunction(Variance) - Variance[d] + v
    OBVIOUS
  <2> HIDE DEF v
  <2>3. QED BY <1>0, <1>2, <2>1, BookTypes, FiniteAssumption, SumUpdate
<1>9. Variance[d] \in Int
  BY <1>0, <1>2, BookTypes
<1>10. onHand = Opening + SumFunction(Landed) + SumFunction(Variance)
  BY DEF BookIsSum, Landed, Variance
<1>11. onHand' = Opening + SumFunction(Landed') + SumFunction(Variance')
  BY <1>0, <1>5, <1>7, <1>8, <1>9, <1>10, BookTypes
<1>12. QED BY <1>11 DEF BookIsSum, Landed, Variance

\* A movement enters the book once.
LEMMA MoveBook ==
  ASSUME CountInv, BookIsSum, NEW r \in Req, OnceOf(r), CommitMove(r)
  PROVE  BookIsSum'
<1>0. TypeOK /\ StageInv /\ StageOf(r) /\ FreshOf(r)
  BY DEF CountInv, StageInv
<1> DEFINE d == doc[r]
           f == [m \in moved \cup {d} |-> Qty[m]]
<1>1. pc[r] = "commit" /\ op[r] = "move" /\ moved' = moved \cup {d} /\ onHand' = calc[r]
      /\ UNCHANGED <<status, book, counted>>
  BY DEF CommitMove
<1>2. d \in Move /\ d \notin moved /\ Qty[d] \in Int
  BY <1>0, <1>1, QtyAssumption DEF StageOf, OnceOf
<1>3. onHand' = onHand + Qty[d]
  BY <1>0, <1>1 DEF FreshOf, Writes, Delta
<1>4. Variance' = Variance
  BY <1>1 DEF Variance
<1>5. f \in [moved \cup {d} -> Int]
  BY <1>0, <1>2, QtyAssumption DEF TypeOK
<1>6. Landed' = f /\ Landed = [m \in moved |-> f[m]] /\ f[d] = Qty[d]
  BY <1>1 DEF Landed
<1> HIDE DEF f, d
<1>7. SumFunction(f) = SumFunction([m \in moved |-> f[m]]) + f[d]
  BY <1>0, <1>2, <1>5, BookTypes, SumExtend
<1>8. SumFunction(Landed') = SumFunction(Landed) + Qty[d]
  BY <1>6, <1>7
<1>9. onHand = Opening + SumFunction(Landed) + SumFunction(Variance)
  BY DEF BookIsSum, Landed, Variance
<1>10. onHand' = Opening + SumFunction(Landed') + SumFunction(Variance')
  BY <1>0, <1>2, <1>3, <1>4, <1>8, <1>9, BookTypes
<1>11. QED BY <1>10 DEF BookIsSum, Landed, Variance

\* Saving writes a sheet that is not posted.
LEMMA SaveBook ==
  ASSUME CountInv, BookIsSum, NEW r \in Req, CommitSave(r)
  PROVE  BookIsSum'
<1>0. TypeOK /\ StageOf(r) /\ CheckedOf(r)
  BY DEF CountInv, StageInv
<1>1. doc[r] \in Sheet /\ status[doc[r]] \in {"ABSENT", "DRAFT"}
  BY <1>0 DEF CommitSave, StageOf, CheckedOf, HasSheet
<1>2. \A c \in Sheet \ {doc[r]} : status'[c] = status[c] /\ book'[c] = book[c] /\ counted'[c] = counted[c]
  BY <1>0 DEF CommitSave, WriteSheet, TypeOK
<1>3. status'[doc[r]] = "DRAFT"
  BY <1>0, <1>1 DEF CommitSave, TypeOK
<1>4. Variance' = Variance
  BY <1>1, <1>2, <1>3 DEF Variance
<1>5. moved' = moved /\ onHand' = onHand
  BY DEF CommitSave
<1>6. QED BY <1>4, <1>5 DEF BookIsSum, Variance

\* Every step keeps the book.
LEMMA SumNext == SumInv /\ [Next]_vars => SumInv'
<1> SUFFICES ASSUME SumInv, [Next]_vars PROVE SumInv'
  OBVIOUS
<1> USE DEF SumInv
<1>1. CountInv' /\ TypeOK'
  BY CountNext DEF CountInv, StageInv
<1>2. CASE UNCHANGED vars
  <2>1. BookIsSum'
    BY <1>2 DEF BookIsSum, vars, rows
  <2>2. \A r \in Req : OnceOf(r)'
    BY <1>2 DEF OnceOf, vars, rows, reqs
  <2>3. QED BY <1>1, <2>1, <2>2
<1>3. CASE Next
  <2>1. PICK q \in Req : Goes(q)
    BY <1>3, StepGoes DEF Next
  <2>2. \A r \in Req : OnceOf(r)'
    BY <2>1, OnceStep DEF CountInv
  <2>3. BookIsSum'
    <3>1. CASE Commits(q)
      <4>1. CASE CommitDelete(q)
        BY <4>1 DEF CommitDelete, BookIsSum
      <4>2. QED BY <1>1, <3>1, <4>1, SaveBook, PostBook, CancelBook, MoveBook DEF Commits
    <3>2. CASE UNCHANGED rows
      BY <3>2 DEF BookIsSum, rows
    <3>3. QED BY <2>1, <3>1, <3>2
           DEF Goes, Starts, Start, Arrive, Rollback, Grant, Passes, ReadBook, LockItem, Goto, Computes
  <2>4. QED BY <1>1, <2>2, <2>3
<1>4. QED BY <1>2, <1>3

\* Before any posting the book is the opening stock.
LEMMA SumInit == Init => SumInv
<1> SUFFICES ASSUME Init PROVE SumInv
  OBVIOUS
<1>1. \A r \in Req : OnceOf(r)
  BY DEF Init, OnceOf
<1>2. BookIsSum
  <2>1. Landed \in [moved -> Int] /\ moved = {} /\ onHand = Opening
    BY DEF Init, Landed
  <2>2. Variance \in [Sheet -> Int] /\ \A c \in Sheet : Variance[c] = 0
    BY DEF Init, Variance
  <2>3. SumFunction(Variance) = 0
    BY <2>2, FiniteAssumption, ZeroSum
  <2>4. SumFunction(Landed) = 0
    BY <2>1, FS_EmptySet, ZeroSum
  <2>5. onHand = Opening + SumFunction(Landed) + SumFunction(Variance)
    BY <2>1, <2>3, <2>4, QtyAssumption
  <2>6. QED BY <2>5 DEF BookIsSum, Landed, Variance
<1>3. QED BY <1>1, <1>2, CountInit DEF SumInv

\* The book is the opening, the movements and the variances of the posted
\* sheets, for any documents and requests: each is in it once, as the sheet
\* reads now.
THEOREM BookAddsUp == Spec => []BookIsSum
<1>1. SumInv => BookIsSum
  BY DEF SumInv
<1>2. QED BY <1>1, SumInit, SumNext, PTL DEF Spec

=============================================================================
