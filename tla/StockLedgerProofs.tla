--------------------------- MODULE StockLedgerProofs ---------------------------
(***************************************************************************)
(* Proofs about StockLedger, for any batches, requests, quantities and     *)
(* number of movements per transaction.                                    *)
(***************************************************************************)
EXTENDS StockLedger, TLAPS

\* Every total is a natural number, request by request and batch by batch.
LEMMA TotalsAreNat ==
  ASSUME TypeOK, NEW r \in Request, NEW b \in Batch
  PROVE  /\ added[b] \in Nat /\ removed[b] \in Nat
         /\ pendingIn[r][b] \in Nat /\ pendingOut[r][b] \in Nat
  <1>1. pendingIn[r] \in [Batch -> Nat] /\ pendingOut[r] \in [Batch -> Nat]
    BY DEF TypeOK
  <1> QED
    BY <1>1 DEF TypeOK

\* Who does not hold a batch has written nothing on it.
LEMMA OthersWroteNothing ==
  ASSUME TypeOK, OneWriterPerBatch, NEW r \in Request, NEW b \in Batch,
         holder[b] # r
  PROVE  pendingIn[r][b] = 0 /\ pendingOut[r][b] = 0
  <1>1. ~(pendingIn[r][b] + pendingOut[r][b] > 0)
    BY DEF OneWriterPerBatch
  <1>2. pendingIn[r][b] \in Nat /\ pendingOut[r][b] \in Nat
    BY TotalsAreNat
  <1> QED
    BY <1>1, <1>2

LEMMA InitIInv == Init => IInv
  <1> SUFFICES ASSUME Init PROVE IInv
    OBVIOUS
  <1> USE DEF Init, None
  <1>1. TypeOK
    BY DEF TypeOK, Finished
  <1>2. NothingLeftBehind
    BY FreeAssumption DEF NothingLeftBehind
  <1>3. OneWriterPerBatch
    BY DEF OneWriterPerBatch
  <1>4. CallHoldsBatch /\ UncheckedAdds /\ CheckIsCurrent
    BY DEF CallHoldsBatch, UncheckedAdds, CheckIsCurrent, InCall
  <1>5. StockNonNegative
    BY DEF StockNonNegative, Visible, Book!OnHand
  <1> QED
    BY <1>1, <1>2, <1>3, <1>4, <1>5 DEF IInv

(***************************************************************************)
(* Undo: the shared effect of Refuse and Rollback.                         *)
(***************************************************************************)
LEMMA UndoIInv ==
  ASSUME IInv, NEW r \in Request, Undo(r)
  PROVE  IInv'
  <1> USE DEF IInv, Undo
  <1>1. TypeOK'
    BY DEF TypeOK, None, Finished
  <1>2. NothingLeftBehind'
    BY FreeAssumption DEF NothingLeftBehind, TypeOK, Finished
  <1>3. OneWriterPerBatch'
    BY DEF OneWriterPerBatch, TypeOK, None
  <1>4. CallHoldsBatch'
    BY DEF CallHoldsBatch, TypeOK, InCall
  <1>5. UncheckedAdds'
    BY DEF UncheckedAdds, TypeOK
  <1>6. CheckIsCurrent'
    BY DEF CheckIsCurrent, Visible, Book!OnHand, TypeOK
  <1>7. StockNonNegative'
    BY DEF StockNonNegative, Visible, Book!OnHand, TypeOK, None
  <1> QED
    BY <1>1, <1>2, <1>3, <1>4, <1>5, <1>6, <1>7

LEMMA BeginIInv ==
  ASSUME IInv, NEW r \in Request, Begin(r)
  PROVE  IInv'
  <1> USE DEF IInv, Begin
  <1>1. TypeOK'
    BY DEF TypeOK
  <1>2. NothingLeftBehind' /\ OneWriterPerBatch' /\ CallHoldsBatch'
    BY DEF NothingLeftBehind, OneWriterPerBatch, CallHoldsBatch, TypeOK,
           Finished, InCall
  <1>3. UncheckedAdds' /\ CheckIsCurrent' /\ StockNonNegative'
    BY DEF UncheckedAdds, CheckIsCurrent, StockNonNegative, Visible,
           Book!OnHand, TypeOK
  <1> QED
    BY <1>1, <1>2, <1>3

LEMMA CallIInv ==
  ASSUME IInv, NEW r \in Request, NEW b \in Batch, NEW q \in Quantity,
         Call(r, b, q)
  PROVE  IInv'
  <1> USE DEF IInv, Call
  <1>1. TypeOK'
    BY DEF TypeOK, InCall
  <1>2. NothingLeftBehind' /\ OneWriterPerBatch' /\ CallHoldsBatch'
    BY DEF NothingLeftBehind, OneWriterPerBatch, CallHoldsBatch, TypeOK,
           Finished, InCall
  <1>3. UncheckedAdds' /\ CheckIsCurrent' /\ StockNonNegative'
    BY DEF UncheckedAdds, CheckIsCurrent, StockNonNegative, Visible,
           Book!OnHand, TypeOK
  <1> QED
    BY <1>1, <1>2, <1>3

\* Taking a lock cannot disturb another holder: the row was free, or ours.
LEMMA LockIInv ==
  ASSUME IInv, NEW r \in Request, Lock(r)
  PROVE  IInv'
  <1> USE DEF IInv, Lock
  <1>1. TypeOK'
    BY DEF TypeOK, InCall
  <1>2. NothingLeftBehind'
    BY DEF NothingLeftBehind, TypeOK, Finished
  <1>3. OneWriterPerBatch'
    BY FreeAssumption DEF OneWriterPerBatch, TypeOK
  <1>4. CallHoldsBatch'
    BY FreeAssumption DEF CallHoldsBatch, TypeOK, InCall
  <1>5. UncheckedAdds'
    <2> SUFFICES ASSUME NEW s \in Request, (pc[s] = "inserting")'
                 PROVE  quantity[s] > 0
      BY DEF UncheckedAdds
    <2>1. quantity[s] \in Int /\ quantity[s] # 0
      BY QuantityAssumption DEF TypeOK
    <2> QED
      BY <2>1 DEF UncheckedAdds, TypeOK
  <1>6. CheckIsCurrent' /\ StockNonNegative'
    BY DEF CheckIsCurrent, StockNonNegative, Visible, Book!OnHand, TypeOK
  <1> QED
    BY <1>1, <1>2, <1>3, <1>4, <1>5, <1>6

LEMMA ReadIInv ==
  ASSUME IInv, NEW r \in Request, Read(r)
  PROVE  IInv'
  <1> USE DEF IInv, Read
  <1>1. TypeOK'
    BY DEF TypeOK, InCall, Visible, Book!OnHand
  <1>2. NothingLeftBehind' /\ OneWriterPerBatch' /\ CallHoldsBatch'
    BY DEF NothingLeftBehind, OneWriterPerBatch, CallHoldsBatch, TypeOK,
           Finished, InCall
  <1>3. UncheckedAdds' /\ StockNonNegative'
    BY DEF UncheckedAdds, StockNonNegative, Visible, Book!OnHand, TypeOK
  <1>4. CheckIsCurrent'
    BY DEF CheckIsCurrent, Visible, Book!OnHand, TypeOK
  <1> QED
    BY <1>1, <1>2, <1>3, <1>4

(***************************************************************************)
(* Insert changes only what request r sees of the batch it holds.          *)
(***************************************************************************)
LEMMA InsertIInv ==
  ASSUME IInv, NEW r \in Request, Insert(r)
  PROVE  IInv'
  <1> USE DEF IInv, Insert
  <1> DEFINE q == quantity[r]
             c == batch[r]
  <1>1. holder[c] = r /\ q \in Int /\ c \in Batch
    BY QuantityAssumption DEF CallHoldsBatch, InCall, TypeOK
  <1>2. pendingIn[r][c] \in Nat /\ pendingOut[r][c] \in Nat
    BY <1>1, TotalsAreNat
  <1>3. Visible(r, c) + q >= 0
    BY <1>1, TotalsAreNat DEF CheckIsCurrent, UncheckedAdds, StockNonNegative,
                              Visible, Book!OnHand
  <1>4. /\ pendingIn' \in [Request -> [Batch -> Nat]]
        /\ pendingOut' \in [Request -> [Batch -> Nat]]
    <2>1. CASE q > 0
      <3> DEFINE row == [pendingIn[r] EXCEPT ![c] = @ + q]
      <3>1. pendingIn' = [pendingIn EXCEPT ![r] = row]
        BY <2>1, Zenon
      <3>2. row \in [Batch -> Nat]
        BY <1>1, <1>2, <2>1 DEF TypeOK
      <3> HIDE DEF row
      <3> QED
        BY <2>1, <3>1, <3>2 DEF TypeOK
    <2>2. CASE ~(q > 0)
      <3> DEFINE row == [pendingOut[r] EXCEPT ![c] = @ - q]
      <3>1. pendingOut' = [pendingOut EXCEPT ![r] = row]
        BY <2>2, Zenon
      <3>2. row \in [Batch -> Nat]
        BY <1>1, <1>2, <2>2 DEF TypeOK
      <3> HIDE DEF row
      <3> QED
        BY <2>2, <3>1, <3>2 DEF TypeOK
    <2> QED
      BY <2>1, <2>2
  <1>5. TypeOK'
    BY <1>4 DEF TypeOK
  \* Only the pair (r, c) sees a different total, by exactly q.
  <1>6. ASSUME NEW s \in Request, NEW b \in Batch
        PROVE  /\ s = r /\ b = c => Visible(s, b)' = Visible(s, b) + q
               /\ s # r \/ b # c =>
                    /\ Visible(s, b)' = Visible(s, b)
                    /\ pendingIn'[s][b] = pendingIn[s][b]
                    /\ pendingOut'[s][b] = pendingOut[s][b]
    <2>1. CASE q > 0
      BY <1>1, <1>2, <2>1, TotalsAreNat DEF Visible, Book!OnHand, TypeOK
    <2>2. CASE ~(q > 0)
      BY <1>1, <1>2, <2>2, TotalsAreNat DEF Visible, Book!OnHand, TypeOK
    <2> QED
      BY <2>1, <2>2
  <1>7. NothingLeftBehind' /\ CallHoldsBatch' /\ UncheckedAdds'
    BY DEF NothingLeftBehind, CallHoldsBatch, UncheckedAdds, TypeOK, Finished,
           InCall
  <1>8. OneWriterPerBatch'
    BY <1>1, <1>6 DEF OneWriterPerBatch
  <1>9. CheckIsCurrent'
    <2> SUFFICES ASSUME NEW s \in Request, (pc[s] = "checking")'
                 PROVE  (available[s] = Visible(s, batch[s]))'
      BY DEF CheckIsCurrent
    <2>1. s # r /\ pc[s] = "checking" /\ batch[s] \in Batch
      BY DEF TypeOK
    <2> QED
      BY <2>1, <1>6 DEF CheckIsCurrent
  <1>10. StockNonNegative'
    BY <1>3, <1>6 DEF StockNonNegative, Book!OnHand
  <1> QED
    BY <1>5, <1>7, <1>8, <1>9, <1>10

(***************************************************************************)
(* Commit publishes r's rows.  Any batch they touch was locked by r, so no *)
(* other request has rows on it or has just read it.                       *)
(***************************************************************************)
LEMMA CommitIInv ==
  ASSUME IInv, NEW r \in Request, Commit(r)
  PROVE  IInv'
  <1> USE DEF IInv, Commit
  <1>1. TypeOK'
    BY DEF TypeOK, None, Finished
  <1>2. NothingLeftBehind'
    BY FreeAssumption DEF NothingLeftBehind, TypeOK, Finished
  <1>3. OneWriterPerBatch'
    BY DEF OneWriterPerBatch, TypeOK, None
  <1>4. CallHoldsBatch' /\ UncheckedAdds'
    BY DEF CallHoldsBatch, UncheckedAdds, TypeOK, InCall
  <1>5. CheckIsCurrent'
    <2> SUFFICES ASSUME NEW s \in Request, (pc[s] = "checking")'
                 PROVE  (available[s] = Visible(s, batch[s]))'
      BY DEF CheckIsCurrent
    <2>1. s # r /\ pc[s] = "checking" /\ holder[batch[s]] = s
      BY DEF CallHoldsBatch, InCall, TypeOK
    <2>2. pendingIn[r][batch[s]] = 0 /\ pendingOut[r][batch[s]] = 0
      BY <2>1, OthersWroteNothing DEF TypeOK
    <2> QED
      BY <2>1, <2>2 DEF CheckIsCurrent, Visible, Book!OnHand, TypeOK
  <1>6. StockNonNegative'
    <2>1. ASSUME NEW b \in Batch PROVE Book!OnHand(b)' >= 0
      BY <2>1 DEF StockNonNegative, Visible, Book!OnHand, TypeOK
    <2>2. ASSUME NEW s \in Request, NEW b \in Batch
          PROVE  Visible(s, b)' >= 0
      <3>1. CASE s = r
        BY <2>1, <3>1 DEF Visible, Book!OnHand, TypeOK, None
      <3>2. CASE s # r /\ holder[b] = r
        <4>1. pendingIn[s][b] = 0 /\ pendingOut[s][b] = 0
          BY <3>2, OthersWroteNothing
        <4> QED
          BY <2>1, <3>2, <4>1 DEF Visible, Book!OnHand, TypeOK
      <3>3. CASE s # r /\ holder[b] # r
        <4>1. pendingIn[r][b] = 0 /\ pendingOut[r][b] = 0
          BY <3>3, OthersWroteNothing
        <4> QED
          BY <3>3, <4>1 DEF StockNonNegative, Visible, Book!OnHand, TypeOK
      <3> QED
        BY <3>1, <3>2, <3>3
    <2> QED
      BY <2>1, <2>2 DEF StockNonNegative
  <1> QED
    BY <1>1, <1>2, <1>3, <1>4, <1>5, <1>6

LEMMA StepIInv == IInv /\ [Next]_vars => IInv'
  <1> SUFFICES ASSUME IInv, [Next]_vars PROVE IInv'
    OBVIOUS
  <1>1. CASE UNCHANGED vars
    BY <1>1 DEF vars, IInv, TypeOK, NothingLeftBehind, OneWriterPerBatch,
                CallHoldsBatch, UncheckedAdds, CheckIsCurrent,
                StockNonNegative, Visible, Book!OnHand
  <1>2. CASE Next
    <2> SUFFICES ASSUME NEW r \in Request,
                        \/ Begin(r)
                        \/ \E b \in Batch, q \in Quantity : Call(r, b, q)
                        \/ Lock(r) \/ Read(r) \/ Refuse(r)
                        \/ Insert(r) \/ Commit(r) \/ Rollback(r)
                 PROVE  IInv'
      BY <1>2 DEF Next
    <2>1. CASE Refuse(r) \/ Rollback(r)
      BY <2>1, UndoIInv DEF Refuse, Rollback
    <2> QED
      BY <2>1, BeginIInv, CallIInv, LockIInv, ReadIInv, InsertIInv, CommitIInv
  <1> QED
    BY <1>1, <1>2

--------------------------------------------------------------------------------
(***************************************************************************)
(* The inductive invariant holds in every reachable state.                 *)
(***************************************************************************)
THEOREM Invariance == Spec => []IInv
  <1> QED
    BY InitIInv, StepIInv, PTL DEF Spec

(***************************************************************************)
(* Every variable of the ledger keeps its type.                            *)
(***************************************************************************)
THEOREM TypeCorrect == Spec => []TypeOK
  <1>1. IInv => TypeOK
    BY DEF IInv
  <1> QED
    BY <1>1, Invariance, PTL

(***************************************************************************)
(* record_movement() never takes a batch below zero, whatever the requests *)
(* and however their transactions interleave, fail or are rolled back.     *)
(***************************************************************************)
THEOREM NeverOversold == Spec => []StockNonNegative
  <1>1. IInv => StockNonNegative
    BY DEF IInv
  <1> QED
    BY <1>1, Invariance, PTL

(***************************************************************************)
(* The sum that record_movement() read under the batch's lock is still the *)
(* sum when it inserts the row: nobody else commits to a batch that is     *)
(* held, and the transaction's own rows were in what it read.              *)
(***************************************************************************)
THEOREM NeverStale == Spec => []CheckIsCurrent
  <1>1. IInv => CheckIsCurrent
    BY DEF IInv
  <1> QED
    BY <1>1, Invariance, PTL

(***************************************************************************)
(* The transactional ledger implements the abstract book: each step of any *)
(* request is either invisible or one posting that only appends and leaves *)
(* every batch at zero or more.                                            *)
(***************************************************************************)
THEOREM Implements == Spec => BookSpec
  <1>1. Init => Book!Init
    BY DEF Init, Book!Init, None
  <1>2. IInv /\ IInv' /\ [Next]_vars => [Book!Post]_Book!book
    <2> SUFFICES ASSUME IInv, IInv', [Next]_vars PROVE [Book!Post]_Book!book
      OBVIOUS
    <2>1. CASE \E r \in Request : Commit(r)
      <3> PICK r \in Request : Commit(r)
        BY <2>1
      <3>1. added' \in [Batch -> Nat] /\ removed' \in [Batch -> Nat]
        BY DEF IInv, TypeOK
      <3>2. ASSUME NEW b \in Batch
            PROVE  /\ added[b] <= added'[b]
                   /\ removed[b] <= removed'[b]
                   /\ removed'[b] <= added'[b]
        <4>1. /\ added[b] <= added'[b]
              /\ removed[b] <= removed'[b]
          BY DEF Commit, IInv, TypeOK
        <4>2. removed'[b] <= added'[b]
          BY <3>1 DEF IInv, StockNonNegative, Book!OnHand
        <4> QED
          BY <4>1, <4>2
      <3> QED
        BY <3>1, <3>2 DEF Book!Post
    <2>2. CASE UNCHANGED vars
      BY <2>2 DEF vars, Book!book
    <2>3. CASE Next /\ ~(\E r \in Request : Commit(r))
      <3>1. UNCHANGED <<added, removed>>
        BY <2>3 DEF Next, Begin, Call, Lock, Read, Refuse, Insert, Rollback, Undo
      <3> QED
        BY <3>1 DEF Book!book
    <2> QED
      BY <2>1, <2>2, <2>3
  <1> QED
    BY <1>1, <1>2, Invariance, PTL DEF Spec, BookSpec, Book!Spec
================================================================================
