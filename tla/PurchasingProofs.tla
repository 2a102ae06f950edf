--------------------------- MODULE PurchasingProofs ----------------------------
(***************************************************************************)
(* Proofs about Purchasing, for any purchases, products, requests, costs   *)
(* and baskets.                                                            *)
(***************************************************************************)
EXTENDS Purchasing, FiniteSetTheorems, TLAPS

Locking == {"locking", "writing", "reading", "pricing"}

\* What the fields of a task are.
LEMMA TaskFields ==
  ASSUME NEW t \in Tasks \cup {NoTask}
  PROVE  /\ t.kind \in {"none", "create", "edit", "receive", "cancel", "patch"}
         /\ t.kind \in {"edit", "receive", "cancel"} => t.purchase \in Purchase
         /\ t.kind \in {"create", "edit"} => t.basket \in Basket
         /\ t.kind = "patch" =>
              /\ t.product \in Product
              /\ t.field = "cost" => t.value \in Cost
              /\ t.field # "cost" => t.value \in Name
  BY DEF Tasks, NoTask

\* The lines of a basket are lines.
LEMMA BasketLines ==
  ASSUME NEW b \in Basket \cup {<<>>}
  PROVE  /\ Len(b) \in Nat
         /\ \A i \in 1..Len(b) : b[i].product \in Product /\ b[i].cost \in Cost
  <1> DEFINE Line == [product : Product, cost : Cost]
  <1>1. CASE b \in Basket
    <2>1. b \in Seq(Line)
      BY <1>1, BasketAssumption
    <2>2. Len(b) \in Nat /\ \A i \in 1..Len(b) : b[i] \in Line
      <3> HIDE DEF Line
      <3> QED
        BY <2>1
    <2> QED
      BY <2>2
  <1>2. CASE b = <<>>
    BY <1>2
  <1> QED
    BY <1>1, <1>2

\* If the numbers in use are 1, ..., n, the last of them is n.
LEMMA LastNumberIs ==
  ASSUME NEW n \in Nat, {number[p] : p \in Saved} = 1..n
  PROVE  LastNumber = n
  <1>1. {0} \cup {number[p] : p \in Saved} = 0..n
    OBVIOUS
  <1>2. n \in 0..n /\ \A y \in 0..n : n >= y
    OBVIOUS
  <1>3. \A x \in 0..n : (\A y \in 0..n : x >= y) => x = n
    OBVIOUS
  <1> QED
    BY <1>1, <1>2, <1>3 DEF LastNumber, Max

LEMMA InitIInv == Init => IInv
  <1> SUFFICES ASSUME Init PROVE IInv
    OBVIOUS
  <1>1. TypeOK
    BY DEF Init, TypeOK, Rows
  <1>2. Saved = {}
    BY DEF Init, Saved
  <1>3. IsFiniteSet(Saved) /\ Cardinality(Saved) = 0
    BY <1>2, FS_EmptySet
  <1>4. NumbersAreSequential
    BY <1>2, <1>3 DEF NumbersAreSequential
  <1>5. ReceivedAsRecorded /\ LinesAreCurrent /\ LockDiscipline
    BY DEF Init, ReceivedAsRecorded, LinesAreCurrent, LockDiscipline
  <1>6. NumberIsNext
    BY <1>3 DEF Init, NumberIsNext
  <1> QED
    BY <1>1, <1>4, <1>5, <1>6 DEF IInv

(***************************************************************************)
(* A request that ends without changing a row: refusals and Rollback.      *)
(***************************************************************************)
LEMMA AbandonIInv ==
  ASSUME IInv, NEW r \in Request, NEW answer \in {"refused", "failed"},
         Abandon(r, answer)
  PROVE  IInv'
  <1> USE DEF IInv, Abandon, End, Goto, rows, mine
  <1>1. TypeOK'
    BY DEF TypeOK, Answered
  <1>2. ReceivedAsRecorded' /\ NumbersAreSequential'
    BY DEF ReceivedAsRecorded, NumbersAreSequential, Saved
  <1>3. LinesAreCurrent'
    BY DEF LinesAreCurrent, TypeOK
  <1>4. LockDiscipline'
    <2> SUFFICES ASSUME NEW q \in Request PROVE LockDiscipline!(q)'
      BY DEF LockDiscipline
    <2>1. CASE q = r
      BY <2>1 DEF TypeOK
    <2>2. CASE q # r
      <3>1. pc'[q] = pc[q]
        BY <2>2 DEF TypeOK
      <3>2. pc[q] \in Locking => task[q].purchase \in Purchase
        BY TaskFields DEF LockDiscipline, TypeOK, Locking
      <3> QED
        BY <2>2, <3>1, <3>2 DEF LockDiscipline, TypeOK, Resources, Locking
    <2> QED
      BY <2>1, <2>2
  <1>5. NumberIsNext'
    BY DEF NumberIsNext, TypeOK, Resources, Saved
  <1> QED
    BY <1>1, <1>2, <1>3, <1>4, <1>5

(***************************************************************************)
(* The steps before a request holds anything: it arrives, a PATCH loads    *)
(* its product, a new draft is numbered.                                   *)
(***************************************************************************)
LEMMA ArriveIInv ==
  ASSUME IInv, NEW r \in Request, Arrive(r)
  PROVE  IInv'
  <1> USE DEF IInv, Goto, rows, mine
  <1>1. PICK t \in Tasks :
          /\ task' = [task EXCEPT ![r] = t]
          /\ pc' = [pc EXCEPT ![r] = CASE t.kind = "create" -> "settings"
                                       [] t.kind = "patch"  -> "loading"
                                       [] OTHER             -> "locking"]
    BY DEF Arrive
  <1>2. /\ t.kind \in {"create", "edit", "receive", "cancel", "patch"}
        /\ pc[r] = "new" /\ UNCHANGED <<rows, product, intended, holder, mine>>
    BY DEF Arrive, Tasks
  <1>3. pc'[r] = CASE t.kind = "create" -> "settings"
                   [] t.kind = "patch"  -> "loading"
                   [] OTHER             -> "locking"
    BY <1>1 DEF TypeOK
  <1>4. TypeOK'
    BY <1>1, <1>2 DEF TypeOK
  <1>5. ReceivedAsRecorded' /\ NumbersAreSequential'
    BY <1>2 DEF ReceivedAsRecorded, NumbersAreSequential, Saved
  <1>6. \A q \in Request : q # r => pc'[q] = pc[q] /\ task'[q] = task[q]
    BY <1>1 DEF TypeOK
  <1>7. LinesAreCurrent'
    BY <1>2, <1>3, <1>6 DEF LinesAreCurrent
  <1>8. LockDiscipline'
    BY <1>1, <1>2, <1>3, <1>6 DEF LockDiscipline, TypeOK
  <1>9. NumberIsNext'
    BY <1>2, <1>3, <1>6 DEF NumberIsNext, Saved
  <1> QED
    BY <1>4, <1>5, <1>7, <1>8, <1>9

LEMMA LoadProductIInv ==
  ASSUME IInv, NEW r \in Request, LoadProduct(r)
  PROVE  IInv'
  <1> USE DEF IInv, LoadProduct, Goto, rows
  <1>1. task[r].product \in Product
    BY TaskFields DEF LockDiscipline, TypeOK
  <1>2. TypeOK'
    BY <1>1 DEF TypeOK
  <1>3. ReceivedAsRecorded' /\ NumbersAreSequential'
    BY DEF ReceivedAsRecorded, NumbersAreSequential, Saved
  <1>4. LinesAreCurrent' /\ LockDiscipline' /\ NumberIsNext'
    BY DEF LinesAreCurrent, LockDiscipline, NumberIsNext, TypeOK, Saved
  <1> QED
    BY <1>2, <1>3, <1>4

\* The settings row is free, so nobody else is numbering or drafting.
LEMMA LockSettingsIInv ==
  ASSUME IInv, NEW r \in Request, LockSettings(r)
  PROVE  IInv'
  <1> USE DEF IInv, LockSettings, Acquire, Goto, rows, mine
  <1>1. Settings \in Resources
    BY DEF Resources
  <1>2. TypeOK'
    BY <1>1 DEF TypeOK
  <1>3. ReceivedAsRecorded' /\ NumbersAreSequential'
    BY DEF ReceivedAsRecorded, NumbersAreSequential, Saved
  <1>4. LinesAreCurrent'
    BY DEF LinesAreCurrent, TypeOK
  <1>5. LockDiscipline'
    BY FreeAssumption DEF LockDiscipline, TypeOK
  <1>6. NumberIsNext'
    BY <1>1, FreeAssumption DEF NumberIsNext, TypeOK, Saved
  <1> QED
    BY <1>2, <1>3, <1>4, <1>5, <1>6

LEMMA ReadNumberIInv ==
  ASSUME IInv, NEW r \in Request, ReadNumber(r)
  PROVE  IInv'
  <1> USE DEF IInv, ReadNumber, Goto, rows
  <1>1. Cardinality(Saved) \in Nat
    BY FS_CardinalityType DEF NumberIsNext
  <1>2. LastNumber = Cardinality(Saved)
    BY <1>1, LastNumberIs DEF NumbersAreSequential
  <1>3. TypeOK'
    BY <1>1, <1>2 DEF TypeOK
  <1>4. ReceivedAsRecorded' /\ NumbersAreSequential'
    BY DEF ReceivedAsRecorded, NumbersAreSequential, Saved
  <1>5. LinesAreCurrent' /\ LockDiscipline'
    BY DEF LinesAreCurrent, LockDiscipline, TypeOK
  <1>6. Saved' = Saved
    BY DEF Saved
  <1>7. NumberIsNext'
    BY <1>2, <1>6 DEF NumberIsNext, TypeOK
  <1> QED
    BY <1>3, <1>4, <1>5, <1>7

(***************************************************************************)
(* The new draft takes the number after the last: nobody else has drafted  *)
(* since it was read, because the settings row was held.                   *)
(***************************************************************************)
LEMMA CommitDraftIInv ==
  ASSUME IInv, NEW r \in Request, CommitDraft(r)
  PROVE  IInv'
  <1> USE DEF IInv, End, Goto, mine
  <1> DEFINE n == Cardinality(Saved)
  <1>1. PICK p \in Purchase \ Saved :
          /\ status' = [status EXCEPT ![p] = "DRAFT"]
          /\ number' = [number EXCEPT ![p] = next[r]]
          /\ items' = [items EXCEPT ![p] = task[r].basket]
    BY DEF CommitDraft
  <1>2. /\ pc[r] = "drafting" /\ End(r, "committed")
        /\ UNCHANGED <<stocked, audited, product, intended, task, mine>>
    BY DEF CommitDraft
  <1>3. task[r].basket \in Basket
    <2>1. task[r] \in Tasks \cup {NoTask} /\ task[r].kind = "create"
      BY <1>2 DEF LockDiscipline, TypeOK
    <2> QED
      BY <2>1, TaskFields
  <1>4. n \in Nat /\ next[r] = n + 1
    BY <1>2, FS_CardinalityType DEF NumberIsNext
  <1>5. status[p] = "ABSENT"
    BY <1>1 DEF Saved
  <1>6. Saved' = Saved \cup {p}
    BY <1>1 DEF Saved, TypeOK
  <1>7. IsFiniteSet(Saved') /\ Cardinality(Saved') = n + 1
    <2>1. IsFiniteSet(Saved) /\ p \notin Saved
      BY <1>1 DEF NumberIsNext
    <2> QED
      BY <1>6, <2>1, FS_AddElement
  <1>8. TypeOK'
    BY <1>1, <1>2, <1>3 DEF TypeOK, Answered
  <1>9. ReceivedAsRecorded'
    BY <1>1, <1>2, <1>3, <1>5, NothingAssumption DEF ReceivedAsRecorded, TypeOK
  <1>10. NumbersAreSequential'
    <2>1. {number'[x] : x \in Saved \cup {p}} = {number[x] : x \in Saved} \cup {n + 1}
      <3>1. number'[p] = n + 1 /\ \A x \in Saved : number'[x] = number[x]
        BY <1>1, <1>4 DEF Saved, TypeOK
      <3> QED
        BY <3>1
    <2>2. (1..n) \cup {n + 1} = 1..(n + 1)
      BY <1>4
    <2> QED
      BY <1>6, <1>7, <2>1, <2>2 DEF NumbersAreSequential
  <1>11. \A q \in Request : q # r => pc'[q] = pc[q]
    BY <1>2 DEF TypeOK
  <1>12. pc'[r] = "committed"
    BY <1>2 DEF TypeOK
  <1>13. ASSUME NEW q \in Request, pc[q] \in {"writing", "reading", "pricing"}
         PROVE  task[q].purchase \in Purchase /\ task[q].purchase # p
    <2>1. task[q].purchase \in Purchase
      BY <1>13, TaskFields DEF LockDiscipline, TypeOK
    <2> QED
      BY <1>13, <2>1, <1>5 DEF LockDiscipline
  <1>14. LinesAreCurrent'
    BY <1>1, <1>2, <1>11, <1>12, <1>13 DEF LinesAreCurrent, TypeOK
  <1>15. LockDiscipline'
    <2> SUFFICES ASSUME NEW q \in Request, q # r PROVE LockDiscipline!(q)'
      BY <1>12 DEF LockDiscipline
    <2> QED
      BY <1>1, <1>2, <1>11, <1>13 DEF LockDiscipline, TypeOK, Resources
  <1>16. NumberIsNext'
    <2>1. ASSUME NEW q \in Request, q # r
          PROVE  pc[q] \notin {"numbering", "drafting"}
      BY <1>2, <2>1 DEF NumberIsNext
    <2> QED
      BY <1>7, <1>11, <1>12, <2>1 DEF NumberIsNext
  <1> QED
    BY <1>8, <1>9, <1>10, <1>14, <1>15, <1>16

(***************************************************************************)
(* From here on a request works on a purchase it holds.  Nobody else can   *)
(* be past the lock on the same purchase.                                  *)
(***************************************************************************)
LEMMA LockPurchaseIInv ==
  ASSUME IInv, NEW r \in Request, LockPurchase(r)
  PROVE  IInv'
  <1> DEFINE p == task[r].purchase
  <1>1. pc[r] = "locking" /\ p \in Purchase /\ task[r].kind \in {"edit", "receive", "cancel"}
    BY TaskFields DEF IInv, LockDiscipline, TypeOK, LockPurchase
  <1>2. CASE status[p] # "DRAFT"
    BY <1>2, AbandonIInv DEF LockPurchase
  <1>3. CASE status[p] = "DRAFT"
    <2> USE DEF IInv, Acquire, Goto, rows, mine
    <2>1. /\ holder[p] = Free /\ holder' = [holder EXCEPT ![p] = r]
          /\ pc' = [pc EXCEPT ![r] = IF task[r].kind = "receive" THEN "reading" ELSE "writing"]
          /\ UNCHANGED <<rows, product, intended, task, mine>>
      BY <1>3 DEF LockPurchase
    <2>2. p \in Resources
      BY <1>1 DEF Resources
    <2>3. TypeOK'
      BY <2>1, <2>2 DEF TypeOK
    <2>4. ReceivedAsRecorded' /\ NumbersAreSequential'
      BY <2>1 DEF ReceivedAsRecorded, NumbersAreSequential, Saved
    <2>5. LinesAreCurrent'
      BY <2>1 DEF LinesAreCurrent, TypeOK
    <2>6. LockDiscipline'
      <3> SUFFICES ASSUME NEW q \in Request PROVE LockDiscipline!(q)'
        BY DEF LockDiscipline
      <3>1. CASE q = r
        BY <1>1, <1>3, <2>1, <2>2, <3>1 DEF LockDiscipline, TypeOK
      <3>2. CASE q # r
        <4>1. pc'[q] = pc[q]
          BY <2>1, <3>2 DEF TypeOK
        <4>2. \A x \in Resources : holder[x] = q => holder'[x] = q
          BY <2>1, <2>2, <3>2, FreeAssumption DEF TypeOK
        <4>3. pc[q] \in Locking => task[q].purchase \in Resources
          BY TaskFields DEF LockDiscipline, TypeOK, Resources, Locking
        <4> QED
          BY <2>1, <4>1, <4>2, <4>3 DEF LockDiscipline, Locking
      <3> QED
        BY <3>1, <3>2
    <2>7. NumberIsNext'
      <3>1. \A x \in Resources, q \in Request : holder[x] = q => holder'[x] = q
        BY <2>1, <2>2, FreeAssumption DEF TypeOK
      <3>2. \A q \in Request : pc'[q] \in {"numbering", "drafting"} => pc'[q] = pc[q]
        BY <1>1, <2>1 DEF TypeOK
      <3>3. Saved' = Saved
        BY <2>1 DEF Saved
      <3> QED
        BY <2>1, <3>1, <3>2, <3>3 DEF NumberIsNext, Resources
    <2> QED
      BY <2>3, <2>4, <2>5, <2>6, <2>7
  <1> QED
    BY <1>2, <1>3

LEMMA ReadItemsIInv ==
  ASSUME IInv, NEW r \in Request, ReadItems(r)
  PROVE  IInv'
  <1> USE DEF IInv, ReadItems, Goto, rows
  <1> DEFINE p == task[r].purchase
  <1>1. p \in Purchase /\ status[p] = "DRAFT"
    BY TaskFields DEF LockDiscipline, TypeOK
  <1>2. items[p] \in Basket
    BY <1>1 DEF ReceivedAsRecorded, TypeOK
  <1>3. TypeOK'
    BY <1>2 DEF TypeOK
  <1>4. ReceivedAsRecorded' /\ NumbersAreSequential'
    BY DEF ReceivedAsRecorded, NumbersAreSequential, Saved
  <1>5. LinesAreCurrent'
    BY <1>1 DEF LinesAreCurrent, TypeOK
  <1>6. LockDiscipline' /\ NumberIsNext'
    BY DEF LockDiscipline, NumberIsNext, TypeOK, Saved
  <1> QED
    BY <1>3, <1>4, <1>5, <1>6

LEMMA UpdateCostIInv ==
  ASSUME IInv, NEW r \in Request, UpdateCost(r)
  PROVE  IInv'
  <1> USE DEF IInv, UpdateCost, Acquire, rows
  <1> DEFINE line == lines[r][done[r] + 1]
  <1>1. lines[r] \in Basket \cup {<<>>} /\ done[r] \in Nat
    BY DEF TypeOK
  <1>2. done[r] + 1 \in 1..Len(lines[r])
    BY <1>1, BasketLines
  <1>3. line.product \in Product /\ line.cost \in Cost
    BY <1>1, <1>2, BasketLines
  <1>4. line.product \in Resources
    BY <1>3 DEF Resources
  <1>5. TypeOK'
    BY <1>1, <1>3, <1>4 DEF TypeOK
  <1>6. ReceivedAsRecorded' /\ NumbersAreSequential'
    BY DEF ReceivedAsRecorded, NumbersAreSequential, Saved
  <1>7. LinesAreCurrent'
    BY DEF LinesAreCurrent, TypeOK
  <1>8. \A x \in Resources, q \in Request : holder[x] = q => holder'[x] = q
    BY <1>4, FreeAssumption DEF TypeOK
  <1>9. LockDiscipline'
    <2> SUFFICES ASSUME NEW q \in Request PROVE LockDiscipline!(q)'
      BY DEF LockDiscipline
    <2>1. pc[q] \in Locking => task[q].purchase \in Resources
      BY TaskFields DEF LockDiscipline, TypeOK, Resources, Locking
    <2> QED
      BY <1>8, <2>1 DEF LockDiscipline, Locking
  <1>10. NumberIsNext'
    BY <1>8 DEF NumberIsNext, Resources, Saved
  <1> QED
    BY <1>5, <1>6, <1>7, <1>9, <1>10

(***************************************************************************)
(* The request that ends with a draft of its own: CommitEdit,              *)
(* CommitCancel and CommitReceive change that purchase and no other, so    *)
(* what another request holds and has read stays as it was.                *)
(***************************************************************************)
LEMMA OwnDraft ==
  ASSUME IInv, NEW r \in Request, pc[r] \in {"writing", "reading", "pricing"}
  PROVE  /\ task[r].purchase \in Purchase
         /\ status[task[r].purchase] = "DRAFT"
         /\ task[r].kind = "edit" => task[r].basket \in Basket
         /\ items[task[r].purchase] \in Basket
         /\ \A q \in Request :
              /\ q # r
              /\ pc[q] \in {"writing", "reading", "pricing"}
              => task[q].purchase # task[r].purchase
  <1>1. task[r] \in Tasks \cup {NoTask} /\ task[r].kind \in {"edit", "receive", "cancel"}
    BY DEF IInv, LockDiscipline, TypeOK
  <1>2. task[r].purchase \in Purchase /\ (task[r].kind = "edit" => task[r].basket \in Basket)
    BY <1>1, TaskFields
  <1>3. status[task[r].purchase] = "DRAFT" /\ holder[task[r].purchase] = r
    BY DEF IInv, LockDiscipline
  <1>4. items[task[r].purchase] \in Basket
    BY <1>2, <1>3 DEF IInv, ReceivedAsRecorded, TypeOK
  <1> QED
    BY <1>2, <1>3, <1>4 DEF IInv, LockDiscipline

LEMMA CommitOwnIInv ==
  ASSUME IInv, NEW r \in Request, pc[r] \in {"writing", "pricing"},
         End(r, "committed"), UNCHANGED <<number, task, mine>>,
         TypeOK', ReceivedAsRecorded',
         \A p \in Purchase :
           /\ p # task[r].purchase => status'[p] = status[p] /\ items'[p] = items[p]
           /\ status'[p] = "ABSENT" <=> status[p] = "ABSENT"
  PROVE  IInv'
  <1> USE DEF IInv, mine
  <1>1. Saved' = Saved
    BY DEF Saved
  <1>2. NumbersAreSequential'
    BY <1>1 DEF NumbersAreSequential
  <1>3. pc'[r] = "committed" /\ \A q \in Request : q # r => pc'[q] = pc[q]
    BY DEF TypeOK, End, Goto
  <1>4. \A x \in Resources, q \in Request : q # r /\ holder[x] = q => holder'[x] = q
    BY DEF TypeOK, End
  <1>5. ASSUME NEW q \in Request, q # r, pc[q] \in {"writing", "reading", "pricing"}
        PROVE  /\ task[q].purchase \in Purchase
               /\ status'[task[q].purchase] = status[task[q].purchase]
               /\ items'[task[q].purchase] = items[task[q].purchase]
    BY <1>5, OwnDraft
  <1>6. LinesAreCurrent'
    BY <1>3, <1>5 DEF LinesAreCurrent
  <1>7. LockDiscipline'
    BY <1>3, <1>4, <1>5 DEF LockDiscipline, Resources
  <1>8. NumberIsNext'
    BY <1>1, <1>3, <1>4 DEF NumberIsNext, Resources
  <1> QED
    BY <1>2, <1>6, <1>7, <1>8

LEMMA CommitEditIInv ==
  ASSUME IInv, NEW r \in Request, CommitEdit(r)
  PROVE  IInv'
  <1> USE DEF CommitEdit
  <1>1. /\ task[r].purchase \in Purchase /\ status[task[r].purchase] = "DRAFT"
        /\ task[r].basket \in Basket
    BY OwnDraft
  <1>2. TypeOK'
    BY <1>1 DEF IInv, TypeOK, End, Goto, Answered, mine
  <1>3. ReceivedAsRecorded'
    BY <1>1, NothingAssumption DEF IInv, ReceivedAsRecorded, TypeOK
  <1>4. \A p \in Purchase : p # task[r].purchase => items'[p] = items[p]
    BY DEF IInv, TypeOK
  <1> QED
    BY <1>2, <1>3, <1>4, CommitOwnIInv

LEMMA CommitCancelIInv ==
  ASSUME IInv, NEW r \in Request, CommitCancel(r)
  PROVE  IInv'
  <1> USE DEF CommitCancel
  <1> DEFINE p == task[r].purchase
  <1>1. p \in Purchase /\ status[p] = "DRAFT"
    BY OwnDraft
  <1>2. TypeOK'
    BY <1>1 DEF IInv, TypeOK, End, Goto, Answered, mine
  <1>3. ReceivedAsRecorded'
    BY <1>1 DEF IInv, ReceivedAsRecorded, TypeOK
  <1>4. \A q \in Purchase : /\ q # p => status'[q] = status[q]
                            /\ status'[q] = "ABSENT" <=> status[q] = "ABSENT"
    BY <1>1 DEF IInv, TypeOK
  <1> QED
    BY <1>2, <1>3, <1>4, CommitOwnIInv

LEMMA CommitReceiveIInv ==
  ASSUME IInv, NEW r \in Request, CommitReceive(r)
  PROVE  IInv'
  <1> USE DEF CommitReceive
  <1> DEFINE p == task[r].purchase
  <1>1. p \in Purchase /\ status[p] = "DRAFT" /\ items[p] \in Basket
    BY OwnDraft
  <1>2. lines[r] = items[p]
    BY DEF IInv, LinesAreCurrent
  <1>3. product' \in [Product -> Rows] /\ intended' \in [Product -> Cost]
    BY DEF IInv, TypeOK, Rows
  <1>4. TypeOK'
    BY <1>1, <1>2, <1>3 DEF IInv, TypeOK, End, Goto, Answered, mine
  <1>5. ReceivedAsRecorded'
    BY <1>1, <1>2 DEF IInv, ReceivedAsRecorded, TypeOK
  <1>6. \A q \in Purchase : /\ q # p => status'[q] = status[q]
                            /\ status'[q] = "ABSENT" <=> status[q] = "ABSENT"
    BY <1>1 DEF IInv, TypeOK
  <1> QED
    BY <1>4, <1>5, <1>6, CommitOwnIInv

\* A product PATCH touches no purchase.
LEMMA SaveProductIInv ==
  ASSUME IInv, NEW r \in Request, SaveProduct(r)
  PROVE  IInv'
  <1> USE DEF IInv, SaveProduct, rows, mine
  <1> DEFINE t == task[r]
  <1>1. t \in Tasks \cup {NoTask} /\ t.kind = "patch"
    BY DEF LockDiscipline, TypeOK
  <1>2. /\ t.product \in Product
        /\ t.field = "cost" => t.value \in Cost
        /\ t.field # "cost" => t.value \in Name
    BY <1>1, TaskFields
  <1>3. product' \in [Product -> Rows] /\ intended' \in [Product -> Cost]
    BY <1>2 DEF TypeOK, Rows
  <1>4. TypeOK'
    BY <1>3 DEF TypeOK, End, Goto, Answered
  <1>5. ReceivedAsRecorded' /\ NumbersAreSequential' /\ Saved' = Saved
    BY DEF ReceivedAsRecorded, NumbersAreSequential, Saved
  <1>6. pc'[r] = "committed" /\ \A q \in Request : q # r => pc'[q] = pc[q]
    BY DEF TypeOK, End, Goto
  <1>7. \A x \in Resources, q \in Request : q # r /\ holder[x] = q => holder'[x] = q
    BY DEF TypeOK, End
  <1>8. LinesAreCurrent'
    BY <1>6 DEF LinesAreCurrent
  <1>9. LockDiscipline'
    <2> SUFFICES ASSUME NEW q \in Request, q # r PROVE LockDiscipline!(q)'
      BY <1>6 DEF LockDiscipline
    <2>1. pc[q] \in Locking => task[q].purchase \in Resources
      BY TaskFields DEF LockDiscipline, TypeOK, Resources, Locking
    <2> QED
      BY <1>6, <1>7, <2>1 DEF LockDiscipline, Locking
  <1>10. NumberIsNext'
    BY <1>5, <1>6, <1>7 DEF NumberIsNext, Resources
  <1> QED
    BY <1>4, <1>5, <1>8, <1>9, <1>10

LEMMA StepIInv == IInv /\ [Next]_vars => IInv'
  <1> SUFFICES ASSUME IInv, [Next]_vars PROVE IInv'
    OBVIOUS
  <1>1. CASE UNCHANGED vars
    <2> USE <1>1 DEF vars, rows, mine, IInv
    <2>1. TypeOK' /\ ReceivedAsRecorded'
      BY DEF TypeOK, ReceivedAsRecorded
    <2>2. NumbersAreSequential' /\ NumberIsNext'
      BY DEF NumbersAreSequential, NumberIsNext, Saved
    <2>3. LinesAreCurrent' /\ LockDiscipline'
      BY DEF LinesAreCurrent, LockDiscipline
    <2> QED
      BY <2>1, <2>2, <2>3
  <1>2. ASSUME NEW r \in Request, Rollback(r) PROVE IInv'
    BY <1>2, AbandonIInv DEF Rollback
  <1> QED
    BY <1>1, <1>2, ArriveIInv, LockSettingsIInv, ReadNumberIInv, CommitDraftIInv,
       LockPurchaseIInv, CommitEditIInv, CommitCancelIInv, ReadItemsIInv, UpdateCostIInv,
       CommitReceiveIInv, LoadProductIInv, SaveProductIInv DEF Next

--------------------------------------------------------------------------------
(***************************************************************************)
(* The inductive invariant holds in every reachable state.                 *)
(***************************************************************************)
THEOREM Invariance == Spec => []IInv
  <1> QED
    BY InitIInv, StepIInv, PTL DEF Spec

(***************************************************************************)
(* Every variable keeps its type.                                          *)
(***************************************************************************)
THEOREM TypeCorrect == Spec => []TypeOK
  <1>1. IInv => TypeOK
    BY DEF IInv
  <1> QED
    BY <1>1, Invariance, PTL

(***************************************************************************)
(* However edits, receipts and cancellations of a purchase race: stock is  *)
(* written exactly for received purchases, for the lines on record, and a  *)
(* cancellation is logged once.                                            *)
(***************************************************************************)
THEOREM AlwaysReceivedAsRecorded == Spec => []ReceivedAsRecorded
  <1>1. IInv => ReceivedAsRecorded
    BY DEF IInv
  <1> QED
    BY <1>1, Invariance, PTL

(***************************************************************************)
(* Purchase numbers have no gap and no duplicate, for any number of        *)
(* concurrent drafts and failures.                                         *)
(***************************************************************************)
THEOREM NumbersNeverSkip == Spec => []NumbersAreSequential
  <1>1. IInv => NumbersAreSequential
    BY DEF IInv
  <1> QED
    BY <1>1, Invariance, PTL

(***************************************************************************)
(* What a receipt works from stays what is on record.                      *)
(***************************************************************************)
THEOREM LinesStayCurrent == Spec => []LinesAreCurrent
  <1>1. IInv => LinesAreCurrent
    BY DEF IInv
  <1> QED
    BY <1>1, Invariance, PTL

LEMMA StepRefines == IInv /\ [Next]_vars => [Book!Next]_Book!book
  <1> SUFFICES ASSUME IInv, [Next]_vars PROVE [Book!Next]_Book!book
    OBVIOUS
  <1>1. CASE UNCHANGED <<status, items, stocked>>
    BY <1>1 DEF Book!book
  <1>2. ASSUME NEW r \in Request, CommitDraft(r) PROVE Book!Next
    <2>1. task[r] \in Tasks \cup {NoTask} /\ task[r].kind = "create"
      BY <1>2 DEF CommitDraft, IInv, LockDiscipline, TypeOK
    <2>2. task[r].basket \in Basket
      BY <2>1, TaskFields
    <2>3. PICK p \in Purchase \ Saved :
            /\ status' = [status EXCEPT ![p] = "DRAFT"]
            /\ items' = [items EXCEPT ![p] = task[r].basket]
      BY <1>2 DEF CommitDraft
    <2>4. Book!Save(p)
      BY <1>2, <2>2, <2>3 DEF CommitDraft, Saved, Book!Save
    <2> QED
      BY <2>4 DEF Book!Next
  <1>3. ASSUME NEW r \in Request, CommitEdit(r) PROVE Book!Next
    <2> DEFINE p == task[r].purchase
    <2>1. p \in Purchase /\ status[p] = "DRAFT" /\ task[r].basket \in Basket
      BY <1>3, OwnDraft DEF CommitEdit
    <2>2. status = [status EXCEPT ![p] = "DRAFT"]
      BY <2>1 DEF IInv, TypeOK
    <2>3. Book!Save(p)
      BY <1>3, <2>1, <2>2 DEF CommitEdit, Book!Save
    <2> QED
      BY <2>1, <2>3 DEF Book!Next
  <1>4. ASSUME NEW r \in Request, CommitCancel(r) PROVE Book!Next
    <2>1. task[r].purchase \in Purchase /\ Book!Cancel(task[r].purchase)
      BY <1>4, OwnDraft DEF CommitCancel, Book!Cancel
    <2> QED
      BY <2>1 DEF Book!Next
  <1>5. ASSUME NEW r \in Request, CommitReceive(r) PROVE Book!Next
    <2>1. lines[r] = items[task[r].purchase]
      BY <1>5 DEF CommitReceive, IInv, LinesAreCurrent
    <2>2. task[r].purchase \in Purchase /\ Book!Receive(task[r].purchase)
      BY <1>5, <2>1, OwnDraft DEF CommitReceive, Book!Receive
    <2> QED
      BY <2>2 DEF Book!Next
  <1>6. \/ UNCHANGED <<status, items, stocked>>
        \/ \E r \in Request : CommitDraft(r) \/ CommitEdit(r) \/ CommitCancel(r)
                               \/ CommitReceive(r)
    BY DEF Next, vars, rows, Arrive, LockSettings, ReadNumber, LockPurchase, ReadItems,
           UpdateCost, LoadProduct, SaveProduct, Rollback, Abandon
  <1> QED
    BY <1>1, <1>2, <1>3, <1>4, <1>5, <1>6

(***************************************************************************)
(* Concurrent drafting, editing, receiving and cancelling implement the    *)
(* abstract purchase book: once received or cancelled, always so.          *)
(***************************************************************************)
THEOREM Implements == Spec => BookSpec
  <1>1. Init => Book!Init
    BY DEF Init, Book!Init
  <1> QED
    BY <1>1, Invariance, StepRefines, PTL DEF Spec, BookSpec, Book!Spec
================================================================================
