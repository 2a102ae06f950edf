------------------------------ MODULE ShopProofs -------------------------------
(***************************************************************************)
(* Proofs about Shop, for any requests, carts, batches and purchases: what *)
(* the lock on the settings row gives to the sales.                        *)
(*                                                                         *)
(* Nothing is assumed of the plans and lists that folds and sorts compute: *)
(* what follows holds whatever batches a request locks or writes.          *)
(***************************************************************************)
EXTENDS Shop, FiniteSetTheorems, TLAPS

(***************************************************************************)
(* The inductive invariant.                                                *)
(***************************************************************************)
Labels == {"new", "settings", "numbering", "locking", "document",
           "resolving", "creating", "moving", "pricing"} \cup Answered

ControlOK ==
  /\ holder \in [Resources -> Request \cup {Free}]
  /\ pc \in [Request -> Labels]
  /\ number \in [Request -> Nat]
  /\ job = [r \in Request |-> job[r]]
  /\ sales = [r \in Request |-> [status |-> sales[r].status, number |-> sales[r].number,
                                 allocations |-> sales[r].allocations]]

\* Only a transaction that is under way holds a lock.
HoldersWork ==
  \A x \in Resources, r \in Request :
    holder[x] = r => pc[r] \notin Answered \cup {"new", "settings"}

\* A sale past its first statement holds the settings row.
SalesHoldSettings ==
  \A r \in Request :
    job[r].kind = "sale" /\ pc[r] \in {"numbering", "locking", "moving"}
      => holder[Settings] = r

\* Sales share no step but the movements with the other requests.
RoadsAreSplit ==
  \A r \in Request :
    /\ pc[r] \in {"settings", "numbering", "locking"} => job[r].kind = "sale"
    /\ pc[r] \in {"document", "resolving", "creating", "pricing"} => job[r].kind # "sale"

\* A sale is recorded when its request is answered, and voided only after.
SalesComeFirst ==
  \A r \in Request :
    /\ pc[r] \notin Answered => sales[r].status = "ABSENT"
    /\ sales[r].status = "ABSENT" => sales[r].number = 0
    /\ job[r].kind = "void" /\ job[r].sale \in Request
         => sales[job[r].sale].status # "ABSENT"

\* The number a sale has read is still the next when it commits.
NumberIsNext ==
  /\ IsFiniteSet(Recorded)
  /\ \A r \in Request :
       job[r].kind = "sale" /\ pc[r] \in {"locking", "moving"}
         => number[r] = Cardinality(Recorded) + 1

IInv ==
  /\ ControlOK /\ HoldersWork /\ SalesHoldSettings /\ RoadsAreSplit /\ SalesComeFirst
  /\ ReceiptsAreSequential /\ NumberIsNext

--------------------------------------------------------------------------------
LEMMA InitIInv == Init => IInv
  <1> SUFFICES ASSUME Init PROVE IInv
    OBVIOUS
  <1>1. ControlOK
    BY DEF Init, ControlOK, Labels, NoSale
  <1>2. HoldersWork
    BY NobodyAssumption DEF Init, HoldersWork
  <1>3. SalesHoldSettings /\ RoadsAreSplit /\ SalesComeFirst
    BY DEF Init, SalesHoldSettings, RoadsAreSplit, SalesComeFirst, NoSale, NoJob
  <1>4. Recorded = {}
    BY DEF Init, Recorded, NoSale
  <1>5. IsFiniteSet(Recorded) /\ Cardinality(Recorded) = 0
    BY <1>4, FS_EmptySet
  <1>6. ReceiptsAreSequential
    BY <1>4, <1>5 DEF ReceiptsAreSequential
  <1>7. NumberIsNext
    BY <1>5 DEF Init, NumberIsNext
  <1> QED
    BY <1>1, <1>2, <1>3, <1>6, <1>7 DEF IInv

(***************************************************************************)
(* A request arrives: it holds nothing yet.                                *)
(***************************************************************************)
LEMMA ArriveIInv ==
  ASSUME IInv, NEW r \in Request, Arrive(r)
  PROVE  IInv'
  <1> USE DEF IInv, Goto, tables
  <1>1. PICK j \in JobsOf[r] :
          /\ job' = [job EXCEPT ![r] = j]
          /\ j.kind \in {"sale", "void", "receive", "adjust"}
          /\ pc' = [pc EXCEPT ![r] = CASE j.kind = "sale" -> "settings"
                                       [] j.kind = "adjust" -> "resolving"
                                       [] OTHER -> "document"]
          /\ j.kind = "void" => sales[j.sale].status # "ABSENT"
    BY DEF Arrive, RequestSale, RequestVoid, RequestStock
  <1>2. pc[r] = "new" /\ UNCHANGED <<holder, sales, number>>
    BY DEF Arrive, RequestSale, RequestVoid, RequestStock
  <1>3. /\ job'[r] = j
        /\ pc'[r] = CASE j.kind = "sale" -> "settings"
                      [] j.kind = "adjust" -> "resolving"
                      [] OTHER -> "document"
        /\ \A q \in Request \ {r} : job'[q] = job[q] /\ pc'[q] = pc[q]
    BY <1>1 DEF ControlOK
  <1>4. ControlOK'
    <2>1. pc' \in [Request -> Labels]
      BY <1>1 DEF ControlOK, Labels
    <2>2. job' = [q \in Request |-> job'[q]]
      BY <1>1 DEF ControlOK
    <2> QED
      BY <1>2, <2>1, <2>2 DEF ControlOK
  <1>5. HoldersWork'
    BY <1>2, <1>3 DEF HoldersWork
  <1>6. SalesHoldSettings' /\ RoadsAreSplit'
    BY <1>1, <1>2, <1>3 DEF SalesHoldSettings, RoadsAreSplit
  <1>7. SalesComeFirst'
    BY <1>1, <1>2, <1>3 DEF SalesComeFirst, Answered
  <1>8. ReceiptsAreSequential' /\ Recorded' = Recorded
    BY <1>2 DEF ReceiptsAreSequential, Recorded
  <1>9. NumberIsNext'
    BY <1>1, <1>2, <1>3, <1>8 DEF NumberIsNext
  <1> QED
    BY <1>4, <1>5, <1>6, <1>7, <1>8, <1>9

(***************************************************************************)
(* A transaction that ends without a commit.                               *)
(***************************************************************************)
LEMMA AbandonIInv ==
  ASSUME IInv, NEW r \in Request, NEW answer \in Answered, Abandon(r, answer)
  PROVE  IInv'
  <1> USE DEF IInv
  <1>1. /\ holder' = [x \in Resources |-> IF holder[x] = r THEN Free ELSE holder[x]]
        /\ pc' = [pc EXCEPT ![r] = answer]
        /\ UNCHANGED <<sales, job, number>>
    BY DEF Abandon, End, Goto, tables, work
  <1>2. pc'[r] = answer /\ \A q \in Request \ {r} : pc'[q] = pc[q]
    BY <1>1 DEF ControlOK
  <1>3. \A x \in Resources : /\ holder[x] # r => holder'[x] = holder[x]
                             /\ holder[x] = r => holder'[x] = Free
    BY <1>1
  <1>4. Settings \in Resources
    BY DEF Resources
  <1>5. ControlOK'
    <2>1. pc' \in [Request -> Labels]
      BY <1>1 DEF ControlOK, Labels
    <2>2. holder' \in [Resources -> Request \cup {Free}]
      BY <1>1 DEF ControlOK
    <2> QED
      BY <1>1, <2>1, <2>2 DEF ControlOK
  <1>6. HoldersWork'
    BY <1>2, <1>3, NobodyAssumption DEF HoldersWork
  <1>7. SalesHoldSettings'
    BY <1>1, <1>2, <1>3, <1>4 DEF SalesHoldSettings, Answered
  <1>8. RoadsAreSplit' /\ SalesComeFirst'
    BY <1>1, <1>2 DEF RoadsAreSplit, SalesComeFirst, Answered
  <1>9. ReceiptsAreSequential' /\ Recorded' = Recorded
    BY <1>1 DEF ReceiptsAreSequential, Recorded
  <1>10. NumberIsNext'
    BY <1>1, <1>2, <1>9 DEF NumberIsNext, Answered
  <1> QED
    BY <1>5, <1>6, <1>7, <1>8, <1>9, <1>10

(***************************************************************************)
(* A transaction goes on from one of its steps to another, and may take a  *)
(* lock that is free or its own.                                           *)
(***************************************************************************)
OfSales  == {<<"settings", "numbering">>, <<"locking", "locking">>,
             <<"locking", "moving">>, <<"moving", "moving">>}
OfOthers == {"document", "resolving", "creating", "moving", "pricing"}

GoesOn(r, label) ==
  /\ pc' = [pc EXCEPT ![r] = label]
  /\ IF job[r].kind = "sale"
     THEN <<pc[r], label>> \in OfSales
     ELSE pc[r] \in OfOthers /\ label \in OfOthers
  /\ \/ holder' = holder /\ pc[r] # "settings"
     \/ \E x : Acquire(r, x) /\ (pc[r] = "settings" => x = Settings)
  /\ UNCHANGED <<sales, job, number>>

LEMMA GoOnIInv ==
  ASSUME IInv, NEW r \in Request, NEW label, GoesOn(r, label)
  PROVE  IInv'
  <1> USE DEF IInv, GoesOn, Acquire
  <1>1. pc[r] \in {"settings", "locking"} \cup OfOthers /\ label \in Labels \ Answered
        /\ pc[r] \notin Answered /\ label \notin {"new", "settings"}
    BY DEF OfSales, OfOthers, Labels, Answered
  <1>2. pc'[r] = label /\ \A q \in Request \ {r} : pc'[q] = pc[q]
    BY DEF ControlOK
  <1>3. Settings \in Resources
    BY DEF Resources
  <1>4. /\ holder' \in [Resources -> Request \cup {Free}]
        /\ \A x \in Resources, q \in Request :
             /\ holder[x] = q => holder'[x] = q
             /\ holder'[x] = q => q = r \/ holder[x] = q
        /\ pc[r] = "settings" => holder'[Settings] = r
    BY <1>3, NobodyAssumption DEF ControlOK
  <1>5. ControlOK'
    BY <1>1, <1>4 DEF ControlOK
  <1>6. HoldersWork'
    BY <1>1, <1>2, <1>4 DEF HoldersWork
  <1>7. SalesHoldSettings'
    <2> SUFFICES ASSUME NEW q \in Request, job[q].kind = "sale",
                        pc'[q] \in {"numbering", "locking", "moving"}
                 PROVE  holder'[Settings] = q
      BY DEF SalesHoldSettings
    <2>1. CASE q = r
      <3>1. pc[r] \in {"settings", "locking", "moving"}
        BY <2>1 DEF OfSales
      <3> QED
        BY <1>3, <1>4, <2>1, <3>1 DEF SalesHoldSettings
    <2>2. CASE q # r
      BY <1>2, <1>3, <1>4, <2>2 DEF SalesHoldSettings
    <2> QED
      BY <2>1, <2>2
  <1>8. RoadsAreSplit'
    BY <1>2 DEF RoadsAreSplit, OfSales, OfOthers
  <1>9. SalesComeFirst'
    BY <1>1, <1>2 DEF SalesComeFirst
  <1>10. ReceiptsAreSequential' /\ Recorded' = Recorded
    BY DEF ReceiptsAreSequential, Recorded
  <1>11. NumberIsNext'
    <2> SUFFICES ASSUME NEW q \in Request, job[q].kind = "sale",
                        pc'[q] \in {"locking", "moving"}
                 PROVE  number[q] = Cardinality(Recorded) + 1
      BY <1>10 DEF NumberIsNext
    <2>1. CASE q = r
      <3>1. pc[r] \in {"locking", "moving"}
        BY <1>2, <2>1 DEF OfSales
      <3> QED
        BY <2>1, <3>1 DEF NumberIsNext
    <2>2. CASE q # r
      BY <1>2, <2>2 DEF NumberIsNext
    <2> QED
      BY <2>1, <2>2
  <1> QED
    BY <1>5, <1>6, <1>7, <1>8, <1>9, <1>10, <1>11

(***************************************************************************)
(* If the numbers in use are 1, ..., n, the last of them is n: a request   *)
(* that has recorded no sale counts as 0.                                  *)
(***************************************************************************)
LEMMA LastNumberIs ==
  ASSUME IInv, NEW n \in Nat, n = Cardinality(Recorded)
  PROVE  LastNumber = n
  <1>1. {sales[s].number : s \in Recorded} = 1..n
    BY DEF IInv, ReceiptsAreSequential
  <1>2. \A s \in Request \ Recorded : sales[s].number = 0
    BY DEF IInv, SalesComeFirst, Recorded
  <1>3. Recorded \subseteq Request
    BY DEF Recorded
  <1>4. {0} \cup {sales[s].number : s \in Request} = 0..n
    <2>1. {0} \cup {sales[s].number : s \in Request}
            = {0} \cup {sales[s].number : s \in Recorded}
      BY <1>2, <1>3
    <2>2. {0} \cup 1..n = 0..n
      OBVIOUS
    <2> QED
      BY <1>1, <2>1, <2>2
  <1>5. n \in 0..n /\ \A y \in 0..n : n >= y
    OBVIOUS
  <1>6. \A x \in 0..n : (\A y \in 0..n : x >= y) => x = n
    OBVIOUS
  <1> QED
    BY <1>4, <1>5, <1>6 DEF LastNumber, Max

LEMMA ReadNumberIInv ==
  ASSUME IInv, NEW r \in Request, ReadNumber(r)
  PROVE  IInv'
  <1> USE DEF IInv
  <1>1. /\ pc[r] = "numbering"
        /\ pc' = [pc EXCEPT ![r] = "locking"]
        /\ number' = [number EXCEPT ![r] = LastNumber + 1]
        /\ UNCHANGED <<sales, job, holder>>
    BY DEF ReadNumber, Goto, tables
  <1>2. Cardinality(Recorded) \in Nat
    BY FS_CardinalityType DEF NumberIsNext
  <1>3. LastNumber = Cardinality(Recorded)
    BY <1>2, LastNumberIs
  <1>4. /\ pc'[r] = "locking" /\ number'[r] = Cardinality(Recorded) + 1
        /\ \A q \in Request \ {r} : pc'[q] = pc[q] /\ number'[q] = number[q]
    BY <1>1, <1>3 DEF ControlOK
  <1>5. ControlOK'
    BY <1>1, <1>2, <1>3 DEF ControlOK, Labels
  <1>6. HoldersWork' /\ SalesHoldSettings' /\ RoadsAreSplit'
    BY <1>1, <1>4 DEF HoldersWork, SalesHoldSettings, RoadsAreSplit, Answered
  <1>7. SalesComeFirst'
    BY <1>1, <1>4 DEF SalesComeFirst, Answered
  <1>8. ReceiptsAreSequential' /\ Recorded' = Recorded
    BY <1>1 DEF ReceiptsAreSequential, Recorded
  <1>9. NumberIsNext'
    BY <1>1, <1>4, <1>8 DEF NumberIsNext
  <1> QED
    BY <1>5, <1>6, <1>7, <1>8, <1>9

--------------------------------------------------------------------------------
(***************************************************************************)
(* The commit of a sale adds its number to those in use; no other sale has *)
(* read a number by then, because this one holds the settings row.  The    *)
(* other commits leave the recorded sales and their numbers as they are.   *)
(***************************************************************************)
LEMMA CommitIInv ==
  ASSUME IInv, NEW r \in Request, Commit(r)
  PROVE  IInv'
  <1> USE DEF IInv
  <1> DEFINE n == Cardinality(Recorded)
             s == job[r].sale
  <1>1. /\ pc[r] = "moving"
        /\ pc' = [pc EXCEPT ![r] = "done"]
        /\ holder' = [x \in Resources |-> IF holder[x] = r THEN Free ELSE holder[x]]
        /\ UNCHANGED <<job, number>>
    BY DEF Commit, End, Goto, work
  <1>2. pc'[r] = "done" /\ \A q \in Request \ {r} : pc'[q] = pc[q]
    BY <1>1 DEF ControlOK
  <1>3. \A x \in Resources : /\ holder[x] # r => holder'[x] = holder[x]
                             /\ holder[x] = r => holder'[x] = Free
    BY <1>1
  <1>4. Settings \in Resources
    BY DEF Resources
  <1>5. n \in Nat /\ IsFiniteSet(Recorded)
    BY FS_CardinalityType DEF NumberIsNext
  <1>6. /\ pc' \in [Request -> Labels]
        /\ holder' \in [Resources -> Request \cup {Free}]
    BY <1>1 DEF ControlOK, Labels, Answered
  <1>7. HoldersWork'
    BY <1>2, <1>3, NobodyAssumption DEF HoldersWork
  <1>8. SalesHoldSettings'
    BY <1>1, <1>2, <1>3, <1>4 DEF SalesHoldSettings
  <1>9. RoadsAreSplit'
    BY <1>1, <1>2 DEF RoadsAreSplit
  <1>10. CASE job[r].kind = "sale"
    <2>1. PICK moves :
            sales' = [sales EXCEPT ![r] = [status |-> "COMPLETED", number |-> number[r],
                                           allocations |-> moves]]
      BY <1>10 DEF Commit
    <2>2. /\ sales'[r].status = "COMPLETED" /\ sales'[r].number = n + 1
          /\ \A q \in Request \ {r} : sales'[q] = sales[q]
      BY <1>1, <1>10, <2>1 DEF ControlOK, NumberIsNext
    <2>3. r \notin Recorded /\ Recorded' = Recorded \cup {r}
      BY <1>1, <2>2 DEF Recorded, SalesComeFirst, Answered
    <2>4. IsFiniteSet(Recorded') /\ Cardinality(Recorded') = n + 1
      BY <1>5, <2>3, FS_AddElement
    <2>5. ControlOK'
      <3>1. sales' = [q \in Request |-> [status |-> sales'[q].status,
                                         number |-> sales'[q].number,
                                         allocations |-> sales'[q].allocations]]
        BY <2>1 DEF ControlOK
      <3> QED
        BY <1>1, <1>6, <3>1 DEF ControlOK
    <2>6. SalesComeFirst'
      BY <1>1, <1>2, <2>2 DEF SalesComeFirst, Answered
    <2>7. ReceiptsAreSequential'
      <3>1. {sales'[q].number : q \in Recorded'}
              = {sales[q].number : q \in Recorded} \cup {n + 1}
        <4>1. \A q \in Recorded : sales'[q].number = sales[q].number
          BY <2>2, <2>3 DEF Recorded
        <4> QED
          BY <2>2, <2>3, <4>1
      <3>2. (1..n) \cup {n + 1} = 1..(n + 1)
        BY <1>5
      <3> QED
        BY <2>4, <3>1, <3>2 DEF ReceiptsAreSequential
    <2>8. NumberIsNext'
      <3>1. \A q \in Request : job[q].kind = "sale" => pc'[q] \notin {"locking", "moving"}
        BY <1>1, <1>2, <1>10 DEF SalesHoldSettings
      <3> QED
        BY <1>1, <2>4, <3>1 DEF NumberIsNext
    <2> QED
      BY <1>7, <1>8, <1>9, <2>5, <2>6, <2>7, <2>8
  <1>11. CASE job[r].kind # "sale"
    <2>1. \/ sales' = sales
          \/ job[r].kind = "void" /\ sales' = [sales EXCEPT ![s].status = "VOID"]
      BY <1>11 DEF Commit
    <2>2. /\ \A q \in Request :
               /\ sales'[q].number = sales[q].number
               /\ sales'[q].status = "ABSENT" <=> sales[q].status = "ABSENT"
          /\ ControlOK'
      <3>1. CASE sales' = sales
        BY <1>1, <1>6, <3>1 DEF ControlOK
      <3>2. CASE /\ s \in Request /\ job[r].kind = "void"
                 /\ sales' = [sales EXCEPT ![s].status = "VOID"]
        <4>1. sales[s].status # "ABSENT"
          BY <3>2 DEF SalesComeFirst
        <4>2. sales' = [sales EXCEPT ![s] = [status |-> "VOID", number |-> sales[s].number,
                                             allocations |-> sales[s].allocations]]
          <5>1. sales[s] = [status |-> sales[s].status, number |-> sales[s].number,
                            allocations |-> sales[s].allocations]
            BY <3>2 DEF ControlOK
          <5>2. [sales[s] EXCEPT !.status = "VOID"]
                  = [status |-> "VOID", number |-> sales[s].number,
                     allocations |-> sales[s].allocations]
            BY <5>1
          <5>3. sales' = [sales EXCEPT ![s] = [sales[s] EXCEPT !.status = "VOID"]]
            BY <3>2
          <5> QED
            BY <5>2, <5>3
        <4>3. /\ sales'[s].status = "VOID" /\ sales'[s].number = sales[s].number
              /\ \A q \in Request \ {s} : sales'[q] = sales[q]
          BY <3>2, <4>2 DEF ControlOK
        <4>4. sales' = [q \in Request |-> [status |-> sales'[q].status,
                                           number |-> sales'[q].number,
                                           allocations |-> sales'[q].allocations]]
          BY <4>2 DEF ControlOK
        <4> QED
          BY <1>1, <1>6, <4>1, <4>3, <4>4 DEF ControlOK
      <3>3. CASE /\ s \notin Request
                 /\ sales' = [sales EXCEPT ![s].status = "VOID"]
        <4>1. sales' = sales
          BY <3>3 DEF ControlOK
        <4> QED
          BY <3>1, <4>1
      <3> QED
        BY <2>1, <3>1, <3>2, <3>3
    <2>3. Recorded' = Recorded
      BY <2>2 DEF Recorded
    <2>4. SalesComeFirst'
      BY <1>1, <1>2, <2>2 DEF SalesComeFirst, Answered
    <2>5. ReceiptsAreSequential'
      <3>1. {sales'[q].number : q \in Recorded} = {sales[q].number : q \in Recorded}
        BY <2>2 DEF Recorded
      <3> QED
        BY <2>3, <3>1 DEF ReceiptsAreSequential
    <2>6. NumberIsNext'
      BY <1>1, <1>2, <2>3 DEF NumberIsNext
    <2> QED
      BY <1>7, <1>8, <1>9, <2>2, <2>4, <2>5, <2>6
  <1> QED
    BY <1>10, <1>11

(***************************************************************************)
(* Every other step of a transaction goes on, or abandons it.              *)
(***************************************************************************)
LEMMA ServeIInv ==
  ASSUME IInv, NEW r \in Request, Serve(r)
  PROVE  IInv'
  <1> USE DEF Goto, tables, work
  <1>1. RoadsAreSplit
    BY DEF IInv
  <1>2. CASE LockSettings(r)
    <2>1. job[r].kind = "sale" /\ <<pc[r], "numbering">> \in OfSales
      BY <1>1, <1>2 DEF RoadsAreSplit, LockSettings, OfSales
    <2>2. /\ pc' = [pc EXCEPT ![r] = "numbering"]
          /\ UNCHANGED <<sales, job, number>>
      BY <1>2 DEF LockSettings
    <2>3. Acquire(r, Settings)
      BY <1>2 DEF LockSettings
    <2>4. GoesOn(r, "numbering")
      BY <2>1, <2>2, <2>3 DEF GoesOn
    <2> QED
      BY <2>4, GoOnIInv
  <1>3. CASE ReadNumber(r)
    BY <1>3, ReadNumberIInv
  <1>4. CASE LockNextBatch(r) \/ AllocateLine(r) \/ StartMoving(r)
    <2>1. PICK label \in {"locking", "moving"} : pc' = [pc EXCEPT ![r] = label]
      BY <1>4 DEF LockNextBatch, AllocateLine, StartMoving, AllAllocated, IInv, ControlOK
    <2>2. job[r].kind = "sale" /\ <<pc[r], label>> \in OfSales /\ pc[r] # "settings"
      BY <1>1, <1>4
      DEF RoadsAreSplit, LockNextBatch, AllocateLine, StartMoving, AllAllocated, OfSales
    <2>3. UNCHANGED <<sales, job, number>>
      BY <1>4 DEF LockNextBatch, AllocateLine, StartMoving
    <2>4. \/ holder' = holder
          \/ \E x : Acquire(r, x)
      <3>1. CASE LockNextBatch(r)
        BY <3>1 DEF LockNextBatch
      <3>2. CASE AllocateLine(r) \/ StartMoving(r)
        BY <3>2 DEF AllocateLine, StartMoving
      <3> QED
        BY <1>4, <3>1, <3>2
    <2>5. GoesOn(r, label)
      BY <2>1, <2>2, <2>3, <2>4 DEF GoesOn
    <2> QED
      BY <2>5, GoOnIInv
  <1>5. CASE RefuseShortage(r)
    BY <1>5, AbandonIInv DEF RefuseShortage, Answered
  <1>6. CASE LockSale(r) \/ LockPurchase(r) \/ ResolveBatch(r) \/ CreateBatch(r) \/ UpdateCost(r)
    <2>1. CASE Abandon(r, "refused") \/ Abandon(r, "failed")
      BY <2>1, AbandonIInv DEF Answered
    <2>2. CASE ~(Abandon(r, "refused") \/ Abandon(r, "failed"))
      <3>1. PICK label \in OfOthers : pc' = [pc EXCEPT ![r] = label]
        BY <1>6, <2>2
        DEF LockSale, LockPurchase, ResolveBatch, CreateBatch, UpdateCost, OfOthers
      <3>2. job[r].kind # "sale" /\ pc[r] \in OfOthers /\ pc[r] # "settings"
        BY <1>1, <1>6
        DEF RoadsAreSplit, LockSale, LockPurchase, ResolveBatch, CreateBatch, UpdateCost,
            OfOthers
      <3>3. UNCHANGED <<sales, job, number>>
        BY <1>6, <2>2 DEF LockSale, LockPurchase, ResolveBatch, CreateBatch, UpdateCost
      <3>4. \/ holder' = holder
            \/ \E x : Acquire(r, x)
        BY <1>6, <2>2
        DEF LockSale, LockPurchase, ResolveBatch, CreateBatch, UpdateCost
      <3>5. GoesOn(r, label)
        BY <3>1, <3>2, <3>3, <3>4 DEF GoesOn
      <3> QED
        BY <3>5, GoOnIInv
    <2> QED
      BY <2>1, <2>2
  <1>7. CASE RecordMovement(r)
    <2>1. CASE Abandon(r, "refused") \/ Abandon(r, "insufficient")
      BY <2>1, AbandonIInv DEF Answered
    <2>2. CASE ~(Abandon(r, "refused") \/ Abandon(r, "insufficient"))
      <3>1. PICK label \in {"moving", "pricing"} :
              /\ pc' = [pc EXCEPT ![r] = label]
              /\ job[r].kind = "sale" => label = "moving"
        BY <1>7, <2>2 DEF RecordMovement
      <3>2. /\ pc[r] = "moving"
            /\ UNCHANGED <<sales, job, number>>
            /\ \E x : Acquire(r, x)
        BY <1>7, <2>2 DEF RecordMovement
      <3>3. IF job[r].kind = "sale"
            THEN <<pc[r], label>> \in OfSales
            ELSE pc[r] \in OfOthers /\ label \in OfOthers
        BY <3>1, <3>2 DEF OfSales, OfOthers
      <3>4. GoesOn(r, label)
        BY <3>1, <3>2, <3>3 DEF GoesOn
      <3> QED
        BY <3>4, GoOnIInv
    <2> QED
      BY <2>1, <2>2
  <1>8. CASE Commit(r)
    BY <1>8, CommitIInv
  <1> QED
    BY <1>2, <1>3, <1>4, <1>5, <1>6, <1>7, <1>8 DEF Serve

LEMMA StepIInv == IInv /\ [Next]_vars => IInv'
  <1> SUFFICES ASSUME IInv, [Next]_vars PROVE IInv'
    OBVIOUS
  <1>1. CASE UNCHANGED vars
    <2>1. UNCHANGED <<holder, pc, job, sales, number>>
      BY <1>1 DEF vars, tables, work
    <2>2. Recorded' = Recorded
      BY <2>1 DEF Recorded
    <2>3. ControlOK' /\ HoldersWork' /\ SalesHoldSettings'
      BY <2>1 DEF IInv, ControlOK, HoldersWork, SalesHoldSettings
    <2>4. RoadsAreSplit' /\ SalesComeFirst'
      BY <2>1 DEF IInv, RoadsAreSplit, SalesComeFirst
    <2>5. ReceiptsAreSequential' /\ NumberIsNext'
      BY <2>1, <2>2 DEF IInv, ReceiptsAreSequential, NumberIsNext
    <2> QED
      BY <2>3, <2>4, <2>5 DEF IInv
  <1>2. ASSUME NEW r \in Request,
               Arrive(r) \/ Serve(r) \/ DeadlockVictim(r) \/ Rollback(r)
        PROVE  IInv'
    <2>1. CASE DeadlockVictim(r) \/ Rollback(r)
      BY <2>1, AbandonIInv DEF DeadlockVictim, Rollback, Answered
    <2> QED
      BY <1>2, <2>1, ArriveIInv, ServeIInv
  <1> QED
    BY <1>1, <1>2 DEF Next

--------------------------------------------------------------------------------
(***************************************************************************)
(* The transactions keep the inductive invariant: every sale on its way    *)
(* from its number to its commit holds the settings row.                   *)
(***************************************************************************)
THEOREM Invariance == Spec => []IInv
  <1> QED
    BY InitIInv, StepIInv, PTL DEF Spec

(***************************************************************************)
(* create_sale() numbers receipts without a gap and without a duplicate,   *)
(* whatever sales fail, deadlock or are voided in between.                 *)
(***************************************************************************)
THEOREM NumbersNeverSkip == Spec => []ReceiptsAreSequential
  <1>1. IInv => ReceiptsAreSequential
    BY DEF IInv
  <1> QED
    BY <1>1, Invariance, PTL

(***************************************************************************)
(* Sales alone never wait for each other in a cycle: one that others wait  *)
(* for holds a lock, so it holds the settings row, and there is one.       *)
(***************************************************************************)
THEOREM SalesAlwaysEnd == Spec => []SalesNeverDeadlock
  <1>1. ASSUME IInv, NEW r \in Selling, NEW q \in Request, r \in BlockedBy(q)
        PROVE  holder[Settings] = r
    <2>1. r \in Request /\ job[r].kind = "sale"
      BY <1>1 DEF Selling
    <2>2. PICK x \in Resources : holder[x] = r
      BY <1>1 DEF BlockedBy
    <2>3. pc[r] \in {"numbering", "locking", "moving"}
      BY <1>1, <2>1, <2>2 DEF IInv, HoldersWork, RoadsAreSplit, ControlOK, Labels
    <2> QED
      BY <1>1, <2>1, <2>3 DEF IInv, SalesHoldSettings
  <1>2. ASSUME IInv, NEW S \in SUBSET Selling, S # {}, Deadlocked(S)
        PROVE  FALSE
    <2>1. PICK r \in S : TRUE
      BY <1>2
    <2>2. PICK q \in S : q \in BlockedBy(r)
      BY <1>2 DEF Deadlocked
    <2>3. PICK p \in S : p \in BlockedBy(q)
      BY <1>2 DEF Deadlocked
    <2>4. p # q
      BY <2>3 DEF BlockedBy
    <2>5. S \subseteq Request
      BY DEF Selling
    <2> QED
      BY <1>1, <1>2, <2>2, <2>3, <2>4, <2>5
  <1>3. IInv => SalesNeverDeadlock
    BY <1>2 DEF SalesNeverDeadlock
  <1> QED
    BY <1>3, Invariance, PTL
================================================================================
