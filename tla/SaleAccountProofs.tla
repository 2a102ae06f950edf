--------------------------- MODULE SaleAccountProofs ---------------------------
(***************************************************************************)
(* Proofs about SaleAccount, for any sales, requests and amounts.          *)
(***************************************************************************)
EXTENDS SaleAccount, TLAPS

LEMMA InitIInv == Init => IInv
  <1> SUFFICES ASSUME Init PROVE IInv
    OBVIOUS
  <1>1. TypeOK
    BY DEF Init, TypeOK, Totals
  <1>2. BooksBalance
    BY DEF Init, BooksBalance
  <1>3. TotalsAreCurrent /\ LockDiscipline /\ DecisionIsSound
    BY FreeAssumption DEF Init, TotalsAreCurrent, LockDiscipline,
                          DecisionIsSound, Running
  <1> QED
    BY <1>1, <1>2, <1>3 DEF IInv

\* The annotated totals of a sale are a function of that sale's own rows.
LEMMA AnnotatedType ==
  ASSUME TypeOK, NEW s \in Sale
  PROVE  Annotated(s) \in Totals
  BY DEF TypeOK, Annotated, Totals, AmountPaid, Balance

(***************************************************************************)
(* A request that ends without changing a row: Refuse and Rollback.        *)
(***************************************************************************)
LEMMA EndIInv ==
  ASSUME IInv, NEW r \in Request, NEW answer \in {"refused", "failed"},
         pc[r] \in Running, End(r, answer), UNCHANGED rows
  PROVE  IInv'
  <1> USE DEF IInv, End, Release, rows, call
  <1>1. TypeOK'
    BY DEF TypeOK, Answered
  <1>2. BooksBalance'
    BY DEF BooksBalance
  <1>3. TotalsAreCurrent'
    BY DEF TotalsAreCurrent, Annotated, AmountPaid, Balance, TypeOK
  <1>4. LockDiscipline'
    BY FreeAssumption DEF LockDiscipline, TypeOK, Running
  <1>5. DecisionIsSound'
    BY DEF DecisionIsSound, TypeOK, Running
  <1> QED
    BY <1>1, <1>2, <1>3, <1>4, <1>5

LEMMA CreateSaleIInv ==
  ASSUME IInv, NEW r \in Request, NEW s \in Sale, NEW t \in Amount,
         NEW received \in Cash, NEW named \in BOOLEAN,
         CreateSale(r, s, t, received, named)
  PROVE  IInv'
  <1> USE DEF IInv, CreateSale, call
  <1>1. /\ Least(received, t) \in Nat /\ Least(received, t) <= t /\ t \in Nat
    BY AmountAssumption, CashAssumption DEF Least
  <1>2. TypeOK'
    BY <1>1 DEF TypeOK, Answered
  <1>3. BooksBalance'
    BY <1>1 DEF BooksBalance, TypeOK
  <1>4. TotalsAreCurrent'
    BY DEF TotalsAreCurrent, DecisionIsSound, Annotated, AmountPaid, Balance,
           TypeOK, Running
  <1>5. LockDiscipline' /\ DecisionIsSound'
    BY DEF LockDiscipline, DecisionIsSound, TypeOK, Running
  <1> QED
    BY <1>2, <1>3, <1>4, <1>5

LEMMA PostIInv ==
  ASSUME IInv, NEW r \in Request, NEW op \in {"payment", "void"}, NEW s \in Sale,
         NEW received \in Nat, Post(r, op, s, received)
  PROVE  IInv'
  <1> USE DEF IInv, Post, rows
  <1>1. TypeOK'
    BY DEF TypeOK, Running
  <1>2. BooksBalance'
    BY DEF BooksBalance
  <1>3. TotalsAreCurrent'
    BY DEF TotalsAreCurrent, Annotated, AmountPaid, Balance, TypeOK
  <1>4. LockDiscipline' /\ DecisionIsSound'
    BY FreeAssumption DEF LockDiscipline, DecisionIsSound, TypeOK, Running
  <1> QED
    BY <1>1, <1>2, <1>3, <1>4

LEMMA LockSaleIInv ==
  ASSUME IInv, NEW r \in Request, LockSale(r)
  PROVE  IInv'
  <1> USE DEF IInv, LockSale, rows, call
  <1>1. TypeOK'
    BY DEF TypeOK, Running
  <1>2. BooksBalance'
    BY DEF BooksBalance
  <1>3. TotalsAreCurrent'
    BY DEF TotalsAreCurrent, Annotated, AmountPaid, Balance, TypeOK
  <1>4. LockDiscipline' /\ DecisionIsSound'
    BY FreeAssumption DEF LockDiscipline, DecisionIsSound, TypeOK, Running
  <1> QED
    BY <1>1, <1>2, <1>3, <1>4

LEMMA ReadTotalsIInv ==
  ASSUME IInv, NEW r \in Request, ReadTotals(r)
  PROVE  IInv'
  <1> USE DEF IInv, ReadTotals, rows, call
  <1>1. sale[r] \in Sale /\ Annotated(sale[r]) \in Totals
    BY AnnotatedType DEF TypeOK
  <1>2. TypeOK'
    BY <1>1 DEF TypeOK, Running
  <1>3. BooksBalance'
    BY DEF BooksBalance
  <1>4. TotalsAreCurrent'
    BY DEF TotalsAreCurrent, Annotated, AmountPaid, Balance, TypeOK
  <1>5. LockDiscipline' /\ DecisionIsSound'
    BY DEF LockDiscipline, DecisionIsSound, TypeOK, Running
  <1> QED
    BY <1>2, <1>3, <1>4, <1>5

LEMMA ReturnStockIInv ==
  ASSUME IInv, NEW r \in Request, ReturnStock(r)
  PROVE  IInv'
  <1> USE DEF IInv, ReturnStock, rows, call
  <1>1. TypeOK'
    BY DEF TypeOK, Running
  <1>2. BooksBalance'
    BY DEF BooksBalance
  <1>3. TotalsAreCurrent'
    BY DEF TotalsAreCurrent, Annotated, AmountPaid, Balance, TypeOK
  <1>4. LockDiscipline'
    BY DEF LockDiscipline, TypeOK, Running
  <1>5. seen[r].status = "COMPLETED"
    BY DEF TotalsAreCurrent, DecisionIsSound, Annotated, TypeOK, Running
  <1>6. DecisionIsSound'
    BY <1>5 DEF DecisionIsSound, TypeOK, Running
  <1> QED
    BY <1>1, <1>2, <1>3, <1>4, <1>6

(***************************************************************************)
(* The two steps that write rows of a locked sale: the holder's view is    *)
(* current, and no other request has read that sale.                       *)
(***************************************************************************)
LEMMA OthersUntouched ==
  ASSUME IInv, NEW r \in Request, pc[r] \in {"deciding", "returning"},
         NEW q \in Request, q # r, pc[q] \in {"deciding", "returning"}
  PROVE  sale[q] # sale[r]
  BY DEF IInv, LockDiscipline, Running, TypeOK

(***************************************************************************)
(* Only two steps touch the rows of an existing sale; what each of them    *)
(* does to that sale.                                                      *)
(***************************************************************************)
LEMMA PayOffEffect ==
  ASSUME IInv, NEW r \in Request, PayOff(r)
  PROVE  \E a \in 1..Balance(sale[r]) :
            /\ status[sale[r]] = "COMPLETED"
            /\ paid' = [paid EXCEPT ![sale[r]] = @ + a]
  <1> DEFINE s == sale[r]
             a == Least(cash[r], seen[r].balance)
  <1>1. s \in Sale /\ cash[r] \in Nat /\ seen[r] = Annotated(s)
    BY DEF IInv, PayOff, TypeOK, TotalsAreCurrent
  <1>2. status[s] = "COMPLETED" /\ Balance(s) \in Int /\ seen[r].balance = Balance(s)
    BY <1>1 DEF IInv, PayOff, PaymentAllowed, DecisionIsSound, Running,
                Annotated, Balance, AmountPaid, TypeOK
  <1>3. a \in 1..Balance(s)
    BY <1>1, <1>2 DEF Least, PayOff, PaymentAllowed
  <1> QED
    BY <1>2, <1>3 DEF PayOff

LEMMA VoidSaleEffect ==
  ASSUME IInv, NEW r \in Request, VoidSale(r)
  PROVE  LET s == sale[r] IN
           /\ status[s] = "COMPLETED" /\ status' = [status EXCEPT ![s] = "VOID"]
           /\ refunded' \in [Sale -> Nat] /\ refunded'[s] = paid[s]
           /\ \A x \in Sale : x # s => refunded'[x] = refunded[x]
  <1> DEFINE s == sale[r]
  <1>1. s \in Sale /\ seen[r] = Annotated(s) /\ seen[r].status = "COMPLETED"
    BY DEF IInv, VoidSale, TypeOK, TotalsAreCurrent, DecisionIsSound
  <1>2. /\ status[s] = "COMPLETED" /\ refunded[s] = 0
        /\ seen[r].amountPaid = paid[s]
        /\ paid[s] \in Nat /\ refunded \in [Sale -> Nat]
    BY <1>1 DEF IInv, Annotated, AmountPaid, BooksBalance, TypeOK
  <1>3. CASE paid[s] > 0
    BY <1>1, <1>2, <1>3 DEF VoidSale
  <1>4. CASE paid[s] = 0
    BY <1>1, <1>2, <1>4 DEF VoidSale
  <1> QED
    BY <1>2, <1>3, <1>4

LEMMA PayOffIInv ==
  ASSUME IInv, NEW r \in Request, PayOff(r)
  PROVE  IInv'
  <1> USE DEF IInv, End, Release, call
  <1> DEFINE s == sale[r]
  <1>1. s \in Sale /\ status[s] = "COMPLETED" /\ pc[r] = "deciding"
    BY PayOffEffect DEF TypeOK, PayOff
  <1>2. PICK a \in 1..Balance(s) : paid' = [paid EXCEPT ![s] = @ + a]
    BY PayOffEffect
  <1>3. a \in Nat /\ a <= total[s] - paid[s]
    BY <1>1, <1>2 DEF Balance, AmountPaid, BooksBalance, TypeOK
  <1>4. /\ End(r, "committed")
        /\ UNCHANGED <<status, total, customer, refunded, audited>>
    BY DEF PayOff
  <1>5. TypeOK'
    BY <1>1, <1>2, <1>3, <1>4 DEF TypeOK, Answered
  <1>6. BooksBalance'
    BY <1>1, <1>2, <1>3, <1>4 DEF BooksBalance, TypeOK
  <1>7. TotalsAreCurrent'
    <2> SUFFICES ASSUME NEW q \in Request,
                        (pc[q] \in {"deciding", "returning"})'
                 PROVE  (seen[q] = Annotated(sale[q]))'
      BY DEF TotalsAreCurrent
    <2>1. q # r /\ pc[q] \in {"deciding", "returning"}
      BY <1>4 DEF TypeOK
    <2>2. sale[q] # s /\ sale[q] \in Sale
      BY <1>1, <2>1, OthersUntouched DEF TypeOK
    <2> QED
      BY <2>1, <2>2, <1>2, <1>4 DEF TotalsAreCurrent, Annotated, AmountPaid, Balance,
                              TypeOK
  <1>8. LockDiscipline' /\ DecisionIsSound'
    BY <1>1, <1>4, FreeAssumption DEF LockDiscipline, DecisionIsSound, TypeOK, Running
  <1> QED
    BY <1>5, <1>6, <1>7, <1>8

LEMMA VoidSaleIInv ==
  ASSUME IInv, NEW r \in Request, VoidSale(r)
  PROVE  IInv'
  <1> USE DEF IInv, End, Release, call
  <1> DEFINE s == sale[r]
  <1>1. s \in Sale /\ status[s] = "COMPLETED" /\ pc[r] = "returning"
    BY VoidSaleEffect DEF TypeOK, VoidSale
  <1>2. /\ status' = [status EXCEPT ![s] = "VOID"]
        /\ audited' = [audited EXCEPT ![s] = @ + 1]
        /\ End(r, "committed")
        /\ UNCHANGED <<total, customer, paid>>
    BY VoidSaleEffect DEF VoidSale
  <1>3. /\ refunded' \in [Sale -> Nat] /\ refunded'[s] = paid[s]
        /\ \A x \in Sale : x # s => refunded'[x] = refunded[x]
    BY VoidSaleEffect
  <1>4. TypeOK'
    <2>1. /\ status' \in [Sale -> {"ABSENT", "COMPLETED", "VOID"}]
          /\ audited' \in [Sale -> Nat]
      BY <1>1, <1>2 DEF TypeOK
    <2>2. /\ holder' \in [Sale -> Request \cup {Free}]
          /\ pc' \in [Request -> {"new"} \cup Running \cup Answered]
      BY <1>2 DEF TypeOK, Answered
    <2> QED
      BY <1>2, <1>3, <2>1, <2>2 DEF TypeOK
  <1>5. BooksBalance'
    BY <1>1, <1>2, <1>3 DEF BooksBalance, TypeOK
  <1>6. TotalsAreCurrent'
    <2> SUFFICES ASSUME NEW q \in Request,
                        (pc[q] \in {"deciding", "returning"})'
                 PROVE  (seen[q] = Annotated(sale[q]))'
      BY DEF TotalsAreCurrent
    <2>1. q # r /\ pc[q] \in {"deciding", "returning"}
      BY <1>2 DEF TypeOK
    <2>2. sale[q] # s /\ sale[q] \in Sale
      BY <1>1, <2>1, OthersUntouched DEF TypeOK
    <2> QED
      BY <2>1, <2>2, <1>2, <1>3 DEF TotalsAreCurrent, Annotated, AmountPaid, Balance,
                              TypeOK
  <1>7. LockDiscipline' /\ DecisionIsSound'
    BY <1>1, <1>2, FreeAssumption DEF LockDiscipline, DecisionIsSound, TypeOK, Running
  <1> QED
    BY <1>4, <1>5, <1>6, <1>7

LEMMA StepIInv == IInv /\ [Next]_vars => IInv'
  <1> SUFFICES ASSUME IInv, [Next]_vars PROVE IInv'
    OBVIOUS
  <1>1. CASE UNCHANGED vars
    BY <1>1 DEF vars, rows, call, IInv, TypeOK, BooksBalance, TotalsAreCurrent,
                LockDiscipline, DecisionIsSound, Annotated, AmountPaid, Balance
  <1>2. ASSUME NEW r \in Request, NEW s \in Sale, NEW t \in Amount,
               NEW received \in Cash, NEW named \in BOOLEAN,
               CreateSale(r, s, t, received, named)
        PROVE  IInv'
    BY <1>2, CreateSaleIInv
  <1>3. ASSUME NEW r \in Request, NEW s \in Sale,
               \/ Post(r, "void", s, 0)
               \/ \E received \in Cash : Post(r, "payment", s, received)
        PROVE  IInv'
    BY <1>3, PostIInv, CashAssumption
  <1>4. ASSUME NEW r \in Request, Step(r) PROVE IInv'
    <2>1. CASE Refuse(r)
      BY <2>1, EndIInv DEF Refuse, Running
    <2> QED
      BY <1>4, <2>1, LockSaleIInv, ReadTotalsIInv, PayOffIInv, ReturnStockIInv,
         VoidSaleIInv DEF Step
  <1>5. ASSUME NEW r \in Request, Rollback(r) PROVE IInv'
    BY <1>5, EndIInv DEF Rollback
  <1> QED
    BY <1>1, <1>2, <1>3, <1>4, <1>5 DEF Next

--------------------------------------------------------------------------------
(***************************************************************************)
(* The inductive invariant holds in every reachable state.                 *)
(***************************************************************************)
THEOREM Invariance == Spec => []IInv
  <1> QED
    BY InitIInv, StepIInv, PTL DEF Spec

(***************************************************************************)
(* Every variable keeps its type.                                          *)
(***************************************************************************)
THEOREM TypeCorrect == Spec => []TypeOK
  <1>1. IInv => TypeOK
    BY DEF IInv
  <1> QED
    BY <1>1, Invariance, PTL

(***************************************************************************)
(* However payments and voids of the same sale interleave, nobody pays     *)
(* more than is owed, a void gives back exactly what was paid, once, and   *)
(* only a named customer owes.                                             *)
(***************************************************************************)
THEOREM BooksAlwaysBalance == Spec => []BooksBalance
  <1>1. IInv => BooksBalance
    BY DEF IInv
  <1> QED
    BY <1>1, Invariance, PTL

(***************************************************************************)
(* The totals that _locked_with_totals() returned are still the sale's     *)
(* when record_payment() or void_sale() writes what it computed from them. *)
(***************************************************************************)
THEOREM TotalsStayCurrent == Spec => []TotalsAreCurrent
  <1>1. IInv => TotalsAreCurrent
    BY DEF IInv
  <1> QED
    BY <1>1, Invariance, PTL

(***************************************************************************)
(* The payment status as a function of three numbers' comparison.          *)
(***************************************************************************)
RankByNumbers ==
  \A s \in Sale : status[s] # "ABSENT" =>
    Rank[PaymentStatus(s)] =
      IF status[s] = "VOID" THEN 4
      ELSE IF total[s] <= paid[s] THEN 3
      ELSE IF paid[s] <= 0 THEN 1 ELSE 2

LEMMA RankValue == IInv => RankByNumbers
  <1> SUFFICES ASSUME IInv, NEW s \in Sale, status[s] # "ABSENT"
               PROVE  Rank[PaymentStatus(s)] =
                        IF status[s] = "VOID" THEN 4
                        ELSE IF total[s] <= paid[s] THEN 3
                        ELSE IF paid[s] <= 0 THEN 1 ELSE 2
    BY DEF RankByNumbers
  <1>1. CASE status[s] = "VOID"
    BY <1>1 DEF PaymentStatus, Rank
  <1>2. CASE status[s] = "COMPLETED"
    <2>1. AmountPaid(s) = paid[s] /\ paid[s] \in Nat /\ total[s] \in Nat
      BY <1>2 DEF IInv, BooksBalance, TypeOK, AmountPaid
    <2>2. Balance(s) = total[s] - paid[s]
      BY <1>2, <2>1 DEF Balance
    <2> QED
      BY <1>2, <2>1, <2>2 DEF PaymentStatus, Rank
  <1> QED
    BY <1>1, <1>2 DEF IInv, TypeOK

LEMMA StepKeepsHistory ==
  IInv /\ IInv' /\ RankByNumbers' /\ [Next]_vars => HistoryKept
  <1> SUFFICES ASSUME IInv, IInv', RankByNumbers', [Next]_vars, NEW s \in Sale
               PROVE  /\ paid[s] <= paid'[s] /\ refunded[s] <= refunded'[s]
                      /\ status[s] # "ABSENT" =>
                           /\ total'[s] = total[s] /\ customer'[s] = customer[s]
                           /\ status'[s] # "ABSENT"
                           /\ Rank[PaymentStatus(s)] <= Rank[PaymentStatus(s)']
                      /\ status[s] = "VOID" =>
                           /\ status'[s] = "VOID" /\ paid'[s] = paid[s]
                           /\ refunded'[s] = refunded[s]
    BY DEF HistoryKept
  <1>1. TypeOK /\ TypeOK' /\ BooksBalance
    BY DEF IInv
  \* It is enough to follow the columns of s.
  <1>2. SUFFICES /\ paid[s] <= paid'[s] /\ refunded[s] <= refunded'[s]
                 /\ status[s] # "ABSENT" =>
                      /\ total'[s] = total[s] /\ customer'[s] = customer[s]
                      /\ status'[s] \in {status[s], "VOID"}
                 /\ status[s] = "VOID" =>
                      paid'[s] = paid[s] /\ refunded'[s] = refunded[s]
    <2>1. RankByNumbers
      BY RankValue
    <2>2. status[s] # "ABSENT" /\ status'[s] # "ABSENT" =>
            Rank[PaymentStatus(s)] <= Rank[PaymentStatus(s)']
      BY <1>1, <1>2, <2>1 DEF RankByNumbers, TypeOK, Rank
    <2> QED
      BY <1>1, <1>2, <2>2 DEF TypeOK
  <1>3. CASE UNCHANGED rows
    BY <1>1, <1>3 DEF rows, TypeOK
  <1>4. ASSUME NEW r \in Request, NEW x \in Sale, NEW t \in Amount,
               NEW received \in Cash, NEW named \in BOOLEAN,
               CreateSale(r, x, t, received, named)
        PROVE  /\ paid[s] <= paid'[s] /\ refunded[s] <= refunded'[s]
               /\ status[s] # "ABSENT" =>
                    /\ total'[s] = total[s] /\ customer'[s] = customer[s]
                    /\ status'[s] \in {status[s], "VOID"}
                    /\ paid'[s] = paid[s] /\ refunded'[s] = refunded[s]
    <2>1. CASE x = s
      BY <1>1, <1>4, <2>1 DEF CreateSale, BooksBalance, TypeOK
    <2>2. CASE x # s
      BY <1>1, <1>4, <2>2 DEF CreateSale, TypeOK
    <2> QED
      BY <2>1, <2>2
  <1>5. ASSUME NEW r \in Request, PayOff(r)
        PROVE  /\ UNCHANGED <<status, total, customer, refunded>>
               /\ paid[s] <= paid'[s]
               /\ status[s] = "VOID" => paid'[s] = paid[s]
    <2>1. PICK a \in 1..Balance(sale[r]) :
            /\ status[sale[r]] = "COMPLETED"
            /\ paid' = [paid EXCEPT ![sale[r]] = @ + a]
      BY <1>5, PayOffEffect
    <2>2. a \in Nat /\ paid[s] \in Nat /\ paid \in [Sale -> Nat]
      BY <1>1, <2>1 DEF TypeOK, Balance, AmountPaid
    <2> QED
      BY <1>5, <2>1, <2>2 DEF PayOff
  <1>6. ASSUME NEW r \in Request, VoidSale(r)
        PROVE  /\ UNCHANGED <<total, customer, paid>>
               /\ refunded[s] <= refunded'[s]
               /\ status'[s] \in {status[s], "VOID"}
               /\ status[s] = "VOID" => refunded'[s] = refunded[s]
    <2>1. /\ status[sale[r]] = "COMPLETED"
          /\ status' = [status EXCEPT ![sale[r]] = "VOID"]
          /\ refunded'[sale[r]] \in Nat
          /\ \A x \in Sale : x # sale[r] => refunded'[x] = refunded[x]
      BY <1>1, <1>6, VoidSaleEffect DEF TypeOK
    <2> QED
      BY <1>1, <1>6, <2>1 DEF VoidSale, BooksBalance, TypeOK
  <1>7. \/ UNCHANGED rows
        \/ \E r \in Request, x \in Sale, t \in Amount, received \in Cash,
              named \in BOOLEAN : CreateSale(r, x, t, received, named)
        \/ \E r \in Request : PayOff(r) \/ VoidSale(r)
    BY DEF Next, vars, Post, Step, LockSale, ReadTotals, Refuse, ReturnStock,
           Rollback
  <1> QED
    BY <1>1, <1>3, <1>4, <1>5, <1>6, <1>7 DEF TypeOK

(***************************************************************************)
(* Rows are only appended, recorded facts never change, a void is final    *)
(* and the payment status only moves on.                                   *)
(***************************************************************************)
THEOREM HistorySafe == Spec => HistoryIsKept
  <1> QED
    BY Invariance, RankValue, StepKeepsHistory, PTL DEF Spec, HistoryIsKept

(***************************************************************************)
(* Each step of the account maps to a step of the credit book or to a      *)
(* stutter: a request's locks and reads are invisible there.               *)
(***************************************************************************)
LEMMA StepRefines == IInv /\ [Next]_vars => [Book!Next]_Book!credit
  <1> SUFFICES ASSUME IInv, [Next]_vars PROVE [Book!Next]_Book!credit
    OBVIOUS
  <1> USE DEF AmountPaid
  <1>1. TypeOK /\ BooksBalance
    BY DEF IInv
  <1>2. CASE UNCHANGED rows
    BY <1>2 DEF rows, Book!credit
  <1>3. ASSUME NEW r \in Request, NEW s \in Sale, NEW t \in Amount,
               NEW received \in Cash, NEW named \in BOOLEAN,
               CreateSale(r, s, t, received, named)
        PROVE  Book!Sell(s)
    <2> DEFINE p == Least(received, t)
    <2>1. t \in Nat /\ p \in 0..t
      BY AmountAssumption, CashAssumption DEF Least
    <2>2. [x \in Sale |-> paid'[x] - refunded'[x]]
            = [[x \in Sale |-> paid[x] - refunded[x]] EXCEPT ![s] = p]
      <3>1. ASSUME NEW x \in Sale
            PROVE  paid'[x] - refunded'[x] = IF x = s THEN p
                                             ELSE paid[x] - refunded[x]
        BY <1>1, <1>3, <2>1 DEF CreateSale, BooksBalance, TypeOK
      <3> QED
        BY <3>1
    <2> QED
      BY <1>3, <2>1, <2>2 DEF CreateSale, Book!Sell
  <1>4. ASSUME NEW r \in Request, PayOff(r)
        PROVE  Book!Pay(sale[r])
    <2> DEFINE s == sale[r]
    <2>1. PICK a \in 1..Balance(s) :
            status[s] = "COMPLETED" /\ paid' = [paid EXCEPT ![s] = @ + a]
      BY <1>4, PayOffEffect
    <2>2. s \in Sale /\ a \in 1..Book!Owed(s)
      BY <1>1, <2>1 DEF Book!Owed, Balance, TypeOK
    <2>3. [x \in Sale |-> paid'[x] - refunded'[x]]
            = [[x \in Sale |-> paid[x] - refunded[x]] EXCEPT ![s] = @ + a]
      <3>1. ASSUME NEW x \in Sale
            PROVE  paid'[x] - refunded'[x]
                     = IF x = s THEN paid[x] - refunded[x] + a
                       ELSE paid[x] - refunded[x]
        BY <1>1, <1>4, <2>1, <2>2 DEF PayOff, TypeOK
      <3> QED
        BY <3>1
    <2> QED
      BY <1>4, <2>1, <2>2, <2>3 DEF PayOff, Book!Pay
  <1>5. ASSUME NEW r \in Request, VoidSale(r)
        PROVE  Book!Void(sale[r])
    <2> DEFINE s == sale[r]
    <2>1. /\ s \in Sale /\ status[s] = "COMPLETED"
          /\ status' = [status EXCEPT ![s] = "VOID"]
          /\ refunded'[s] = paid[s]
          /\ \A x \in Sale : x # s => refunded'[x] = refunded[x]
      BY <1>1, <1>5, VoidSaleEffect DEF TypeOK
    <2>2. [x \in Sale |-> paid'[x] - refunded'[x]]
            = [[x \in Sale |-> paid[x] - refunded[x]] EXCEPT ![s] = 0]
      <3>1. ASSUME NEW x \in Sale
            PROVE  paid'[x] - refunded'[x] = IF x = s THEN 0
                                             ELSE paid[x] - refunded[x]
        BY <1>1, <1>5, <2>1 DEF VoidSale, TypeOK
      <3> QED
        BY <3>1
    <2> QED
      BY <1>5, <2>1, <2>2 DEF VoidSale, Book!Void
  <1>6. ASSUME NEW r \in Request, PayOff(r) \/ VoidSale(r)
        PROVE  Book!Next
    <2>1. sale[r] \in Sale
      BY <1>1 DEF TypeOK
    <2>2. Book!Pay(sale[r]) \/ Book!Void(sale[r])
      BY <1>4, <1>5, <1>6
    <2> QED
      BY <2>1, <2>2 DEF Book!Next, Book!Pay, Book!Void
  <1>7. \/ UNCHANGED rows
        \/ \E r \in Request, s \in Sale, t \in Amount, received \in Cash,
              named \in BOOLEAN : CreateSale(r, s, t, received, named)
        \/ \E r \in Request : PayOff(r) \/ VoidSale(r)
    BY DEF Next, vars, Post, Step, LockSale, ReadTotals, Refuse, ReturnStock,
           Rollback
  <1> QED
    BY <1>2, <1>3, <1>6, <1>7 DEF Book!Next

(***************************************************************************)
(* Payments and voids of concurrent requests implement the abstract credit *)
(* book: each takes effect at once, in positive amounts of at most what is *)
(* owed, and a void leaves nothing owed and nothing kept.                  *)
(***************************************************************************)
THEOREM Implements == Spec => BookSpec
  <1>1. Init => Book!Init
    BY DEF Init, Book!Init, AmountPaid
  <1> QED
    BY <1>1, Invariance, StepRefines, PTL DEF Spec, BookSpec, Book!Spec
================================================================================
