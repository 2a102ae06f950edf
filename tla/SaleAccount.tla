------------------------------ MODULE SaleAccount ------------------------------
(***************************************************************************)
(* The money of a sale (sales.services): the cash taken when create_sale() *)
(* records it, record_payment() on credit, and the refund of void_sale(),  *)
(* run by concurrent requests.  What has been paid is never stored: it is  *)
(* derived from Payment rows, which are only ever appended.                *)
(*                                                                         *)
(* record_payment() and void_sale() first lock the Sale row and then, in a *)
(* second statement, read the totals (_locked_with_totals); the rows they  *)
(* insert are seen by others when they commit.  The batches a void locks   *)
(* while it returns the stock belong to module Shop; here that phase may   *)
(* take any time and may fail.                                             *)
(***************************************************************************)
EXTENDS Integers

CONSTANTS Sale,     \* Sale rows
          Request,  \* HTTP requests; each is one call of one service
          Free,     \* holder of a row nobody has locked
          Amount,   \* totals a sale may have
          Cash      \* amounts a customer may hand over

ASSUME AmountAssumption == Amount \subseteq Nat
ASSUME CashAssumption   == Cash \subseteq Nat
ASSUME FreeAssumption   == Free \notin Request

VARIABLES
  status, total, customer,    \* Sale rows: status, total, "names a customer"
  paid, refunded,             \* sums of the sale's PAYMENT and REFUND rows
  audited,                    \* SALE_VOID rows in the audit log
  holder,                     \* which request holds the sale's row lock
  pc, operation, sale, cash,  \* each request: control state and arguments
  seen                        \* the annotated sale _locked_with_totals returned

rows == <<status, total, customer, paid, refunded, audited>>
call == <<operation, sale, cash>>
vars == <<rows, holder, pc, call, seen>>

Least(a, b) == IF a <= b THEN a ELSE b

\* with_payment_totals()
AmountPaid(s) == paid[s] - refunded[s]
Balance(s)    == IF status[s] = "VOID" THEN 0 ELSE total[s] - AmountPaid(s)
PaymentStatus(s) ==
  CASE status[s] = "VOID"       -> "VOID"
    [] status[s] # "VOID" /\ Balance(s) <= 0 -> "PAID"
    [] status[s] # "VOID" /\ Balance(s) > 0 /\ AmountPaid(s) <= 0 -> "UNPAID"
    [] OTHER                    -> "PARTIAL"

Annotated(s) ==
  [status |-> status[s], amountPaid |-> AmountPaid(s), balance |-> Balance(s)]

Answered == {"committed", "refused", "failed"}
Running  == {"locking", "reading", "deciding", "returning"}

Init ==
  /\ status = [s \in Sale |-> "ABSENT"]
  /\ total = [s \in Sale |-> 0]
  /\ customer = [s \in Sale |-> FALSE]
  /\ paid = [s \in Sale |-> 0]
  /\ refunded = [s \in Sale |-> 0]
  /\ audited = [s \in Sale |-> 0]
  /\ holder = [s \in Sale |-> Free]
  /\ pc = [r \in Request |-> "new"]
  /\ operation = [r \in Request |-> "none"]
  /\ \E s \in Sale : sale = [r \in Request |-> s]
  /\ cash = [r \in Request |-> 0]
  /\ seen = [r \in Request |-> [status |-> "ABSENT", amountPaid |-> 0, balance |-> 0]]

--------------------------------------------------------------------------------
\* Mutant: a sale that is not paid in full needs no customer.
CreateSaleForAnyone(r, s, t, received, named) ==
  /\ pc[r] = "new"
  /\ status[s] = "ABSENT"
  /\ status' = [status EXCEPT ![s] = "COMPLETED"]
  /\ total' = [total EXCEPT ![s] = t]
  /\ customer' = [customer EXCEPT ![s] = named]
  /\ paid' = [paid EXCEPT ![s] = Least(received, t)]
  /\ pc' = [pc EXCEPT ![r] = "committed"]
  /\ UNCHANGED <<refunded, audited, holder, call, seen>>

(***************************************************************************)
(* create_sale(), money only.  The new row is invisible until the commit,  *)
(* so nobody can wait for it.                                              *)
(***************************************************************************)
CreateSale(r, s, t, received, named) ==
  /\ pc[r] = "new"
  /\ status[s] = "ABSENT"
  /\ Least(received, t) < t => named
  /\ status' = [status EXCEPT ![s] = "COMPLETED"]
  /\ total' = [total EXCEPT ![s] = t]
  /\ customer' = [customer EXCEPT ![s] = named]
  /\ paid' = [paid EXCEPT ![s] = Least(received, t)]
  /\ pc' = [pc EXCEPT ![r] = "committed"]
  /\ UNCHANGED <<refunded, audited, holder, call, seen>>

\* The view finds the sale (get_sale) without locking it, then calls a service.
Post(r, op, s, received) ==
  /\ pc[r] = "new"
  /\ status[s] # "ABSENT"
  /\ operation' = [operation EXCEPT ![r] = op]
  /\ sale' = [sale EXCEPT ![r] = s]
  /\ cash' = [cash EXCEPT ![r] = received]
  /\ pc' = [pc EXCEPT ![r] = "locking"]
  /\ UNCHANGED <<rows, holder, seen>>

\* Mutant: a plain SELECT, without FOR UPDATE.
LockNothing(r) ==
  /\ pc[r] = "locking"
  /\ pc' = [pc EXCEPT ![r] = "reading"]
  /\ UNCHANGED <<rows, holder, call, seen>>

\* _locked_with_totals(), first statement.
LockSale(r) ==
  /\ pc[r] = "locking"
  /\ holder[sale[r]] = Free
  /\ holder' = [holder EXCEPT ![sale[r]] = r]
  /\ pc' = [pc EXCEPT ![r] = "reading"]
  /\ UNCHANGED <<rows, call, seen>>

\* _locked_with_totals(), second statement.
ReadTotals(r) ==
  /\ pc[r] = "reading"
  /\ seen' = [seen EXCEPT ![r] = Annotated(sale[r])]
  /\ pc' = [pc EXCEPT ![r] = "deciding"]
  /\ UNCHANGED <<rows, holder, call>>

\* The transaction ends, committed or not, and the row lock goes.
Release(r) == holder' = [s \in Sale |-> IF holder[s] = r THEN Free ELSE holder[s]]

\* Mutant: a refusal leaves the transaction, and its lock, open.
EndUnlessRefused(r, answer) ==
  /\ IF answer = "refused" THEN UNCHANGED holder ELSE Release(r)
  /\ pc' = [pc EXCEPT ![r] = answer]
  /\ UNCHANGED <<call, seen>>

End(r, answer) ==
  /\ Release(r)
  /\ pc' = [pc EXCEPT ![r] = answer]
  /\ UNCHANGED <<call, seen>>

PaymentAllowed(r) ==
  /\ seen[r].status # "VOID"
  /\ seen[r].balance > 0
  /\ cash[r] > 0

\* Mutant: no change is given; all the cash counts as payment.
PayOffInFull(r) ==
  /\ pc[r] = "deciding"
  /\ operation[r] = "payment"
  /\ PaymentAllowed(r)
  /\ paid' = [paid EXCEPT ![sale[r]] = @ + cash[r]]
  /\ End(r, "committed")
  /\ UNCHANGED <<status, total, customer, refunded, audited>>

\* record_payment(): the Payment row.
PayOff(r) ==
  /\ pc[r] = "deciding"
  /\ operation[r] = "payment"
  /\ PaymentAllowed(r)
  /\ paid' = [paid EXCEPT ![sale[r]] = @ + Least(cash[r], seen[r].balance)]
  /\ End(r, "committed")
  /\ UNCHANGED <<status, total, customer, refunded, audited>>

\* The ValidationErrors of both services.
Refuse(r) ==
  /\ pc[r] = "deciding"
  /\ \/ operation[r] = "payment" /\ ~PaymentAllowed(r)
     \/ operation[r] = "void" /\ seen[r].status = "VOID"
  /\ End(r, "refused")
  /\ UNCHANGED rows

\* void_sale() records the RETURN movements, locking batch after batch.
ReturnStock(r) ==
  /\ pc[r] = "deciding"
  /\ operation[r] = "void"
  /\ seen[r].status # "VOID"
  /\ pc' = [pc EXCEPT ![r] = "returning"]
  /\ UNCHANGED <<rows, holder, call, seen>>

\* Mutant: the cash collected is not refunded.
VoidKeepingCash(r) ==
  /\ pc[r] = "returning"
  /\ status' = [status EXCEPT ![sale[r]] = "VOID"]
  /\ audited' = [audited EXCEPT ![sale[r]] = @ + 1]
  /\ End(r, "committed")
  /\ UNCHANGED <<total, customer, paid, refunded>>

\* The refund, the status and the audit row, then the commit.
VoidSale(r) ==
  /\ pc[r] = "returning"
  /\ LET s == sale[r] IN
       /\ refunded' = IF seen[r].amountPaid > 0
                      THEN [refunded EXCEPT ![s] = @ + seen[r].amountPaid]
                      ELSE refunded
       /\ status' = [status EXCEPT ![s] = "VOID"]
       /\ audited' = [audited EXCEPT ![s] = @ + 1]
  /\ End(r, "committed")
  /\ UNCHANGED <<total, customer, paid>>

\* A deadlock victim, a broken constraint, a dead worker: all is rolled back.
Rollback(r) ==
  /\ pc[r] \in Running
  /\ End(r, "failed")
  /\ UNCHANGED rows

Step(r) == LockSale(r) \/ ReadTotals(r) \/ PayOff(r) \/ Refuse(r)
             \/ ReturnStock(r) \/ VoidSale(r)

Next ==
  \E r \in Request :
    \/ \E s \in Sale, t \in Amount, received \in Cash, named \in BOOLEAN :
         CreateSale(r, s, t, received, named)
    \/ \E s \in Sale :
         \/ Post(r, "void", s, 0)
         \/ \E received \in Cash : Post(r, "payment", s, received)
    \/ Step(r)
    \/ Rollback(r)

Spec == Init /\ [][Next]_vars

(***************************************************************************)
(* A worker that has begun a transaction goes on with it.  Nothing forces  *)
(* requests to arrive or to fail.                                          *)
(***************************************************************************)
FairSpec == Spec /\ \A r \in Request : WF_vars(Step(r))

--------------------------------------------------------------------------------
(***************************************************************************)
(* Correctness.                                                            *)
(***************************************************************************)
Totals == [status : {"ABSENT", "COMPLETED", "VOID"}, amountPaid : Int, balance : Int]

\* Every variable keeps its type.
TypeOK ==
  /\ status \in [Sale -> {"ABSENT", "COMPLETED", "VOID"}]
  /\ total \in [Sale -> Nat]
  /\ customer \in [Sale -> BOOLEAN]
  /\ paid \in [Sale -> Nat]
  /\ refunded \in [Sale -> Nat]
  /\ audited \in [Sale -> Nat]
  /\ holder \in [Sale -> Request \cup {Free}]
  /\ pc \in [Request -> {"new"} \cup Running \cup Answered]
  /\ operation \in [Request -> {"none", "payment", "void"}]
  /\ sale \in [Request -> Sale]
  /\ cash \in [Request -> Nat]
  /\ seen \in [Request -> Totals]

(***************************************************************************)
(* The books balance in every committed state: a standing sale has been    *)
(* paid at most its total and refunded nothing, owes only when a customer  *)
(* is named ("anything short stays owed, which needs a customer"), and has *)
(* no void in the audit log; a void sale has had every cent it was paid    *)
(* given back, exactly once, and its void is audited exactly once.         *)
(***************************************************************************)
BooksBalance ==
  \A s \in Sale :
    /\ status[s] = "ABSENT" =>
         paid[s] = 0 /\ refunded[s] = 0 /\ audited[s] = 0 /\ total[s] = 0
    /\ status[s] = "COMPLETED" =>
         /\ paid[s] <= total[s] /\ refunded[s] = 0 /\ audited[s] = 0
         /\ paid[s] < total[s] => customer[s]
    /\ status[s] = "VOID" => refunded[s] = paid[s] /\ audited[s] = 1

(***************************************************************************)
(* Between locking a sale and committing, a request acts on totals that    *)
(* are still the sale's: no payment or refund is computed from a stale     *)
(* balance.                                                                *)
(***************************************************************************)
TotalsAreCurrent ==
  \A r \in Request :
    pc[r] \in {"deciding", "returning"} => seen[r] = Annotated(sale[r])

\* A request past the lock statement holds its sale, and only running ones do.
LockDiscipline ==
  \A r \in Request :
    /\ pc[r] \in Running \ {"locking"} => holder[sale[r]] = r
    /\ \A s \in Sale :
         holder[s] = r => sale[r] = s /\ pc[r] \in Running \ {"locking"}

\* What the requests have decided to do is allowed by what they saw.
DecisionIsSound ==
  \A r \in Request :
    /\ pc[r] \in Running => status[sale[r]] # "ABSENT"
    /\ pc[r] = "returning" => operation[r] = "void" /\ seen[r].status = "COMPLETED"

IInv == TypeOK /\ BooksBalance /\ TotalsAreCurrent /\ LockDiscipline /\ DecisionIsSound

(***************************************************************************)
(* "The sale stays on record as VOID.  Nothing is deleted": rows are only  *)
(* appended, a recorded total and customer never change, and once a sale   *)
(* is void neither its status nor its money moves again, even when a       *)
(* payment was already on its way.  So the payment status the lists show   *)
(* only moves on: from UNPAID to PARTIAL to PAID, and from any to VOID.    *)
(***************************************************************************)
Rank == [UNPAID |-> 1, PARTIAL |-> 2, PAID |-> 3, VOID |-> 4]

HistoryKept ==
  \A s \in Sale :
    /\ paid[s] <= paid'[s] /\ refunded[s] <= refunded'[s]
    /\ status[s] # "ABSENT" =>
         /\ total'[s] = total[s] /\ customer'[s] = customer[s]
         /\ status'[s] # "ABSENT"
         /\ Rank[PaymentStatus(s)] <= Rank[PaymentStatus(s)']
    /\ status[s] = "VOID" =>
         status'[s] = "VOID" /\ paid'[s] = paid[s] /\ refunded'[s] = refunded[s]

HistoryIsKept == [][HistoryKept]_vars

\* The transactional account implements the abstract credit book.
Book == INSTANCE CreditBook WITH net <- [s \in Sale |-> AmountPaid(s)]
BookSpec == Book!Spec

(***************************************************************************)
(* Every payment or void that reached its sale is answered: no request is  *)
(* left waiting for a row lock for ever.                                   *)
(***************************************************************************)
EveryCallAnswered ==
  \A r \in Request : pc[r] = "locking" ~> pc[r] \in Answered
================================================================================
