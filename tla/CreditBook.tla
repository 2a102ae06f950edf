------------------------------ MODULE CreditBook -------------------------------
(***************************************************************************)
(* What the money side of sales promises, with no transactions: a sale is  *)
(* recorded with part of its total paid, is paid off in positive amounts   *)
(* that never exceed what is owed, and may be voided once, after which     *)
(* nothing is owed on it and nothing of its cash is kept.                  *)
(***************************************************************************)
EXTENDS Integers

CONSTANTS Sale,    \* sales that may be recorded
          Amount   \* totals a sale may have

VARIABLES status,  \* "ABSENT" until recorded, then Sale.Status
          total,   \* Sale.total
          net      \* amount_paid: payments minus refunds

credit == <<status, total, net>>

\* with_payment_totals(): what is still owed, 0 for a void sale.
Owed(s) == IF status[s] = "COMPLETED" THEN total[s] - net[s] ELSE 0

Init ==
  /\ status = [s \in Sale |-> "ABSENT"]
  /\ total = [s \in Sale |-> 0]
  /\ net = [s \in Sale |-> 0]

Sell(s) ==
  /\ status[s] = "ABSENT"
  /\ status' = [status EXCEPT ![s] = "COMPLETED"]
  /\ \E t \in Amount : \E p \in 0..t :
       /\ total' = [total EXCEPT ![s] = t]
       /\ net' = [net EXCEPT ![s] = p]

Pay(s) ==
  /\ status[s] = "COMPLETED"
  /\ \E a \in 1..Owed(s) : net' = [net EXCEPT ![s] = @ + a]
  /\ UNCHANGED <<status, total>>

Void(s) ==
  /\ status[s] = "COMPLETED"
  /\ status' = [status EXCEPT ![s] = "VOID"]
  /\ net' = [net EXCEPT ![s] = 0]
  /\ UNCHANGED total

Next == \E s \in Sale : Sell(s) \/ Pay(s) \/ Void(s)

Spec == Init /\ [][Next]_credit
================================================================================
