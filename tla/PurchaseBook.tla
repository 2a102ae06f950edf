----------------------------- MODULE PurchaseBook ------------------------------
(***************************************************************************)
(* What purchases promise, with no transactions: a draft may be rewritten  *)
(* any number of times and holds no stock; it is either received, once,    *)
(* which puts the lines it then has on the shelf, or cancelled; after that *)
(* nothing about it changes.                                               *)
(***************************************************************************)
CONSTANTS Purchase, Basket, Nothing

VARIABLES status,   \* "ABSENT" until drafted, then Purchase.Status
          items,    \* its lines
          stocked   \* the lines PURCHASE movements were written for

book == <<status, items, stocked>>

Init ==
  /\ status = [p \in Purchase |-> "ABSENT"]
  /\ items = [p \in Purchase |-> Nothing]
  /\ stocked = [p \in Purchase |-> Nothing]

Save(p) ==
  /\ status[p] \in {"ABSENT", "DRAFT"}
  /\ status' = [status EXCEPT ![p] = "DRAFT"]
  /\ \E b \in Basket : items' = [items EXCEPT ![p] = b]
  /\ UNCHANGED stocked

Receive(p) ==
  /\ status[p] = "DRAFT"
  /\ status' = [status EXCEPT ![p] = "RECEIVED"]
  /\ stocked' = [stocked EXCEPT ![p] = items[p]]
  /\ UNCHANGED items

Cancel(p) ==
  /\ status[p] = "DRAFT"
  /\ status' = [status EXCEPT ![p] = "CANCELLED"]
  /\ UNCHANGED <<items, stocked>>

Next == \E p \in Purchase : Save(p) \/ Receive(p) \/ Cancel(p)

Spec == Init /\ [][Next]_book
================================================================================
