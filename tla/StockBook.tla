------------------------------- MODULE StockBook -------------------------------
(***************************************************************************)
(* What the stock ledger promises, with no transactions and no locks.      *)
(*                                                                         *)
(* StockMovement rows are only ever appended, so a batch is described by   *)
(* two totals that only grow: the units its positive rows added and the    *)
(* units its negative rows removed.  Stock on hand is never stored; it is  *)
(* their difference, and no posting may leave it below zero.               *)
(***************************************************************************)
EXTENDS Integers

CONSTANT Batch

VARIABLES added, removed

book == <<added, removed>>

\* with_batch_stock(): the sum of the quantities of the batch's rows.
OnHand(b) == added[b] - removed[b]

\* Any stock a business may start with.
Init ==
  /\ added \in [Batch -> Nat]
  /\ removed \in [Batch -> Nat]
  /\ \A b \in Batch : removed[b] <= added[b]

(***************************************************************************)
(* One business operation: any number of rows, on any batches, appear at   *)
(* once.                                                                   *)
(***************************************************************************)
Post ==
  /\ added' \in [Batch -> Nat]
  /\ removed' \in [Batch -> Nat]
  /\ \A b \in Batch :
       /\ added[b] <= added'[b]
       /\ removed[b] <= removed'[b]
       /\ removed'[b] <= added'[b]

Spec == Init /\ [][Post]_book
================================================================================
