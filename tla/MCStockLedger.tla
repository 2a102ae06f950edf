----------------------------- MODULE MCStockLedger -----------------------------
(* Three requests moving one or two units on two batches. *)
EXTENDS StockLedger, TLC

CONSTANTS r1, r2, r3, b1, b2

MCBatch    == {b1, b2}
MCRequest  == {r1, r2, r3}
MCQuantity == {-2, -1, 2}

Symmetry == Permutations(MCRequest) \cup Permutations(MCBatch)
================================================================================
