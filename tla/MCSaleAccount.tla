----------------------------- MODULE MCSaleAccount -----------------------------
(* Four requests on two sales of two different totals. *)
EXTENDS SaleAccount, TLC

CONSTANTS r1, r2, r3, r4, s1, s2

MCSale    == {s1, s2}
MCRequest == {r1, r2, r3, r4}
MCAmount  == {0, 3}
MCCash    == {0, 2, 4}

Symmetry == Permutations(MCRequest) \cup Permutations(MCSale)
================================================================================
