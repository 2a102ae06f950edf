----------------------------- MODULE MCPurchasing ------------------------------
(* Three requests on two purchases of one or two products. *)
EXTENDS Purchasing, TLC

CONSTANTS p1, p2, r1, r2, r3, serum, comb, n1, n2

MCPurchase == {p1, p2}
MCRequest  == {r1, r2, r3}
MCProduct  == {serum, comb}
MCCost     == {1, 2}

Line(p, c) == [product |-> p, cost |-> c]
MCBasket   == {<<Line(serum, 2)>>, <<Line(serum, 1), Line(comb, 2)>>}

Symmetry == Permutations(MCPurchase) \cup Permutations(MCRequest)
================================================================================
