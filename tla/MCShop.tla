-------------------------------- MODULE MCShop ---------------------------------
(***************************************************************************)
(* Two products.  Pills has batches b1, expiring first, and b2, whose      *)
(* primary keys sort the other way round, and old, which has expired;      *)
(* soap, which does not expire, has its DEFAULT batch b3, and comb none    *)
(* until b4 is created.                                                    *)
(***************************************************************************)
EXTENDS Shop, TLC

CONSTANTS pills, soap, comb, old, b1, b2, b3, b4, p1, p2, q1, q2, q3, q4

MCProduct   == {pills, soap, comb}
MCBatch     == {old, b1, b2, b3, b4}
MCPurchase  == {p1, p2}
MCProductOf == old :> pills @@ b1 :> pills @@ b2 :> pills @@ b3 :> soap @@ b4 :> comb
MCPkRank    == old :> 4 @@ b1 :> 2 @@ b2 :> 1 @@ b3 :> 3 @@ b4 :> 5
MCFefoRank  == old :> 0 @@ b1 :> 1 @@ b2 :> 2 @@ b3 :> 3 @@ b4 :> 4
MCExpired   == {old}
MCTracks    == {pills}

Line(p, n)   == [product |-> p, quantity |-> n]
SaleOf(cart) == [kind |-> "sale", cart |-> cart]
VoidOf(r)    == [kind |-> "void", sale |-> r]
Receive(p)   == [kind |-> "receive", purchase |-> p]
Adjust(type, b, n) == [kind |-> "adjust", type |-> type, move |-> Move(b, n)]

\* Sales and voids of them against adjustments of the same batches.
TillStock == old :> 1 @@ b1 :> 1 @@ b2 :> 2 @@ b3 :> 1
TillJobs  ==
  q1 :> {SaleOf(<<Line(pills, 2), Line(soap, 1)>>)} @@
  q2 :> {SaleOf(<<Line(pills, 3)>>), VoidOf(q1)} @@
  q3 :> {VoidOf(q1), SaleOf(<<Line(soap, 1), Line(pills, 1)>>)} @@
  q4 :> {Adjust("DAMAGE", b1, -1), Adjust("ADJUSTMENT", b2, 1), Adjust("DAMAGE", b4, -1)}

\* Purchases that create and refill b1 and b2 while they are sold and adjusted,
\* and b4, which one adjustment creates and another may not take from.
ShelfStock == b3 :> 1
ShelfLines == p1 :> <<Move(b1, 1), Move(b2, 1)>> @@ p2 :> <<Move(b2, 1), Move(b1, 2)>>
ShelfJobs  ==
  q1 :> {Receive(p1)} @@
  q2 :> {Receive(p1), Receive(p2), SaleOf(<<Line(pills, 1)>>), Adjust("ADJUSTMENT", b4, 1)} @@
  q3 :> {SaleOf(<<Line(pills, 2)>>), SaleOf(<<Line(pills, 1), Line(soap, 1)>>)} @@
  q4 :> {Adjust("DAMAGE", b1, -1), Adjust("ADJUSTMENT", b2, 1), VoidOf(q3),
         Adjust("DAMAGE", b4, -1)}

\* Requests that lock the same batches and products in different orders.
LiveJobs ==
  q1 :> {SaleOf(<<Line(pills, 2), Line(soap, 1)>>), Receive(p1)} @@
  q2 :> {VoidOf(q1), Receive(p2)} @@
  q3 :> {SaleOf(<<Line(pills, 1)>>), Receive(p2)}
================================================================================
