---------------------------- MODULE ShopLedgerProofs ----------------------------
(***************************************************************************)
(* Proofs about Shop, for any requests, carts, batches and purchases: the  *)
(* ledger agrees with the documents, a transaction is recorded as a whole  *)
(* or not at all, no batch goes below zero, and sales follow FEFO.         *)
(***************************************************************************)
EXTENDS ShopProofs, DataLemmas, SequenceTheorems

(***************************************************************************)
(* Sums of quantities.                                                     *)
(***************************************************************************)
LEMMA UnitsEmpty == Units({}) = 0
  BY SumEmpty DEF Units

LEMMA UnitsType ==
  ASSUME NEW S, IsFiniteSet(S), \A x \in S : x.quantity \in Int
  PROVE  Units(S) \in Int
  <1> DEFINE w == [row \in S |-> row.quantity]
  <1>1. \A x \in S : w[x] \in Int
    OBVIOUS
  <1> HIDE DEF w
  <1>2. SumFunctionOnSet(w, S) \in Int
    BY <1>1, SumType
  <1> QED
    BY <1>2 DEF Units, w

LEMMA UnitsUnion ==
  ASSUME NEW S, IsFiniteSet(S), NEW T, IsFiniteSet(T), S \cap T = {},
         \A x \in S \cup T : x.quantity \in Int
  PROVE  Units(S \cup T) = Units(S) + Units(T)
  <1> DEFINE w == [row \in S \cup T |-> row.quantity]
             u == [row \in S |-> row.quantity]
             v == [row \in T |-> row.quantity]
  <1>1. /\ \A x \in S \cup T : w[x] \in Int
        /\ \A x \in S : w[x] \in Int /\ u[x] = w[x]
        /\ \A x \in T : w[x] \in Int /\ v[x] = w[x]
    OBVIOUS
  <1> HIDE DEF w, u, v
  <1>2. SumFunctionOnSet(w, S \cup T) = SumFunctionOnSet(w, S) + SumFunctionOnSet(w, T)
    BY <1>1, SumUnion
  <1>3. SumFunctionOnSet(u, S) = SumFunctionOnSet(w, S)
    BY <1>1, SumSame
  <1>4. SumFunctionOnSet(v, T) = SumFunctionOnSet(w, T)
    BY <1>1, SumSame
  <1> QED
    BY <1>2, <1>3, <1>4 DEF Units, w, u, v

LEMMA UnitsSingle ==
  ASSUME NEW x, x.quantity \in Int
  PROVE  Units({x}) = x.quantity
  <1> DEFINE w == [row \in {x} |-> row.quantity]
  <1>1. \A y \in {} \cup {x} : w[y] \in Int
    OBVIOUS
  <1>2. w[x] = x.quantity /\ {} \cup {x} = {x}
    OBVIOUS
  <1> HIDE DEF w
  <1>3. SumFunctionOnSet(w, {} \cup {x}) = w[x] + SumFunctionOnSet(w, {})
    BY <1>1, SumAdd, FS_EmptySet
  <1>4. SumFunctionOnSet(w, {x}) = x.quantity
    BY <1>2, <1>3, SumEmpty
  <1> QED
    BY <1>4 DEF Units, w

LEMMA UnitsAdd ==
  ASSUME NEW S, IsFiniteSet(S), NEW x, x \notin S, \A y \in S \cup {x} : y.quantity \in Int
  PROVE  Units(S \cup {x}) = Units(S) + x.quantity
  <1>1. IsFiniteSet({x}) /\ S \cap {x} = {}
    BY FS_Singleton
  <1>2. Units(S \cup {x}) = Units(S) + Units({x})
    BY <1>1, UnitsUnion
  <1> QED
    BY <1>2, UnitsSingle

LEMMA UnitsByIndex ==
  ASSUME NEW S, IsFiniteSet(S), NEW T, NEW f \in Bijection(S, T),
         \A x \in S : x.quantity \in Int /\ f[x].quantity = x.quantity
  PROVE  Units(T) = Units(S)
  <1> DEFINE w == [row \in T |-> row.quantity]
             v == [row \in S |-> row.quantity]
  <1>1. \A x \in S : v[x] \in Int /\ w[f[x]] = v[x]
    BY DEF Bijection, Injection
  <1> HIDE DEF w, v
  <1>2. SumFunctionOnSet(w, T) = SumFunctionOnSet(v, S)
    BY <1>1, SumByIndex
  <1> QED
    BY <1>2 DEF Units, w, v

LEMMA UnitsSign ==
  ASSUME NEW S, IsFiniteSet(S)
  PROVE  /\ (\A x \in S : x.quantity \in Nat) => Units(S) \in Nat
         /\ (\A x \in S : x.quantity \in Int /\ x.quantity <= 0) => -Units(S) \in Nat
  <1> DEFINE w == [row \in S |-> row.quantity]
             v == [row \in S |-> -row.quantity]
  <1>1. ASSUME \A x \in S : x.quantity \in Nat
        PROVE  Units(S) \in Nat
    <2>1. \A x \in S : w[x] \in Nat
      BY <1>1
    <2> HIDE DEF w
    <2>2. SumFunctionOnSet(w, S) \in Nat
      BY <2>1, SumNonNegative
    <2> QED
      BY <2>2 DEF Units, w
  <1>2. ASSUME \A x \in S : x.quantity \in Int /\ x.quantity <= 0
        PROVE  -Units(S) \in Nat
    <2>1. \A x \in S : v[x] \in Nat /\ w[x] \in Int /\ v[x] = -w[x]
      BY <1>2
    <2> HIDE DEF w, v
    <2>2. SumFunctionOnSet(v, S) \in Nat
      BY <2>1, SumNonNegative
    <2>3. SumFunctionOnSet(v, S) = -SumFunctionOnSet(w, S)
      BY <2>1, SumNegated
    <2> QED
      BY <2>2, <2>3 DEF Units, w
  <1> QED
    BY <1>1, <1>2

--------------------------------------------------------------------------------
(***************************************************************************)
(* ORDER BY lists every row once, by rank.                                 *)
(***************************************************************************)
LEMMA InOrderLists ==
  ASSUME NEW S \in SUBSET Batch, IsFiniteSet(S), NEW rank,
         rank = PkRank \/ rank = FefoRank
  PROVE  LET s == InOrder(S, rank) IN
         /\ s \in Seq(S) /\ ToSet(s) = S
         /\ \A i, k \in DOMAIN s : i < k => rank[s[i]] < rank[s[k]]
         /\ \A i, k \in DOMAIN s : s[i] = s[k] => i = k
  <1> DEFINE n == Cardinality(S)
             s == InOrder(S, rank)
             InRank(f) == \A i, k \in DOMAIN f : i < k => rank[f[i]] < rank[f[k]]
  <1>1. /\ \A x \in S : rank[x] \in Int
        /\ \A x, y \in S : x # y => rank[x] # rank[y]
    BY OrdersAreTotal
  <1>2. n \in Nat /\ IsFiniteSet(1..n) /\ Cardinality(1..n) = n
    <2>1. n \in Nat
      BY FS_CardinalityType
    <2> QED
      BY <2>1, FS_Interval
  <1>3. PICK f \in [1..n -> S] : Sorted(f, n, rank)
    BY <1>1, CanBeSorted
  <1>4. InRank(f)
    BY <1>3 DEF Sorted
  <1>5. s = CHOOSE g \in [1..n -> S] : InRank(g)
    BY DEF InOrder
  <1> HIDE DEF s
  <1>6. s \in [1..n -> S] /\ InRank(s)
    <2> HIDE DEF InRank, n
    <2> QED
      BY <1>3, <1>4, <1>5
  <1> HIDE DEF n
  <1>7. \A i, k \in 1..n : s[i] = s[k] => i = k
    <2> SUFFICES ASSUME NEW i \in 1..n, NEW k \in 1..n, s[i] = s[k], i # k
                 PROVE  FALSE
      OBVIOUS
    <2>1. i < k \/ k < i
      BY <1>2
    <2>2. rank[s[i]] \in Int /\ rank[s[i]] = rank[s[k]]
      BY <1>1, <1>6
    <2> QED
      BY <1>6, <2>1, <2>2
  <1>8. s \in Injection(1..n, S)
    BY <1>6, <1>7 DEF Injection, IsInjective
  <1>9. s \in Surjection(1..n, S)
    BY <1>2, <1>8, FS_Injection DEF n
  <1>10. s \in Seq(S) /\ DOMAIN s = 1..n
    BY <1>2, <1>6, SeqDef
  <1>11. ToSet(s) = S
    BY <1>6, <1>9, <1>10 DEF ToSet, Surjection
  <1> QED
    BY <1>6, <1>7, <1>10, <1>11 DEF s

(***************************************************************************)
(* The allocation loop takes the batches in the order they are listed, all *)
(* that is in each but the last it needs, and what it takes is what was    *)
(* needed less what is left to find.                                       *)
(***************************************************************************)
Lists(from) ==
  from \in Seq(Batch) /\ \A i, k \in DOMAIN from : from[i] = from[k] => i = k

Remains(rem, n, needed, stock) ==
  rem = CHOOSE f : f = [i \in 0..n |-> IF i = 0 THEN needed
                                       ELSE f[i - 1] - Least(f[i - 1], stock[i])]

CountsDown(rem, n, needed, stock) ==
  /\ rem \in [0..n -> Nat]
  /\ rem[0] = needed
  /\ \A i \in 1..n : /\ rem[i - 1] = 0 => rem[i] = 0
                     /\ rem[i - 1] > 0 => rem[i] < rem[i - 1]
                     /\ rem[i] > 0 => rem[i] - rem[i - 1] = -stock[i]

LEMMA RemainingCounts ==
  ASSUME NEW n \in Nat, NEW needed \in Nat, NEW stock, \A i \in 1..n : stock[i] \in Nat \ {0},
         NEW rem, Remains(rem, n, needed, stock)
  PROVE  CountsDown(rem, n, needed, stock)
  <1> DEFINE Body(f) == [i \in 0..n |-> IF i = 0 THEN needed
                                        ELSE f[i - 1] - Least(f[i - 1], stock[i])]
             step == [ia \in Nat \X Nat |-> IF ia[1] \in 1..n
                                            THEN ia[2] - Least(ia[2], stock[ia[1]]) ELSE 0]
  <1>1. \A a \in Nat, i \in 1..n : a - Least(a, stock[i]) \in Nat
    BY DEF Least
  <1>2. step \in [Nat \X Nat -> Nat]
    BY <1>1
  <1>3. \A i \in 1..n, a \in Nat : step[<<i, a>>] = a - Least(a, stock[i])
    OBVIOUS
  <1> HIDE DEF step
  <1>4. PICK it \in [0..n -> Nat] : Steps(it, n, needed, step)
    BY <1>2, Stepping
  <1>5. \A i \in 0..n : it[i] = IF i = 0 THEN needed
                                ELSE it[i - 1] - Least(it[i - 1], stock[i])
    <2> SUFFICES ASSUME NEW i \in 0..n, i # 0
                 PROVE  it[i] = it[i - 1] - Least(it[i - 1], stock[i])
      BY <1>4 DEF Steps
    <2>1. i \in 1..n /\ i - 1 \in 0..n
      OBVIOUS
    <2>2. it[i] = step[<<i, it[i - 1]>>]
      BY <1>4 DEF Steps
    <2> QED
      BY <1>3, <1>4, <2>1, <2>2
  <1>6. it = Body(it)
    BY <1>4, <1>5
  <1> HIDE DEF Body
  <1>7. rem = Body(rem)
    <2>1. rem = CHOOSE f : f = Body(f)
      BY DEF Body, Remains
    <2> QED
      BY <1>6, <2>1
  <1>8. \A i \in 0..n : rem[i] = IF i = 0 THEN needed
                                 ELSE rem[i - 1] - Least(rem[i - 1], stock[i])
    BY <1>7 DEF Body
  <1>9. \A i \in 0..n : rem[i] \in Nat
    <2> DEFINE P == {k \in Nat : k <= n => rem[k] \in Nat}
    <2>1. 0 \in P
      BY <1>8
    <2>2. ASSUME NEW k \in Nat, k \in P
          PROVE  k + 1 \in P
      <3> SUFFICES ASSUME k + 1 <= n PROVE rem[k + 1] \in Nat
        OBVIOUS
      <3>1. k + 1 \in 1..n /\ rem[k] \in Nat /\ (k + 1) - 1 = k
        BY <2>2
      <3>2. rem[k + 1] = rem[k] - Least(rem[k], stock[k + 1])
        BY <1>8, <3>1
      <3> QED
        BY <1>1, <3>1, <3>2
    <2> HIDE DEF P
    <2>3. Nat \subseteq P
      BY <2>1, <2>2, NatInduces
    <2> QED
      BY <2>3 DEF P
  <1>10. rem \in [0..n -> Nat]
    BY <1>7, <1>9 DEF Body
  <1>11. ASSUME NEW i \in 1..n
         PROVE  /\ rem[i - 1] = 0 => rem[i] = 0
                /\ rem[i - 1] > 0 => rem[i] < rem[i - 1]
                /\ rem[i] > 0 => rem[i] - rem[i - 1] = -stock[i]
    <2>1. i \in 0..n /\ i - 1 \in 0..n /\ i # 0
      OBVIOUS
    <2>2. rem[i] = rem[i - 1] - Least(rem[i - 1], stock[i])
      BY <1>8, <2>1
    <2>3. rem[i] \in Nat /\ rem[i - 1] \in Nat
      BY <1>9, <2>1
    <2> QED
      BY <2>2, <2>3 DEF Least
  <1>12. 0 \in 0..n
    OBVIOUS
  <1>13. rem[0] = needed
    BY <1>8, <1>12
  <1> QED
    BY <1>10, <1>11, <1>13 DEF CountsDown

\* The batches used are the first ones.
LEMMA UsedAreFirst ==
  ASSUME NEW n \in Nat, NEW rem \in [0..n -> Nat],
         \A i \in 1..n : rem[i - 1] = 0 => rem[i] = 0
  PROVE  LET used == Cardinality({i \in 1..n : rem[i - 1] > 0}) IN
         /\ used \in 0..n
         /\ \A i \in 1..used : rem[i - 1] > 0
         /\ rem[used] = rem[n]
  <1> DEFINE Over == {i \in 0..n : rem[i] = 0}
             U == {i \in 1..n : rem[i - 1] > 0}
  <1>0. \A i \in 0..n : rem[i] \in Nat
    OBVIOUS
  <1>1. \A k \in Nat : Cardinality(1..k) = k
    BY FS_Interval
  <1>4. \A i \in 1..n : i - 1 \in 0..n /\ i \in 0..n
    OBVIOUS
  <1>2. CASE Over = {}
    <2>1. \A i \in 0..n : rem[i] > 0
      <3> SUFFICES ASSUME NEW i \in 0..n PROVE rem[i] > 0
        OBVIOUS
      <3>1. i \notin Over
        BY <1>2
      <3> QED
        BY <1>0, <3>1
    <2>2. U = 1..n
      BY <1>4, <2>1
    <2>3. Cardinality(U) = n
      BY <1>1, <2>2
    <2>4. \A i \in 1..n : rem[i - 1] > 0
      BY <1>4, <2>1
    <2> HIDE DEF U
    <2>5. n \in 0..n
      OBVIOUS
    <2>6. Cardinality(U) \in 0..n /\ rem[Cardinality(U)] = rem[n]
      BY <2>3, <2>5
    <2>7. \A i \in 1..Cardinality(U) : rem[i - 1] > 0
      BY <2>3, <2>4
    <2> QED
      BY <2>6, <2>7 DEF U
  <1>3. CASE Over # {}
    <2>0. Over \subseteq Nat
      OBVIOUS
    <2>1. PICK m \in Over : \A k \in Over : m <= k
      <3> HIDE DEF Over
      <3> QED
        BY <1>3, <2>0, Smallest
    <2>7. m \in 0..n /\ rem[m] = 0 /\ m \in Nat /\ \A k \in 0..n : rem[k] = 0 => m <= k
      BY <2>1
    <2>2. ASSUME NEW k \in 0..n, m <= k PROVE rem[k] = 0
      <3> DEFINE P == {j \in Nat : m + j <= n => rem[m + j] = 0}
      <3>1. 0 \in P
        BY <2>7
      <3>2. ASSUME NEW j \in Nat, j \in P
            PROVE  j + 1 \in P
        <4> SUFFICES ASSUME m + (j + 1) <= n PROVE rem[m + (j + 1)] = 0
          OBVIOUS
        <4>1. m + (j + 1) \in 1..n /\ (m + (j + 1)) - 1 = m + j /\ rem[m + j] = 0
          BY <2>7, <3>2
        <4> QED
          BY <4>1
      <3> HIDE DEF P
      <3>3. Nat \subseteq P
        BY <3>1, <3>2, NatInduces
      <3>4. k - m \in P /\ m + (k - m) = k
        BY <2>7, <2>2, <3>3
      <3> QED
        BY <3>4 DEF P
    <2>3. U = 1..m
      <3>1. ASSUME NEW i \in 1..n PROVE rem[i - 1] > 0 <=> i <= m
        <4>1. i - 1 \in 0..n /\ rem[i - 1] \in Nat
          BY <1>0
        <4>2. CASE i <= m
          BY <2>7, <4>1, <4>2
        <4>3. CASE ~(i <= m)
          BY <2>7, <2>2, <4>1, <4>3
        <4> QED
          BY <4>2, <4>3
      <3> QED
        BY <2>7, <3>1
    <2>4. Cardinality(U) = m
      BY <1>1, <2>7, <2>3
    <2>5. rem[m] = rem[n]
      BY <2>7, <2>2
    <2>6. \A i \in 1..m : rem[i - 1] > 0
      BY <2>3
    <2> HIDE DEF U, Over
    <2> QED
      BY <2>7, <2>4, <2>5, <2>6 DEF U
  <1> QED
    BY <1>2, <1>3

\* What was got takes from the batches in turn: all of each but perhaps the last.
TakesInTurn(r, from, needed, got) ==
  /\ got.remaining \in Nat
  /\ got.moves \in Seq(Movement) /\ Len(got.moves) <= Len(from)
  /\ \A i \in 1..Len(got.moves) : got.moves[i].batch = from[i]
  /\ \A i \in 1..Len(got.moves) :
       i < Len(got.moves) => got.moves[i].quantity = -Stock(r, from[i])
  /\ Units(ToSet(got.moves)) = got.remaining - needed

LEMMA AllocateTakes ==
  ASSUME NEW r, NEW from, Lists(from), NEW needed \in Nat,
         \A i \in DOMAIN from : Stock(r, from[i]) \in Nat \ {0}
  PROVE  TakesInTurn(r, from, needed, Allocate(r, from, needed))
  <1> DEFINE n == Len(from)
             stock == [i \in 1..n |-> Stock(r, from[i])]
             Body(f) == [i \in 0..n |-> IF i = 0 THEN needed
                                        ELSE f[i - 1] - Least(f[i - 1], Stock(r, from[i]))]
             rem == CHOOSE f : f = Body(f)
             used == Cardinality({i \in 1..n : rem[i - 1] > 0})
             moves == [i \in 1..used |-> Move(from[i], rem[i] - rem[i - 1])]
  <1>1. n \in Nat /\ DOMAIN from = 1..n /\ from \in [1..n -> Batch]
    BY LenProperties DEF Lists
  <1>2. /\ Allocate(r, from, needed).remaining = rem[n]
        /\ Allocate(r, from, needed).moves = moves
    BY <1>1 DEF Allocate
  <1>3. \A i \in 1..n : stock[i] \in Nat \ {0} /\ stock[i] = Stock(r, from[i])
    BY <1>1
  <1>10. Remains(rem, n, needed, stock)
    <2>1. \A f : Body(f) = [i \in 0..n |-> IF i = 0 THEN needed
                                       ELSE f[i - 1] - Least(f[i - 1], stock[i])]
      BY <1>3
    <2> HIDE DEF stock
    <2>2. (CHOOSE f : f = Body(f))
            = CHOOSE f : f = [i \in 0..n |-> IF i = 0 THEN needed
                                       ELSE f[i - 1] - Least(f[i - 1], stock[i])]
      <3> HIDE DEF Body
      <3> QED
        BY <2>1, Zenon
    <2> QED
      BY <2>2 DEF Remains
  <1> HIDE DEF rem, stock, n
  <1>4. /\ rem \in [0..n -> Nat]
        /\ rem[0] = needed
        /\ \A i \in 1..n : /\ rem[i - 1] = 0 => rem[i] = 0
                           /\ rem[i - 1] > 0 => rem[i] < rem[i - 1]
                           /\ rem[i] > 0 => rem[i] - rem[i - 1] = -stock[i]
    <2>1. n \in Nat /\ needed \in Nat /\ \A i \in 1..n : stock[i] \in Nat \ {0}
      BY <1>1, <1>3
    <2>2. CountsDown(rem, n, needed, stock)
      BY <2>1, <1>10, RemainingCounts
    <2> QED
      BY <2>2 DEF CountsDown
  <1>5. /\ used \in 0..n
        /\ \A i \in 1..used : rem[i - 1] > 0
        /\ rem[used] = rem[n]
    BY <1>1, <1>4, UsedAreFirst
  <1> HIDE DEF used
  <1>6. ASSUME NEW i \in 1..used
        PROVE  /\ moves[i].batch = from[i] /\ moves[i].quantity = rem[i] - rem[i - 1]
               /\ moves[i] \in Movement
               /\ i < used => moves[i].quantity = -Stock(r, from[i])
    <2>1. i \in 1..n /\ rem[i] \in Nat /\ rem[i - 1] \in Nat /\ rem[i] < rem[i - 1]
      BY <1>1, <1>4, <1>5
    <2>2. moves[i] = [batch |-> from[i], quantity |-> rem[i] - rem[i - 1]]
      BY DEF Move
    <2>3. i < used => rem[i] > 0
      <3> SUFFICES ASSUME i < used PROVE rem[i] > 0
        OBVIOUS
      <3>1. i + 1 \in 1..used /\ (i + 1) - 1 = i
        BY <1>5
      <3> QED
        BY <1>5, <3>1
    <2>4. from[i] \in Batch /\ rem[i] - rem[i - 1] \in Int \ {0}
      BY <1>1, <2>1
    <2>5. moves[i] \in Movement
      BY <2>2, <2>4 DEF Movement
    <2>6. moves[i].batch = from[i] /\ moves[i].quantity = rem[i] - rem[i - 1]
      BY <2>2
    <2>7. i < used => rem[i] - rem[i - 1] = -Stock(r, from[i])
      BY <1>3, <1>4, <2>1, <2>3
    <2> QED
      BY <2>5, <2>6, <2>7
  <1>7. moves \in Seq(Movement) /\ Len(moves) = used /\ DOMAIN moves = 1..used
    <2>1. moves \in [1..used -> Movement] /\ used \in Nat
      BY <1>5, <1>6
    <2> HIDE DEF moves
    <2> QED
      BY <2>1, SeqDef, LenProperties
  <1> HIDE DEF moves
  <1>8. Units(ToSet(moves)) = rem[used] - needed
    <2> DEFINE Taken(k) == {moves[i] : i \in 1..k}
               P == {k \in Nat : k <= used => IsFiniteSet(Taken(k)) /\ Units(Taken(k)) = rem[k] - needed}
    <2>1. 0 \in P
      <3>1. Taken(0) = {}
        OBVIOUS
      <3> HIDE DEF Taken
      <3> QED
        BY <1>4, <3>1, UnitsEmpty, FS_EmptySet
    <2>2. ASSUME NEW k \in Nat, k \in P
          PROVE  k + 1 \in P
      <3> SUFFICES ASSUME k + 1 <= used
                   PROVE  IsFiniteSet(Taken(k + 1)) /\ Units(Taken(k + 1)) = rem[k + 1] - needed
        OBVIOUS
      <3>1. IsFiniteSet(Taken(k)) /\ Units(Taken(k)) = rem[k] - needed
        <4>1. k <= used
          BY <1>1, <1>5
        <4> HIDE DEF Taken
        <4> QED
          BY <2>2, <4>1
      <3>9. k + 1 \in 1..used /\ k \in 0..n /\ k + 1 \in 0..n /\ used \in Nat /\ used <= n
        BY <1>1, <1>5
      <3>2. Taken(k + 1) = Taken(k) \cup {moves[k + 1]}
        <4>1. 1..(k + 1) = 1..k \cup {k + 1}
          OBVIOUS
        <4> QED
          BY <4>1
      <3>3. moves[k + 1] \notin Taken(k)
        <4> SUFFICES ASSUME NEW i \in 1..k, moves[i] = moves[k + 1] PROVE FALSE
          OBVIOUS
        <4>1. i \in 1..used /\ i \in 1..n /\ i # k + 1
          BY <1>1, <3>9
        <4>3. k + 1 \in 1..n
          BY <1>1, <3>9
        <4>2. from[i] = from[k + 1]
          BY <1>6, <3>9, <4>1
        <4> QED
          BY <1>1, <4>1, <4>2, <4>3 DEF Lists
      <3>4. \A y \in Taken(k) \cup {moves[k + 1]} : y.quantity \in Int
        <4>1. \A i \in 1..used : moves[i].quantity \in Int
          BY <1>6 DEF Movement
        <4> QED
          BY <3>9, <4>1
      <3> DEFINE T == Taken(k)
      <3> HIDE DEF T
      <3>5. Units(T \cup {moves[k + 1]}) = Units(T) + moves[k + 1].quantity
            /\ IsFiniteSet(T \cup {moves[k + 1]})
        BY <3>1, <3>3, <3>4, UnitsAdd, FS_AddElement DEF T
      <3>6. moves[k + 1].quantity = rem[k + 1] - rem[k]
        BY <1>6, <3>9
      <3>7. rem[k + 1] \in Nat /\ rem[k] \in Nat
        BY <1>4, <3>9
      <3>8. Units(T) = rem[k] - needed /\ Taken(k + 1) = T \cup {moves[k + 1]}
        BY <3>1, <3>2 DEF T
      <3> HIDE DEF Taken
      <3>10. Units(T \cup {moves[k + 1]}) = rem[k + 1] - needed
        BY <3>5, <3>6, <3>7, <3>8
      <3> QED
        BY <3>5, <3>8, <3>10
    <2> HIDE DEF P
    <2>3. Nat \subseteq P
      BY <2>1, <2>2, NatInduces
    <2>4. Units(Taken(used)) = rem[used] - needed
      <3>1. used \in Nat /\ used <= used
        BY <1>1, <1>5
      <3>2. used \in P
        BY <2>3, <3>1
      <3> QED
        BY <3>1, <3>2 DEF P
    <2>5. Taken(used) = ToSet(moves)
      BY <1>7 DEF ToSet
    <2> QED
      BY <2>4, <2>5
  <1>9. rem[n] \in Nat
    BY <1>1, <1>4
  <1> QED
    <2>1. Allocate(r, from, needed).remaining = rem[n]
      BY <1>2
    <2>2. Allocate(r, from, needed).moves = moves
      BY <1>2
    <2>3. used \in Nat /\ used <= Len(from)
      BY <1>1, <1>5 DEF n
    <2> QED
      BY <2>1, <2>2, <2>3, <1>5, <1>6, <1>7, <1>8, <1>9 DEF TakesInTurn

--------------------------------------------------------------------------------
(***************************************************************************)
(* The steps of a request, with the ways a statement can end told apart.   *)
(***************************************************************************)
Underway(r) == pc[r] \notin Answered \cup {"new"}

Abandons(r) ==
  Underway(r) /\ \E answer \in Answered \ {"done"} : Abandon(r, answer)

OpenSale(r) ==
  /\ pc[r] = "document" /\ job[r].kind = "void"
  /\ holder[job[r].sale] = Free /\ sales[job[r].sale].status # "VOID"
  /\ Acquire(r, job[r].sale)
  /\ plan' = [plan EXCEPT ![r] = sales[job[r].sale].allocations]
  /\ Goto(r, "moving")
  /\ UNCHANGED <<tables, job, listed, locked, lines, number, done, pending, short>>

OpenPurchase(r) ==
  /\ pc[r] = "document" /\ job[r].kind = "receive"
  /\ holder[job[r].purchase] = Free /\ purchases[job[r].purchase] = "DRAFT"
  /\ Acquire(r, job[r].purchase)
  /\ plan' = [plan EXCEPT ![r] = PurchaseLines[job[r].purchase]]
  /\ Goto(r, "resolving")
  /\ UNCHANGED <<tables, job, listed, locked, lines, number, done, pending, short>>

InsertBatch(r) ==
  /\ pc[r] = "creating" /\ Acquire(r, Planned(r).batch)
  /\ Goto(r, "moving")
  /\ UNCHANGED <<tables, work, done, pending>>

\* A row as record_movement() writes it.
RowOf(r, move) ==
  [by |-> r, doc |-> Document(r), type |-> MovementType(r),
   batch |-> move.batch, quantity |-> move.quantity]

WriteRow(r) ==
  /\ pc[r] = "moving" /\ done[r] < Len(plan[r])
  /\ ~Overdraws(r, Planned(r).batch, Planned(r).quantity)
  /\ Acquire(r, Planned(r).batch)
  /\ pending' = [pending EXCEPT ![r] = @ \cup {RowOf(r, Planned(r))}]
  /\ done' = [done EXCEPT ![r] = @ + 1]
  /\ Goto(r, IF job[r].kind = "receive" THEN "pricing" ELSE "moving")
  /\ UNCHANGED <<tables, work>>

Begins(r) == RequestSale(r) \/ RequestVoid(r) \/ RequestStock(r)

GoesAhead(r) ==
  \/ LockSettings(r) \/ ReadNumber(r) \/ LockNextBatch(r) \/ AllocateLine(r)
  \/ StartMoving(r) \/ OpenSale(r) \/ OpenPurchase(r) \/ ResolveBatch(r)
  \/ InsertBatch(r) \/ UpdateCost(r)

LEMMA StepsSplit ==
  ASSUME NEW r \in Request, Arrive(r) \/ Serve(r) \/ DeadlockVictim(r) \/ Rollback(r)
  PROVE  Begins(r) \/ Abandons(r) \/ GoesAhead(r) \/ WriteRow(r) \/ Commit(r)
  <1>1. CASE Arrive(r)
    BY <1>1 DEF Arrive, Begins
  <1>2. CASE DeadlockVictim(r)
    <2>1. WaitsFor(r) # {}
      BY <1>2 DEF DeadlockVictim, Deadlocked, BlockedBy
    <2>2. Underway(r)
      BY <2>1 DEF WaitsFor, Underway, Answered
    <2> QED
      BY <1>2, <2>2 DEF DeadlockVictim, Abandons, Answered
  <1>3. CASE Rollback(r)
    BY <1>3 DEF Rollback, Abandons, Underway, Answered
  <1>4. CASE RefuseShortage(r)
    BY <1>4 DEF RefuseShortage, AllAllocated, Abandons, Underway, Answered
  <1>5. CASE LockSale(r)
    <2>1. CASE sales[job[r].sale].status = "VOID"
      BY <1>5, <2>1 DEF LockSale, Abandons, Underway, Answered
    <2>2. CASE sales[job[r].sale].status # "VOID"
      <3>1. OpenSale(r)
        BY <1>5, <2>2 DEF LockSale, OpenSale
      <3> QED
        BY <3>1 DEF GoesAhead
    <2> QED
      BY <2>1, <2>2
  <1>6. CASE LockPurchase(r)
    <2>1. CASE purchases[job[r].purchase] # "DRAFT"
      BY <1>6, <2>1 DEF LockPurchase, Abandons, Underway, Answered
    <2>2. CASE purchases[job[r].purchase] = "DRAFT"
      <3>1. OpenPurchase(r)
        BY <1>6, <2>2 DEF LockPurchase, OpenPurchase
      <3> QED
        BY <3>1 DEF GoesAhead
    <2> QED
      BY <2>1, <2>2
  <1>7. CASE CreateBatch(r)
    <2>1. CASE Planned(r).batch \in batches
      BY <1>7, <2>1 DEF CreateBatch, Abandons, Underway, Answered
    <2>2. CASE Planned(r).batch \notin batches
      <3>1. InsertBatch(r)
        BY <1>7, <2>2 DEF CreateBatch, InsertBatch
      <3> QED
        BY <3>1 DEF GoesAhead
    <2> QED
      BY <2>1, <2>2
  <1>8. CASE RecordMovement(r)
    <2>1. CASE Overdraws(r, Planned(r).batch, Planned(r).quantity)
      BY <1>8, <2>1 DEF RecordMovement, Abandons, Underway, Answered
    <2>2. CASE ~Overdraws(r, Planned(r).batch, Planned(r).quantity)
      BY <1>8, <2>2 DEF RecordMovement, WriteRow, RowOf
    <2> QED
      BY <2>1, <2>2
  <1> QED
    BY <1>1, <1>2, <1>3, <1>4, <1>5, <1>6, <1>7, <1>8 DEF Serve, GoesAhead

--------------------------------------------------------------------------------
(***************************************************************************)
(* The inductive invariant of the tables and of the work on them.          *)
(***************************************************************************)
CartLine == [product : Product, quantity : Nat \ {0}]

MovementRow ==
  [by : Request \cup {Opening}, doc : Request \cup Purchase \cup {Opening},
   type : Types, batch : Batch, quantity : Int \ {0}]

TablesTyped ==
  /\ ledger \subseteq MovementRow /\ IsFiniteSet(ledger)
  /\ batches \subseteq Batch /\ IsFiniteSet(batches)
  /\ \A r \in Request : /\ sales[r].status \in {"ABSENT", "COMPLETED", "VOID"}
                        /\ sales[r].number \in Nat
                        /\ sales[r].allocations \in Seq(Movement)
  /\ purchases \in [Purchase -> {"DRAFT", "RECEIVED"}]
  /\ cost \in [Product -> Purchase \cup {Opening}]

WorkTyped ==
  /\ job \in [Request -> Jobs \cup {NoJob}]
  /\ listed \in [Request -> Seq(Batch)] /\ locked \in [Request -> Nat]
  /\ lines \in [Request -> Seq(CartLine)] /\ short \in [Request -> BOOLEAN]
  /\ plan \in [Request -> Seq(Movement)] /\ done \in [Request -> Nat]
  /\ pending \in [Request -> SUBSET MovementRow]
  /\ \A r \in Request : IsFiniteSet(pending[r])

\* What a request is doing when, and how far it can have come.
Road(r) ==
  /\ pc[r] = "new" <=> job[r] = NoJob
  /\ pc[r] \in {"new", "settings", "numbering", "document"} => plan[r] = <<>>
  /\ pc[r] \in {"new", "settings", "numbering", "document", "locking"} => done[r] = 0
  /\ pc[r] \in {"new", "settings", "numbering"} => locked[r] = 0
  /\ locked[r] <= Len(listed[r])
  /\ pc[r] \in {"settings", "numbering", "locking"} => job[r].kind = "sale"
  /\ pc[r] = "document" => job[r].kind \in {"void", "receive"}
  /\ pc[r] \in {"resolving", "creating"} =>
       job[r].kind \in {"receive", "adjust"} /\ done[r] < Len(plan[r])
  /\ pc[r] = "pricing" => job[r].kind = "receive" /\ done[r] > 0
  /\ pc[r] = "done" => done[r] = Len(plan[r])
  /\ done[r] <= Len(plan[r])

Roads == \A r \in Request : Road(r)

\* Only a purchase's costs lock products.
LocksAreFew ==
  /\ \A r \in Request : IsFiniteSet({x \in Resources : holder[x] = r})
  /\ \A p \in Product, r \in Request : holder[p] = r => job[r].kind = "receive"

\* A transaction holds the batches it has written rows of.
WritersHold ==
  \A r \in Request : \A row \in pending[r] : row.by = r /\ holder[row.batch] = r

\* A committed row is of an existing batch and of a request that succeeded.
CommittedWhole ==
  \A row \in ledger : row.batch \in batches /\ \A r \in Request : row.by = r => pc[r] = "done"

\* Neither what is committed nor what a transaction sees is below zero.
InStock ==
  \A b \in Batch : OnHand(ledger, b) \in Nat /\ \A r \in Request : Stock(r, b) \in Nat

StockInv ==
  /\ TablesTyped /\ WorkTyped /\ Roads /\ LocksAreFew /\ WritersHold
  /\ CommittedWhole /\ InStock

LEMMA JobKinds ==
  ASSUME NEW j \in Jobs
  PROVE  /\ j.kind \in {"sale", "void", "receive", "adjust"} /\ j # NoJob
         /\ j.kind = "sale" => j.cart \in Carts
         /\ j.kind = "void" => j.sale \in Request
         /\ j.kind = "receive" => j.purchase \in Purchase
         /\ j.kind = "adjust" => j.type \in {"ADJUSTMENT", "DAMAGE", "EXPIRY"} /\ j.move \in Movement
  <1>1. CASE j \in [kind : {"sale"}, cart : Carts]
    BY <1>1 DEF NoJob
  <1>2. CASE j \in [kind : {"void"}, sale : Request]
    BY <1>2 DEF NoJob
  <1>3. CASE j \in [kind : {"receive"}, purchase : Purchase]
    BY <1>3 DEF NoJob
  <1>4. CASE j \in [kind : {"adjust"}, type : {"ADJUSTMENT", "DAMAGE", "EXPIRY"}, move : Movement]
    BY <1>4 DEF NoJob
  <1> QED
    BY <1>1, <1>2, <1>3, <1>4 DEF Jobs

LEMMA JobOfIs ==
  ASSUME WorkTyped, NEW r \in Request
  PROVE  /\ job[r].kind \in {"none", "sale", "void", "receive", "adjust"}
         /\ job[r].kind = "none" <=> job[r] = NoJob
         /\ job[r].kind = "sale" => job[r].cart \in Carts
         /\ job[r].kind = "void" => job[r].sale \in Request
         /\ job[r].kind = "receive" => job[r].purchase \in Purchase
         /\ job[r].kind = "adjust" =>
              job[r].type \in {"ADJUSTMENT", "DAMAGE", "EXPIRY"} /\ job[r].move \in Movement
  <1>1. CASE job[r] \in Jobs
    BY <1>1, JobKinds DEF NoJob
  <1>2. CASE job[r] = NoJob
    BY <1>2 DEF NoJob
  <1> QED
    BY <1>1, <1>2 DEF WorkTyped

LEMMA InitStockInv == Init => StockInv
  <1> SUFFICES ASSUME Init PROVE StockInv
    OBVIOUS
  <1> DEFINE S == {c \in DOMAIN OpeningStock : OpeningStock[c] > 0}
             row(b) == [by |-> Opening, doc |-> Opening, type |-> "PURCHASE", batch |-> b,
                        quantity |-> OpeningStock[b]]
  <1>1. ledger = {row(b) : b \in S} /\ batches = DOMAIN OpeningStock
    BY DEF Init
  <1>2. \A b \in S : row(b) \in MovementRow /\ row(b).quantity \in Nat
    BY OpeningAssumption DEF MovementRow, Types
  <1>3. IsFiniteSet(S) /\ IsFiniteSet(batches) /\ batches \subseteq Batch
    BY <1>1, OpeningAssumption, FS_Subset
  <1>4. IsFiniteSet(ledger)
    <2> DEFINE f == [b \in S |-> row(b)]
    <2>1. f \in Surjection(S, ledger)
      BY <1>1 DEF Surjection
    <2> QED
      BY <1>3, <2>1, FS_Surjection
  <1>5. TablesTyped
    <2>1. ledger \subseteq MovementRow
      BY <1>1, <1>2
    <2>2. \A r \in Request : /\ sales[r].status \in {"ABSENT", "COMPLETED", "VOID"}
                             /\ sales[r].number \in Nat
                             /\ sales[r].allocations \in Seq(Movement)
      BY EmptySeq DEF Init, NoSale
    <2>3. /\ purchases \in [Purchase -> {"DRAFT", "RECEIVED"}]
          /\ cost \in [Product -> Purchase \cup {Opening}]
      BY DEF Init
    <2> QED
      BY <1>3, <1>4, <2>1, <2>2, <2>3 DEF TablesTyped
  <1>6. WorkTyped
    BY EmptySeq, FS_EmptySet DEF Init, WorkTyped
  <1>7. Roads
    BY EmptySeq DEF Init, Roads, Road, NoJob
  <1>8. LocksAreFew
    <2>1. \A x \in Resources, r \in Request : holder[x] # r
      BY NobodyAssumption DEF Init
    <2>2. Product \subseteq Resources
      BY DEF Resources
    <2> QED
      BY <2>1, <2>2, FS_EmptySet DEF LocksAreFew
  <1>9. WritersHold
    BY DEF Init, WritersHold
  <1>10. CommittedWhole
    BY <1>1, NobodyAssumption DEF CommittedWhole
  <1>11. InStock
    <2> SUFFICES ASSUME NEW b \in Batch, NEW rows \in SUBSET ledger
                 PROVE  OnHand(rows, b) \in Nat
      BY DEF InStock, Init, Stock
    <2>1. IsFiniteSet({x \in rows : x.batch = b})
      BY <1>4, FS_Subset
    <2>2. \A x \in {x \in rows : x.batch = b} : x.quantity \in Nat
      BY <1>1, <1>2
    <2> QED
      BY <2>1, <2>2, UnitsSign DEF OnHand
  <1> QED
    BY <1>5, <1>6, <1>7, <1>8, <1>9, <1>10, <1>11 DEF StockInv


--------------------------------------------------------------------------------
(***************************************************************************)
(* A step that writes no row and ends no transaction leaves the tables as  *)
(* they are; it may take one lock.                                         *)
(***************************************************************************)
Proceeds(r) ==
  /\ pc[r] \notin Answered /\ \E label : pc' = [pc EXCEPT ![r] = label]
  /\ UNCHANGED <<tables, pending>>
  /\ \/ holder' = holder /\ pc[r] = "new" /\ \E j : job' = [job EXCEPT ![r] = j]
     \/ holder' = holder /\ job' = job
     \/ job' = job /\ \E x : Acquire(r, x) /\ (x \in Product => job[r].kind = "receive")

LEMMA HoldersGrow ==
  ASSUME NEW r \in Request, NEW x, Acquire(r, x), holder \in [Resources -> Request \cup {Free}]
  PROVE  /\ \A y \in Resources : \/ holder'[y] = holder[y]
                                 \/ y = x /\ holder[y] = Free /\ holder'[y] = r
         /\ x \in Resources => holder'[x] = r
         /\ \A y \in Resources, q \in Request : holder[y] = q => holder'[y] = q
  BY NobodyAssumption DEF Acquire

LEMMA LocksStayFew ==
  ASSUME NEW r \in Request, NEW x, Acquire(r, x), holder \in [Resources -> Request \cup {Free}],
         LocksAreFew, x \in Product => job[r].kind = "receive", job' = job
  PROVE  LocksAreFew'
  <1>1. /\ \A y \in Resources : \/ holder'[y] = holder[y]
                                \/ y = x /\ holder[y] = Free /\ holder'[y] = r
    BY HoldersGrow
  <1>2. ASSUME NEW q \in Request PROVE IsFiniteSet({y \in Resources : holder'[y] = q})
    <2>1. {y \in Resources : holder'[y] = q} \subseteq {y \in Resources : holder[y] = q} \cup {x}
      BY <1>1
    <2>2. IsFiniteSet({y \in Resources : holder[y] = q} \cup {x})
      BY FS_AddElement DEF LocksAreFew
    <2> QED
      BY <2>1, <2>2, FS_Subset
  <1>3. \A p \in Product, q \in Request : holder'[p] = q => job[q].kind = "receive"
    <2> SUFFICES ASSUME NEW p \in Product, NEW q \in Request, holder'[p] = q
                 PROVE  job[q].kind = "receive"
      OBVIOUS
    <2>1. p \in Resources
      BY DEF Resources
    <2> QED
      BY <1>1, <2>1 DEF LocksAreFew
  <1> QED
    BY <1>2, <1>3 DEF LocksAreFew

LEMMA ProceedKeeps ==
  ASSUME IInv, StockInv, NEW r \in Request, Proceeds(r)
  PROVE  TablesTyped' /\ LocksAreFew' /\ WritersHold' /\ CommittedWhole' /\ InStock'
  <1>0. holder \in [Resources -> Request \cup {Free}] /\ pc \in [Request -> Labels]
    BY DEF IInv, ControlOK
  <1>1. /\ UNCHANGED <<ledger, batches, sales, purchases, cost, pending>>
        /\ \A q \in Request : pc[q] = "done" => pc'[q] = "done"
    BY <1>0 DEF Proceeds, tables, Answered
  <1>2. TablesTyped'
    BY <1>1 DEF StockInv, TablesTyped
  <1>3. LocksAreFew'
    <2>1. CASE holder' = holder /\ job' = job
      BY <2>1 DEF StockInv, LocksAreFew
    <2>2. CASE holder' = holder /\ pc[r] = "new" /\ \E j : job' = [job EXCEPT ![r] = j]
      <3>1. \A x \in Resources : holder[x] # r
        BY <2>2 DEF IInv, HoldersWork
      <3>2. \A q \in Request \ {r} : job'[q] = job[q]
        BY <2>2 DEF StockInv, WorkTyped
      <3>3. Product \subseteq Resources
        BY DEF Resources
      <3> QED
        BY <2>2, <3>1, <3>2, <3>3 DEF StockInv, LocksAreFew
    <2>3. CASE job' = job /\ \E x : Acquire(r, x) /\ (x \in Product => job[r].kind = "receive")
      BY <1>0, <2>3, LocksStayFew DEF StockInv
    <2> QED
      BY <2>1, <2>2, <2>3 DEF Proceeds
  <1>4. WritersHold'
    <2>1. \A y \in Resources, q \in Request : holder[y] = q => holder'[y] = q
      BY <1>0, HoldersGrow DEF Proceeds
    <2> SUFFICES ASSUME NEW q \in Request, NEW row \in pending[q]
                 PROVE  row.by = q /\ holder'[row.batch] = q
      BY <1>1 DEF WritersHold
    <2>2. row.by = q /\ holder[row.batch] = q
      BY DEF StockInv, WritersHold
    <2>3. row \in MovementRow
      BY DEF StockInv, WorkTyped
    <2>4. row.batch \in Resources
      BY <2>3 DEF MovementRow, Resources
    <2> QED
      BY <2>1, <2>2, <2>4
  <1>5. CommittedWhole'
    BY <1>1 DEF StockInv, CommittedWhole
  <1>6. InStock'
    BY <1>1 DEF StockInv, InStock, Stock, OnHand
  <1> QED
    BY <1>2, <1>3, <1>4, <1>5, <1>6

LEMMA BeginsKeeps ==
  ASSUME IInv, StockInv, NEW r \in Request, Begins(r)
  PROVE  StockInv'
  <1> USE DEF Goto
  <1>0. pc \in [Request -> Labels]
    BY DEF IInv, ControlOK
  <1>1. PICK j \in JobsOf[r] :
          /\ pc[r] = "new" /\ job' = [job EXCEPT ![r] = j]
          /\ \/ /\ j.kind = "sale" /\ pc' = [pc EXCEPT ![r] = "settings"]
                /\ lines' = [lines EXCEPT ![r] = j.cart] /\ plan' = plan
             \/ /\ j.kind \in {"void", "receive"} /\ pc' = [pc EXCEPT ![r] = "document"]
                /\ lines' = lines /\ plan' = plan
             \/ /\ j.kind = "adjust" /\ pc' = [pc EXCEPT ![r] = "resolving"]
                /\ lines' = lines /\ plan' = [plan EXCEPT ![r] = <<j.move>>]
    BY DEF Begins, RequestSale, RequestVoid, RequestStock
  <1>2. /\ UNCHANGED <<tables, pending>> /\ UNCHANGED holder
        /\ UNCHANGED <<listed, locked, done, short>>
    BY DEF Begins, RequestSale, RequestVoid, RequestStock
  <1>3. j \in Jobs
    BY JobsAssumption
  <1>4. /\ j # NoJob
        /\ j.kind = "sale" => j.cart \in Carts
        /\ j.kind = "adjust" => j.move \in Movement
    BY <1>3, JobKinds
  <1>5. j.kind = "sale" => j.cart \in Seq(CartLine)
    BY <1>4 DEF Carts, CartLine
  <1>6. j.kind = "adjust" => <<j.move>> \in Seq(Movement) /\ Len(<<j.move>>) = 1
    BY <1>4
  <1>7. WorkTyped'
    <2>1. job' \in [Request -> Jobs \cup {NoJob}]
      BY <1>1, <1>3 DEF StockInv, WorkTyped
    <2>2. lines' \in [Request -> Seq(CartLine)]
      BY <1>1, <1>5 DEF StockInv, WorkTyped
    <2>3. plan' \in [Request -> Seq(Movement)]
      BY <1>1, <1>6 DEF StockInv, WorkTyped
    <2> QED
      BY <1>2, <2>1, <2>2, <2>3 DEF StockInv, WorkTyped
  <1>8. Roads'
    <2>1. /\ job'[r] = j /\ done'[r] = 0
          /\ \A q \in Request \ {r} : job'[q] = job[q] /\ pc'[q] = pc[q] /\ plan'[q] = plan[q]
          /\ UNCHANGED <<done, listed, locked>>
      BY <1>0, <1>1, <1>2 DEF StockInv, WorkTyped, Roads, Road
    <2>2. plan[r] = <<>>
      BY <1>1 DEF StockInv, Roads, Road
    <2>7. locked'[r] = 0 /\ locked[r] <= Len(listed'[r])
      BY <1>1, <2>1 DEF StockInv, Roads, Road
    <2>3. \/ j.kind = "sale" /\ pc'[r] = "settings" /\ plan'[r] = <<>>
          \/ j.kind \in {"void", "receive"} /\ pc'[r] = "document" /\ plan'[r] = <<>>
          \/ j.kind = "adjust" /\ pc'[r] = "resolving" /\ Len(plan'[r]) = 1
      BY <1>0, <1>1, <1>6, <2>2 DEF StockInv, WorkTyped
    <2>4. Len(<<>>) = 0
      BY EmptySeq
    <2>5. ASSUME NEW q \in Request, q # r PROVE Road(q)'
      BY <2>1, <2>5 DEF StockInv, Roads, Road
    <2>6. Road(r)'
      BY <1>4, <2>1, <2>3, <2>4, <2>7 DEF Road
    <2> QED
      BY <2>5, <2>6 DEF Roads
  <1>9. Proceeds(r)
    BY <1>1, <1>2 DEF Proceeds, Answered
  <1> QED
    BY <1>7, <1>8, <1>9, ProceedKeeps DEF StockInv

(***************************************************************************)
(* What the statements of a sale read.                                     *)
(***************************************************************************)
LEMMA BatchesOfIs ==
  ASSUME StockInv, NEW cart
  PROVE  /\ BatchesOf(cart) \in Seq(Batch) /\ ToSet(BatchesOf(cart)) \subseteq batches
         /\ \A b \in batches : (\E i \in DOMAIN cart : ProductOf[b] = cart[i].product)
              => b \in ToSet(BatchesOf(cart))
  <1> DEFINE S == {b \in batches : \E i \in DOMAIN cart : ProductOf[b] = cart[i].product}
  <1>1. S \in SUBSET Batch /\ IsFiniteSet(S)
    BY FS_Subset DEF StockInv, TablesTyped
  <1>2. BatchesOf(cart) = InOrder(S, PkRank)
    BY DEF BatchesOf
  <1> HIDE DEF S
  <1>3. BatchesOf(cart) \in Seq(S) /\ ToSet(BatchesOf(cart)) = S
    BY <1>1, <1>2, InOrderLists
  <1>4. BatchesOf(cart) \in Seq(Batch)
    BY <1>1, <1>3
  <1> QED
    BY <1>3, <1>4 DEF S

LEMMA SellableIs ==
  ASSUME StockInv, NEW r \in Request, NEW p
  PROVE  LET s == Sellable(r, p) IN
         /\ Lists(s)
         /\ \A b : b \in ToSet(s) <=> b \in batches /\ b \notin Expired /\ ProductOf[b] = p
                                        /\ Stock(r, b) > 0
         /\ \A i, k \in DOMAIN s : i < k => FefoRank[s[i]] < FefoRank[s[k]]
         /\ \A i \in DOMAIN s : Stock(r, s[i]) \in Nat \ {0}
  <1> DEFINE S == {b \in batches \ Expired : ProductOf[b] = p /\ Stock(r, b) > 0}
             s == Sellable(r, p)
  <1>1. S \in SUBSET Batch /\ IsFiniteSet(S)
    BY FS_Subset DEF StockInv, TablesTyped
  <1>2. s = InOrder(S, FefoRank)
    BY DEF Sellable
  <1>3. \A b \in S : Stock(r, b) \in Nat \ {0}
    BY <1>1 DEF StockInv, InStock
  <1>4. \A b : b \in S <=> b \in batches /\ b \notin Expired /\ ProductOf[b] = p
                             /\ Stock(r, b) > 0
    OBVIOUS
  <1> HIDE DEF S, s
  <1>5. /\ s \in Seq(S) /\ ToSet(s) = S
        /\ \A i, k \in DOMAIN s : i < k => FefoRank[s[i]] < FefoRank[s[k]]
        /\ \A i, k \in DOMAIN s : s[i] = s[k] => i = k
    BY <1>1, <1>2, InOrderLists
  <1>6. Lists(s)
    BY <1>1, <1>5 DEF Lists
  <1>7. \A i \in DOMAIN s : s[i] \in S
    BY <1>5
  <1> QED
    BY <1>3, <1>4, <1>5, <1>6, <1>7 DEF s

LEMMA AllocateTyped ==
  ASSUME StockInv, NEW r \in Request, NEW line \in CartLine
  PROVE  LET got == Allocate(r, Sellable(r, line.product), line.quantity) IN
         got.remaining \in Nat /\ got.moves \in Seq(Movement)
  <1>1. Lists(Sellable(r, line.product)) /\ line.quantity \in Nat
    BY SellableIs DEF CartLine
  <1>2. \A i \in DOMAIN Sellable(r, line.product) :
          Stock(r, Sellable(r, line.product)[i]) \in Nat \ {0}
    BY SellableIs
  <1> QED
    BY <1>1, <1>2, AllocateTakes DEF TakesInTurn

LEMMA DeliveryMoves ==
  ASSUME NEW list \in Deliveries
  PROVE  list \in Seq(Movement) /\ Len(list) > 0
  <1> DEFINE Received == [batch : Batch, quantity : Nat \ {0}]
  <1>1. list \in Seq(Received) /\ list # <<>>
    BY DEF Deliveries
  <1>5. Received \subseteq Movement
    BY DEF Movement
  <1> HIDE DEF Received
  <1>2. Len(list) \in Nat /\ DOMAIN list = 1..Len(list) /\ Len(list) > 0
    BY <1>1, LenProperties, EmptySeq
  <1>3. \A i \in 1..Len(list) : list[i] \in Movement
    BY <1>1, <1>2, <1>5
  <1>4. list \in Seq(Movement)
    BY <1>1, <1>2, <1>3, SeqDef
  <1> QED
    BY <1>2, <1>4

LEMMA GoesAheadKeeps ==
  ASSUME IInv, StockInv, NEW r \in Request, GoesAhead(r)
  PROVE  StockInv'
  <1> USE DEF Goto
  <1>0. pc \in [Request -> Labels]
    BY DEF IInv, ControlOK
  <1>1. WorkTyped /\ Road(r)
    BY DEF StockInv, Roads
  <1>2. job[r].kind = "receive" => /\ job[r].purchase \in Purchase
                                   /\ PurchaseLines[job[r].purchase] \in Seq(Movement)
                                   /\ Len(PurchaseLines[job[r].purchase]) > 0
    <2> SUFFICES ASSUME job[r].kind = "receive"
                 PROVE  /\ job[r].purchase \in Purchase
                        /\ PurchaseLines[job[r].purchase] \in Seq(Movement)
                        /\ Len(PurchaseLines[job[r].purchase]) > 0
      OBVIOUS
    <2>1. job[r].purchase \in Purchase
      BY <1>1, JobOfIs
    <2>2. PurchaseLines[job[r].purchase] \in Deliveries
      BY <2>1, JobsAssumption
    <2> QED
      BY <2>1, <2>2, DeliveryMoves
  <1>3. job[r].kind = "void" => sales[job[r].sale].allocations \in Seq(Movement)
    BY <1>1, JobOfIs DEF StockInv, TablesTyped
  <1>4. /\ UNCHANGED <<tables, pending, job, done>>
        /\ pc[r] \notin Answered \cup {"new"}
        /\ \E label : pc' = [pc EXCEPT ![r] = label]
        /\ \/ holder' = holder
           \/ \E x : Acquire(r, x) /\ (x \in Product => job[r].kind = "receive")
    <2>1. CASE LockSettings(r)
      <3>1. Settings \notin Product
        BY TablesAreDisjoint
      <3> QED
        BY <2>1, <3>1 DEF LockSettings, Answered, work
    <2>2. CASE ReadNumber(r) \/ AllocateLine(r) \/ StartMoving(r) \/ ResolveBatch(r)
      <3>1. UNCHANGED <<tables, pending, job, done>> /\ holder' = holder
        BY <2>2 DEF ReadNumber, AllocateLine, StartMoving, ResolveBatch, work
      <3>2. pc[r] \in {"numbering", "locking", "resolving"}
        BY <2>2 DEF ReadNumber, AllocateLine, StartMoving, AllAllocated, ResolveBatch
      <3>3. \E label : pc' = [pc EXCEPT ![r] = label]
        <4>1. CASE AllocateLine(r)
          BY <1>0, <4>1 DEF AllocateLine
        <4>2. CASE ReadNumber(r) \/ StartMoving(r) \/ ResolveBatch(r)
          BY <4>2 DEF ReadNumber, StartMoving, ResolveBatch
        <4> QED
          BY <2>2, <4>1, <4>2
      <3> QED
        BY <3>1, <3>2, <3>3 DEF Answered
    <2>3. CASE LockNextBatch(r)
      <3>1. locked[r] + 1 \in DOMAIN listed[r] /\ listed[r] \in Seq(Batch)
        BY <1>1, <2>3 DEF LockNextBatch, AllLocked, WorkTyped, Road
      <3>2. listed[r][locked[r] + 1] \notin Product
        BY <3>1, TablesAreDisjoint
      <3> QED
        BY <1>0, <2>3, <3>2 DEF LockNextBatch, Answered
    <2>4. CASE OpenSale(r)
      <3>1. job[r].sale \notin Product
        BY <1>1, <2>4, JobOfIs, TablesAreDisjoint DEF OpenSale
      <3> QED
        BY <2>4, <3>1 DEF OpenSale, Answered
    <2>5. CASE OpenPurchase(r)
      BY <2>5 DEF OpenPurchase, Answered
    <2>6. CASE InsertBatch(r)
      <3>1. Planned(r) \in Movement
        BY <1>1, <2>6 DEF InsertBatch, Planned, WorkTyped, Road
      <3>2. Planned(r).batch \notin Product
        BY <3>1, TablesAreDisjoint DEF Movement
      <3> QED
        BY <2>6, <3>2 DEF InsertBatch, Answered, work
    <2>7. CASE UpdateCost(r)
      BY <1>1, <2>7 DEF UpdateCost, Road, Answered, work
    <2> QED
      BY <2>1, <2>2, <2>3, <2>4, <2>5, <2>6, <2>7 DEF GoesAhead
  <1>5. Proceeds(r)
    BY <1>4 DEF Proceeds
  <1>6. \A q \in Request \ {r} : pc'[q] = pc[q]
    BY <1>0, <1>4
  <1> DEFINE Kept(q) == UNCHANGED <<listed[q], locked[q], plan[q]>>
  <1>7. ASSUME WorkTyped', Road(r)', \A q \in Request \ {r} : Kept(q)
        PROVE  StockInv'
    <2>1. ASSUME NEW q \in Request, q # r PROVE Road(q)'
      BY <1>4, <1>6, <1>7, <2>1 DEF StockInv, Roads, Road
    <2>2. Roads'
      BY <1>7, <2>1 DEF Roads
    <2> QED
      BY <1>5, <1>7, <2>2, ProceedKeeps DEF StockInv
  <1>8. CASE LockSettings(r)
    <2>1. WorkTyped' /\ \A q \in Request \ {r} : Kept(q)
      BY <1>1, <1>8 DEF LockSettings, work, WorkTyped
    <2>2. Road(r)'
      BY <1>0, <1>1, <1>8 DEF LockSettings, work, Road
    <2> QED
      BY <1>7, <2>1, <2>2
  <1>9. CASE ReadNumber(r)
    <2>1. BatchesOf(job[r].cart) \in Seq(Batch)
      BY BatchesOfIs
    <2>2. WorkTyped' /\ \A q \in Request \ {r} : Kept(q)
      BY <1>1, <1>9, <2>1 DEF ReadNumber, WorkTyped
    <2>3. Road(r)'
      <3>1. listed'[r] \in Seq(Batch)
        BY <2>2 DEF WorkTyped
      <3> QED
        BY <1>0, <1>1, <1>9, <3>1 DEF ReadNumber, Road
    <2> QED
      BY <1>7, <2>2, <2>3
  <1>10. CASE LockNextBatch(r)
    <2>1. WorkTyped' /\ \A q \in Request \ {r} : Kept(q)
      BY <1>1, <1>10 DEF LockNextBatch, WorkTyped
    <2>2. Road(r)'
      BY <1>0, <1>1, <1>10 DEF LockNextBatch, AllLocked, WorkTyped, Road
    <2> QED
      BY <1>7, <2>1, <2>2
  <1>11. CASE AllocateLine(r)
    <2> DEFINE line == Head(lines[r])
               got == Allocate(r, Sellable(r, line.product), line.quantity)
    <2>1. line \in CartLine /\ Tail(lines[r]) \in Seq(CartLine)
      BY <1>1, <1>11, HeadTailProperties DEF AllocateLine, WorkTyped
    <2>2. got.moves \in Seq(Movement)
      BY <2>1, AllocateTyped
    <2>3. /\ plan' = [plan EXCEPT ![r] = @ \o got.moves]
          /\ short' = [short EXCEPT ![r] = @ \/ got.remaining > 0]
          /\ lines' = [lines EXCEPT ![r] = Tail(@)]
          /\ UNCHANGED <<tables, holder, pc, job, listed, locked, number, done, pending>>
      BY <1>11 DEF AllocateLine
    <2> HIDE DEF got, line
    <2>4. plan[r] \o got.moves \in Seq(Movement)
      BY <1>1, <2>2, ConcatProperties DEF WorkTyped
    <2>5. WorkTyped' /\ \A q \in Request \ {r} : Kept(q)
      <3>1. plan' \in [Request -> Seq(Movement)]
        BY <1>1, <2>3, <2>4 DEF WorkTyped
      <3>2. short' \in [Request -> BOOLEAN]
        BY <1>1, <2>3 DEF WorkTyped
      <3>3. lines' \in [Request -> Seq(CartLine)]
        BY <1>1, <2>1, <2>3 DEF WorkTyped
      <3>4. \A q \in Request \ {r} : Kept(q)
        BY <1>1, <2>3 DEF WorkTyped
      <3> QED
        BY <1>1, <2>3, <3>1, <3>2, <3>3, <3>4 DEF WorkTyped
    <2>6. Road(r)'
      <3>1. plan'[r] = plan[r] \o got.moves /\ Len(plan'[r]) \in Nat /\ pc[r] = "locking"
        BY <1>1, <1>11, <2>3, <2>4, LenProperties DEF WorkTyped, AllocateLine
      <3> QED
        BY <1>1, <2>3, <3>1 DEF Road
    <2> QED
      BY <1>7, <2>5, <2>6
  <1>12. CASE StartMoving(r) \/ ResolveBatch(r)
    <2>1. WorkTyped' /\ \A q \in Request \ {r} : Kept(q)
      BY <1>1, <1>12 DEF StartMoving, ResolveBatch, work, WorkTyped
    <2>2. Road(r)'
      BY <1>0, <1>1, <1>12
      DEF StartMoving, AllAllocated, ResolveBatch, work, Road, NoJob
    <2> QED
      BY <1>7, <2>1, <2>2
  <1>13. CASE OpenSale(r)
    <2>1. WorkTyped' /\ \A q \in Request \ {r} : Kept(q)
      BY <1>1, <1>3, <1>13 DEF OpenSale, WorkTyped
    <2>2. Road(r)'
      <3>1. plan'[r] \in Seq(Movement)
        BY <2>1 DEF WorkTyped
      <3> QED
        BY <1>0, <1>1, <1>13, <3>1, LenProperties DEF OpenSale, Road
    <2> QED
      BY <1>7, <2>1, <2>2
  <1>14. CASE OpenPurchase(r)
    <2>1. WorkTyped' /\ \A q \in Request \ {r} : Kept(q)
      BY <1>1, <1>2, <1>14 DEF OpenPurchase, WorkTyped
    <2>2. Road(r)'
      BY <1>0, <1>1, <1>2, <1>14, LenProperties DEF OpenPurchase, Road, WorkTyped
    <2> QED
      BY <1>7, <2>1, <2>2
  <1>15. CASE InsertBatch(r) \/ UpdateCost(r)
    <2>1. WorkTyped' /\ \A q \in Request \ {r} : Kept(q)
      BY <1>1, <1>15 DEF InsertBatch, UpdateCost, work, WorkTyped
    <2>2. Road(r)'
      <3>1. done[r] \in Nat /\ Len(plan[r]) \in Nat
        BY <1>1, LenProperties DEF WorkTyped
      <3> QED
        BY <1>0, <1>1, <1>15, <3>1 DEF InsertBatch, UpdateCost, work, Road
    <2> QED
      BY <1>7, <2>1, <2>2
  <1> QED
    BY <1>8, <1>9, <1>10, <1>11, <1>12, <1>13, <1>14, <1>15 DEF GoesAhead


--------------------------------------------------------------------------------
(***************************************************************************)
(* record_movement() writes one row, of a batch it holds, and only if the  *)
(* stock its transaction sees stays at or above zero.                      *)
(***************************************************************************)
LEMMA RowTyped ==
  ASSUME WorkTyped, NEW r \in Request, job[r] # NoJob, NEW move \in Movement
  PROVE  RowOf(r, move) \in MovementRow
  <1>1. Document(r) \in Request \cup Purchase
    BY JobOfIs DEF Document
  <1>2. MovementType(r) \in Types
    BY JobOfIs DEF MovementType, Types
  <1> QED
    BY <1>1, <1>2 DEF RowOf, MovementRow, Movement

LEMMA WriteRowKeeps ==
  ASSUME IInv, StockInv, NEW r \in Request, WriteRow(r)
  PROVE  StockInv'
  <1> USE DEF Goto
  <1> DEFINE move == Planned(r)
             row == RowOf(r, move)
  <1>0. holder \in [Resources -> Request \cup {Free}] /\ pc \in [Request -> Labels]
    BY DEF IInv, ControlOK
  <1>1. /\ pc[r] = "moving" /\ done[r] < Len(plan[r])
        /\ ~Overdraws(r, move.batch, move.quantity)
        /\ Acquire(r, move.batch)
        /\ pending' = [pending EXCEPT ![r] = @ \cup {row}]
        /\ done' = [done EXCEPT ![r] = @ + 1]
        /\ pc' = [pc EXCEPT ![r] = IF job[r].kind = "receive" THEN "pricing" ELSE "moving"]
        /\ UNCHANGED <<ledger, batches, sales, purchases, cost, job, listed, locked, lines, short,
                       plan, number>>
    BY DEF WriteRow, tables, work
  <1>2. WorkTyped /\ Road(r) /\ TablesTyped
    BY DEF StockInv, Roads
  <1>3. move \in Movement
    BY <1>1, <1>2 DEF Planned, WorkTyped
  <1>4. row \in MovementRow /\ row.by = r /\ row.batch = move.batch /\ row.quantity = move.quantity
    <2>1. job[r] # NoJob
      BY <1>1, <1>2 DEF Road
    <2> QED
      BY <1>2, <1>3, <2>1, RowTyped DEF RowOf
  <1> HIDE DEF row, move
  <1>5. move.batch \in Batch /\ move.batch \in Resources /\ move.batch \notin Product
        /\ move.quantity \in Int
    BY <1>3, TablesAreDisjoint DEF Movement, Resources
  <1>6. /\ \A q \in Request \ {r} : pending'[q] = pending[q] /\ done'[q] = done[q] /\ pc'[q] = pc[q]
        /\ pending'[r] = pending[r] \cup {row} /\ done'[r] = done[r] + 1
        /\ pc'[r] = IF job[r].kind = "receive" THEN "pricing" ELSE "moving"
    BY <1>0, <1>1, <1>2 DEF WorkTyped
  <1>7. /\ holder'[move.batch] = r
        /\ \A y \in Resources, q \in Request : holder[y] = q => holder'[y] = q
    BY <1>0, <1>1, <1>5, HoldersGrow
  <1>8. TablesTyped'
    BY <1>1, <1>2 DEF TablesTyped
  <1>9. WorkTyped'
    <2>1. pending' \in [Request -> SUBSET MovementRow]
      BY <1>1, <1>2, <1>4 DEF WorkTyped
    <2>2. \A q \in Request : IsFiniteSet(pending'[q])
      <3>1. \A q \in Request : IsFiniteSet(pending[q])
        BY <1>2 DEF WorkTyped
      <3>2. IsFiniteSet(pending[r] \cup {row})
        BY <3>1, FS_AddElement
      <3> QED
        BY <1>6, <3>1, <3>2
    <2>3. done' \in [Request -> Nat]
      BY <1>1, <1>2 DEF WorkTyped
    <2> QED
      BY <1>1, <1>2, <2>1, <2>2, <2>3 DEF WorkTyped
  <1>10. Roads'
    <2>1. ASSUME NEW q \in Request, q # r PROVE Road(q)'
      BY <1>1, <1>6, <2>1 DEF StockInv, Roads, Road
    <2>2. Road(r)'
      <3>1. done[r] \in Nat /\ Len(plan[r]) \in Nat
        BY <1>2, LenProperties DEF WorkTyped
      <3> QED
        BY <1>1, <1>2, <1>6, <3>1 DEF Road
    <2> QED
      BY <2>1, <2>2 DEF Roads
  <1>11. LocksAreFew'
    BY <1>0, <1>1, <1>5, LocksStayFew DEF StockInv
  <1>12. WritersHold'
    <2> SUFFICES ASSUME NEW q \in Request, NEW x \in pending'[q]
                 PROVE  x.by = q /\ holder'[x.batch] = q
      BY DEF WritersHold
    <2>1. CASE q = r /\ x = row
      BY <1>4, <1>7, <2>1
    <2>2. CASE x \in pending[q]
      <3>1. x \in MovementRow /\ x.by = q /\ holder[x.batch] = q
        BY <1>2, <2>2 DEF StockInv, WorkTyped, WritersHold
      <3>2. x.batch \in Resources
        BY <3>1 DEF MovementRow, Resources
      <3> QED
        BY <1>7, <3>1, <3>2
    <2> QED
      BY <1>6, <2>1, <2>2
  <1>13. CommittedWhole'
    BY <1>1, <1>6 DEF StockInv, CommittedWhole
  <1>14. InStock'
    <2>1. \A b \in Batch : OnHand(ledger', b) \in Nat
      BY <1>1 DEF StockInv, InStock
    <2>2. ASSUME NEW b \in Batch, NEW q \in Request, q # r PROVE OnHand(ledger' \cup pending'[q], b) \in Nat
      BY <1>1, <1>6, <2>2 DEF StockInv, InStock, Stock
    <2>3. ASSUME NEW b \in Batch PROVE OnHand(ledger' \cup pending'[r], b) \in Nat
      <3> DEFINE S == {x \in ledger \cup pending[r] : x.batch = b}
      <3>1. Units(S) = Stock(r, b) /\ Units(S) \in Nat
        BY DEF Stock, OnHand, StockInv, InStock
      <3>2. ledger' \cup pending'[r] = (ledger \cup pending[r]) \cup {row}
        BY <1>1, <1>6
      <3>3. CASE b # move.batch \/ row \in S
        <4>1. {x \in ledger' \cup pending'[r] : x.batch = b} = S
          BY <1>4, <3>2, <3>3
        <4> QED
          BY <3>1, <4>1 DEF OnHand
      <3>4. CASE b = move.batch /\ row \notin S
        <4>1. {x \in ledger' \cup pending'[r] : x.batch = b} = S \cup {row}
          BY <1>4, <3>2, <3>4
        <4>2. IsFiniteSet(S)
          <5>1. IsFiniteSet(ledger \cup pending[r])
            BY <1>2, FS_Union DEF TablesTyped, WorkTyped
          <5> QED
            BY <5>1, FS_Subset
        <4>3. \A y \in S \cup {row} : y.quantity \in Int
          <5>1. \A y \in MovementRow : y.quantity \in Int
            BY DEF MovementRow
          <5> QED
            BY <1>2, <1>4, <5>1 DEF TablesTyped, WorkTyped
        <4> HIDE DEF S
        <4>4. Units(S \cup {row}) = Units(S) + move.quantity
          BY <1>4, <3>4, <4>2, <4>3, UnitsAdd
        <4>5. Units(S) + move.quantity \in Nat
          BY <1>1, <1>5, <3>1, <3>4 DEF Overdraws
        <4> QED
          BY <4>1, <4>4, <4>5 DEF OnHand
      <3> QED
        BY <3>3, <3>4
    <2> QED
      BY <2>1, <2>2, <2>3 DEF InStock, Stock
  <1> QED
    BY <1>8, <1>9, <1>10, <1>11, <1>12, <1>13, <1>14 DEF StockInv

(***************************************************************************)
(* A rollback takes back the rows and the locks of one transaction.        *)
(***************************************************************************)
LEMMA LocksFall ==
  ASSUME NEW r \in Request, NEW answer, End(r, answer),
         holder \in [Resources -> Request \cup {Free}], pc \in [Request -> Labels]
  PROVE  /\ \A y \in Resources : /\ holder[y] = r => holder'[y] = Free
                                 /\ holder[y] # r => holder'[y] = holder[y]
         /\ \A q \in Request \ {r} : pc'[q] = pc[q]
         /\ pc'[r] = answer
  BY DEF End, Goto

LEMMA LocksFewer ==
  ASSUME NEW r \in Request, NEW answer, End(r, answer),
         holder \in [Resources -> Request \cup {Free}], pc \in [Request -> Labels],
         LocksAreFew, job' = job
  PROVE  LocksAreFew'
  <1>1. \A y \in Resources : /\ holder[y] = r => holder'[y] = Free
                             /\ holder[y] # r => holder'[y] = holder[y]
    BY LocksFall
  <1>2. ASSUME NEW q \in Request PROVE IsFiniteSet({y \in Resources : holder'[y] = q})
    <2>1. {y \in Resources : holder'[y] = q} \subseteq {y \in Resources : holder[y] = q}
      BY <1>1, NobodyAssumption
    <2> QED
      BY <2>1, FS_Subset DEF LocksAreFew
  <1>3. \A p \in Product, q \in Request : holder'[p] = q => job[q].kind = "receive"
    <2>1. Product \subseteq Resources
      BY DEF Resources
    <2> QED
      BY <1>1, <2>1, NobodyAssumption DEF LocksAreFew
  <1> QED
    BY <1>2, <1>3 DEF LocksAreFew

LEMMA AbandonsKeeps ==
  ASSUME IInv, StockInv, NEW r \in Request, Abandons(r)
  PROVE  StockInv'
  <1>0. holder \in [Resources -> Request \cup {Free}] /\ pc \in [Request -> Labels]
    BY DEF IInv, ControlOK
  <1>1. PICK answer \in Answered \ {"done"} :
          /\ End(r, answer) /\ pending' = [pending EXCEPT ![r] = {}]
          /\ pc[r] \notin Answered \cup {"new"}
          /\ UNCHANGED <<ledger, batches, sales, purchases, cost, job, listed, locked, lines, short,
                         plan, number, done>>
    BY DEF Abandons, Underway, Abandon, End, tables, work
  <1>2. /\ \A y \in Resources : /\ holder[y] = r => holder'[y] = Free
                                /\ holder[y] # r => holder'[y] = holder[y]
        /\ \A q \in Request \ {r} : pc'[q] = pc[q]
        /\ pc'[r] = answer
    BY <1>0, <1>1, LocksFall
  <1>3. WorkTyped /\ TablesTyped
    BY DEF StockInv
  <1>4. pending'[r] = {} /\ \A q \in Request \ {r} : pending'[q] = pending[q]
    BY <1>1, <1>3 DEF WorkTyped
  <1>5. TablesTyped'
    BY <1>1, <1>3 DEF TablesTyped
  <1>6. WorkTyped'
    <2>1. pending' \in [Request -> SUBSET MovementRow]
      BY <1>1, <1>3 DEF WorkTyped
    <2>2. \A q \in Request : IsFiniteSet(pending'[q])
      BY <1>3, <1>4, FS_EmptySet DEF WorkTyped
    <2> QED
      BY <1>1, <1>3, <2>1, <2>2 DEF WorkTyped
  <1>7. Roads'
    <2>1. ASSUME NEW q \in Request, q # r PROVE Road(q)'
      BY <1>1, <1>2, <2>1 DEF StockInv, Roads, Road
    <2>2. Road(r)'
      BY <1>1, <1>2 DEF StockInv, Roads, Road, Answered
    <2> QED
      BY <2>1, <2>2 DEF Roads
  <1>8. LocksAreFew'
    BY <1>0, <1>1, LocksFewer DEF StockInv
  <1>9. WritersHold'
    <2> SUFFICES ASSUME NEW q \in Request, NEW x \in pending'[q]
                 PROVE  x.by = q /\ holder'[x.batch] = q
      BY DEF WritersHold
    <2>1. q # r /\ x \in pending[q]
      BY <1>4
    <2>2. x \in MovementRow /\ x.by = q /\ holder[x.batch] = q
      BY <1>3, <2>1 DEF StockInv, WorkTyped, WritersHold
    <2>3. x.batch \in Resources
      BY <2>2 DEF MovementRow, Resources
    <2> QED
      BY <1>2, <2>1, <2>2, <2>3
  <1>10. CommittedWhole'
    BY <1>1, <1>2 DEF StockInv, CommittedWhole, Answered
  <1>11. InStock'
    <2>1. ledger \cup {} = ledger
      OBVIOUS
    <2>2. ASSUME NEW b \in Batch, NEW q \in Request
          PROVE  OnHand(ledger \cup pending'[q], b) \in Nat
      BY <1>4, <2>1 DEF StockInv, InStock, Stock
    <2> QED
      BY <1>1, <2>2 DEF StockInv, InStock, Stock
  <1> QED
    BY <1>5, <1>6, <1>7, <1>8, <1>9, <1>10, <1>11 DEF StockInv


--------------------------------------------------------------------------------
(***************************************************************************)
(* What a commit does to the sales.                                        *)
(***************************************************************************)
LEMMA CommitsSales ==
  ASSUME IInv, WorkTyped, NEW r \in Request, Commit(r)
  PROVE  /\ job[r].kind = "sale" =>
              /\ sales'[r] = [status |-> "COMPLETED", number |-> number[r],
                              allocations |-> [i \in DOMAIN plan[r] |->
                                                 Move(plan[r][i].batch, -plan[r][i].quantity)]]
              /\ \A q \in Request \ {r} : sales'[q] = sales[q]
         /\ job[r].kind = "void" =>
              /\ sales'[job[r].sale].status = "VOID"
              /\ sales'[job[r].sale].number = sales[job[r].sale].number
              /\ sales'[job[r].sale].allocations = sales[job[r].sale].allocations
              /\ \A q \in Request \ {job[r].sale} : sales'[q] = sales[q]
         /\ job[r].kind \notin {"sale", "void"} => sales' = sales
  <1> DEFINE s == job[r].sale
  <1>0. sales = [q \in Request |-> [status |-> sales[q].status, number |-> sales[q].number,
                                    allocations |-> sales[q].allocations]]
    BY DEF IInv, ControlOK
  <1>1. CASE job[r].kind = "sale"
    BY <1>0, <1>1 DEF Commit
  <1>2. CASE job[r].kind = "void"
    <2>1. s \in Request
      BY <1>2, JobOfIs
    <2>2. sales' = [sales EXCEPT ![s] = [sales[s] EXCEPT !.status = "VOID"]]
      BY <1>2 DEF Commit
    <2>3. sales[s] = [status |-> sales[s].status, number |-> sales[s].number,
                      allocations |-> sales[s].allocations]
      BY <1>0, <2>1
    <2>4. [sales[s] EXCEPT !.status = "VOID"]
            = [status |-> "VOID", number |-> sales[s].number,
               allocations |-> sales[s].allocations]
      BY <2>3
    <2>5. /\ sales'[s] = [status |-> "VOID", number |-> sales[s].number,
                          allocations |-> sales[s].allocations]
          /\ \A q \in Request \ {s} : sales'[q] = sales[q]
      BY <1>0, <2>1, <2>2, <2>4
    <2> QED
      BY <1>2, <2>5
  <1>3. CASE job[r].kind \notin {"sale", "void"}
    BY <1>3 DEF Commit
  <1> QED
    BY <1>1, <1>2, <1>3

\* What a sale's items list: the units its movements took, as positive numbers.
Allocations(moves) == [i \in DOMAIN moves |-> Move(moves[i].batch, -moves[i].quantity)]

LEMMA AllocationsTyped ==
  ASSUME NEW moves \in Seq(Movement)
  PROVE  Allocations(moves) \in Seq(Movement) /\ Len(Allocations(moves)) = Len(moves)
  <1>1. Len(moves) \in Nat /\ DOMAIN moves = 1..Len(moves)
    BY LenProperties
  <1>2. ASSUME NEW i \in 1..Len(moves) PROVE Move(moves[i].batch, -moves[i].quantity) \in Movement
    <2>1. moves[i] \in Movement
      BY <1>1
    <2>2. moves[i].batch \in Batch /\ moves[i].quantity \in Int \ {0}
      BY <2>1 DEF Movement
    <2> QED
      BY <2>2 DEF Move, Movement
  <1>3. Allocations(moves) \in [1..Len(moves) -> Movement]
    BY <1>1, <1>2 DEF Allocations
  <1> QED
    BY <1>1, <1>3, SeqDef, LenProperties

(***************************************************************************)
(* A commit shows the rows of one transaction to the others; a row another *)
(* has written is of a batch that one holds.                               *)
(***************************************************************************)
LEMMA CommitKeeps ==
  ASSUME IInv, StockInv, NEW r \in Request, Commit(r)
  PROVE  StockInv'
  <1>0. holder \in [Resources -> Request \cup {Free}] /\ pc \in [Request -> Labels]
    BY DEF IInv, ControlOK
  <1>1. /\ pc[r] = "moving" /\ done[r] = Len(plan[r])
        /\ End(r, "done") /\ pending' = [pending EXCEPT ![r] = {}]
        /\ ledger' = ledger \cup pending[r]
        /\ batches' = batches \cup {b \in Batch : holder[b] = r}
        /\ UNCHANGED <<job, listed, locked, lines, short, plan, number, done>>
    BY DEF Commit, End, work
  <1>2. /\ \A y \in Resources : /\ holder[y] = r => holder'[y] = Free
                                /\ holder[y] # r => holder'[y] = holder[y]
        /\ \A q \in Request \ {r} : pc'[q] = pc[q]
        /\ pc'[r] = "done"
    BY <1>0, <1>1, LocksFall
  <1>3. WorkTyped /\ TablesTyped /\ Road(r)
    BY DEF StockInv, Roads
  <1>4. pending'[r] = {} /\ \A q \in Request \ {r} : pending'[q] = pending[q]
    BY <1>1, <1>3 DEF WorkTyped
  <1>5. IsFiniteSet(ledger') /\ ledger' \subseteq MovementRow
    BY <1>1, <1>3, FS_Union DEF WorkTyped, TablesTyped
  <1>6. TablesTyped'
    <2>1. IsFiniteSet(batches') /\ batches' \subseteq Batch
      <3>1. {b \in Batch : holder[b] = r} \subseteq {x \in Resources : holder[x] = r}
        BY DEF Resources
      <3>2. IsFiniteSet({b \in Batch : holder[b] = r})
        BY <3>1, FS_Subset DEF StockInv, LocksAreFew
      <3> QED
        BY <1>1, <1>3, <3>2, FS_Union DEF TablesTyped
    <2>2. ASSUME NEW q \in Request
          PROVE  /\ sales'[q].status \in {"ABSENT", "COMPLETED", "VOID"}
                 /\ sales'[q].number \in Nat
                 /\ sales'[q].allocations \in Seq(Movement)
      <3>1. number[q] \in Nat
        BY DEF IInv, ControlOK
      <3>2. plan[q] \in Seq(Movement)
        BY <1>3 DEF WorkTyped
      <3>3. CASE job[r].kind = "sale" /\ q = r
        <4>1. sales'[r] = [status |-> "COMPLETED", number |-> number[r],
                           allocations |-> Allocations(plan[r])]
          BY <1>3, <3>3, CommitsSales DEF Allocations
        <4> QED
          BY <3>1, <3>2, <3>3, <4>1, AllocationsTyped
      <3>4. CASE job[r].kind = "void" /\ q = job[r].sale
        BY <1>3, <3>4, CommitsSales DEF TablesTyped
      <3>5. CASE ~(job[r].kind = "sale" /\ q = r) /\ ~(job[r].kind = "void" /\ q = job[r].sale)
        <4>1. sales'[q] = sales[q]
          BY <1>3, <3>5, CommitsSales
        <4> QED
          BY <1>3, <4>1 DEF TablesTyped
      <3> QED
        BY <3>3, <3>4, <3>5
    <2>3. purchases' \in [Purchase -> {"DRAFT", "RECEIVED"}]
      BY <1>3 DEF Commit, TablesTyped
    <2>4. cost' \in [Product -> Purchase \cup {Opening}]
      <3>1. ASSUME NEW p \in Product, holder[p] = r PROVE Document(r) \in Purchase
        <4>1. job[r].kind = "receive"
          BY <3>1 DEF StockInv, LocksAreFew
        <4> QED
          BY <1>3, <4>1, JobOfIs DEF Document
      <3>2. cost' = [p \in Product |-> IF holder[p] = r THEN Document(r) ELSE cost[p]]
        BY DEF Commit
      <3> QED
        BY <1>3, <3>1, <3>2 DEF TablesTyped
    <2> QED
      BY <1>5, <2>1, <2>2, <2>3, <2>4 DEF TablesTyped
  <1>7. WorkTyped'
    <2>1. pending' \in [Request -> SUBSET MovementRow]
      BY <1>1, <1>3 DEF WorkTyped
    <2>2. \A q \in Request : IsFiniteSet(pending'[q])
      BY <1>3, <1>4, FS_EmptySet DEF WorkTyped
    <2> QED
      BY <1>1, <1>3, <2>1, <2>2 DEF WorkTyped
  <1>8. Roads'
    <2>1. ASSUME NEW q \in Request, q # r PROVE Road(q)'
      BY <1>1, <1>2, <2>1 DEF StockInv, Roads, Road
    <2>2. Road(r)'
      BY <1>1, <1>2, <1>3 DEF Road
    <2> QED
      BY <2>1, <2>2 DEF Roads
  <1>9. LocksAreFew'
    BY <1>0, <1>1, LocksFewer DEF StockInv
  <1>10. WritersHold'
    <2> SUFFICES ASSUME NEW q \in Request, NEW x \in pending'[q]
                 PROVE  x.by = q /\ holder'[x.batch] = q
      BY DEF WritersHold
    <2>1. q # r /\ x \in pending[q]
      BY <1>4
    <2>2. x \in MovementRow /\ x.by = q /\ holder[x.batch] = q
      BY <1>3, <2>1 DEF StockInv, WorkTyped, WritersHold
    <2>3. x.batch \in Resources
      BY <2>2 DEF MovementRow, Resources
    <2> QED
      BY <1>2, <2>1, <2>2, <2>3
  <1>11. CommittedWhole'
    <2> SUFFICES ASSUME NEW x \in ledger'
                 PROVE  x.batch \in batches' /\ \A q \in Request : x.by = q => pc'[q] = "done"
      BY DEF CommittedWhole
    <2>1. CASE x \in ledger
      BY <1>1, <1>2, <2>1 DEF StockInv, CommittedWhole
    <2>2. CASE x \in pending[r]
      <3>1. x \in MovementRow /\ x.by = r /\ holder[x.batch] = r
        BY <1>3, <2>2 DEF StockInv, WorkTyped, WritersHold
      <3>2. x.batch \in Batch
        BY <3>1 DEF MovementRow
      <3> QED
        BY <1>1, <1>2, <3>1, <3>2
    <2> QED
      BY <1>1, <2>1, <2>2
  <1>12. InStock'
    <2>1. \A b \in Batch : OnHand(ledger', b) \in Nat
      BY <1>1 DEF StockInv, InStock, Stock
    <2>2. ASSUME NEW b \in Batch, NEW q \in Request
          PROVE  OnHand(ledger' \cup pending'[q], b) \in Nat
      <3>1. CASE q = r \/ \A x \in pending[q] : x.batch # b
        <4>1. {x \in ledger' \cup pending'[q] : x.batch = b} = {x \in ledger' : x.batch = b}
          BY <1>4, <3>1
        <4> QED
          BY <2>1, <4>1 DEF OnHand
      <3>2. CASE q # r /\ \E x \in pending[q] : x.batch = b
        <4>1. holder[b] = q
          BY <3>2 DEF StockInv, WritersHold
        <4>2. \A x \in pending[r] : x.batch # b
          BY <3>2, <4>1 DEF StockInv, WritersHold
        <4>3. {x \in ledger' \cup pending'[q] : x.batch = b}
                = {x \in ledger \cup pending[q] : x.batch = b}
          BY <1>1, <1>4, <3>2, <4>2
        <4> QED
          BY <4>3 DEF OnHand, Stock, StockInv, InStock
      <3> QED
        BY <3>1, <3>2
    <2> QED
      BY <2>1, <2>2 DEF InStock, Stock
  <1> QED
    BY <1>6, <1>7, <1>8, <1>9, <1>10, <1>11, <1>12 DEF StockInv

LEMMA StepStockInv == IInv /\ StockInv /\ [Next]_vars => StockInv'
  <1> SUFFICES ASSUME IInv, StockInv, [Next]_vars PROVE StockInv'
    OBVIOUS
  <1>1. CASE UNCHANGED vars
    <2>1. /\ UNCHANGED <<ledger, batches, sales, purchases, cost, holder, pc>>
          /\ UNCHANGED <<job, listed, locked, lines, short, plan, done, pending>>
      BY <1>1 DEF vars, tables, work
    <2>2. TablesTyped'
      BY <2>1 DEF StockInv, TablesTyped
    <2>3. WorkTyped'
      BY <2>1 DEF StockInv, WorkTyped
    <2>4. Roads'
      BY <2>1 DEF StockInv, Roads, Road
    <2>5. LocksAreFew' /\ WritersHold' /\ CommittedWhole'
      BY <2>1 DEF StockInv, LocksAreFew, WritersHold, CommittedWhole
    <2>6. InStock'
      BY <2>1 DEF StockInv, InStock, Stock, OnHand
    <2> QED
      BY <2>2, <2>3, <2>4, <2>5, <2>6 DEF StockInv
  <1>2. ASSUME NEW r \in Request,
               Arrive(r) \/ Serve(r) \/ DeadlockVictim(r) \/ Rollback(r)
        PROVE  StockInv'
    BY <1>2, StepsSplit, BeginsKeeps, AbandonsKeeps, GoesAheadKeeps, WriteRowKeeps, CommitKeeps
  <1> QED
    BY <1>1, <1>2 DEF Next

LEMMA StockInvariance == Spec => [](IInv /\ StockInv)
  <1>1. Init => IInv /\ StockInv
    BY InitIInv, InitStockInv
  <1>2. IInv /\ StockInv /\ [Next]_vars => (IInv /\ StockInv)'
    BY StepIInv, StepStockInv
  <1> QED
    BY <1>1, <1>2, PTL DEF Spec

(***************************************************************************)
(* Every variable keeps its type.                                          *)
(***************************************************************************)
THEOREM TypesHold == Spec => []TypeOK
  <1>1. ASSUME IInv, StockInv PROVE TypeOK
    <2>1. TablesTyped /\ WorkTyped /\ Roads /\ ControlOK
      BY <1>1 DEF IInv, StockInv
    <2>2. \A row \in ledger \cup UNION {pending[r] : r \in Request} :
            row.type \in Types /\ row.batch \in Batch /\ row.quantity \in Int
      <3>1. \A row \in MovementRow : row.type \in Types /\ row.batch \in Batch /\ row.quantity \in Int
        BY DEF MovementRow
      <3>2. ledger \cup UNION {pending[r] : r \in Request} \subseteq MovementRow
        BY <2>1 DEF TablesTyped, WorkTyped
      <3> QED
        BY <3>1, <3>2
    <2>3. \A r \in Request : done[r] \in 0..Len(plan[r])
      <3>1. \A r \in Request : done[r] \in Nat /\ Len(plan[r]) \in Nat
        BY <2>1, LenProperties DEF WorkTyped
      <3> QED
        BY <2>1, <3>1 DEF Roads, Road
    <2>4. \A r \in Request : /\ sales[r].status \in {"ABSENT", "COMPLETED", "VOID"}
                             /\ sales[r].number \in Nat /\ number[r] \in Nat
      BY <2>1 DEF TablesTyped, ControlOK
    <2>5. /\ batches \subseteq Batch
          /\ purchases \in [Purchase -> {"DRAFT", "RECEIVED"}]
          /\ cost \in [Product -> Purchase \cup {Opening}]
      BY <2>1 DEF TablesTyped
    <2>6. /\ holder \in [Resources -> Request \cup {Free}]
          /\ pc \in [Request -> {"new", "settings", "numbering", "locking", "document",
                                 "resolving", "creating", "moving", "pricing"} \cup Answered]
      BY <2>1 DEF ControlOK, Labels
    <2> QED
      BY <2>2, <2>3, <2>4, <2>5, <2>6 DEF TypeOK
  <1> QED
    BY <1>1, StockInvariance, PTL

--------------------------------------------------------------------------------
(***************************************************************************)
(* The stock book: what came in and what went out of a batch, and that     *)
(* both only grow.                                                         *)
(***************************************************************************)
Added(rows, b)   == Units({row \in rows : row.batch = b /\ row.quantity > 0})
Removed(rows, b) == -Units({row \in rows : row.batch = b /\ row.quantity < 0})

LEMMA BookBalances ==
  ASSUME NEW rows, IsFiniteSet(rows), rows \subseteq MovementRow, NEW b
  PROVE  /\ Added(rows, b) \in Nat /\ Removed(rows, b) \in Nat
         /\ OnHand(rows, b) = Added(rows, b) - Removed(rows, b)
  <1> DEFINE S == {row \in rows : row.batch = b /\ row.quantity > 0}
             T == {row \in rows : row.batch = b /\ row.quantity < 0}
             B == {row \in rows : row.batch = b}
  <1>1. \A x \in rows : x.quantity \in Int \ {0}
    BY DEF MovementRow
  <1>2. IsFiniteSet(S) /\ IsFiniteSet(T)
    BY FS_Subset
  <1>3. S \cup T = B /\ S \cap T = {}
    BY <1>1
  <1>4. /\ \A x \in S \cup T : x.quantity \in Int
        /\ \A x \in S : x.quantity \in Nat
        /\ \A x \in T : x.quantity \in Int /\ x.quantity <= 0
    BY <1>1
  <1>5. /\ Added(rows, b) = Units(S) /\ Removed(rows, b) = -Units(T)
        /\ OnHand(rows, b) = Units(B)
    BY DEF Added, Removed, OnHand
  <1> HIDE DEF S, T, B
  <1>6. Units(S) \in Nat /\ -Units(T) \in Nat
    BY <1>2, <1>4, UnitsSign
  <1>7. Units(S \cup T) = Units(S) + Units(T)
    BY <1>2, <1>3, <1>4, UnitsUnion
  <1>8. Units(T) \in Int
    BY <1>2, <1>4, UnitsType
  <1> QED
    BY <1>3, <1>5, <1>6, <1>7, <1>8

LEMMA BookGrows ==
  ASSUME NEW more, IsFiniteSet(more), more \subseteq MovementRow, NEW rows \in SUBSET more, NEW b
  PROVE  Added(rows, b) <= Added(more, b) /\ Removed(rows, b) <= Removed(more, b)
  <1> DEFINE new == more \ rows
             S(x) == {row \in x : row.batch = b /\ row.quantity > 0}
             T(x) == {row \in x : row.batch = b /\ row.quantity < 0}
  <1>1. \A x \in more : x.quantity \in Int
    BY DEF MovementRow
  <1>2. /\ \A x \in SUBSET more : IsFiniteSet(S(x)) /\ IsFiniteSet(T(x))
        /\ rows \in SUBSET more /\ new \in SUBSET more /\ more \in SUBSET more
    BY FS_Subset
  <1>3. /\ S(rows) \cup S(new) = S(more) /\ S(rows) \cap S(new) = {}
        /\ T(rows) \cup T(new) = T(more) /\ T(rows) \cap T(new) = {}
    OBVIOUS
  <1>4. /\ \A x \in S(rows) \cup S(new) : x.quantity \in Int
        /\ \A x \in T(rows) \cup T(new) : x.quantity \in Int
        /\ \A x \in S(new) : x.quantity \in Nat
        /\ \A x \in T(new) : x.quantity \in Int /\ x.quantity <= 0
        /\ \A x \in S(rows) : x.quantity \in Int
        /\ \A x \in T(rows) : x.quantity \in Int
    BY <1>1
  <1>5. /\ Added(rows, b) = Units(S(rows)) /\ Added(more, b) = Units(S(more))
        /\ Removed(rows, b) = -Units(T(rows)) /\ Removed(more, b) = -Units(T(more))
    BY DEF Added, Removed
  <1> HIDE DEF S, T, new
  <1>6. Units(S(new)) \in Nat /\ -Units(T(new)) \in Nat
    BY <1>2, <1>4, UnitsSign
  <1>7. Units(S(rows)) \in Int /\ Units(T(rows)) \in Int /\ Units(T(new)) \in Int
    <2>1. Units(S(rows)) \in Int
      BY <1>2, <1>4, UnitsType
    <2>2. Units(T(rows)) \in Int
      BY <1>2, <1>4, UnitsType
    <2>3. Units(T(new)) \in Int
      BY <1>2, <1>4, UnitsType
    <2> QED
      BY <2>1, <2>2, <2>3
  <1>8. Units(S(rows) \cup S(new)) = Units(S(rows)) + Units(S(new))
    BY <1>2, <1>3, <1>4, UnitsUnion
  <1>9. Units(T(rows) \cup T(new)) = Units(T(rows)) + Units(T(new))
    BY <1>2, <1>3, <1>4, UnitsUnion
  <1>10. /\ Units(S(more)) = Units(S(rows)) + Units(S(new))
         /\ Units(T(more)) = Units(T(rows)) + Units(T(new))
    BY <1>3, <1>8, <1>9
  <1>11. Units(S(rows)) <= Units(S(more))
    BY <1>6, <1>7, <1>10
  <1>12. -Units(T(rows)) <= -Units(T(more))
    BY <1>6, <1>7, <1>10
  <1> QED
    BY <1>5, <1>11, <1>12

LEMMA LedgerGrows ==
  ASSUME [Next]_vars
  PROVE  ledger \subseteq ledger'
  <1>1. CASE UNCHANGED vars
    BY <1>1 DEF vars, tables
  <1>2. ASSUME NEW r \in Request,
               Arrive(r) \/ Serve(r) \/ DeadlockVictim(r) \/ Rollback(r)
        PROVE  ledger \subseteq ledger'
    <2>1. Begins(r) \/ Abandons(r) \/ GoesAhead(r) \/ WriteRow(r) \/ Commit(r)
      BY <1>2, StepsSplit
    <2>2. CASE Begins(r)
      BY <2>2 DEF Begins, RequestSale, RequestVoid, RequestStock, tables
    <2>3. CASE Abandons(r) \/ WriteRow(r)
      BY <2>3 DEF Abandons, Abandon, WriteRow, tables
    <2>4. CASE GoesAhead(r)
      BY <2>4 DEF GoesAhead, LockSettings, ReadNumber, LockNextBatch, AllocateLine, StartMoving,
                  OpenSale, OpenPurchase, ResolveBatch, InsertBatch, UpdateCost, tables
    <2>5. CASE Commit(r)
      BY <2>5 DEF Commit
    <2> QED
      BY <2>1, <2>2, <2>3, <2>4, <2>5
  <1> QED
    BY <1>1, <1>2 DEF Next

(***************************************************************************)
(* The transactions together implement the abstract stock book: whatever   *)
(* they do, the ledger only grows and no batch goes below zero.            *)
(***************************************************************************)
THEOREM ImplementsStockBook == Spec => BookSpec
  <1> DEFINE in  == [b \in Batch |-> Added(ledger, b)]
             out == [b \in Batch |-> Removed(ledger, b)]
  <1>1. ASSUME StockInv
        PROVE  in \in [Batch -> Nat] /\ out \in [Batch -> Nat] /\ \A b \in Batch : out[b] <= in[b]
    <2>1. IsFiniteSet(ledger) /\ ledger \subseteq MovementRow
      BY <1>1 DEF StockInv, TablesTyped
    <2>2. \A b \in Batch : /\ Added(ledger, b) \in Nat /\ Removed(ledger, b) \in Nat
                           /\ OnHand(ledger, b) = Added(ledger, b) - Removed(ledger, b)
      BY <2>1, BookBalances
    <2>3. \A b \in Batch : OnHand(ledger, b) \in Nat
      BY <1>1 DEF StockInv, InStock
    <2> QED
      BY <2>2, <2>3
  <1>2. Init => Book!Init
    BY <1>1, InitStockInv DEF Book!Init, Added, Removed
  <1>3. StockInv /\ StockInv' /\ [Next]_vars => [Book!Post]_Book!book
    <2> SUFFICES ASSUME StockInv, StockInv', [Next]_vars PROVE Book!Post
      OBVIOUS
    <2>1. in' \in [Batch -> Nat] /\ out' \in [Batch -> Nat] /\ \A b \in Batch : out'[b] <= in'[b]
      <3>1. IsFiniteSet(ledger') /\ ledger' \subseteq MovementRow
        BY DEF StockInv, TablesTyped
      <3>2. \A b \in Batch : /\ Added(ledger', b) \in Nat /\ Removed(ledger', b) \in Nat
                             /\ OnHand(ledger', b) = Added(ledger', b) - Removed(ledger', b)
        BY <3>1, BookBalances
      <3>3. \A b \in Batch : OnHand(ledger', b) \in Nat
        BY DEF StockInv, InStock
      <3> QED
        BY <3>2, <3>3
    <2>2. \A b \in Batch : in[b] <= in'[b] /\ out[b] <= out'[b]
      <3>1. IsFiniteSet(ledger') /\ ledger' \subseteq MovementRow /\ ledger \in SUBSET ledger'
        BY LedgerGrows DEF StockInv, TablesTyped
      <3>2. \A b \in Batch : /\ Added(ledger, b) <= Added(ledger', b)
                             /\ Removed(ledger, b) <= Removed(ledger', b)
        BY <3>1, BookGrows
      <3> QED
        BY <3>2
    <2> QED
      BY <2>1, <2>2 DEF Book!Post, Added, Removed
  <1> QED
    BY <1>2, <1>3, StockInvariance, PTL DEF Spec, BookSpec, Book!Spec


--------------------------------------------------------------------------------
(***************************************************************************)
(* The ledger and the documents.  The invariant says for each request what *)
(* it has written and from which document it works, and for each sale,     *)
(* purchase and cost which request it comes from.                          *)
(***************************************************************************)
Written(r) == {RowOf(r, plan[r][i]) : i \in 1..done[r]}

OpeningRows ==
  {[by |-> Opening, doc |-> Opening, type |-> "PURCHASE", batch |-> b,
    quantity |-> OpeningStock[b]] : b \in {c \in DOMAIN OpeningStock : OpeningStock[c] > 0}}

\* The rows of a transaction that is under way, and of one that committed.
RowsOfWork(r) ==
  /\ pc[r] \notin Answered => pending[r] = Written(r)
  /\ pc[r] \in Answered => pending[r] = {}
  /\ pc[r] = "done" => Written(r) \subseteq ledger

LedgerIsWritten ==
  /\ OpeningRows \subseteq ledger
  /\ \A row \in ledger :
       row \in OpeningRows \/ \E r \in Request : pc[r] = "done" /\ row \in Written(r)

\* No two movements of a request are of the same batch.
OncePerBatch(moves) == \A i, k \in DOMAIN moves : moves[i].batch = moves[k].batch => i = k

(***************************************************************************)
(* A sale has planned movements for the first lines of its cart, and if it *)
(* found enough, the units of each of them.                                *)
(***************************************************************************)
Taken(moves, p) == Units({move \in ToSet(moves) : ProductOf[move.batch] = p})

FillsCart(cart, rest, moves, lacks) ==
  LET filled == Len(cart) - Len(rest) IN
  /\ Len(rest) <= Len(cart)
  /\ \A i \in 1..Len(rest) : rest[i] = cart[filled + i]
  /\ \A i \in 1..Len(moves) : \E k \in 1..filled : ProductOf[moves[i].batch] = cart[k].product
  /\ ~lacks => \A k \in 1..filled : Taken(moves, cart[k].product) = -cart[k].quantity

CartIsFilled(r) ==
  job[r].kind = "sale" =>
    /\ FillsCart(job[r].cart, lines[r], plan[r], short[r])
    /\ pc[r] \in {"moving", "done"} => ~short[r] /\ lines[r] = <<>>

(***************************************************************************)
(* A void works on the allocations of a recorded sale it has locked, and a *)
(* receipt on the lines of a draft it has locked; a receipt has locked the *)
(* products it has priced, and no others.                                  *)
(***************************************************************************)
VoidIsOfSale(r) ==
  job[r].kind = "void" =>
    /\ pc[r] \in {"moving", "done"} => plan[r] = sales[job[r].sale].allocations
    /\ pc[r] = "moving" =>
         holder[job[r].sale] = r /\ sales[job[r].sale].status = "COMPLETED"
    /\ pc[r] = "done" => sales[job[r].sale].status = "VOID"

ReceiptIsOfDraft(r) ==
  job[r].kind = "receive" =>
    /\ pc[r] \in {"resolving", "creating", "moving", "pricing", "done"} =>
         plan[r] = PurchaseLines[job[r].purchase]
    /\ pc[r] \in {"resolving", "creating", "moving", "pricing"} =>
         holder[job[r].purchase] = r /\ purchases[job[r].purchase] = "DRAFT"
    /\ pc[r] = "done" => purchases[job[r].purchase] = "RECEIVED"

Priced(r) == IF pc[r] = "pricing" THEN done[r] - 1 ELSE done[r]

ProductsAreHeld(r) ==
  /\ \A p \in Product : holder[p] = r =>
       \E i \in 1..Priced(r) : ProductOf[plan[r][i].batch] = p
  /\ job[r].kind = "receive" /\ Underway(r) =>
       \A i \in 1..Priced(r) : holder[ProductOf[plan[r][i].batch]] = r

WorkIs(r) ==
  /\ RowsOfWork(r) /\ OncePerBatch(plan[r]) /\ CartIsFilled(r)
  /\ VoidIsOfSale(r) /\ ReceiptIsOfDraft(r) /\ ProductsAreHeld(r)

\* Each recorded sale, void and receipt is the work of one request.
Voided(q, r)   == pc[q] = "done" /\ job[q].kind = "void" /\ job[q].sale = r
Received(q, p) == pc[q] = "done" /\ job[q].kind = "receive" /\ job[q].purchase = p

SalesAreDone ==
  \A r \in Request :
    /\ sales[r].status # "ABSENT" <=> pc[r] = "done" /\ job[r].kind = "sale"
    /\ sales[r].status # "ABSENT" => sales[r].allocations = Allocations(plan[r])
    /\ sales[r].status = "ABSENT" => sales[r].allocations = <<>>
    /\ sales[r].status = "VOID" => \E q \in Request : Voided(q, r)
    /\ \A q, t \in Request : Voided(q, r) /\ Voided(t, r) => q = t

PurchasesAreDone ==
  \A p \in Purchase :
    /\ purchases[p] = "RECEIVED" => \E q \in Request : Received(q, p)
    /\ \A q, t \in Request : Received(q, p) /\ Received(t, p) => q = t

Pays(q, p) ==
  /\ purchases[q] = "RECEIVED"
  /\ \E i \in DOMAIN PurchaseLines[q] : ProductOf[PurchaseLines[q][i].batch] = p

CostsArePaid ==
  \A p \in Product :
    /\ (\E q \in Purchase : Pays(q, p)) => cost[p] \in Purchase /\ Pays(cost[p], p)
    /\ (\A q \in Purchase : ~Pays(q, p)) => cost[p] = Opening

DocumentInv ==
  /\ LedgerIsWritten /\ SalesAreDone /\ PurchasesAreDone /\ CostsArePaid
  /\ \A r \in Request : WorkIs(r)

FullInv == IInv /\ StockInv /\ DocumentInv

LEMMA InitDocumentInv == Init => DocumentInv
  <1> SUFFICES ASSUME Init PROVE DocumentInv
    OBVIOUS
  <1>1. LedgerIsWritten
    BY DEF Init, LedgerIsWritten, OpeningRows
  <1>2. SalesAreDone /\ PurchasesAreDone
    BY DEF Init, SalesAreDone, PurchasesAreDone, Voided, Received, NoSale
  <1>3. CostsArePaid
    BY DEF Init, CostsArePaid, Pays
  <1>4. ASSUME NEW r \in Request PROVE WorkIs(r)
    <2>1. /\ pc[r] = "new" /\ done[r] = 0 /\ plan[r] = <<>> /\ job[r].kind = "none"
          /\ pending[r] = {} /\ \A x \in Resources : holder[x] # r
      BY NobodyAssumption DEF Init, NoJob
    <2>2. Written(r) = {}
      BY <2>1 DEF Written
    <2>3. Product \subseteq Resources
      BY DEF Resources
    <2>4. RowsOfWork(r)
      BY <2>1, <2>2 DEF RowsOfWork, Answered
    <2>5. OncePerBatch(plan[r]) /\ CartIsFilled(r) /\ VoidIsOfSale(r) /\ ReceiptIsOfDraft(r)
      BY <2>1 DEF OncePerBatch, CartIsFilled, VoidIsOfSale, ReceiptIsOfDraft
    <2>6. ProductsAreHeld(r)
      BY <2>1, <2>3 DEF ProductsAreHeld
    <2> QED
      BY <2>4, <2>5, <2>6 DEF WorkIs
  <1> QED
    BY <1>1, <1>2, <1>3, <1>4 DEF DocumentInv

(***************************************************************************)
(* A step leaves the work of the other requests, and the locks they hold,  *)
(* as they are; without a commit it leaves the tables too.                 *)
(***************************************************************************)
Untouched(q) ==
  /\ UNCHANGED <<pc[q], job[q], listed[q], locked[q], lines[q], short[q], plan[q], done[q],
                 pending[q]>>
  /\ \A x \in Resources : holder'[x] = q <=> holder[x] = q

LEMMA OthersUntouched ==
  ASSUME IInv, WorkTyped, NEW r \in Request,
         Begins(r) \/ Abandons(r) \/ GoesAhead(r) \/ WriteRow(r) \/ Commit(r)
  PROVE  \A q \in Request \ {r} : Untouched(q)
  <1>0. holder \in [Resources -> Request \cup {Free}] /\ pc \in [Request -> Labels]
    BY DEF IInv, ControlOK
  <1>1. ASSUME NEW x, Acquire(r, x), NEW q \in Request \ {r}
        PROVE  \A y \in Resources : holder'[y] = q <=> holder[y] = q
    BY <1>0, <1>1, HoldersGrow, NobodyAssumption
  <1>2. ASSUME NEW answer, End(r, answer), NEW q \in Request \ {r}
        PROVE  /\ \A y \in Resources : holder'[y] = q <=> holder[y] = q
               /\ pc'[q] = pc[q] /\ pending'[q] = pending[q]
    <2>1. pending'[q] = pending[q]
      BY <1>2 DEF End, WorkTyped
    <2> QED
      BY <1>0, <1>2, <2>1, LocksFall, NobodyAssumption
  <1>3. CASE Begins(r)
    BY <1>0, <1>3 DEF Begins, RequestSale, RequestVoid, RequestStock, Goto, Untouched, WorkTyped
  <1>4. CASE Abandons(r)
    BY <1>2, <1>4 DEF Abandons, Abandon, work, Untouched
  <1>5. CASE Commit(r)
    BY <1>2, <1>5 DEF Commit, work, Untouched
  <1>6. CASE WriteRow(r)
    BY <1>0, <1>1, <1>6 DEF WriteRow, Goto, work, Untouched, WorkTyped
  <1>7. CASE LockSettings(r) \/ UpdateCost(r) \/ InsertBatch(r)
    BY <1>0, <1>1, <1>7 DEF LockSettings, UpdateCost, InsertBatch, Goto, work, Untouched
  <1>8. CASE ReadNumber(r) \/ StartMoving(r) \/ ResolveBatch(r)
    BY <1>0, <1>8 DEF ReadNumber, StartMoving, ResolveBatch, Goto, work, Untouched, WorkTyped
  <1>9. CASE AllocateLine(r)
    BY <1>0, <1>9 DEF AllocateLine, Untouched, WorkTyped
  <1>10. CASE LockNextBatch(r)
    BY <1>0, <1>1, <1>10 DEF LockNextBatch, Untouched, WorkTyped
  <1>11. CASE OpenSale(r) \/ OpenPurchase(r)
    BY <1>0, <1>1, <1>11 DEF OpenSale, OpenPurchase, Goto, Untouched, WorkTyped
  <1> QED
    BY <1>3, <1>4, <1>5, <1>6, <1>7, <1>8, <1>9, <1>10, <1>11 DEF GoesAhead

LEMMA WrittenStays ==
  ASSUME NEW q \in Request, UNCHANGED <<job[q], plan[q], done[q]>>
  PROVE  Written(q)' = Written(q) /\ \A move : RowOf(q, move)' = RowOf(q, move)
  BY DEF Written, RowOf, Document, MovementType

LEMMA ProductsOfWork ==
  ASSUME NEW q \in Request, WorkTyped, Road(q)
  PROVE  /\ \A i \in 1..Len(plan[q]) : /\ plan[q][i] \in Movement
                                       /\ ProductOf[plan[q][i].batch] \in Product
         /\ \A i \in 1..done[q] : i \in 1..Len(plan[q])
         /\ \A i \in 1..Priced(q) : /\ i \in 1..done[q]
                                    /\ ProductOf[plan[q][i].batch] \in Product
  <1>1. plan[q] \in Seq(Movement) /\ done[q] \in Nat /\ done[q] <= Len(plan[q])
    BY DEF WorkTyped, Road
  <1>2. Len(plan[q]) \in Nat /\ DOMAIN plan[q] = 1..Len(plan[q])
    BY <1>1, LenProperties
  <1>3. \A i \in 1..Len(plan[q]) : plan[q][i] \in Movement
    BY <1>1, <1>2
  <1>4. \A i \in 1..Len(plan[q]) : ProductOf[plan[q][i].batch] \in Product
    BY <1>3, OrdersAreTotal DEF Movement
  <1>5. \A i \in 1..done[q] : i \in 1..Len(plan[q])
    BY <1>1, <1>2
  <1>6. \A i \in 1..Priced(q) : i \in 1..done[q]
    BY <1>1 DEF Priced
  <1> QED
    BY <1>3, <1>4, <1>5, <1>6

LEMMA UntouchedWorkIs ==
  ASSUME NEW q \in Request, WorkTyped, Road(q), Untouched(q), WorkIs(q),
         pc[q] = "done" => ledger \subseteq ledger',
         job[q].kind = "void" /\ pc[q] \in {"moving", "done"} => sales'[job[q].sale] = sales[job[q].sale],
         job[q].kind = "receive" /\ pc[q] \in {"resolving", "creating", "moving", "pricing", "done"}
           => purchases'[job[q].purchase] = purchases[job[q].purchase]
  PROVE  WorkIs(q)'
  <1>1. UNCHANGED <<pc[q], job[q], listed[q], locked[q], lines[q], short[q], plan[q], done[q],
                    pending[q]>>
    BY DEF Untouched
  <1>2. \A x \in Resources : holder'[x] = q <=> holder[x] = q
    BY DEF Untouched
  <1>3. RowsOfWork(q)'
    BY <1>1, WrittenStays DEF WorkIs, RowsOfWork
  <1>4. OncePerBatch(plan[q])'
    BY <1>1 DEF WorkIs, OncePerBatch
  <1>5. CartIsFilled(q)'
    BY <1>1 DEF WorkIs, CartIsFilled
  <1>6. VoidIsOfSale(q)'
    <2>1. job[q].kind = "void" => job[q].sale \in Resources
      BY JobOfIs DEF Resources
    <2> QED
      BY <1>1, <1>2, <2>1 DEF WorkIs, VoidIsOfSale
  <1>7. ReceiptIsOfDraft(q)'
    <2>1. job[q].kind = "receive" => job[q].purchase \in Resources
      BY JobOfIs DEF Resources
    <2> QED
      BY <1>1, <1>2, <2>1 DEF WorkIs, ReceiptIsOfDraft
  <1>8. ProductsAreHeld(q)'
    <2>1. Product \subseteq Resources
      BY DEF Resources
    <2>2. Priced(q)' = Priced(q) /\ Underway(q)' = Underway(q)
      BY <1>1 DEF Priced, Underway
    <2>3. \A i \in 1..Priced(q) : ProductOf[plan[q][i].batch] \in Resources
      BY ProductsOfWork DEF Resources
    <2> QED
      BY <1>1, <1>2, <2>1, <2>2, <2>3 DEF WorkIs, ProductsAreHeld
  <1> QED
    BY <1>3, <1>4, <1>5, <1>6, <1>7, <1>8 DEF WorkIs


--------------------------------------------------------------------------------
\* One list of movements after another.
Joins(all, moves, more) ==
  /\ all \in Seq(Movement) /\ Len(all) = Len(moves) + Len(more)
  /\ \A i \in 1..Len(moves) : i \in 1..Len(all) /\ all[i] = moves[i]
  /\ \A i \in 1..Len(more) : Len(moves) + i \in 1..Len(all) /\ all[Len(moves) + i] = more[i]
  /\ \A i \in 1..Len(all) :
       \/ i \in 1..Len(moves)
       \/ i - Len(moves) \in 1..Len(more) /\ all[i] = more[i - Len(moves)]

LEMMA Joined ==
  ASSUME NEW moves \in Seq(Movement), NEW more \in Seq(Movement)
  PROVE  Joins(moves \o more, moves, more)
  <1> DEFINE all == moves \o more
             x == Len(moves)
             y == Len(more)
  <1>1. x \in Nat /\ y \in Nat
    BY LenProperties
  <1>2. all \in Seq(Movement) /\ Len(all) = x + y
    BY ConcatProperties
  <1>3. \A i \in 1..(x + y) : all[i] = IF i <= x THEN moves[i] ELSE more[i - x]
    BY <1>1, ConcatProperties
  <1> HIDE DEF all, x, y
  <1>4. \A i \in 1..x : i \in 1..(x + y) /\ i <= x
    BY <1>1
  <1>5. \A i \in 1..y : x + i \in 1..(x + y) /\ ~(x + i <= x) /\ (x + i) - x = i
    BY <1>1
  <1>6. \A i \in 1..(x + y) : i \in 1..x \/ (~(i <= x) /\ i - x \in 1..y)
    BY <1>1
  <1>7. \A i \in 1..x : all[i] = moves[i]
    BY <1>3, <1>4
  <1>8. \A i \in 1..y : all[x + i] = more[i]
    <2> SUFFICES ASSUME NEW i \in 1..y PROVE all[x + i] = more[i]
      OBVIOUS
    <2>1. all[x + i] = more[(x + i) - x]
      BY <1>3, <1>5
    <2> QED
      BY <1>5, <2>1
  <1>9. \A i \in 1..(x + y) : i \in 1..x \/ (i - x \in 1..y /\ all[i] = more[i - x])
    BY <1>3, <1>6
  <1> QED
    BY <1>2, <1>4, <1>5, <1>7, <1>8, <1>9 DEF Joins, all, x, y

(***************************************************************************)
(* Allocating one more line.  The products of a cart are different, so the *)
(* new movements are of other batches than those planned before, and leave *)
(* the units taken for the lines before as they are.                       *)
(***************************************************************************)
OfProduct(moves, p) == \A i \in 1..Len(moves) : ProductOf[moves[i].batch] = p

LEMMA FillsMore ==
  ASSUME NEW cart \in Carts, NEW rest \in Seq(CartLine), rest # <<>>,
         NEW moves \in Seq(Movement), OncePerBatch(moves),
         NEW lacks \in BOOLEAN, FillsCart(cart, rest, moves, lacks),
         NEW more \in Seq(Movement), OncePerBatch(more),
         OfProduct(more, Head(rest).product),
         NEW lacking \in BOOLEAN, lacks => lacking,
         ~lacking => Units(ToSet(more)) = -Head(rest).quantity
  PROVE  OncePerBatch(moves \o more) /\ FillsCart(cart, Tail(rest), moves \o more, lacking)
  <1> DEFINE filled == Len(cart) - Len(rest)
             all == moves \o more
             x == Len(moves)
             y == Len(more)
  <1>1. /\ x \in Nat /\ DOMAIN moves = 1..x /\ y \in Nat /\ DOMAIN more = 1..y
        /\ Len(rest) \in Nat /\ Len(rest) > 0 /\ DOMAIN rest = 1..Len(rest)
    BY LenProperties, EmptySeq
  <1>2. /\ all \in Seq(Movement) /\ Len(all) = x + y /\ DOMAIN all = 1..(x + y)
        /\ \A i \in 1..x : all[i] = moves[i]
        /\ \A i \in 1..y : all[x + i] = more[i]
        /\ \A i \in 1..(x + y) : i \in 1..x \/ (i - x \in 1..y /\ all[i] = more[i - x])
    <2>1. Joins(all, moves, more)
      BY Joined
    <2> HIDE DEF all
    <2> QED
      BY <2>1, LenProperties DEF Joins
  <1>3. /\ Len(cart) \in Nat /\ DOMAIN cart = 1..Len(cart)
        /\ \A i, k \in 1..Len(cart) : cart[i].product = cart[k].product => i = k
    <2>1. cart \in Seq([product : Product, quantity : Nat \ {0}])
      BY DEF Carts
    <2>2. Len(cart) \in Nat /\ DOMAIN cart = 1..Len(cart)
      BY <2>1, LenProperties
    <2> QED
      BY <2>2 DEF Carts
  <1>4. /\ Len(rest) <= Len(cart)
        /\ \A i \in 1..Len(rest) : rest[i] = cart[filled + i]
        /\ \A i \in 1..x : \E k \in 1..filled : ProductOf[moves[i].batch] = cart[k].product
        /\ ~lacks => \A k \in 1..filled : Taken(moves, cart[k].product) = -cart[k].quantity
    BY DEF FillsCart
  <1>5. Head(rest) = rest[1] /\ Len(Tail(rest)) = Len(rest) - 1
        /\ \A i \in 1..Len(Tail(rest)) : Tail(rest)[i] = rest[i + 1]
    BY <1>1, HeadTailProperties
  <1>6. filled \in Nat /\ filled + 1 \in 1..Len(cart) /\ Head(rest) = cart[filled + 1]
        /\ Len(cart) - Len(Tail(rest)) = filled + 1
    BY <1>1, <1>3, <1>4, <1>5
  <1> HIDE DEF filled, all, x, y
  <1>7. \A k \in 1..filled : cart[k].product # Head(rest).product
    <2> SUFFICES ASSUME NEW k \in 1..filled, cart[k].product = Head(rest).product PROVE FALSE
      OBVIOUS
    <2>1. k \in 1..Len(cart) /\ k # filled + 1
      BY <1>3, <1>6
    <2> QED
      BY <1>3, <1>6, <2>1
  <1>16. \A i \in 1..x, k \in 1..y : moves[i].batch # more[k].batch
    <2> SUFFICES ASSUME NEW i \in 1..x, NEW k \in 1..y, moves[i].batch = more[k].batch
                 PROVE  FALSE
      OBVIOUS
    <2>1. PICK l \in 1..filled : ProductOf[moves[i].batch] = cart[l].product
      BY <1>4
    <2>2. ProductOf[more[k].batch] = Head(rest).product
      BY DEF OfProduct, y
    <2> QED
      BY <1>7, <2>1, <2>2
  <1>8. OncePerBatch(all)
    <2> SUFFICES ASSUME NEW i \in 1..(x + y), NEW k \in 1..(x + y), all[i].batch = all[k].batch
                 PROVE  i = k
      BY <1>2 DEF OncePerBatch
    <2>1. CASE i \in 1..x /\ k \in 1..x
      BY <1>1, <1>2, <2>1 DEF OncePerBatch
    <2>2. CASE i \in 1..x /\ k \notin 1..x
      <3>1. k - x \in 1..y /\ all[k] = more[k - x]
        BY <1>2, <2>2
      <3> QED
        BY <1>2, <1>16, <2>2, <3>1
    <2>3. CASE i \notin 1..x /\ k \in 1..x
      <3>1. i - x \in 1..y /\ all[i] = more[i - x]
        BY <1>2, <2>3
      <3> QED
        BY <1>2, <1>16, <2>3, <3>1
    <2>4. CASE i \notin 1..x /\ k \notin 1..x
      <3>1. i - x \in 1..y /\ k - x \in 1..y /\ more[i - x].batch = more[k - x].batch
        BY <1>2, <2>4
      <3>2. i - x = k - x
        BY <1>1, <3>1 DEF OncePerBatch
      <3> QED
        BY <1>1, <3>2
    <2> QED
      BY <2>1, <2>2, <2>3, <2>4
  <1>9. ToSet(all) = ToSet(moves) \cup ToSet(more)
    <2>1. ToSet(all) \subseteq ToSet(moves) \cup ToSet(more)
      <3> SUFFICES ASSUME NEW i \in 1..(x + y) PROVE all[i] \in ToSet(moves) \cup ToSet(more)
        BY <1>2 DEF ToSet
      <3> QED
        BY <1>1, <1>2 DEF ToSet
    <2>2. ToSet(moves) \subseteq ToSet(all)
      <3> SUFFICES ASSUME NEW i \in 1..x PROVE moves[i] \in ToSet(all)
        BY <1>1 DEF ToSet
      <3>1. i \in 1..(x + y)
        BY <1>1
      <3> QED
        BY <1>2, <3>1 DEF ToSet
    <2>3. ToSet(more) \subseteq ToSet(all)
      <3> SUFFICES ASSUME NEW i \in 1..y PROVE more[i] \in ToSet(all)
        BY <1>1 DEF ToSet
      <3>1. x + i \in 1..(x + y)
        BY <1>1
      <3> QED
        BY <1>2, <3>1 DEF ToSet
    <2> QED
      BY <2>1, <2>2, <2>3
  <1>10. /\ \A m \in ToSet(moves) : \E k \in 1..filled : ProductOf[m.batch] = cart[k].product
         /\ \A m \in ToSet(more) : ProductOf[m.batch] = Head(rest).product
    BY <1>1, <1>4 DEF ToSet, y, OfProduct
  <1>11. \A i \in 1..Len(Tail(rest)) : Tail(rest)[i] = cart[(filled + 1) + i]
    <2> SUFFICES ASSUME NEW i \in 1..Len(Tail(rest)) PROVE Tail(rest)[i] = cart[(filled + 1) + i]
      OBVIOUS
    <2>1. i \in Int /\ 1 <= i /\ i <= Len(rest) - 1
      BY <1>1, <1>5
    <2>2. i + 1 \in 1..Len(rest)
      BY <1>1, <2>1
    <2>3. filled + (i + 1) = (filled + 1) + i
      BY <1>6, <2>1
    <2>4. rest[i + 1] = cart[filled + (i + 1)]
      BY <1>4, <2>2
    <2> QED
      BY <1>5, <2>3, <2>4
  <1>12. \A i \in 1..(x + y) : \E k \in 1..(filled + 1) : ProductOf[all[i].batch] = cart[k].product
    <2> SUFFICES ASSUME NEW i \in 1..(x + y)
                 PROVE  \E k \in 1..(filled + 1) : ProductOf[all[i].batch] = cart[k].product
      OBVIOUS
    <2>1. CASE i \in 1..x
      <3>1. PICK k \in 1..filled : ProductOf[moves[i].batch] = cart[k].product
        BY <1>4, <2>1
      <3>2. k \in 1..(filled + 1) /\ all[i] = moves[i]
        BY <1>2, <1>6, <2>1
      <3> QED
        BY <3>1, <3>2
    <2>2. CASE i \notin 1..x
      <3>1. i - x \in 1..y /\ all[i] = more[i - x]
        BY <1>2, <2>2
      <3>2. ProductOf[all[i].batch] = cart[filled + 1].product
        BY <1>6, <3>1 DEF y, OfProduct
      <3> QED
        BY <1>6, <3>2
    <2> QED
      BY <2>1, <2>2
  <1>13. ASSUME ~lacking, NEW k \in 1..(filled + 1)
         PROVE  Taken(all, cart[k].product) = -cart[k].quantity
    <2>1. CASE k \in 1..filled
      <3>1. {m \in ToSet(all) : ProductOf[m.batch] = cart[k].product}
              = {m \in ToSet(moves) : ProductOf[m.batch] = cart[k].product}
        BY <1>7, <1>9, <1>10, <2>1
      <3>2. Taken(moves, cart[k].product) = -cart[k].quantity
        BY <1>4, <1>13, <2>1
      <3> QED
        BY <3>1, <3>2 DEF Taken
    <2>2. CASE k = filled + 1
      <3>1. {m \in ToSet(all) : ProductOf[m.batch] = cart[k].product} = ToSet(more)
        BY <1>6, <1>7, <1>9, <1>10, <2>2
      <3> QED
        BY <1>6, <1>13, <2>2, <3>1 DEF Taken
    <2> QED
      BY <1>6, <2>1, <2>2
  <1>14. Len(Tail(rest)) <= Len(cart)
    BY <1>1, <1>3, <1>4, <1>5
  <1>15. FillsCart(cart, Tail(rest), all, lacking)
    BY <1>2, <1>6, <1>11, <1>12, <1>13, <1>14 DEF FillsCart
  <1> QED
    BY <1>8, <1>15 DEF all

(***************************************************************************)
(* Without a commit, the tables go on agreeing with the documents.         *)
(***************************************************************************)
LEMMA TablesStayDone ==
  ASSUME DocumentInv, NEW r \in Request, pc[r] # "done", pc'[r] # "done",
         UNCHANGED <<ledger, batches, sales, purchases, cost>>, \A q \in Request \ {r} : Untouched(q)
  PROVE  LedgerIsWritten' /\ SalesAreDone' /\ PurchasesAreDone' /\ CostsArePaid'
  <1>1. \A q \in Request : pc'[q] = "done" <=> pc[q] = "done"
    BY DEF Untouched
  <1>2. \A q \in Request : pc[q] = "done" =>
          job'[q] = job[q] /\ plan'[q] = plan[q] /\ done'[q] = done[q]
    BY DEF Untouched
  <1>3. LedgerIsWritten'
    <2>1. \A q \in Request : pc[q] = "done" => Written(q)' = Written(q)
      BY <1>2, WrittenStays
    <2> QED
      BY <1>1, <2>1 DEF DocumentInv, LedgerIsWritten, OpeningRows
  <1>4. \A q \in Request : \A x : (Voided(q, x)' <=> Voided(q, x)) /\ (Received(q, x)' <=> Received(q, x))
    BY <1>1, <1>2 DEF Voided, Received
  <1>5. SalesAreDone'
    BY <1>1, <1>2, <1>4 DEF DocumentInv, SalesAreDone
  <1>6. PurchasesAreDone'
    BY <1>4 DEF DocumentInv, PurchasesAreDone
  <1>7. CostsArePaid'
    BY DEF DocumentInv, CostsArePaid, Pays
  <1> QED
    BY <1>3, <1>5, <1>6, <1>7

LEMMA QuietDocuments ==
  ASSUME FullInv, StockInv', NEW r \in Request, pc[r] # "done", pc'[r] # "done",
         UNCHANGED <<ledger, batches, sales, purchases, cost>>, \A q \in Request \ {r} : Untouched(q),
         WorkIs(r)'
  PROVE  DocumentInv'
  <1>1. LedgerIsWritten' /\ SalesAreDone' /\ PurchasesAreDone' /\ CostsArePaid'
    BY TablesStayDone DEF FullInv
  <1>2. ASSUME NEW q \in Request, q # r PROVE WorkIs(q)'
    BY <1>2, UntouchedWorkIs DEF FullInv, StockInv, DocumentInv, Roads
  <1> QED
    BY <1>1, <1>2 DEF DocumentInv


--------------------------------------------------------------------------------
(***************************************************************************)
(* What each step leaves true of the work of the request that takes it.    *)
(***************************************************************************)
LEMMA RowsGoOn ==
  ASSUME NEW r \in Request, RowsOfWork(r), pc[r] \notin Answered, pc'[r] \notin Answered,
         UNCHANGED <<job[r], done[r], pending[r]>>, done[r] = 0 \/ plan'[r] = plan[r]
  PROVE  RowsOfWork(r)'
  <1>1. CASE plan'[r] = plan[r]
    BY <1>1, WrittenStays DEF RowsOfWork, Answered
  <1>2. CASE done[r] = 0
    <2>1. Written(r) = {} /\ Written(r)' = {}
      BY <1>2 DEF Written
    <2> QED
      BY <2>1 DEF RowsOfWork, Answered
  <1> QED
    BY <1>1, <1>2

LEMMA OnlyReceiptsPrice ==
  ASSUME NEW r \in Request, LocksAreFew', job'[r].kind # "receive"
  PROVE  ProductsAreHeld(r)' /\ ReceiptIsOfDraft(r)'
  BY DEF LocksAreFew, ProductsAreHeld, ReceiptIsOfDraft

LEMMA BeginsWork ==
  ASSUME FullInv, NEW r \in Request, Begins(r), StockInv'
  PROVE  WorkIs(r)'
  <1>0. pc \in [Request -> Labels]
    BY DEF FullInv, IInv, ControlOK
  <1>1. WorkTyped /\ Road(r) /\ WorkIs(r)
    BY DEF FullInv, StockInv, Roads, DocumentInv
  <1>2. /\ pc[r] = "new" /\ holder' = holder /\ done' = done /\ pending' = pending
        /\ pc'[r] \in {"settings", "document", "resolving"}
        /\ job'[r].kind \in {"receive"} => pc'[r] = "document"
        /\ job'[r].kind = "void" => pc'[r] = "document"
    BY <1>0, <1>1 DEF Begins, RequestSale, RequestVoid, RequestStock, Goto, WorkTyped
  <1>3. plan[r] = <<>> /\ done[r] = 0
    BY <1>1, <1>2 DEF Road
  <1>4. RowsOfWork(r)'
    <2>1. Written(r) = {} /\ Written(r)' = {}
      BY <1>2, <1>3 DEF Written
    <2> QED
      BY <1>1, <1>2, <2>1 DEF WorkIs, RowsOfWork, Answered
  <1>5. OncePerBatch(plan[r])'
    <2>1. plan'[r] = <<>> \/ \E move : plan'[r] = <<move>>
      BY <1>1, <1>3 DEF Begins, RequestSale, RequestVoid, RequestStock, WorkTyped
    <2> QED
      BY <2>1 DEF OncePerBatch
  <1>6. CartIsFilled(r)'
    <2> SUFFICES ASSUME job'[r].kind = "sale"
                 PROVE  FillsCart(job'[r].cart, lines'[r], plan'[r], short'[r])
      BY <1>2 DEF CartIsFilled
    <2>1. RequestSale(r)
      <3>1. CASE RequestVoid(r)
        BY <1>1, <3>1 DEF RequestVoid, WorkTyped
      <3>2. CASE RequestStock(r)
        BY <1>1, <3>2 DEF RequestStock, WorkTyped
      <3> QED
        BY <3>1, <3>2 DEF Begins
    <2>2. lines'[r] = job'[r].cart /\ plan'[r] = <<>>
      BY <1>1, <1>3, <2>1 DEF RequestSale, WorkTyped
    <2>3. Len(lines'[r]) \in Nat
      BY LenProperties DEF StockInv, WorkTyped
    <2> QED
      BY <2>2, <2>3 DEF FillsCart
  <1>7. VoidIsOfSale(r)'
    BY <1>2 DEF VoidIsOfSale
  <1>8. ReceiptIsOfDraft(r)'
    BY <1>2 DEF ReceiptIsOfDraft
  <1>9. ProductsAreHeld(r)'
    <2>1. Priced(r) = 0 /\ Priced(r)' = 0
      BY <1>2, <1>3 DEF Priced
    <2>2. \A p \in Product : holder[p] # r
      BY <1>1, <2>1 DEF WorkIs, ProductsAreHeld
    <2> QED
      BY <1>2, <2>1, <2>2 DEF ProductsAreHeld
  <1> QED
    BY <1>4, <1>5, <1>6, <1>7, <1>8, <1>9 DEF WorkIs

LEMMA AbandonsWork ==
  ASSUME FullInv, NEW r \in Request, Abandons(r)
  PROVE  WorkIs(r)'
  <1>0. holder \in [Resources -> Request \cup {Free}] /\ pc \in [Request -> Labels]
    BY DEF FullInv, IInv, ControlOK
  <1>1. WorkTyped /\ WorkIs(r)
    BY DEF FullInv, StockInv, DocumentInv
  <1>2. PICK answer \in Answered \ {"done"} : End(r, answer) /\ UNCHANGED <<tables, work, done>>
    BY DEF Abandons, Abandon
  <1>3. /\ pc'[r] = answer /\ pending'[r] = {}
        /\ UNCHANGED <<job, lines, short, plan, done>>
    BY <1>0, <1>1, <1>2 DEF End, Goto, work, WorkTyped
  <1>4. \A p \in Product : holder'[p] # r
    BY <1>0, <1>2, LocksFall, NobodyAssumption DEF Resources
  <1>5. RowsOfWork(r)' /\ OncePerBatch(plan[r])'
    BY <1>1, <1>3 DEF WorkIs, RowsOfWork, Answered, OncePerBatch
  <1>6. CartIsFilled(r)'
    BY <1>1, <1>3 DEF WorkIs, CartIsFilled, Answered
  <1>7. VoidIsOfSale(r)' /\ ReceiptIsOfDraft(r)'
    BY <1>3 DEF VoidIsOfSale, ReceiptIsOfDraft, Answered
  <1>8. ProductsAreHeld(r)'
    BY <1>3, <1>4 DEF ProductsAreHeld, Underway, Answered
  <1> QED
    BY <1>5, <1>6, <1>7, <1>8 DEF WorkIs


--------------------------------------------------------------------------------
LEMMA AllocatedOnce ==
  ASSUME StockInv, NEW r \in Request, NEW line \in CartLine
  PROVE  LET got == Allocate(r, Sellable(r, line.product), line.quantity) IN
         /\ OncePerBatch(got.moves)
         /\ OfProduct(got.moves, line.product)
         /\ got.remaining = 0 => Units(ToSet(got.moves)) = -line.quantity
  <1> DEFINE from == Sellable(r, line.product)
             got == Allocate(r, from, line.quantity)
             moves == got.moves
  <1>0. Lists(from) /\ line.quantity \in Nat
    BY SellableIs DEF CartLine
  <1>1. \A b : b \in ToSet(from) => ProductOf[b] = line.product
    BY SellableIs
  <1>9. \A i \in DOMAIN from : Stock(r, from[i]) \in Nat \ {0}
    BY SellableIs
  <1> HIDE DEF from
  <1>2. /\ got.remaining \in Nat
        /\ moves \in Seq(Movement) /\ Len(moves) <= Len(from)
        /\ \A i \in 1..Len(moves) : moves[i].batch = from[i]
        /\ Units(ToSet(moves)) = got.remaining - line.quantity
    <2>1. TakesInTurn(r, from, line.quantity, got)
      BY <1>0, <1>9, AllocateTakes
    <2> HIDE DEF got
    <2> QED
      BY <2>1 DEF TakesInTurn
  <1>3. /\ DOMAIN moves = 1..Len(moves) /\ Len(moves) \in Nat
        /\ DOMAIN from = 1..Len(from) /\ Len(from) \in Nat
        /\ \A i, k \in DOMAIN from : from[i] = from[k] => i = k
        /\ ToSet(from) = {from[i] : i \in DOMAIN from}
    BY <1>0, <1>2, LenProperties DEF Lists, ToSet
  <1> HIDE DEF moves, got
  <1>4. \A i \in 1..Len(moves) : i \in DOMAIN from
    BY <1>2, <1>3
  <1>5. OncePerBatch(moves)
    BY <1>2, <1>3, <1>4 DEF OncePerBatch
  <1>6. OfProduct(moves, line.product)
    BY <1>1, <1>2, <1>3, <1>4 DEF OfProduct
  <1>7. got.remaining = 0 => Units(ToSet(moves)) = -line.quantity
    BY <1>0, <1>2
  <1> QED
    BY <1>5, <1>6, <1>7 DEF moves, got, from

LEMMA AllocateLineWork ==
  ASSUME FullInv, NEW r \in Request, AllocateLine(r), StockInv'
  PROVE  WorkIs(r)'
  <1> DEFINE line == Head(lines[r])
             got == Allocate(r, Sellable(r, line.product), line.quantity)
  <1>1. WorkTyped /\ Road(r) /\ WorkIs(r) /\ StockInv
    BY DEF FullInv, StockInv, Roads, DocumentInv
  <1>2. /\ pc[r] = "locking" /\ lines[r] # <<>>
        /\ plan' = [plan EXCEPT ![r] = @ \o got.moves]
        /\ short' = [short EXCEPT ![r] = @ \/ got.remaining > 0]
        /\ lines' = [lines EXCEPT ![r] = Tail(@)]
        /\ UNCHANGED <<holder, pc, job, done, pending>>
    BY DEF AllocateLine
  <1>3. job[r].kind = "sale" /\ done[r] = 0 /\ job[r].cart \in Carts
    BY <1>1, <1>2, JobOfIs DEF Road
  <1>4. line \in CartLine /\ lines[r] \in Seq(CartLine) /\ plan[r] \in Seq(Movement)
    BY <1>1, <1>2, HeadTailProperties DEF WorkTyped
  <1>5. got.remaining \in Nat /\ got.moves \in Seq(Movement)
    BY <1>1, <1>4, AllocateTyped
  <1>6. /\ OncePerBatch(got.moves)
        /\ OfProduct(got.moves, line.product)
        /\ got.remaining = 0 => Units(ToSet(got.moves)) = -line.quantity
    BY <1>1, <1>4, AllocatedOnce
  <1> HIDE DEF got
  <1>7. /\ plan'[r] = plan[r] \o got.moves
        /\ lines'[r] = Tail(lines[r])
        /\ short'[r] <=> (short[r] \/ got.remaining > 0)
        /\ short[r] \in BOOLEAN /\ short'[r] \in BOOLEAN
    BY <1>1, <1>2 DEF WorkTyped
  <1>8. ~short'[r] => Units(ToSet(got.moves)) = -line.quantity
    BY <1>5, <1>6, <1>7
  <1>9. FillsCart(job[r].cart, lines[r], plan[r], short[r]) /\ OncePerBatch(plan[r])
    BY <1>1, <1>3 DEF WorkIs, CartIsFilled
  <1>10. /\ OncePerBatch(plan[r] \o got.moves)
         /\ FillsCart(job[r].cart, Tail(lines[r]), plan[r] \o got.moves, short'[r])
    <2>1. short[r] => short'[r]
      BY <1>7
    <2> QED
      BY <1>2, <1>3, <1>4, <1>5, <1>6, <1>7, <1>8, <1>9, <2>1, FillsMore
  <1>11. OncePerBatch(plan[r])' /\ CartIsFilled(r)'
    <2>1. OncePerBatch(plan'[r])
      BY <1>7, <1>10
    <2>2. FillsCart(job'[r].cart, lines'[r], plan'[r], short'[r])
      BY <1>2, <1>7, <1>10
    <2> QED
      BY <1>2, <2>1, <2>2 DEF CartIsFilled, OncePerBatch, FillsCart
  <1>12. RowsOfWork(r)'
    BY <1>1, <1>2, <1>3, RowsGoOn DEF WorkIs, Answered
  <1>13. VoidIsOfSale(r)' /\ ProductsAreHeld(r)' /\ ReceiptIsOfDraft(r)'
    BY <1>2, <1>3, OnlyReceiptsPrice DEF StockInv, VoidIsOfSale
  <1> QED
    BY <1>11, <1>12, <1>13 DEF WorkIs

\* The statements of a sale that plan nothing.
LEMMA SaleGoesOnWork ==
  ASSUME FullInv, NEW r \in Request, StockInv',
         LockSettings(r) \/ ReadNumber(r) \/ LockNextBatch(r) \/ StartMoving(r)
  PROVE  WorkIs(r)'
  <1>0. pc \in [Request -> Labels]
    BY DEF FullInv, IInv, ControlOK
  <1>1. WorkTyped /\ Road(r) /\ WorkIs(r)
    BY DEF FullInv, StockInv, Roads, DocumentInv
  <1>2. /\ UNCHANGED <<job, lines, short, plan, done, pending>>
        /\ pc[r] \in {"settings", "numbering", "locking"}
        /\ pc'[r] \in {"numbering", "locking", "moving"}
        /\ pc'[r] = "moving" => ~short[r] /\ lines[r] = <<>>
    BY <1>0 DEF LockSettings, ReadNumber, LockNextBatch, StartMoving, AllAllocated, Goto, work
  <1>3. job[r].kind = "sale"
    BY <1>1, <1>2 DEF Road
  <1>4. RowsOfWork(r)'
    BY <1>1, <1>2, RowsGoOn DEF WorkIs, Answered
  <1>5. OncePerBatch(plan[r])' /\ CartIsFilled(r)'
    BY <1>1, <1>2, <1>3 DEF WorkIs, CartIsFilled, OncePerBatch
  <1>6. VoidIsOfSale(r)' /\ ProductsAreHeld(r)' /\ ReceiptIsOfDraft(r)'
    BY <1>2, <1>3, OnlyReceiptsPrice DEF StockInv, VoidIsOfSale
  <1> QED
    BY <1>4, <1>5, <1>6 DEF WorkIs

LEMMA AllocationsOnce ==
  ASSUME NEW moves \in Seq(Movement), OncePerBatch(moves)
  PROVE  OncePerBatch(Allocations(moves))
  BY DEF OncePerBatch, Allocations, Move

LEMMA OpenSaleWork ==
  ASSUME FullInv, NEW r \in Request, StockInv', OpenSale(r)
  PROVE  WorkIs(r)'
  <1> DEFINE s == job[r].sale
  <1>0. pc \in [Request -> Labels] /\ holder \in [Resources -> Request \cup {Free}]
    BY DEF FullInv, IInv, ControlOK
  <1>1. WorkTyped /\ Road(r) /\ WorkIs(r)
    BY DEF FullInv, StockInv, Roads, DocumentInv
  <1>2. /\ pc[r] = "document" /\ job[r].kind = "void" /\ Acquire(r, s)
        /\ sales[s].status # "VOID"
        /\ plan'[r] = sales[s].allocations /\ pc'[r] = "moving"
        /\ UNCHANGED <<sales, job, done, pending>>
    BY <1>0, <1>1 DEF OpenSale, Goto, WorkTyped, tables
  <1>3. s \in Request /\ s \in Resources /\ done[r] = 0
    BY <1>1, <1>2, JobOfIs DEF Road, Resources
  <1>4. sales[s].status = "COMPLETED"
    <2>1. sales[s].status # "ABSENT"
      BY <1>2, <1>3 DEF FullInv, IInv, SalesComeFirst
    <2> QED
      BY <1>2, <1>3, <2>1 DEF FullInv, StockInv, TablesTyped
  <1>5. sales[s].allocations = Allocations(plan[s])
    BY <1>3, <1>4 DEF FullInv, DocumentInv, SalesAreDone
  <1>6. OncePerBatch(plan[r])'
    <2>1. OncePerBatch(plan[s]) /\ plan[s] \in Seq(Movement)
      BY <1>1, <1>3 DEF FullInv, DocumentInv, WorkIs, WorkTyped
    <2>2. OncePerBatch(plan'[r])
      BY <1>2, <1>5, <2>1, AllocationsOnce
    <2> QED
      BY <2>2 DEF OncePerBatch
  <1>7. RowsOfWork(r)'
    BY <1>1, <1>2, <1>3, RowsGoOn DEF WorkIs, Answered
  <1>8. CartIsFilled(r)'
    BY <1>2 DEF CartIsFilled
  <1>9. VoidIsOfSale(r)'
    BY <1>0, <1>2, <1>3, <1>4, HoldersGrow DEF VoidIsOfSale
  <1>10. ProductsAreHeld(r)' /\ ReceiptIsOfDraft(r)'
    BY <1>2, OnlyReceiptsPrice DEF StockInv
  <1> QED
    BY <1>6, <1>7, <1>8, <1>9, <1>10 DEF WorkIs


--------------------------------------------------------------------------------
\* A request other than a sale or void has its purchase, and its products, in hand.
LEMMA OpenPurchaseWork ==
  ASSUME FullInv, NEW r \in Request, StockInv', OpenPurchase(r)
  PROVE  WorkIs(r)'
  <1> DEFINE d == job[r].purchase
  <1>0. pc \in [Request -> Labels] /\ holder \in [Resources -> Request \cup {Free}]
    BY DEF FullInv, IInv, ControlOK
  <1>1. WorkTyped /\ Road(r) /\ WorkIs(r)
    BY DEF FullInv, StockInv, Roads, DocumentInv
  <1>2. /\ pc[r] = "document" /\ job[r].kind = "receive" /\ Acquire(r, d)
        /\ purchases[d] = "DRAFT"
        /\ plan'[r] = PurchaseLines[d] /\ pc'[r] = "resolving"
        /\ UNCHANGED <<purchases, job, done, pending>>
    BY <1>0, <1>1 DEF OpenPurchase, Goto, WorkTyped, tables
  <1>3. d \in Purchase /\ d \in Resources /\ done[r] = 0
    BY <1>1, <1>2, JobOfIs DEF Road, Resources
  <1>4. OncePerBatch(plan[r])'
    <2>1. PurchaseLines[d] \in Deliveries
      BY <1>3, JobsAssumption
    <2>2. OncePerBatch(PurchaseLines[d])
      BY <2>1 DEF Deliveries, OncePerBatch
    <2> QED
      BY <1>2, <2>2 DEF OncePerBatch
  <1>5. RowsOfWork(r)'
    BY <1>1, <1>2, <1>3, RowsGoOn DEF WorkIs, Answered
  <1>6. CartIsFilled(r)' /\ VoidIsOfSale(r)'
    BY <1>2 DEF CartIsFilled, VoidIsOfSale
  <1>7. ReceiptIsOfDraft(r)'
    BY <1>0, <1>2, <1>3, HoldersGrow DEF ReceiptIsOfDraft
  <1>8. ProductsAreHeld(r)'
    <2>1. Priced(r) = 0 /\ Priced(r)' = 0
      BY <1>2, <1>3 DEF Priced
    <2>2. \A p \in Product : holder[p] # r
      BY <1>1, <2>1 DEF WorkIs, ProductsAreHeld
    <2>3. \A p \in Product : p \in Resources /\ p # d
      BY <1>3, TablesAreDisjoint DEF Resources
    <2>4. \A p \in Product : holder'[p] # r
      BY <1>0, <1>2, <2>2, <2>3, HoldersGrow
    <2> QED
      BY <2>1, <2>4 DEF ProductsAreHeld
  <1> QED
    BY <1>4, <1>5, <1>6, <1>7, <1>8 DEF WorkIs

\* A lock on a batch takes or frees no product and no document.
LEMMA BatchLockWork ==
  ASSUME FullInv, NEW r \in Request, NEW b \in Batch, Acquire(r, b) \/ holder' = holder,
         NEW p \in Product \cup Purchase \cup Request
  PROVE  holder'[p] = r <=> holder[p] = r
  <1>1. p \in Resources /\ p # b /\ holder \in [Resources -> Request \cup {Free}]
    BY TablesAreDisjoint DEF FullInv, IInv, ControlOK, Resources
  <1> QED
    BY <1>1, HoldersGrow

\* The steps before a movement is written.
LEMMA StockGoesOnWork ==
  ASSUME FullInv, NEW r \in Request, StockInv', ResolveBatch(r) \/ InsertBatch(r)
  PROVE  WorkIs(r)'
  <1>0. pc \in [Request -> Labels]
    BY DEF FullInv, IInv, ControlOK
  <1>1. WorkTyped /\ Road(r) /\ WorkIs(r)
    BY DEF FullInv, StockInv, Roads, DocumentInv
  <1>2. /\ UNCHANGED <<job, lines, short, plan, done, pending, purchases>>
        /\ pc[r] \in {"resolving", "creating"}
        /\ pc'[r] \in {"creating", "moving"}
        /\ Acquire(r, Planned(r).batch) \/ holder' = holder
    BY <1>0 DEF ResolveBatch, InsertBatch, Goto, work, tables
  <1>3. job[r].kind \in {"receive", "adjust"} /\ Planned(r).batch \in Batch
    <2>1. done[r] + 1 \in 1..Len(plan[r]) /\ plan[r] \in Seq(Movement)
      BY <1>1, <1>2 DEF Road, WorkTyped
    <2>2. Planned(r) \in Movement
      BY <2>1 DEF Planned
    <2> QED
      BY <1>1, <1>2, <2>2 DEF Road, Movement
  <1>4. \A p \in Product \cup Purchase : holder'[p] = r <=> holder[p] = r
    BY <1>2, <1>3, BatchLockWork
  <1>5. RowsOfWork(r)'
    BY <1>1, <1>2, RowsGoOn DEF WorkIs, Answered
  <1>6. OncePerBatch(plan[r])' /\ CartIsFilled(r)' /\ VoidIsOfSale(r)'
    BY <1>1, <1>2, <1>3 DEF WorkIs, CartIsFilled, VoidIsOfSale, OncePerBatch
  <1>7. ReceiptIsOfDraft(r)'
    <2>1. job[r].kind = "receive" => job[r].purchase \in Purchase
      BY <1>1, JobOfIs
    <2> QED
      BY <1>1, <1>2, <1>4, <2>1 DEF WorkIs, ReceiptIsOfDraft
  <1>8. ProductsAreHeld(r)'
    <2>1. Priced(r)' = Priced(r) /\ Underway(r) /\ Underway(r)'
      BY <1>2 DEF Priced, Underway, Answered
    <2>2. \A i \in 1..Priced(r) : ProductOf[plan[r][i].batch] \in Product
      BY <1>1, ProductsOfWork
    <2> QED
      BY <1>1, <1>2, <1>4, <2>1, <2>2 DEF WorkIs, ProductsAreHeld
  <1> QED
    BY <1>5, <1>6, <1>7, <1>8 DEF WorkIs

LEMMA UpdateCostWork ==
  ASSUME FullInv, NEW r \in Request, StockInv', UpdateCost(r)
  PROVE  WorkIs(r)'
  <1> DEFINE x == LastProduct(r)
  <1>0. pc \in [Request -> Labels] /\ holder \in [Resources -> Request \cup {Free}]
    BY DEF FullInv, IInv, ControlOK
  <1>1. WorkTyped /\ Road(r) /\ WorkIs(r)
    BY DEF FullInv, StockInv, Roads, DocumentInv
  <1>2. /\ UNCHANGED <<job, lines, short, plan, done, pending, purchases>>
        /\ pc[r] = "pricing" /\ pc'[r] \in {"resolving", "moving"}
        /\ Acquire(r, x)
    BY <1>0 DEF UpdateCost, Goto, work, tables
  <1>3. /\ job[r].kind = "receive" /\ done[r] \in Nat /\ done[r] > 0
        /\ Priced(r) = done[r] - 1 /\ Priced(r)' = done[r]
        /\ job[r].purchase \in Purchase
    BY <1>1, <1>2, JobOfIs DEF Road, Priced, WorkTyped
  <1>4. \A i \in 1..done[r] : ProductOf[plan[r][i].batch] \in Product
    BY <1>1, ProductsOfWork
  <1>5. /\ x = ProductOf[plan[r][done[r]].batch] /\ x \in Product
        /\ Product \cup Purchase \subseteq Resources
    BY <1>3, <1>4 DEF LastProduct, Resources
  <1>6. /\ holder'[x] = r
        /\ \A y \in Product \cup Purchase : holder[y] = r => holder'[y] = r
        /\ \A y \in Product : holder'[y] = r => holder[y] = r \/ y = x
    BY <1>0, <1>2, <1>5, HoldersGrow
  <1>7. RowsOfWork(r)'
    BY <1>1, <1>2, RowsGoOn DEF WorkIs, Answered
  <1>8. OncePerBatch(plan[r])' /\ CartIsFilled(r)' /\ VoidIsOfSale(r)'
    BY <1>1, <1>2, <1>3 DEF WorkIs, CartIsFilled, VoidIsOfSale, OncePerBatch
  <1>9. ReceiptIsOfDraft(r)'
    BY <1>1, <1>2, <1>3, <1>6 DEF WorkIs, ReceiptIsOfDraft
  <1>10. ProductsAreHeld(r)'
    <2>1. \A i \in 1..done[r] : i \in 1..(done[r] - 1) \/ i = done[r]
      BY <1>3
    <2>2. \A i \in 1..(done[r] - 1) : i \in 1..done[r]
      BY <1>3
    <2>3. done[r] \in 1..done[r]
      BY <1>3
    <2>4. ASSUME NEW p \in Product, holder'[p] = r
          PROVE  \E i \in 1..done[r] : ProductOf[plan[r][i].batch] = p
      BY <1>1, <1>3, <1>5, <1>6, <2>2, <2>3, <2>4 DEF WorkIs, ProductsAreHeld
    <2>5. ASSUME NEW i \in 1..done[r] PROVE holder'[ProductOf[plan[r][i].batch]] = r
      <3>1. CASE i = done[r]
        BY <1>5, <1>6, <3>1
      <3>2. CASE i \in 1..(done[r] - 1)
        <4>1. Underway(r)
          BY <1>2 DEF Underway, Answered
        <4> QED
          BY <1>1, <1>3, <1>4, <1>6, <3>2, <4>1 DEF WorkIs, ProductsAreHeld
      <3> QED
        BY <2>1, <3>1, <3>2
    <2> QED
      BY <1>2, <1>3, <2>4, <2>5 DEF ProductsAreHeld
  <1> QED
    BY <1>7, <1>8, <1>9, <1>10 DEF WorkIs

LEMMA GoesAheadWork ==
  ASSUME FullInv, NEW r \in Request, StockInv', GoesAhead(r)
  PROVE  WorkIs(r)'
  BY AllocateLineWork, SaleGoesOnWork, OpenSaleWork, OpenPurchaseWork, StockGoesOnWork,
     UpdateCostWork DEF GoesAhead


--------------------------------------------------------------------------------
LEMMA WriteRowWork ==
  ASSUME FullInv, NEW r \in Request, StockInv', WriteRow(r)
  PROVE  WorkIs(r)'
  <1> DEFINE b == Planned(r).batch
  <1>0. pc \in [Request -> Labels] /\ holder \in [Resources -> Request \cup {Free}]
    BY DEF FullInv, IInv, ControlOK
  <1>1. WorkTyped /\ Road(r) /\ WorkIs(r)
    BY DEF FullInv, StockInv, Roads, DocumentInv
  <1>2. /\ UNCHANGED <<job, lines, short, plan, sales, purchases>>
        /\ pc[r] = "moving" /\ done[r] < Len(plan[r]) /\ Acquire(r, b)
        /\ pc'[r] = IF job[r].kind = "receive" THEN "pricing" ELSE "moving"
        /\ done'[r] = done[r] + 1
        /\ pending'[r] = pending[r] \cup {RowOf(r, Planned(r))}
    BY <1>0, <1>1 DEF WriteRow, Goto, work, tables, WorkTyped
  <1>3. /\ done[r] \in Nat /\ Len(plan[r]) \in Nat /\ done[r] + 1 \in 1..Len(plan[r])
        /\ b \in Batch
    <2>1. done[r] \in Nat /\ Len(plan[r]) \in Nat /\ DOMAIN plan[r] = 1..Len(plan[r])
      BY <1>1, LenProperties DEF WorkTyped
    <2>2. done[r] + 1 \in 1..Len(plan[r])
      BY <1>2, <2>1
    <2>3. Planned(r) \in Movement
      BY <1>1, <2>2, ProductsOfWork DEF Planned
    <2> QED
      BY <2>1, <2>2, <2>3 DEF Movement
  <1>4. \A p \in Product \cup Purchase \cup Request : holder'[p] = r <=> holder[p] = r
    BY <1>2, <1>3, BatchLockWork
  <1>5. RowsOfWork(r)'
    <2>1. \A move : RowOf(r, move)' = RowOf(r, move)
      BY <1>2 DEF RowOf, Document, MovementType
    <2>2. 1..done'[r] = (1..done[r]) \cup {done[r] + 1}
      BY <1>2, <1>3
    <2>3. Written(r)' = {RowOf(r, plan[r][i]) : i \in 1..done'[r]}
      BY <1>2, <2>1 DEF Written
    <2>4. Written(r)' = Written(r) \cup {RowOf(r, Planned(r))}
      BY <2>2, <2>3 DEF Written, Planned
    <2>5. pc[r] \notin Answered /\ pc'[r] \notin Answered
      BY <1>2 DEF Answered
    <2>6. pending'[r] = Written(r)'
      BY <1>1, <1>2, <2>4, <2>5 DEF WorkIs, RowsOfWork
    <2> QED
      BY <2>5, <2>6 DEF RowsOfWork, Answered
  <1>6. OncePerBatch(plan[r])' /\ CartIsFilled(r)'
    BY <1>1, <1>2 DEF WorkIs, CartIsFilled, OncePerBatch
  <1>7. VoidIsOfSale(r)'
    <2>1. job[r].kind = "void" => job[r].sale \in Request
      BY <1>1, JobOfIs
    <2> QED
      BY <1>1, <1>2, <1>4, <2>1 DEF WorkIs, VoidIsOfSale
  <1>8. ReceiptIsOfDraft(r)'
    <2>1. job[r].kind = "receive" => job[r].purchase \in Purchase
      BY <1>1, JobOfIs
    <2> QED
      BY <1>1, <1>2, <1>4, <2>1 DEF WorkIs, ReceiptIsOfDraft
  <1>9. ProductsAreHeld(r)'
    <2>1. CASE job[r].kind # "receive"
      BY <1>2, <2>1, OnlyReceiptsPrice DEF StockInv
    <2>2. CASE job[r].kind = "receive"
      <3>1. Priced(r)' = Priced(r) /\ Underway(r)
        BY <1>2, <1>3, <2>2 DEF Priced, Underway, Answered
      <3>2. \A i \in 1..Priced(r) : ProductOf[plan[r][i].batch] \in Product
        BY <1>1, ProductsOfWork
      <3> QED
        BY <1>1, <1>2, <1>4, <2>2, <3>1, <3>2 DEF WorkIs, ProductsAreHeld
    <2> QED
      BY <2>1, <2>2
  <1> QED
    BY <1>5, <1>6, <1>7, <1>8, <1>9 DEF WorkIs

(***************************************************************************)
(* The commit: the request's rows become the ledger's, and its document    *)
(* that of nobody else's work.                                             *)
(***************************************************************************)
Commits(r) ==
  /\ pc[r] = "moving" /\ pc'[r] = "done" /\ done[r] = Len(plan[r])
  /\ pending[r] = Written(r) /\ pending'[r] = {}
  /\ ledger' = ledger \cup Written(r)
  /\ UNCHANGED <<job, lines, short, plan, done>>
  /\ Underway(r)
  /\ sales[r].status = "ABSENT"

LEMMA CommitIs ==
  ASSUME FullInv, NEW r \in Request, Commit(r)
  PROVE  /\ Commits(r)
         /\ purchases' = IF job[r].kind = "receive"
                         THEN [purchases EXCEPT ![job[r].purchase] = "RECEIVED"]
                         ELSE purchases
         /\ \A p \in Product : cost'[p] = IF holder[p] = r THEN Document(r) ELSE cost[p]
         /\ \A x \in Resources : holder'[x] # r
  <1>0. pc \in [Request -> Labels] /\ holder \in [Resources -> Request \cup {Free}]
    BY DEF FullInv, IInv, ControlOK
  <1>1. WorkTyped /\ Road(r) /\ WorkIs(r)
    BY DEF FullInv, StockInv, Roads, DocumentInv
  <1>2. pc[r] = "moving" /\ done[r] = Len(plan[r]) /\ End(r, "done")
    BY DEF Commit
  <1>3. Underway(r) /\ pc[r] \notin Answered
    BY <1>2 DEF Underway, Answered
  <1>4. pending[r] = Written(r)
    BY <1>1, <1>3 DEF WorkIs, RowsOfWork
  <1>5. pc'[r] = "done" /\ pending'[r] = {} /\ \A x \in Resources : holder'[x] # r
    <2>1. pc'[r] = "done" /\ pending'[r] = {}
      BY <1>0, <1>1, <1>2 DEF End, Goto, WorkTyped
    <2> QED
      BY <1>0, <1>2, <2>1, LocksFall, NobodyAssumption
  <1>6. sales[r].status = "ABSENT"
    BY <1>3 DEF FullInv, IInv, SalesComeFirst
  <1>7. ledger' = ledger \cup pending[r] /\ UNCHANGED <<job, lines, short, plan, done>>
    BY DEF Commit, work
  <1>8. Commits(r)
    BY <1>2, <1>3, <1>4, <1>5, <1>6, <1>7 DEF Commits
  <1> QED
    BY <1>5, <1>8 DEF Commit

LEMMA CommitWork ==
  ASSUME FullInv, NEW r \in Request, Commit(r)
  PROVE  WorkIs(r)'
  <1>1. WorkTyped /\ Road(r) /\ WorkIs(r) /\ TablesTyped /\ IInv
    BY DEF FullInv, StockInv, Roads, DocumentInv
  <1>2. Commits(r)
    BY CommitIs
  <1>3. RowsOfWork(r)'
    <2>1. Written(r)' = Written(r)
      BY <1>2, WrittenStays DEF Commits
    <2> QED
      BY <1>2, <2>1 DEF Commits, RowsOfWork, Answered
  <1>4. OncePerBatch(plan[r])' /\ CartIsFilled(r)'
    BY <1>1, <1>2 DEF Commits, WorkIs, OncePerBatch, CartIsFilled
  <1>5. VoidIsOfSale(r)'
    BY <1>1, <1>2, CommitsSales DEF Commits, WorkIs, VoidIsOfSale
  <1>6. ReceiptIsOfDraft(r)'
    <2>1. job[r].kind = "receive" =>
            job[r].purchase \in Purchase /\ purchases'[job[r].purchase] = "RECEIVED"
      BY <1>1, CommitIs, JobOfIs DEF TablesTyped
    <2> QED
      BY <1>1, <1>2, <2>1 DEF Commits, WorkIs, ReceiptIsOfDraft
  <1>7. ProductsAreHeld(r)'
    <2>1. \A p \in Product : holder'[p] # r
      BY CommitIs DEF Resources
    <2> QED
      BY <1>2, <2>1 DEF Commits, ProductsAreHeld, Underway, Answered
  <1> QED
    BY <1>3, <1>4, <1>5, <1>6, <1>7 DEF WorkIs

\* No other request works on the document this one commits.
LEMMA CommitOthersWork ==
  ASSUME FullInv, NEW r \in Request, Commit(r), NEW q \in Request, q # r
  PROVE  WorkIs(q)'
  <1>1. WorkTyped /\ Road(q) /\ WorkIs(r) /\ WorkIs(q) /\ TablesTyped /\ IInv
    BY DEF FullInv, StockInv, Roads, DocumentInv
  <1>2. Commits(r)
    BY CommitIs
  <1>3. Untouched(q)
    BY <1>1, OthersUntouched
  <1>4. ASSUME job[q].kind = "void", pc[q] \in {"moving", "done"}
        PROVE  sales'[job[q].sale] = sales[job[q].sale]
    <2>1. job[q].sale \in Request
      BY <1>1, <1>4, JobOfIs
    <2>2. job[q].sale # r
      BY <1>2, <1>4, <2>1 DEF FullInv, IInv, SalesComeFirst, Commits
    <2>3. job[r].kind = "void" => job[q].sale # job[r].sale
      BY <1>1, <1>2, <1>4 DEF Commits, WorkIs, VoidIsOfSale
    <2> QED
      BY <1>1, <2>1, <2>2, <2>3, CommitsSales
  <1>5. ASSUME job[q].kind = "receive",
               pc[q] \in {"resolving", "creating", "moving", "pricing", "done"}
        PROVE  purchases'[job[q].purchase] = purchases[job[q].purchase]
    <2>1. job[r].kind = "receive" => job[q].purchase # job[r].purchase
      BY <1>1, <1>2, <1>5 DEF Commits, WorkIs, ReceiptIsOfDraft
    <2>2. job[q].purchase \in Purchase
      BY <1>1, <1>5, JobOfIs
    <2> QED
      BY <1>1, <2>1, <2>2, CommitIs DEF TablesTyped
  <1>6. ledger \subseteq ledger'
    BY <1>2 DEF Commits
  <1> QED
    BY <1>1, <1>3, <1>4, <1>5, <1>6, UntouchedWorkIs


--------------------------------------------------------------------------------
LEMMA CommitDocuments ==
  ASSUME FullInv, NEW r \in Request, Commit(r)
  PROVE  LedgerIsWritten' /\ SalesAreDone' /\ PurchasesAreDone' /\ CostsArePaid'
  <1>1. WorkTyped /\ Road(r) /\ WorkIs(r) /\ TablesTyped /\ IInv /\ LocksAreFew
    BY DEF FullInv, StockInv, Roads, DocumentInv
  <1>2. Commits(r) /\ pc'[r] = "done" /\ pc[r] = "moving" /\ sales[r].status = "ABSENT"
    BY CommitIs DEF Commits
  <1>3. \A q \in Request : job'[q] = job[q] /\ plan'[q] = plan[q] /\ done'[q] = done[q]
    BY <1>2 DEF Commits
  <1>4. \A q \in Request \ {r} : pc'[q] = pc[q]
    BY <1>1, OthersUntouched DEF Untouched
  <1>5. LedgerIsWritten'
    <2>1. \A q \in Request : Written(q)' = Written(q)
      BY <1>3, WrittenStays
    <2>2. ledger' = ledger \cup Written(r)
      BY <1>2 DEF Commits
    <2>3. OpeningRows' = OpeningRows
      BY DEF OpeningRows
    <2>4. ASSUME NEW row \in ledger'
          PROVE  row \in OpeningRows \/ \E q \in Request : pc'[q] = "done" /\ row \in Written(q)
      <3>1. CASE row \in Written(r)
        BY <1>2, <3>1
      <3>2. CASE row \in ledger
        BY <1>2, <1>4, <3>2 DEF FullInv, DocumentInv, LedgerIsWritten
      <3> QED
        BY <2>2, <3>1, <3>2
    <2>5. OpeningRows \subseteq ledger'
      BY <2>2 DEF FullInv, DocumentInv, LedgerIsWritten
    <2> QED
      BY <2>1, <2>3, <2>4, <2>5 DEF LedgerIsWritten
  <1>6. ASSUME NEW q \in Request, NEW x
        PROVE  /\ Voided(q, x)' <=> \/ Voided(q, x)
                                    \/ q = r /\ job[r].kind = "void" /\ job[r].sale = x
               /\ Received(q, x)' <=> \/ Received(q, x)
                                      \/ q = r /\ job[r].kind = "receive" /\ job[r].purchase = x
    BY <1>2, <1>3, <1>4 DEF Voided, Received
  <1>7. ASSUME NEW t \in Request
        PROVE  /\ sales'[t].status # "ABSENT" <=> pc'[t] = "done" /\ job'[t].kind = "sale"
               /\ sales'[t].status # "ABSENT" => sales'[t].allocations = Allocations(plan'[t])
               /\ sales'[t].status = "ABSENT" => sales'[t].allocations = <<>>
               /\ sales'[t].status = "VOID" => \E q \in Request : Voided(q, t)'
               /\ \A q, u \in Request : Voided(q, t)' /\ Voided(u, t)' => q = u
    <2>1. /\ sales[t].status # "ABSENT" <=> pc[t] = "done" /\ job[t].kind = "sale"
          /\ sales[t].status # "ABSENT" => sales[t].allocations = Allocations(plan[t])
          /\ sales[t].status = "ABSENT" => sales[t].allocations = <<>>
          /\ sales[t].status = "VOID" => \E q \in Request : Voided(q, t)
          /\ \A q, u \in Request : Voided(q, t) /\ Voided(u, t) => q = u
      BY DEF FullInv, DocumentInv, SalesAreDone
    <2>2. CASE t = r /\ job[r].kind = "sale"
      <3>1. sales'[r].status = "COMPLETED" /\ sales'[r].allocations = Allocations(plan[r])
        <4>1. sales'[r] = [status |-> "COMPLETED", number |-> number[r],
                           allocations |-> [i \in DOMAIN plan[r] |->
                                              Move(plan[r][i].batch, -plan[r][i].quantity)]]
          BY <1>1, <2>2, CommitsSales
        <4> QED
          BY <4>1 DEF Allocations
      <3> QED
        BY <1>2, <1>3, <1>6, <2>1, <2>2, <3>1
    <2>3. CASE job[r].kind = "void" /\ t = job[r].sale
      <3>1. /\ sales'[t].status = "VOID" /\ sales'[t].allocations = sales[t].allocations
            /\ sales[t].status = "COMPLETED"
        BY <1>1, <1>2, <2>3, CommitsSales DEF WorkIs, VoidIsOfSale
      <3>2. t # r
        BY <1>2, <3>1
      <3>3. ASSUME NEW q \in Request, Voided(q, t) PROVE FALSE
        <4>1. WorkIs(q)
          BY DEF FullInv, DocumentInv
        <4> QED
          BY <3>1, <3>3, <4>1 DEF Voided, WorkIs, VoidIsOfSale
      <3>4. \A q \in Request : Voided(q, t)' <=> q = r
        BY <1>6, <2>3, <3>3
      <3> QED
        BY <1>3, <1>4, <2>1, <3>1, <3>2, <3>4
    <2>4. CASE /\ ~(t = r /\ job[r].kind = "sale")
               /\ ~(job[r].kind = "void" /\ t = job[r].sale)
      <3>1. sales'[t] = sales[t]
        BY <1>1, <2>4, CommitsSales
      <3>2. \A q \in Request : Voided(q, t)' <=> Voided(q, t)
        BY <1>6, <2>4
      <3>3. pc'[t] = "done" /\ job'[t].kind = "sale" <=> pc[t] = "done" /\ job[t].kind = "sale"
        BY <1>2, <1>3, <1>4, <2>4
      <3> QED
        BY <1>3, <2>1, <3>1, <3>2, <3>3
    <2> QED
      BY <2>2, <2>3, <2>4
  <1>8. ASSUME NEW p \in Purchase
        PROVE  /\ purchases'[p] = "RECEIVED" => \E q \in Request : Received(q, p)'
               /\ \A q, u \in Request : Received(q, p)' /\ Received(u, p)' => q = u
    <2>1. /\ purchases[p] = "RECEIVED" => \E q \in Request : Received(q, p)
          /\ \A q, u \in Request : Received(q, p) /\ Received(u, p) => q = u
      BY DEF FullInv, DocumentInv, PurchasesAreDone
    <2>2. CASE job[r].kind = "receive" /\ p = job[r].purchase
      <3>1. purchases[p] = "DRAFT"
        BY <1>1, <1>2, <2>2 DEF WorkIs, ReceiptIsOfDraft
      <3>2. ASSUME NEW q \in Request, Received(q, p) PROVE FALSE
        <4>1. WorkIs(q)
          BY DEF FullInv, DocumentInv
        <4> QED
          BY <3>1, <3>2, <4>1 DEF Received, WorkIs, ReceiptIsOfDraft
      <3>3. \A q \in Request : Received(q, p)' <=> q = r
        BY <1>6, <2>2, <3>2
      <3> QED
        BY <3>3
    <2>3. CASE ~(job[r].kind = "receive" /\ p = job[r].purchase)
      <3>1. purchases'[p] = purchases[p]
        BY <1>1, <2>3, CommitIs DEF TablesTyped
      <3>2. \A q \in Request : Received(q, p)' <=> Received(q, p)
        BY <1>6, <2>3
      <3> QED
        BY <2>1, <3>1, <3>2
    <2> QED
      BY <2>2, <2>3
  <1>9. CostsArePaid'
    <2>1. CASE job[r].kind # "receive"
      <3>1. purchases' = purchases
        BY <2>1, CommitIs
      <3>2. \A p \in Product : cost'[p] = cost[p]
        BY <1>1, <2>1, CommitIs DEF LocksAreFew
      <3> QED
        BY <3>1, <3>2 DEF FullInv, DocumentInv, CostsArePaid, Pays
    <2>2. CASE job[r].kind = "receive"
      <3>9. job[r].purchase \in Purchase
        BY <1>1, <2>2, JobOfIs
      <3>10. PICK d \in Purchase : d = job[r].purchase
        BY <3>9
      <3>1. /\ purchases[d] = "DRAFT" /\ plan[r] = PurchaseLines[d]
            /\ Document(r) = d
        BY <1>1, <1>2, <2>2, <3>10 DEF WorkIs, ReceiptIsOfDraft, Document
      <3>2. purchases' = [purchases EXCEPT ![d] = "RECEIVED"]
        BY <2>2, <3>10, CommitIs
      <3>3. /\ Priced(r) = Len(plan[r]) /\ Underway(r)
            /\ DOMAIN PurchaseLines[d] = 1..Len(plan[r])
        <4>1. plan[r] \in Seq(Movement)
          BY <1>1 DEF WorkTyped
        <4> QED
          BY <1>2, <3>1, <4>1, LenProperties DEF Priced, Commits
      <3>4. \A p \in Product :
              holder[p] = r <=> \E i \in DOMAIN PurchaseLines[d] :
                                  ProductOf[PurchaseLines[d][i].batch] = p
        BY <1>1, <2>2, <3>1, <3>3 DEF WorkIs, ProductsAreHeld
      <3>5. \A q \in Purchase, p \in Product :
              Pays(q, p)' <=> Pays(q, p) \/ (q = d /\ holder[p] = r)
        BY <1>1, <3>1, <3>2, <3>4 DEF Pays, TablesTyped
      <3>6. \A p \in Product : cost'[p] = IF holder[p] = r THEN d ELSE cost[p]
        BY <3>1, CommitIs
      <3>7. ASSUME NEW p \in Product, \E q \in Purchase : Pays(q, p)'
            PROVE  cost'[p] \in Purchase /\ Pays(cost[p], p)'
        <4>1. CASE holder[p] = r
          <5>1. cost'[p] = d
            BY <3>6, <4>1
          <5>2. Pays(d, p)'
            BY <3>1, <3>5, <4>1
          <5> QED
            BY <3>1, <5>1, <5>2 DEF Pays
        <4>2. CASE holder[p] # r
          <5>1. cost'[p] = cost[p] /\ cost[p] \in Purchase /\ Pays(cost[p], p)
            BY <3>5, <3>6, <3>7, <4>2 DEF FullInv, DocumentInv, CostsArePaid
          <5>2. Pays(cost[p], p)'
            <6>1. purchases'[cost[p]] = "RECEIVED"
              BY <1>1, <3>2, <5>1 DEF Pays, TablesTyped
            <6> QED
              BY <5>1, <6>1 DEF Pays
          <5> QED
            BY <5>1, <5>2
        <4> QED
          BY <4>1, <4>2
      <3>8. ASSUME NEW p \in Product, \A q \in Purchase : ~Pays(q, p)'
            PROVE  cost'[p] = Opening
        <4>1. holder[p] # r
          BY <3>1, <3>5, <3>8
        <4> QED
          BY <3>5, <3>6, <3>8, <4>1 DEF FullInv, DocumentInv, CostsArePaid
      <3> QED
        BY <3>7, <3>8 DEF CostsArePaid
    <2> QED
      BY <2>1, <2>2
  <1> QED
    BY <1>5, <1>7, <1>8, <1>9 DEF SalesAreDone, PurchasesAreDone


--------------------------------------------------------------------------------
LEMMA QuietSteps ==
  ASSUME FullInv, NEW r \in Request, Begins(r) \/ Abandons(r) \/ GoesAhead(r) \/ WriteRow(r)
  PROVE  /\ pc[r] # "done" /\ pc'[r] # "done"
         /\ UNCHANGED <<ledger, batches, sales, purchases, cost>>
  <1>0. pc \in [Request -> Labels]
    BY DEF FullInv, IInv, ControlOK
  <1>1. CASE Begins(r)
    BY <1>0, <1>1 DEF Begins, RequestSale, RequestVoid, RequestStock, Goto, tables
  <1>2. CASE Abandons(r)
    BY <1>0, <1>2 DEF Abandons, Abandon, End, Goto, Underway, Answered, tables
  <1>3. CASE WriteRow(r)
    BY <1>0, <1>3 DEF WriteRow, Goto, tables
  <1>4. CASE LockSettings(r) \/ ReadNumber(r) \/ LockNextBatch(r) \/ StartMoving(r)
    BY <1>0, <1>4 DEF LockSettings, ReadNumber, LockNextBatch, StartMoving, AllAllocated, Goto,
                      tables
  <1>5. CASE AllocateLine(r)
    BY <1>5 DEF AllocateLine, tables
  <1>6. CASE OpenSale(r) \/ OpenPurchase(r) \/ ResolveBatch(r) \/ InsertBatch(r) \/ UpdateCost(r)
    BY <1>0, <1>6 DEF OpenSale, OpenPurchase, ResolveBatch, InsertBatch, UpdateCost, Goto, tables
  <1> QED
    BY <1>1, <1>2, <1>3, <1>4, <1>5, <1>6 DEF GoesAhead

LEMMA StepDocumentInv == FullInv /\ StockInv' /\ [Next]_vars => DocumentInv'
  <1> SUFFICES ASSUME FullInv, StockInv', [Next]_vars PROVE DocumentInv'
    OBVIOUS
  <1>1. CASE UNCHANGED vars
    <2>1. /\ UNCHANGED <<ledger, batches, sales, purchases, cost, holder, pc>>
          /\ UNCHANGED <<job, listed, locked, lines, short, plan, done, pending>>
      BY <1>1 DEF vars, tables, work
    <2>2. ASSUME NEW q \in Request PROVE WorkIs(q)'
      <3>1. Untouched(q)
        BY <2>1 DEF Untouched
      <3> QED
        BY <2>1, <3>1, UntouchedWorkIs DEF FullInv, StockInv, DocumentInv, Roads
    <2>3. \A q \in Request : Written(q)' = Written(q)
      BY <2>1, WrittenStays
    <2>4. LedgerIsWritten'
      BY <2>1, <2>3 DEF FullInv, DocumentInv, LedgerIsWritten, OpeningRows
    <2>5. SalesAreDone' /\ PurchasesAreDone'
      BY <2>1 DEF FullInv, DocumentInv, SalesAreDone, PurchasesAreDone, Voided, Received
    <2>6. CostsArePaid'
      BY <2>1 DEF FullInv, DocumentInv, CostsArePaid, Pays
    <2> QED
      BY <2>2, <2>4, <2>5, <2>6 DEF DocumentInv
  <1>2. ASSUME NEW r \in Request,
               Arrive(r) \/ Serve(r) \/ DeadlockVictim(r) \/ Rollback(r)
        PROVE  DocumentInv'
    <2>1. Begins(r) \/ Abandons(r) \/ GoesAhead(r) \/ WriteRow(r) \/ Commit(r)
      BY <1>2, StepsSplit
    <2>2. \A q \in Request \ {r} : Untouched(q)
      BY <2>1, OthersUntouched DEF FullInv, StockInv
    <2>3. CASE Commit(r)
      BY <2>3, CommitWork, CommitOthersWork, CommitDocuments DEF DocumentInv
    <2>4. CASE Begins(r) \/ Abandons(r) \/ GoesAhead(r) \/ WriteRow(r)
      <3>1. WorkIs(r)'
        BY <2>4, BeginsWork, AbandonsWork, GoesAheadWork, WriteRowWork
      <3>2. /\ pc[r] # "done" /\ pc'[r] # "done"
            /\ UNCHANGED <<ledger, batches, sales, purchases, cost>>
        BY <2>4, QuietSteps
      <3> QED
        BY <2>2, <3>1, <3>2, QuietDocuments
    <2> QED
      BY <2>1, <2>3, <2>4
  <1> QED
    BY <1>1, <1>2 DEF Next

LEMMA FullInvariance == Spec => []FullInv
  <1>1. Init => FullInv
    BY InitIInv, InitStockInv, InitDocumentInv DEF FullInv
  <1>2. FullInv /\ [Next]_vars => FullInv'
    BY StepIInv, StepStockInv, StepDocumentInv DEF FullInv
  <1> QED
    BY <1>1, <1>2, PTL DEF Spec

(***************************************************************************)
(* What a document's request has written, as the document lists it.        *)
(***************************************************************************)
LEMMA WrittenCounts ==
  ASSUME FullInv, NEW q \in Request, pc[q] = "done"
  PROVE  /\ Cardinality(Written(q)) = Len(plan[q])
         /\ \A sign : Moves(Written(q), sign)
              = {Move(plan[q][i].batch, sign * plan[q][i].quantity) : i \in 1..Len(plan[q])}
         /\ \A p : Units({row \in Written(q) : ProductOf[row.batch] = p}) = Taken(plan[q], p)
  <1> DEFINE n == Len(plan[q])
             f == [i \in 1..n |-> RowOf(q, plan[q][i])]
  <1>1. /\ plan[q] \in Seq(Movement) /\ done[q] = n /\ OncePerBatch(plan[q])
        /\ Written(q) = {RowOf(q, plan[q][i]) : i \in 1..n}
    BY DEF FullInv, StockInv, Roads, Road, WorkTyped, DocumentInv, WorkIs, Written
  <1>2. n \in Nat /\ DOMAIN plan[q] = 1..n /\ \A i \in 1..n : plan[q][i] \in Movement
    BY <1>1, LenProperties
  <1>3. \A m : RowOf(q, m).batch = m.batch /\ RowOf(q, m).quantity = m.quantity
    BY DEF RowOf
  <1> HIDE DEF n
  <1>4. f \in Bijection(1..n, Written(q))
    <2>1. \A i \in 1..n : f[i] = RowOf(q, plan[q][i])
      OBVIOUS
    <2>2. f \in [1..n -> Written(q)] /\ \A w \in Written(q) : \E i \in 1..n : f[i] = w
      BY <1>1
    <2>3. \A i, k \in 1..n : f[i] = f[k] => i = k
      BY <1>1, <1>2, <1>3, <2>1 DEF OncePerBatch
    <2> HIDE DEF f
    <2> QED
      BY <2>2, <2>3 DEF Bijection, Injection, Surjection, IsInjective
  <1>5. Cardinality(Written(q)) = n
    <2>1. IsFiniteSet(1..n) /\ Cardinality(1..n) = n
      BY <1>2, FS_Interval
    <2> HIDE DEF f
    <2> QED
      BY <1>4, <2>1, FS_Bijection DEF ExistsBijection
  <1>6. ASSUME NEW sign
        PROVE  Moves(Written(q), sign)
                 = {Move(plan[q][i].batch, sign * plan[q][i].quantity) : i \in 1..n}
    BY <1>1, <1>3 DEF Moves
  <1>7. ASSUME NEW p
        PROVE  Units({row \in Written(q) : ProductOf[row.batch] = p}) = Taken(plan[q], p)
    <2> DEFINE S == {move \in ToSet(plan[q]) : ProductOf[move.batch] = p}
               T == {row \in Written(q) : ProductOf[row.batch] = p}
               g == [move \in S |-> RowOf(q, move)]
    <2>1. ToSet(plan[q]) = {plan[q][i] : i \in 1..n}
      BY <1>2 DEF ToSet
    <2>2. IsFiniteSet(ToSet(plan[q])) /\ IsFiniteSet(S)
      <3> DEFINE h == [i \in 1..n |-> plan[q][i]]
      <3>1. h \in Surjection(1..n, ToSet(plan[q]))
        BY <2>1 DEF Surjection
      <3>2. IsFiniteSet(1..n)
        BY <1>2, FS_Interval
      <3> HIDE DEF h
      <3>3. IsFiniteSet(ToSet(plan[q]))
        BY <3>1, <3>2, FS_Surjection
      <3> QED
        BY <3>3, FS_Subset
    <2>3. \A m \in S : m \in Movement /\ m.quantity \in Int /\ g[m] = RowOf(q, m)
      BY <1>2, <2>1 DEF Movement
    <2>4. g \in [S -> T]
      BY <1>1, <1>3, <2>1
    <2>5. \A w \in T : \E m \in S : g[m] = w
      BY <1>1, <1>3, <2>1
    <2>6. \A m, k \in S : g[m] = g[k] => m = k
      <3> SUFFICES ASSUME NEW m \in S, NEW k \in S, g[m] = g[k] PROVE m = k
        OBVIOUS
      <3>1. m.batch = k.batch /\ m.quantity = k.quantity
        BY <1>3, <2>3
      <3> QED
        <4>1. /\ m = [batch |-> m.batch, quantity |-> m.quantity]
              /\ k = [batch |-> k.batch, quantity |-> k.quantity]
          BY <2>3 DEF Movement
        <4> QED
          BY <3>1, <4>1
    <2> HIDE DEF S, T, g
    <2>7. g \in Bijection(S, T)
      BY <2>4, <2>5, <2>6 DEF Bijection, Injection, Surjection, IsInjective
    <2>8. \A m \in S : m.quantity \in Int /\ g[m].quantity = m.quantity
      BY <1>3, <2>3
    <2>9. Units(T) = Units(S)
      BY <2>2, <2>7, <2>8, UnitsByIndex
    <2> QED
      BY <2>9 DEF S, T, Taken
  <1> QED
    BY <1>5, <1>6, <1>7 DEF n


--------------------------------------------------------------------------------
\* The rows of each kind of document are those its request has written.
LEMMA RowsOfDocuments ==
  ASSUME FullInv, NEW q \in Request, pc[q] = "done"
  PROVE  \A row \in Written(q) :
           /\ row.type = "SALE" <=> job[q].kind = "sale"
           /\ row.type = "RETURN" <=> job[q].kind = "void"
           /\ row.type = "PURCHASE" <=> job[q].kind = "receive"
           /\ row.doc = Document(q)
  <1>1. WorkTyped /\ Road(q)
    BY DEF FullInv, StockInv, Roads
  <1>2. job[q].kind \in {"sale", "void", "receive", "adjust"}
    BY <1>1, JobOfIs DEF Road
  <1>3. /\ MovementType(q) = "SALE" <=> job[q].kind = "sale"
        /\ MovementType(q) = "RETURN" <=> job[q].kind = "void"
        /\ MovementType(q) = "PURCHASE" <=> job[q].kind = "receive"
    BY <1>1, <1>2, JobOfIs DEF MovementType
  <1> QED
    BY <1>3 DEF Written, RowOf

LEMMA SaleRows ==
  ASSUME FullInv, NEW r \in Request
  PROVE  Rows("SALE", r) = IF sales[r].status # "ABSENT" THEN Written(r) ELSE {}
  <1>1. \A row \in OpeningRows : row.type # "SALE"
    BY DEF OpeningRows
  <1>2. sales[r].status # "ABSENT" <=> pc[r] = "done" /\ job[r].kind = "sale"
    BY DEF FullInv, DocumentInv, SalesAreDone
  <1>3. ASSUME NEW row \in Rows("SALE", r)
        PROVE  pc[r] = "done" /\ job[r].kind = "sale" /\ row \in Written(r)
    <2>1. row \in ledger /\ row.type = "SALE" /\ row.doc = r
      BY DEF Rows
    <2>2. PICK q \in Request : pc[q] = "done" /\ row \in Written(q)
      BY <1>1, <2>1 DEF FullInv, DocumentInv, LedgerIsWritten
    <2>3. job[q].kind = "sale" /\ Document(q) = r
      BY <2>1, <2>2, RowsOfDocuments
    <2>4. q = r
      BY <2>3 DEF Document
    <2> QED
      BY <2>2, <2>3, <2>4
  <1>4. ASSUME pc[r] = "done", job[r].kind = "sale", NEW row \in Written(r)
        PROVE  row \in Rows("SALE", r)
    <2>1. Written(r) \subseteq ledger
      BY <1>4 DEF FullInv, DocumentInv, WorkIs, RowsOfWork
    <2>2. row.type = "SALE" /\ row.doc = Document(r)
      BY <1>4, RowsOfDocuments
    <2> QED
      BY <1>4, <2>1, <2>2 DEF Rows, Document
  <1> QED
    BY <1>2, <1>3, <1>4

LEMMA ReturnRows ==
  ASSUME FullInv, NEW r \in Request
  PROVE  /\ \A q \in Request : Voided(q, r) => Rows("RETURN", r) = Written(q)
         /\ (\A q \in Request : ~Voided(q, r)) => Rows("RETURN", r) = {}
  <1>1. \A row \in OpeningRows : row.type # "RETURN"
    BY DEF OpeningRows
  <1>2. ASSUME NEW row \in Rows("RETURN", r)
        PROVE  \E q \in Request : Voided(q, r) /\ row \in Written(q)
    <2>1. row \in ledger /\ row.type = "RETURN" /\ row.doc = r
      BY DEF Rows
    <2>2. PICK q \in Request : pc[q] = "done" /\ row \in Written(q)
      BY <1>1, <2>1 DEF FullInv, DocumentInv, LedgerIsWritten
    <2>3. job[q].kind = "void" /\ Document(q) = r
      BY <2>1, <2>2, RowsOfDocuments
    <2> QED
      BY <2>2, <2>3 DEF Document, Voided
  <1>3. ASSUME NEW q \in Request, Voided(q, r)
        PROVE  Rows("RETURN", r) = Written(q)
    <2>1. pc[q] = "done" /\ job[q].kind = "void" /\ Document(q) = r
      BY <1>3 DEF Voided, Document
    <2>2. Written(q) \subseteq ledger
      BY <2>1 DEF FullInv, DocumentInv, WorkIs, RowsOfWork
    <2>3. Written(q) \subseteq Rows("RETURN", r)
      BY <2>1, <2>2, RowsOfDocuments DEF Rows
    <2>4. \A u \in Request : Voided(u, r) => u = q
      BY <1>3 DEF FullInv, DocumentInv, SalesAreDone
    <2>5. Rows("RETURN", r) \subseteq Written(q)
      BY <1>2, <2>4
    <2> QED
      BY <2>3, <2>5
  <1> QED
    BY <1>2, <1>3

LEMMA PurchaseRows ==
  ASSUME FullInv, NEW p \in Purchase
  PROVE  /\ \A q \in Request : Received(q, p) => Rows("PURCHASE", p) = Written(q)
         /\ (\A q \in Request : ~Received(q, p)) => Rows("PURCHASE", p) = {}
  <1>1. \A row \in OpeningRows : row.doc # p
    BY NobodyAssumption DEF OpeningRows
  <1>2. ASSUME NEW row \in Rows("PURCHASE", p)
        PROVE  \E q \in Request : Received(q, p) /\ row \in Written(q)
    <2>1. row \in ledger /\ row.type = "PURCHASE" /\ row.doc = p
      BY DEF Rows
    <2>2. PICK q \in Request : pc[q] = "done" /\ row \in Written(q)
      BY <1>1, <2>1 DEF FullInv, DocumentInv, LedgerIsWritten
    <2>3. job[q].kind = "receive" /\ Document(q) = p
      BY <2>1, <2>2, RowsOfDocuments
    <2> QED
      BY <2>2, <2>3 DEF Document, Received
  <1>3. ASSUME NEW q \in Request, Received(q, p)
        PROVE  Rows("PURCHASE", p) = Written(q)
    <2>1. pc[q] = "done" /\ job[q].kind = "receive" /\ Document(q) = p
      BY <1>3 DEF Received, Document
    <2>2. Written(q) \subseteq ledger
      BY <2>1 DEF FullInv, DocumentInv, WorkIs, RowsOfWork
    <2>3. Written(q) \subseteq Rows("PURCHASE", p)
      BY <2>1, <2>2, RowsOfDocuments DEF Rows
    <2>4. \A u \in Request : Received(u, p) => u = q
      BY <1>3 DEF FullInv, DocumentInv, PurchasesAreDone
    <2>5. Rows("PURCHASE", p) \subseteq Written(q)
      BY <1>2, <2>4
    <2> QED
      BY <2>3, <2>5
  <1> QED
    BY <1>2, <1>3

\* A list of movements as the document of a request that has recorded it shows it.
LEMMA ListedAs ==
  ASSUME NEW moves \in Seq(Movement)
  PROVE  /\ {Move(moves[i].batch, 1 * moves[i].quantity) : i \in 1..Len(moves)} = ToSet(moves)
         /\ {Move(moves[i].batch, (-1) * moves[i].quantity) : i \in 1..Len(moves)}
              = ToSet(Allocations(moves))
  <1>1. Len(moves) \in Nat /\ DOMAIN moves = 1..Len(moves)
    BY LenProperties
  <1>2. \A i \in 1..Len(moves) : moves[i] \in Movement
    BY <1>1
  <1>3. \A i \in 1..Len(moves) :
          /\ Move(moves[i].batch, 1 * moves[i].quantity) = moves[i]
          /\ (-1) * moves[i].quantity = -moves[i].quantity
    <2> SUFFICES ASSUME NEW m \in Movement
                 PROVE  /\ Move(m.batch, 1 * m.quantity) = m
                        /\ (-1) * m.quantity = -m.quantity
      BY <1>2
    <2>1. m = [batch |-> m.batch, quantity |-> m.quantity] /\ m.quantity \in Int
      BY DEF Movement
    <2>2. 1 * m.quantity = m.quantity /\ (-1) * m.quantity = -m.quantity
      BY <2>1
    <2> QED
      BY <2>1, <2>2 DEF Move
  <1>4. {Move(moves[i].batch, 1 * moves[i].quantity) : i \in 1..Len(moves)} = ToSet(moves)
    BY <1>1, <1>3 DEF ToSet
  <1>5. ToSet(Allocations(moves)) = {Allocations(moves)[i] : i \in 1..Len(moves)}
    BY <1>1 DEF ToSet, Allocations
  <1>6. \A i \in 1..Len(moves) :
          Allocations(moves)[i] = Move(moves[i].batch, (-1) * moves[i].quantity)
    BY <1>1, <1>3 DEF Allocations
  <1> QED
    BY <1>4, <1>5, <1>6


--------------------------------------------------------------------------------
LEMMA SaleIsOnLedger ==
  ASSUME FullInv, NEW r \in Request
  PROVE  SaleMatchesLedger(r)
  <1> DEFINE s == sales[r]
             out == Rows("SALE", r)
             back == Rows("RETURN", r)
  <1>1. /\ s.status \in {"ABSENT", "COMPLETED", "VOID"}
        /\ s.status # "ABSENT" <=> pc[r] = "done" /\ job[r].kind = "sale"
        /\ s.status # "ABSENT" => s.allocations = Allocations(plan[r])
        /\ s.status = "ABSENT" => s.allocations = <<>>
        /\ s.status = "VOID" => \E q \in Request : Voided(q, r)
    BY DEF FullInv, StockInv, TablesTyped, DocumentInv, SalesAreDone
  <1>2. \A q \in Request : plan[q] \in Seq(Movement)
    BY DEF FullInv, StockInv, WorkTyped
  <1>3. /\ Moves(out, -1) = ToSet(s.allocations)
        /\ Cardinality(out) = Len(s.allocations)
        /\ s.status # "ABSENT" =>
             \A i \in DOMAIN job[r].cart :
               Units({row \in out : ProductOf[row.batch] = job[r].cart[i].product})
                 = -job[r].cart[i].quantity
    <2>1. CASE s.status = "ABSENT"
      <3>1. out = {} /\ s.allocations = <<>>
        BY <1>1, <2>1, SaleRows
      <3>2. ToSet(<<>>) = {} /\ Len(<<>>) = 0
        BY DEF ToSet
      <3>3. Moves({}, -1) = {}
        BY DEF Moves
      <3> QED
        BY <2>1, <3>1, <3>2, <3>3, FS_EmptySet
    <2>2. CASE s.status # "ABSENT"
      <3>1. /\ pc[r] = "done" /\ job[r].kind = "sale" /\ out = Written(r)
            /\ s.allocations = Allocations(plan[r])
        BY <1>1, <2>2, SaleRows
      <3>2. Moves(out, -1) = ToSet(s.allocations)
        <4>1. Moves(out, -1)
                = {Move(plan[r][i].batch, (-1) * plan[r][i].quantity) : i \in 1..Len(plan[r])}
          BY <3>1, WrittenCounts
        <4> QED
          BY <1>2, <3>1, <4>1, ListedAs
      <3>3. Cardinality(out) = Len(s.allocations)
        BY <1>2, <3>1, WrittenCounts, AllocationsTyped
      <3>4. ASSUME NEW i \in DOMAIN job[r].cart
            PROVE  Units({row \in out : ProductOf[row.batch] = job[r].cart[i].product})
                     = -job[r].cart[i].quantity
        <4>1. /\ FillsCart(job[r].cart, lines[r], plan[r], short[r])
              /\ ~short[r] /\ lines[r] = <<>>
          BY <3>1 DEF FullInv, DocumentInv, WorkIs, CartIsFilled
        <4>2. i \in 1..(Len(job[r].cart) - Len(lines[r]))
          <5>1. job[r].cart \in Seq([product : Product, quantity : Nat \ {0}])
            BY <3>1, JobOfIs DEF FullInv, StockInv, Carts
          <5>2. Len(job[r].cart) \in Nat /\ DOMAIN job[r].cart = 1..Len(job[r].cart)
            BY <5>1, LenProperties
          <5> QED
            BY <4>1, <5>2
        <4>3. Taken(plan[r], job[r].cart[i].product) = -job[r].cart[i].quantity
          BY <4>1, <4>2 DEF FillsCart
        <4> QED
          BY <3>1, <4>3, WrittenCounts
      <3> QED
        BY <3>2, <3>3, <3>4
    <2> QED
      BY <2>1, <2>2
  <1>4. /\ Moves(back, 1) = IF s.status = "VOID" THEN ToSet(s.allocations) ELSE {}
        /\ Cardinality(back) = IF s.status = "VOID" THEN Len(s.allocations) ELSE 0
    <2>1. CASE s.status = "VOID"
      <3>1. PICK q \in Request : Voided(q, r)
        BY <1>1, <2>1
      <3>2. back = Written(q) /\ pc[q] = "done"
        BY <3>1, ReturnRows DEF Voided
      <3>3. plan[q] = s.allocations
        BY <3>1 DEF Voided, FullInv, DocumentInv, WorkIs, VoidIsOfSale
      <3>4. Moves(back, 1)
              = {Move(plan[q][i].batch, 1 * plan[q][i].quantity) : i \in 1..Len(plan[q])}
        BY <3>2, WrittenCounts
      <3>5. Moves(back, 1) = ToSet(plan[q])
        BY <1>2, <3>4, ListedAs
      <3>6. Cardinality(back) = Len(plan[q])
        BY <3>2, WrittenCounts
      <3> QED
        BY <2>1, <3>3, <3>5, <3>6
    <2>2. CASE s.status # "VOID"
      <3>1. \A q \in Request : ~Voided(q, r)
        BY <2>2 DEF Voided, FullInv, DocumentInv, WorkIs, VoidIsOfSale
      <3>2. back = {}
        BY <3>1, ReturnRows
      <3> QED
        BY <2>2, <3>2, FS_EmptySet DEF Moves
    <2> QED
      BY <2>1, <2>2
  <1> QED
    BY <1>3, <1>4 DEF SaleMatchesLedger

LEMMA PurchaseIsOnLedger ==
  ASSUME FullInv, NEW p \in Purchase
  PROVE  LET rows == Rows("PURCHASE", p) IN
         IF purchases[p] = "RECEIVED"
         THEN /\ Moves(rows, 1) = ToSet(PurchaseLines[p])
              /\ Cardinality(rows) = Len(PurchaseLines[p])
         ELSE rows = {}
  <1>1. CASE purchases[p] = "RECEIVED"
    <2>1. PICK q \in Request : Received(q, p)
      BY <1>1 DEF FullInv, DocumentInv, PurchasesAreDone
    <2>2. Rows("PURCHASE", p) = Written(q) /\ pc[q] = "done"
      BY <2>1, PurchaseRows DEF Received
    <2>3. plan[q] = PurchaseLines[p] /\ plan[q] \in Seq(Movement)
      BY <2>1 DEF Received, FullInv, StockInv, WorkTyped, DocumentInv, WorkIs, ReceiptIsOfDraft
    <2>4. Moves(Written(q), 1)
            = {Move(plan[q][i].batch, 1 * plan[q][i].quantity) : i \in 1..Len(plan[q])}
      BY <2>2, WrittenCounts
    <2>5. Moves(Written(q), 1) = ToSet(plan[q]) /\ Cardinality(Written(q)) = Len(plan[q])
      BY <2>2, <2>3, <2>4, WrittenCounts, ListedAs
    <2> QED
      BY <1>1, <2>2, <2>3, <2>5
  <1>2. CASE purchases[p] # "RECEIVED"
    <2>1. \A q \in Request : ~Received(q, p)
      BY <1>2 DEF Received, FullInv, DocumentInv, WorkIs, ReceiptIsOfDraft
    <2> QED
      BY <1>2, <2>1, PurchaseRows
  <1> QED
    BY <1>1, <1>2

(***************************************************************************)
(* Stock leaves and enters only with a document, once, in the quantities   *)
(* the document says; and costs are those of purchases received.           *)
(***************************************************************************)
THEOREM DocumentsAreKept == Spec => []LedgerMatchesDocuments
  <1>1. ASSUME FullInv PROVE LedgerMatchesDocuments
    <2>1. ASSUME NEW p \in Product
          PROVE  LET from == {q \in Purchase : /\ purchases[q] = "RECEIVED"
                                               /\ \E i \in DOMAIN PurchaseLines[q] :
                                                    ProductOf[PurchaseLines[q][i].batch] = p}
                 IN  IF from = {} THEN cost[p] = Opening ELSE cost[p] \in from
      <3>1. /\ (\E q \in Purchase : Pays(q, p)) => cost[p] \in Purchase /\ Pays(cost[p], p)
            /\ (\A q \in Purchase : ~Pays(q, p)) => cost[p] = Opening
        BY <1>1 DEF FullInv, DocumentInv, CostsArePaid
      <3> QED
        BY <3>1 DEF Pays
    <2> QED
      BY <1>1, <2>1, SaleIsOnLedger, PurchaseIsOnLedger DEF LedgerMatchesDocuments
  <1> QED
    BY <1>1, FullInvariance, PTL


--------------------------------------------------------------------------------
(***************************************************************************)
(* First expiry first.  What a sale has planned stays right because it     *)
(* holds every batch its locking query found before it looks at the stock: *)
(* nobody else's commit changes what is on hand of them.                   *)
(***************************************************************************)
Selects(r) == job[r].kind = "sale" /\ pc[r] \in {"locking", "moving"}

BatchesAreHeld(r) ==
  Selects(r) =>
    /\ ToSet(listed[r]) \subseteq batches
    /\ \A i \in 1..locked[r] : holder[listed[r][i]] = r
    /\ plan[r] # <<>> \/ pc[r] = "moving" => AllLocked(r)

\* A batch that is empty, or that the sale is about to empty.
Emptied(rows, moves, c) ==
  \/ OnHand(rows, c) = 0
  \/ \E k \in 1..Len(moves) : moves[k] = Move(c, -OnHand(rows, c))

FirstToExpire(rows, found, moves, b) ==
  /\ b \notin Expired
  /\ b \in found => OnHand(rows, b) > 0
  /\ \A c \in found \ Expired :
       ProductOf[c] = ProductOf[b] /\ FefoRank[c] < FefoRank[b] => Emptied(rows, moves, c)

PlanIsFefo(r) ==
  Selects(r) =>
    \A i \in 1..Len(plan[r]) :
      FirstToExpire(ledger, ToSet(listed[r]), plan[r], plan[r][i].batch)

ShelfInv == \A r \in Request : BatchesAreHeld(r) /\ PlanIsFefo(r)

LEMMA InitShelfInv == Init => ShelfInv
  BY DEF Init, ShelfInv, BatchesAreHeld, PlanIsFefo, Selects, NoJob

LEMMA ListedAreHeld ==
  ASSUME WorkTyped, NEW r \in Request, Selects(r), BatchesAreHeld(r),
         plan[r] # <<>> \/ pc[r] = "moving"
  PROVE  \A c \in ToSet(listed[r]) : c \in Batch /\ holder[c] = r
  <1>1. listed[r] \in Seq(Batch)
    BY DEF WorkTyped
  <1>2. DOMAIN listed[r] = 1..Len(listed[r]) /\ locked[r] = Len(listed[r])
    BY <1>1, LenProperties DEF BatchesAreHeld, AllLocked
  <1> QED
    BY <1>1, <1>2 DEF BatchesAreHeld, ToSet

\* What others commit is of batches they hold.
LEMMA HeldStays ==
  ASSUME FullInv, NEW r \in Request, NEW q \in Request, q # r, NEW c, holder[c] = q,
         ledger' = ledger \/ ledger' = ledger \cup pending[r]
  PROVE  OnHand(ledger', c) = OnHand(ledger, c)
  <1>1. \A row \in pending[r] : row.batch # c
    BY DEF FullInv, StockInv, WritersHold
  <1>2. {row \in ledger' : row.batch = c} = {row \in ledger : row.batch = c}
    BY <1>1
  <1> QED
    BY <1>2 DEF OnHand

LEMMA PlanStays ==
  ASSUME NEW rows, NEW rows2, NEW found, NEW moves, NEW b,
         \A c \in found : OnHand(rows2, c) = OnHand(rows, c),
         FirstToExpire(rows, found, moves, b)
  PROVE  FirstToExpire(rows2, found, moves, b)
  BY DEF FirstToExpire, Emptied

LEMMA OthersShelf ==
  ASSUME FullInv, ShelfInv, NEW r \in Request, NEW q \in Request, q # r, Untouched(q),
         batches \subseteq batches', ledger' = ledger \/ ledger' = ledger \cup pending[r]
  PROVE  BatchesAreHeld(q)' /\ PlanIsFefo(q)'
  <1>1. /\ UNCHANGED <<pc[q], job[q], listed[q], locked[q], plan[q]>>
        /\ \A x \in Resources : holder'[x] = q <=> holder[x] = q
    BY DEF Untouched
  <1>2. WorkTyped /\ Road(q) /\ BatchesAreHeld(q) /\ PlanIsFefo(q)
    BY DEF FullInv, StockInv, Roads, ShelfInv
  <1>3. \A i \in 1..locked[q] : listed[q][i] \in Resources
    <2>1. listed[q] \in Seq(Batch) /\ locked[q] \in Nat /\ locked[q] <= Len(listed[q])
      BY <1>2 DEF WorkTyped, Road
    <2>2. \A i \in 1..locked[q] : i \in 1..Len(listed[q])
      BY <2>1, LenProperties
    <2> QED
      BY <2>1, <2>2 DEF Resources
  <1>4. BatchesAreHeld(q)'
    <2>1. Selects(q)' = Selects(q) /\ AllLocked(q)' = AllLocked(q)
      BY <1>1 DEF Selects, AllLocked
    <2> QED
      BY <1>1, <1>2, <1>3, <2>1 DEF BatchesAreHeld
  <1>5. PlanIsFefo(q)'
    <2>1. SUFFICES ASSUME Selects(q), NEW i \in 1..Len(plan[q])
                   PROVE  FirstToExpire(ledger', ToSet(listed[q]), plan[q], plan[q][i].batch)
      BY <1>1 DEF PlanIsFefo, Selects
    <2>2. plan[q] # <<>>
      OBVIOUS
    <2>3. \A c \in ToSet(listed[q]) : OnHand(ledger', c) = OnHand(ledger, c)
      BY <1>2, <2>1, <2>2, ListedAreHeld, HeldStays
    <2>4. FirstToExpire(ledger, ToSet(listed[q]), plan[q], plan[q][i].batch)
      BY <1>2, <2>1 DEF PlanIsFefo
    <2> QED
      BY <2>3, <2>4, PlanStays
  <1> QED
    BY <1>4, <1>5


--------------------------------------------------------------------------------
\* More movements leave what is planned before in order.
LEMMA MorePlanned ==
  ASSUME NEW rows, NEW found, NEW moves, NEW all, NEW more, Joins(all, moves, more),
         NEW b, FirstToExpire(rows, found, moves, b)
  PROVE  FirstToExpire(rows, found, all, b)
  <1>1. ASSUME NEW c, Emptied(rows, moves, c) PROVE Emptied(rows, all, c)
    BY <1>1 DEF Joins, Emptied
  <1> QED
    BY <1>1 DEF FirstToExpire

(***************************************************************************)
(* A line takes from the batches in stock of its product, first expiry     *)
(* first, all of each but the last.                                        *)
(***************************************************************************)
LEMMA LineIsFefo ==
  ASSUME StockInv, NEW r \in Request, pending[r] = {}, NEW line \in CartLine,
         NEW found \in SUBSET batches, NEW i,
         i \in 1..Len(Allocate(r, Sellable(r, line.product), line.quantity).moves)
  PROVE  LET moves == Allocate(r, Sellable(r, line.product), line.quantity).moves IN
         FirstToExpire(ledger, found, moves, moves[i].batch)
  <1> DEFINE from == Sellable(r, line.product)
             got == Allocate(r, from, line.quantity)
             moves == got.moves
  <1>1. Lists(from) /\ line.quantity \in Nat
    BY SellableIs DEF CartLine
  <1>2. /\ \A b : b \in ToSet(from) <=> b \in batches /\ b \notin Expired
                                          /\ ProductOf[b] = line.product /\ Stock(r, b) > 0
        /\ \A k, l \in DOMAIN from : k < l => FefoRank[from[k]] < FefoRank[from[l]]
    BY SellableIs
  <1>3. \A k \in DOMAIN from : Stock(r, from[k]) \in Nat \ {0}
    BY SellableIs
  <1> HIDE DEF from
  <1>4. TakesInTurn(r, from, line.quantity, got)
    BY <1>1, <1>3, AllocateTakes
  <1> HIDE DEF got
  <1>5. /\ moves \in Seq(Movement) /\ Len(moves) <= Len(from)
        /\ \A k \in 1..Len(moves) : moves[k].batch = from[k]
        /\ \A k \in 1..Len(moves) : k < Len(moves) => moves[k].quantity = -Stock(r, from[k])
        /\ i \in 1..Len(moves)
    BY <1>4 DEF TakesInTurn, got, from
  <1> HIDE DEF moves
  <1>6. /\ Len(moves) \in Nat /\ DOMAIN moves = 1..Len(moves)
        /\ from \in Seq(Batch) /\ Len(from) \in Nat /\ DOMAIN from = 1..Len(from)
    BY <1>1, <1>5, LenProperties DEF Lists
  <1>7. i \in DOMAIN from /\ moves[i].batch = from[i] /\ from[i] \in ToSet(from)
    BY <1>5, <1>6 DEF ToSet
  <1>8. \A c : Stock(r, c) = OnHand(ledger, c)
    BY DEF Stock
  <1>9. from[i] \notin Expired /\ OnHand(ledger, from[i]) > 0
    BY <1>2, <1>7, <1>8
  <1>10. ASSUME NEW c \in found \ Expired, ProductOf[c] = ProductOf[from[i]],
                FefoRank[c] < FefoRank[from[i]], OnHand(ledger, c) # 0
         PROVE  \E k \in 1..Len(moves) : moves[k] = Move(c, -OnHand(ledger, c))
    <2>1. c \in Batch /\ OnHand(ledger, c) \in Nat
      BY DEF StockInv, TablesTyped, InStock
    <2>2. c \in ToSet(from)
      BY <1>2, <1>7, <1>8, <1>10, <2>1
    <2>3. PICK k \in DOMAIN from : from[k] = c
      BY <2>2 DEF ToSet
    <2>4. FefoRank[c] \in Int /\ FefoRank[from[i]] \in Int
      BY <1>6, <1>7, <2>1, OrdersAreTotal
    <2>5. ~(i < k)
      BY <1>2, <1>7, <1>10, <2>3, <2>4
    <2>6. i # k
      BY <1>10, <2>3, <2>4
    <2>7. k \in 1..Len(moves) /\ k < Len(moves)
      BY <1>5, <1>6, <2>3, <2>5, <2>6
    <2>8. moves[k].batch = c /\ moves[k].quantity = -OnHand(ledger, c)
      BY <1>5, <1>8, <2>3, <2>7
    <2>9. moves[k] \in Movement
      BY <1>5, <1>6, <2>7
    <2>10. moves[k] = [batch |-> moves[k].batch, quantity |-> moves[k].quantity]
      BY <2>9 DEF Movement
    <2> QED
      BY <2>7, <2>8, <2>10 DEF Move
  <1>11. FirstToExpire(ledger, found, moves, moves[i].batch)
    BY <1>7, <1>9, <1>10 DEF FirstToExpire, Emptied
  <1> QED
    BY <1>11 DEF moves, got, from

LEMMA MoreOnTop ==
  ASSUME NEW rows, NEW found, NEW more, NEW all, NEW moves, Joins(all, moves, more),
         NEW b, FirstToExpire(rows, found, more, b)
  PROVE  FirstToExpire(rows, found, all, b)
  <1>1. ASSUME NEW c, Emptied(rows, more, c) PROVE Emptied(rows, all, c)
    BY <1>1 DEF Joins, Emptied
  <1> QED
    BY <1>1 DEF FirstToExpire

LEMMA AllocateLineShelf ==
  ASSUME FullInv, ShelfInv, NEW r \in Request, AllocateLine(r)
  PROVE  BatchesAreHeld(r)' /\ PlanIsFefo(r)'
  <1> DEFINE line == Head(lines[r])
             more == Allocate(r, Sellable(r, line.product), line.quantity).moves
             all == plan[r] \o more
             found == ToSet(listed[r])
  <1>1. WorkTyped /\ Road(r) /\ BatchesAreHeld(r) /\ PlanIsFefo(r) /\ StockInv
    BY DEF FullInv, StockInv, Roads, ShelfInv
  <1>2. /\ pc[r] = "locking" /\ lines[r] # <<>> /\ AllLocked(r)
        /\ plan' = [plan EXCEPT ![r] = all]
        /\ UNCHANGED <<tables, holder, pc, job, listed, locked>>
    BY DEF AllocateLine
  <1>3. job[r].kind = "sale" /\ done[r] = 0 /\ Selects(r)
    BY <1>1, <1>2 DEF Road, Selects
  <1>4. pending[r] = {}
    <2>1. Written(r) = {}
      BY <1>3 DEF Written
    <2> QED
      BY <1>2, <2>1 DEF FullInv, DocumentInv, WorkIs, RowsOfWork, Answered
  <1>5. line \in CartLine /\ plan[r] \in Seq(Movement)
    BY <1>1, <1>2, HeadTailProperties DEF WorkTyped
  <1>6. found \in SUBSET batches
    BY <1>1, <1>3 DEF BatchesAreHeld
  <1>7. \A i \in 1..Len(more) : FirstToExpire(ledger, found, more, more[i].batch)
    BY <1>1, <1>4, <1>5, <1>6, LineIsFefo
  <1>8. more \in Seq(Movement)
    BY <1>1, <1>5, AllocateTyped
  <1> HIDE DEF more
  <1>9. Joins(all, plan[r], more)
    BY <1>5, <1>8, Joined
  <1>10. \A i \in 1..Len(plan[r]) : FirstToExpire(ledger, found, plan[r], plan[r][i].batch)
    BY <1>1, <1>3 DEF PlanIsFefo
  <1> HIDE DEF all, found
  <1>11. ASSUME NEW i \in 1..Len(all) PROVE FirstToExpire(ledger, found, all, all[i].batch)
    <2>1. CASE i \in 1..Len(plan[r])
      <3>1. all[i] = plan[r][i]
        BY <1>9, <2>1 DEF Joins
      <3>2. FirstToExpire(ledger, found, plan[r], all[i].batch)
        BY <1>10, <2>1, <3>1
      <3> QED
        BY <1>9, <3>2, MorePlanned
    <2>2. CASE i - Len(plan[r]) \in 1..Len(more) /\ all[i] = more[i - Len(plan[r])]
      <3>1. FirstToExpire(ledger, found, more, all[i].batch)
        BY <1>7, <2>2
      <3> QED
        BY <1>9, <3>1, MoreOnTop
    <2> QED
      BY <1>9, <2>1, <2>2 DEF Joins
  <1>12. plan'[r] = all
    BY <1>1, <1>2 DEF WorkTyped
  <1>13. PlanIsFefo(r)'
    BY <1>2, <1>11, <1>12 DEF PlanIsFefo, found, tables
  <1>14. BatchesAreHeld(r)'
    BY <1>1, <1>2, <1>3 DEF BatchesAreHeld, AllLocked, Selects, tables
  <1> QED
    BY <1>13, <1>14


--------------------------------------------------------------------------------
LEMMA OwnShelf ==
  ASSUME FullInv, ShelfInv, NEW r \in Request,
         Begins(r) \/ Abandons(r) \/ GoesAhead(r) \/ WriteRow(r) \/ Commit(r)
  PROVE  BatchesAreHeld(r)' /\ PlanIsFefo(r)'
  <1>0. holder \in [Resources -> Request \cup {Free}] /\ pc \in [Request -> Labels]
    BY DEF FullInv, IInv, ControlOK
  <1>1. WorkTyped /\ Road(r) /\ BatchesAreHeld(r) /\ PlanIsFefo(r) /\ StockInv
    BY DEF FullInv, StockInv, Roads, ShelfInv
  <1>2. /\ listed[r] \in Seq(Batch) /\ DOMAIN listed[r] = 1..Len(listed[r])
        /\ Len(listed[r]) \in Nat /\ locked[r] \in Nat /\ locked[r] <= Len(listed[r])
    BY <1>1, LenProperties DEF WorkTyped, Road
  <1>3. \A i \in 1..locked[r] : listed[r][i] \in Resources
    <2>1. \A i \in 1..locked[r] : i \in 1..Len(listed[r])
      BY <1>2
    <2> QED
      BY <1>2, <2>1 DEF Resources
  <1>4. ASSUME ~Selects(r)' PROVE BatchesAreHeld(r)' /\ PlanIsFefo(r)'
    BY <1>4 DEF BatchesAreHeld, PlanIsFefo
  <1>5. CASE Begins(r)
    BY <1>0, <1>1, <1>4, <1>5
    DEF Begins, RequestSale, RequestVoid, RequestStock, Goto, Selects, WorkTyped
  <1>6. CASE Abandons(r)
    <2>1. pc'[r] \in Answered
      BY <1>0, <1>6 DEF Abandons, Abandon, End, Goto
    <2> QED
      BY <1>4, <2>1 DEF Selects, Answered
  <1>7. CASE Commit(r)
    BY <1>4, <1>7, CommitIs DEF Commits, Selects
  <1>8. CASE WriteRow(r)
    <2>1. /\ UNCHANGED <<ledger, batches, job, listed, locked, plan>>
          /\ pc[r] = "moving" /\ Acquire(r, Planned(r).batch)
      BY <1>8 DEF WriteRow, tables, work
    <2>2. \A i \in 1..locked[r] : holder[listed[r][i]] = r => holder'[listed[r][i]] = r
      BY <1>0, <1>3, <2>1, HoldersGrow
    <2>3. SUFFICES ASSUME Selects(r)' PROVE BatchesAreHeld(r)' /\ PlanIsFefo(r)'
      BY <1>4
    <2>4. Selects(r)
      BY <2>1, <2>3 DEF Selects
    <2>5. BatchesAreHeld(r)'
      BY <1>1, <2>1, <2>2, <2>4 DEF BatchesAreHeld, AllLocked
    <2>6. PlanIsFefo(r)'
      BY <1>1, <2>1, <2>4 DEF PlanIsFefo
    <2> QED
      BY <2>5, <2>6
  <1>9. CASE LockSettings(r)
    BY <1>0, <1>4, <1>9 DEF LockSettings, Goto, Selects
  <1>10. CASE ReadNumber(r)
    <2>1. /\ listed'[r] = BatchesOf(job[r].cart) /\ pc[r] = "numbering"
          /\ UNCHANGED <<batches, holder, job, locked, plan>> /\ pc'[r] = "locking"
      BY <1>0, <1>1, <1>10 DEF ReadNumber, Goto, WorkTyped, tables
    <2>2. ToSet(listed'[r]) \subseteq batches
      BY <1>1, <2>1, BatchesOfIs
    <2>3. locked[r] = 0 /\ plan[r] = <<>>
      BY <1>1, <2>1 DEF Road
    <2>4. BatchesAreHeld(r)'
      BY <2>1, <2>2, <2>3 DEF BatchesAreHeld
    <2>5. PlanIsFefo(r)'
      BY <2>1, <2>3 DEF PlanIsFefo
    <2> QED
      BY <2>4, <2>5
  <1>11. CASE LockNextBatch(r)
    <2>1. /\ UNCHANGED <<ledger, batches, pc, job, listed, plan>> /\ ~AllLocked(r)
          /\ Acquire(r, listed[r][locked[r] + 1]) /\ locked'[r] = locked[r] + 1
          /\ pc[r] = "locking"
      BY <1>1, <1>11 DEF LockNextBatch, WorkTyped, tables
    <2>2. job[r].kind = "sale" /\ Selects(r)
      BY <1>1, <2>1 DEF Road, Selects
    <2>3. plan[r] = <<>>
      BY <1>1, <2>1, <2>2 DEF BatchesAreHeld
    <2>4. locked[r] + 1 \in 1..Len(listed[r])
      BY <1>2, <2>1 DEF AllLocked
    <2>5. listed[r][locked[r] + 1] \in Resources
      BY <1>2, <2>4 DEF Resources
    <2>6. \A i \in 1..locked'[r] : i \in 1..locked[r] \/ i = locked[r] + 1
      BY <1>2, <2>1
    <2>7. \A i \in 1..locked'[r] : holder'[listed[r][i]] = r
      BY <1>0, <1>1, <1>3, <2>1, <2>2, <2>5, <2>6, HoldersGrow DEF BatchesAreHeld
    <2>8. BatchesAreHeld(r)'
      BY <1>1, <2>1, <2>2, <2>3, <2>7 DEF BatchesAreHeld
    <2>9. PlanIsFefo(r)'
      BY <2>1, <2>3 DEF PlanIsFefo
    <2> QED
      BY <2>8, <2>9
  <1>12. CASE AllocateLine(r)
    BY <1>12, AllocateLineShelf
  <1>13. CASE StartMoving(r)
    <2>1. /\ UNCHANGED <<ledger, batches, holder, job, listed, locked, plan>>
          /\ AllLocked(r) /\ pc[r] = "locking"
      BY <1>13 DEF StartMoving, AllAllocated, tables, work
    <2>2. Selects(r)
      BY <1>1, <2>1 DEF Road, Selects
    <2>3. BatchesAreHeld(r)'
      BY <1>1, <2>1, <2>2 DEF BatchesAreHeld, AllLocked
    <2>4. PlanIsFefo(r)'
      BY <1>1, <2>1, <2>2 DEF PlanIsFefo
    <2> QED
      BY <2>3, <2>4
  <1>14. CASE OpenSale(r) \/ OpenPurchase(r) \/ ResolveBatch(r) \/ InsertBatch(r) \/ UpdateCost(r)
    <2>1. /\ job' = job
          /\ pc[r] \in {"document", "resolving", "creating", "pricing"}
      BY <1>14 DEF OpenSale, OpenPurchase, ResolveBatch, InsertBatch, UpdateCost, work
    <2>2. job[r].kind # "sale"
      BY <1>1, <2>1 DEF Road
    <2> QED
      BY <1>4, <2>1, <2>2 DEF Selects
  <1> QED
    BY <1>5, <1>6, <1>7, <1>8, <1>9, <1>10, <1>11, <1>12, <1>13, <1>14 DEF GoesAhead

LEMMA StepShelfInv == FullInv /\ ShelfInv /\ [Next]_vars => ShelfInv'
  <1> SUFFICES ASSUME FullInv, ShelfInv, [Next]_vars PROVE ShelfInv'
    OBVIOUS
  <1>1. CASE UNCHANGED vars
    <2>1. UNCHANGED <<ledger, batches, holder, pc, job, listed, locked, plan>>
      BY <1>1 DEF vars, tables, work
    <2> QED
      BY <2>1 DEF ShelfInv, BatchesAreHeld, PlanIsFefo, Selects, AllLocked
  <1>2. ASSUME NEW r \in Request,
               Arrive(r) \/ Serve(r) \/ DeadlockVictim(r) \/ Rollback(r)
        PROVE  ShelfInv'
    <2>1. Begins(r) \/ Abandons(r) \/ GoesAhead(r) \/ WriteRow(r) \/ Commit(r)
      BY <1>2, StepsSplit
    <2>2. \A q \in Request \ {r} : Untouched(q)
      BY <2>1, OthersUntouched DEF FullInv, StockInv
    <2>3. batches \subseteq batches' /\ (ledger' = ledger \/ ledger' = ledger \cup pending[r])
      <3>1. CASE Commit(r)
        BY <3>1 DEF Commit
      <3>2. CASE ~Commit(r)
        BY <2>1, <3>2, QuietSteps
      <3> QED
        BY <3>1, <3>2
    <2>4. \A q \in Request \ {r} : BatchesAreHeld(q)' /\ PlanIsFefo(q)'
      BY <2>2, <2>3, OthersShelf
    <2>5. BatchesAreHeld(r)' /\ PlanIsFefo(r)'
      BY <2>1, OwnShelf
    <2> QED
      BY <2>4, <2>5 DEF ShelfInv
  <1> QED
    BY <1>1, <1>2 DEF Next

LEMMA ShelfInvariance == Spec => [](FullInv /\ ShelfInv)
  <1>1. Init => ShelfInv
    BY InitShelfInv
  <1>2. FullInv /\ ShelfInv /\ [Next]_vars => ShelfInv'
    BY StepShelfInv
  <1> QED
    BY <1>1, <1>2, FullInvariance, PTL DEF Spec


--------------------------------------------------------------------------------
\* What a sale has taken from a batch, added to what was there.
LEMMA CommitEmpties ==
  ASSUME FullInv, ShelfInv, NEW r \in Request, Commit(r), job[r].kind = "sale",
         NEW c \in ToSet(listed[r]), Emptied(ledger, plan[r], c)
  PROVE  OnHand(ledger', c) = 0
  <1> DEFINE mine == {row \in Written(r) : row.batch = c}
             old == {row \in ledger : row.batch = c}
  <1>1. WorkTyped /\ Road(r) /\ BatchesAreHeld(r) /\ PlanIsFefo(r) /\ OncePerBatch(plan[r])
    BY DEF FullInv, StockInv, Roads, ShelfInv, DocumentInv, WorkIs
  <1>2. Commits(r) /\ pc[r] = "moving" /\ Selects(r)
    BY CommitIs DEF Commits, Selects
  <1>3. /\ Written(r) = {RowOf(r, plan[r][i]) : i \in 1..Len(plan[r])}
        /\ \A i \in 1..Len(plan[r]) : plan[r][i] \in Movement
        /\ DOMAIN plan[r] = 1..Len(plan[r])
    <2>1. plan[r] \in Seq(Movement)
      BY <1>1 DEF WorkTyped
    <2> QED
      BY <1>2, <2>1, LenProperties DEF Commits, Written
  <1>4. \A m : RowOf(r, m).batch = m.batch /\ RowOf(r, m).quantity = m.quantity /\ RowOf(r, m).by = r
    BY DEF RowOf
  <1>5. OnHand(ledger', c) = Units(old \cup mine)
    <2>1. {row \in ledger' : row.batch = c} = old \cup mine
      BY <1>2 DEF Commits
    <2> QED
      BY <2>1 DEF OnHand
  <1>6. OnHand(ledger, c) = Units(old)
    BY DEF OnHand
  <1>7. CASE OnHand(ledger, c) = 0
    <2>1. ASSUME NEW row \in mine PROVE FALSE
      <3>1. PICK i \in 1..Len(plan[r]) : row = RowOf(r, plan[r][i])
        BY <1>3
      <3>2. plan[r][i].batch = c
        BY <1>4, <3>1
      <3>3. FirstToExpire(ledger, ToSet(listed[r]), plan[r], c)
        BY <1>1, <1>2, <3>2 DEF PlanIsFefo
      <3> QED
        BY <1>7, <3>3 DEF FirstToExpire
    <2>2. old \cup mine = old
      BY <2>1
    <2> QED
      BY <1>5, <1>6, <1>7, <2>2
  <1>8. CASE OnHand(ledger, c) # 0
    <2>1. PICK k \in 1..Len(plan[r]) : plan[r][k] = Move(c, -OnHand(ledger, c))
      BY <1>8 DEF Emptied
    <2> DEFINE row == RowOf(r, plan[r][k])
    <2>2. plan[r][k].batch = c /\ plan[r][k].quantity = -OnHand(ledger, c)
      BY <2>1 DEF Move
    <2>3. mine = {row}
      <3>1. row \in mine
        BY <1>3, <1>4, <2>2
      <3>2. ASSUME NEW x \in mine PROVE x = row
        <4>1. PICK i \in 1..Len(plan[r]) : x = RowOf(r, plan[r][i])
          BY <1>3
        <4>2. i = k
          BY <1>1, <1>3, <1>4, <2>2, <4>1 DEF OncePerBatch
        <4> QED
          BY <4>1, <4>2
      <3> QED
        BY <3>1, <3>2
    <2>4. row \notin old
      <3>1. row.by = r
        BY <1>4
      <3>2. \A x \in ledger : x.by # r
        BY <1>2 DEF FullInv, StockInv, CommittedWhole
      <3> QED
        BY <3>1, <3>2
    <2>5. row.quantity = -OnHand(ledger, c) /\ row.quantity \in Int
      <3>1. plan[r][k].quantity \in Int
        BY <1>3 DEF Movement
      <3> QED
        BY <1>4, <2>2, <3>1
    <2>6. IsFiniteSet(old) /\ \A x \in old : x.quantity \in Int
      <3>1. ledger \subseteq MovementRow /\ IsFiniteSet(ledger)
        BY DEF FullInv, StockInv, TablesTyped
      <3> QED
        BY <3>1, FS_Subset DEF MovementRow
    <2>7. Units(old) \in Int
      BY <2>6, UnitsType
    <2> HIDE DEF row, old
    <2>8. \A y \in old \cup {row} : y.quantity \in Int
      BY <2>5, <2>6
    <2>9. Units(old \cup {row}) = Units(old) + row.quantity
      BY <2>4, <2>6, <2>8, UnitsAdd
    <2>10. row.quantity = -Units(old)
      BY <1>6, <2>5
    <2>11. OnHand(ledger', c) = Units(old \cup {row})
      BY <1>5, <2>3
    <2> HIDE DEF mine
    <2> QED
      BY <2>7, <2>9, <2>10, <2>11
  <1> QED
    BY <1>7, <1>8

(***************************************************************************)
(* FEFO, for any stock, ranks, carts and interleaving: a sale that commits *)
(* has taken nothing expired, and has emptied the earlier batches of the   *)
(* product that its locking query found before it went on to a later one.  *)
(***************************************************************************)
THEOREM FefoIsFollowed == Spec => SalesFollowFefo
  <1>1. ASSUME FullInv, ShelfInv, [Next]_vars PROVE [FirstExpiryFirst]_vars
    <2>1. CASE UNCHANGED vars
      BY <2>1
    <2>2. ASSUME NEW q \in Request, Arrive(q) \/ Serve(q) \/ DeadlockVictim(q) \/ Rollback(q),
                 NEW r \in Request, CommitsSale(r), NEW i \in DOMAIN plan[r]
          PROVE  LET b == plan[r][i].batch IN
                 /\ b \notin Expired
                 /\ \A c \in ToSet(listed[r]) \ Expired :
                      ProductOf[c] = ProductOf[b] /\ FefoRank[c] < FefoRank[b]
                        => OnHand(ledger', c) = 0
      <3>1. Begins(q) \/ Abandons(q) \/ GoesAhead(q) \/ WriteRow(q) \/ Commit(q)
        BY <2>2, StepsSplit
      <3>2. pc[r] = "moving" /\ pc'[r] = "done" /\ job[r].kind = "sale"
        BY <2>2 DEF CommitsSale
      <3>3. q = r
        BY <1>1, <3>1, <3>2, OthersUntouched DEF FullInv, StockInv, Untouched
      <3>4. Commit(r)
        BY <1>1, <3>1, <3>2, <3>3, QuietSteps
      <3>5. i \in 1..Len(plan[r])
        <4>1. plan[r] \in Seq(Movement)
          BY <1>1 DEF FullInv, StockInv, WorkTyped
        <4> QED
          BY <2>2, <4>1, LenProperties
      <3>6. FirstToExpire(ledger, ToSet(listed[r]), plan[r], plan[r][i].batch)
        BY <1>1, <3>2, <3>5 DEF ShelfInv, PlanIsFefo, Selects
      <3> QED
        BY <1>1, <3>2, <3>4, <3>6, CommitEmpties DEF FirstToExpire
    <2>3. CASE Next
      BY <2>2, <2>3 DEF Next, FirstExpiryFirst
    <2> QED
      BY <1>1, <2>1, <2>3
  <1> QED
    BY <1>1, ShelfInvariance, PTL DEF Spec, SalesFollowFefo


--------------------------------------------------------------------------------
(***************************************************************************)
(* All or nothing.  A transaction that has created a batch is about to     *)
(* move stock in it, or has put some there: nothing else can be written of *)
(* a batch with no row of its own that only this transaction sees, as what *)
(* is taken from it would leave it below zero.                             *)
(***************************************************************************)
Fills(rows, b) == \E row \in rows : row.batch = b /\ row.by # Opening /\ row.quantity > 0

NextToMove(r, b) == pc[r] = "moving" /\ done[r] < Len(plan[r]) /\ Planned(r).batch = b

CreatorFills(r) ==
  \A b \in Batch \ batches : holder[b] = r => NextToMove(r, b) \/ Fills(pending[r], b)

CreatedAreFilled ==
  /\ \A b \in batches \ DOMAIN OpeningStock : Fills(ledger, b)
  /\ \A r \in Request : CreatorFills(r)

LEMMA InitCreatedAreFilled == Init => CreatedAreFilled
  <1> SUFFICES ASSUME Init PROVE CreatedAreFilled
    OBVIOUS
  <1>1. \A b \in Batch, r \in Request : holder[b] # r
    BY NobodyAssumption DEF Init, Resources
  <1>2. batches = DOMAIN OpeningStock
    BY DEF Init
  <1> QED
    BY <1>1, <1>2 DEF CreatedAreFilled, CreatorFills

LEMMA FirstRowFills ==
  ASSUME StockInv, NEW r \in Request, NEW b \in Batch \ batches, NEW q \in Int \ {0},
         ~Overdraws(r, b, q), ~Fills(pending[r], b)
  PROVE  q > 0
  <1> DEFINE S == {row \in pending[r] : row.batch = b}
  <1>1. \A row \in ledger : row.batch # b
    BY DEF StockInv, CommittedWhole
  <1>2. {row \in ledger \cup pending[r] : row.batch = b} = S
    BY <1>1
  <1>3. Stock(r, b) = Units(S)
    BY <1>2 DEF Stock, OnHand
  <1>4. \A row \in S : row.quantity \in Int /\ row.quantity <= 0
    <2> SUFFICES ASSUME NEW row \in S PROVE row.quantity \in Int /\ row.quantity <= 0
      OBVIOUS
    <2>1. row \in MovementRow /\ row.by = r
      BY DEF StockInv, WorkTyped, WritersHold
    <2>2. row.quantity \in Int /\ row.by # Opening
      BY <2>1, NobodyAssumption DEF MovementRow
    <2>3. ~(row.quantity > 0)
      BY <2>2 DEF Fills
    <2> QED
      BY <2>2, <2>3
  <1>5. IsFiniteSet(S)
    BY FS_Subset DEF StockInv, WorkTyped
  <1> HIDE DEF S
  <1>6. Units(S) \in Int /\ -Units(S) \in Nat
    BY <1>4, <1>5, UnitsType, UnitsSign
  <1> QED
    BY <1>3, <1>6 DEF Overdraws

LEMMA OthersCreate ==
  ASSUME NEW q \in Request, CreatorFills(q), Untouched(q), batches \subseteq batches'
  PROVE  CreatorFills(q)'
  <1>1. Batch \subseteq Resources
    BY DEF Resources
  <1>2. ASSUME NEW b \in Batch \ batches', holder'[b] = q
        PROVE  NextToMove(q, b)' \/ Fills(pending'[q], b)
    <2>1. holder[b] = q
      BY <1>1, <1>2 DEF Untouched
    <2>2. NextToMove(q, b) \/ Fills(pending[q], b)
      BY <1>2, <2>1 DEF CreatorFills
    <2>3. pending'[q] = pending[q] /\ NextToMove(q, b)' = NextToMove(q, b)
      BY DEF Untouched, NextToMove, Planned
    <2> QED
      BY <2>2, <2>3
  <1> QED
    BY <1>2 DEF CreatorFills

LEMMA WriterFills ==
  ASSUME FullInv, NEW r \in Request, CreatorFills(r), WriteRow(r)
  PROVE  CreatorFills(r)'
  <1>0. holder \in [Resources -> Request \cup {Free}]
    BY DEF FullInv, IInv, ControlOK
  <1>1. /\ pc[r] = "moving" /\ done[r] < Len(plan[r])
        /\ ~Overdraws(r, Planned(r).batch, Planned(r).quantity)
        /\ Acquire(r, Planned(r).batch) /\ batches' = batches
        /\ pending'[r] = pending[r] \cup {RowOf(r, Planned(r))}
    BY DEF WriteRow, tables, FullInv, StockInv, WorkTyped
  <1>2. Planned(r) \in Movement
    BY <1>1 DEF Planned, FullInv, StockInv, WorkTyped, Roads, Road
  <1>3. Planned(r).quantity \in Int \ {0}
    BY <1>2 DEF Movement
  <1> SUFFICES ASSUME NEW b \in Batch \ batches, holder'[b] = r
               PROVE  Fills(pending'[r], b)
    BY <1>1 DEF CreatorFills
  <1>4. b \in Resources
    BY DEF Resources
  <1>5. CASE Fills(pending[r], b)
    BY <1>1, <1>5 DEF Fills
  <1>6. CASE ~Fills(pending[r], b) /\ b = Planned(r).batch
    <2>1. Planned(r).quantity > 0
      BY <1>1, <1>3, <1>6, FirstRowFills DEF FullInv
    <2>2. /\ RowOf(r, Planned(r)).batch = b /\ RowOf(r, Planned(r)).by = r
          /\ RowOf(r, Planned(r)).quantity = Planned(r).quantity
      BY <1>6 DEF RowOf
    <2>3. r # Opening
      BY NobodyAssumption
    <2> QED
      BY <1>1, <2>1, <2>2, <2>3 DEF Fills
  <1>7. CASE b # Planned(r).batch
    <2>1. holder[b] = r
      BY <1>0, <1>1, <1>4, <1>7, HoldersGrow
    <2>2. ~NextToMove(r, b)
      BY <1>7 DEF NextToMove
    <2> QED
      BY <1>5, <2>1, <2>2 DEF CreatorFills
  <1> QED
    BY <1>5, <1>6, <1>7

LEMMA OwnCreate ==
  ASSUME FullInv, ShelfInv, NEW r \in Request, CreatorFills(r),
         Begins(r) \/ Abandons(r) \/ GoesAhead(r) \/ WriteRow(r) \/ Commit(r)
  PROVE  CreatorFills(r)'
  <1>0. holder \in [Resources -> Request \cup {Free}] /\ pc \in [Request -> Labels]
    BY DEF FullInv, IInv, ControlOK
  <1>1. WorkTyped /\ Road(r) /\ BatchesAreHeld(r)
    BY DEF FullInv, StockInv, Roads, ShelfInv
  <1>2. Batch \subseteq Resources
    BY DEF Resources
  <1>3. ASSUME batches' = batches, pending'[r] = pending[r], pc[r] # "moving",
               \A b \in Batch \ batches : holder'[b] = r => holder[b] = r \/ NextToMove(r, b)'
        PROVE  CreatorFills(r)'
    BY <1>3 DEF CreatorFills, NextToMove
  <1>4. ASSUME NEW x, Acquire(r, x), x \notin Batch \ batches, NEW b \in Batch \ batches
        PROVE  holder'[b] = r => holder[b] = r
    BY <1>0, <1>2, <1>4, HoldersGrow
  <1>5. ASSUME \A x \in Resources : holder'[x] # r
        PROVE  CreatorFills(r)'
    BY <1>2, <1>5 DEF CreatorFills
  <1>6. CASE Begins(r)
    BY <1>3, <1>6 DEF Begins, RequestSale, RequestVoid, RequestStock, tables
  <1>7. CASE Abandons(r)
    BY <1>0, <1>5, <1>7, LocksFall, NobodyAssumption DEF Abandons, Abandon, End
  <1>8. CASE Commit(r)
    BY <1>5, <1>8, CommitIs
  <1>9. CASE WriteRow(r)
    BY <1>9, WriterFills
  <1>10. CASE LockSettings(r)
    <2>1. Settings \notin Batch
      BY TablesAreDisjoint
    <2> QED
      BY <1>3, <1>4, <1>10, <2>1 DEF LockSettings, tables
  <1>11. CASE ReadNumber(r) \/ AllocateLine(r) \/ StartMoving(r) \/ ResolveBatch(r)
    BY <1>3, <1>11
    DEF ReadNumber, AllocateLine, StartMoving, AllAllocated, ResolveBatch, tables
  <1>12. CASE LockNextBatch(r)
    <2>1. /\ Acquire(r, listed[r][locked[r] + 1]) /\ ~AllLocked(r) /\ pc[r] = "locking"
          /\ UNCHANGED <<batches, pending>>
      BY <1>12 DEF LockNextBatch, tables
    <2>2. ToSet(listed[r]) \subseteq batches
      BY <1>1, <2>1 DEF BatchesAreHeld, Selects, Road
    <2>3. locked[r] + 1 \in DOMAIN listed[r]
      BY <1>1, <2>1 DEF AllLocked, WorkTyped, Road
    <2>4. listed[r][locked[r] + 1] \in batches
      BY <2>2, <2>3 DEF ToSet
    <2> QED
      BY <1>3, <1>4, <2>1, <2>4
  <1>13. CASE OpenSale(r) \/ OpenPurchase(r) \/ UpdateCost(r)
    <2>1. PICK x : Acquire(r, x) /\ x \in Request \cup Purchase \cup Product
      <3>1. CASE OpenSale(r)
        BY <1>1, <3>1, JobOfIs DEF OpenSale
      <3>2. CASE OpenPurchase(r)
        BY <1>1, <3>2, JobOfIs DEF OpenPurchase
      <3>3. CASE UpdateCost(r)
        <4>1. plan[r][done[r]] \in Movement
          BY <1>1, <3>3 DEF UpdateCost, Road, WorkTyped
        <4>2. LastProduct(r) \in Product
          BY <4>1, OrdersAreTotal DEF LastProduct, Movement
        <4> QED
          BY <3>3, <4>2 DEF UpdateCost
      <3> QED
        BY <1>13, <3>1, <3>2, <3>3
    <2>2. x \notin Batch
      BY <2>1, TablesAreDisjoint
    <2>3. UNCHANGED <<batches, pending>> /\ pc[r] # "moving"
      BY <1>13 DEF OpenSale, OpenPurchase, UpdateCost, tables
    <2> QED
      BY <1>3, <1>4, <2>1, <2>2, <2>3
  <1>14. CASE InsertBatch(r)
    <2>1. /\ Acquire(r, Planned(r).batch) /\ pc[r] = "creating" /\ pc'[r] = "moving"
          /\ UNCHANGED <<batches, pending, plan, done>>
      BY <1>0, <1>14 DEF InsertBatch, Goto, tables, work
    <2>2. \A b : b = Planned(r).batch => NextToMove(r, b)'
      BY <1>1, <2>1 DEF NextToMove, Planned, Road
    <2>3. \A b \in Batch : b = Planned(r).batch \/ (holder'[b] = r => holder[b] = r)
      BY <1>0, <1>2, <2>1, HoldersGrow
    <2> QED
      BY <1>3, <2>1, <2>2, <2>3
  <1> QED
    BY <1>6, <1>7, <1>8, <1>9, <1>10, <1>11, <1>12, <1>13, <1>14 DEF GoesAhead

LEMMA StepCreatedAreFilled ==
  FullInv /\ ShelfInv /\ CreatedAreFilled /\ [Next]_vars => CreatedAreFilled'
  <1> SUFFICES ASSUME FullInv, ShelfInv, CreatedAreFilled, [Next]_vars
               PROVE  CreatedAreFilled'
    OBVIOUS
  <1>1. CASE UNCHANGED vars
    <2>1. UNCHANGED <<ledger, batches, holder, pc, plan, done, pending>>
      BY <1>1 DEF vars, tables, work
    <2> QED
      BY <2>1 DEF CreatedAreFilled, CreatorFills, NextToMove, Planned, Fills
  <1>2. ASSUME NEW r \in Request,
               Arrive(r) \/ Serve(r) \/ DeadlockVictim(r) \/ Rollback(r)
        PROVE  CreatedAreFilled'
    <2>1. Begins(r) \/ Abandons(r) \/ GoesAhead(r) \/ WriteRow(r) \/ Commit(r)
      BY <1>2, StepsSplit
    <2>2. \A q \in Request \ {r} : Untouched(q)
      BY <2>1, OthersUntouched DEF FullInv, StockInv
    <2>3. batches \subseteq batches'
          /\ \A b \in batches' \ DOMAIN OpeningStock : Fills(ledger', b)
      <3>1. CASE Commit(r)
        <4>1. /\ ledger' = ledger \cup pending[r] /\ pc[r] = "moving" /\ done[r] = Len(plan[r])
              /\ batches' = batches \cup {b \in Batch : holder[b] = r}
          BY <3>1 DEF Commit
        <4>2. \A b \in Batch \ batches : ~NextToMove(r, b)
          BY <4>1 DEF NextToMove, FullInv, StockInv, WorkTyped
        <4>3. \A b \in batches' \ batches : Fills(pending[r], b)
          BY <4>1, <4>2 DEF CreatedAreFilled, CreatorFills
        <4> QED
          BY <4>1, <4>3 DEF CreatedAreFilled, Fills
      <3>2. CASE ~Commit(r)
        <4>1. UNCHANGED <<ledger, batches>>
          BY <2>1, <3>2, QuietSteps
        <4> QED
          BY <4>1 DEF CreatedAreFilled
      <3> QED
        BY <3>1, <3>2
    <2>4. \A q \in Request \ {r} : CreatorFills(q)'
      BY <2>2, <2>3, OthersCreate DEF CreatedAreFilled
    <2>5. CreatorFills(r)'
      BY <2>1, OwnCreate DEF CreatedAreFilled
    <2> QED
      BY <2>3, <2>4, <2>5 DEF CreatedAreFilled
  <1> QED
    BY <1>1, <1>2 DEF Next

(***************************************************************************)
(* "Any failure rolls back every row and stock movement written here":     *)
(* rows and batches become visible in a commit only, a row together with   *)
(* its batch, which its transaction holds, and a batch together with the   *)
(* movement that fills it.  Of a request that failed nothing is left, not  *)
(* even a batch it created.                                                *)
(***************************************************************************)
THEOREM NothingByHalves == Spec => []AllOrNothing
  <1>1. Init => CreatedAreFilled
    BY InitCreatedAreFilled
  <1>2. FullInv /\ ShelfInv /\ CreatedAreFilled /\ [Next]_vars => CreatedAreFilled'
    BY StepCreatedAreFilled
  <1>3. ASSUME FullInv, CreatedAreFilled PROVE AllOrNothing
    <2>1. \A r \in Request : pc[r] \in Answered => \A x \in Resources : holder[x] # r
      BY <1>3 DEF FullInv, IInv, HoldersWork
    <2>2. \A row \in ledger : row.batch \in batches /\ (row.by = Opening \/ pc[row.by] = "done")
      BY <1>3 DEF FullInv, StockInv, TablesTyped, MovementRow, CommittedWhole
    <2> QED
      BY <1>3, <2>1, <2>2 DEF CreatedAreFilled, Fills, AllOrNothing
  <1> QED
    BY <1>1, <1>2, <1>3, ShelfInvariance, PTL DEF Spec
================================================================================
