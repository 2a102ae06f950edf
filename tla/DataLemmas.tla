------------------------------- MODULE DataLemmas -------------------------------
(***************************************************************************)
(* Induction over finite data without operator parameters: a set of        *)
(* counterexamples that is not empty has a smallest one.  From it: what a  *)
(* fold, a loop and ORDER BY compute, whatever the data.                   *)
(***************************************************************************)
EXTENDS Functions, FiniteSetsExt, FiniteSetTheorems, WellFoundedInduction, TLAPS

(***************************************************************************)
(* Induction: a set of numbers that is not empty has a smallest member.    *)
(***************************************************************************)
LEMMA Smallest ==
  ASSUME NEW T \in SUBSET Nat, NEW n \in T
  PROVE  \E m \in T : \A k \in T : m <= k
  <1>1. T \subseteq Nat /\ T # {} /\ IsWellFoundedOn(OpToRel(<, Nat), Nat)
    BY NatLessThanWellFounded
  <1>2. PICK m \in T : \A k \in T : <<k, m>> \notin OpToRel(<, Nat)
    BY <1>1, WFMin
  <1>3. \A k \in T : ~(k < m)
    BY <1>2 DEF OpToRel
  <1> QED
    BY <1>3

(***************************************************************************)
(* Induction on numbers and on finite sets, for the members of a set P.    *)
(***************************************************************************)
LEMMA NatInduces ==
  ASSUME NEW P, 0 \in P, \A n \in Nat : n \in P => n + 1 \in P
  PROVE  Nat \subseteq P
  <1> SUFFICES ASSUME NEW b \in Nat \ P PROVE FALSE
    OBVIOUS
  <1>1. PICK m \in Nat \ P : \A k \in Nat \ P : m <= k
    BY Smallest
  <1>2. m - 1 \in Nat /\ m - 1 \in P
    BY <1>1
  <1> QED
    BY <1>1, <1>2

LEMMA SmallestSet ==
  ASSUME NEW D, IsFiniteSet(D), NEW Bad \in SUBSET SUBSET D, NEW b \in Bad
  PROVE  \E s \in Bad : \A x \in s : s \ {x} \in (SUBSET D) \ Bad
  <1> DEFINE Sizes == {Cardinality(s) : s \in Bad}
  <1>1. \A s \in SUBSET D : IsFiniteSet(s) /\ Cardinality(s) \in Nat
    BY FS_Subset, FS_CardinalityType
  <1>2. Cardinality(b) \in Sizes /\ Sizes \subseteq Nat
    BY <1>1
  <1>3. PICK n \in Sizes : \A k \in Sizes : n <= k
    BY <1>2, Smallest
  <1>4. PICK s \in Bad : Cardinality(s) = n
    BY <1>3
  <1>5. ASSUME NEW x \in s PROVE s \ {x} \in (SUBSET D) \ Bad
    <2>1. IsFiniteSet(s) /\ n \in Nat
      BY <1>1, <1>4
    <2>2. Cardinality(s \ {x}) = Cardinality(s) - 1
      BY <2>1, FS_RemoveElement
    <2>3. s \ {x} \in SUBSET D
      OBVIOUS
    <2>4. Cardinality(s \ {x}) \notin Sizes
      BY <1>3, <1>4, <2>1, <2>2
    <2> QED
      BY <2>3, <2>4
  <1> QED
    BY <1>5

LEMMA SetInduces ==
  ASSUME NEW D, IsFiniteSet(D), NEW P, {} \in P,
         \A s \in SUBSET D : \A x \in D \ s : s \in P => s \cup {x} \in P
  PROVE  D \in P
  <1> DEFINE Bad == (SUBSET D) \ P
  <1> SUFFICES ASSUME D \notin P PROVE FALSE
    OBVIOUS
  <1>1. D \in Bad /\ Bad \in SUBSET SUBSET D
    OBVIOUS
  <1>2. PICK s \in Bad : \A x \in s : s \ {x} \in (SUBSET D) \ Bad
    <2> HIDE DEF Bad
    <2> QED
      BY <1>1, SmallestSet
  <1>3. PICK x \in s : TRUE
    BY <1>2
  <1>4. s \ {x} \in SUBSET D /\ s \ {x} \in P /\ x \in D \ (s \ {x})
    BY <1>2
  <1>5. (s \ {x}) \cup {x} = s
    OBVIOUS
  <1> QED
    BY <1>2, <1>4, <1>5

(***************************************************************************)
(* A function on the subsets of a finite set may be defined by what it is  *)
(* for a set from which one member, picked, is taken away.                 *)
(***************************************************************************)
Picks(pick, D) ==
  /\ pick \in [(SUBSET D) \ {{}} -> D]
  /\ \A s \in (SUBSET D) \ {{}} : pick[s] \in s

Iterates(it, D, base, pick, step) ==
  \A s \in SUBSET D :
    it[s] = IF s = {} THEN base ELSE step[<<pick[s], it[s \ {pick[s]}]>>]

LEMMA Iteration ==
  ASSUME NEW D, IsFiniteSet(D), NEW V, NEW base \in V,
         NEW pick, Picks(pick, D), NEW step \in [D \X V -> V]
  PROVE  \E it \in [SUBSET D -> V] : Iterates(it, D, base, pick, step)
  <1> DEFINE Upto(n) == {s \in SUBSET D : Cardinality(s) <= n}
             Good(it, n) ==
               /\ it \in [SUBSET D -> V]
               /\ \A s \in Upto(n) :
                    it[s] = IF s = {} THEN base ELSE step[<<pick[s], it[s \ {pick[s]}]>>]
             Bad == {n \in Nat : ~\E it : Good(it, n)}
  <1>1. \A s \in SUBSET D : IsFiniteSet(s) /\ Cardinality(s) \in Nat
    BY FS_Subset, FS_CardinalityType
  <1>2. \A s \in (SUBSET D) \ {{}} :
          /\ pick[s] \in D /\ s \ {pick[s]} \in SUBSET D
          /\ Cardinality(s \ {pick[s]}) = Cardinality(s) - 1
    BY <1>1, FS_RemoveElement DEF Picks
  <1> HIDE DEF Good
  <1>0. Bad \subseteq Nat /\ \A n \in Nat : n \in Bad <=> ~\E it : Good(it, n)
    OBVIOUS
  <1> HIDE DEF Bad
  <1>3. Bad = {}
    <2> SUFFICES ASSUME NEW b \in Bad PROVE FALSE
      OBVIOUS
    <2>1. PICK n \in Bad : \A k \in Bad : n <= k
      BY <1>0, Smallest
    <2>5. n \in Nat /\ ~\E it : Good(it, n)
      BY <1>0, <2>1
    <2>2. CASE n = 0
      <3>1. \A s \in Upto(0) : s = {}
        <4> SUFFICES ASSUME NEW s \in SUBSET D, Cardinality(s) <= 0 PROVE s = {}
          OBVIOUS
        <4>1. Cardinality(s) = 0
          BY <1>1
        <4> QED
          BY <1>1, <4>1, FS_EmptySet
      <3>2. Good([s \in SUBSET D |-> base], 0)
        BY <3>1 DEF Good
      <3> QED
        BY <2>5, <2>2, <3>2
    <2>3. CASE n # 0
      <3>1. n - 1 \in Nat /\ n - 1 \notin Bad
        BY <2>1, <2>3, <2>5
      <3>2. PICK it : Good(it, n - 1)
        BY <1>0, <3>1
      <3> DEFINE jt == [s \in SUBSET D |->
                          IF s = {} THEN base
                          ELSE IF s \in Upto(n - 1) THEN it[s]
                          ELSE step[<<pick[s], it[s \ {pick[s]}]>>]]
      <3>3. jt \in [SUBSET D -> V]
        BY <1>2, <3>2 DEF Good
      <3>4. \A s \in Upto(n - 1) : jt[s] = it[s]
        BY <3>2 DEF Good
      <3>5. ASSUME NEW s \in Upto(n), s # {}
            PROVE  jt[s] = step[<<pick[s], jt[s \ {pick[s]}]>>]
        <4>1. s \ {pick[s]} \in Upto(n - 1)
          BY <1>1, <1>2, <2>5, <3>1, <3>5
        <4>2. jt[s \ {pick[s]}] = it[s \ {pick[s]}]
          BY <3>4, <4>1
        <4>3. CASE s \in Upto(n - 1)
          BY <3>2, <3>4, <3>5, <4>2, <4>3 DEF Good
        <4>4. CASE s \notin Upto(n - 1)
          BY <3>5, <4>2, <4>4
        <4> QED
          BY <4>3, <4>4
      <3>6. Good(jt, n)
        <4>1. \A s \in Upto(n) : jt[s] = IF s = {} THEN base
                                         ELSE step[<<pick[s], jt[s \ {pick[s]}]>>]
          BY <3>5
        <4> HIDE DEF jt
        <4> QED
          BY <3>3, <4>1 DEF Good
      <3> QED
        BY <2>5, <3>6
    <2> QED
      BY <2>2, <2>3
  <1>4. Cardinality(D) \in Nat /\ \A s \in SUBSET D : Cardinality(s) <= Cardinality(D)
    BY FS_Subset, FS_CardinalityType
  <1>5. PICK it : Good(it, Cardinality(D))
    BY <1>0, <1>3, <1>4
  <1>6. Upto(Cardinality(D)) = SUBSET D
    BY <1>4
  <1> QED
    BY <1>5, <1>6 DEF Good, Iterates

(***************************************************************************)
(* The community modules' sum of the values of a function over a set.      *)
(***************************************************************************)
AnyOf(s) == CHOOSE x \in s : TRUE

Unfolds(it, S, w) ==
  /\ it \in [SUBSET S -> Int]
  /\ \A s \in SUBSET S : it[s] = IF s = {} THEN 0 ELSE w[AnyOf(s)] + it[s \ {AnyOf(s)}]

LEMMA SumUnfolds ==
  ASSUME NEW S, IsFiniteSet(S), NEW w, \A x \in S : w[x] \in Int
  PROVE  \E it : Unfolds(it, S, w) /\ SumFunctionOnSet(w, S) = it[S]
  <1> DEFINE Next(it, s) == IF s = {} THEN 0 ELSE w[AnyOf(s)] + it[s \ {AnyOf(s)}]
             Body(it) == [s \in SUBSET S |-> Next(it, s)]
             pick == [s \in (SUBSET S) \ {{}} |-> AnyOf(s)]
             step == [xv \in S \X Int |-> w[xv[1]] + xv[2]]
             iter == CHOOSE it : it = Body(it)
  <1>1. \A s \in (SUBSET S) \ {{}} : AnyOf(s) \in s
    BY DEF AnyOf
  <1>2. PICK it \in [SUBSET S -> Int] : Iterates(it, S, 0, pick, step)
    <2>1. Picks(pick, S)
      BY <1>1 DEF Picks
    <2>2. step \in [S \X Int -> Int] /\ 0 \in Int
      OBVIOUS
    <2> HIDE DEF pick, step
    <2> QED
      BY <2>1, <2>2, Iteration, Zenon
  <1>3. \A s \in SUBSET S : it[s] = Next(it, s)
    <2> SUFFICES ASSUME NEW s \in SUBSET S PROVE it[s] = Next(it, s)
      OBVIOUS
    <2>1. CASE s = {}
      BY <1>2, <2>1 DEF Iterates
    <2>2. CASE s # {}
      <3>1. pick[s] = AnyOf(s) /\ AnyOf(s) \in S /\ s \ {AnyOf(s)} \in SUBSET S
        BY <1>1, <2>2
      <3>2. it[s \ {AnyOf(s)}] \in Int
        BY <1>2, <3>1
      <3> QED
        BY <1>2, <2>2, <3>1, <3>2 DEF Iterates
    <2> QED
      BY <2>1, <2>2
  <1>4. it = Body(it)
    BY <1>2, <1>3
  <1> HIDE DEF Next
  <1>5. iter = Body(iter)
    BY <1>4
  <1> HIDE DEF iter
  <1>6. SumFunctionOnSet(w, S) = iter[S]
    BY DEF SumFunctionOnSet, FoldFunctionOnSet, MapThenFoldSet, AnyOf, iter, Next
  <1>7. ASSUME NEW s0 \in SUBSET S, iter[s0] # it[s0] PROVE FALSE
    <2> DEFINE Bad == {s \in SUBSET S : iter[s] # it[s]}
    <2>0. s0 \in Bad /\ Bad \in SUBSET SUBSET S
      BY <1>7
    <2>1. PICK s \in Bad : \A x \in s : s \ {x} \in (SUBSET S) \ Bad
      <3> HIDE DEF Bad
      <3> QED
        BY <2>0, SmallestSet
    <2>2. iter[s] = Next(iter, s) /\ it[s] = Next(it, s)
      BY <1>3, <1>5
    <2>3. s # {}
      BY <2>1, <2>2 DEF Next
    <2>4. iter[s \ {AnyOf(s)}] = it[s \ {AnyOf(s)}]
      BY <1>1, <2>1, <2>3
    <2> QED
      BY <2>1, <2>2, <2>3, <2>4 DEF Next
  <1>8. Unfolds(it, S, w)
    BY <1>2, <1>3 DEF Unfolds, Next
  <1>9. iter[S] = it[S]
    BY <1>7
  <1> QED
    BY <1>6, <1>8, <1>9

(***************************************************************************)
(* The sum does not depend on the order: any member may be taken first.    *)
(***************************************************************************)
AddsUp(it, S, w) ==
  /\ it \in [SUBSET S -> Int] /\ it[{}] = 0
  /\ \A s \in SUBSET S : \A x \in s : it[s] = w[x] + it[s \ {x}]
  /\ \A s \in SUBSET S : SumFunctionOnSet(w, s) = it[s]

LEMMA SumAddsUp ==
  ASSUME NEW S, IsFiniteSet(S), NEW w, \A x \in S : w[x] \in Int
  PROVE  \E it : AddsUp(it, S, w)
  <1>1. \A s \in SUBSET S : IsFiniteSet(s)
    BY FS_Subset
  <1>2. PICK it : Unfolds(it, S, w)
    BY SumUnfolds
  <1>3. \A s \in SUBSET S : s # {} => AnyOf(s) \in s
    BY DEF AnyOf
  <1>4. ASSUME NEW s0 \in SUBSET S, NEW x0 \in s0, it[s0] # w[x0] + it[s0 \ {x0}]
        PROVE  FALSE
    <2> DEFINE Bad == {s \in SUBSET S : \E x \in s : it[s] # w[x] + it[s \ {x}]}
    <2>1. s0 \in Bad /\ Bad \in SUBSET SUBSET S
      BY <1>4
    <2>2. PICK s \in Bad : \A x \in s : s \ {x} \in (SUBSET S) \ Bad
      <3> HIDE DEF Bad
      <3> QED
        BY <2>1, SmallestSet
    <2>3. PICK x \in s : it[s] # w[x] + it[s \ {x}]
      OBVIOUS
    <2>4. PICK a \in s : it[s] = w[a] + it[s \ {a}]
      BY <1>2, <1>3, <2>3 DEF Unfolds
    <2>5. x # a
      BY <2>3, <2>4
    <2>6. it[s \ {a}] = w[x] + it[(s \ {a}) \ {x}]
      BY <2>2, <2>5
    <2>7. it[s \ {x}] = w[a] + it[(s \ {x}) \ {a}]
      BY <2>2, <2>5
    <2>8. (s \ {a}) \ {x} = (s \ {x}) \ {a}
      OBVIOUS
    <2> DEFINE rest == it[(s \ {x}) \ {a}]
    <2>9. w[a] \in Int /\ w[x] \in Int /\ rest \in Int
      BY <1>2 DEF Unfolds
    <2>10. it[s] = w[a] + (w[x] + rest) /\ it[s \ {x}] = w[a] + rest
      BY <2>4, <2>6, <2>7, <2>8
    <2> HIDE DEF rest
    <2> QED
      BY <2>3, <2>9, <2>10
  <1>5. it[{}] = 0
    BY <1>2 DEF Unfolds
  <1>6. ASSUME NEW T \in SUBSET S
        PROVE  SumFunctionOnSet(w, T) = it[T]
    <2>1. IsFiniteSet(T) /\ \A x \in T : w[x] \in Int
      BY <1>1
    <2>2. PICK jt : Unfolds(jt, T, w) /\ SumFunctionOnSet(w, T) = jt[T]
      BY <2>1, SumUnfolds
    <2> DEFINE Bad == {s \in SUBSET T : jt[s] # it[s]}
    <2> SUFFICES ASSUME jt[T] # it[T] PROVE FALSE
      BY <2>2
    <2>3. T \in Bad /\ Bad \in SUBSET SUBSET T
      OBVIOUS
    <2>4. PICK s \in Bad : \A x \in s : s \ {x} \in (SUBSET T) \ Bad
      <3> HIDE DEF Bad
      <3> QED
        BY <2>1, <2>3, SmallestSet
    <2>5. s # {}
      BY <1>5, <2>2, <2>4 DEF Unfolds
    <2>6. jt[s \ {AnyOf(s)}] = it[s \ {AnyOf(s)}]
      BY <1>3, <2>4, <2>5
    <2>7. jt[s] = w[AnyOf(s)] + jt[s \ {AnyOf(s)}]
      BY <2>2, <2>5 DEF Unfolds
    <2>8. it[s] = w[AnyOf(s)] + it[s \ {AnyOf(s)}]
      BY <1>2, <2>5 DEF Unfolds
    <2> QED
      BY <2>4, <2>6, <2>7, <2>8
  <1> QED
    BY <1>2, <1>4, <1>5, <1>6 DEF AddsUp, Unfolds

(***************************************************************************)
(* The laws of sums.                                                       *)
(***************************************************************************)
LEMMA SumEmpty ==
  ASSUME NEW w PROVE SumFunctionOnSet(w, {}) = 0
  <1>1. IsFiniteSet({}) /\ \A x \in {} : w[x] \in Int
    BY FS_EmptySet
  <1>2. PICK it : AddsUp(it, {}, w)
    BY <1>1, SumAddsUp
  <1> QED
    BY <1>2 DEF AddsUp

LEMMA SumType ==
  ASSUME NEW S, IsFiniteSet(S), NEW w, \A x \in S : w[x] \in Int
  PROVE  SumFunctionOnSet(w, S) \in Int
  <1>1. PICK it : AddsUp(it, S, w)
    BY SumAddsUp
  <1> QED
    BY <1>1 DEF AddsUp

LEMMA SumAdd ==
  ASSUME NEW S, IsFiniteSet(S), NEW x, x \notin S, NEW w, \A y \in S \cup {x} : w[y] \in Int
  PROVE  SumFunctionOnSet(w, S \cup {x}) = w[x] + SumFunctionOnSet(w, S)
  <1> DEFINE T == S \cup {x}
  <1>1. IsFiniteSet(T) /\ \A y \in T : w[y] \in Int
    BY FS_AddElement
  <1>2. T \in SUBSET T /\ S \in SUBSET T /\ T \ {x} = S /\ x \in T
    OBVIOUS
  <1> HIDE DEF T
  <1>3. PICK it : AddsUp(it, T, w)
    BY <1>1, SumAddsUp
  <1>4. it[T] = w[x] + it[S]
    BY <1>2, <1>3 DEF AddsUp
  <1>5. SumFunctionOnSet(w, T) = it[T] /\ SumFunctionOnSet(w, S) = it[S]
    BY <1>2, <1>3 DEF AddsUp
  <1> QED
    BY <1>4, <1>5 DEF T

LEMMA SumSame ==
  ASSUME NEW S, IsFiniteSet(S), NEW w, NEW v, \A x \in S : w[x] \in Int /\ v[x] = w[x]
  PROVE  SumFunctionOnSet(v, S) = SumFunctionOnSet(w, S)
  <1> DEFINE P == {s \in SUBSET S : SumFunctionOnSet(v, s) = SumFunctionOnSet(w, s)}
  <1>1. {} \in P
    BY SumEmpty
  <1>2. ASSUME NEW s \in SUBSET S, NEW x \in S \ s, s \in P
        PROVE  s \cup {x} \in P
    <2>1. IsFiniteSet(s)
      BY FS_Subset
    <2>2. SumFunctionOnSet(v, s \cup {x}) = v[x] + SumFunctionOnSet(v, s)
      BY <2>1, SumAdd
    <2>3. SumFunctionOnSet(w, s \cup {x}) = w[x] + SumFunctionOnSet(w, s)
      BY <2>1, SumAdd
    <2> QED
      BY <1>2, <2>2, <2>3
  <1> HIDE DEF P
  <1>3. S \in P
    BY <1>1, <1>2, SetInduces
  <1> QED
    BY <1>3 DEF P

LEMMA SumUnion ==
  ASSUME NEW S, IsFiniteSet(S), NEW T, IsFiniteSet(T), S \cap T = {},
         NEW w, \A x \in S \cup T : w[x] \in Int
  PROVE  SumFunctionOnSet(w, S \cup T) = SumFunctionOnSet(w, S) + SumFunctionOnSet(w, T)
  <1> DEFINE Sum(s) == SumFunctionOnSet(w, s)
             P == {s \in SUBSET T : Sum(S \cup s) = Sum(S) + Sum(s)}
  <1>0. \A s \in SUBSET T : IsFiniteSet(s) /\ IsFiniteSet(S \cup s)
    BY FS_Subset, FS_Union
  <1>5. \A s \in SUBSET T : Sum(s) \in Int /\ Sum(S) \in Int
    BY <1>0, SumType
  <1>1. {} \in P
    <2>1. Sum({}) = 0
      BY SumEmpty
    <2>2. S \cup {} = S
      OBVIOUS
    <2> HIDE DEF Sum
    <2> QED
      BY <1>5, <2>1, <2>2
  <1>2. ASSUME NEW s \in SUBSET T, NEW x \in T \ s, s \in P
        PROVE  s \cup {x} \in P
    <2>1. Sum(s \cup {x}) = w[x] + Sum(s)
      BY <1>0, SumAdd
    <2>2. Sum((S \cup s) \cup {x}) = w[x] + Sum(S \cup s)
      BY <1>0, SumAdd
    <2>3. (S \cup s) \cup {x} = S \cup (s \cup {x})
      OBVIOUS
    <2>4. Sum(S \cup s) = Sum(S) + Sum(s) /\ w[x] \in Int
      BY <1>2
    <2>5. Sum(S) \in Int /\ Sum(s) \in Int
      BY <1>5
    <2>8. Sum(S \cup (s \cup {x})) = w[x] + Sum(S \cup s)
      BY <2>2, <2>3
    <2> HIDE DEF Sum
    <2>6. Sum(S \cup (s \cup {x})) = Sum(S) + Sum(s \cup {x})
      BY <2>1, <2>4, <2>5, <2>8
    <2>7. s \cup {x} \in SUBSET T
      OBVIOUS
    <2> QED
      BY <2>6, <2>7 DEF P
  <1> HIDE DEF P
  <1>3. T \in P
    BY <1>1, <1>2, SetInduces
  <1> QED
    BY <1>3 DEF P

(***************************************************************************)
(* Summing over T is summing over S if f counts T's members by S's.        *)
(***************************************************************************)
LEMMA SumByIndex ==
  ASSUME NEW S, IsFiniteSet(S), NEW T, NEW f \in Bijection(S, T),
         NEW w, NEW v, \A x \in S : v[x] \in Int /\ w[f[x]] = v[x]
  PROVE  SumFunctionOnSet(w, T) = SumFunctionOnSet(v, S)
  <1> DEFINE Image(s) == {f[x] : x \in s}
             P == {s \in SUBSET S : /\ IsFiniteSet(Image(s))
                                    /\ SumFunctionOnSet(w, Image(s)) = SumFunctionOnSet(v, s)}
  <1>0. f \in [S -> T] /\ \A x, y \in S : f[x] = f[y] => x = y
    BY DEF Bijection, Injection, IsInjective
  <1>1. {} \in P
    <2>1. Image({}) = {}
      OBVIOUS
    <2> QED
      BY <2>1, SumEmpty, FS_EmptySet
  <1>2. ASSUME NEW s \in SUBSET S, NEW x \in S \ s, s \in P
        PROVE  s \cup {x} \in P
    <2>1. Image(s \cup {x}) = Image(s) \cup {f[x]} /\ f[x] \notin Image(s)
      BY <1>0
    <2>2. IsFiniteSet(s)
      BY FS_Subset
    <2>3. \A y \in Image(s) \cup {f[x]} : w[y] \in Int
      OBVIOUS
    <2>4. IsFiniteSet(Image(s)) /\ IsFiniteSet(Image(s) \cup {f[x]})
      BY <1>2, FS_AddElement
    <2> HIDE DEF Image
    <2>5. SumFunctionOnSet(w, Image(s) \cup {f[x]}) = w[f[x]] + SumFunctionOnSet(w, Image(s))
      BY <2>1, <2>3, <2>4, SumAdd
    <2>6. SumFunctionOnSet(v, s \cup {x}) = v[x] + SumFunctionOnSet(v, s)
      BY <2>2, SumAdd
    <2> QED
      BY <1>2, <2>1, <2>4, <2>5, <2>6
  <1>3. S \in P
    <2> HIDE DEF P
    <2> QED
      BY <1>1, <1>2, SetInduces
  <1>4. Image(S) = T
    BY <1>0 DEF Bijection, Surjection
  <1> QED
    BY <1>3, <1>4

LEMMA SumNegated ==
  ASSUME NEW S, IsFiniteSet(S), NEW w, NEW v, \A x \in S : w[x] \in Int /\ v[x] = -w[x]
  PROVE  SumFunctionOnSet(v, S) = -SumFunctionOnSet(w, S)
  <1> DEFINE P == {s \in SUBSET S : SumFunctionOnSet(v, s) = -SumFunctionOnSet(w, s)}
  <1>1. {} \in P
    BY SumEmpty
  <1>2. ASSUME NEW s \in SUBSET S, NEW x \in S \ s, s \in P
        PROVE  s \cup {x} \in P
    <2>0. \A y \in S : w[y] \in Int /\ v[y] \in Int
      OBVIOUS
    <2>1. IsFiniteSet(s)
      BY FS_Subset
    <2>2. SumFunctionOnSet(v, s \cup {x}) = v[x] + SumFunctionOnSet(v, s)
      BY <2>0, <2>1, SumAdd
    <2>3. SumFunctionOnSet(w, s \cup {x}) = w[x] + SumFunctionOnSet(w, s)
      BY <2>1, SumAdd
    <2>4. SumFunctionOnSet(w, s) \in Int
      BY <2>1, SumType
    <2> QED
      BY <1>2, <2>2, <2>3, <2>4
  <1> HIDE DEF P
  <1>3. S \in P
    BY <1>1, <1>2, SetInduces
  <1> QED
    BY <1>3 DEF P

LEMMA SumNonNegative ==
  ASSUME NEW S, IsFiniteSet(S), NEW w, \A x \in S : w[x] \in Nat
  PROVE  SumFunctionOnSet(w, S) \in Nat
  <1> DEFINE P == {s \in SUBSET S : SumFunctionOnSet(w, s) \in Nat}
  <1>1. {} \in P
    BY SumEmpty
  <1>2. ASSUME NEW s \in SUBSET S, NEW x \in S \ s, s \in P
        PROVE  s \cup {x} \in P
    <2>1. IsFiniteSet(s)
      BY FS_Subset
    <2>0. \A y \in S : w[y] \in Int
      OBVIOUS
    <2>2. SumFunctionOnSet(w, s \cup {x}) = w[x] + SumFunctionOnSet(w, s)
      BY <2>0, <2>1, SumAdd
    <2> QED
      BY <1>2, <2>2
  <1> HIDE DEF P
  <1>3. S \in P
    BY <1>1, <1>2, SetInduces
  <1> QED
    BY <1>3 DEF P

--------------------------------------------------------------------------------
(***************************************************************************)
(* A sequence of values may be defined by its first and by a step from     *)
(* each to the next.                                                       *)
(***************************************************************************)
Steps(it, n, base, step) ==
  \A i \in 0..n : it[i] = IF i = 0 THEN base ELSE step[<<i, it[i - 1]>>]

LEMMA Stepping ==
  ASSUME NEW V, NEW base \in V, NEW step \in [Nat \X V -> V], NEW n \in Nat
  PROVE  \E it \in [0..n -> V] : Steps(it, n, base, step)
  <1> DEFINE P == {k \in Nat : \E it \in [0..k -> V] : Steps(it, k, base, step)}
  <1>1. 0 \in P
    <2>1. [i \in 0..0 |-> base] \in [0..0 -> V]
      OBVIOUS
    <2>2. Steps([i \in 0..0 |-> base], 0, base, step)
      BY DEF Steps
    <2> QED
      BY <2>1, <2>2
  <1>2. ASSUME NEW k \in Nat, k \in P
        PROVE  k + 1 \in P
    <2>1. PICK it \in [0..k -> V] : Steps(it, k, base, step)
      BY <1>2
    <2> DEFINE jt == [i \in 0..(k + 1) |-> IF i = k + 1 THEN step[<<k + 1, it[k]>>] ELSE it[i]]
    <2>2. jt \in [0..(k + 1) -> V]
      BY <2>1
    <2>3. \A i \in 0..k : jt[i] = it[i] /\ i \in 0..(k + 1)
      OBVIOUS
    <2>4. jt[k + 1] = step[<<k + 1, it[k]>>]
      OBVIOUS
    <2> HIDE DEF jt
    <2>5. Steps(jt, k + 1, base, step)
      <3> SUFFICES ASSUME NEW i \in 0..(k + 1)
                   PROVE  jt[i] = IF i = 0 THEN base ELSE step[<<i, jt[i - 1]>>]
        BY DEF Steps
      <3>1. CASE i = k + 1
        <4>1. i - 1 = k /\ k \in 0..k /\ i # 0
          BY <3>1
        <4> QED
          BY <2>3, <2>4, <3>1, <4>1
      <3>2. CASE i = 0
        <4>1. 0 \in 0..k
          BY <1>2
        <4>2. it[i] = base
          BY <2>1, <3>2, <4>1 DEF Steps
        <4> QED
          BY <2>3, <3>2, <4>1, <4>2
      <3>3. CASE i # 0 /\ i # k + 1
        <4>1. i \in 0..k /\ i - 1 \in 0..k
          BY <3>3
        <4>2. it[i] = step[<<i, it[i - 1]>>]
          BY <2>1, <3>3, <4>1 DEF Steps
        <4> QED
          BY <2>3, <3>3, <4>1, <4>2
      <3> QED
        BY <3>1, <3>2, <3>3
    <2> QED
      BY <2>2, <2>5
  <1> HIDE DEF P
  <1>3. n \in P
    BY <1>1, <1>2, NatInduces
  <1> QED
    BY <1>3 DEF P

(***************************************************************************)
(* A finite set can be sorted.                                             *)
(***************************************************************************)
Sorted(f, n, rank) == \A i, k \in 1..n : i < k => rank[f[i]] < rank[f[k]]

LEMMA GreatestByRank ==
  ASSUME NEW S, IsFiniteSet(S), NEW rank, \A x \in S : rank[x] \in Int, S # {}
  PROVE  \E x \in S : \A y \in S : rank[y] <= rank[x]
  <1> DEFINE P == {s \in SUBSET S : s = {} \/ \E x \in s : \A y \in s : rank[y] <= rank[x]}
  <1>1. {} \in P
    OBVIOUS
  <1>2. ASSUME NEW s \in SUBSET S, NEW z \in S \ s, s \in P
        PROVE  s \cup {z} \in P
    <2>1. CASE s = {}
      BY <2>1
    <2>2. CASE s # {}
      <3>1. PICK x \in s : \A y \in s : rank[y] <= rank[x]
        BY <1>2, <2>2
      <3>2. CASE rank[z] <= rank[x]
        BY <3>1, <3>2
      <3>3. CASE ~(rank[z] <= rank[x])
        <4>1. \A y \in s \cup {z} : rank[y] <= rank[z]
          BY <3>1, <3>3
        <4> QED
          BY <4>1
      <3> QED
        BY <3>2, <3>3
    <2> QED
      BY <2>1, <2>2
  <1> HIDE DEF P
  <1>3. S \in P
    BY <1>1, <1>2, SetInduces
  <1> QED
    BY <1>3 DEF P

LEMMA CanBeSorted ==
  ASSUME NEW S, IsFiniteSet(S), NEW rank, \A x \in S : rank[x] \in Int,
         \A x, y \in S : x # y => rank[x] # rank[y]
  PROVE  \E f \in [1..Cardinality(S) -> S] : Sorted(f, Cardinality(S), rank)
  <1> DEFINE Bad == {s \in SUBSET S : ~\E f \in [1..Cardinality(s) -> s] :
                                        Sorted(f, Cardinality(s), rank)}
  <1> SUFFICES ASSUME S \in Bad PROVE FALSE
    OBVIOUS
  <1>1. PICK s \in Bad : \A x \in s : s \ {x} \in (SUBSET S) \ Bad
    <2>1. Bad \in SUBSET SUBSET S
      OBVIOUS
    <2> HIDE DEF Bad
    <2> QED
      BY <2>1, SmallestSet
  <1>2. IsFiniteSet(s) /\ Cardinality(s) \in Nat
    BY FS_Subset, FS_CardinalityType
  <1> DEFINE n == Cardinality(s)
  <1>3. s # {}
    <2> SUFFICES ASSUME s = {} PROVE FALSE
      OBVIOUS
    <2>1. n = 0
      BY FS_EmptySet
    <2>2. [i \in {} |-> 0] \in [1..n -> s]
      BY <2>1
    <2>3. Sorted([i \in {} |-> 0], n, rank)
      BY <2>1 DEF Sorted
    <2> QED
      BY <2>2, <2>3
  <1>4. PICK x \in s : \A y \in s : rank[y] <= rank[x]
    <2>1. \A y \in s : rank[y] \in Int
      OBVIOUS
    <2> HIDE DEF Bad
    <2> QED
      BY <1>2, <1>3, <2>1, GreatestByRank
  <1>5. Cardinality(s \ {x}) = n - 1
    BY <1>2, FS_RemoveElement
  <1>6. PICK f \in [1..(n - 1) -> s \ {x}] : Sorted(f, n - 1, rank)
    BY <1>1, <1>5
  <1> DEFINE g == [i \in 1..n |-> IF i = n THEN x ELSE f[i]]
  <1>7. n \in Nat \ {0}
    BY <1>2, <1>3, FS_EmptySet
  <1>10. s \subseteq S
    OBVIOUS
  <1> HIDE DEF n, Bad
  <1>8. g \in [1..n -> s]
    BY <1>6, <1>7
  <1>9. Sorted(g, n, rank)
    <2> SUFFICES ASSUME NEW i \in 1..n, NEW k \in 1..n, i < k
                 PROVE  rank[g[i]] < rank[g[k]]
      BY DEF Sorted
    <2>1. i \in 1..(n - 1) /\ g[i] = f[i] /\ f[i] \in s \ {x}
      BY <1>6, <1>7
    <2>2. CASE k = n
      <3>1. rank[f[i]] <= rank[x] /\ rank[f[i]] # rank[x]
        BY <1>4, <1>10, <2>1
      <3>2. rank[f[i]] \in Int /\ rank[x] \in Int /\ g[k] = x
        BY <1>10, <2>1, <2>2
      <3> QED
        BY <2>1, <3>1, <3>2
    <2>3. CASE k # n
      <3>1. k \in 1..(n - 1) /\ g[k] = f[k]
        BY <1>7, <2>3
      <3> QED
        BY <1>6, <2>1, <3>1 DEF Sorted
    <2> QED
      BY <2>2, <2>3
  <1> QED
    BY <1>8, <1>9 DEF Bad, n
================================================================================
