----------------------------- MODULE NatLemmas -----------------------------
(***************************************************************************)
(* Facts that the proofs of several components rest on: induction over the *)
(* naturals and over finite sets in a form the provers can apply (the      *)
(* property is a set); that a function may be defined by recursion over    *)
(* 0 .. N; the sum of the lengths of the elements of a finite set, with    *)
(* what an element adds to it; and arithmetic modulo a number.             *)
(***************************************************************************)
EXTENDS Integers, TLAPS, WellFoundedInduction, FiniteSetTheorems, Functions

\* Every set of naturals has a least element.
LEMMA LeastNat ==
    ASSUME NEW S \in SUBSET Nat, S # {}
    PROVE  \E x \in S : \A y \in S : x <= y
<1>1. \E x \in S : \A y \in S : ~ (<<y, x>> \in OpToRel(<, Nat))
  BY WFMin, NatLessThanWellFounded, Zenon
<1>2. \A a, b \in Nat : a < b => <<a, b>> \in {ss \in Nat \X Nat : ss[1] < ss[2]}
  OBVIOUS
<1>3. OpToRel(<, Nat) = {ss \in Nat \X Nat : ss[1] < ss[2]}
  BY Zenon DEF OpToRel
<1>4. PICK x \in S : \A y \in S : ~ (<<y, x>> \in OpToRel(<, Nat))
  BY <1>1
<1>5. \A y \in S : ~ (y < x)
  BY <1>2, <1>3, <1>4, Zenon
<1> QED
  BY <1>5

\* A bounded set of naturals has a greatest one.
LEMMA GreatestNat ==
    ASSUME NEW N \in Nat, NEW S \in SUBSET (0 .. N), S # {}
    PROVE  \E x \in S : \A y \in S : y <= x
<1> DEFINE T == {N - y : y \in S}
<1>1. T \in SUBSET Nat /\ T # {}
  <2>1. \A y \in S : N - y \in Nat
    OBVIOUS
  <2> QED BY <2>1
<1>2. \A y \in S : N - y \in T
  OBVIOUS
<1>3. \A z \in T : \E y \in S : z = N - y
  OBVIOUS
<1> HIDE DEF T
<1>4. PICK z \in T : \A y \in T : z <= y
  BY <1>1, LeastNat
<1>5. PICK x \in S : z = N - x
  BY <1>3
<1>6. \A y \in S : y <= x
  BY <1>2, <1>4, <1>5
<1> QED BY <1>6

\* Induction over 0 .. N.
LEMMA RangeInduction ==
    ASSUME NEW N \in Nat, NEW S, 0 \in S, \A n \in 1 .. N : n - 1 \in S => n \in S
    PROVE  \A n \in 0 .. N : n \in S
<1> SUFFICES ASSUME NEW m \in 0 .. N, m \notin S PROVE FALSE
  OBVIOUS
<1> DEFINE T == {n \in 0 .. N : n \notin S}
<1>1. T \in SUBSET Nat /\ T # {}
  OBVIOUS
<1> HIDE DEF T
<1>2. PICK x \in T : \A y \in T : x <= y
  BY <1>1, LeastNat
<1>3. x \in 1 .. N /\ x \notin S /\ x - 1 \in 0 .. N
  BY <1>2 DEF T
<1>4. x - 1 \notin T
  BY <1>2, <1>3
<1>5. x - 1 \in S
  BY <1>3, <1>4 DEF T
<1> QED BY <1>3, <1>5

\* f is the function on 0 .. N that begins with x and goes on with G.
IsRecursion(f, N, D, x, G) ==
    f \in [0 .. N -> D] /\ f[0] = x /\ \A n \in 1 .. N : f[n] = G[n][f[n - 1]]

\* There is such a function.
LEMMA RecursionExists ==
    ASSUME NEW N \in Nat, NEW D, NEW x \in D, NEW G \in [1 .. N -> [D -> D]]
    PROVE  \E f : IsRecursion(f, N, D, x, G)
<1> DEFINE R(m, f) == f[0] = x /\ \A n \in 1 .. m : f[n] = G[n][f[n - 1]]
           S == {m \in 0 .. N : \E f \in [0 .. m -> D] : R(m, f)}
<1>1. 0 \in S
  <2> DEFINE g == [n \in 0 .. 0 |-> x]
  <2>1. g \in [0 .. 0 -> D] /\ g[0] = x
    OBVIOUS
  <2>2. R(0, g)
    BY <2>1
  <2> HIDE DEF g
  <2>3. \E f \in [0 .. 0 -> D] : R(0, f)
    BY <2>1, <2>2
  <2> QED BY <2>3
<1>2. ASSUME NEW m \in 1 .. N, m - 1 \in S
      PROVE  m \in S
  <2>1. PICK f \in [0 .. (m - 1) -> D] : R(m - 1, f)
    BY <1>2
  <2> DEFINE y == G[m][f[m - 1]]
             g == [n \in 0 .. m |-> IF n = m THEN y ELSE f[n]]
  <2>2. y \in D
    OBVIOUS
  <2> HIDE DEF y
  <2>3. g \in [0 .. m -> D] /\ g[m] = y /\ \A n \in 0 .. (m - 1) : g[n] = f[n]
    BY <2>2
  <2> HIDE DEF g
  <2>4. g[0] = x
    BY <2>1, <2>3
  <2>5. ASSUME NEW n \in 1 .. m PROVE g[n] = G[n][g[n - 1]]
    <3>1. g[n - 1] = f[n - 1]
      BY <2>3
    <3>2. CASE n = m
      BY <3>1, <3>2, <2>3 DEF y
    <3>3. CASE n # m
      <4>1. n \in 1 .. (m - 1) /\ g[n] = f[n]
        BY <3>3, <2>3
      <4> QED BY <4>1, <3>1, <2>1
    <3> QED BY <3>2, <3>3
  <2>6. R(m, g)
    BY <2>4, <2>5
  <2>7. \E h \in [0 .. m -> D] : R(m, h)
    BY <2>3, <2>6
  <2> QED BY <2>7, SMTT(30)
<1> HIDE DEF S
<1>3. \A n \in 0 .. N : n \in S
  BY <1>1, <1>2, RangeInduction, Zenon
<1>4. \E f \in [0 .. N -> D] : R(N, f)
  BY <1>3 DEF S
<1> QED BY <1>4 DEF IsRecursion
-----------------------------------------------------------------------------
(* Finite sets and sums over them.                                          *)

\* Induction over the subsets of a finite set.
LEMMA SubsetInduction ==
    ASSUME NEW T, IsFiniteSet(T), NEW X, {} \in X,
           \A s \in SUBSET T : s # {} /\ (\A x \in s : s \ {x} \in X) => s \in X
    PROVE  \A s \in SUBSET T : s \in X
<1> DEFINE N == Cardinality(T)
           S == {n \in Nat : \A s \in SUBSET T : Cardinality(s) = n => s \in X}
<1>1. N \in Nat /\ \A s \in SUBSET T : IsFiniteSet(s) /\ Cardinality(s) \in Nat /\ Cardinality(s) <= N
  BY FS_CardinalityType, FS_Subset
<1>2. 0 \in S
  BY <1>1, FS_EmptySet
<1>3. ASSUME NEW n \in 1 .. N, n - 1 \in S PROVE n \in S
  <2> SUFFICES ASSUME NEW s \in SUBSET T, Cardinality(s) = n PROVE s \in X
    OBVIOUS
  <2>1. s # {}
    BY FS_EmptySet
  <2>2. ASSUME NEW x \in s PROVE s \ {x} \in X
    <3>1. Cardinality(s \ {x}) = n - 1
      BY <1>1, FS_RemoveElement
    <3> QED BY <3>1, <1>3
  <2> QED BY <2>1, <2>2
<1> HIDE DEF S, N
<1>4. \A n \in 0 .. N : n \in S
  BY <1>1, <1>2, <1>3, RangeInduction, Zenon
<1>5. ASSUME NEW s \in SUBSET T PROVE s \in X
  <2>1. Cardinality(s) \in 0 .. N
    BY <1>1
  <2> QED BY <2>1, <1>4 DEF S
<1> QED BY <1>5

\* The sum of w over every subset of S, the way MapThenFoldSet computes it.
Pick(s) == CHOOSE x \in s : TRUE
IsSum(it, w, S) ==
    it = [s \in SUBSET S |-> IF s = {} THEN 0 ELSE w[Pick(s)] + it[s \ {Pick(s)}]]
Total(w, S) == (CHOOSE it : IsSum(it, w, S))[S]

LEMMA PickIn == ASSUME NEW s, s # {} PROVE Pick(s) \in s
BY DEF Pick

LEMMA IsSumAt ==
    ASSUME NEW it, NEW w, NEW S, IsSum(it, w, S), NEW s \in SUBSET S
    PROVE  it[s] = IF s = {} THEN 0 ELSE w[Pick(s)] + it[s \ {Pick(s)}]
BY DEF IsSum

\* There is such a sum.
LEMMA SumExists ==
    ASSUME NEW S, IsFiniteSet(S), NEW w \in [S -> Nat]
    PROVE  \E it \in [SUBSET S -> Nat] : IsSum(it, w, S)
<1> DEFINE N == Cardinality(S)
           Eq(it, s) == it[s] = IF s = {} THEN 0 ELSE w[Pick(s)] + it[s \ {Pick(s)}]
           Upto(it, n) == \A s \in SUBSET S : Cardinality(s) <= n => Eq(it, s)
           Z == {n \in Nat : \E it \in [SUBSET S -> Nat] : Upto(it, n)}
<1>1. N \in Nat /\ \A s \in SUBSET S : IsFiniteSet(s) /\ Cardinality(s) \in Nat /\ Cardinality(s) <= N
  BY FS_CardinalityType, FS_Subset
<1>2. 0 \in Z
  <2> DEFINE z == [s \in SUBSET S |-> 0]
  <2>1. z \in [SUBSET S -> Nat]
    OBVIOUS
  <2>2. \A s \in SUBSET S : Cardinality(s) <= 0 => s = {} /\ z[s] = 0
    BY <1>1, FS_EmptySet
  <2> HIDE DEF z
  <2>3. Upto(z, 0)
    BY <2>2
  <2> QED BY <2>1, <2>3
<1>3. ASSUME NEW n \in 1 .. N, n - 1 \in Z PROVE n \in Z
  <2>1. PICK it \in [SUBSET S -> Nat] : Upto(it, n - 1)
    BY <1>3
  <2> DEFINE new(s) == IF Cardinality(s) = n THEN w[Pick(s)] + it[s \ {Pick(s)}] ELSE it[s]
             g == [s \in SUBSET S |-> new(s)]
  <2>2. ASSUME NEW s \in SUBSET S PROVE new(s) \in Nat
    <3>1. CASE Cardinality(s) = n
      <4>1. s # {}
        BY <3>1, FS_EmptySet
      <4>2. Pick(s) \in S /\ s \ {Pick(s)} \in SUBSET S
        BY <4>1, PickIn
      <4> QED BY <4>2, <3>1
    <3>2. CASE Cardinality(s) # n
      BY <3>2
    <3> QED BY <3>1, <3>2
  <2> HIDE DEF new
  <2>3. g \in [SUBSET S -> Nat] /\ \A s \in SUBSET S : g[s] = new(s)
    BY <2>2
  <2> HIDE DEF g
  <2>4. ASSUME NEW s \in SUBSET S, Cardinality(s) <= n PROVE Eq(g, s)
    <3>0. Cardinality(s) \in Nat /\ n \in Nat /\ Cardinality(s) <= n
      BY <1>1, <2>4
    <3>1. CASE s = {}
      <4>1. g[s] = it[s] /\ Cardinality(s) = 0
        BY <3>1, <2>3, FS_EmptySet DEF new
      <4> QED BY <4>1, <3>1, <2>1
    <3>2. CASE s # {}
      <4> DEFINE r == s \ {Pick(s)}
      <4>1. Pick(s) \in s /\ Pick(s) \in S /\ r \in SUBSET S /\ Cardinality(r) = Cardinality(s) - 1
        BY <3>2, <1>1, PickIn, FS_RemoveElement
      <4> HIDE DEF r
      <4>2. g[r] = it[r]
        <5>1. Cardinality(r) # n
          BY <4>1, <3>0
        <5> QED BY <5>1, <4>1, <2>3 DEF new
      <4>3. g[s] = w[Pick(s)] + it[r]
        <5>1. CASE Cardinality(s) = n
          BY <5>1, <2>3 DEF new, r
        <5>2. CASE Cardinality(s) # n
          <6>0. Cardinality(s) <= n - 1
            BY <5>2, <3>0
          <6>1. Cardinality(s) <= n - 1 /\ g[s] = it[s]
            BY <5>2, <6>0, <2>3 DEF new
          <6>2. Eq(it, s)
            BY <6>1, <2>1
          <6> QED BY <6>1, <6>2, <3>2 DEF r
        <5> QED BY <5>1, <5>2
      <4> QED BY <4>2, <4>3, <3>2 DEF r
    <3> QED BY <3>1, <3>2
  <2>5. Upto(g, n) /\ n \in Nat
    BY <2>4, <1>1
  <2> QED BY <2>3, <2>5
<1> HIDE DEF Z, N
<1>4. \A n \in 0 .. N : n \in Z
  BY <1>1, <1>2, <1>3, RangeInduction, Zenon
<1>5. N \in Z
  BY <1>1, <1>4
<1>6. PICK it \in [SUBSET S -> Nat] : Upto(it, N)
  BY <1>5 DEF Z
<1>7. \A s \in SUBSET S : Eq(it, s)
  BY <1>1, <1>6
<1>8. IsSum(it, w, S)
  BY <1>7 DEF IsSum
<1> QED BY <1>8

\* It only depends on what is summed up.
LEMMA SumUnique ==
    ASSUME NEW S1, NEW S2, NEW w1, NEW w2, NEW it1, NEW it2, IsSum(it1, w1, S1), IsSum(it2, w2, S2),
           NEW T, T \subseteq S1, T \subseteq S2, IsFiniteSet(T), \A x \in T : w1[x] = w2[x]
    PROVE  \A s \in SUBSET T : it1[s] = it2[s]
<1> DEFINE X == {s \in SUBSET T : it1[s] = it2[s]}
<1>1. {} \in X
  BY IsSumAt
<1>2. ASSUME NEW s \in SUBSET T, s # {}, \A x \in s : s \ {x} \in X PROVE s \in X
  <2> DEFINE c == Pick(s)
  <2>1. c \in s
    BY <1>2, PickIn
  <2>2. it1[s \ {c}] = it2[s \ {c}] /\ w1[c] = w2[c]
    BY <1>2, <2>1
  <2>3. it1[s] = w1[c] + it1[s \ {c}] /\ it2[s] = w2[c] + it2[s \ {c}]
    <3>1. s \in SUBSET S1 /\ s \in SUBSET S2
      OBVIOUS
    <3>2. it1[s] = IF s = {} THEN 0 ELSE w1[Pick(s)] + it1[s \ {Pick(s)}]
      BY <3>1 DEF IsSum
    <3>3. it2[s] = IF s = {} THEN 0 ELSE w2[Pick(s)] + it2[s \ {Pick(s)}]
      BY <3>1 DEF IsSum
    <3> QED BY <3>2, <3>3, <1>2
  <2> QED BY <2>2, <2>3
<1> HIDE DEF X
<1>3. \A s \in SUBSET T : s \in X
  BY <1>1, <1>2, SubsetInduction, Zenon
<1> QED BY <1>3 DEF X

\* It does not depend on the order.
LEMMA SumRemove ==
    ASSUME NEW S, IsFiniteSet(S), NEW w \in [S -> Nat], NEW it \in [SUBSET S -> Nat], IsSum(it, w, S)
    PROVE  \A s \in SUBSET S : \A x \in s : it[s] = w[x] + it[s \ {x}]
<1> DEFINE X == {s \in SUBSET S : \A x \in s : it[s] = w[x] + it[s \ {x}]}
<1>1. {} \in X
  OBVIOUS
<1>2. ASSUME NEW s \in SUBSET S, s # {}, \A x \in s : s \ {x} \in X PROVE s \in X
  <2> SUFFICES ASSUME NEW x \in s PROVE it[s] = w[x] + it[s \ {x}]
    OBVIOUS
  <2> DEFINE c == Pick(s)
  <2>1. c \in s
    BY <1>2, PickIn
  <2>2. it[s] = w[c] + it[s \ {c}]
    BY <1>2, IsSumAt
  <2> HIDE DEF c
  <2>3. CASE x = c
    BY <2>2, <2>3
  <2>4. CASE x # c
    <3> DEFINE a == s \ {c}
               b == s \ {x}
               d == s \ {c, x}
    <3>1. a \in X /\ b \in X /\ x \in a /\ c \in b /\ a \ {x} = d /\ b \ {c} = d
      BY <1>2, <2>1, <2>4
    <3>2. it[a] = w[x] + it[d] /\ it[b] = w[c] + it[d]
      BY <3>1
    <3>3. it[d] \in Nat /\ w[x] \in Nat /\ w[c] \in Nat
      BY <2>1
    <3> QED BY <2>2, <3>2, <3>3
  <2> QED BY <2>3, <2>4
<1> HIDE DEF X
<1>3. \A s \in SUBSET S : s \in X
  BY <1>1, <1>2, SubsetInduction, Zenon
<1> QED BY <1>3 DEF X

\* The total, over no element, one more, and the elements of another function.
LEMMA TotalIs ==
    ASSUME NEW S, IsFiniteSet(S), NEW w \in [S -> Nat]
    PROVE  \E it \in [SUBSET S -> Nat] : IsSum(it, w, S) /\ Total(w, S) = it[S]
<1>1. PICK it \in [SUBSET S -> Nat] : IsSum(it, w, S)
  BY SumExists
<1> DEFINE ch == CHOOSE i : IsSum(i, w, S)
<1>2. IsSum(ch, w, S)
  BY <1>1, Zenon
<1>3. Total(w, S) = ch[S]
  BY DEF Total
<1> HIDE DEF ch
<1>4. ch[S] = it[S]
  BY <1>1, <1>2, SumUnique
<1> QED BY <1>1, <1>3, <1>4

LEMMA TotalEmpty == ASSUME NEW w \in [{} -> Nat] PROVE Total(w, {}) = 0
<1>1. PICK it \in [SUBSET {} -> Nat] : IsSum(it, w, {}) /\ Total(w, {}) = it[{}]
  BY TotalIs, FS_EmptySet
<1> QED BY <1>1, IsSumAt

LEMMA TotalSame ==
    ASSUME NEW S, IsFiniteSet(S), NEW S1, S \subseteq S1, IsFiniteSet(S1),
           NEW w \in [S -> Nat], NEW w1 \in [S1 -> Nat], \A x \in S : w1[x] = w[x],
           NEW it1, IsSum(it1, w1, S1)
    PROVE  Total(w, S) = it1[S]
<1>1. PICK it \in [SUBSET S -> Nat] : IsSum(it, w, S) /\ Total(w, S) = it[S]
  BY TotalIs
<1>2. \A s \in SUBSET S : it1[s] = it[s]
  BY <1>1, SumUnique
<1> QED BY <1>1, <1>2

LEMMA TotalRemove ==
    ASSUME NEW S, IsFiniteSet(S), NEW w \in [S -> Nat], NEW x \in S,
           NEW v \in [S \ {x} -> Nat], \A y \in S \ {x} : v[y] = w[y]
    PROVE  Total(w, S) = w[x] + Total(v, S \ {x}) /\ Total(w, S) \in Nat /\ Total(v, S \ {x}) \in Nat
<1>1. PICK it \in [SUBSET S -> Nat] : IsSum(it, w, S) /\ Total(w, S) = it[S]
  BY TotalIs
<1>2. IsFiniteSet(S \ {x})
  BY FS_RemoveElement
<1> DEFINE R == S \ {x}
<1>3. R \subseteq S /\ IsFiniteSet(R) /\ v \in [R -> Nat] /\ \A y \in R : w[y] = v[y]
  BY <1>2
<1> HIDE DEF R
<1>4. Total(v, R) = it[R]
  BY <1>1, <1>3, TotalSame
<1>5. it[S] = w[x] + it[S \ {x}]
  BY <1>1, SumRemove
<1> QED BY <1>1, <1>4, <1>5 DEF R
-----------------------------------------------------------------------------
(* The lengths of records, h bytes of header each, the way a fold sums them. *)

LenSum(h, f, S)   == FoldFunctionOnSet(LAMBDA p, n : p.len + h + n, 0, f, S)
LenIter(it, h, f, S) == it = [s \in SUBSET S |-> IF s = {} THEN 0
                                              ELSE f[Pick(s)].len + h + it[s \ {Pick(s)}]]
LenOf(h, p)       == p.len + h
LenFun(h, f, S)   == [x \in S |-> LenOf(h, f[x])]

LEMMA LenOfNat == ASSUME NEW h \in Nat, NEW p, p.len \in Nat PROVE LenOf(h, p) \in Nat
BY DEF LenOf

LEMMA LenSumIsIter ==
    ASSUME NEW h, NEW f, NEW S
    PROVE LenSum(h, f, S) = (CHOOSE it : LenIter(it, h, f, S))[S]
BY Zenon DEF LenSum, FoldFunctionOnSet, MapThenFoldSet, LenIter, Pick

\* The fold is the total of the bytes of its records.
LEMMA LenSumIsTotal ==
    ASSUME NEW h \in Nat, NEW f, NEW S, IsFiniteSet(S), \A x \in S : f[x].len \in Nat
    PROVE  LenSum(h, f, S) = Total(LenFun(h, f, S), S) /\ LenFun(h, f, S) \in [S -> Nat]
<1> DEFINE w  == LenFun(h, f, S)
           ch == CHOOSE it : LenIter(it, h, f, S)
<1>1. w \in [S -> Nat] /\ \A x \in S : w[x] = LenOf(h, f[x])
  BY LenOfNat DEF LenFun
<1> HIDE DEF w
<1>2. ASSUME NEW it PROVE LenIter(it, h, f, S) <=> IsSum(it, w, S)
  <2>1. \A s \in SUBSET S : s # {} => w[Pick(s)] = LenOf(h, f[Pick(s)])
    BY <1>1, PickIn
  <2> QED BY <2>1 DEF LenIter, IsSum, LenOf
<1>3. PICK it \in [SUBSET S -> Nat] : IsSum(it, w, S) /\ Total(w, S) = it[S]
  BY <1>1, TotalIs
<1>4. LenIter(ch, h, f, S)
  BY <1>2, <1>3, Zenon
<1>5. LenSum(h, f, S) = ch[S]
  BY LenSumIsIter
<1> HIDE DEF ch
<1>6. ch[S] = it[S]
  BY <1>1, <1>2, <1>3, <1>4, SumUnique
<1> QED BY <1>1, <1>3, <1>5, <1>6 DEF w

\* No record, one more record, a single record.
LEMMA LenSumEmpty == ASSUME NEW h \in Nat, NEW f PROVE LenSum(h, f, {}) = 0
<1>1. LenSum(h, f, {}) = Total(LenFun(h, f, {}), {}) /\ LenFun(h, f, {}) \in [{} -> Nat]
  BY LenSumIsTotal, FS_EmptySet
<1> QED BY <1>1, TotalEmpty

LEMMA LenSumRemove ==
    ASSUME NEW h \in Nat, NEW f, NEW g, NEW S, IsFiniteSet(S), \A y \in S : f[y].len \in Nat,
           NEW x \in S, \A y \in S \ {x} : g[y] = f[y]
    PROVE  /\ LenSum(h, f, S) = LenOf(h, f[x]) + LenSum(h, g, S \ {x})
           /\ LenSum(h, f, S) \in Nat /\ LenSum(h, g, S \ {x}) \in Nat
<1> DEFINE R == S \ {x}
           w == LenFun(h, f, S)
           v == LenFun(h, g, R)
<1>1. IsFiniteSet(R) /\ \A y \in R : g[y].len \in Nat
  BY FS_RemoveElement
<1>2. LenSum(h, f, S) = Total(w, S) /\ w \in [S -> Nat]
  BY LenSumIsTotal
<1>3. LenSum(h, g, R) = Total(v, R) /\ v \in [R -> Nat]
  BY <1>1, LenSumIsTotal
<1>4. w[x] = LenOf(h, f[x]) /\ \A y \in S \ {x} : v[y] = w[y]
  BY DEF LenFun
<1>5. LenOf(h, f[x]) \in Nat
  BY LenOfNat
<1> HIDE DEF w, v
<1>6. Total(w, S) = w[x] + Total(v, S \ {x}) /\ Total(w, S) \in Nat /\ Total(v, S \ {x}) \in Nat
  BY <1>2, <1>3, <1>4, TotalRemove
<1> QED BY <1>2, <1>3, <1>4, <1>5, <1>6

LEMMA LenSumOne ==
    ASSUME NEW h \in Nat, NEW f, NEW x, f[x].len \in Nat
    PROVE  LenSum(h, f, {x}) = LenOf(h, f[x])
<1>1. IsFiniteSet({x}) /\ {x} \ {x} = {} /\ \A y \in {x} : f[y].len \in Nat
  BY FS_Singleton
<1>2. LenSum(h, f, {x}) = LenOf(h, f[x]) + LenSum(h, f, {})
  BY <1>1, LenSumRemove
<1>3. LenOf(h, f[x]) \in Nat
  BY LenOfNat
<1> QED BY <1>2, <1>3, LenSumEmpty

LEMMA LenSumAdd ==
    ASSUME NEW h \in Nat, NEW f, NEW g, NEW S, NEW T, NEW x, IsFiniteSet(T), x \in T, T \ {x} = S,
           \A y \in T : g[y].len \in Nat, \A y \in S : f[y] = g[y]
    PROVE  LenSum(h, g, T) = LenOf(h, g[x]) + LenSum(h, f, S) /\ LenSum(h, f, S) \in Nat
<1>1. \A y \in T \ {x} : f[y] = g[y]
  OBVIOUS
<1>2. /\ LenSum(h, g, T) = LenOf(h, g[x]) + LenSum(h, f, T \ {x})
      /\ LenSum(h, g, T) \in Nat /\ LenSum(h, f, T \ {x}) \in Nat
  BY <1>1, LenSumRemove
<1> QED BY <1>2

LEMMA LenSumLess ==
    ASSUME NEW h \in Nat, NEW f, NEW S, IsFiniteSet(S), \A y \in S : f[y].len \in Nat, NEW x \in S
    PROVE  LenSum(h, f, S) = LenOf(h, f[x]) + LenSum(h, f, S \ {x})
<1>1. \A y \in S \ {x} : f[y] = f[y]
  OBVIOUS
<1> QED BY <1>1, LenSumRemove

LEMMA LenSumNat ==
    ASSUME NEW h \in Nat, NEW f, NEW S, IsFiniteSet(S), \A y \in S : f[y].len \in Nat
    PROVE  LenSum(h, f, S) \in Nat
<1>1. CASE S = {}
  BY <1>1, LenSumEmpty
<1>2. CASE S # {}
  <2>1. PICK x \in S : TRUE
    BY <1>2
  <2> QED BY LenSumRemove
<1> QED BY <1>1, <1>2

\* Only the records of the set count.
LEMMA LenSumSame ==
    ASSUME NEW h \in Nat, NEW f, NEW g, NEW S, IsFiniteSet(S), \A y \in S : f[y].len \in Nat,
           \A y \in S : g[y] = f[y]
    PROVE  LenSum(h, g, S) = LenSum(h, f, S)
<1>1. \A y \in S : g[y].len \in Nat
  OBVIOUS
<1>2. LenFun(h, f, S) = LenFun(h, g, S)
  BY DEF LenFun
<1>3. LenSum(h, f, S) = Total(LenFun(h, f, S), S) /\ LenSum(h, g, S) = Total(LenFun(h, g, S), S)
  BY <1>1, LenSumIsTotal
<1> QED BY <1>2, <1>3

\* The records of a part, and the others.
LEMMA LenSumSplit ==
    ASSUME NEW h \in Nat, NEW f, NEW S, IsFiniteSet(S), \A y \in S : f[y].len \in Nat
    PROVE  \A A \in SUBSET S : LenSum(h, f, S) = LenSum(h, f, A) + LenSum(h, f, S \ A)
<1> DEFINE X == {A \in SUBSET S : LenSum(h, f, S) = LenSum(h, f, A) + LenSum(h, f, S \ A)}
<1>0. \A A \in SUBSET S : LenSum(h, f, A) \in Nat /\ IsFiniteSet(A)
  BY FS_Subset, LenSumNat
<1>1. {} \in X
  <2>1. S \ {} = S /\ LenSum(h, f, {}) = 0 /\ LenSum(h, f, S) \in Nat
    BY <1>0, LenSumEmpty
  <2> QED BY <2>1
<1>2. ASSUME NEW A \in SUBSET S, A # {}, \A x \in A : A \ {x} \in X PROVE A \in X
  <2>1. PICK x \in A : TRUE
    BY <1>2
  <2> DEFINE B == A \ {x}
             R == S \ A
             Q == S \ B
  <2>2. B \in SUBSET S /\ R \in SUBSET S /\ Q \in SUBSET S /\ Q \ {x} = R /\ x \in Q
    BY <2>1
  <2>3. LenSum(h, f, S) = LenSum(h, f, B) + LenSum(h, f, Q)
    BY <1>2, <2>1
  <2>4. IsFiniteSet(A) /\ IsFiniteSet(Q) /\ (\A y \in A : f[y].len \in Nat) /\ (\A y \in Q : f[y].len \in Nat)
    BY <1>0, <2>2
  <2>5. LenSum(h, f, A) = LenOf(h, f[x]) + LenSum(h, f, B)
    BY <2>1, <2>4, LenSumLess
  <2>6. LenSum(h, f, Q) = LenOf(h, f[x]) + LenSum(h, f, R)
    <3> HIDE DEF B, R, Q
    <3> QED BY <2>2, <2>4, LenSumLess
  <2>7. LenOf(h, f[x]) \in Nat /\ LenSum(h, f, B) \in Nat /\ LenSum(h, f, R) \in Nat
    BY <1>0, <2>1, <2>2, LenOfNat
  <2>8. LenSum(h, f, S) = LenSum(h, f, A) + LenSum(h, f, R)
    <3> HIDE DEF B, R, Q
    <3> QED BY <2>3, <2>5, <2>6, <2>7
  <2> QED BY <2>8
<1> HIDE DEF X
<1>3. \A A \in SUBSET S : A \in X
  BY <1>1, <1>2, SubsetInduction, Zenon
<1> QED BY <1>3 DEF X
-----------------------------------------------------------------------------
(* Arithmetic modulo M.                                                     *)

\* Two numbers less than M apart and equal modulo M are equal.
LEMMA ModInjective ==
    ASSUME NEW M \in Nat \ {0}, NEW a \in Nat, NEW b \in Nat, a % M = b % M, a - b < M, b - a < M
    PROVE  a = b
<1>1. a = M * (a \div M) + (a % M)
  OBVIOUS
<1>2. b = M * (b \div M) + (b % M)
  OBVIOUS
<1> DEFINE k == (a \div M) - (b \div M)
<1>3. a - b = M * k /\ k \in Int
  BY <1>1, <1>2, Z3
<1> HIDE DEF k
<1>4. k = 0
  BY <1>3, Z3
<1> QED BY <1>3, <1>4

\* A sum may be reduced before it is complete.
LEMMA ModSum ==
    ASSUME NEW M \in Nat \ {0}, NEW a \in Nat, NEW n \in Nat
    PROVE  ((a % M) + n) % M = (a + n) % M
<1> DEFINE r == a % M
           q == (a \div M) + ((r + n) \div M) - ((a + n) \div M)
           x == (r + n) % M
           y == (a + n) % M
<1>1. a = M * (a \div M) + r /\ r \in 0 .. (M - 1)
  OBVIOUS
<1>2. r + n = M * ((r + n) \div M) + x /\ x \in 0 .. (M - 1)
  BY <1>1
<1>3. a + n = M * ((a + n) \div M) + y /\ y \in 0 .. (M - 1)
  OBVIOUS
<1>4. y - x = M * q /\ q \in Int
  BY <1>1, <1>2, <1>3, Z3
<1> HIDE DEF q
<1>5. q = 0
  <2> HIDE DEF x, y
  <2> QED BY <1>2, <1>3, <1>4, Z3
<1> QED BY <1>2, <1>3, <1>4, <1>5
=============================================================================
