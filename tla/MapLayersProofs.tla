-------------------------- MODULE MapLayersProofs ---------------------------
(***************************************************************************)
(* For maps of any size: the drawing order is a permutation of the layers, *)
(* layers are found under their numbers, and reference counts are exact,   *)
(* also if a layer has been inserted more than once.                       *)
(***************************************************************************)
EXTENDS MapLayers, FiniteSetTheorems, FunctionTheorems, TLAPS

\* Being a permutation of 0 .. n-1.
Perm(f, n) ==
    /\ \A i, j \in 0 .. n - 1 : f[i] = f[j] => i = j
    /\ \A k \in 0 .. n - 1 : \E i \in 0 .. n - 1 : f[i] = k

\* The order with the new last layer at its end is a permutation.
LEMMA PermAppend ==
  ASSUME NEW n \in Nat, NEW f \in [0 .. n - 1 -> 0 .. n - 1], Perm(f, n),
         NEW g \in [0 .. n -> 0 .. n],
         g[n] = n, \A i \in 0 .. n - 1 : g[i] = f[i]
  PROVE  Perm(g, n + 1)
  <1>1. ASSUME NEW i \in 0 .. n, NEW j \in 0 .. n, g[i] = g[j]
        PROVE  i = j
    <2>1. CASE i = n /\ j = n
      BY <2>1
    <2>2. CASE i = n /\ j # n
      <3>1. j \in 0 .. n - 1
        BY <2>2
      <3>2. f[j] \in 0 .. n - 1
        BY <3>1
      <3> QED
        BY <3>1, <3>2, <2>2, <1>1
    <2>3. CASE i # n /\ j = n
      <3>1. i \in 0 .. n - 1
        BY <2>3
      <3>2. f[i] \in 0 .. n - 1
        BY <3>1
      <3> QED
        BY <3>1, <3>2, <2>3, <1>1
    <2>4. CASE i # n /\ j # n
      <3>1. i \in 0 .. n - 1 /\ j \in 0 .. n - 1
        BY <2>4
      <3>2. f[i] = f[j]
        BY <3>1, <1>1
      <3> QED
        BY <3>1, <3>2 DEF Perm
    <2> QED
      BY <2>1, <2>2, <2>3, <2>4
  <1>2. ASSUME NEW k \in 0 .. n
        PROVE  \E i \in 0 .. n : g[i] = k
    <2>1. CASE k = n
      BY <2>1
    <2>2. CASE k # n
      <3>1. PICK i \in 0 .. n - 1 : f[i] = k
        BY <2>2 DEF Perm
      <3> QED
        BY <3>1
    <2> QED
      BY <2>1, <2>2
  <1>3. (n + 1) - 1 = n
    OBVIOUS
  <1> QED
    BY <1>1, <1>2, <1>3 DEF Perm

\* Renumbering for a new number k leaves k free and loses no number.
LEMMA RaisedOK ==
  ASSUME NEW n \in Nat, NEW k \in 0 .. n - 1,
         NEW x \in 0 .. n - 1, NEW y \in 0 .. n - 1
  PROVE  /\ Raised(x, k) \in 0 .. n
         /\ Raised(x, k) # k
         /\ Raised(x, k) = Raised(y, k) => x = y
  BY DEF Raised

\* Every number but the new one comes from an old one.
LEMMA RaisedOnto ==
  ASSUME NEW n \in Nat, NEW k \in 0 .. n - 1, NEW v \in 0 .. n, v # k
  PROVE  \E x \in 0 .. n - 1 : Raised(x, k) = v
  <1>1. CASE v < k
    BY <1>1 DEF Raised
  <1>2. CASE v > k
    <2>1. v - 1 \in 0 .. n - 1 /\ Raised(v - 1, k) = v
      BY <1>2 DEF Raised
    <2> QED
      BY <2>1
  <1> QED
    BY <1>1, <1>2

\* Renumbering without the number q, which is k or its successor, is one to one
\* and fits in one number less.
LEMMA LoweredOK ==
  ASSUME NEW n \in Nat, NEW k \in 0 .. n - 1, NEW q \in 0 .. n - 1,
         q = k \/ q = k + 1,
         NEW x \in 0 .. n - 1, NEW y \in 0 .. n - 1, x # q, y # q
  PROVE  /\ Lowered(x, k) \in 0 .. n - 2
         /\ Lowered(x, k) = Lowered(y, k) => x = y
  BY DEF Lowered

\* Every remaining number comes from an old one.
LEMMA LoweredOnto ==
  ASSUME NEW n \in Nat, NEW k \in 0 .. n - 1, NEW q \in 0 .. n - 1,
         q = k \/ q = k + 1, NEW v \in 0 .. n - 2
  PROVE  \E x \in 0 .. n - 1 : x # q /\ Lowered(x, k) = v
  <1>1. CASE v < k
    <2>1. v \in 0 .. n - 1 /\ v # q /\ Lowered(v, k) = v
      BY <1>1 DEF Lowered
    <2> QED
      BY <2>1
  <1>2. CASE v > k \/ (v = k /\ q = k)
    <2>1. v + 1 \in 0 .. n - 1 /\ v + 1 # q /\ Lowered(v + 1, k) = v
      BY <1>2 DEF Lowered
    <2> QED
      BY <2>1
  <1>3. CASE v = k /\ q = k + 1
    <2>1. v \in 0 .. n - 1 /\ v # q /\ Lowered(v, k) = v
      BY <1>3 DEF Lowered
    <2> QED
      BY <2>1
  <1>4. v < k \/ v > k \/ v = k
    OBVIOUS
  <1> QED
    BY <1>1, <1>2, <1>3, <1>4

\* The old place of the entry at i, when a new one has come in at k.
Below(i, k) == IF i < k THEN i ELSE i - 1

\* The old place of the entry at i, when the one at p has gone.
Above(i, p) == IF i < p THEN i ELSE i + 1

\* The new place of the entry at i, when place n is filled.
Shifted(i, n) == IF i < n THEN i ELSE i + 1

\* Different entries come from different places.
LEMMA BelowInjective ==
  ASSUME NEW k \in Int, NEW i \in Int, NEW j \in Int, i # k, j # k,
         Below(i, k) = Below(j, k)
  PROVE  i = j
  BY DEF Below

\* Different entries come from different places.
LEMMA AboveInjective ==
  ASSUME NEW p \in Int, NEW i \in Int, NEW j \in Int, Above(i, p) = Above(j, p)
  PROVE  i = j
  BY DEF Above

\* Shifting the order up for a layer drawn at place k keeps it a permutation.
LEMMA PermInsert ==
  ASSUME NEW n \in Nat, NEW f \in [0 .. n - 1 -> 0 .. n - 1], Perm(f, n),
         NEW k \in 0 .. n - 1, NEW g, g = [i \in 0 .. n |-> g[i]],
         g[k] = k,
         \A i \in 0 .. n : i # k => g[i] = Raised(f[Below(i, k)], k)
  PROVE  g \in [0 .. n -> 0 .. n] /\ Perm(g, n + 1)
  <1>1. ASSUME NEW i \in 0 .. n, i # k
        PROVE  Below(i, k) \in 0 .. n - 1 /\ f[Below(i, k)] \in 0 .. n - 1
    <2>1. Below(i, k) \in 0 .. n - 1
      BY <1>1 DEF Below
    <2> QED
      BY <2>1
  <1>2. ASSUME NEW i \in 0 .. n, NEW j \in 0 .. n, i # k, j # k, Below(i, k) = Below(j, k)
        PROVE  i = j
    BY <1>2, BelowInjective
  <1>3. \A i \in 0 .. n : g[i] \in 0 .. n
    <2> SUFFICES ASSUME NEW i \in 0 .. n PROVE g[i] \in 0 .. n
      OBVIOUS
    <2>1. CASE i = k
      BY <2>1
    <2>2. CASE i # k
      BY <2>2, <1>1, RaisedOK
    <2> QED
      BY <2>1, <2>2
  <1>4. g \in [0 .. n -> 0 .. n]
    BY <1>3
  <1>5. ASSUME NEW i \in 0 .. n, NEW j \in 0 .. n, g[i] = g[j]
        PROVE  i = j
    <2>1. CASE i = k /\ j = k
      BY <2>1
    <2>2. CASE i = k /\ j # k
      BY <2>2, <1>1, <1>5, RaisedOK
    <2>3. CASE i # k /\ j = k
      BY <2>3, <1>1, <1>5, RaisedOK
    <2>4. CASE i # k /\ j # k
      <3>1. f[Below(i, k)] = f[Below(j, k)]
        BY <2>4, <1>1, <1>5, RaisedOK
      <3>2. Below(i, k) = Below(j, k)
        BY <3>1, <2>4, <1>1 DEF Perm
      <3> QED
        BY <3>2, <2>4, <1>2
    <2> QED
      BY <2>1, <2>2, <2>3, <2>4
  <1>6. ASSUME NEW v \in 0 .. n
        PROVE  \E i \in 0 .. n : g[i] = v
    <2>1. CASE v = k
      BY <2>1
    <2>2. CASE v # k
      <3>1. PICK w \in 0 .. n - 1 : Raised(w, k) = v
        BY <2>2, RaisedOnto
      <3>2. PICK i \in 0 .. n - 1 : f[i] = w
        BY DEF Perm
      <3>3. PICK j \in 0 .. n : j # k /\ Below(j, k) = i
        <4>1. CASE i < k
          <5>1. i \in 0 .. n /\ i # k /\ Below(i, k) = i
            BY <4>1 DEF Below
          <5> QED
            BY <5>1
        <4>2. CASE i >= k
          <5>1. i + 1 \in 0 .. n /\ i + 1 # k /\ Below(i + 1, k) = i
            BY <4>2 DEF Below
          <5> QED
            BY <5>1
        <4> QED
          BY <4>1, <4>2
      <3> QED
        BY <3>1, <3>2, <3>3
    <2> QED
      BY <2>1, <2>2
  <1>7. (n + 1) - 1 = n
    OBVIOUS
  <1> QED
    BY <1>4, <1>5, <1>6, <1>7 DEF Perm

\* Leaving out the entry at p and renumbering keeps the order a permutation
\* of the remaining layers if the entry is k or the one after it.
LEMMA PermRemove ==
  ASSUME NEW n \in Nat, NEW f \in [0 .. n - 1 -> 0 .. n - 1], Perm(f, n),
         NEW k \in 0 .. n - 1, NEW p \in 0 .. n - 1, f[p] = k \/ f[p] = k + 1,
         NEW g, g = [i \in 0 .. n - 2 |-> g[i]],
         \A i \in 0 .. n - 2 : g[i] = Lowered(f[Above(i, p)], k)
  PROVE  g \in [0 .. n - 2 -> 0 .. n - 2] /\ Perm(g, n - 1)
  <1>0. f[p] \in 0 .. n - 1
    OBVIOUS
  <1>1. ASSUME NEW i \in 0 .. n - 2
        PROVE  /\ Above(i, p) \in 0 .. n - 1
               /\ f[Above(i, p)] \in 0 .. n - 1
               /\ f[Above(i, p)] # f[p]
    <2>1. Above(i, p) \in 0 .. n - 1 /\ Above(i, p) # p
      BY DEF Above
    <2>2. f[Above(i, p)] \in 0 .. n - 1
      BY <2>1
    <2> QED
      BY <2>1, <2>2 DEF Perm
  <1>2. ASSUME NEW i \in 0 .. n - 2, NEW j \in 0 .. n - 2, Above(i, p) = Above(j, p)
        PROVE  i = j
    BY <1>2, AboveInjective
  <1>3. \A i \in 0 .. n - 2 : g[i] \in 0 .. n - 2
    <2> SUFFICES ASSUME NEW i \in 0 .. n - 2 PROVE g[i] \in 0 .. n - 2
      OBVIOUS
    <2> DEFINE x == f[Above(i, p)]
               y == f[p]
    <2>1. x \in 0 .. n - 1 /\ y \in 0 .. n - 1 /\ x # y
      BY <1>0, <1>1
    <2>2. y = k \/ y = k + 1
      OBVIOUS
    <2>3. g[i] = Lowered(x, k)
      OBVIOUS
    <2> HIDE DEF x, y
    <2>4. Lowered(x, k) \in 0 .. n - 2
      BY <2>1, <2>2, LoweredOK
    <2> QED
      BY <2>3, <2>4
  <1>4. g \in [0 .. n - 2 -> 0 .. n - 2]
    BY <1>3
  <1>5. ASSUME NEW i \in 0 .. n - 2, NEW j \in 0 .. n - 2, g[i] = g[j]
        PROVE  i = j
    <2>1. f[Above(i, p)] = f[Above(j, p)]
      <3> DEFINE x == f[Above(i, p)]
                 y == f[Above(j, p)]
      <3>1. /\ x \in 0 .. n - 1 /\ x # f[p]
            /\ y \in 0 .. n - 1 /\ y # f[p]
        BY <1>1
      <3>2. Lowered(x, k) = Lowered(y, k)
        BY <1>5
      <3> HIDE DEF x, y
      <3>3. PICK q \in 0 .. n - 1 : q = f[p]
        BY <1>0
      <3>4. q = k \/ q = k + 1
        BY <3>3
      <3>5. x = y
        BY <3>1, <3>2, <3>3, <3>4 DEF Lowered
      <3> QED
        BY <3>5 DEF x, y
    <2>2. Above(i, p) = Above(j, p)
      <3>1. Above(i, p) \in 0 .. n - 1 /\ Above(j, p) \in 0 .. n - 1
        BY <1>1
      <3> QED
        BY <2>1, <3>1 DEF Perm
    <2> QED
      BY <2>2, <1>2
  <1>6. ASSUME NEW v \in 0 .. n - 2
        PROVE  \E i \in 0 .. n - 2 : g[i] = v
    <2>1. PICK w \in 0 .. n - 1 : w # f[p] /\ Lowered(w, k) = v
      BY <1>0, LoweredOnto
    <2>2. PICK i \in 0 .. n - 1 : f[i] = w
      BY DEF Perm
    <2>3. i # p
      BY <2>1, <2>2
    <2>4. PICK j \in 0 .. n - 2 : Above(j, p) = i
      <3>1. CASE i < p
        <4>1. i \in 0 .. n - 2 /\ Above(i, p) = i
          BY <3>1 DEF Above
        <4> QED
          BY <4>1
      <3>2. CASE i > p
        <4>1. i - 1 \in 0 .. n - 2 /\ Above(i - 1, p) = i
          BY <3>2 DEF Above
        <4> QED
          BY <4>1
      <3> QED
        BY <2>3, <3>1, <3>2
    <2> QED
      BY <2>1, <2>2, <2>4
  <1>7. (n - 1) - 1 = n - 2
    OBVIOUS
  <1> QED
    BY <1>4, <1>5, <1>6, <1>7 DEF Perm

\* Exchanging two entries keeps the order a permutation.
LEMMA PermSwap ==
  ASSUME NEW n \in Nat, NEW f \in [0 .. n - 1 -> 0 .. n - 1], Perm(f, n),
         NEW a \in 0 .. n - 1, NEW b \in 0 .. n - 1, a # b, NEW g,
         g = [f EXCEPT ![a] = f[b], ![b] = f[a]]
  PROVE  g \in [0 .. n - 1 -> 0 .. n - 1] /\ Perm(g, n)
  <1> DEFINE S == 0 .. n - 1
  <1>1. f \in [S -> S] /\ a \in S /\ b \in S
    OBVIOUS
  <1>2. /\ \A i, j \in S : f[i] = f[j] => i = j
        /\ \A v \in S : \E i \in S : f[i] = v
    BY DEF Perm
  <1> HIDE DEF S
  <1>3. g \in [S -> S]
    BY <1>1
  <1>4. g[a] = f[b] /\ g[b] = f[a] /\ \A i \in S : i # a /\ i # b => g[i] = f[i]
    BY <1>1
  <1>5. ASSUME NEW i \in S, NEW j \in S, g[i] = g[j]
        PROVE  i = j
    <2> DEFINE Was(x) == IF x = a THEN b ELSE IF x = b THEN a ELSE x
    <2>1. \A x \in S : Was(x) \in S /\ g[x] = f[Was(x)]
      BY <1>1, <1>4
    <2>2. Was(i) = Was(j) => i = j
      OBVIOUS
    <2> HIDE DEF Was
    <2>3. Was(i) \in S /\ Was(j) \in S /\ g[i] = f[Was(i)] /\ g[j] = f[Was(j)]
      BY <2>1
    <2>4. f[Was(i)] = f[Was(j)]
      BY <1>5, <2>3
    <2>5. \A x, y \in S : f[x] = f[y] => x = y
      BY <1>2
    <2>6. Was(i) = Was(j)
      BY <2>3, <2>4, <2>5, Zenon
    <2> QED
      BY <2>2, <2>6
  <1>6. ASSUME NEW v \in S
        PROVE  \E i \in S : g[i] = v
    <2>1. PICK i \in S : f[i] = v
      BY <1>2
    <2> QED
      BY <2>1, <1>1, <1>4
  <1> QED
    BY <1>3, <1>5, <1>6 DEF S, Perm

\* An order that names every layer is a permutation (pigeonhole).
LEMMA PermOnto ==
  ASSUME NEW n \in Nat, NEW f \in [0 .. n - 1 -> 0 .. n - 1],
         \A k \in 0 .. n - 1 : \E i \in 0 .. n - 1 : f[i] = k
  PROVE  Perm(f, n)
  <1> DEFINE S == 0 .. n - 1
  <1>1. IsFiniteSet(S)
    BY FS_Interval
  <1>2. f \in [S -> S] /\ \A k \in S : \E i \in S : f[i] = k
    OBVIOUS
  <1> HIDE DEF S
  <1>3. f \in Surjection(S, S)
    BY <1>2, Fun_IsSurj
  <1>4. f \in Injection(S, S)
    BY <1>1, <1>3, FS_SurjSameCardinalityImpliesInj
  <1>5. \A i, j \in S : f[i] = f[j] => i = j
    BY <1>4, Fun_InjectionProperties
  <1> QED
    BY <1>2, <1>5 DEF S, Perm

-----------------------------------------------------------------------------
\* Filling place n of 0 .. m moves the places from n on up by one; a set of
\* places keeps its size.
LEMMA ShiftedCount ==
  ASSUME NEW m \in Nat, NEW n \in 0 .. m, NEW S \in SUBSET (0 .. m - 1)
  PROVE  LET T == {i \in 0 .. m : i # n /\ Below(i, n) \in S} IN
         /\ IsFiniteSet(T)
         /\ Cardinality(T) = Cardinality(S)
         /\ Cardinality(S) \in Nat
  <1> DEFINE T == {i \in 0 .. m : i # n /\ Below(i, n) \in S}
             f == [i \in S |-> Shifted(i, n)]
  <1>1. IsFiniteSet(S)
    <2>1. IsFiniteSet(0 .. m - 1)
      BY FS_Interval
    <2> QED
      BY <2>1, FS_Subset
  <1>2. \A i \in S : Shifted(i, n) \in T
    BY DEF Shifted, Below
  <1>3. \A i, j \in S : Shifted(i, n) = Shifted(j, n) => i = j
    BY DEF Shifted
  <1>4. \A t \in T : Below(t, n) \in S /\ Shifted(Below(t, n), n) = t
    BY DEF Shifted, Below
  <1> HIDE DEF T
  <1>5. f \in Bijection(S, T)
    BY <1>2, <1>3, <1>4, Fun_IsBij
  <1>6. ExistsBijection(S, T)
    BY <1>5, Fun_ExistsBij
  <1>7. /\ IsFiniteSet(T) /\ Cardinality(T) = Cardinality(S)
        /\ Cardinality(S) \in Nat
    BY <1>1, <1>6, FS_Bijection, FS_CardinalityType
  <1> QED
    BY <1>7 DEF T

\* The places up to m - 1 at which f has the value k.
Having(f, m, k) == {i \in 0 .. m - 1 : f[i] = k}

\* If g is f with place n filled, it has a value where f had it, moved, and
\* perhaps at n.
LEMMA FilledCount ==
  ASSUME NEW m \in Nat, NEW n \in 0 .. m, NEW f, NEW g, NEW k,
         \A i \in 0 .. m : i # n => g[i] = f[Below(i, n)]
  PROVE  /\ Cardinality(Having(f, m, k)) \in Nat
         /\ Cardinality(Having(g, m + 1, k)) =
              Cardinality(Having(f, m, k)) + (IF g[n] = k THEN 1 ELSE 0)
  <1> DEFINE S == {i \in 0 .. m - 1 : f[i] = k}
             T == {i \in 0 .. m : i # n /\ Below(i, n) \in S}
             Q == {i \in 0 .. m : g[i] = k}
  <1>1. S \in SUBSET (0 .. m - 1)
    OBVIOUS
  <1>2. IsFiniteSet(T) /\ Cardinality(T) = Cardinality(S) /\ Cardinality(S) \in Nat
    <2> HIDE DEF S
    <2> QED
      BY <1>1, ShiftedCount
  <1>3. \A i \in 0 .. m : i # n => Below(i, n) \in 0 .. m - 1
    BY DEF Below
  <1>4. T = {i \in 0 .. m : i # n /\ g[i] = k}
    BY <1>3
  <1>5. n \notin T /\ Q = IF g[n] = k THEN T \cup {n} ELSE T
    BY <1>4
  <1> HIDE DEF S, T, Q
  <1>6. Cardinality(Q) = Cardinality(T) + (IF g[n] = k THEN 1 ELSE 0)
    <2>1. CASE g[n] = k
      BY <2>1, <1>2, <1>5, FS_AddElement
    <2>2. CASE g[n] # k
      BY <2>2, <1>2, <1>5
    <2> QED
      BY <2>1, <2>2
  <1>7. S = Having(f, m, k) /\ Q = Having(g, m + 1, k)
    BY DEF S, Q, Having
  <1> QED
    BY <1>2, <1>6, <1>7

\* A set of natural numbers has a least one.
LEMMA LeastIn ==
  ASSUME NEW S \in SUBSET Nat, S # {}
  PROVE  Least(S) \in S /\ \A j \in S : Least(S) <= j
  <1>1. PICK i \in S : \A j \in S : ~ (<<j, i>> \in OpToRel(<, Nat))
    BY NatLessThanWellFounded, WFMin, Zenon
  <1>2. \A j \in S : ~ (j < i)
    BY <1>1, Zenon DEF OpToRel
  <1>3. \A j \in S : i <= j
    BY <1>2
  <1> QED
    BY <1>3 DEF Least

\* And a bounded one has a greatest.
LEMMA GreatestIn ==
  ASSUME NEW m \in Nat, NEW S \in SUBSET (0 .. m), S # {}
  PROVE  Greatest(S) \in S
  <1> DEFINE T == {i \in 0 .. m : m - i \in S}
  <1>1. T \in SUBSET Nat /\ \A t \in T : m - t \in S /\ t <= m
    OBVIOUS
  <1>3. \A i \in S : m - i \in T
    OBVIOUS
  <1> HIDE DEF T
  <1>2. PICK t \in T : \A j \in T : t <= j
    BY <1>1, <1>3, LeastIn
  <1>4. m - t \in S
    BY <1>1, <1>2
  <1>5. \A i \in S : t <= m - i
    BY <1>2, <1>3
  <1>6. \A i \in S : m - t >= i
    BY <1>1, <1>2, <1>5
  <1> QED
    BY <1>4, <1>6 DEF Greatest

-----------------------------------------------------------------------------
USE MapLayersAssumption

\* How many places a layer has in the map.
Places(l) == Cardinality(Positions(l))

\* The invariant's statement about the drawing order, before and after a step.
LEMMA OrderIsPerm ==
  /\ OrderIsPermutation <=> Perm(layerorder, numlayers)
  /\ OrderIsPermutation' <=> Perm(layerorder', numlayers')
  BY DEF OrderIsPermutation, Perm

\* Before a map has layers the invariant holds.
LEMMA InitInv == Init => LayersInv
  <1> SUFFICES ASSUME Init PROVE LayersInv
    OBVIOUS
  <1>1. \A l \in LayerObjs : Cardinality(Positions(l)) = 0
    BY FS_EmptySet DEF Init, Positions
  <1> QED
    BY <1>1 DEF Init, LayersInv, TypeOK, OrderIsPermutation, IndexNamesLayer,
                RefCountExact

\* Making room does not lose a layer and leaves a slot for the next.
LEMMA GrownOK ==
  ASSUME TypeOK
  PROVE  /\ GrownMax \in Nat
         /\ numlayers < GrownMax
         /\ maxlayers <= GrownMax
         /\ GrownLayers \in [0 .. GrownMax - 1 -> LayerObjs \cup {NULL, Dangling}]
         /\ \A i \in 0 .. GrownMax - 1 : i < numlayers <=> GrownLayers[i] \in LayerObjs
         /\ \A i \in 0 .. numlayers - 1 : GrownLayers[i] = layers[i]
  BY DEF TypeOK, GrownMax, GrownLayers

\* A layer at the end, drawn last (msInsertLayer with index -1).
LEMMA AppendOK ==
  ASSUME LayersInv, NEW l \in LayerObjs, AppendLayer(l)
  PROVE  /\ numlayers' \in Nat
         /\ maxlayers' \in Nat
         /\ numlayers' <= maxlayers'
         /\ layers' \in [0 .. maxlayers' - 1 -> LayerObjs \cup {NULL, Dangling}]
         /\ \A i \in 0 .. maxlayers' - 1 : i < numlayers' <=> layers'[i] \in LayerObjs
         /\ layerorder' \in [0 .. numlayers' - 1 -> 0 .. numlayers' - 1]
         /\ index' \in [LayerObjs -> Int]
         /\ mapped' \subseteq LayerObjs
         /\ OrderIsPermutation'
         /\ IndexNamesLayer'
         /\ \A k \in LayerObjs : Places(k)' = Places(k) + (IF k = l THEN 1 ELSE 0)
  <1>0. TypeOK /\ OrderIsPermutation /\ IndexNamesLayer
    BY DEF LayersInv
  <1>1. /\ numlayers' = numlayers + 1
        /\ maxlayers' = GrownMax
        /\ layers' = [GrownLayers EXCEPT ![numlayers] = l]
        /\ index' = [index EXCEPT ![l] = numlayers]
        /\ mapped' = mapped \cup {l}
    BY DEF AppendLayer
  <1>2. /\ numlayers \in Nat
        /\ numlayers < GrownMax
        /\ GrownMax \in Nat
        /\ GrownLayers \in [0 .. GrownMax - 1 -> LayerObjs \cup {NULL, Dangling}]
        /\ \A i \in 0 .. GrownMax - 1 : i < numlayers <=> GrownLayers[i] \in LayerObjs
        /\ \A i \in 0 .. numlayers - 1 : GrownLayers[i] = layers[i]
    BY <1>0, GrownOK DEF TypeOK
  <1>3. /\ layers' \in [0 .. maxlayers' - 1 -> LayerObjs \cup {NULL, Dangling}]
        /\ \A i \in 0 .. maxlayers' - 1 : i < numlayers' <=> layers'[i] \in LayerObjs
        /\ \A i \in 0 .. numlayers - 1 : layers'[i] = layers[i]
        /\ layers'[numlayers] = l
    BY <1>1, <1>2
  <1>4. /\ layerorder' \in [0 .. numlayers' - 1 -> 0 .. numlayers' - 1]
        /\ OrderIsPermutation'
    <2>1. layerorder' = [i \in 0 .. numlayers |->
                            IF i = numlayers THEN numlayers ELSE layerorder[i]]
      BY DEF AppendLayer, OrderAppended
    <2>2. layerorder \in [0 .. numlayers - 1 -> 0 .. numlayers - 1]
      BY <1>0 DEF TypeOK
    <2>3. \A i \in 0 .. numlayers - 1 : layerorder'[i] = layerorder[i]
      BY <2>1, <1>2
    <2>4. layerorder'[numlayers] = numlayers
      BY <2>1, <1>2
    <2>5. layerorder' \in [0 .. numlayers -> 0 .. numlayers]
      BY <2>1, <2>2, <1>2
    <2>6. Perm(layerorder', numlayers + 1)
      BY <2>2, <2>3, <2>4, <2>5, <1>0, <1>2, PermAppend, OrderIsPerm
    <2>7. numlayers' - 1 = numlayers
      BY <1>1, <1>2
    <2> QED
      BY <2>5, <2>6, <2>7, <1>1, OrderIsPerm
  <1>5. ASSUME NEW k \in LayerObjs
        PROVE  Places(k)' = Places(k) + (IF k = l THEN 1 ELSE 0)
    <2>1. numlayers \in 0 .. numlayers /\ numlayers' - 1 = numlayers
      BY <1>1, <1>2
    <2>2. \A i \in 0 .. numlayers : i # numlayers => layers'[i] = layers[Below(i, numlayers)]
      BY <1>2, <1>3 DEF Below
    <2> DEFINE f == layers
               g == layers'
               m == numlayers
    <2>3. /\ m \in Nat /\ m \in 0 .. m /\ g[m] = l
          /\ \A i \in 0 .. m : i # m => g[i] = f[Below(i, m)]
      BY <1>2, <1>3, <2>1, <2>2
    <2>4. Places(k) = Cardinality(Having(f, m, k))
      BY DEF Places, Positions, Having
    <2>5. Places(k)' = Cardinality(Having(g, m + 1, k))
      BY <1>1 DEF Places, Positions, Having
    <2> HIDE DEF f, g, m
    <2> QED
      BY <2>3, <2>4, <2>5, FilledCount
  <1>6. /\ index' \in [LayerObjs -> Int] /\ mapped' \subseteq LayerObjs
        /\ IndexNamesLayer'
    <2>1. index \in [LayerObjs -> Int] /\ mapped \subseteq LayerObjs
      BY <1>0 DEF TypeOK
    <2>2. numlayers' - 1 = numlayers
      BY <1>1, <1>2
    <2>3. ASSUME NEW k \in mapped'
          PROVE  index'[k] \in 0 .. numlayers /\ layers'[index'[k]] = k
      <3>1. CASE k = l
        BY <3>1, <1>1, <1>2, <1>3, <2>1
      <3>2. CASE k # l
        <4>1. index'[k] = index[k] /\ index[k] \in Positions(k)
          BY <3>2, <1>0, <1>1, <2>1, <2>3 DEF IndexNamesLayer
        <4> QED
          BY <4>1, <1>2, <1>3 DEF Positions
      <3> QED
        BY <3>1, <3>2
    <2> QED
      BY <2>1, <2>2, <2>3, <1>1, <1>2 DEF IndexNamesLayer, Positions
  <1>7. numlayers' \in Nat /\ maxlayers' \in Nat /\ numlayers' <= maxlayers'
    BY <1>1, <1>2
  <1> QED
    BY <1>3, <1>4, <1>5, <1>6, <1>7

\* A layer in front of layer number n (msInsertLayer).
LEMMA InsertOK ==
  ASSUME LayersInv, NEW l \in LayerObjs, NEW n \in 0 .. numlayers - 1,
         numlayers' = numlayers + 1,
         maxlayers' = GrownMax,
         layers' = LayersInserted(l, n),
         layerorder' = OrderInserted(n),
         index' = IndexInserted(l, n),
         mapped' = mapped \cup {l}
  PROVE  /\ numlayers' \in Nat
         /\ maxlayers' \in Nat
         /\ numlayers' <= maxlayers'
         /\ layers' \in [0 .. maxlayers' - 1 -> LayerObjs \cup {NULL, Dangling}]
         /\ \A i \in 0 .. maxlayers' - 1 : i < numlayers' <=> layers'[i] \in LayerObjs
         /\ layerorder' \in [0 .. numlayers' - 1 -> 0 .. numlayers' - 1]
         /\ index' \in [LayerObjs -> Int]
         /\ mapped' \subseteq LayerObjs
         /\ OrderIsPermutation'
         /\ IndexNamesLayer'
         /\ \A k \in LayerObjs : Places(k)' = Places(k) + (IF k = l THEN 1 ELSE 0)
  <1>0. TypeOK /\ OrderIsPermutation /\ IndexNamesLayer
    BY DEF LayersInv
  <1>2. /\ numlayers \in Nat
        /\ numlayers < GrownMax
        /\ GrownMax \in Nat
        /\ GrownLayers \in [0 .. GrownMax - 1 -> LayerObjs \cup {NULL, Dangling}]
        /\ \A i \in 0 .. GrownMax - 1 : i < numlayers <=> GrownLayers[i] \in LayerObjs
        /\ \A i \in 0 .. numlayers - 1 : GrownLayers[i] = layers[i]
    BY <1>0, GrownOK DEF TypeOK
  <1>3. \A i \in 0 .. numlayers - 1 : layers[i] \in LayerObjs
    BY <1>0 DEF TypeOK
  <1>4. /\ layers' = [i \in 0 .. GrownMax - 1 |-> layers'[i]]
        /\ layers'[n] = l
        /\ \A i \in 0 .. n - 1 : layers'[i] = layers[i]
        /\ \A i \in n + 1 .. numlayers : layers'[i] = layers[i - 1]
        /\ \A i \in numlayers + 1 .. GrownMax - 1 : layers'[i] = GrownLayers[i]
    BY <1>2 DEF LayersInserted
  <1>5. ASSUME NEW i \in 0 .. GrownMax - 1
        PROVE  /\ layers'[i] \in LayerObjs \cup {NULL, Dangling}
               /\ i < numlayers + 1 <=> layers'[i] \in LayerObjs
    <2>1. CASE i < n
      BY <2>1, <1>2, <1>3, <1>4
    <2>2. CASE i = n
      BY <2>2, <1>2, <1>4
    <2>3. CASE i > n /\ i <= numlayers
      <3>1. i - 1 \in 0 .. numlayers - 1 /\ i \in n + 1 .. numlayers
        BY <2>3, <1>2
      <3> QED
        BY <3>1, <2>3, <1>2, <1>3, <1>4
    <2>4. CASE i > numlayers
      BY <2>4, <1>2, <1>4
    <2> QED
      BY <2>1, <2>2, <2>3, <2>4, <1>2
  <1>6. /\ layerorder' \in [0 .. numlayers' - 1 -> 0 .. numlayers' - 1]
        /\ OrderIsPermutation'
    <2>1. layerorder \in [0 .. numlayers - 1 -> 0 .. numlayers - 1]
      BY <1>0 DEF TypeOK
    <2>2. /\ layerorder' = [i \in 0 .. numlayers |-> layerorder'[i]]
          /\ layerorder'[n] = n
          /\ \A i \in 0 .. numlayers :
                i # n => layerorder'[i] = Raised(layerorder[Below(i, n)], n)
      BY <1>2 DEF OrderInserted, Below
    <2>3. /\ layerorder' \in [0 .. numlayers -> 0 .. numlayers]
          /\ Perm(layerorder', numlayers + 1)
      <3>1. Perm(layerorder, numlayers)
        BY <1>0, OrderIsPerm
      <3> DEFINE f == layerorder
                 g == layerorder'
                 m == numlayers
      <3>2. m \in Nat /\ n \in 0 .. m - 1
        BY <1>2
      <3>3. f \in [0 .. m - 1 -> 0 .. m - 1] /\ Perm(f, m)
        BY <3>1, <2>1
      <3>4. g = [i \in 0 .. m |-> g[i]] /\ g[n] = n
        BY <2>2
      <3>5. \A i \in 0 .. m : i # n => g[i] = Raised(f[Below(i, n)], n)
        BY <2>2
      <3>6. g \in [0 .. m -> 0 .. m] /\ Perm(g, m + 1)
        <4> HIDE DEF f, g, m
        <4> QED
          BY <3>2, <3>3, <3>4, <3>5, PermInsert
      <3> QED
        BY <3>6
    <2>4. numlayers' - 1 = numlayers
      BY <1>2
    <2> QED
      BY <2>3, <2>4, OrderIsPerm
  <1>7. ASSUME NEW k \in LayerObjs
        PROVE  Places(k)' = Places(k) + (IF k = l THEN 1 ELSE 0)
    <2>1. n \in 0 .. numlayers /\ numlayers' - 1 = numlayers
      BY <1>2
    <2>2. \A i \in 0 .. numlayers : i # n => layers'[i] = layers[Below(i, n)]
      BY <1>2, <1>4 DEF Below
    <2> DEFINE f == layers
               g == layers'
               m == numlayers
    <2>3. /\ m \in Nat /\ n \in 0 .. m /\ g[n] = l
          /\ \A i \in 0 .. m : i # n => g[i] = f[Below(i, n)]
      BY <1>2, <1>4, <2>1, <2>2
    <2>4. Places(k) = Cardinality(Having(f, m, k))
      BY DEF Places, Positions, Having
    <2>5. Places(k)' = Cardinality(Having(g, m + 1, k))
      BY DEF Places, Positions, Having
    <2> HIDE DEF f, g, m
    <2> QED
      BY <2>3, <2>4, <2>5, FilledCount
  <1>8. ASSUME NEW k \in LayerObjs, Behind(k, n) # {}
        PROVE  /\ Least(Behind(k, n)) \in n .. numlayers - 1
               /\ layers[Least(Behind(k, n))] = k
    <2>1. Behind(k, n) \in SUBSET Nat
      BY <1>2 DEF Behind, Positions
    <2>2. Least(Behind(k, n)) \in Behind(k, n)
      BY <1>8, <2>1, LeastIn
    <2> QED
      BY <2>2, <1>2 DEF Behind, Positions
  <1>9. index' \in [LayerObjs -> Int] /\ mapped' \subseteq LayerObjs
    <2>1. index \in [LayerObjs -> Int] /\ mapped \subseteq LayerObjs
      BY <1>0 DEF TypeOK
    <2>2. \A k \in LayerObjs : Behind(k, n) # {} => Least(Behind(k, n)) + 1 \in Int
      BY <1>2, <1>8
    <2>3. n \in Int
      BY <1>2
    <2> QED
      BY <2>1, <2>2, <2>3 DEF IndexInserted
  <1>10. ASSUME NEW k \in mapped'
         PROVE  index'[k] \in 0 .. numlayers /\ layers'[index'[k]] = k
    <2>0. k \in LayerObjs
      BY <1>9
    <2>1. CASE k = l
      BY <2>1, <1>2, <1>4 DEF IndexInserted
    <2>2. CASE k # l /\ Behind(k, n) # {}
      <3>1. index'[k] = Least(Behind(k, n)) + 1
        BY <2>0, <2>2 DEF IndexInserted
      <3> DEFINE c == Least(Behind(k, n))
      <3>2. c \in n .. numlayers - 1 /\ layers[c] = k
        BY <2>0, <2>2, <1>8
      <3>3. index'[k] = c + 1
        BY <3>1
      <3> HIDE DEF c
      <3>4. c + 1 \in n + 1 .. numlayers /\ (c + 1) - 1 = c
        BY <3>2, <1>2
      <3>5. layers'[c + 1] = k
        BY <3>2, <3>4, <1>4
      <3> QED
        BY <3>3, <3>4, <3>5, <1>2
    <2>3. CASE k # l /\ Behind(k, n) = {}
      <3>1. index'[k] = index[k]
        BY <2>0, <2>3 DEF IndexInserted
      <3>2. index[k] \in Positions(k)
        BY <2>3, <1>0 DEF IndexNamesLayer
      <3>3. index[k] \in 0 .. n - 1 /\ layers[index[k]] = k
        BY <3>2, <2>3, <1>2 DEF Behind, Positions
      <3> QED
        BY <3>1, <3>3, <1>2, <1>4
    <2> QED
      BY <2>1, <2>2, <2>3
  <1>12. IndexNamesLayer'
    <2>1. numlayers' - 1 = numlayers
      BY <1>2
    <2> QED
      BY <2>1, <1>10 DEF IndexNamesLayer, Positions
  <1>13. /\ numlayers' \in Nat /\ maxlayers' \in Nat /\ numlayers' <= maxlayers'
    BY <1>2
  <1>14. /\ layers' \in [0 .. maxlayers' - 1 -> LayerObjs \cup {NULL, Dangling}]
         /\ \A i \in 0 .. maxlayers' - 1 : i < numlayers' <=> layers'[i] \in LayerObjs
    <2>1. \A i \in 0 .. GrownMax - 1 : layers'[i] \in LayerObjs \cup {NULL, Dangling}
      BY <1>5
    <2>2. layers' \in [0 .. GrownMax - 1 -> LayerObjs \cup {NULL, Dangling}]
      BY <2>1, <1>4
    <2> QED
      BY <2>2, <1>5
  <1> QED
    BY <1>6, <1>7, <1>9, <1>12, <1>13, <1>14

\* msRemoveLayer finds an entry to take out: that of layer n, or that of the
\* layer after it if that one is drawn first.
LEMMA FoundSomewhere ==
  ASSUME LayersInv, NEW n \in 0 .. numlayers - 1
  PROVE  \E i \in 0 .. numlayers - 1 : FoundAt(i, n)
  <1>0. /\ numlayers \in Nat
        /\ layerorder \in [0 .. numlayers - 1 -> 0 .. numlayers - 1]
        /\ \A i, j \in 0 .. numlayers - 1 : layerorder[i] = layerorder[j] => i = j
    BY DEF LayersInv, TypeOK, OrderIsPermutation
  <1>1. PICK a \in 0 .. numlayers - 1 : layerorder[a] = n
    BY DEF LayersInv, OrderIsPermutation
  <1>2. CASE \E b \in 0 .. a - 1 : layerorder[b] = n + 1
    <2>1. PICK b \in 0 .. a - 1 : layerorder[b] = n + 1
      BY <1>2
    <2>2. b \in 0 .. numlayers - 1 /\ b < a
      BY <1>0, <1>1, <2>1
    <2>3. ASSUME NEW j \in 0 .. b - 1
          PROVE  layerorder[j] \notin {n, n + 1}
      <3>1. j \in 0 .. numlayers - 1 /\ j # a /\ j # b
        BY <1>0, <2>2
      <3> QED
        BY <3>1, <1>0, <1>1, <2>1, <2>2
    <2>4. FoundAt(b, n)
      BY <2>1, <2>3 DEF FoundAt
    <2> QED
      BY <2>2, <2>4
  <1>3. CASE ~ \E b \in 0 .. a - 1 : layerorder[b] = n + 1
    <2>1. ASSUME NEW j \in 0 .. a - 1
          PROVE  layerorder[j] \notin {n, n + 1}
      <3>1. j \in 0 .. numlayers - 1 /\ j # a
        BY <1>0, <1>1
      <3> QED
        BY <3>1, <1>0, <1>1, <1>3
    <2>2. FoundAt(a, n)
      BY <1>1, <2>1 DEF FoundAt
    <2> QED
      BY <2>2
  <1> QED
    BY <1>2, <1>3

\* Layer number n is taken out (msRemoveLayer).
LEMMA RemoveOK ==
  ASSUME LayersInv, NEW n \in 0 .. numlayers - 1,
         numlayers' = numlayers - 1,
         maxlayers' = maxlayers,
         layers' = LayersRemoved(n),
         layerorder' = OrderRemoved(n),
         index' = IndexRemoved(n),
         mapped' = mapped \ {layers[n]}
  PROVE  /\ numlayers' \in Nat
         /\ maxlayers' \in Nat
         /\ numlayers' <= maxlayers'
         /\ layers' \in [0 .. maxlayers' - 1 -> LayerObjs \cup {NULL, Dangling}]
         /\ \A i \in 0 .. maxlayers' - 1 : i < numlayers' <=> layers'[i] \in LayerObjs
         /\ layerorder' \in [0 .. numlayers' - 1 -> 0 .. numlayers' - 1]
         /\ index' \in [LayerObjs -> Int]
         /\ OrderIsPermutation'
         /\ mapped' \subseteq LayerObjs
         /\ IndexNamesLayer'
         /\ layers[n] \in LayerObjs
         /\ \A k \in LayerObjs :
               Places(k) = Places(k)' + (IF k = layers[n] THEN 1 ELSE 0)
  <1>0. /\ numlayers \in Nat
        /\ maxlayers \in Nat
        /\ numlayers <= maxlayers
        /\ layers \in [0 .. maxlayers - 1 -> LayerObjs \cup {NULL, Dangling}]
        /\ \A i \in 0 .. maxlayers - 1 : i < numlayers <=> layers[i] \in LayerObjs
        /\ layerorder \in [0 .. numlayers - 1 -> 0 .. numlayers - 1]
        /\ index \in [LayerObjs -> Int]
    BY DEF LayersInv, TypeOK
  <1>1. \A i \in 0 .. numlayers - 1 : layers[i] \in LayerObjs
    BY <1>0
  <1>2. /\ layers' = [i \in 0 .. maxlayers - 1 |-> layers'[i]]
        /\ \A i \in 0 .. n - 1 : layers'[i] = layers[i]
        /\ \A i \in n .. numlayers - 2 : layers'[i] = layers[i + 1]
        /\ layers'[numlayers - 1] = NULL
        /\ \A i \in numlayers .. maxlayers - 1 : layers'[i] = layers[i]
    <2>1. /\ layers' = [i \in 0 .. maxlayers - 1 |-> layers'[i]]
          /\ \A i \in 0 .. n - 1 : layers'[i] = layers[i]
          /\ layers'[numlayers - 1] = NULL
      BY <1>0 DEF LayersRemoved
    <2>2. \A i \in n .. numlayers - 2 : layers'[i] = layers[i + 1]
      BY <1>0 DEF LayersRemoved
    <2>3. \A i \in numlayers .. maxlayers - 1 : layers'[i] = layers[i]
      BY <1>0 DEF LayersRemoved
    <2> QED
      BY <2>1, <2>2, <2>3
  <1>3. ASSUME NEW i \in 0 .. maxlayers - 1
        PROVE  /\ layers'[i] \in LayerObjs \cup {NULL, Dangling}
               /\ i < numlayers - 1 <=> layers'[i] \in LayerObjs
    <2>1. CASE i < n
      <3>1. i \in 0 .. n - 1 /\ i \in 0 .. numlayers - 1 /\ i < numlayers - 1
        BY <2>1, <1>0
      <3> QED
        BY <3>1, <1>1, <1>2
    <2>2. CASE i >= n /\ i < numlayers - 1
      <3>1. i \in n .. numlayers - 2 /\ i + 1 \in 0 .. numlayers - 1
        BY <2>2, <1>0
      <3> QED
        BY <3>1, <2>2, <1>1, <1>2
    <2>3. CASE i = numlayers - 1
      BY <2>3, <1>0, <1>2
    <2>4. CASE i > numlayers - 1
      <3>1. i \in numlayers .. maxlayers - 1 /\ ~(i < numlayers) /\ ~(i < numlayers - 1)
        BY <2>4, <1>0
      <3> QED
        BY <3>1, <1>0, <1>2
    <2> QED
      BY <2>1, <2>2, <2>3, <2>4, <1>0
  <1>4. /\ layerorder' \in [0 .. numlayers' - 1 -> 0 .. numlayers' - 1]
        /\ OrderIsPermutation'
    <2>1. PICK p \in 0 .. numlayers - 1 :
             FoundAt(p, n) /\ p = CHOOSE i \in 0 .. numlayers - 1 : FoundAt(i, n)
      BY FoundSomewhere
    <2>2. /\ layerorder' = [i \in 0 .. numlayers - 2 |-> layerorder'[i]]
          /\ \A i \in 0 .. numlayers - 2 :
                layerorder'[i] = Lowered(layerorder[Above(i, p)], n)
      BY <1>0, <2>1 DEF OrderRemoved, Above
    <2>3. layerorder[p] = n \/ layerorder[p] = n + 1
      BY <2>1 DEF FoundAt
    <2>4. Perm(layerorder, numlayers)
      BY OrderIsPerm DEF LayersInv
    <2>5. numlayers \in Nat /\ layerorder \in [0 .. numlayers - 1 -> 0 .. numlayers - 1]
      BY <1>0
    <2>6. /\ layerorder' \in [0 .. numlayers - 2 -> 0 .. numlayers - 2]
          /\ Perm(layerorder', numlayers - 1)
      <3> DEFINE f == layerorder
                 g == layerorder'
      <3>1. /\ numlayers \in Nat /\ f \in [0 .. numlayers - 1 -> 0 .. numlayers - 1]
            /\ Perm(f, numlayers)
            /\ f[p] = n \/ f[p] = n + 1
            /\ g = [i \in 0 .. numlayers - 2 |-> g[i]]
            /\ \A i \in 0 .. numlayers - 2 : g[i] = Lowered(f[Above(i, p)], n)
        BY <2>2, <2>3, <2>4, <2>5
      <3> HIDE DEF f, g
      <3>2. g \in [0 .. numlayers - 2 -> 0 .. numlayers - 2] /\ Perm(g, numlayers - 1)
        BY <3>1, PermRemove
      <3> QED
        BY <3>2 DEF g
    <2>7. numlayers' - 1 = numlayers - 2
      BY <1>0
    <2> QED
      BY <2>6, <2>7, OrderIsPerm
  <1>5. ASSUME NEW k \in LayerObjs, Behind(k, n + 1) # {}
        PROVE  /\ Greatest(Behind(k, n + 1)) \in n + 1 .. numlayers - 1
               /\ layers[Greatest(Behind(k, n + 1))] = k
    <2>1. numlayers \in Nat /\ Behind(k, n + 1) \in SUBSET (0 .. numlayers)
      BY <1>0 DEF Behind, Positions
    <2>2. Greatest(Behind(k, n + 1)) \in Behind(k, n + 1)
      BY <1>5, <2>1, GreatestIn
    <2> QED
      BY <2>2, <1>0 DEF Behind, Positions
  <1>6. index' \in [LayerObjs -> Int] /\ mapped' \subseteq LayerObjs
    <2>1. \A k \in LayerObjs :
             Behind(k, n + 1) # {} => Greatest(Behind(k, n + 1)) - 1 \in Int
      <3> SUFFICES ASSUME NEW k \in LayerObjs, Behind(k, n + 1) # {}
                   PROVE  Greatest(Behind(k, n + 1)) - 1 \in Int
        OBVIOUS
      <3>1. Greatest(Behind(k, n + 1)) \in Int
        BY <1>0, <1>5
      <3> QED
        BY <3>1
    <2>2. mapped \subseteq LayerObjs
      BY DEF LayersInv, TypeOK
    <2> QED
      BY <2>1, <2>2, <1>0 DEF IndexRemoved
  <1>7. ASSUME NEW k \in mapped'
        PROVE  index'[k] \in 0 .. numlayers - 2 /\ layers'[index'[k]] = k
    <2>0. k \in LayerObjs /\ k # layers[n]
      BY <1>6
    <2>1. CASE Behind(k, n + 1) # {}
      <3> DEFINE c == Greatest(Behind(k, n + 1))
      <3>1. index'[k] = c - 1
        BY <2>0, <2>1 DEF IndexRemoved
      <3>2. c \in n + 1 .. numlayers - 1 /\ layers[c] = k
        BY <2>0, <2>1, <1>5
      <3> HIDE DEF c
      <3>3. c - 1 \in n .. numlayers - 2 /\ (c - 1) + 1 = c
        BY <3>2, <1>0
      <3>4. layers'[c - 1] = k
        BY <3>2, <3>3, <1>2
      <3>5. c - 1 \in 0 .. numlayers - 2
        BY <3>3, <1>0
      <3> QED
        BY <3>1, <3>4, <3>5
    <2>2. CASE Behind(k, n + 1) = {}
      <3>1. index'[k] = index[k] /\ index[k] \in Positions(k)
        BY <2>0, <2>2 DEF IndexRemoved, LayersInv, IndexNamesLayer
      <3>2. index[k] \in 0 .. n - 1 /\ layers[index[k]] = k
        BY <3>1, <2>0, <2>2, <1>0 DEF Behind, Positions
      <3> QED
        BY <3>1, <3>2, <1>0, <1>2
    <2> QED
      BY <2>1, <2>2
  <1>8. IndexNamesLayer'
    <2>1. numlayers' - 1 = numlayers - 2
      BY <1>0
    <2> QED
      BY <2>1, <1>7 DEF IndexNamesLayer, Positions
  <1>9. ASSUME NEW k \in LayerObjs
        PROVE  Places(k) = Places(k)' + (IF k = layers[n] THEN 1 ELSE 0)
    <2> DEFINE m == numlayers - 1
    <2>1. m \in Nat /\ n \in 0 .. m /\ numlayers' - 1 = m - 1
      BY <1>0
    <2>2. \A i \in 0 .. m : i # n => layers[i] = layers'[Below(i, n)]
      <3> SUFFICES ASSUME NEW i \in 0 .. m, i # n PROVE layers[i] = layers'[Below(i, n)]
        OBVIOUS
      <3>1. CASE i < n
        BY <3>1, <1>0, <1>2 DEF Below
      <3>2. CASE i > n
        <4>1. i - 1 \in n .. numlayers - 2 /\ (i - 1) + 1 = i /\ Below(i, n) = i - 1
          BY <3>2, <1>0 DEF Below
        <4> QED
          BY <4>1, <1>2
      <3> QED
        BY <3>1, <3>2, <1>0
    <2> DEFINE f == layers'
               g == layers
               x == layers[n]
    <2>3. numlayers = m + 1 /\ numlayers' = m
      BY <1>0
    <2>4. Places(k) = Cardinality(Having(g, m + 1, k))
      BY <2>3 DEF Places, Positions, Having
    <2>5. Places(k)' = Cardinality(Having(f, m, k))
      BY DEF Places, Positions, Having
    <2>6. g[n] = x /\ \A i \in 0 .. m : i # n => g[i] = f[Below(i, n)]
      BY <2>2
    <2>7. x = layers[n]
      OBVIOUS
    <2> HIDE DEF f, g, m, x
    <2>8. Places(k) = Places(k)' + (IF k = x THEN 1 ELSE 0)
      BY <2>1, <2>4, <2>5, <2>6, FilledCount
    <2> QED
      BY <2>7, <2>8
  <1>10. layers[n] \in LayerObjs
    BY <1>1
  <1>11. numlayers' \in Nat /\ maxlayers' \in Nat /\ numlayers' <= maxlayers'
    BY <1>0
  <1>12. /\ layers' \in [0 .. maxlayers' - 1 -> LayerObjs \cup {NULL, Dangling}]
         /\ \A i \in 0 .. maxlayers' - 1 : i < numlayers' <=> layers'[i] \in LayerObjs
    <2>1. \A i \in 0 .. maxlayers - 1 : layers'[i] \in LayerObjs \cup {NULL, Dangling}
      BY <1>3
    <2>2. layers' \in [0 .. maxlayers - 1 -> LayerObjs \cup {NULL, Dangling}]
      BY <2>1, <1>2
    <2> QED
      BY <2>2, <1>3
  <1> QED
    BY <1>4, <1>6, <1>8, <1>9, <1>10, <1>11, <1>12

\* Counting one up or down at a layer.
LEMMA CountOK ==
  ASSUME NEW f \in [LayerObjs -> Nat], NEW l \in LayerObjs
  PROVE  /\ Incr(f, l) \in [LayerObjs -> Nat]
         /\ Incr(f, l)[l] = f[l] + 1
         /\ \A k \in LayerObjs : k # l => Incr(f, l)[k] = f[k]
         /\ f[l] > 0 => /\ Decr(f, l) \in [LayerObjs -> Nat]
                        /\ Decr(f, l)[l] = f[l] - 1
                        /\ \A k \in LayerObjs : k # l => Decr(f, l)[k] = f[k]
  BY DEF Incr, Decr

\* The invariant's parts about counts, as facts on every layer.
LEMMA Counts ==
  ASSUME LayersInv
  PROVE  /\ refcount \in [LayerObjs -> Nat]
         /\ handles \in [LayerObjs -> Nat]
         /\ \A l \in LayerObjs :
               /\ Places(l) \in Nat
               /\ refcount[l] = handles[l] + Places(l)
  <1>1. \A l \in LayerObjs : IsFiniteSet(Positions(l))
    <2>1. IsFiniteSet(0 .. numlayers - 1)
      BY FS_Interval DEF LayersInv, TypeOK
    <2>2. \A l \in LayerObjs : Positions(l) \subseteq 0 .. numlayers - 1
      BY DEF Positions
    <2> QED
      BY <2>1, <2>2, FS_Subset
  <1>2. \A l \in LayerObjs : Places(l) \in Nat
    BY <1>1, FS_CardinalityType DEF Places
  <1> QED
    BY <1>2 DEF LayersInv, TypeOK, RefCountExact, Places

\* A step that leaves the map's array alone leaves the layers where they are.
LEMMA PlacesSame ==
  ASSUME UNCHANGED <<numlayers, layers>>
  PROVE  \A l \in LayerObjs : Positions(l)' = Positions(l) /\ Places(l)' = Places(l)
  BY DEF Positions, Places

\* Nor does it disturb the layers' numbers and counts.
LEMMA MapSame ==
  ASSUME LayersInv,
         UNCHANGED <<numlayers, maxlayers, layers, index, mapped, refcount, handles>>
  PROVE  IndexNamesLayer' /\ RefCountExact'
  <1>1. \A l \in LayerObjs : Positions(l)' = Positions(l)
    BY PlacesSame
  <1>2. IndexNamesLayer'
    BY <1>1 DEF LayersInv, TypeOK, IndexNamesLayer
  <1>3. RefCountExact'
    BY <1>1 DEF LayersInv, RefCountExact
  <1> QED
    BY <1>2, <1>3

\* A step that changes nothing keeps the invariant.
LEMMA StutterInv ==
  ASSUME LayersInv, UNCHANGED vars
  PROVE  LayersInv'
  <1>1. IndexNamesLayer' /\ RefCountExact'
    BY MapSame DEF vars
  <1>2. TypeOK' /\ OrderIsPermutation'
    BY DEF vars, LayersInv, TypeOK, OrderIsPermutation
  <1> QED
    BY <1>1, <1>2 DEF LayersInv

\* What a step has to show when it changes the counts only.
LEMMA CountsStep ==
  ASSUME LayersInv,
         UNCHANGED <<numlayers, maxlayers, layers, layerorder, index, mapped>>,
         refcount' \in [LayerObjs -> Nat],
         handles' \in [LayerObjs -> Nat],
         \A l \in LayerObjs : refcount'[l] - handles'[l] = refcount[l] - handles[l]
  PROVE  LayersInv'
  <1>1. TypeOK' /\ OrderIsPermutation'
    BY DEF LayersInv, TypeOK, OrderIsPermutation
  <1>2. IndexNamesLayer'
    BY PlacesSame DEF LayersInv, TypeOK, IndexNamesLayer
  <1>3. RefCountExact'
    BY PlacesSame, Counts DEF RefCountExact, Places
  <1> QED
    BY <1>1, <1>2, <1>3 DEF LayersInv

\* A layer's construction outside of a map.
LEMMA NewLayerInv ==
  ASSUME LayersInv, NEW l \in LayerObjs, NewLayer(l)
  PROVE  LayersInv'
  <1>1. Places(l) = 0
    BY Counts DEF NewLayer
  <1>2. \A k \in LayerObjs : Positions(k)' = Positions(k) /\ Places(k)' = Places(k)
    BY PlacesSame DEF NewLayer
  <1>3. TypeOK' /\ OrderIsPermutation'
    <2>1. /\ index' = [index EXCEPT ![l] = -1]
          /\ refcount' = [refcount EXCEPT ![l] = 1]
          /\ handles' = [handles EXCEPT ![l] = 1]
          /\ mapped' = mapped \ {l}
          /\ UNCHANGED <<numlayers, maxlayers, layers, layerorder>>
      BY DEF NewLayer
    <2>2. /\ index' \in [LayerObjs -> Int]
          /\ mapped' \subseteq LayerObjs
          /\ refcount' \in [LayerObjs -> Nat]
          /\ handles' \in [LayerObjs -> Nat]
      <3>1. index \in [LayerObjs -> Int] /\ mapped \subseteq LayerObjs
        BY DEF LayersInv, TypeOK
      <3> QED
        BY <2>1, <3>1, Counts
    <2>3. TypeOK'
      BY <2>1, <2>2 DEF LayersInv, TypeOK
    <2>4. OrderIsPermutation'
      BY <2>1 DEF LayersInv, OrderIsPermutation
    <2> QED
      BY <2>3, <2>4
  <1>4. IndexNamesLayer'
    <2> SUFFICES ASSUME NEW k \in mapped'
                 PROVE  index'[k] \in Positions(k)'
      BY DEF IndexNamesLayer
    <2>1. k \in mapped /\ k # l /\ k \in LayerObjs
      BY DEF NewLayer, LayersInv, TypeOK
    <2>2. index \in [LayerObjs -> Int] /\ index[k] \in Positions(k)
      BY <2>1 DEF LayersInv, TypeOK, IndexNamesLayer
    <2> QED
      BY <2>1, <2>2, <1>2 DEF NewLayer
  <1>5. RefCountExact'
    BY <1>1, <1>2, Counts DEF RefCountExact, NewLayer, Places
  <1> QED
    BY <1>3, <1>4, <1>5 DEF LayersInv

\* A layer's construction at the end of a map.
LEMMA NewLayerInMapInv ==
  ASSUME LayersInv, NEW l \in LayerObjs, NewLayerInMap(l)
  PROVE  LayersInv'
  <1>1. Places(l) = 0
    BY Counts DEF NewLayerInMap
  <1>2. AppendLayer(l)
    BY DEF NewLayerInMap
  <1>3. \A k \in LayerObjs : Places(k)' = Places(k) + (IF k = l THEN 1 ELSE 0)
    BY <1>2, AppendOK
  <1>4. /\ refcount' = [refcount EXCEPT ![l] = 2]
        /\ handles' = [handles EXCEPT ![l] = 1]
        /\ refcount[l] = 0
    BY DEF NewLayerInMap
  <1>5. refcount' \in [LayerObjs -> Nat] /\ handles' \in [LayerObjs -> Nat]
    BY <1>4, Counts
  <1>6. RefCountExact'
    BY <1>1, <1>3, <1>4, Counts DEF RefCountExact, Places
  <1> QED
    BY <1>2, <1>5, <1>6, AppendOK DEF LayersInv, TypeOK

\* A layer that comes into the map gets the map's reference.
LEMMA InsertCounts ==
  ASSUME LayersInv, NEW l \in LayerObjs,
         refcount' = Incr(refcount, l), handles' = handles,
         \A k \in LayerObjs : Places(k)' = Places(k) + (IF k = l THEN 1 ELSE 0)
  PROVE  refcount' \in [LayerObjs -> Nat] /\ handles' \in [LayerObjs -> Nat]
         /\ RefCountExact'
  BY Counts, CountOK DEF RefCountExact, Places

\* msInsertLayer at the end.
LEMMA InsertLastInv ==
  ASSUME LayersInv, NEW l \in LayerObjs, InsertLast(l)
  PROVE  LayersInv'
  <1>1. AppendLayer(l) /\ refcount' = Incr(refcount, l) /\ handles' = handles
    BY DEF InsertLast
  <1>2. /\ refcount' \in [LayerObjs -> Nat] /\ handles' \in [LayerObjs -> Nat]
        /\ RefCountExact'
    BY <1>1, AppendOK, InsertCounts
  <1> QED
    BY <1>1, <1>2, AppendOK DEF LayersInv, TypeOK

\* msInsertLayer in front of another layer.
LEMMA InsertAtInv ==
  ASSUME LayersInv, NEW l \in LayerObjs, NEW n \in 0 .. numlayers - 1, InsertAt(l, n)
  PROVE  LayersInv'
  <1>1. /\ numlayers' = numlayers + 1
        /\ maxlayers' = GrownMax
        /\ layers' = LayersInserted(l, n)
        /\ layerorder' = OrderInserted(n)
        /\ index' = IndexInserted(l, n)
        /\ mapped' = mapped \cup {l}
        /\ refcount' = Incr(refcount, l)
        /\ handles' = handles
    BY DEF InsertAt
  <1>2. /\ refcount' \in [LayerObjs -> Nat] /\ handles' \in [LayerObjs -> Nat]
        /\ RefCountExact'
    BY <1>1, InsertOK, InsertCounts
  <1> QED
    BY <1>1, <1>2, InsertOK DEF LayersInv, TypeOK

\* msInsertLayer that fails after the arrays may have grown.
LEMMA InsertBeyondInv ==
  ASSUME LayersInv, NEW l \in LayerObjs, InsertBeyond(l)
  PROVE  LayersInv'
  <1>1. CASE numlayers = maxlayers
    <2>1. /\ layers' = [GrownLayers EXCEPT ![numlayers] = Dangling]
          /\ maxlayers' = GrownMax
          /\ UNCHANGED <<numlayers, layerorder, index, mapped, refcount, handles>>
      BY <1>1 DEF InsertBeyond
    <2>2. /\ numlayers \in Nat
          /\ numlayers < GrownMax
          /\ GrownMax \in Nat
          /\ GrownLayers \in [0 .. GrownMax - 1 -> LayerObjs \cup {NULL, Dangling}]
          /\ \A i \in 0 .. GrownMax - 1 : i < numlayers <=> GrownLayers[i] \in LayerObjs
          /\ \A i \in 0 .. numlayers - 1 : GrownLayers[i] = layers[i]
      BY GrownOK DEF LayersInv, TypeOK
    <2>3. /\ layers' \in [0 .. maxlayers' - 1 -> LayerObjs \cup {NULL, Dangling}]
          /\ \A i \in 0 .. maxlayers' - 1 : i < numlayers' <=> layers'[i] \in LayerObjs
          /\ \A i \in 0 .. numlayers - 1 : layers'[i] = layers[i]
      BY <2>1, <2>2
    <2>4. TypeOK'
      <3>1. /\ layerorder \in [0 .. numlayers - 1 -> 0 .. numlayers - 1]
            /\ index \in [LayerObjs -> Int]
            /\ mapped \subseteq LayerObjs
            /\ refcount \in [LayerObjs -> Nat]
            /\ handles \in [LayerObjs -> Nat]
        BY DEF LayersInv, TypeOK
      <3>2. numlayers' \in Nat /\ maxlayers' \in Nat /\ numlayers' <= maxlayers'
        BY <2>1, <2>2
      <3> QED
        BY <2>1, <2>3, <3>1, <3>2 DEF TypeOK
    <2>5. OrderIsPermutation'
      BY <2>1 DEF LayersInv, OrderIsPermutation
    <2>7. \A k \in LayerObjs : Positions(k)' = Positions(k)
      BY <2>1, <2>3 DEF Positions
    <2>6. IndexNamesLayer'
      BY <2>1, <2>7 DEF LayersInv, TypeOK, IndexNamesLayer
    <2>8. RefCountExact'
      BY <2>1, <2>7 DEF LayersInv, RefCountExact
    <2> QED
      BY <2>4, <2>5, <2>6, <2>8 DEF LayersInv
  <1>2. CASE numlayers # maxlayers
    <2>1. UNCHANGED vars
      BY <1>2 DEF InsertBeyond, GrownMax, vars
    <2> QED
      BY <2>1, StutterInv
  <1> QED
    BY <1>1, <1>2

\* msRemoveLayer: the map's reference becomes that of the returned object.
LEMMA RemoveLayerInv ==
  ASSUME LayersInv, NEW n \in 0 .. numlayers - 1, RemoveLayer(n)
  PROVE  LayersInv'
  <1>1. /\ numlayers' = numlayers - 1
        /\ maxlayers' = maxlayers
        /\ layers' = LayersRemoved(n)
        /\ layerorder' = OrderRemoved(n)
        /\ index' = IndexRemoved(n)
        /\ mapped' = mapped \ {layers[n]}
        /\ refcount' = Incr(Decr(refcount, layers[n]), layers[n])
        /\ handles' = Incr(handles, layers[n])
    BY DEF RemoveLayer
  <1>2. /\ layers[n] \in LayerObjs
        /\ \A k \in LayerObjs :
              Places(k) = Places(k)' + (IF k = layers[n] THEN 1 ELSE 0)
    BY <1>1, RemoveOK
  <1> DEFINE x == layers[n]
  <1>0. numlayers' \in Nat
    BY <1>1, RemoveOK
  <1>13. \A k \in LayerObjs : Places(k)' \in Nat
    <2>1. IsFiniteSet(0 .. numlayers' - 1)
      BY <1>0, FS_Interval
    <2>2. \A k \in LayerObjs : Positions(k)' \subseteq 0 .. numlayers' - 1
      BY DEF Positions
    <2>3. \A k \in LayerObjs : IsFiniteSet(Positions(k)')
      BY <2>1, <2>2, FS_Subset
    <2> QED
      BY <2>3, FS_CardinalityType DEF Places
  <1>3. x \in LayerObjs /\ refcount \in [LayerObjs -> Nat] /\ refcount[x] > 0
    BY <1>2, <1>13, Counts
  <1> DEFINE r == Decr(refcount, x)
  <1>4. /\ r \in [LayerObjs -> Nat]
        /\ r[x] = refcount[x] - 1
        /\ \A k \in LayerObjs : k # x => r[k] = refcount[k]
    BY <1>3, CountOK
  <1> HIDE DEF x, r
  <1>5. /\ Incr(r, x) \in [LayerObjs -> Nat]
        /\ Incr(r, x)[x] = r[x] + 1
        /\ \A k \in LayerObjs : k # x => Incr(r, x)[k] = r[k]
    BY <1>3, <1>4, CountOK
  <1>6. refcount' = Incr(r, x) /\ handles' = Incr(handles, x)
    BY <1>1 DEF x, r
  <1>7. /\ refcount' \in [LayerObjs -> Nat]
        /\ \A k \in LayerObjs : refcount'[k] = refcount[k]
    BY <1>3, <1>4, <1>5, <1>6
  <1>8. /\ handles' \in [LayerObjs -> Nat]
        /\ handles'[x] = handles[x] + 1
        /\ \A k \in LayerObjs : k # x => handles'[k] = handles[k]
    BY <1>3, <1>6, Counts, CountOK
  <1>9. RefCountExact'
    <2> SUFFICES ASSUME NEW k \in LayerObjs
                 PROVE  refcount'[k] = handles'[k] + Places(k)'
      BY DEF RefCountExact, Places
    <2>1. CASE k = x
      <3>1. Places(k) = Places(k)' + 1
        BY <2>1, <1>2 DEF x
      <3> QED
        BY <3>1, <2>1, <1>7, <1>8, <1>13, Counts
    <2>2. CASE k # x
      <3>1. Places(k) = Places(k)'
        BY <2>2, <1>2, <1>13 DEF x
      <3> QED
        BY <3>1, <2>2, <1>7, <1>8, Counts
    <2> QED
      BY <2>1, <2>2
  <1> QED
    BY <1>1, <1>7, <1>8, <1>9, RemoveOK DEF LayersInv, TypeOK

\* getLayer and freeLayer count references and handles together.
LEMMA HandleInv ==
  ASSUME LayersInv
  PROVE  /\ \A n \in 0 .. numlayers - 1 : GetLayer(n) => LayersInv'
         /\ \A l \in LayerObjs : ReleaseHandle(l) => LayersInv'
  <1>1. ASSUME NEW n \in 0 .. numlayers - 1, GetLayer(n)
        PROVE  LayersInv'
    <2>0. numlayers \in Nat /\ maxlayers \in Nat /\ numlayers <= maxlayers
      BY DEF LayersInv, TypeOK
    <2>1. n \in 0 .. maxlayers - 1 /\ n < numlayers
      BY <2>0
    <2>2. layers[n] \in LayerObjs
      BY <2>1 DEF LayersInv, TypeOK
    <2> DEFINE x == layers[n]
    <2>3. refcount' = Incr(refcount, x) /\ handles' = Incr(handles, x)
      BY <1>1 DEF GetLayer
    <2>4. x \in LayerObjs
      BY <2>2
    <2> HIDE DEF x
    <2>5. /\ refcount' \in [LayerObjs -> Nat]
          /\ handles' \in [LayerObjs -> Nat]
          /\ \A l \in LayerObjs : refcount'[l] - handles'[l] = refcount[l] - handles[l]
      BY <2>3, <2>4, Counts DEF Incr
    <2>6. UNCHANGED <<numlayers, maxlayers, layers, layerorder, index, mapped>>
      BY <1>1 DEF GetLayer
    <2> QED
      BY <2>5, <2>6, CountsStep
  <1>2. ASSUME NEW x \in LayerObjs, ReleaseHandle(x)
        PROVE  LayersInv'
    <2>1. refcount' = Decr(refcount, x) /\ handles' = Decr(handles, x) /\ handles[x] > 0
      BY <1>2 DEF ReleaseHandle
    <2>2. refcount[x] > 0
      BY <2>1, Counts
    <2>3. /\ refcount' \in [LayerObjs -> Nat]
          /\ handles' \in [LayerObjs -> Nat]
          /\ \A l \in LayerObjs : refcount'[l] - handles'[l] = refcount[l] - handles[l]
      BY <2>1, <2>2, Counts DEF Decr
    <2>4. UNCHANGED <<numlayers, maxlayers, layers, layerorder, index, mapped>>
      BY <1>2 DEF ReleaseHandle
    <2> QED
      BY <2>3, <2>4, CountsStep
  <1> QED
    BY <1>1, <1>2

\* A new drawing order that is a permutation is all a step has to show that
\* changes nothing else.
LEMMA OrderStep ==
  ASSUME LayersInv,
         UNCHANGED <<numlayers, maxlayers, layers, index, mapped, refcount, handles>>,
         layerorder' \in [0 .. numlayers - 1 -> 0 .. numlayers - 1],
         Perm(layerorder', numlayers)
  PROVE  LayersInv'
  <1>1. OrderIsPermutation'
    BY OrderIsPerm
  <1>2. IndexNamesLayer' /\ RefCountExact'
    BY MapSame
  <1>3. TypeOK'
    BY DEF LayersInv, TypeOK
  <1> QED
    BY <1>1, <1>2, <1>3 DEF LayersInv

\* msMoveLayerUp and msMoveLayerDown.
LEMMA MoveLayerInv ==
  ASSUME LayersInv, NEW step \in {-1, 1}, MoveLayer(step)
  PROVE  LayersInv'
  <1>1. PICK i \in 0 .. numlayers - 1 :
           i + step \in 0 .. numlayers - 1 /\ layerorder' = Swapped(i, i + step)
    BY DEF MoveLayer
  <1>2. UNCHANGED <<numlayers, maxlayers, layers, index, mapped, refcount, handles>>
    BY DEF MoveLayer
  <1> DEFINE j == i + step
  <1>3. j \in 0 .. numlayers - 1 /\ i # j
    BY <1>1
  <1> HIDE DEF j
  <1>4. layerorder' = [layerorder EXCEPT ![i] = layerorder[j], ![j] = layerorder[i]]
    BY <1>1 DEF j, Swapped
  <1>5. /\ numlayers \in Nat
        /\ layerorder \in [0 .. numlayers - 1 -> 0 .. numlayers - 1]
        /\ Perm(layerorder, numlayers)
    BY OrderIsPerm DEF LayersInv, TypeOK
  <1>6. /\ layerorder' \in [0 .. numlayers - 1 -> 0 .. numlayers - 1]
        /\ Perm(layerorder', numlayers)
    <2> DEFINE f == layerorder
               g == layerorder'
    <2>1. /\ f \in [0 .. numlayers - 1 -> 0 .. numlayers - 1] /\ Perm(f, numlayers)
          /\ g = [f EXCEPT ![i] = f[j], ![j] = f[i]]
      BY <1>4, <1>5
    <2> HIDE DEF f, g
    <2>2. g \in [0 .. numlayers - 1 -> 0 .. numlayers - 1] /\ Perm(g, numlayers)
      BY <2>1, <1>3, <1>5, PermSwap
    <2> QED
      BY <2>2 DEF g
  <1> QED
    BY <1>2, <1>6, OrderStep

\* msSetLayersdrawingOrder.
LEMMA SetOrderInv ==
  ASSUME LayersInv, NEW order \in [0 .. numlayers - 1 -> 0 .. numlayers - 1],
         SetLayersDrawingOrder(order)
  PROVE  LayersInv'
  <1>1. numlayers \in Nat
    BY DEF LayersInv, TypeOK
  <1>2. Perm(order, numlayers)
    BY <1>1, PermOnto DEF SetLayersDrawingOrder, ValidOrder
  <1> QED
    BY <1>2, OrderStep DEF SetLayersDrawingOrder

\* msFreeMap.
LEMMA FreeMapInv ==
  ASSUME LayersInv, FreeMap
  PROVE  LayersInv'
  <1>1. /\ numlayers' = 0 /\ maxlayers' = 0
        /\ layers' = [i \in 0 .. -1 |-> NULL]
        /\ layerorder' = [i \in 0 .. -1 |-> 0]
        /\ refcount' = [l \in LayerObjs |-> refcount[l] - Places(l)]
        /\ mapped' = {l \in mapped : ~InMap(l)}
        /\ index' = index /\ handles' = handles
    BY DEF FreeMap, Places
  <1>2. \A l \in LayerObjs : Places(l)' = 0
    BY <1>1, FS_EmptySet DEF Positions, Places
  <1>8. mapped' = {}
    BY <1>1 DEF InMap, LayersInv, IndexNamesLayer
  <1>3. \A l \in LayerObjs : refcount'[l] = handles[l]
    BY <1>1, Counts
  <1>4. refcount' \in [LayerObjs -> Nat]
    BY <1>1, <1>3, Counts
  <1>5. TypeOK'
    BY <1>1, <1>4, <1>8 DEF LayersInv, TypeOK
  <1>6. OrderIsPermutation' /\ IndexNamesLayer'
    BY <1>1, <1>8 DEF OrderIsPermutation, IndexNamesLayer
  <1>7. RefCountExact'
    BY <1>1, <1>2, <1>3, Counts DEF RefCountExact, Places
  <1> QED
    BY <1>5, <1>6, <1>7 DEF LayersInv

\* Every step keeps the invariant.
LEMMA StepInv ==
  ASSUME LayersInv, [Next]_vars
  PROVE  LayersInv'
  <1>1. ASSUME NEW l \in LayerObjs, NewLayer(l) PROVE LayersInv'
    BY <1>1, NewLayerInv
  <1>2. ASSUME NEW l \in LayerObjs, NewLayerInMap(l) PROVE LayersInv'
    BY <1>2, NewLayerInMapInv
  <1>3. ASSUME NEW l \in LayerObjs, InsertLast(l) PROVE LayersInv'
    BY <1>3, InsertLastInv
  <1>4. ASSUME NEW l \in LayerObjs, NEW n \in 0 .. numlayers - 1, InsertAt(l, n)
        PROVE  LayersInv'
    BY <1>4, InsertAtInv
  <1>5. ASSUME NEW l \in LayerObjs, InsertBeyond(l) PROVE LayersInv'
    BY <1>5, InsertBeyondInv
  <1>6. ASSUME NEW l \in LayerObjs, ReleaseHandle(l) PROVE LayersInv'
    BY <1>6, HandleInv
  <1>7. ASSUME NEW n \in 0 .. numlayers - 1, RemoveLayer(n) PROVE LayersInv'
    BY <1>7, RemoveLayerInv
  <1>8. ASSUME NEW n \in 0 .. numlayers - 1, GetLayer(n) PROVE LayersInv'
    BY <1>8, HandleInv
  <1>9. ASSUME NEW step \in {-1, 1}, MoveLayer(step) PROVE LayersInv'
    BY <1>9, MoveLayerInv
  <1>10. ASSUME NEW order \in [0 .. numlayers - 1 -> 0 .. numlayers - 1],
                SetLayersDrawingOrder(order)
         PROVE  LayersInv'
    BY <1>10, SetOrderInv
  <1>11. CASE FreeMap
    BY <1>11, FreeMapInv
  <1>12. CASE UNCHANGED vars
    BY <1>12, StutterInv
  <1> QED
    BY <1>1, <1>2, <1>3, <1>4, <1>5, <1>6, <1>7, <1>8, <1>9, <1>10, <1>11, <1>12 DEF Next

\* The types, the drawing order, the layers' numbers and their reference counts
\* are right after any sequence of mapscript calls, for maps of any size.
THEOREM LayersInvariance == Spec => []LayersInv
  <1>1. Init => LayersInv
    BY InitInv
  <1>2. LayersInv /\ [Next]_vars => LayersInv'
    BY StepInv
  <1> QED
    BY <1>1, <1>2, PTL DEF Spec

\* Every layer is drawn exactly once: msInsertLayer, msRemoveLayer, the moves
\* and msSetLayersdrawingOrder leave layerorder a permutation.
THEOREM DrawnExactlyOnce == Spec => []OrderIsPermutation
  <1>1. LayersInv => OrderIsPermutation
    BY DEF LayersInv
  <1> QED
    BY <1>1, LayersInvariance, PTL

\* A layer whose layer->map is set is found in map->layers under layer->index,
\* also if msInsertLayer has put it there more than once.
THEOREM IndexRight == Spec => []IndexNamesLayer
  <1>1. LayersInv => IndexNamesLayer
    BY DEF LayersInv
  <1> QED
    BY <1>1, LayersInvariance, PTL

\* A layer's refcount counts the map and the handles on it, so freeLayer frees
\* it with the last of them and not before.
THEOREM RefCountRight == Spec => []RefCountExact
  <1>1. LayersInv => RefCountExact
    BY DEF LayersInv
  <1> QED
    BY <1>1, LayersInvariance, PTL

\* The counts and the arrays keep their types: no slot below numlayers is
\* empty or freed, and numlayers never exceeds the allocated slots.
THEOREM LayersTyped == Spec => []TypeOK
  <1>1. LayersInv => TypeOK
    BY DEF LayersInv
  <1> QED
    BY <1>1, LayersInvariance, PTL

-----------------------------------------------------------------------------
(* Inserting keeps the order of the others.                                *)

\* If every entry of the drawing order has moved up in step with its layer,
\* layers are drawn in the order they were drawn in.
LEMMA OrderKept ==
  ASSUME numlayers \in Nat, numlayers' = numlayers + 1, NEW n \in 0 .. numlayers,
         \A i \in 0 .. numlayers - 1 :
            layers'[layerorder'[Shifted(i, n)]] = layers[layerorder[i]],
         NEW a \in LayerObjs, NEW b \in LayerObjs, DrawnBefore(a, b)
  PROVE  DrawnBefore(a, b)'
  <1>1. PICK i \in 0 .. numlayers - 1, j \in 0 .. numlayers - 1 :
           i < j /\ layers[layerorder[i]] = a /\ layers[layerorder[j]] = b
    BY DEF DrawnBefore
  <1>2. /\ Shifted(i, n) \in 0 .. numlayers' - 1
        /\ Shifted(j, n) \in 0 .. numlayers' - 1
        /\ Shifted(i, n) < Shifted(j, n)
    BY <1>1 DEF Shifted
  <1>3. /\ layers'[layerorder'[Shifted(i, n)]] = a
        /\ layers'[layerorder'[Shifted(j, n)]] = b
    BY <1>1
  <1> QED
    BY <1>2, <1>3 DEF DrawnBefore

\* A layer at the end of the map is drawn last.
LEMMA AppendKeepsOrder ==
  ASSUME LayersInv, NEW l \in LayerObjs, AppendLayer(l),
         NEW a \in LayerObjs, NEW b \in LayerObjs, DrawnBefore(a, b)
  PROVE  DrawnBefore(a, b)'
  <1>1. /\ numlayers \in Nat /\ maxlayers \in Nat /\ numlayers <= maxlayers
        /\ layerorder \in [0 .. numlayers - 1 -> 0 .. numlayers - 1]
    BY DEF LayersInv, TypeOK
  <1>2. /\ numlayers' = numlayers + 1
        /\ layers' = [GrownLayers EXCEPT ![numlayers] = l]
        /\ layerorder' = OrderAppended
    BY DEF AppendLayer
  <1>3. maxlayers <= GrownMax /\ GrownMax \in Nat
    BY GrownOK DEF LayersInv
  <1>4. \A k \in 0 .. numlayers - 1 : layers'[k] = layers[k]
    BY <1>1, <1>2, <1>3 DEF GrownLayers
  <1>5. \A i \in 0 .. numlayers - 1 : layerorder'[i] = layerorder[i]
    BY <1>1, <1>2 DEF OrderAppended
  <1>6. \A i \in 0 .. numlayers - 1 :
           layers'[layerorder'[Shifted(i, numlayers)]] = layers[layerorder[i]]
    BY <1>1, <1>4, <1>5 DEF Shifted
  <1>7. numlayers \in 0 .. numlayers
    BY <1>1
  <1> QED
    BY <1>1, <1>2, <1>6, <1>7, OrderKept

\* A layer in front of layer n is drawn at place n.
LEMMA InsertAtKeepsOrder ==
  ASSUME LayersInv, NEW l \in LayerObjs, NEW n \in 0 .. numlayers - 1, InsertAt(l, n),
         NEW a \in LayerObjs, NEW b \in LayerObjs, DrawnBefore(a, b)
  PROVE  DrawnBefore(a, b)'
  <1>1. /\ numlayers \in Nat /\ maxlayers \in Nat /\ numlayers <= maxlayers
        /\ layerorder \in [0 .. numlayers - 1 -> 0 .. numlayers - 1]
    BY DEF LayersInv, TypeOK
  <1>2. /\ numlayers' = numlayers + 1
        /\ layers' = LayersInserted(l, n)
        /\ layerorder' = OrderInserted(n)
    BY DEF InsertAt
  <1>3. maxlayers <= GrownMax /\ GrownMax \in Nat /\ numlayers < GrownMax
    BY GrownOK DEF LayersInv
  <1>4. ASSUME NEW k \in 0 .. numlayers - 1 PROVE layers'[Raised(k, n)] = layers[k]
    <2>1. CASE k >= n
      <3>1. Raised(k, n) = k + 1 /\ k + 1 \in 0 .. GrownMax - 1 /\ k + 1 <= numlayers
        BY <1>1, <1>3, <2>1 DEF Raised
      <3> QED
        BY <1>2, <2>1, <3>1 DEF LayersInserted
    <2>2. CASE k < n
      <3>1. Raised(k, n) = k /\ k \in 0 .. GrownMax - 1 /\ GrownLayers[k] = layers[k]
        BY <1>1, <1>3, <2>2 DEF Raised, GrownLayers
      <3> QED
        BY <1>2, <2>2, <3>1 DEF LayersInserted
    <2> QED
      BY <1>1, <2>1, <2>2
  <1>5. ASSUME NEW i \in 0 .. numlayers - 1
        PROVE  layerorder'[Shifted(i, n)] = Raised(layerorder[i], n)
    BY <1>1, <1>2 DEF OrderInserted, Shifted
  <1>6. \A i \in 0 .. numlayers - 1 :
           layers'[layerorder'[Shifted(i, n)]] = layers[layerorder[i]]
    BY <1>1, <1>4, <1>5
  <1>7. n \in 0 .. numlayers
    BY <1>1
  <1> QED
    BY <1>1, <1>2, <1>6, <1>7, OrderKept

\* msInsertLayer leaves the order in which the other layers are drawn alone,
\* wherever the new layer goes.
THEOREM InsertsKeepOrder == Spec => InsertKeepsOrder
  <1>1. ASSUME LayersInv, [Next]_vars, numlayers' = numlayers + 1,
               NEW a \in LayerObjs, NEW b \in LayerObjs, DrawnBefore(a, b)
        PROVE  DrawnBefore(a, b)'
    <2>1. numlayers \in Nat
      BY <1>1 DEF LayersInv, TypeOK
    <2>2. \/ \E l \in LayerObjs : AppendLayer(l)
          \/ \E l \in LayerObjs, n \in 0 .. numlayers - 1 : InsertAt(l, n)
      <3>1. numlayers' # numlayers /\ numlayers' # numlayers - 1 /\ numlayers' # 0
        BY <1>1, <2>1
      <3> QED
        BY <1>1, <3>1 DEF Next, vars, NewLayer, NewLayerInMap, InsertLast, InsertBeyond,
           ReleaseHandle, RemoveLayer, GetLayer, MoveLayer, SetLayersDrawingOrder, FreeMap
    <2> QED
      BY <1>1, <2>2, AppendKeepsOrder, InsertAtKeepsOrder
  <1>2. LayersInv /\ [Next]_vars =>
           [numlayers' = numlayers + 1 =>
               \A a, b \in LayerObjs : DrawnBefore(a, b) => DrawnBefore(a, b)']_vars
    BY <1>1
  <1> QED
    BY <1>2, LayersInvariance, PTL DEF Spec, InsertKeepsOrder
=============================================================================
