---------------------------- MODULE ClusterProofs ----------------------------
(***************************************************************************)
(* From the lines of a window to its clusters and to their explanation,    *)
(* for any lines, limits and weights.                                      *)
(***************************************************************************)
EXTENDS Explanation, WindowProofs

-----------------------------------------------------------------------------
(* Sums of tables.                                                         *)

\* A sum of natural numbers is positive when one of them is.
LEMMA SumOfSome ==
  ASSUME NEW S, IsFiniteSet(S), NEW f \in [S -> Nat]
  PROVE  SumFunction(f) \in Nat /\ (SumFunction(f) > 0 <=> \E x \in S : f[x] > 0)
<1>0. f \in [S -> Int] /\ SumFunction(f) \in Nat
  BY SumType
<1>1. ASSUME NEW x \in S, f[x] > 0 PROVE SumFunction(f) > 0
  <2>1. SumFunction(f) = f[x] + SumFunction(Part(f, S \ {x}))
    BY <1>0, SumTake
  <2>2. IsFiniteSet(S \ {x}) /\ Part(f, S \ {x}) \in [S \ {x} -> Nat]
    BY FS_Subset DEF Part
  <2>3. SumFunction(Part(f, S \ {x})) \in Nat
    BY <2>2, SumType
  <2> QED
    BY <1>1, <2>1, <2>3
<1>2. ASSUME \A x \in S : f[x] = 0 PROVE SumFunction(f) = 0
  <2> DEFINE F == {T \in SUBSET S : SumFunction(Part(f, T)) # 0}
  <2>1. ASSUME F # {} PROVE FALSE
    <3>1. PICK T \in F : \A x \in T : T \ {x} \notin F
      <4>1. F \subseteq SUBSET S
        OBVIOUS
      <4> HIDE DEF F
      <4> QED
        BY <2>1, <4>1, LeastSubset
    <3>2. T # {}
      <4>1. DOMAIN Part(f, {}) = {}
        BY DEF Part
      <4> QED
        BY <3>1, <4>1, SumEmpty
    <3>3. PICK x \in T : TRUE
      BY <3>2
    <3>4. IsFiniteSet(T) /\ Part(f, T) \in [T -> Int] /\ Part(f, T)[x] = 0 /\ T \subseteq S
      BY <1>2, FS_Subset DEF Part
    <3>5. SumFunction(Part(f, T)) = 0 + SumFunction(Part(Part(f, T), T \ {x}))
      BY <3>4, SumTake
    <3>6. Part(Part(f, T), T \ {x}) = Part(f, T \ {x})
      BY DEF Part
    <3>7. SumFunction(Part(f, T \ {x})) = 0
      BY <3>1, <3>4
    <3> QED
      BY <3>1, <3>5, <3>6, <3>7
  <2>2. S \notin F /\ Part(f, S) = f
    BY <2>1 DEF Part
  <2> QED
    BY <2>2
<1> QED
  BY <1>0, <1>1, <1>2

Tabled == [RowKinds -> Nat]

LEMMA KindsFinite == ASSUME NEW K, K \subseteq RowKinds PROVE IsFiniteSet(K)
  BY ClusteringConstants, FS_Subset

\* Kinds of line that are not there add nothing to a total.
LEMMA TotalIs ==
  ASSUME NEW tab \in Tabled, NEW K, K \subseteq RowKinds
  PROVE  /\ Total(tab, K) \in Nat
         /\ Total(tab, K) > 0 <=> Present(tab, K) # {}
         /\ Total(tab, K) = 0 <=> Present(tab, K) = {}
         /\ Total(tab, K) = SumFunction([k \in Present(tab, K) |-> tab[k]])
<1> DEFINE f == [k \in K |-> tab[k]]
           S == Present(tab, K)
<1>1. f \in [K -> Nat] /\ f \in [K -> Int] /\ IsFiniteSet(K) /\ S \subseteq K
  BY KindsFinite DEF Present, Tabled
<1>2. SumFunction(f) \in Nat /\ (SumFunction(f) > 0 <=> \E k \in K : f[k] > 0)
  <2> HIDE DEF f
  <2> QED
    BY <1>1, SumOfSome
<1>3. (\E k \in K : f[k] > 0) <=> S # {}
  BY DEF Present
<1>4. SumFunction(f) = SumFunction(Part(f, S)) + SumFunction(Part(f, K \ S))
  <2> HIDE DEF f, S
  <2> QED
    BY <1>1, SumSplit
<1>5. SumFunction(Part(f, K \ S)) = 0
  <2> DEFINE g == Part(f, K \ S)
  <2>1. IsFiniteSet(K \ S) /\ g \in [K \ S -> Nat] /\ \A k \in K \ S : ~(g[k] > 0)
    BY <1>1, FS_Subset DEF Part, Present, Tabled
  <2>2. SumFunction(g) \in Nat /\ ~(SumFunction(g) > 0)
    <3> HIDE DEF g, S
    <3> QED
      BY <2>1, SumOfSome
  <2> QED
    BY <2>2
<1>6. Part(f, S) = [k \in S |-> tab[k]] /\ IsFiniteSet(S) /\ [k \in S |-> tab[k]] \in [S -> Int]
  BY <1>1, FS_Subset DEF Part, Present
<1>7. SumFunction([k \in S |-> tab[k]]) \in Int
  BY <1>6, SumType
<1>8. Total(tab, K) = SumFunction(f)
  BY DEF Total
<1> HIDE DEF f, S
<1> QED
  BY <1>2, <1>3, <1>4, <1>5, <1>6, <1>7, <1>8 DEF S

\* The lines of a set of kinds are those of its fingerprints.
LEMMA TotalByGroup ==
  ASSUME NEW tab \in Tabled, NEW K, K \subseteq RowKinds
  PROVE  Total(tab, K) = SumFunction([fp \in GroupsOf(tab, K) |-> Total(tab, {k \in K : k.fp = fp})])
<1> DEFINE S == Present(tab, K)
           P == GroupsOf(tab, K)
           f == [k \in S |-> tab[k]]
           c == [k \in S |-> k.fp]
           class(p) == {x \in S : c[x] = p}
<1>1. S \subseteq RowKinds /\ IsFiniteSet(S) /\ f \in [S -> Int]
  BY KindsFinite DEF Present, Tabled
<1>2. /\ P = {k.fp : k \in S} /\ c \in [S -> P]
      /\ \A p \in P : \E x \in S : c[x] = p
  BY DEF GroupsOf
<1>3. IsFiniteSet(P)
  BY <1>1, <1>2, FS_Surjection DEF Surjection
<1>4. SumFunction(f) = SumFunction([p \in P |-> SumFunction(Part(f, class(p)))])
  <2>1. ByClass(f, S, c, P) = [p \in P |-> SumFunction(Part(f, class(p)))]
    BY DEF ByClass
  <2> HIDE DEF S, P, f, c, class
  <2> QED
    BY <1>1, <1>2, <1>3, <2>1, SumByClass
<1>5. ASSUME NEW p \in P PROVE SumFunction(Part(f, class(p))) = Total(tab, {k \in K : k.fp = p})
  <2>1. Present(tab, {k \in K : k.fp = p}) = class(p)
    BY DEF Present
  <2>2. Part(f, class(p)) = [k \in class(p) |-> tab[k]]
    BY DEF Part
  <2>3. {k \in K : k.fp = p} \subseteq RowKinds
    OBVIOUS
  <2> HIDE DEF class, f
  <2> QED
    BY <2>1, <2>2, <2>3, TotalIs
<1>6. [p \in P |-> SumFunction(Part(f, class(p)))] = [p \in P |-> Total(tab, {k \in K : k.fp = p})]
  BY <1>5
<1> QED
  BY <1>4, <1>6, TotalIs

\* Ln grows.
LEMMA LnGrows ==
  ASSUME NEW a \in Nat \ {0}, NEW b \in Nat \ {0}
  PROVE  Ln(a) \in Nat /\ (a < b => Ln(a) < Ln(b))
<1>1. /\ LnTable[1] = 0 /\ LnTable[2] = 693 /\ LnTable[3] = 1099 /\ LnTable[4] = 1386
      /\ LnTable[5] = 1609 /\ LnTable[6] = 1792 /\ LnTable[7] = 1946 /\ LnTable[8] = 2079
      /\ LnTable[9] = 2197 /\ LnTable[10] = 2303 /\ LnTable[11] = 2398 /\ LnTable[12] = 2485
      /\ LnTable[13] = 2565 /\ LnTable[14] = 2639
  BY DEF LnTable
<1> DEFINE T(n) == LnTable[n]
           Few == {1, 2, 3, 4, 5, 6, 7, 8, 9, 10, 11, 12, 13, 14}
<1>0. \A n \in Nat \ {0} : n <= 14 => n \in Few
  OBVIOUS
<1>2. \A n \in Few : T(n) \in Nat /\ T(n) <= 2639
  BY <1>1
<1>3. \A n, m \in Few : n < m => T(n) < T(m)
  BY <1>1, SMTT(30)
<1> HIDE DEF LnTable
<1>4. ASSUME NEW n \in Nat \ {0}
      PROVE  Ln(n) \in Nat /\ (n <= 14 => Ln(n) = T(n)) /\ (n > 14 => Ln(n) = 2639 + (n - 14))
  <2>1. Ln(n) = IF n <= 14 THEN T(n) ELSE T(14) + (n - 14)
    BY DEF Ln
  <2>2. T(14) = 2639
    BY <1>1
  <2> HIDE DEF T, Few
  <2> QED
    BY <1>0, <1>2, <2>1, <2>2
<1> HIDE DEF T, Few
<1>5. Ln(a) \in Nat
  BY <1>4
<1>6. ASSUME a < b PROVE Ln(a) < Ln(b)
  <2>1. CASE b <= 14
    <3>1. a \in Few /\ b \in Few /\ Ln(a) = T(a) /\ Ln(b) = T(b)
      BY <1>0, <1>4, <1>6, <2>1
    <3> QED
      BY <1>3, <1>6, <3>1
  <2>2. CASE b > 14 /\ a <= 14
    <3>1. a \in Few /\ Ln(a) = T(a) /\ Ln(b) = 2639 + (b - 14)
      BY <1>0, <1>4, <2>2
    <3>2. T(a) <= 2639 /\ T(a) \in Nat
      BY <1>2, <3>1
    <3> QED
      BY <2>2, <3>1, <3>2
  <2>3. CASE a > 14
    BY <1>4, <1>6, <2>3
  <2> QED
    BY <2>1, <2>2, <2>3
<1> QED
  BY <1>5, <1>6
-----------------------------------------------------------------------------
(* Orders.                                                                 *)

Keys == Int \X Int \X Int \X Int

LEMMA ExceedsIs ==
  ASSUME NEW a \in Keys, NEW b \in Keys
  PROVE  Exceeds(a, b) <=>
           \/ a[1] > b[1]
           \/ a[1] = b[1] /\ a[2] > b[2]
           \/ a[1] = b[1] /\ a[2] = b[2] /\ a[3] > b[3]
           \/ a[1] = b[1] /\ a[2] = b[2] /\ a[3] = b[3] /\ a[4] > b[4]
<1>1. 1 .. 4 = {1, 2, 3, 4}
  OBVIOUS
<1>2. 1 .. 1 - 1 = {} /\ 1 .. 2 - 1 = {1} /\ 1 .. 3 - 1 = {1, 2} /\ 1 .. 4 - 1 = {1, 2, 3}
  OBVIOUS
<1> DEFINE At(n) == a[n] > b[n] /\ \A m \in 1 .. n - 1 : a[m] = b[m]
<1>3. Exceeds(a, b) <=> At(1) \/ At(2) \/ At(3) \/ At(4)
  BY <1>1 DEF Exceeds
<1>4. At(1) <=> a[1] > b[1]
  BY <1>2
<1>5. At(2) <=> a[1] = b[1] /\ a[2] > b[2]
  BY <1>2
<1>6. At(3) <=> a[1] = b[1] /\ a[2] = b[2] /\ a[3] > b[3]
  BY <1>2
<1>7. At(4) <=> a[1] = b[1] /\ a[2] = b[2] /\ a[3] = b[3] /\ a[4] > b[4]
  BY <1>2
<1> QED
  BY <1>3, <1>4, <1>5, <1>6, <1>7

Keyed(D, key) ==
  /\ IsFiniteSet(D) /\ DOMAIN key = D /\ \A i \in D : key[i] \in Keys
  /\ \A i, j \in D : key[i] = key[j] => i = j

Above(D, key) == {p \in D \X D : Exceeds(key[p[1]], key[p[2]])}

LEMMA KeysOrder ==
  ASSUME NEW D, NEW key, Keyed(D, key)
  PROVE  StrictOrder(D, Above(D, key))
<1>1. \A i \in D : key[i] \in Keys
  BY DEF Keyed
<1>2. \A i, j \in D : <<i, j>> \in Above(D, key) <=> Exceeds(key[i], key[j])
  BY DEF Above
<1>3. ASSUME NEW i \in D PROVE ~Exceeds(key[i], key[i])
  <2>1. key[i][1] \in Int /\ key[i][2] \in Int /\ key[i][3] \in Int /\ key[i][4] \in Int
    BY <1>1 DEF Keys
  <2> QED
    BY <1>1, <2>1, ExceedsIs
<1>4. ASSUME NEW i \in D, NEW j \in D, NEW k \in D, Exceeds(key[i], key[j]), Exceeds(key[j], key[k])
      PROVE  Exceeds(key[i], key[k])
  <2>1. \A x \in D : key[x][1] \in Int /\ key[x][2] \in Int /\ key[x][3] \in Int /\ key[x][4] \in Int
    BY <1>1 DEF Keys
  <2> QED
    BY <1>1, <1>4, <2>1, ExceedsIs
<1>5. ASSUME NEW i \in D, NEW j \in D, i # j PROVE Exceeds(key[i], key[j]) \/ Exceeds(key[j], key[i])
  <2>1. \A x \in D : key[x][1] \in Int /\ key[x][2] \in Int /\ key[x][3] \in Int /\ key[x][4] \in Int
    BY <1>1 DEF Keys
  <2>2. key[i] # key[j]
    BY <1>5 DEF Keyed
  <2>3. key[i][1] # key[j][1] \/ key[i][2] # key[j][2] \/ key[i][3] # key[j][3] \/ key[i][4] # key[j][4]
    BY <1>1, <2>2 DEF Keys
  <2> QED
    BY <1>1, <2>1, <2>3, ExceedsIs
<1> QED
  BY <1>2, <1>3, <1>4, <1>5 DEF StrictOrder

\* The members of the domain of a family of keys, from the best on.
LEMMA DescendingIs ==
  ASSUME NEW D, NEW key, Keyed(D, key)
  PROVE  /\ Cardinality(D) \in Nat
         /\ Descending(key) \in Bijection(1 .. Cardinality(D), D)
         /\ \A m, n \in 1 .. Cardinality(D) :
              m < n => Exceeds(key[Descending(key)[m]], key[Descending(key)[n]])
<1>0. D = DOMAIN key
  BY DEF Keyed
<1> SUFFICES /\ Cardinality(DOMAIN key) \in Nat
             /\ Descending(key) \in Bijection(1 .. Cardinality(DOMAIN key), DOMAIN key)
             /\ \A m, n \in 1 .. Cardinality(DOMAIN key) :
                  m < n => Exceeds(key[Descending(key)[m]], key[Descending(key)[n]])
  BY <1>0
<1> DEFINE R == Above(DOMAIN key, key)
           place == [i \in DOMAIN key |-> Cardinality({j \in DOMAIN key : <<j, i>> \in R})]
           count == Cardinality(DOMAIN key)
           order == Descending(key)
<1>1. StrictOrder(DOMAIN key, R) /\ IsFiniteSet(DOMAIN key)
  BY <1>0, KeysOrder DEF Keyed
<1>2. /\ place \in Bijection(DOMAIN key, 0 .. count - 1) /\ count \in Nat
      /\ \A i, j \in DOMAIN key : <<i, j>> \in R => place[i] < place[j]
  <2> HIDE DEF R
  <2> QED
    BY <1>1, Numbering
<1>3. \A i \in DOMAIN key : Cardinality({j \in DOMAIN key : Exceeds(key[j], key[i])}) = place[i]
  <2>1. \A i \in DOMAIN key : {j \in DOMAIN key : Exceeds(key[j], key[i])} = {j \in DOMAIN key : <<j, i>> \in R}
    BY DEF Above
  <2> QED
    BY <2>1
<1>4. /\ order = [n \in 1 .. count |-> order[n]]
      /\ \A n \in 1 .. count : order[n] = CHOOSE i \in DOMAIN key : place[i] = n - 1
  <2>1. \A n : (CHOOSE i \in DOMAIN key : Cardinality({j \in DOMAIN key : Exceeds(key[j], key[i])}) = n - 1)
                 = (CHOOSE i \in DOMAIN key : place[i] = n - 1)
    BY <1>3
  <2>2. order = [n \in 1 .. count |-> order[n]]
    <3> DEFINE F(n) == CHOOSE i \in DOMAIN key : Cardinality({j \in DOMAIN key : Exceeds(key[j], key[i])}) = n - 1
    <3>1. order = [n \in 1 .. count |-> F(n)]
      BY DEF Descending
    <3> HIDE DEF order, F, count
    <3> QED
      BY <3>1
  <2>3. ASSUME NEW n \in 1 .. count
        PROVE  order[n] = CHOOSE i \in DOMAIN key : Cardinality({j \in DOMAIN key : Exceeds(key[j], key[i])}) = n - 1
    BY Zenon DEF Descending
  <2> QED
    BY <2>1, <2>2, <2>3
<1> HIDE DEF place, order
<1>5. /\ \A i \in DOMAIN key : place[i] \in 0 .. count - 1
      /\ \A i, j \in DOMAIN key : place[i] = place[j] => i = j
      /\ \A x \in 0 .. count - 1 : \E i \in DOMAIN key : place[i] = x
  BY <1>2 DEF Bijection, Injection, Surjection, IsInjective
<1>6. ASSUME NEW n \in 1 .. count PROVE order[n] \in DOMAIN key /\ place[order[n]] = n - 1
  <2>1. n - 1 \in 0 .. count - 1
    BY <1>2
  <2> QED
    BY <1>4, <1>5, <2>1
<1>7. ASSUME NEW i \in DOMAIN key PROVE \E n \in 1 .. count : order[n] = i
  <2>1. place[i] + 1 \in 1 .. count /\ (place[i] + 1) - 1 = place[i]
    BY <1>2, <1>5
  <2>2. order[place[i] + 1] \in DOMAIN key /\ place[order[place[i] + 1]] = place[i]
    BY <1>6, <2>1
  <2> QED
    BY <1>5, <2>1, <2>2
<1>8. order \in Bijection(1 .. count, DOMAIN key)
  <2>1. order \in [1 .. count -> DOMAIN key]
    BY <1>4, <1>6
  <2>2. \A m, n \in 1 .. count : order[m] = order[n] => m = n
    <3> SUFFICES ASSUME NEW m \in 1 .. count, NEW n \in 1 .. count, order[m] = order[n] PROVE m = n
      OBVIOUS
    <3>1. m - 1 = n - 1
      BY <1>6
    <3> QED
      BY <1>2, <3>1
  <2> QED
    BY <1>7, <2>1, <2>2 DEF Bijection, Injection, Surjection, IsInjective
<1>9. ASSUME NEW m \in 1 .. count, NEW n \in 1 .. count, m < n
      PROVE  Exceeds(key[order[m]], key[order[n]])
  <2>1. order[m] \in DOMAIN key /\ order[n] \in DOMAIN key /\ place[order[m]] = m - 1 /\ place[order[n]] = n - 1
    BY <1>6
  <2>2. ~(place[order[n]] < place[order[m]]) /\ order[m] # order[n]
    BY <1>2, <1>9, <2>1
  <2>3. <<order[m], order[n]>> \in R
    BY <1>1, <1>2, <2>1, <2>2 DEF StrictOrder
  <2> QED
    BY <2>3 DEF Above
<1> QED
  BY <1>2, <1>8, <1>9 DEF order

\* The best of a family of keys.
LEMMA BestIs ==
  ASSUME NEW D, NEW key, Keyed(D, key), D # {}
  PROVE  /\ Best(key) \in D
         /\ \A j \in D \ {Best(key)} : Exceeds(key[Best(key)], key[j])
         /\ \A i \in D : (\A j \in D \ {i} : Exceeds(key[i], key[j])) => i = Best(key)
<1> DEFINE order == Descending(key)
           count == Cardinality(D)
<1>1. /\ count \in Nat /\ order \in Bijection(1 .. count, D)
      /\ \A m, n \in 1 .. count : m < n => Exceeds(key[order[m]], key[order[n]])
  BY DescendingIs
<1> HIDE DEF order, count
<1>2. /\ \A n \in 1 .. count : order[n] \in D
      /\ \A i \in D : \E n \in 1 .. count : order[n] = i
  BY <1>1 DEF Bijection, Injection, Surjection
<1>3. 1 \in 1 .. count
  <2>1. PICK i \in D : TRUE
    OBVIOUS
  <2>2. PICK n \in 1 .. count : order[n] = i
    BY <1>2
  <2> QED
    BY <1>1, <2>2
<1>4. \A j \in D \ {order[1]} : Exceeds(key[order[1]], key[j])
  <2> SUFFICES ASSUME NEW j \in D \ {order[1]} PROVE Exceeds(key[order[1]], key[j])
    OBVIOUS
  <2>1. PICK n \in 1 .. count : order[n] = j
    BY <1>2
  <2>2. 1 < n
    BY <1>1, <2>1
  <2> QED
    BY <1>1, <1>3, <2>1, <2>2
<1>5. StrictOrder(D, Above(D, key)) /\ \A i, j \in D : <<i, j>> \in Above(D, key) <=> Exceeds(key[i], key[j])
  BY KeysOrder DEF Above
<1>6. DOMAIN key = D
  BY DEF Keyed
<1>7. Best(key) \in D /\ \A j \in D \ {Best(key)} : Exceeds(key[Best(key)], key[j])
  BY <1>2, <1>3, <1>4, <1>6 DEF Best
<1>8. ASSUME NEW i \in D, \A j \in D \ {i} : Exceeds(key[i], key[j]) PROVE i = Best(key)
  <2> SUFFICES ASSUME i # Best(key) PROVE FALSE
    OBVIOUS
  <2>1. Exceeds(key[i], key[Best(key)]) /\ Exceeds(key[Best(key)], key[i])
    BY <1>7, <1>8
  <2> QED
    BY <1>5, <1>7, <2>1 DEF StrictOrder
<1> QED
  BY <1>7, <1>8

\* The extremes of a finite set of numbers.
LEMMA Extremes ==
  ASSUME NEW T, IsFiniteSet(T), T \subseteq Int, T # {}
  PROVE  /\ Max(T) \in T /\ \A y \in T : Max(T) >= y
         /\ Min(T) \in T /\ \A y \in T : Min(T) <= y
<1>1. ASSUME NEW key, \/ key = [x \in T |-> <<x, 0, 0, 0>>]
                       \/ key = [x \in T |-> <<-x, 0, 0, 0>>]
      PROVE  Best(key) \in T /\ \A y \in T \ {Best(key)} : key[Best(key)][1] > key[y][1]
  <2>1. /\ DOMAIN key = T /\ \A x \in T : key[x] \in Keys
        /\ \A x, y \in T : key[x] = key[y] => x = y
    BY <1>1 DEF Keys
  <2>2. Best(key) \in T /\ \A y \in T \ {Best(key)} : Exceeds(key[Best(key)], key[y])
    BY <2>1, BestIs DEF Keyed
  <2>3. \A x, y \in T : Exceeds(key[x], key[y]) <=> key[x][1] > key[y][1]
    <3> SUFFICES ASSUME NEW x \in T, NEW y \in T PROVE Exceeds(key[x], key[y]) <=> key[x][1] > key[y][1]
      OBVIOUS
    <3>1. \A n \in 2 .. 4 : key[x][n] = 0 /\ key[y][n] = 0
      BY <1>1
    <3>2. \A n \in {2, 3, 4} : key[x][n] = 0 /\ key[y][n] = 0
      BY <3>1
    <3> QED
      BY <2>1, <3>2, ExceedsIs
  <2> QED
    BY <2>2, <2>3
<1>2. \E x \in T : \A y \in T : x >= y
  <2> DEFINE key == [x \in T |-> <<x, 0, 0, 0>>]
  <2>1. Best(key) \in T /\ \A y \in T \ {Best(key)} : key[Best(key)][1] > key[y][1]
    BY <1>1
  <2>2. \A x \in T : key[x][1] = x
    OBVIOUS
  <2> DEFINE b == Best(key)
  <2> HIDE DEF key
  <2>3. b \in T /\ \A y \in T \ {b} : b > y
    BY <2>1, <2>2
  <2> HIDE DEF b
  <2>4. \A y \in T : b >= y
    BY <2>3
  <2> QED
    BY <2>3, <2>4
<1>3. \E x \in T : \A y \in T : x <= y
  <2> DEFINE key == [x \in T |-> <<-x, 0, 0, 0>>]
  <2>1. Best(key) \in T /\ \A y \in T \ {Best(key)} : key[Best(key)][1] > key[y][1]
    BY <1>1
  <2>2. \A x \in T : key[x][1] = -x
    OBVIOUS
  <2> DEFINE b == Best(key)
  <2> HIDE DEF key
  <2>3. b \in T /\ \A y \in T \ {b} : -b > -y
    BY <2>1, <2>2
  <2> HIDE DEF b
  <2>4. \A y \in T : b <= y
    BY <2>3
  <2> QED
    BY <2>3, <2>4
<1> QED
  BY <1>2, <1>3 DEF Max, Min

LEMMA MinOfTwo ==
  ASSUME NEW a \in Int, NEW b \in Int
  PROVE  Min({a, b}) = IF a <= b THEN a ELSE b
<1> DEFINE T == {a, b}
<1>1. T = {a} \cup {b} /\ T \subseteq Int /\ T # {}
  OBVIOUS
<1>2. IsFiniteSet({a})
  BY FS_Singleton
<1>3. IsFiniteSet({a} \cup {b})
  BY <1>2, FS_AddElement
<1>4. a \in T /\ b \in T /\ \A x \in T : x = a \/ x = b
  OBVIOUS
<1> HIDE DEF T
<1>5. Min(T) \in T /\ \A y \in T : Min(T) <= y
  BY <1>1, <1>3, Extremes
<1>6. Min(T) = a \/ Min(T) = b
  BY <1>4, <1>5
<1>7. Min(T) <= a /\ Min(T) <= b
  BY <1>4, <1>5
<1>8. Min(T) = IF a <= b THEN a ELSE b
  BY <1>6, <1>7
<1> QED
  BY <1>8 DEF T

\* The orders the rows of a query may come in.
LEMMA OrderIs ==
  ASSUME NEW S, IsFiniteSet(S), NEW order \in SetToSeqs(S)
  PROVE  Cardinality(S) \in Nat /\ order \in Bijection(1 .. Cardinality(S), S)
<1> DEFINE count == Cardinality(S)
           D == 1 .. count
<1>1. count \in Nat
  BY FS_CardinalityType
<1>2. IsFiniteSet(D) /\ Cardinality(D) = count
  BY <1>1, FS_Interval
<1>3. order \in Injection(D, S)
  BY DEF SetToSeqs, Injection, IsInjective
<1> HIDE DEF D, count
<1>4. order \in Surjection(D, S)
  BY <1>2, <1>3, FS_Injection DEF count
<1> QED
  BY <1>1, <1>3, <1>4 DEF Bijection, D, count
-----------------------------------------------------------------------------
(* Clusters.                                                               *)

Stamps == Int \cup {NoTime}
GroupRows ==
  [count : Nat, ids : Nat, first : Stamps, last : Stamps, levels : [Lvls -> Nat],
   services : [Svcs -> Nat], errors : [Svcs -> Nat], named : BOOLEAN]
ClusterRecords ==
  [fp : Int, count : Nat, ids : Nat, first : Stamps, last : Stamps, services : [Svcs -> Nat],
   errors : [Svcs -> Nat], levels : [Lvls -> Nat], named : BOOLEAN, baseline : Nat,
   trigger : BOOLEAN, merged : SUBSET Int, importance : Int]

LEMMA NamesFinite == IsFiniteSet(Svcs) /\ IsFiniteSet(Lvls) /\ IsFiniteSet(Fps) /\ Fps \subseteq Int
<1> DEFINE s == [k \in RowKinds |-> k.svc]
           l == [k \in RowKinds |-> k.lvl]
           f == [k \in RowKinds |-> k.fp]
           S == {k.svc : k \in RowKinds}
           L == {k.lvl : k \in RowKinds}
<1>1. IsFiniteSet(RowKinds) /\ \A k \in RowKinds : k.fp \in Int
  BY ClusteringConstants
<1>2. s \in Surjection(RowKinds, S) /\ l \in Surjection(RowKinds, L) /\ f \in Surjection(RowKinds, Fps)
  BY DEF Surjection, Fps
<1>3. Svcs \subseteq S /\ Lvls \subseteq L /\ Fps \subseteq Int
  BY <1>1 DEF Svcs, Lvls, Fps
<1> HIDE DEF s, l, f, S, L
<1>4. IsFiniteSet(S) /\ IsFiniteSet(L) /\ IsFiniteSet(Fps)
  BY <1>1, <1>2, FS_Surjection
<1> QED
  BY <1>3, <1>4, FS_Subset

LEMMA ScoreType ==
  ASSUME NEW g, g.count \in Nat, g.levels \in [Lvls -> Nat], NEW baseline \in Nat, NEW trigger \in BOOLEAN
  PROVE  compute_importance_score(g, baseline, trigger) \in Int
<1>1. get_severity_weight(g.levels) \in Int
  <2> DEFINE total == SumFunction(g.levels)
             f == [l \in Lvls |-> Severity(l) * g.levels[l]]
  <2>1. total \in Nat
    BY NamesFinite, SumType
  <2>2. \A l : Severity(l) \in Nat
    BY DEF Severity
  <2>3. f \in [Lvls -> Int]
    BY <2>2
  <2>4. SumFunction(f) \in Int
    <3> HIDE DEF f
    <3> QED
      BY <2>3, NamesFinite, SumType
  <2>5. get_severity_weight(g.levels) = IF total = 0 THEN 1000 ELSE SumFunction(f) \div total
    BY DEF get_severity_weight
  <2> HIDE DEF total, f
  <2> QED
    BY <2>1, <2>4, <2>5
<1>2. Spread(g.services) \in Nat
  <2>1. IsFiniteSet({s \in Svcs : g.services[s] > 0})
    BY NamesFinite, FS_Subset
  <2> QED
    BY <2>1, FS_CardinalityType DEF Spread
<1>3. \A n \in Nat \ {0} : Ln(n) \in Nat
  BY LnGrows
<1>4. /\ Ln(g.count + 1) \in Nat /\ Ln(g.count + baseline + 2) \in Nat /\ Ln(baseline + 1) \in Nat
      /\ Ln(Spread(g.services) + 1) \in Nat
  BY <1>2, <1>3
<1>5. Ln(Spread(g.services) + 1) \div 2 \in Int
  BY <1>4
<1> QED
  BY <1>1, <1>4, <1>5 DEF compute_importance_score

LEMMA ClusterOfType ==
  ASSUME NEW fp \in Int, NEW sums \in GroupRows, NEW baseline \in Nat, NEW trigger \in BOOLEAN,
         NEW merged \in SUBSET Int
  PROVE  ClusterOf(fp, sums, baseline, trigger, merged) \in ClusterRecords
  BY ScoreType DEF ClusterOf, GroupRows, ClusterRecords

\* The errors of the service with the most.
LEMMA TopErrorsIs ==
  ASSUME NEW c \in ClusterRecords
  PROVE  TopErrors(c) \in Nat /\ (TopErrors(c) > 0 => \E s \in Svcs : c.errors[s] > 0)
<1> DEFINE T == {c.errors[s] : s \in Svcs}
<1>1. T \subseteq Nat /\ T \subseteq Int /\ c.errors \in [Svcs -> Nat]
  BY DEF ClusterRecords
<1>2. IsFiniteSet(T)
  <2>1. c.errors \in Surjection(Svcs, T)
    BY <1>1 DEF Surjection
  <2> HIDE DEF T
  <2> QED
    BY <2>1, NamesFinite, FS_Surjection
<1>3. ASSUME T # {} PROVE Max(T) \in T
  <2> HIDE DEF T
  <2> QED
    BY <1>1, <1>2, <1>3, Extremes
<1>4. TopErrors(c) = IF T = {} THEN 0 ELSE Max(T)
  BY DEF TopErrors, MaxOr
<1> QED
  BY <1>1, <1>3, <1>4

FpsOf(c) == {c.fp} \cup c.merged

\* A failing cluster is a candidate, and one with lines has a time.
Sound(c) ==
  /\ c \in ClusterRecords
  /\ (\E s \in Svcs : c.errors[s] > 0) => \E l \in Lvls \cap Errors : c.levels[l] > 0
  /\ c.count > 0 => c.first # NoTime

\* c stands for the clusters of cs at the places of S: their fingerprints and sums.
Counts(cs, S) == SumFunction([i \in S |-> cs[i].count])
ErrorsOf(cs, S, s) == SumFunction([i \in S |-> cs[i].errors[s]])
StandsFor(c, cs, S) ==
  /\ Sound(c)
  /\ FpsOf(c) = {cs[i].fp : i \in S}
  /\ c.count = Counts(cs, S)
  /\ \A s \in Svcs : c.errors[s] = ErrorsOf(cs, S, s)

\* The list cs of one cluster for each fingerprint.
Plain(cs) ==
  /\ IsFiniteSet(DOMAIN cs)
  /\ \A i \in DOMAIN cs : Sound(cs[i]) /\ cs[i].merged = {}
  /\ \A i, j \in DOMAIN cs : cs[i].fp = cs[j].fp => i = j

\* The clusters of a list stand for the parts M of cs, which no link leaves if any
\* were merged.
Grouping(r, M, cs) ==
  /\ DOMAIN M = DOMAIN r
  /\ \A n \in DOMAIN r : M[n] \subseteq DOMAIN cs /\ StandsFor(r[n], cs, M[n])
  /\ \A i \in DOMAIN cs : \E n \in DOMAIN r : i \in M[n]
  /\ \A m, n \in DOMAIN r : m # n => M[m] \cap M[n] = {}
  /\ (\E n \in DOMAIN r : r[n].merged # {}) => \A n \in DOMAIN r : Closed(cs, M[n])

LEMMA StandsForItself ==
  ASSUME NEW cs, Plain(cs), NEW i \in DOMAIN cs
  PROVE  StandsFor(cs[i], cs, {i})
<1>1. Sound(cs[i]) /\ cs[i].merged = {} /\ cs[i] \in ClusterRecords
  BY DEF Plain, Sound
<1>2. FpsOf(cs[i]) = {cs[j].fp : j \in {i}}
  BY <1>1 DEF FpsOf
<1>3. /\ [j \in {i} |-> cs[j].count] \in [{i} -> Int] /\ [j \in {i} |-> cs[j].count][i] = cs[i].count
      /\ \A s \in Svcs : /\ [j \in {i} |-> cs[j].errors[s]] \in [{i} -> Int]
                         /\ [j \in {i} |-> cs[j].errors[s]][i] = cs[i].errors[s]
  BY <1>1 DEF ClusterRecords
<1>4. Counts(cs, {i}) = cs[i].count
  BY <1>3, SumOne DEF Counts
<1>5. ASSUME NEW s \in Svcs PROVE ErrorsOf(cs, {i}, s) = cs[i].errors[s]
  BY <1>3, SumOne DEF ErrorsOf
<1> QED
  BY <1>1, <1>2, <1>4, <1>5 DEF StandsFor

\* A list that nothing was merged in.
LEMMA PlainGrouping ==
  ASSUME NEW cs, Plain(cs)
  PROVE  Grouping(cs, [i \in DOMAIN cs |-> {i}], cs)
<1>1. \A i \in DOMAIN cs : cs[i].merged = {} /\ StandsFor(cs[i], cs, {i})
  BY StandsForItself DEF Plain
<1> QED
  BY <1>1 DEF Grouping

\* The cluster that a set of clusters is merged into.
LEMMA MergeStandsFor ==
  ASSUME NEW cs, Plain(cs), NEW S, S \subseteq DOMAIN cs, S # {}
  PROVE  StandsFor(merge_component(cs, S), cs, S)
<1> DEFINE key == [i \in S |-> <<cs[i].importance, cs[i].count, -cs[i].fp, 0>>]
           canonical == cs[Best(key)]
           times == ({cs[i].first : i \in S} \cup {cs[i].last : i \in S}) \ {NoTime}
           count == [i \in S |-> cs[i].count]
           ids == [i \in S |-> cs[i].ids]
           base0 == [i \in S |-> cs[i].baseline]
           levels(l) == [i \in S |-> cs[i].levels[l]]
           services(s) == [i \in S |-> cs[i].services[s]]
           errors(s) == [i \in S |-> cs[i].errors[s]]
           sums == [count |-> SumFunction(count), ids |-> SumFunction(ids),
                    levels |-> [l \in Lvls |-> SumFunction(levels(l))],
                    services |-> [s \in Svcs |-> SumFunction(services(s))],
                    errors |-> [s \in Svcs |-> SumFunction(errors(s))],
                    first |-> IF times = {} THEN NoTime ELSE Min(times),
                    last |-> IF times = {} THEN NoTime ELSE Max(times), named |-> TRUE]
           trigger == \E i \in S : cs[i].trigger
           merged == {cs[i].fp : i \in S} \ {canonical.fp}
           c == merge_component(cs, S)
<1>1. /\ IsFiniteSet(S)
      /\ \A i \in S : Sound(cs[i]) /\ cs[i] \in ClusterRecords
  BY FS_Subset DEF Plain, Sound
<1>2. \A i \in S : /\ cs[i].importance \in Int /\ cs[i].count \in Nat /\ cs[i].fp \in Int /\ cs[i].ids \in Nat
                   /\ cs[i].baseline \in Nat /\ cs[i].levels \in [Lvls -> Nat]
                   /\ cs[i].services \in [Svcs -> Nat] /\ cs[i].errors \in [Svcs -> Nat]
                   /\ cs[i].first \in Stamps /\ cs[i].last \in Stamps
  BY <1>1 DEF ClusterRecords
<1>3. Best(key) \in S
  <2>1. DOMAIN key = S /\ \A i \in S : key[i] \in Keys /\ key[i][3] = -cs[i].fp
    BY <1>2 DEF Keys
  <2>2. \A i, j \in S : -cs[i].fp = -cs[j].fp => i = j
    BY <1>2 DEF Plain
  <2>3. Keyed(S, key)
    BY <1>1, <2>1, <2>2 DEF Keyed
  <2> HIDE DEF key
  <2> QED
    BY <2>3, BestIs
<1>4. /\ SumFunction(count) \in Nat /\ SumFunction(ids) \in Nat /\ SumFunction(base0) \in Nat
      /\ SumFunction(count) > 0 => \E i \in S : cs[i].count > 0
  <2>1. /\ count \in [S -> Nat] /\ ids \in [S -> Nat] /\ base0 \in [S -> Nat]
        /\ \A i \in S : count[i] = cs[i].count
    BY <1>2
  <2> HIDE DEF count, ids, base0
  <2> QED
    BY <1>1, <2>1, SumOfSome
<1>5. ASSUME NEW l \in Lvls
      PROVE  SumFunction(levels(l)) \in Nat /\ (SumFunction(levels(l)) > 0 <=> \E i \in S : cs[i].levels[l] > 0)
  <2>1. levels(l) \in [S -> Nat] /\ \A i \in S : levels(l)[i] = cs[i].levels[l]
    BY <1>2
  <2> HIDE DEF levels
  <2> QED
    BY <1>1, <2>1, SumOfSome
<1>6. ASSUME NEW s \in Svcs
      PROVE  /\ SumFunction(services(s)) \in Nat /\ SumFunction(errors(s)) \in Nat
             /\ SumFunction(errors(s)) > 0 => \E i \in S : cs[i].errors[s] > 0
  <2>1. /\ services(s) \in [S -> Nat] /\ errors(s) \in [S -> Nat]
        /\ \A i \in S : errors(s)[i] = cs[i].errors[s]
    BY <1>2
  <2> HIDE DEF services, errors
  <2> QED
    BY <1>1, <2>1, SumOfSome
<1>7. /\ times \subseteq Int
      /\ times # {} => Min(times) \in times /\ Max(times) \in times
  <2>1. times \subseteq Int
    BY <1>2 DEF Stamps
  <2>2. IsFiniteSet(times)
    <3> DEFINE f == [i \in S |-> cs[i].first]
               l == [i \in S |-> cs[i].last]
               F == {cs[i].first : i \in S}
               L == {cs[i].last : i \in S}
    <3>1. f \in Surjection(S, F) /\ l \in Surjection(S, L)
      BY DEF Surjection
    <3>2. times \subseteq F \cup L
      OBVIOUS
    <3> HIDE DEF f, l, F, L, times
    <3>3. IsFiniteSet(F) /\ IsFiniteSet(L)
      BY <1>1, <3>1, FS_Surjection
    <3>4. IsFiniteSet(F \cup L)
      BY <3>3, FS_Union
    <3> QED
      BY <3>2, <3>4, FS_Subset
  <2> HIDE DEF times
  <2> QED
    BY <2>1, <2>2, Extremes
<1>8. sums \in GroupRows
  <2>1. sums.first \in Stamps /\ sums.last \in Stamps
    BY <1>7 DEF Stamps
  <2> HIDE DEF times, count, ids, levels, services, errors
  <2> QED
    BY <1>4, <1>5, <1>6, <2>1 DEF GroupRows
<1>9. c = ClusterOf(canonical.fp, sums, SumFunction(base0), trigger, merged)
  BY DEF merge_component
<1>10. canonical.fp \in Int /\ merged \in SUBSET Int /\ trigger \in BOOLEAN
  <2> HIDE DEF key
  <2> QED
    BY <1>2, <1>3
<1>11. /\ c \in ClusterRecords /\ c.count = sums.count /\ c.errors = sums.errors /\ c.levels = sums.levels
       /\ c.first = sums.first /\ c.fp = canonical.fp /\ c.merged = merged
  <2> HIDE DEF sums, merged, trigger, canonical, base0, c
  <2>1. c \in ClusterRecords
    BY <1>4, <1>8, <1>9, <1>10, ClusterOfType
  <2> QED
    BY <1>9, <2>1 DEF ClusterOf
<1>12. c.count > 0 => c.first # NoTime
  <2> SUFFICES ASSUME c.count > 0 PROVE times # {}
    BY <1>7, <1>11, ClusteringConstants
  <2>1. PICK i \in S : cs[i].count > 0
    BY <1>4, <1>11
  <2>2. cs[i].first # NoTime
    BY <1>1, <2>1 DEF Sound
  <2> QED
    BY <2>2
<1>13. (\E s \in Svcs : c.errors[s] > 0) => \E l \in Lvls \cap Errors : c.levels[l] > 0
  <2> SUFFICES ASSUME NEW s \in Svcs, c.errors[s] > 0 PROVE \E l \in Lvls \cap Errors : c.levels[l] > 0
    OBVIOUS
  <2>1. PICK i \in S : cs[i].errors[s] > 0
    BY <1>6, <1>11
  <2>2. PICK l \in Lvls \cap Errors : cs[i].levels[l] > 0
    BY <1>1, <2>1 DEF Sound
  <2>3. c.levels[l] > 0
    BY <1>5, <1>11, <2>2
  <2> QED
    BY <2>3
<1>14. FpsOf(c) = {cs[i].fp : i \in S}
  <2> HIDE DEF key, c
  <2> QED
    BY <1>3, <1>11 DEF FpsOf
<1>15. c.count = Counts(cs, S) /\ \A s \in Svcs : c.errors[s] = ErrorsOf(cs, S, s)
  <2> HIDE DEF c
  <2> QED
    BY <1>11 DEF Counts, ErrorsOf
<1> QED
  BY <1>11, <1>12, <1>13, <1>14, <1>15 DEF StandsFor, Sound

\* Similarity is mutual, so the chains of similar clusters divide a list.
LEMMA ComponentIs ==
  ASSUME NEW cs, NEW i \in DOMAIN cs
  PROVE  /\ i \in Component(cs, i) /\ Component(cs, i) \subseteq DOMAIN cs /\ Closed(cs, Component(cs, i))
         /\ \A S \in SUBSET DOMAIN cs : i \in S /\ Closed(cs, S) => Component(cs, i) \subseteq S
         /\ \A j \in Component(cs, i) : Component(cs, j) = Component(cs, i)
<1> DEFINE Edge(x, y) == <<cs[x].fp, cs[y].fp>> \in Similar /\ Eligible(cs[x]) /\ Eligible(cs[y])
           C(x) == Component(cs, x)
<1>1. \A S : Closed(cs, S) <=> \A x \in S, y \in DOMAIN cs : Edge(x, y) => y \in S
  BY DEF Closed
<1>2. \A x, y : Edge(x, y) => Edge(y, x)
  <2>1. \A x, y : <<x, y>> \in Similar => <<y, x>> \in Similar
    BY ClusteringConstants
  <2> QED
    BY <2>1
<1> HIDE DEF Edge
<1>3. ASSUME NEW k \in DOMAIN cs
      PROVE  /\ k \in C(k) /\ C(k) \subseteq DOMAIN cs /\ Closed(cs, C(k))
             /\ \A S \in SUBSET DOMAIN cs : k \in S /\ Closed(cs, S) => C(k) \subseteq S
  <2>1. C(k) = {x \in DOMAIN cs : \A S \in SUBSET DOMAIN cs : k \in S /\ Closed(cs, S) => x \in S}
    BY DEF Component
  <2>2. Closed(cs, C(k))
    <3> SUFFICES ASSUME NEW x \in C(k), NEW y \in DOMAIN cs, Edge(x, y) PROVE y \in C(k)
      BY <1>1
    <3> SUFFICES ASSUME NEW S \in SUBSET DOMAIN cs, k \in S, Closed(cs, S) PROVE y \in S
      BY <2>1
    <3>1. x \in S
      BY <2>1
    <3> QED
      BY <1>1, <3>1
  <2> QED
    BY <2>1, <2>2
<1>4. ASSUME NEW j \in C(i), i \notin C(j) PROVE FALSE
  <2> DEFINE S == C(i) \ C(j)
  <2>1. j \in DOMAIN cs
    BY <1>3
  <2>2. \A x \in C(j), y \in DOMAIN cs : Edge(x, y) => y \in C(j)
    BY <1>1, <1>3, <2>1
  <2>3. \A x \in C(i), y \in DOMAIN cs : Edge(x, y) => y \in C(i)
    BY <1>1, <1>3
  <2>4. \A x \in S, y \in DOMAIN cs : Edge(x, y) => y \in S
    BY <1>2, <1>3, <2>2, <2>3
  <2>5. Closed(cs, S)
    BY <1>1, <2>4
  <2>6. i \in S /\ S \in SUBSET DOMAIN cs /\ j \notin S
    BY <1>3, <1>4, <2>1
  <2> QED
    BY <1>3, <1>4, <2>5, <2>6
<1>5. ASSUME NEW j \in C(i) PROVE C(j) = C(i)
  <2>1. j \in DOMAIN cs /\ i \in C(j)
    BY <1>3, <1>4
  <2>2. C(i) \subseteq C(j) /\ C(j) \subseteq C(i)
    BY <1>3, <2>1
  <2> QED
    BY <2>2
<1> QED
  BY <1>3, <1>5

Listed1(cs) == \E n \in Nat : DOMAIN cs = 1 .. n
Firsts(cs) == {i \in DOMAIN cs : \A j \in Component(cs, i) : i <= j}

\* Each cluster is in the component of one root.
LEMMA RootsIs ==
  ASSUME NEW cs, Listed1(cs)
  PROVE  /\ Listed1(Roots(cs))
         /\ \A n \in DOMAIN Roots(cs) : Roots(cs)[n] \in DOMAIN cs
         /\ \A i \in DOMAIN cs : \E n \in DOMAIN Roots(cs) : i \in Component(cs, Roots(cs)[n])
         /\ \A m, n \in DOMAIN Roots(cs) :
              m # n => Component(cs, Roots(cs)[m]) \cap Component(cs, Roots(cs)[n]) = {}
<1> DEFINE first == Firsts(cs)
           key == [i \in first |-> <<-i, 0, 0, 0>>]
           r == Roots(cs)
<1>1. IsFiniteSet(DOMAIN cs) /\ DOMAIN cs \subseteq Int
  BY FS_Interval DEF Listed1
<1>2. Keyed(first, key)
  <2>1. first \subseteq DOMAIN cs
    BY DEF Firsts
  <2>2. IsFiniteSet(first) /\ first \subseteq Int
    BY <1>1, <2>1, FS_Subset
  <2>3. \A i \in first : key[i] \in Keys /\ key[i][1] = -i
    BY <2>2 DEF Keys
  <2>4. \A i, j \in first : key[i] = key[j] => -i = -j
    BY <2>3
  <2>5. \A i, j \in first : key[i] = key[j] => i = j
    BY <2>2, <2>4
  <2> QED
    BY <2>2, <2>3, <2>5 DEF Keyed
<1>3. r = Descending(key)
  BY DEF Roots, Firsts
<1>4. Cardinality(first) \in Nat /\ r \in Bijection(1 .. Cardinality(first), first)
  <2> HIDE DEF first, key
  <2> QED
    BY <1>2, <1>3, DescendingIs
<1>5. /\ DOMAIN r = 1 .. Cardinality(first) /\ \A n \in DOMAIN r : r[n] \in first
      /\ \A m, n \in DOMAIN r : r[m] = r[n] => m = n
      /\ \A i \in first : \E n \in DOMAIN r : r[n] = i
  BY <1>4 DEF Bijection, Injection, Surjection, IsInjective
<1> HIDE DEF key, r
<1>6. ASSUME NEW i \in DOMAIN cs PROVE \E n \in DOMAIN r : i \in Component(cs, r[n])
  <2> DEFINE C == Component(cs, i)
             j == Min(C)
  <2>1. /\ i \in C /\ C \subseteq DOMAIN cs /\ \A k \in C : Component(cs, k) = C
    BY ComponentIs
  <2> HIDE DEF C
  <2>2. j \in C /\ \A k \in C : j <= k
    <3>1. IsFiniteSet(C) /\ C \subseteq Int /\ C # {}
      BY <1>1, <2>1, FS_Subset
    <3> QED
      BY <3>1, Extremes
  <2>3. j \in first
    BY <2>1, <2>2 DEF Firsts
  <2> HIDE DEF j
  <2>4. PICK n \in DOMAIN r : r[n] = j
    BY <1>5, <2>3
  <2> QED
    BY <2>1, <2>2, <2>4
<1>7. ASSUME NEW m \in DOMAIN r, NEW n \in DOMAIN r, m # n
      PROVE  Component(cs, r[m]) \cap Component(cs, r[n]) = {}
  <2> SUFFICES ASSUME NEW k \in Component(cs, r[m]), k \in Component(cs, r[n]) PROVE FALSE
    OBVIOUS
  <2>1. /\ r[m] \in DOMAIN cs /\ \A j \in Component(cs, r[m]) : r[m] <= j
        /\ r[n] \in DOMAIN cs /\ \A j \in Component(cs, r[n]) : r[n] <= j
    BY <1>5 DEF Firsts
  <2>2. Component(cs, r[m]) = Component(cs, k) /\ Component(cs, r[n]) = Component(cs, k)
    BY <2>1, ComponentIs
  <2>3. r[m] \in Component(cs, r[m]) /\ r[n] \in Component(cs, r[n])
    BY <2>1, ComponentIs
  <2>4. r[m] <= r[n] /\ r[n] <= r[m] /\ r[m] \in Int /\ r[n] \in Int
    BY <1>1, <2>1, <2>2, <2>3
  <2> QED
    BY <1>5, <1>7, <2>4
<1>8. \A n \in DOMAIN r : r[n] \in DOMAIN cs
  BY <1>5 DEF Firsts
<1> QED
  BY <1>4, <1>5, <1>6, <1>7, <1>8 DEF Listed1, r

\* The list after the semantic merge.
LEMMA MergeGrouping ==
  ASSUME NEW cs, Plain(cs), Listed1(cs)
  PROVE  LET r == merge_semantic_clusters(cs)
         IN Listed1(r) /\ \E M : Grouping(r, M, cs)
<1> DEFINE r == merge_semantic_clusters(cs)
           M == [n \in DOMAIN Roots(cs) |-> Component(cs, Roots(cs)[n])]
<1>1. /\ Listed1(Roots(cs))
      /\ \A n \in DOMAIN Roots(cs) : Roots(cs)[n] \in DOMAIN cs
      /\ \A i \in DOMAIN cs : \E n \in DOMAIN Roots(cs) : i \in Component(cs, Roots(cs)[n])
      /\ \A m, n \in DOMAIN Roots(cs) :
           m # n => Component(cs, Roots(cs)[m]) \cap Component(cs, Roots(cs)[n]) = {}
  BY RootsIs
<1>2. /\ DOMAIN r = DOMAIN Roots(cs) /\ DOMAIN M = DOMAIN r
      /\ \A n \in DOMAIN r : r[n] = IF M[n] = {Roots(cs)[n]} THEN cs[Roots(cs)[n]] ELSE merge_component(cs, M[n])
  BY DEF merge_semantic_clusters
<1>3. ASSUME NEW n \in DOMAIN r
      PROVE  M[n] \subseteq DOMAIN cs /\ StandsFor(r[n], cs, M[n]) /\ Closed(cs, M[n])
  <2>1. Roots(cs)[n] \in DOMAIN cs /\ M[n] = Component(cs, Roots(cs)[n])
    BY <1>1, <1>2
  <2>2. Roots(cs)[n] \in M[n] /\ M[n] \subseteq DOMAIN cs /\ Closed(cs, M[n])
    BY <2>1, ComponentIs
  <2>3. StandsFor(merge_component(cs, M[n]), cs, M[n]) /\ StandsFor(cs[Roots(cs)[n]], cs, {Roots(cs)[n]})
    <3> HIDE DEF M
    <3> QED
      BY <2>1, <2>2, MergeStandsFor, StandsForItself
  <2> HIDE DEF M, r
  <2> QED
    BY <1>2, <2>2, <2>3
<1>4. Listed1(r)
  BY <1>1, <1>2 DEF Listed1
<1>5. /\ \A i \in DOMAIN cs : \E n \in DOMAIN r : i \in M[n]
      /\ \A m, n \in DOMAIN r : m # n => M[m] \cap M[n] = {}
  BY <1>1, <1>2
<1>6. Grouping(r, M, cs)
  <2> HIDE DEF M, r
  <2> QED
    BY <1>2, <1>3, <1>5 DEF Grouping
<1> QED
  BY <1>4, <1>6

\* Sorting a list by importance leaves its groups alone.
LEMMA ImportanceGrouping ==
  ASSUME NEW cs, NEW r, NEW M, Grouping(r, M, cs), Listed1(r)
  PROVE  LET s == ByImportance(r)
         IN /\ DOMAIN s = DOMAIN r /\ \E N : Grouping(s, N, cs)
            /\ \A m, n \in DOMAIN s : m < n => s[m].importance >= s[n].importance
<1> DEFINE D == DOMAIN r
           key == [i \in D |-> <<r[i].importance, -i, 0, 0>>]
           order == Descending(key)
           s == ByImportance(r)
           N == [n \in D |-> M[order[n]]]
<1>1. PICK k \in Nat : D = 1 .. k
  BY DEF Listed1
<1>2. IsFiniteSet(D) /\ Cardinality(D) = k
  BY <1>1, FS_Interval
<1>3. \A i \in D : i \in Int /\ r[i].importance \in Int
  BY <1>1 DEF Grouping, StandsFor, Sound, ClusterRecords
<1>4. Keyed(D, key) /\ \A i \in D : key[i][1] = r[i].importance
  <2>1. \A i \in D : key[i] \in Keys /\ key[i][2] = -i /\ key[i][1] = r[i].importance
    BY <1>3 DEF Keys
  <2>2. \A i, j \in D : key[i] = key[j] => i = j
    BY <1>3, <2>1
  <2> QED
    BY <1>2, <2>1, <2>2 DEF Keyed
<1> HIDE DEF D, key
<1>5. /\ order \in Bijection(1 .. k, D)
      /\ \A m, n \in 1 .. k : m < n => Exceeds(key[order[m]], key[order[n]])
  BY <1>2, <1>4, DescendingIs
<1>6. s = [n \in D |-> r[order[n]]]
  BY DEF ByImportance, D, key
<1> HIDE DEF order, s
<1>7. /\ \A n \in D : order[n] \in D /\ s[n] = r[order[n]] /\ N[n] = M[order[n]]
      /\ \A m, n \in D : order[m] = order[n] => m = n
      /\ \A i \in D : \E n \in D : order[n] = i
      /\ DOMAIN s = D /\ DOMAIN N = D
  BY <1>1, <1>5, <1>6 DEF Bijection, Injection, Surjection, IsInjective
<1>8. Grouping(s, N, cs)
  <2> HIDE DEF N
  <2>1. D = DOMAIN r
    BY DEF D
  <2>2. \A n \in D : N[n] \subseteq DOMAIN cs /\ StandsFor(s[n], cs, N[n])
    BY <1>7, <2>1 DEF Grouping
  <2>3. \A i \in DOMAIN cs : \E n \in D : i \in N[n]
    <3> SUFFICES ASSUME NEW i \in DOMAIN cs PROVE \E n \in D : i \in N[n]
      OBVIOUS
    <3>1. PICK m \in D : i \in M[m]
      BY <2>1 DEF Grouping
    <3>2. PICK n \in D : order[n] = m
      BY <1>7
    <3> QED
      BY <1>7, <3>1, <3>2
  <2>4. \A m, n \in D : m # n => N[m] \cap N[n] = {}
    <3>1. \A m, n \in D : m # n => M[m] \cap M[n] = {}
      BY <2>1, Zenon DEF Grouping
    <3> SUFFICES ASSUME NEW m \in D, NEW n \in D, m # n PROVE N[m] \cap N[n] = {}
      OBVIOUS
    <3>2. order[m] \in D /\ order[n] \in D /\ order[m] # order[n]
      BY <1>7
    <3>3. N[m] = M[order[m]] /\ N[n] = M[order[n]]
      BY <1>7
    <3> QED
      BY <3>1, <3>2, <3>3
  <2>5. ASSUME NEW x \in D, s[x].merged # {} PROVE \A n \in D : Closed(cs, N[n])
    <3>1. (\E n \in D : r[n].merged # {}) => \A n \in D : Closed(cs, M[n])
      BY <2>1, Zenon DEF Grouping
    <3>2. order[x] \in D /\ r[order[x]].merged # {}
      BY <1>7, <2>5
    <3>3. \A n \in D : Closed(cs, M[n])
      BY <3>1, <3>2
    <3> QED
      BY <1>7, <3>3
  <2> QED
    BY <1>7, <2>2, <2>3, <2>4, <2>5 DEF Grouping
<1>9. ASSUME NEW m \in D, NEW n \in D, m < n PROVE s[m].importance >= s[n].importance
  <2>1. Exceeds(key[order[m]], key[order[n]]) /\ order[m] \in D /\ order[n] \in D
    BY <1>1, <1>5, <1>7, <1>9
  <2>2. key[order[m]] \in Keys /\ key[order[n]] \in Keys
    BY <1>4, <2>1 DEF Keyed
  <2>3. key[order[m]][1] >= key[order[n]][1]
    <3>1. key[order[m]][1] \in Int /\ key[order[n]][1] \in Int
      BY <1>3, <1>4, <2>1
    <3> QED
      BY <2>1, <2>2, <3>1, ExceedsIs
  <2> QED
    BY <1>4, <1>7, <2>1, <2>3
<1> QED
  BY <1>7, <1>8, <1>9 DEF s, D
-----------------------------------------------------------------------------
(* The queries.                                                            *)

Zero == [k \in RowKinds |-> 0]
Below(t, u) == \A k \in RowKinds : t[k] <= u[k]

Row(count, ids, first, last, levels, services, errors, named) ==
  [count |-> count, ids |-> ids, first |-> first, last |-> last, levels |-> levels,
   services |-> services, errors |-> errors, named |-> named]

IdsIn(t, b) == IF Total(t, b) < MemberCap THEN Total(t, b) ELSE MemberCap
StampsIn(t, b) == {k.at : k \in Present(t, b)}
FirstIn(t, b) == IF StampsIn(t, b) = {} THEN NoTime ELSE Min(StampsIn(t, b))
LastIn(t, b) == IF StampsIn(t, b) = {} THEN NoTime ELSE Max(StampsIn(t, b))
LevelsIn(t, b) == [l \in Lvls |-> Total(t, {k \in b : k.lvl = l})]
ServicesIn(t, b) == [s \in Svcs |-> Total(t, {k \in b : k.svc = s})]
ErrorsIn(t, b) == [s \in Svcs |-> Total(t, {k \in b : k.svc = s /\ k.lvl \in Errors})]
NamedIn(t, b, fp) == FpMessage[fp] # "none" /\ Present(t, b) # {}

\* The group of a fingerprint when the queries for counts, services, levels and
\* messages see the tables tc, ts, tl and tm.
Cell(ask, fp, tc, ts, tl, tm) ==
  LET b == base(ask, fp)
  IN Row(Total(tc, b), IdsIn(tc, b), FirstIn(tc, b), LastIn(tc, b), LevelsIn(tl, b), ServicesIn(ts, b),
         ErrorsIn(ts, b), NamedIn(tm, b, fp))

GroupAt(groups, fp) == IF fp \in DOMAIN groups THEN groups[fp] ELSE EmptyGroup

IsTable(f) == f = [x \in DOMAIN f |-> f[x]]

\* The groups are those of the tables the queries saw.
Torn(ask, groups, seen, tc, ts, tl, tm) ==
  /\ IsTable(groups) /\ DOMAIN groups \subseteq Fps
  /\ \A fp \in Fps : GroupAt(groups, fp) = Cell(ask, fp, tc, ts, tl, tm)
  /\ GroupsOf(tc, window(ask)) \subseteq DOMAIN groups
  /\ \A fp \in DOMAIN groups : \E t \in seen : fp \in GroupsOf(t, window(ask))

LEMMA BaseIs ==
  ASSUME NEW ask, NEW fp
  PROVE  /\ base(ask, fp) \subseteq RowKinds /\ window(ask) \subseteq RowKinds
         /\ \A k \in base(ask, fp) : k \in window(ask) /\ k.fp = fp
         /\ \A k \in window(ask) : k.fp = fp => k \in base(ask, fp)
         /\ \A k \in window(ask) : k.fp \in Fps /\ k.at \in Int
  BY ClusteringConstants DEF base, window, Fps

LEMMA ZeroIs ==
  /\ Zero \in Tabled
  /\ \A K : K \subseteq RowKinds => Present(Zero, K) = {}
  BY DEF Zero, Tabled, Present

\* Nothing there is counted nothing.
LEMMA NothingThere ==
  ASSUME NEW t \in Tabled, NEW K, K \subseteq RowKinds, Present(t, K) = {}
  PROVE  Total(t, K) = 0 /\ Total(Zero, K) = 0
  BY TotalIs, ZeroIs

LEMMA EmptyCell ==
  ASSUME NEW ask, NEW fp PROVE Cell(ask, fp, Zero, Zero, Zero, Zero) = EmptyGroup
<1> DEFINE b == base(ask, fp)
<1>1. b \subseteq RowKinds
  BY BaseIs
<1>2. \A K : K \subseteq b => Present(Zero, K) = {} /\ Total(Zero, K) = 0
  BY <1>1, ZeroIs, NothingThere
<1>3. Total(Zero, b) = 0 /\ Present(Zero, b) = {} /\ StampsIn(Zero, b) = {}
  BY <1>2 DEF StampsIn
<1>4. /\ LevelsIn(Zero, b) = [l \in Lvls |-> 0] /\ ServicesIn(Zero, b) = [s \in Svcs |-> 0]
      /\ ErrorsIn(Zero, b) = [s \in Svcs |-> 0]
  BY <1>2 DEF LevelsIn, ServicesIn, ErrorsIn
<1>5. IdsIn(Zero, b) = 0 /\ FirstIn(Zero, b) = NoTime /\ LastIn(Zero, b) = NoTime
  BY <1>3, ClusteringConstants DEF IdsIn, FirstIn, LastIn
<1>6. NamedIn(Zero, b, fp) = FALSE
  BY <1>3 DEF NamedIn
<1>7. EmptyGroup = Row(0, 0, NoTime, NoTime, [l \in Lvls |-> 0], [s \in Svcs |-> 0], [s \in Svcs |-> 0], FALSE)
  BY DEF EmptyGroup, Row
<1> HIDE DEF b
<1>8. Cell(ask, fp, Zero, Zero, Zero, Zero)
        = Row(Total(Zero, b), IdsIn(Zero, b), FirstIn(Zero, b), LastIn(Zero, b), LevelsIn(Zero, b),
              ServicesIn(Zero, b), ErrorsIn(Zero, b), NamedIn(Zero, b, fp))
  BY DEF Cell, b
<1> QED
  BY <1>3, <1>4, <1>5, <1>6, <1>7, <1>8

\* What a query sets it takes from its own table, and where it sees nothing it
\* has nothing to set.
SetCounts(r, c, i, f, la) == [r EXCEPT !.count = c, !.ids = i, !.first = f, !.last = la]
SetServices(r, sv, er) == [r EXCEPT !.services = sv, !.errors = er]
SetLevels(r, lv) == [r EXCEPT !.levels = lv]
SetNamed(r, nm) == [r EXCEPT !.named = nm]

LEMMA RowChanged ==
  ASSUME NEW r, NEW c0, NEW i0, NEW f0, NEW la0, NEW lv0, NEW sv0, NEW er0, NEW nm0,
         r = Row(c0, i0, f0, la0, lv0, sv0, er0, nm0),
         NEW c, NEW i, NEW f, NEW la, NEW lv, NEW sv, NEW er, NEW nm
  PROVE  /\ SetCounts(r, c, i, f, la) = Row(c, i, f, la, lv0, sv0, er0, nm0)
         /\ SetServices(r, sv, er) = Row(c0, i0, f0, la0, lv0, sv, er, nm0)
         /\ SetLevels(r, lv) = Row(c0, i0, f0, la0, lv, sv0, er0, nm0)
         /\ SetNamed(r, nm) = Row(c0, i0, f0, la0, lv0, sv0, er0, nm)
<1> DEFINE r1 == [r EXCEPT !.count = c]
           r2 == [r1 EXCEPT !.ids = i]
           r3 == [r2 EXCEPT !.first = f]
           r4 == [r3 EXCEPT !.last = la]
           q1 == [r EXCEPT !.services = sv]
           q2 == [q1 EXCEPT !.errors = er]
<1>1. SetCounts(r, c, i, f, la) = r4
  BY DEF SetCounts
<1>2. SetServices(r, sv, er) = q2
  BY DEF SetServices
<1>3. r1 = Row(c, i0, f0, la0, lv0, sv0, er0, nm0)
  BY DEF Row
<1>4. q1 = Row(c0, i0, f0, la0, lv0, sv, er0, nm0)
  BY DEF Row
<1> HIDE DEF r1, q1
<1>5. r2 = Row(c, i, f0, la0, lv0, sv0, er0, nm0)
  BY <1>3 DEF Row
<1>6. q2 = Row(c0, i0, f0, la0, lv0, sv, er, nm0)
  BY <1>4 DEF Row
<1> HIDE DEF r2
<1>7. r3 = Row(c, i, f, la0, lv0, sv0, er0, nm0)
  BY <1>5 DEF Row
<1> HIDE DEF r3
<1>8. r4 = Row(c, i, f, la, lv0, sv0, er0, nm0)
  BY <1>7 DEF Row
<1> HIDE DEF r4, q2
<1>9. [r EXCEPT !.levels = lv] = Row(c0, i0, f0, la0, lv, sv0, er0, nm0)
  BY DEF Row
<1>10. [r EXCEPT !.named = nm] = Row(c0, i0, f0, la0, lv0, sv0, er0, nm)
  BY DEF Row
<1> QED
  BY <1>1, <1>2, <1>6, <1>8, <1>9, <1>10 DEF SetLevels, SetNamed

LEMMA CountsCell ==
  ASSUME NEW ask, NEW fp, NEW t, NEW tc, NEW ts, NEW tl, NEW tm
  PROVE  WithCounts(Cell(ask, fp, tc, ts, tl, tm), t, base(ask, fp)) = Cell(ask, fp, t, ts, tl, tm)
<1> DEFINE b == base(ask, fp)
           g == Cell(ask, fp, tc, ts, tl, tm)
           lv == LevelsIn(tl, b)
           sv == ServicesIn(ts, b)
           er == ErrorsIn(ts, b)
           nm == NamedIn(tm, b, fp)
           c == Total(t, b)
           i == IdsIn(t, b)
           f == FirstIn(t, b)
           la == LastIn(t, b)
<1>1. WithCounts(g, t, b) = SetCounts(g, c, i, f, la)
  BY DEF WithCounts, SetCounts, IdsIn, FirstIn, LastIn, StampsIn
<1>2. /\ g = Row(Total(tc, b), IdsIn(tc, b), FirstIn(tc, b), LastIn(tc, b), lv, sv, er, nm)
      /\ Cell(ask, fp, t, ts, tl, tm) = Row(c, i, f, la, lv, sv, er, nm)
  BY DEF Cell
<1> HIDE DEF b, g, lv, sv, er, nm, c, i, f, la
<1>3. WithCounts(g, t, b) = Row(c, i, f, la, lv, sv, er, nm)
  BY <1>1, <1>2, RowChanged
<1> QED
  BY <1>2, <1>3 DEF b, g

LEMMA ServicesCell ==
  ASSUME NEW ask, NEW fp, NEW t, NEW tc, NEW ts, NEW tl, NEW tm
  PROVE  WithServices(Cell(ask, fp, tc, ts, tl, tm), t, base(ask, fp)) = Cell(ask, fp, tc, t, tl, tm)
<1> DEFINE b == base(ask, fp)
           g == Cell(ask, fp, tc, ts, tl, tm)
           lv == LevelsIn(tl, b)
           sv == ServicesIn(t, b)
           er == ErrorsIn(t, b)
           nm == NamedIn(tm, b, fp)
           c == Total(tc, b)
           i == IdsIn(tc, b)
           f == FirstIn(tc, b)
           la == LastIn(tc, b)
<1>1. WithServices(g, t, b) = SetServices(g, sv, er)
  BY DEF WithServices, SetServices, ServicesIn, ErrorsIn
<1>2. /\ g = Row(c, i, f, la, lv, ServicesIn(ts, b), ErrorsIn(ts, b), nm)
      /\ Cell(ask, fp, tc, t, tl, tm) = Row(c, i, f, la, lv, sv, er, nm)
  BY DEF Cell
<1> HIDE DEF b, g, lv, sv, er, nm, c, i, f, la
<1>3. WithServices(g, t, b) = Row(c, i, f, la, lv, sv, er, nm)
  BY <1>1, <1>2, RowChanged
<1> QED
  BY <1>2, <1>3 DEF b, g

LEMMA LevelsCell ==
  ASSUME NEW ask, NEW fp, NEW t, NEW tc, NEW ts, NEW tl, NEW tm
  PROVE  WithLevels(Cell(ask, fp, tc, ts, tl, tm), t, base(ask, fp)) = Cell(ask, fp, tc, ts, t, tm)
<1> DEFINE b == base(ask, fp)
           g == Cell(ask, fp, tc, ts, tl, tm)
           lv == LevelsIn(t, b)
           sv == ServicesIn(ts, b)
           er == ErrorsIn(ts, b)
           nm == NamedIn(tm, b, fp)
           c == Total(tc, b)
           i == IdsIn(tc, b)
           f == FirstIn(tc, b)
           la == LastIn(tc, b)
<1>1. WithLevels(g, t, b) = SetLevels(g, lv)
  BY DEF WithLevels, SetLevels, LevelsIn
<1>2. /\ g = Row(c, i, f, la, LevelsIn(tl, b), sv, er, nm)
      /\ Cell(ask, fp, tc, ts, t, tm) = Row(c, i, f, la, lv, sv, er, nm)
  BY DEF Cell
<1> HIDE DEF b, g, lv, sv, er, nm, c, i, f, la
<1>3. WithLevels(g, t, b) = Row(c, i, f, la, lv, sv, er, nm)
  BY <1>1, <1>2, RowChanged
<1> QED
  BY <1>2, <1>3 DEF b, g

LEMMA MessageCell ==
  ASSUME NEW ask, NEW fp, NEW t, NEW tc, NEW ts, NEW tl, NEW tm, NamedIn(t, base(ask, fp), fp)
  PROVE  WithMessage(Cell(ask, fp, tc, ts, tl, tm)) = Cell(ask, fp, tc, ts, tl, t)
<1> DEFINE b == base(ask, fp)
           g == Cell(ask, fp, tc, ts, tl, tm)
           lv == LevelsIn(tl, b)
           sv == ServicesIn(ts, b)
           er == ErrorsIn(ts, b)
           nm == NamedIn(tm, b, fp)
           yes == TRUE
           c == Total(tc, b)
           i == IdsIn(tc, b)
           f == FirstIn(tc, b)
           la == LastIn(tc, b)
<1>1. WithMessage(g) = SetNamed(g, yes)
  BY DEF WithMessage, SetNamed
<1>2. NamedIn(t, b, fp) = yes
  BY DEF NamedIn
<1>3. /\ g = Row(c, i, f, la, lv, sv, er, nm)
      /\ Cell(ask, fp, tc, ts, tl, t) = Row(c, i, f, la, lv, sv, er, NamedIn(t, b, fp))
  BY DEF Cell
<1> HIDE DEF b, g, lv, sv, er, nm, yes, c, i, f, la
<1>4. WithMessage(g) = Row(c, i, f, la, lv, sv, er, yes)
  BY <1>1, <1>3, RowChanged
<1> QED
  BY <1>2, <1>3, <1>4 DEF b, g

\* The lines three of the queries read.
SvcKinds(ask) == {k \in window(ask) : k.svc # ""}
LvlKinds(ask) == {k \in window(ask) : k.lvl # ""}
MsgKinds(ask) == {k \in window(ask) : FpMessage[k.fp] # "none"}

LEMMA CountsUnseen ==
  ASSUME NEW ask, NEW fp, NEW t \in Tabled, NEW ts, NEW tl, NEW tm, fp \notin GroupsOf(t, window(ask))
  PROVE  /\ Cell(ask, fp, t, ts, tl, tm) = Cell(ask, fp, Zero, ts, tl, tm)
         /\ Present(t, base(ask, fp)) = {}
<1> DEFINE b == base(ask, fp)
<1>1. b \subseteq RowKinds /\ Present(t, b) = {} /\ Present(Zero, b) = {}
  BY BaseIs, ZeroIs DEF GroupsOf, Present
<1>2. Total(t, b) = 0 /\ Total(Zero, b) = 0
  BY <1>1, NothingThere
<1>3. /\ IdsIn(t, b) = IdsIn(Zero, b) /\ FirstIn(t, b) = FirstIn(Zero, b)
      /\ LastIn(t, b) = LastIn(Zero, b)
  BY <1>1, <1>2 DEF IdsIn, FirstIn, LastIn, StampsIn
<1> HIDE DEF b
<1> QED
  BY <1>1, <1>2, <1>3 DEF Cell, b

LEMMA ServicesUnseen ==
  ASSUME NEW ask, NEW fp, NEW t \in Tabled, NEW tc, NEW tl, NEW tm,
         fp \notin GroupsOf(t, SvcKinds(ask))
  PROVE  Cell(ask, fp, tc, t, tl, tm) = Cell(ask, fp, tc, Zero, tl, tm)
<1> DEFINE b == base(ask, fp)
           of(s) == {k \in b : k.svc = s}
           failed(s) == {k \in b : k.svc = s /\ k.lvl \in Errors}
<1>1. ASSUME NEW s \in Svcs
      PROVE  Total(t, of(s)) = Total(Zero, of(s)) /\ Total(t, failed(s)) = Total(Zero, failed(s))
  <2>1. of(s) \subseteq RowKinds /\ failed(s) \subseteq RowKinds /\ failed(s) \subseteq of(s)
    BY BaseIs
  <2>2. s # ""
    BY DEF Svcs
  <2>3. ASSUME NEW k \in of(s) PROVE ~(t[k] > 0)
    <3>1. k \in window(ask) /\ k.svc # "" /\ k.fp = fp
      BY <2>2, BaseIs
    <3> QED
      BY <3>1 DEF GroupsOf, Present, SvcKinds
  <2> HIDE DEF of, failed
  <2>4. Present(t, of(s)) = {} /\ Present(t, failed(s)) = {}
    BY <2>1, <2>3 DEF Present
  <2>5. Total(t, of(s)) = 0 /\ Total(Zero, of(s)) = 0
    BY <2>1, <2>4, NothingThere
  <2>6. Total(t, failed(s)) = 0 /\ Total(Zero, failed(s)) = 0
    BY <2>1, <2>4, NothingThere
  <2> QED
    BY <2>5, <2>6
<1>2. ServicesIn(t, b) = ServicesIn(Zero, b) /\ ErrorsIn(t, b) = ErrorsIn(Zero, b)
  BY <1>1 DEF ServicesIn, ErrorsIn
<1> HIDE DEF b
<1> QED
  BY <1>2 DEF Cell, b

LEMMA LevelsUnseen ==
  ASSUME NEW ask, NEW fp, NEW t \in Tabled, NEW tc, NEW ts, NEW tm,
         fp \notin GroupsOf(t, LvlKinds(ask))
  PROVE  Cell(ask, fp, tc, ts, t, tm) = Cell(ask, fp, tc, ts, Zero, tm)
<1> DEFINE b == base(ask, fp)
           of(l) == {k \in b : k.lvl = l}
<1>1. ASSUME NEW l \in Lvls PROVE Total(t, of(l)) = Total(Zero, of(l))
  <2>1. of(l) \subseteq RowKinds
    BY BaseIs
  <2>2. l # ""
    BY DEF Lvls
  <2>3. ASSUME NEW k \in of(l) PROVE ~(t[k] > 0)
    <3>1. k \in window(ask) /\ k.lvl # "" /\ k.fp = fp
      BY <2>2, BaseIs
    <3> QED
      BY <3>1 DEF GroupsOf, Present, LvlKinds
  <2> HIDE DEF of
  <2>4. Present(t, of(l)) = {}
    BY <2>3 DEF Present
  <2>5. Total(t, of(l)) = 0 /\ Total(Zero, of(l)) = 0
    BY <2>1, <2>4, NothingThere
  <2> QED
    BY <2>5
<1>2. LevelsIn(t, b) = LevelsIn(Zero, b)
  BY <1>1 DEF LevelsIn
<1> HIDE DEF b
<1> QED
  BY <1>2 DEF Cell, b

LEMMA MessagesUnseen ==
  ASSUME NEW ask, NEW fp, NEW t \in Tabled, NEW tc, NEW ts, NEW tl,
         fp \notin GroupsOf(t, MsgKinds(ask))
  PROVE  Cell(ask, fp, tc, ts, tl, t) = Cell(ask, fp, tc, ts, tl, Zero)
<1> DEFINE b == base(ask, fp)
<1>1. ~NamedIn(t, b, fp)
  <2> SUFFICES ASSUME FpMessage[fp] # "none", NEW k \in b, t[k] > 0 PROVE FALSE
    BY DEF Present, NamedIn
  <2>1. k \in window(ask) /\ k.fp = fp
    BY BaseIs
  <2> QED
    BY <2>1 DEF GroupsOf, Present, MsgKinds
<1>2. ~NamedIn(Zero, b, fp)
  BY BaseIs, ZeroIs DEF NamedIn
<1>3. NamedIn(t, b, fp) = NamedIn(Zero, b, fp)
  BY <1>1, <1>2 DEF NamedIn
<1> HIDE DEF b
<1> QED
  BY <1>3 DEF Cell, b

\* A query keeps the groups it has no row for, fills those it has one for from its
\* table, and would have nothing to fill elsewhere.
Keeps(groups, rows, new) == \A fp \in DOMAIN groups : fp \notin rows => new[fp] = groups[fp]
Filled(ask, rows, new, tc, ts, tl, tm) == \A fp \in rows : new[fp] = Cell(ask, fp, tc, ts, tl, tm)
NoMore(ask, rows, tc, ts, tl, tm, us, ul, um) ==
  \A fp \in Fps : fp \notin rows => Cell(ask, fp, tc, us, ul, um) = Cell(ask, fp, tc, ts, tl, tm)

LEMMA TornStep ==
  ASSUME NEW ask, NEW groups, NEW seen, NEW rows, NEW new, NEW u, u \in seen,
         NEW tc, NEW ts, NEW tl, NEW tm, NEW us, NEW ul, NEW um,
         Torn(ask, groups, seen, tc, ts, tl, tm),
         rows \subseteq GroupsOf(u, window(ask)),
         IsTable(new), DOMAIN new = DOMAIN groups \cup rows,
         Keeps(groups, rows, new), Filled(ask, rows, new, tc, us, ul, um),
         NoMore(ask, rows, tc, ts, tl, tm, us, ul, um)
  PROVE  Torn(ask, new, seen, tc, us, ul, um)
<1>1. /\ DOMAIN groups \subseteq Fps
      /\ \A fp \in Fps : GroupAt(groups, fp) = Cell(ask, fp, tc, ts, tl, tm)
      /\ GroupsOf(tc, window(ask)) \subseteq DOMAIN groups
      /\ \A fp \in DOMAIN groups : \E t \in seen : fp \in GroupsOf(t, window(ask))
  BY DEF Torn
<1>2. rows \subseteq Fps
  BY BaseIs DEF GroupsOf, Present
<1>3. DOMAIN new = DOMAIN groups \cup rows
  OBVIOUS
<1>4. ASSUME NEW fp \in Fps PROVE GroupAt(new, fp) = Cell(ask, fp, tc, us, ul, um)
  <2>1. CASE fp \in rows
    BY <1>3, <2>1 DEF GroupAt, Filled
  <2>2. CASE fp \notin rows
    <3>1. GroupAt(new, fp) = GroupAt(groups, fp)
      BY <1>3, <2>2 DEF GroupAt, Keeps
    <3> QED
      BY <1>1, <2>2, <3>1 DEF NoMore
  <2> QED
    BY <2>1, <2>2
<1>5. GroupsOf(tc, window(ask)) \subseteq DOMAIN new
  BY <1>1, <1>3
<1>6. \A fp \in DOMAIN new : \E t \in seen : fp \in GroupsOf(t, window(ask))
  BY <1>1, <1>3
<1> QED
  BY <1>1, <1>2, <1>3, <1>4, <1>5, <1>6 DEF Torn

\* The four queries on the groups, each with the table it sees.
CountsStep(ask, u) == [fp \in GroupsOf(u, window(ask)) |-> WithCounts(EmptyGroup, u, base(ask, fp))]
Revised(groups, parts) ==
  [fp \in DOMAIN groups \cup DOMAIN parts |-> IF fp \in DOMAIN parts THEN parts[fp] ELSE groups[fp]]
ServicesPart(ask, groups, u) ==
  [fp \in GroupsOf(u, SvcKinds(ask)) |->
     WithServices(GroupAt(groups, fp), u, base(ask, fp))]
LevelsPart(ask, groups, u) ==
  [fp \in GroupsOf(u, LvlKinds(ask)) |->
     WithLevels(GroupAt(groups, fp), u, base(ask, fp))]
MessagesPart(ask, groups, u) ==
  [fp \in GroupsOf(u, MsgKinds(ask)) |-> WithMessage(GroupAt(groups, fp))]

LEMMA RevisedIs ==
  ASSUME NEW groups, NEW parts
  PROVE  /\ IsTable(Revised(groups, parts)) /\ Keeps(groups, DOMAIN parts, Revised(groups, parts))
         /\ DOMAIN Revised(groups, parts) = DOMAIN groups \cup DOMAIN parts
         /\ \A fp \in DOMAIN parts : Revised(groups, parts)[fp] = parts[fp]
  BY DEF Revised, IsTable, Keeps

LEMMA TornCounts ==
  ASSUME NEW ask, NEW u \in Tabled
  PROVE  Torn(ask, CountsStep(ask, u), {u}, u, Zero, Zero, Zero)
<1> DEFINE new == CountsStep(ask, u)
           rows == GroupsOf(u, window(ask))
<1>1. /\ IsTable(new) /\ DOMAIN new = rows
      /\ \A fp \in rows : new[fp] = WithCounts(EmptyGroup, u, base(ask, fp))
  BY DEF CountsStep, IsTable
<1>2. rows \subseteq Fps
  BY BaseIs DEF GroupsOf, Present
<1> HIDE DEF new
<1>3. ASSUME NEW fp \in Fps PROVE GroupAt(new, fp) = Cell(ask, fp, u, Zero, Zero, Zero)
  <2>1. CASE fp \in rows
    <3>1. GroupAt(new, fp) = WithCounts(Cell(ask, fp, Zero, Zero, Zero, Zero), u, base(ask, fp))
      BY <1>1, <2>1, EmptyCell DEF GroupAt
    <3> QED
      BY <3>1, CountsCell
  <2>2. CASE fp \notin rows
    <3>1. GroupAt(new, fp) = Cell(ask, fp, Zero, Zero, Zero, Zero)
      BY <1>1, <2>2, EmptyCell DEF GroupAt
    <3>2. Cell(ask, fp, u, Zero, Zero, Zero) = Cell(ask, fp, Zero, Zero, Zero, Zero)
      BY <2>2, CountsUnseen
    <3> QED
      BY <3>1, <3>2
  <2> QED
    BY <2>1, <2>2
<1> QED
  BY <1>1, <1>2, <1>3 DEF Torn, new

LEMMA TornServices ==
  ASSUME NEW ask, NEW groups, NEW seen, NEW u \in Tabled, u \in seen, NEW tc,
         Torn(ask, groups, seen, tc, Zero, Zero, Zero)
  PROVE  Torn(ask, Revised(groups, ServicesPart(ask, groups, u)), seen, tc, u, Zero, Zero)
<1> DEFINE new == Revised(groups, ServicesPart(ask, groups, u))
           parts == ServicesPart(ask, groups, u)
           rows == GroupsOf(u, SvcKinds(ask))
<1>1. DOMAIN parts = rows /\ \A fp \in rows : parts[fp] = WithServices(GroupAt(groups, fp), u, base(ask, fp))
  BY DEF ServicesPart
<1>2. rows \subseteq GroupsOf(u, window(ask)) /\ rows \subseteq Fps
  <2> SUFFICES ASSUME NEW fp \in rows PROVE fp \in GroupsOf(u, window(ask)) /\ fp \in Fps
    OBVIOUS
  <2>1. PICK k \in SvcKinds(ask) : u[k] > 0 /\ fp = k.fp
    BY DEF GroupsOf, Present
  <2>2. k \in window(ask) /\ k.fp \in Fps
    BY BaseIs DEF SvcKinds
  <2> QED
    BY <2>1, <2>2 DEF GroupsOf, Present
<1>8. new = Revised(groups, parts)
  OBVIOUS
<1> HIDE DEF parts, rows, new
<1>3. /\ IsTable(new) /\ DOMAIN new = DOMAIN groups \cup DOMAIN parts
      /\ Keeps(groups, DOMAIN parts, new) /\ \A fp \in DOMAIN parts : new[fp] = parts[fp]
  BY <1>8, RevisedIs
<1>4. ASSUME NEW fp \in rows PROVE new[fp] = Cell(ask, fp, tc, u, Zero, Zero)
  <2>1. GroupAt(groups, fp) = Cell(ask, fp, tc, Zero, Zero, Zero)
    BY <1>2, <1>4 DEF Torn
  <2>2. new[fp] = WithServices(GroupAt(groups, fp), u, base(ask, fp))
    BY <1>1, <1>3
  <2> QED
    BY <2>1, <2>2, ServicesCell
<1>5. ASSUME NEW fp \in Fps, fp \notin rows
      PROVE  Cell(ask, fp, tc, u, Zero, Zero) = Cell(ask, fp, tc, Zero, Zero, Zero)
  BY <1>5, ServicesUnseen DEF rows
<1>6. Filled(ask, rows, new, tc, u, Zero, Zero)
  BY <1>4 DEF Filled
<1>7. NoMore(ask, rows, tc, Zero, Zero, Zero, u, Zero, Zero)
  BY <1>5 DEF NoMore
<1>9. DOMAIN new = DOMAIN groups \cup rows /\ Keeps(groups, rows, new) /\ IsTable(new)
  BY <1>1, <1>3
<1>10. Torn(ask, new, seen, tc, u, Zero, Zero)
  BY <1>2, <1>6, <1>7, <1>9, TornStep
<1> QED
  BY <1>10 DEF new

LEMMA TornLevels ==
  ASSUME NEW ask, NEW groups, NEW seen, NEW u \in Tabled, u \in seen, NEW tc, NEW ts,
         Torn(ask, groups, seen, tc, ts, Zero, Zero)
  PROVE  Torn(ask, Revised(groups, LevelsPart(ask, groups, u)), seen, tc, ts, u, Zero)
<1> DEFINE new == Revised(groups, LevelsPart(ask, groups, u))
           parts == LevelsPart(ask, groups, u)
           rows == GroupsOf(u, LvlKinds(ask))
<1>1. DOMAIN parts = rows /\ \A fp \in rows : parts[fp] = WithLevels(GroupAt(groups, fp), u, base(ask, fp))
  BY DEF LevelsPart
<1>2. rows \subseteq GroupsOf(u, window(ask)) /\ rows \subseteq Fps
  <2> SUFFICES ASSUME NEW fp \in rows PROVE fp \in GroupsOf(u, window(ask)) /\ fp \in Fps
    OBVIOUS
  <2>1. PICK k \in LvlKinds(ask) : u[k] > 0 /\ fp = k.fp
    BY DEF GroupsOf, Present
  <2>2. k \in window(ask) /\ k.fp \in Fps
    BY BaseIs DEF LvlKinds
  <2> QED
    BY <2>1, <2>2 DEF GroupsOf, Present
<1>8. new = Revised(groups, parts)
  OBVIOUS
<1> HIDE DEF parts, rows, new
<1>3. /\ IsTable(new) /\ DOMAIN new = DOMAIN groups \cup DOMAIN parts
      /\ Keeps(groups, DOMAIN parts, new) /\ \A fp \in DOMAIN parts : new[fp] = parts[fp]
  BY <1>8, RevisedIs
<1>4. ASSUME NEW fp \in rows PROVE new[fp] = Cell(ask, fp, tc, ts, u, Zero)
  <2>1. GroupAt(groups, fp) = Cell(ask, fp, tc, ts, Zero, Zero)
    BY <1>2, <1>4 DEF Torn
  <2>2. new[fp] = WithLevels(GroupAt(groups, fp), u, base(ask, fp))
    BY <1>1, <1>3
  <2> QED
    BY <2>1, <2>2, LevelsCell
<1>5. ASSUME NEW fp \in Fps, fp \notin rows
      PROVE  Cell(ask, fp, tc, ts, u, Zero) = Cell(ask, fp, tc, ts, Zero, Zero)
  BY <1>5, LevelsUnseen DEF rows
<1>6. Filled(ask, rows, new, tc, ts, u, Zero)
  BY <1>4 DEF Filled
<1>7. NoMore(ask, rows, tc, ts, Zero, Zero, ts, u, Zero)
  BY <1>5 DEF NoMore
<1>9. DOMAIN new = DOMAIN groups \cup rows /\ Keeps(groups, rows, new) /\ IsTable(new)
  BY <1>1, <1>3
<1>10. Torn(ask, new, seen, tc, ts, u, Zero)
  BY <1>2, <1>6, <1>7, <1>9, TornStep
<1> QED
  BY <1>10 DEF new

LEMMA TornMessages ==
  ASSUME NEW ask, NEW groups, NEW seen, NEW u \in Tabled, u \in seen, NEW tc, NEW ts, NEW tl,
         Torn(ask, groups, seen, tc, ts, tl, Zero)
  PROVE  Torn(ask, Revised(groups, MessagesPart(ask, groups, u)), seen, tc, ts, tl, u)
<1> DEFINE new == Revised(groups, MessagesPart(ask, groups, u))
           parts == MessagesPart(ask, groups, u)
           rows == GroupsOf(u, MsgKinds(ask))
<1>1. DOMAIN parts = rows /\ \A fp \in rows : parts[fp] = WithMessage(GroupAt(groups, fp))
  BY DEF MessagesPart
<1>2. rows \subseteq GroupsOf(u, window(ask)) /\ rows \subseteq Fps
  <2> SUFFICES ASSUME NEW fp \in rows PROVE fp \in GroupsOf(u, window(ask)) /\ fp \in Fps
    OBVIOUS
  <2>1. PICK k \in MsgKinds(ask) : u[k] > 0 /\ fp = k.fp
    BY DEF GroupsOf, Present
  <2>2. k \in window(ask) /\ k.fp \in Fps
    BY BaseIs DEF MsgKinds
  <2> QED
    BY <2>1, <2>2 DEF GroupsOf, Present
<1>11. ASSUME NEW fp \in rows PROVE NamedIn(u, base(ask, fp), fp)
  <2>1. PICK k \in window(ask) : FpMessage[k.fp] # "none" /\ u[k] > 0 /\ fp = k.fp
    BY DEF GroupsOf, Present, MsgKinds
  <2> QED
    BY <2>1, BaseIs DEF NamedIn, Present
<1>8. new = Revised(groups, parts)
  OBVIOUS
<1> HIDE DEF parts, rows, new
<1>3. /\ IsTable(new) /\ DOMAIN new = DOMAIN groups \cup DOMAIN parts
      /\ Keeps(groups, DOMAIN parts, new) /\ \A fp \in DOMAIN parts : new[fp] = parts[fp]
  BY <1>8, RevisedIs
<1>4. ASSUME NEW fp \in rows PROVE new[fp] = Cell(ask, fp, tc, ts, tl, u)
  <2>1. GroupAt(groups, fp) = Cell(ask, fp, tc, ts, tl, Zero)
    BY <1>2, <1>4 DEF Torn
  <2>2. new[fp] = WithMessage(GroupAt(groups, fp))
    BY <1>1, <1>3
  <2> QED
    BY <1>11, <2>1, <2>2, MessageCell
<1>5. ASSUME NEW fp \in Fps, fp \notin rows
      PROVE  Cell(ask, fp, tc, ts, tl, u) = Cell(ask, fp, tc, ts, tl, Zero)
  BY <1>5, MessagesUnseen DEF rows
<1>6. Filled(ask, rows, new, tc, ts, tl, u)
  BY <1>4 DEF Filled
<1>7. NoMore(ask, rows, tc, ts, tl, Zero, ts, tl, u)
  BY <1>5 DEF NoMore
<1>9. DOMAIN new = DOMAIN groups \cup rows /\ Keeps(groups, rows, new) /\ IsTable(new)
  BY <1>1, <1>3
<1>10. Torn(ask, new, seen, tc, ts, tl, u)
  BY <1>2, <1>6, <1>7, <1>9, TornStep
<1> QED
  BY <1>10 DEF new

LEMMA TornStill ==
  ASSUME NEW ask, NEW groups, NEW seen, NEW more, seen \subseteq more, NEW tc, NEW ts, NEW tl, NEW tm,
         Torn(ask, groups, seen, tc, ts, tl, tm)
  PROVE  Torn(ask, groups, more, tc, ts, tl, tm)
  BY DEF Torn
-----------------------------------------------------------------------------
(* What the queries have aggregated.                                       *)

\* Lines are only added, so a later query sees what an earlier one saw.
AfterCounts(ask, groups, seen) == \E tc \in seen : Torn(ask, groups, seen, tc, Zero, Zero, Zero)
AfterServices(ask, groups, seen) == \E tc, ts \in seen : Torn(ask, groups, seen, tc, ts, Zero, Zero)
AfterLevels(ask, groups, seen) ==
  \E tc, ts, tl \in seen : Below(ts, tl) /\ Torn(ask, groups, seen, tc, ts, tl, Zero)
AfterMessages(ask, groups, seen) ==
  \E tc, ts, tl, tm \in seen : Below(ts, tl) /\ Torn(ask, groups, seen, tc, ts, tl, tm)

Queried == {"baseline", "rank", "clustered", "triggers", "summary", "done"}
Steps == {"counts", "services", "levels", "messages"} \cup Queried

RunShape ==
  clu = [pc |-> clu.pc, ask |-> clu.ask, groups |-> clu.groups, baseline |-> clu.baseline,
         ranked |-> clu.ranked, clusters |-> clu.clusters, seen |-> clu.seen, inserts |-> clu.inserts]

SeenTables ==
  /\ logTable \in Tabled /\ clu.seen \subseteq Tabled /\ IsFiniteSet(clu.seen)
  /\ clu.pc \in Steps /\ clu.inserts \in Nat
  /\ clu.pc # "counts" => logTable \in clu.seen /\ \A t \in clu.seen : Below(t, logTable)
  /\ clu.pc # "counts" /\ clu.inserts = 0 => clu.seen = {logTable}

SeenGroups ==
  /\ clu.pc = "counts" => DOMAIN clu.groups = {}
  /\ clu.pc = "services" => AfterCounts(clu.ask, clu.groups, clu.seen)
  /\ clu.pc = "levels" => AfterServices(clu.ask, clu.groups, clu.seen)
  /\ clu.pc = "messages" => AfterLevels(clu.ask, clu.groups, clu.seen)
  /\ clu.pc \in Queried => AfterMessages(clu.ask, clu.groups, clu.seen)

Aggregated == RunShape /\ SeenTables /\ SeenGroups

LEMMA AfterStill ==
  ASSUME NEW ask, NEW groups, NEW seen, NEW more, seen \subseteq more
  PROVE  /\ AfterCounts(ask, groups, seen) => AfterCounts(ask, groups, more)
         /\ AfterServices(ask, groups, seen) => AfterServices(ask, groups, more)
         /\ AfterLevels(ask, groups, seen) => AfterLevels(ask, groups, more)
         /\ AfterMessages(ask, groups, seen) => AfterMessages(ask, groups, more)
<1>1. AfterCounts(ask, groups, seen) => AfterCounts(ask, groups, more)
  BY TornStill DEF AfterCounts
<1>2. AfterServices(ask, groups, seen) => AfterServices(ask, groups, more)
  BY TornStill DEF AfterServices
<1>3. AfterLevels(ask, groups, seen) => AfterLevels(ask, groups, more)
  BY TornStill DEF AfterLevels
<1>4. AfterMessages(ask, groups, seen) => AfterMessages(ask, groups, more)
  BY TornStill DEF AfterMessages
<1> QED
  BY <1>1, <1>2, <1>3, <1>4

\* What each step changes in the run.
LEMMA CommitChanges ==
  ASSUME RunShape, NEW k \in RowKinds, CommitLine(k)
  PROVE  /\ RunShape' /\ logTable' = [logTable EXCEPT ![k] = @ + 1]
         /\ clu'.inserts = clu.inserts + 1 /\ clu'.seen = clu.seen \cup {logTable'}
         /\ clu'.pc = clu.pc /\ clu'.ask = clu.ask /\ clu'.groups = clu.groups
         /\ clu'.baseline = clu.baseline /\ clu'.ranked = clu.ranked /\ clu'.clusters = clu.clusters
         /\ clu.pc # "done"
  BY DEF RunShape, CommitLine

LEMMA CountsChanges ==
  ASSUME RunShape, QueryCounts
  PROVE  /\ RunShape' /\ logTable' = logTable
         /\ clu.pc = "counts" /\ clu'.pc = "services" /\ clu'.seen = {logTable}
         /\ clu'.groups = CountsStep(clu.ask, logTable)
         /\ clu'.ask = clu.ask /\ clu'.inserts = clu.inserts
         /\ clu'.baseline = clu.baseline /\ clu'.ranked = clu.ranked /\ clu'.clusters = clu.clusters
<1> DEFINE g == CountsStep(clu.ask, logTable)
<1>1. /\ clu' = [clu EXCEPT !.pc = "services", !.seen = {logTable}, !.groups = g]
      /\ clu.pc = "counts" /\ logTable' = logTable
  BY DEF QueryCounts, CountsStep, AtStep
<1> HIDE DEF g
<1>2. /\ RunShape' /\ clu'.pc = "services" /\ clu'.seen = {logTable} /\ clu'.groups = g
      /\ clu'.ask = clu.ask /\ clu'.inserts = clu.inserts
      /\ clu'.baseline = clu.baseline /\ clu'.ranked = clu.ranked /\ clu'.clusters = clu.clusters
  BY <1>1 DEF RunShape
<1> QED
  BY <1>1, <1>2 DEF g

LEMMA ServicesChanges ==
  ASSUME RunShape, QueryServices
  PROVE  /\ RunShape' /\ logTable' = logTable
         /\ clu.pc = "services" /\ clu'.pc = "levels" /\ clu'.seen = clu.seen
         /\ clu'.groups = Revised(clu.groups, ServicesPart(clu.ask, clu.groups, logTable))
         /\ clu'.ask = clu.ask /\ clu'.inserts = clu.inserts
         /\ clu'.baseline = clu.baseline /\ clu'.ranked = clu.ranked /\ clu'.clusters = clu.clusters
<1> DEFINE g == Revised(clu.groups, ServicesPart(clu.ask, clu.groups, logTable))
<1>1. /\ clu' = [clu EXCEPT !.pc = "levels", !.groups = g]
      /\ clu.pc = "services" /\ logTable' = logTable
  BY DEF QueryServices, AtStep, Grouped, Revised, ServicesPart, SvcKinds, group_for, GroupAt
<1> HIDE DEF g
<1>2. /\ RunShape' /\ clu'.pc = "levels" /\ clu'.seen = clu.seen /\ clu'.groups = g
      /\ clu'.ask = clu.ask /\ clu'.inserts = clu.inserts
      /\ clu'.baseline = clu.baseline /\ clu'.ranked = clu.ranked /\ clu'.clusters = clu.clusters
  BY <1>1 DEF RunShape
<1> QED
  BY <1>1, <1>2 DEF g

LEMMA LevelsChanges ==
  ASSUME RunShape, QueryLevels
  PROVE  /\ RunShape' /\ logTable' = logTable
         /\ clu.pc = "levels" /\ clu'.pc = "messages" /\ clu'.seen = clu.seen
         /\ clu'.groups = Revised(clu.groups, LevelsPart(clu.ask, clu.groups, logTable))
         /\ clu'.ask = clu.ask /\ clu'.inserts = clu.inserts
         /\ clu'.baseline = clu.baseline /\ clu'.ranked = clu.ranked /\ clu'.clusters = clu.clusters
<1> DEFINE g == Revised(clu.groups, LevelsPart(clu.ask, clu.groups, logTable))
<1>1. /\ clu' = [clu EXCEPT !.pc = "messages", !.groups = g]
      /\ clu.pc = "levels" /\ logTable' = logTable
  BY DEF QueryLevels, AtStep, Grouped, Revised, LevelsPart, LvlKinds, group_for, GroupAt
<1> HIDE DEF g
<1>2. /\ RunShape' /\ clu'.pc = "messages" /\ clu'.seen = clu.seen /\ clu'.groups = g
      /\ clu'.ask = clu.ask /\ clu'.inserts = clu.inserts
      /\ clu'.baseline = clu.baseline /\ clu'.ranked = clu.ranked /\ clu'.clusters = clu.clusters
  BY <1>1 DEF RunShape
<1> QED
  BY <1>1, <1>2 DEF g

LEMMA MessagesChanges ==
  ASSUME RunShape, QueryMessages
  PROVE  /\ RunShape' /\ logTable' = logTable
         /\ clu.pc = "messages" /\ clu'.seen = clu.seen
         /\ clu'.pc = IF DOMAIN clu'.groups = {} THEN "clustered" ELSE "baseline"
         /\ clu'.groups = Revised(clu.groups, MessagesPart(clu.ask, clu.groups, logTable))
         /\ clu'.ask = clu.ask /\ clu'.inserts = clu.inserts
         /\ clu'.baseline = clu.baseline /\ clu'.ranked = clu.ranked /\ clu'.clusters = clu.clusters
<1> DEFINE g == Revised(clu.groups, MessagesPart(clu.ask, clu.groups, logTable))
           next == IF DOMAIN g = {} THEN "clustered" ELSE "baseline"
<1>1. /\ clu' = [clu EXCEPT !.pc = next, !.groups = g]
      /\ clu.pc = "messages" /\ logTable' = logTable
  BY DEF QueryMessages, AtStep, Grouped, Revised, MessagesPart, MsgKinds, group_for, GroupAt
<1> HIDE DEF g, next
<1>2. /\ RunShape' /\ clu'.pc = next /\ clu'.seen = clu.seen /\ clu'.groups = g
      /\ clu'.ask = clu.ask /\ clu'.inserts = clu.inserts
      /\ clu'.baseline = clu.baseline /\ clu'.ranked = clu.ranked /\ clu'.clusters = clu.clusters
  BY <1>1 DEF RunShape
<1> QED
  BY <1>1, <1>2 DEF g, next

LEMMA BaselineChanges ==
  ASSUME RunShape, QueryBaseline
  PROVE  /\ RunShape' /\ logTable' = logTable
         /\ clu.pc = "baseline" /\ clu'.pc = "rank" /\ clu'.seen = clu.seen /\ clu'.groups = clu.groups
         /\ clu'.ask = clu.ask /\ clu'.inserts = clu.inserts
         /\ clu'.ranked = clu.ranked /\ clu'.clusters = clu.clusters
         /\ clu'.baseline = [fp \in Fps |->
              Total(logTable, {k \in RowKinds : k.fp = fp
                                /\ Matches(clu.ask, k, WinStart - BaselineLen, WinStart)})]
<1> DEFINE b == [fp \in Fps |->
                   Total(logTable, {k \in RowKinds : k.fp = fp
                                     /\ Matches(clu.ask, k, WinStart - BaselineLen, WinStart)})]
<1>1. /\ clu' = [clu EXCEPT !.pc = "rank", !.baseline = b]
      /\ clu.pc = "baseline" /\ logTable' = logTable
  BY DEF QueryBaseline, AtStep
<1> HIDE DEF b
<1>2. /\ RunShape' /\ clu'.pc = "rank" /\ clu'.seen = clu.seen /\ clu'.groups = clu.groups
      /\ clu'.ask = clu.ask /\ clu'.inserts = clu.inserts
      /\ clu'.baseline = b /\ clu'.ranked = clu.ranked /\ clu'.clusters = clu.clusters
  BY <1>1 DEF RunShape
<1> QED
  BY <1>1, <1>2 DEF b

Built(groups, baseline, order) ==
  [i \in DOMAIN order |-> build_cluster_data(order[i], groups[order[i]], baseline[order[i]])]
Ranked(groups, baseline, order, embeds) ==
  ByImportance(IF embeds /\ Len(Built(groups, baseline, order)) >= 2
               THEN merge_semantic_clusters(Built(groups, baseline, order))
               ELSE Built(groups, baseline, order))

LEMMA RankChanges ==
  ASSUME RunShape, NEW order, NEW embeds, RankAndMerge(order, embeds)
  PROVE  /\ RunShape' /\ logTable' = logTable
         /\ clu.pc = "rank" /\ clu'.pc = "clustered" /\ clu'.seen = clu.seen /\ clu'.groups = clu.groups
         /\ clu'.ask = clu.ask /\ clu'.inserts = clu.inserts /\ clu'.baseline = clu.baseline
         /\ order \in SetToSeqs(DOMAIN clu.groups)
         /\ clu'.ranked = Ranked(clu.groups, clu.baseline, order, embeds)
         /\ clu'.clusters = capped(clu'.ranked)
<1> DEFINE r == Ranked(clu.groups, clu.baseline, order, embeds)
           cs == capped(r)
<1>1. /\ clu' = [clu EXCEPT !.pc = "clustered", !.ranked = r, !.clusters = cs]
      /\ clu.pc = "rank" /\ logTable' = logTable /\ order \in SetToSeqs(DOMAIN clu.groups)
  BY DEF RankAndMerge, AtStep, Ranked, Built
<1> HIDE DEF r, cs
<1>2. /\ RunShape' /\ clu'.pc = "clustered" /\ clu'.seen = clu.seen /\ clu'.groups = clu.groups
      /\ clu'.ask = clu.ask /\ clu'.inserts = clu.inserts
      /\ clu'.baseline = clu.baseline /\ clu'.ranked = r /\ clu'.clusters = cs
  BY <1>1 DEF RunShape
<1> QED
  BY <1>1, <1>2 DEF r, cs

\* The steps of the explanation only move the run on.
Moved(from, to) ==
  /\ logTable' = logTable /\ clu.pc = from /\ clu'.pc = to /\ clu'.seen = clu.seen
  /\ clu'.groups = clu.groups /\ clu'.ask = clu.ask /\ clu'.inserts = clu.inserts
  /\ clu'.baseline = clu.baseline /\ clu'.ranked = clu.ranked /\ clu'.clusters = clu.clusters

LEMMA ExplainChanges ==
  ASSUME RunShape
  PROVE  /\ CountLogs => RunShape' /\ Moved("clustered", "triggers")
         /\ \A m : FindTriggers(m) => RunShape' /\ Moved("triggers", "summary")
         /\ \A p, llm : Summarize(p, llm) => RunShape' /\ Moved("summary", "done")
<1>1. ASSUME NEW from, NEW to, clu.pc = from, clu' = [clu EXCEPT !.pc = to], logTable' = logTable
      PROVE  RunShape' /\ Moved(from, to)
  BY <1>1 DEF RunShape, Moved
<1>2. CountLogs => RunShape' /\ Moved("clustered", "triggers")
  BY <1>1 DEF CountLogs
<1>3. ASSUME NEW m PROVE FindTriggers(m) => RunShape' /\ Moved("triggers", "summary")
  BY <1>1 DEF FindTriggers
<1>4. ASSUME NEW p, NEW llm PROVE Summarize(p, llm) => RunShape' /\ Moved("summary", "done")
  BY <1>1 DEF Summarize
<1> QED
  BY <1>2, <1>3, <1>4

LEMMA AggregatedInit ==
  ASSUME ExplanationInit PROVE Aggregated
<1>1. /\ logTable \in Tables
      /\ clu \in {[pc |-> "counts", ask |-> a, groups |-> <<>>, baseline |-> [fp \in Fps |-> 0],
                   ranked |-> <<>>, clusters |-> <<>>, seen |-> {}, inserts |-> 0] : a \in Asks}
  BY DEF ExplanationInit, ClusteringInit
<1> DEFINE zeros == [fp \in Fps |-> 0]
<1> HIDE DEF zeros
<1>2. PICK a \in Asks :
        clu = [pc |-> "counts", ask |-> a, groups |-> <<>>, baseline |-> zeros,
               ranked |-> <<>>, clusters |-> <<>>, seen |-> {}, inserts |-> 0]
  BY <1>1 DEF zeros
<1>3. RunShape /\ clu.pc = "counts" /\ clu.groups = <<>> /\ clu.seen = {} /\ clu.inserts = 0
  BY <1>2 DEF RunShape
<1>4. logTable \in Tabled
  BY <1>1, ClusteringConstants DEF Tabled
<1>5. SeenTables
  BY <1>3, <1>4, FS_EmptySet DEF SeenTables, Steps
<1>6. SeenGroups
  BY <1>3 DEF SeenGroups, Queried
<1> QED
  BY <1>3, <1>5, <1>6 DEF Aggregated

LEMMA CommitAggregates ==
  ASSUME Aggregated, NEW k \in RowKinds, CommitLine(k)
  PROVE  Aggregated'
<1>1. RunShape /\ SeenTables /\ SeenGroups
  BY DEF Aggregated
<1>2. /\ RunShape' /\ logTable' = [logTable EXCEPT ![k] = @ + 1]
      /\ clu'.inserts = clu.inserts + 1 /\ clu'.seen = clu.seen \cup {logTable'}
      /\ clu'.pc = clu.pc /\ clu'.ask = clu.ask /\ clu'.groups = clu.groups
  BY <1>1, CommitChanges
<1>3. logTable' \in Tabled /\ Below(logTable, logTable') /\ Below(logTable', logTable')
  BY <1>1, <1>2 DEF Tabled, Below, SeenTables
<1>4. ASSUME NEW t \in Tabled, Below(t, logTable) PROVE Below(t, logTable')
  <2>1. ASSUME NEW j \in RowKinds PROVE t[j] <= logTable'[j]
    <3>1. t[j] \in Nat /\ logTable[j] \in Nat /\ logTable'[j] \in Nat
      BY <1>1, <1>3 DEF Tabled, SeenTables
    <3>2. t[j] <= logTable[j] /\ logTable[j] <= logTable'[j]
      BY <1>3, <1>4 DEF Below
    <3> QED
      BY <3>1, <3>2
  <2> QED
    BY <2>1 DEF Below
<1>5. SeenTables'
  <2>4. clu.seen \subseteq Tabled /\ IsFiniteSet(clu.seen) /\ clu.pc \in Steps /\ clu.inserts \in Nat
    BY <1>1 DEF SeenTables
  <2>1. clu'.pc \in Steps /\ clu'.inserts \in Nat /\ clu'.inserts # 0
    BY <1>2, <2>4
  <2>5. clu'.seen \subseteq Tabled
    BY <1>2, <1>3, <2>4
  <2>2. IsFiniteSet(clu'.seen)
    <3>1. IsFiniteSet(clu.seen \cup {logTable'})
      BY <2>4, FS_AddElement
    <3> QED
      BY <1>2, <3>1
  <2>3. clu'.pc # "counts" => logTable' \in clu'.seen /\ \A t \in clu'.seen : Below(t, logTable')
    BY <1>1, <1>2, <1>3, <1>4 DEF SeenTables
  <2> QED
    BY <1>3, <2>1, <2>2, <2>3, <2>5 DEF SeenTables
<1>6. SeenGroups'
  <2>1. clu.seen \subseteq clu'.seen
    BY <1>2
  <2> QED
    BY <1>1, <1>2, <2>1, AfterStill DEF SeenGroups
<1> QED
  BY <1>2, <1>5, <1>6 DEF Aggregated

LEMMA QueryAggregates ==
  ASSUME Aggregated, QueryCounts \/ QueryServices \/ QueryLevels \/ QueryMessages
  PROVE  Aggregated'
<1>1. RunShape /\ SeenTables /\ SeenGroups
  BY DEF Aggregated
<1>2. logTable \in Tabled /\ Below(logTable, logTable)
  BY <1>1 DEF SeenTables, Below, Tabled
<1>3. CASE QueryCounts
  <2>1. /\ RunShape' /\ logTable' = logTable
        /\ clu.pc = "counts" /\ clu'.pc = "services" /\ clu'.seen = {logTable}
        /\ clu'.groups = CountsStep(clu.ask, logTable)
        /\ clu'.ask = clu.ask /\ clu'.inserts = clu.inserts
    BY <1>1, <1>3, CountsChanges
  <2>2. AfterCounts(clu'.ask, clu'.groups, clu'.seen)
    BY <1>2, <2>1, TornCounts DEF AfterCounts
  <2>3. SeenGroups'
    BY <2>1, <2>2 DEF SeenGroups, Queried
  <2>4. SeenTables'
    BY <1>1, <1>2, <2>1, FS_Singleton DEF SeenTables, Steps
  <2> QED
    BY <2>1, <2>3, <2>4 DEF Aggregated
<1>4. CASE QueryServices
  <2>1. /\ RunShape' /\ logTable' = logTable
        /\ clu.pc = "services" /\ clu'.pc = "levels" /\ clu'.seen = clu.seen
        /\ clu'.groups = Revised(clu.groups, ServicesPart(clu.ask, clu.groups, logTable))
        /\ clu'.ask = clu.ask /\ clu'.inserts = clu.inserts
    BY <1>1, <1>4, ServicesChanges
  <2>2. logTable \in clu.seen /\ AfterCounts(clu.ask, clu.groups, clu.seen)
    BY <1>1, <2>1 DEF SeenTables, SeenGroups
  <2>3. PICK tc \in clu.seen : Torn(clu.ask, clu.groups, clu.seen, tc, Zero, Zero, Zero)
    BY <2>2 DEF AfterCounts
  <2>4. Torn(clu.ask, clu'.groups, clu.seen, tc, logTable, Zero, Zero)
    BY <1>2, <2>1, <2>2, <2>3, TornServices
  <2>5. AfterServices(clu'.ask, clu'.groups, clu'.seen)
    BY <2>1, <2>2, <2>4 DEF AfterServices
  <2>6. SeenGroups'
    BY <2>1, <2>5 DEF SeenGroups, Queried
  <2>7. SeenTables'
    BY <1>1, <2>1 DEF SeenTables, Steps
  <2> QED
    BY <2>1, <2>6, <2>7 DEF Aggregated
<1>5. CASE QueryLevels
  <2>1. /\ RunShape' /\ logTable' = logTable
        /\ clu.pc = "levels" /\ clu'.pc = "messages" /\ clu'.seen = clu.seen
        /\ clu'.groups = Revised(clu.groups, LevelsPart(clu.ask, clu.groups, logTable))
        /\ clu'.ask = clu.ask /\ clu'.inserts = clu.inserts
    BY <1>1, <1>5, LevelsChanges
  <2>2. /\ logTable \in clu.seen /\ AfterServices(clu.ask, clu.groups, clu.seen)
        /\ \A t \in clu.seen : Below(t, logTable)
    BY <1>1, <2>1 DEF SeenTables, SeenGroups
  <2>3. PICK tc \in clu.seen, ts \in clu.seen : Torn(clu.ask, clu.groups, clu.seen, tc, ts, Zero, Zero)
    BY <2>2 DEF AfterServices
  <2>4. Torn(clu.ask, clu'.groups, clu.seen, tc, ts, logTable, Zero)
    BY <1>2, <2>1, <2>2, <2>3, TornLevels
  <2>5. AfterLevels(clu'.ask, clu'.groups, clu'.seen)
    BY <2>1, <2>2, <2>4 DEF AfterLevels
  <2>6. SeenGroups'
    BY <2>1, <2>5 DEF SeenGroups, Queried
  <2>7. SeenTables'
    BY <1>1, <2>1 DEF SeenTables, Steps
  <2> QED
    BY <2>1, <2>6, <2>7 DEF Aggregated
<1>6. CASE QueryMessages
  <2>1. /\ RunShape' /\ logTable' = logTable
        /\ clu.pc = "messages" /\ clu'.seen = clu.seen
        /\ clu'.pc = IF DOMAIN clu'.groups = {} THEN "clustered" ELSE "baseline"
        /\ clu'.groups = Revised(clu.groups, MessagesPart(clu.ask, clu.groups, logTable))
        /\ clu'.ask = clu.ask /\ clu'.inserts = clu.inserts
    BY <1>1, <1>6, MessagesChanges
  <2>2. logTable \in clu.seen /\ AfterLevels(clu.ask, clu.groups, clu.seen)
    BY <1>1, <2>1 DEF SeenTables, SeenGroups
  <2>3. PICK tc \in clu.seen, ts \in clu.seen, tl \in clu.seen :
          Below(ts, tl) /\ Torn(clu.ask, clu.groups, clu.seen, tc, ts, tl, Zero)
    BY <2>2 DEF AfterLevels
  <2>4. Torn(clu.ask, clu'.groups, clu.seen, tc, ts, tl, logTable)
    BY <1>2, <2>1, <2>2, <2>3, TornMessages
  <2>5. AfterMessages(clu'.ask, clu'.groups, clu'.seen)
    BY <2>1, <2>2, <2>3, <2>4 DEF AfterMessages
  <2>6. SeenGroups'
    BY <2>1, <2>5 DEF SeenGroups, Queried
  <2>7. SeenTables'
    BY <1>1, <2>1 DEF SeenTables, Steps, Queried
  <2> QED
    BY <2>1, <2>6, <2>7 DEF Aggregated
<1> QED
  BY <1>3, <1>4, <1>5, <1>6

LEMMA AggregatedNext ==
  ASSUME Aggregated, [ExplanationNext]_explanationVars
  PROVE  Aggregated'
<1>1. RunShape /\ SeenTables /\ SeenGroups
  BY DEF Aggregated
<1>2. ASSUME RunShape', logTable' = logTable, clu'.seen = clu.seen, clu'.inserts = clu.inserts,
             clu'.groups = clu.groups, clu'.ask = clu.ask, clu.pc \in Queried, clu'.pc \in Queried
      PROVE  Aggregated'
  <2>1. SeenTables'
    BY <1>1, <1>2 DEF SeenTables, Steps, Queried
  <2>2. SeenGroups'
    BY <1>1, <1>2 DEF SeenGroups, Queried
  <2> QED
    BY <1>2, <2>1, <2>2 DEF Aggregated
<1>3. ASSUME NEW from \in Queried, NEW to \in Queried, RunShape', Moved(from, to) PROVE Aggregated'
  BY <1>2, <1>3 DEF Moved
<1>4. ASSUME QueryBaseline PROVE Aggregated'
  BY <1>1, <1>2, <1>4, BaselineChanges DEF Queried
<1>5. ASSUME NEW order, NEW embeds, RankAndMerge(order, embeds) PROVE Aggregated'
  BY <1>1, <1>2, <1>5, RankChanges DEF Queried
<1>6. ASSUME ClusteringNext PROVE Aggregated'
  BY <1>4, <1>5, <1>6, CommitAggregates, QueryAggregates DEF ClusteringNext
<1>7. ASSUME CountLogs PROVE Aggregated'
  BY <1>1, <1>3, <1>7, ExplainChanges DEF Queried
<1>8. ASSUME NEW m, FindTriggers(m) PROVE Aggregated'
  BY <1>1, <1>3, <1>8, ExplainChanges DEF Queried
<1>9. ASSUME NEW p, NEW llm, Summarize(p, llm) PROVE Aggregated'
  BY <1>1, <1>3, <1>9, ExplainChanges DEF Queried
<1>10. CASE UNCHANGED explanationVars
  BY <1>1, <1>10 DEF Aggregated, RunShape, SeenTables, SeenGroups, explanationVars, clusteringVars
<1> QED
  BY <1>6, <1>7, <1>8, <1>9, <1>10 DEF ExplanationNext

LEMMA CellFields ==
  ASSUME NEW ask, NEW fp, NEW tc, NEW ts, NEW tl, NEW tm
  PROVE  LET g == Cell(ask, fp, tc, ts, tl, tm)
             b == base(ask, fp)
         IN /\ g.count = Total(tc, b) /\ g.ids = IdsIn(tc, b)
            /\ g.first = FirstIn(tc, b) /\ g.last = LastIn(tc, b)
            /\ g.levels = LevelsIn(tl, b) /\ g.services = ServicesIn(ts, b) /\ g.errors = ErrorsIn(ts, b)
            /\ g.named = NamedIn(tm, b, fp)
  BY DEF Cell, Row

\* What one scan of a table gives.
LEMMA ScanIs ==
  ASSUME NEW ask, NEW t \in Tabled
  PROVE  /\ IsTable(group_rows(t, ask)) /\ DOMAIN group_rows(t, ask) = GroupsOf(t, window(ask))
         /\ \A fp \in Fps : GroupAt(group_rows(t, ask), fp) = Cell(ask, fp, t, t, t, t)
<1> DEFINE o == group_rows(t, ask)
           rows == GroupsOf(t, window(ask))
           Scan(fp) == WithLevels(WithServices(WithCounts(EmptyGroup, t, base(ask, fp)), t, base(ask, fp)),
                                  t, base(ask, fp))
<1>1. /\ IsTable(o) /\ DOMAIN o = rows
      /\ \A fp \in rows : o[fp] = IF FpMessage[fp] # "none" THEN WithMessage(Scan(fp)) ELSE Scan(fp)
  BY DEF group_rows, IsTable
<1> HIDE DEF o
<1>2. ASSUME NEW fp \in Fps PROVE GroupAt(o, fp) = Cell(ask, fp, t, t, t, t)
  <2>1. CASE fp \in rows
    <3>1. WithCounts(EmptyGroup, t, base(ask, fp)) = Cell(ask, fp, t, Zero, Zero, Zero)
      BY EmptyCell, CountsCell
    <3>2. WithServices(Cell(ask, fp, t, Zero, Zero, Zero), t, base(ask, fp)) = Cell(ask, fp, t, t, Zero, Zero)
      BY ServicesCell
    <3>3. WithLevels(Cell(ask, fp, t, t, Zero, Zero), t, base(ask, fp)) = Cell(ask, fp, t, t, t, Zero)
      BY LevelsCell
    <3>4. Scan(fp) = Cell(ask, fp, t, t, t, Zero)
      BY <3>1, <3>2, <3>3
    <3> HIDE DEF Scan
    <3>5. CASE FpMessage[fp] # "none"
      <4>1. NamedIn(t, base(ask, fp), fp)
        <5>1. PICK k \in window(ask) : t[k] > 0 /\ fp = k.fp
          BY <2>1 DEF GroupsOf, Present
        <5> QED
          BY <3>5, <5>1, BaseIs DEF NamedIn, Present
      <4>2. GroupAt(o, fp) = WithMessage(Cell(ask, fp, t, t, t, Zero))
        BY <1>1, <2>1, <3>4, <3>5 DEF GroupAt
      <4> QED
        BY <4>1, <4>2, MessageCell
    <3>6. CASE FpMessage[fp] = "none"
      <4>1. fp \notin GroupsOf(t, MsgKinds(ask))
        BY <3>6 DEF GroupsOf, Present, MsgKinds
      <4>2. GroupAt(o, fp) = Cell(ask, fp, t, t, t, Zero)
        BY <1>1, <2>1, <3>4, <3>6 DEF GroupAt
      <4>3. Cell(ask, fp, t, t, t, t) = Cell(ask, fp, t, t, t, Zero)
        BY <4>1, MessagesUnseen
      <4> QED
        BY <4>2, <4>3
    <3> QED
      BY <3>5, <3>6
  <2>2. CASE fp \notin rows
    <3>1. GroupAt(o, fp) = Cell(ask, fp, Zero, Zero, Zero, Zero)
      BY <1>1, <2>2, EmptyCell DEF GroupAt
    <3>2. /\ fp \notin GroupsOf(t, SvcKinds(ask)) /\ fp \notin GroupsOf(t, LvlKinds(ask))
          /\ fp \notin GroupsOf(t, MsgKinds(ask))
      BY <2>2 DEF GroupsOf, Present, SvcKinds, LvlKinds, MsgKinds
    <3>3. Cell(ask, fp, t, t, t, t) = Cell(ask, fp, t, t, t, Zero)
      BY <3>2, MessagesUnseen
    <3>4. Cell(ask, fp, t, t, t, Zero) = Cell(ask, fp, t, t, Zero, Zero)
      BY <3>2, LevelsUnseen
    <3>5. Cell(ask, fp, t, t, Zero, Zero) = Cell(ask, fp, t, Zero, Zero, Zero)
      BY <3>2, ServicesUnseen
    <3>6. Cell(ask, fp, t, Zero, Zero, Zero) = Cell(ask, fp, Zero, Zero, Zero, Zero)
      BY <2>2, CountsUnseen
    <3> QED
      BY <3>1, <3>3, <3>4, <3>5, <3>6
  <2> QED
    BY <2>1, <2>2
<1> QED
  BY <1>1, <1>2 DEF o

\* The four queries return what one scan would.
LEMMA ScanMatches ==
  ASSUME Aggregated
  PROVE  AggregationMatchesScan
<1> DEFINE oracles == {group_rows(t, clu.ask) : t \in clu.seen}
           GroupIn(o, fp) == IF fp \in DOMAIN o THEN o[fp] ELSE EmptyGroup
<1> SUFFICES ASSUME clu.pc \in {"baseline", "rank"}
             PROVE  /\ Cardinality(clu.seen) = 1 => clu.groups \in oracles
                    /\ \A fp \in DOMAIN clu.groups :
                         /\ \E o \in oracles : fp \in DOMAIN o
                         /\ \E o \in oracles : GroupIn(o, fp).count = clu.groups[fp].count
                         /\ \E o \in oracles : GroupIn(o, fp).services = clu.groups[fp].services
                         /\ \E o \in oracles : GroupIn(o, fp).levels = clu.groups[fp].levels
  BY DEF AggregationMatchesScan
<1>1. clu.seen \subseteq Tabled /\ IsFiniteSet(clu.seen) /\ AfterMessages(clu.ask, clu.groups, clu.seen)
  BY DEF Aggregated, SeenTables, SeenGroups, Queried
<1>2. PICK tc \in clu.seen, ts \in clu.seen, tl \in clu.seen, tm \in clu.seen :
        Torn(clu.ask, clu.groups, clu.seen, tc, ts, tl, tm)
  BY <1>1 DEF AfterMessages
<1>3. /\ IsTable(clu.groups) /\ DOMAIN clu.groups \subseteq Fps
      /\ \A fp \in Fps : GroupAt(clu.groups, fp) = Cell(clu.ask, fp, tc, ts, tl, tm)
      /\ GroupsOf(tc, window(clu.ask)) \subseteq DOMAIN clu.groups
      /\ \A fp \in DOMAIN clu.groups : \E t \in clu.seen : fp \in GroupsOf(t, window(clu.ask))
  BY <1>2 DEF Torn
<1>4. ASSUME Cardinality(clu.seen) = 1 PROVE clu.groups \in oracles
  <2>1. PICK t : clu.seen = {t}
    BY <1>1, <1>4, FS_Singleton
  <2>2. t \in Tabled /\ tc = t /\ ts = t /\ tl = t /\ tm = t
    BY <1>1, <2>1
  <2> DEFINE o == group_rows(t, clu.ask)
  <2>3. /\ IsTable(o) /\ DOMAIN o = GroupsOf(t, window(clu.ask))
        /\ \A fp \in Fps : GroupAt(o, fp) = Cell(clu.ask, fp, t, t, t, t)
    BY <2>2, ScanIs
  <2>4. o \in oracles
    BY <2>1
  <2> HIDE DEF o, oracles
  <2>5. DOMAIN clu.groups = DOMAIN o
    BY <1>3, <2>1, <2>2, <2>3
  <2>6. ASSUME NEW fp \in DOMAIN o PROVE clu.groups[fp] = o[fp]
    <3>1. fp \in Fps /\ fp \in DOMAIN clu.groups
      BY <1>3, <2>5, <2>6
    <3>2. GroupAt(clu.groups, fp) = GroupAt(o, fp)
      BY <1>3, <2>2, <2>3, <3>1
    <3> QED
      BY <2>6, <3>1, <3>2 DEF GroupAt
  <2>7. clu.groups = o
    BY <1>3, <2>3, <2>5, <2>6 DEF IsTable
  <2> QED
    BY <2>4, <2>7
<1>5. ASSUME NEW fp \in DOMAIN clu.groups
      PROVE  /\ \E o \in oracles : fp \in DOMAIN o
             /\ \E o \in oracles : GroupIn(o, fp).count = clu.groups[fp].count
             /\ \E o \in oracles : GroupIn(o, fp).services = clu.groups[fp].services
             /\ \E o \in oracles : GroupIn(o, fp).levels = clu.groups[fp].levels
  <2>1. fp \in Fps /\ clu.groups[fp] = Cell(clu.ask, fp, tc, ts, tl, tm)
    BY <1>3, <1>5 DEF GroupAt
  <2>2. ASSUME NEW t \in clu.seen
        PROVE  /\ group_rows(t, clu.ask) \in oracles
               /\ GroupIn(group_rows(t, clu.ask), fp) = Cell(clu.ask, fp, t, t, t, t)
               /\ DOMAIN group_rows(t, clu.ask) = GroupsOf(t, window(clu.ask))
    <3>1. t \in Tabled
      BY <1>1
    <3>2. GroupAt(group_rows(t, clu.ask), fp) = Cell(clu.ask, fp, t, t, t, t)
      BY <2>1, <3>1, ScanIs
    <3> QED
      BY <3>1, <3>2, ScanIs DEF GroupAt
  <2>3. PICK t \in clu.seen : fp \in GroupsOf(t, window(clu.ask))
    BY <1>3, <1>5
  <2> HIDE DEF oracles, GroupIn
  <2>4. \E o \in oracles : fp \in DOMAIN o
    BY <2>2, <2>3
  <2>5. \E o \in oracles : GroupIn(o, fp).count = clu.groups[fp].count
    <3>1. GroupIn(group_rows(tc, clu.ask), fp).count = clu.groups[fp].count
      BY <2>1, <2>2, CellFields
    <3> QED
      BY <2>2, <3>1
  <2>6. \E o \in oracles : GroupIn(o, fp).services = clu.groups[fp].services
    <3>1. GroupIn(group_rows(ts, clu.ask), fp).services = clu.groups[fp].services
      BY <2>1, <2>2, CellFields
    <3> QED
      BY <2>2, <3>1
  <2>7. \E o \in oracles : GroupIn(o, fp).levels = clu.groups[fp].levels
    <3>1. GroupIn(group_rows(tl, clu.ask), fp).levels = clu.groups[fp].levels
      BY <2>1, <2>2, CellFields
    <3> QED
      BY <2>2, <3>1
  <2> QED
    BY <2>4, <2>5, <2>6, <2>7
<1> QED
  BY <1>4, <1>5
-----------------------------------------------------------------------------
(* From groups to ranked clusters.                                         *)

LEMMA StampsOf ==
  ASSUME NEW t \in Tabled, NEW b, b \subseteq RowKinds
  PROVE  /\ FirstIn(t, b) \in Stamps /\ LastIn(t, b) \in Stamps
         /\ StampsIn(t, b) # {} => FirstIn(t, b) # NoTime
<1> DEFINE T == StampsIn(t, b)
           K == Present(t, b)
<1>1. K \subseteq RowKinds /\ IsFiniteSet(K) /\ \A k \in K : k.at \in Int
  BY KindsFinite, ClusteringConstants DEF Present
<1>2. T \subseteq Int
  BY <1>1 DEF StampsIn
<1>3. [k \in K |-> k.at] \in Surjection(K, T)
  BY DEF Surjection, StampsIn
<1> HIDE DEF K, T
<1>4. IsFiniteSet(T)
  BY <1>1, <1>3, FS_Surjection
<1>5. T # {} => Min(T) \in Int /\ Max(T) \in Int
  BY <1>2, <1>4, Extremes
<1> QED
  BY <1>5, ClusteringConstants DEF FirstIn, LastIn, Stamps, T

LEMMA CellType ==
  ASSUME NEW ask, NEW fp, NEW tc \in Tabled, NEW ts \in Tabled, NEW tl \in Tabled, NEW tm \in Tabled
  PROVE  Cell(ask, fp, tc, ts, tl, tm) \in GroupRows
<1> DEFINE b == base(ask, fp)
<1>1. b \subseteq RowKinds
  BY BaseIs
<1> HIDE DEF b
<1>2. Total(tc, b) \in Nat /\ IdsIn(tc, b) \in Nat
  BY <1>1, TotalIs, ClusteringConstants DEF IdsIn
<1>3. FirstIn(tc, b) \in Stamps /\ LastIn(tc, b) \in Stamps
  BY <1>1, StampsOf
<1>4. LevelsIn(tl, b) \in [Lvls -> Nat]
  <2>1. ASSUME NEW l \in Lvls PROVE Total(tl, {k \in b : k.lvl = l}) \in Nat
    <3>1. {k \in b : k.lvl = l} \subseteq RowKinds
      BY <1>1
    <3> QED
      BY <3>1, TotalIs
  <2> QED
    BY <2>1 DEF LevelsIn
<1>5. ServicesIn(ts, b) \in [Svcs -> Nat]
  <2>1. ASSUME NEW s \in Svcs PROVE Total(ts, {k \in b : k.svc = s}) \in Nat
    <3>1. {k \in b : k.svc = s} \subseteq RowKinds
      BY <1>1
    <3> QED
      BY <3>1, TotalIs
  <2> QED
    BY <2>1 DEF ServicesIn
<1>6. ErrorsIn(ts, b) \in [Svcs -> Nat]
  <2>1. ASSUME NEW s \in Svcs PROVE Total(ts, {k \in b : k.svc = s /\ k.lvl \in Errors}) \in Nat
    <3>1. {k \in b : k.svc = s /\ k.lvl \in Errors} \subseteq RowKinds
      BY <1>1
    <3> QED
      BY <3>1, TotalIs
  <2> QED
    BY <2>1 DEF ErrorsIn
<1>7. NamedIn(tm, b, fp) \in BOOLEAN
  BY DEF NamedIn
<1>8. Cell(ask, fp, tc, ts, tl, tm)
        = Row(Total(tc, b), IdsIn(tc, b), FirstIn(tc, b), LastIn(tc, b), LevelsIn(tl, b), ServicesIn(ts, b),
              ErrorsIn(ts, b), NamedIn(tm, b, fp))
  BY DEF Cell, b
<1> QED
  BY <1>2, <1>3, <1>4, <1>5, <1>6, <1>7, <1>8 DEF Row, GroupRows

\* The services are queried before the levels: a group with errors has an error
\* level.  Counts and first times are of one query.
LEMMA CellSound ==
  ASSUME NEW ask, NEW fp, NEW tc \in Tabled, NEW ts \in Tabled, NEW tl \in Tabled, NEW tm, Below(ts, tl)
  PROVE  LET g == Cell(ask, fp, tc, ts, tl, tm)
         IN /\ (\E s \in Svcs : g.errors[s] > 0) => \E l \in Lvls \cap Errors : g.levels[l] > 0
            /\ g.count > 0 => g.first # NoTime
<1> DEFINE b == base(ask, fp)
           g == Cell(ask, fp, tc, ts, tl, tm)
           failed(s) == {k \in b : k.svc = s /\ k.lvl \in Errors}
           at(l) == {k \in b : k.lvl = l}
<1>1. b \subseteq RowKinds
  BY BaseIs
<1>2. /\ g.count = Total(tc, b) /\ g.first = FirstIn(tc, b)
      /\ g.levels = LevelsIn(tl, b) /\ g.errors = ErrorsIn(ts, b)
  BY CellFields
<1> HIDE DEF b, g
<1>3. ASSUME NEW s \in Svcs, g.errors[s] > 0 PROVE \E l \in Lvls \cap Errors : g.levels[l] > 0
  <2>1. Total(ts, failed(s)) > 0 /\ failed(s) \subseteq RowKinds
    BY <1>1, <1>2, <1>3 DEF ErrorsIn
  <2> HIDE DEF failed
  <2>2. Present(ts, failed(s)) # {}
    BY <2>1, TotalIs
  <2>3. PICK k \in failed(s) : ts[k] > 0
    BY <2>2 DEF Present
  <2>4. k \in b /\ k \in RowKinds /\ k.lvl \in Errors /\ k.lvl # ""
    BY <1>1, <2>3 DEF failed, Errors
  <2>5. k.lvl \in Lvls
    BY <2>4 DEF Lvls
  <2>6. ts[k] \in Nat /\ tl[k] \in Nat /\ ts[k] <= tl[k]
    BY <2>4 DEF Tabled, Below
  <2>10. tl[k] > 0
    BY <2>3, <2>6
  <2>11. k \in at(k.lvl) /\ at(k.lvl) \subseteq RowKinds
    BY <1>1, <2>4
  <2>7. k \in Present(tl, at(k.lvl)) /\ at(k.lvl) \subseteq RowKinds
    BY <2>10, <2>11 DEF Present
  <2> HIDE DEF at
  <2>8. Total(tl, at(k.lvl)) > 0
    BY <2>7, TotalIs
  <2>9. g.levels[k.lvl] > 0
    BY <1>2, <2>5, <2>8 DEF LevelsIn, at
  <2> QED
    BY <2>4, <2>5, <2>9
<1>4. ASSUME g.count > 0 PROVE g.first # NoTime
  <2>1. Present(tc, b) # {}
    BY <1>1, <1>2, <1>4, TotalIs
  <2>2. StampsIn(tc, b) # {}
    BY <2>1 DEF StampsIn
  <2> QED
    BY <1>1, <1>2, <2>2, StampsOf
<1> QED
  BY <1>3, <1>4 DEF g

\* Groups that clusters can be built from.
SoundGroups(groups) ==
  /\ IsTable(groups) /\ DOMAIN groups \subseteq Fps
  /\ \A fp \in DOMAIN groups :
       /\ groups[fp] \in GroupRows
       /\ (\E s \in Svcs : groups[fp].errors[s] > 0) => \E l \in Lvls \cap Errors : groups[fp].levels[l] > 0
       /\ groups[fp].count > 0 => groups[fp].first # NoTime

LEMMA GroupsAreSound ==
  ASSUME Aggregated, clu.pc \in Queried
  PROVE  SoundGroups(clu.groups)
<1>1. clu.seen \subseteq Tabled /\ AfterMessages(clu.ask, clu.groups, clu.seen)
  BY DEF Aggregated, SeenTables, SeenGroups, Queried
<1>2. PICK tc \in clu.seen, ts \in clu.seen, tl \in clu.seen, tm \in clu.seen :
        Below(ts, tl) /\ Torn(clu.ask, clu.groups, clu.seen, tc, ts, tl, tm)
  BY <1>1 DEF AfterMessages
<1>3. tc \in Tabled /\ ts \in Tabled /\ tl \in Tabled /\ tm \in Tabled
  BY <1>1
<1>4. /\ IsTable(clu.groups) /\ DOMAIN clu.groups \subseteq Fps
      /\ \A fp \in Fps : GroupAt(clu.groups, fp) = Cell(clu.ask, fp, tc, ts, tl, tm)
  BY <1>2 DEF Torn
<1>5. ASSUME NEW fp \in DOMAIN clu.groups
      PROVE  /\ clu.groups[fp] \in GroupRows
             /\ (\E s \in Svcs : clu.groups[fp].errors[s] > 0)
                  => \E l \in Lvls \cap Errors : clu.groups[fp].levels[l] > 0
             /\ clu.groups[fp].count > 0 => clu.groups[fp].first # NoTime
  <2>1. clu.groups[fp] = Cell(clu.ask, fp, tc, ts, tl, tm)
    BY <1>4, <1>5 DEF GroupAt
  <2>2. Cell(clu.ask, fp, tc, ts, tl, tm) \in GroupRows
    BY <1>3, CellType
  <2> DEFINE g == Cell(clu.ask, fp, tc, ts, tl, tm)
  <2>3. /\ (\E s \in Svcs : g.errors[s] > 0) => \E l \in Lvls \cap Errors : g.levels[l] > 0
        /\ g.count > 0 => g.first # NoTime
    BY <1>2, <1>3, CellSound
  <2> HIDE DEF g
  <2>4. clu.groups[fp] = g
    BY <2>1 DEF g
  <2> QED
    BY <2>2, <2>3, <2>4 DEF g
<1> QED
  BY <1>4, <1>5 DEF SoundGroups

\* The list cs has one cluster for each group.
FromGroups(cs, groups) ==
  /\ {cs[i].fp : i \in DOMAIN cs} = DOMAIN groups
  /\ \A i \in DOMAIN cs : /\ cs[i].count = groups[cs[i].fp].count
                          /\ cs[i].errors = groups[cs[i].fp].errors
                          /\ cs[i].named = groups[cs[i].fp].named

LEMMA BuildIs ==
  ASSUME NEW fp \in Int, NEW g \in GroupRows, NEW b \in Nat,
         (\E s \in Svcs : g.errors[s] > 0) => \E l \in Lvls \cap Errors : g.levels[l] > 0,
         g.count > 0 => g.first # NoTime
  PROVE  LET c == build_cluster_data(fp, g, b)
         IN /\ Sound(c) /\ c.fp = fp /\ c.merged = {} /\ c.count = g.count /\ c.errors = g.errors
            /\ c.named = g.named
<1> DEFINE trigger == g.named /\ FpMessage[fp] \in {"causal", "reactive"}
           c == ClusterOf(fp, g, b, trigger, {})
<1>1. build_cluster_data(fp, g, b) = c
  BY DEF build_cluster_data
<1>2. trigger \in BOOLEAN
  OBVIOUS
<1> HIDE DEF trigger
<1>3. c \in ClusterRecords
  BY <1>2, ClusterOfType
<1>4. /\ c.fp = fp /\ c.merged = {} /\ c.count = g.count /\ c.errors = g.errors /\ c.named = g.named
      /\ c.levels = g.levels /\ c.first = g.first
  BY DEF ClusterOf
<1> HIDE DEF c
<1>5. Sound(c)
  BY <1>3, <1>4 DEF Sound
<1> QED
  BY <1>1, <1>4, <1>5

LEMMA BuiltIs ==
  ASSUME NEW groups, SoundGroups(groups), NEW baseline \in [Fps -> Nat], NEW order \in SetToSeqs(DOMAIN groups)
  PROVE  LET cs == Built(groups, baseline, order)
         IN Plain(cs) /\ Listed1(cs) /\ FromGroups(cs, groups)
<1> DEFINE cs == Built(groups, baseline, order)
           D == DOMAIN groups
           n == Cardinality(D)
<1>1. D \subseteq Fps /\ IsFiniteSet(D)
  BY NamesFinite, FS_Subset DEF SoundGroups
<1> HIDE DEF D
<1>2. n \in Nat /\ order \in Bijection(1 .. n, D)
  BY <1>1, OrderIs DEF D
<1> HIDE DEF n
<1>3. /\ DOMAIN order = 1 .. n /\ \A i \in 1 .. n : order[i] \in D
      /\ \A i, j \in 1 .. n : order[i] = order[j] => i = j
      /\ \A fp \in D : \E i \in 1 .. n : order[i] = fp
  BY <1>2 DEF Bijection, Injection, Surjection, IsInjective
<1>4. DOMAIN cs = 1 .. n
  BY <1>3 DEF Built
<1>5. \A i \in 1 .. n : cs[i] = build_cluster_data(order[i], groups[order[i]], baseline[order[i]])
  BY <1>3 DEF Built
<1> HIDE DEF cs
<1>6. ASSUME NEW i \in 1 .. n
      PROVE  /\ Sound(cs[i]) /\ cs[i].fp = order[i] /\ cs[i].merged = {}
             /\ cs[i].count = groups[order[i]].count /\ cs[i].errors = groups[order[i]].errors
             /\ cs[i].named = groups[order[i]].named
  <2>1. order[i] \in D /\ order[i] \in Int /\ baseline[order[i]] \in Nat
    BY <1>1, <1>3, NamesFinite
  <2> DEFINE g == groups[order[i]]
             fp == order[i]
             b == baseline[order[i]]
  <2>2. /\ g \in GroupRows
        /\ (\E s \in Svcs : g.errors[s] > 0) => \E l \in Lvls \cap Errors : g.levels[l] > 0
        /\ g.count > 0 => g.first # NoTime
    BY <2>1 DEF SoundGroups, D
  <2>3. cs[i] = build_cluster_data(fp, g, b) /\ fp \in Int /\ b \in Nat
    BY <1>5, <2>1
  <2> HIDE DEF g, fp, b
  <2>4. /\ Sound(cs[i]) /\ cs[i].fp = fp /\ cs[i].merged = {} /\ cs[i].count = g.count
        /\ cs[i].errors = g.errors /\ cs[i].named = g.named
    BY <2>2, <2>3, BuildIs
  <2> QED
    BY <2>4 DEF g, fp
<1>7. Listed1(cs)
  BY <1>2, <1>4 DEF Listed1
<1>8. IsFiniteSet(DOMAIN cs)
  BY <1>2, <1>4, FS_Interval
<1>9. \A i, j \in DOMAIN cs : cs[i].fp = cs[j].fp => i = j
  BY <1>3, <1>4, <1>6
<1>10. Plain(cs)
  BY <1>4, <1>6, <1>8, <1>9 DEF Plain
<1>11. {cs[i].fp : i \in DOMAIN cs} = D
  BY <1>3, <1>4, <1>6
<1>12. FromGroups(cs, groups)
  BY <1>4, <1>6, <1>11 DEF FromGroups, D
<1> QED
  BY <1>7, <1>10, <1>12 DEF cs

\* A list whose clusters are those of the groups, the similar ones merged, from the
\* most important on.
Sorted(r) == \A m, n \in DOMAIN r : m < n => r[m].importance >= r[n].importance
Represents(r, groups, cs, M) ==
  /\ Plain(cs) /\ FromGroups(cs, groups) /\ Grouping(r, M, cs)
  /\ IsTable(r) /\ Listed1(r) /\ Sorted(r)
FullList(r, groups) == \E cs, M : Represents(r, groups, cs, M)

LEMMA RankedIs ==
  ASSUME NEW groups, SoundGroups(groups), NEW baseline \in [Fps -> Nat],
         NEW order \in SetToSeqs(DOMAIN groups), NEW embeds
  PROVE  FullList(Ranked(groups, baseline, order, embeds), groups)
<1> DEFINE cs == Built(groups, baseline, order)
           m == IF embeds /\ Len(cs) >= 2 THEN merge_semantic_clusters(cs) ELSE cs
           r == ByImportance(m)
<1>1. Plain(cs) /\ Listed1(cs) /\ FromGroups(cs, groups)
  BY BuiltIs
<1>2. r = Ranked(groups, baseline, order, embeds)
  BY DEF Ranked
<1> HIDE DEF cs
<1>3. Listed1(m) /\ \E M : Grouping(m, M, cs)
  <2>1. Listed1(merge_semantic_clusters(cs)) /\ \E M : Grouping(merge_semantic_clusters(cs), M, cs)
    BY <1>1, MergeGrouping
  <2>2. Grouping(cs, [i \in DOMAIN cs |-> {i}], cs)
    BY <1>1, PlainGrouping
  <2> QED
    BY <1>1, <2>1, <2>2
<1> HIDE DEF m
<1>4. /\ DOMAIN r = DOMAIN m /\ \E N : Grouping(r, N, cs)
      /\ \A i, j \in DOMAIN r : i < j => r[i].importance >= r[j].importance
  BY <1>3, ImportanceGrouping
<1>7. IsTable(r)
  BY DEF ByImportance, IsTable
<1> HIDE DEF r
<1>5. Listed1(r) /\ Sorted(r)
  BY <1>3, <1>4 DEF Listed1, Sorted
<1>6. FullList(r, groups)
  BY <1>1, <1>4, <1>5, <1>7 DEF FullList, Represents
<1> QED
  BY <1>2, <1>6

\* The candidates of the display cap, and what it leaves.
Shown(cs) == IF MaxClusters <= Len(cs) THEN MaxClusters ELSE Len(cs)
LargestError(cs) == Best([i \in DOMAIN cs |-> <<TopErrors(cs[i]), cs[i].count, -i, 0>>])

LEMMA CappedIs ==
  ASSUME NEW cs \in Seq(ClusterRecords)
  PROVE  /\ Shown(cs) \in 0 .. Len(cs) /\ capped(cs) \in Seq(ClusterRecords)
         /\ \A i \in 1 .. Shown(cs) : capped(cs)[i] = cs[i]
         /\ IF Len(cs) > Shown(cs) /\ TopErrors(cs[LargestError(cs)]) > 0 /\ LargestError(cs) > Shown(cs)
            THEN /\ Len(capped(cs)) = Shown(cs) + 1 /\ capped(cs)[Shown(cs) + 1] = cs[LargestError(cs)]
                 /\ LargestError(cs) \in DOMAIN cs
            ELSE Len(capped(cs)) = Shown(cs)
<1> DEFINE m == Shown(cs)
           top == SubSeq(cs, 1, m)
           c == LargestError(cs)
<1>1. Len(cs) \in Nat /\ m \in 0 .. Len(cs) /\ MaxClusters \in Nat
  BY ClusteringConstants DEF Shown
<1>2. Min({MaxClusters, Len(cs)}) = m
  BY <1>1, MinOfTwo DEF Shown
<1> HIDE DEF m
<1>3. top \in Seq(ClusterRecords) /\ Len(top) = m /\ \A i \in 1 .. m : top[i] = cs[i]
  BY <1>1, Stretch
<1>4. capped(cs) = IF Len(cs) > Len(top) /\ TopErrors(cs[c]) > 0 /\ c > Len(top)
                   THEN Append(top, cs[c]) ELSE top
  BY <1>2 DEF capped, LargestError
<1>5. Keyed(DOMAIN cs, [i \in DOMAIN cs |-> <<TopErrors(cs[i]), cs[i].count, -i, 0>>])
  <2> DEFINE key == [i \in DOMAIN cs |-> <<TopErrors(cs[i]), cs[i].count, -i, 0>>]
  <2>1. DOMAIN cs = 1 .. Len(cs) /\ IsFiniteSet(DOMAIN cs)
    BY <1>1, FS_Interval
  <2>2. ASSUME NEW i \in DOMAIN cs PROVE TopErrors(cs[i]) \in Int /\ cs[i].count \in Int /\ -i \in Int
    <3>1. cs[i] \in ClusterRecords
      BY <2>1, <2>2
    <3>2. TopErrors(cs[i]) \in Int
      BY <3>1, TopErrorsIs
    <3>3. cs[i].count \in Int
      BY <3>1 DEF ClusterRecords
    <3> QED
      BY <1>1, <2>1, <3>2, <3>3
  <2>3. /\ \A i \in DOMAIN cs : key[i] \in Keys /\ key[i][3] = -i
    BY <2>2 DEF Keys
  <2>4. DOMAIN key = DOMAIN cs
    OBVIOUS
  <2> HIDE DEF key
  <2>5. ASSUME NEW i \in DOMAIN cs, NEW j \in DOMAIN cs, key[i] = key[j] PROVE i = j
    <3>1. -i = -j
      BY <2>3, <2>5
    <3> QED
      BY <2>1, <3>1
  <2>6. Keyed(DOMAIN cs, key)
    BY <2>1, <2>3, <2>4, <2>5 DEF Keyed
  <2> QED
    BY <2>6 DEF key
<1>6. Len(cs) > m => c \in 1 .. Len(cs)
  <2> SUFFICES ASSUME Len(cs) > m PROVE c \in 1 .. Len(cs)
    OBVIOUS
  <2>3. DOMAIN cs = 1 .. Len(cs) /\ 1 \in 1 .. Len(cs)
    BY <1>1, LenProperties
  <2>1. DOMAIN cs # {} /\ DOMAIN cs = 1 .. Len(cs)
    BY <2>3
  <2>2. c \in DOMAIN cs
    BY <1>5, <2>1, BestIs DEF LargestError
  <2> QED
    BY <2>1, <2>2
<1> HIDE DEF c, top
<1>7. CASE Len(cs) > m /\ TopErrors(cs[c]) > 0 /\ c > m
  <2>1. capped(cs) = Append(top, cs[c]) /\ cs[c] \in ClusterRecords
    BY <1>3, <1>4, <1>6, <1>7
  <2>2. /\ capped(cs) \in Seq(ClusterRecords) /\ Len(capped(cs)) = m + 1 /\ capped(cs)[m + 1] = cs[c]
        /\ \A i \in 1 .. m : capped(cs)[i] = cs[i]
    BY <1>1, <1>3, <2>1, AppendProperties
  <2>3. c \in DOMAIN cs
    BY <1>6, <1>7, LenProperties
  <2> QED
    BY <1>1, <1>7, <2>2, <2>3 DEF m, c
<1>8. CASE ~(Len(cs) > m /\ TopErrors(cs[c]) > 0 /\ c > m)
  <2>1. capped(cs) = top
    BY <1>3, <1>4, <1>8
  <2> QED
    BY <1>1, <1>3, <1>8, <2>1 DEF m, c
<1> QED
  BY <1>7, <1>8

AfterRank == {"clustered", "triggers", "summary", "done"}

RankInv ==
  /\ clu.baseline \in [Fps -> Nat]
  /\ clu.pc \in AfterRank => FullList(clu.ranked, clu.groups) /\ clu.clusters = capped(clu.ranked)
  /\ clu.pc \notin AfterRank => clu.ranked = <<>> /\ clu.clusters = <<>>

LEMMA NothingRanked ==
  ASSUME NEW groups, DOMAIN groups = {}
  PROVE  FullList(<<>>, groups) /\ capped(<<>>) = <<>>
<1> DEFINE e == <<>>
<1>1. e \in Seq(ClusterRecords) /\ Len(e) = 0 /\ DOMAIN e = {} /\ IsTable(e)
  BY DEF IsTable
<1>2. 1 .. 0 = {} /\ 0 \in Nat
  OBVIOUS
<1> HIDE DEF e
<1>3. Listed1(e)
  BY <1>1, <1>2 DEF Listed1
<1>4. Plain(e) /\ FromGroups(e, groups) /\ Sorted(e) /\ Grouping(e, e, e)
  <2>1. Plain(e)
    BY <1>1, FS_EmptySet DEF Plain
  <2>2. FromGroups(e, groups)
    BY <1>1 DEF FromGroups
  <2>3. Sorted(e)
    BY <1>1 DEF Sorted
  <2>4. Grouping(e, e, e)
    BY <1>1 DEF Grouping
  <2> QED
    BY <2>1, <2>2, <2>3, <2>4
<1>5. FullList(e, groups)
  BY <1>1, <1>3, <1>4 DEF FullList, Represents
<1>6. Shown(e) = 0
  BY <1>1, ClusteringConstants DEF Shown
<1> HIDE DEF ClusterRecords
<1>7. capped(e) \in Seq(ClusterRecords) /\ Len(capped(e)) = 0
  <2>1. /\ capped(e) \in Seq(ClusterRecords)
        /\ IF Len(e) > Shown(e) /\ TopErrors(e[LargestError(e)]) > 0 /\ LargestError(e) > Shown(e)
           THEN Len(capped(e)) = Shown(e) + 1 /\ capped(e)[Shown(e) + 1] = e[LargestError(e)]
           ELSE Len(capped(e)) = Shown(e)
    BY <1>1, CappedIs
  <2>2. ~(Len(e) > Shown(e))
    BY <1>1, <1>6
  <2> QED
    BY <1>6, <2>1, <2>2
<1>8. capped(e) = <<>>
  BY <1>7, EmptySeq
<1> QED
  BY <1>5, <1>8 DEF e

LEMMA RankInit ==
  ASSUME ExplanationInit PROVE RankInv
<1>1. clu \in {[pc |-> "counts", ask |-> a, groups |-> <<>>, baseline |-> [fp \in Fps |-> 0],
                ranked |-> <<>>, clusters |-> <<>>, seen |-> {}, inserts |-> 0] : a \in Asks}
  BY DEF ExplanationInit, ClusteringInit
<1> DEFINE zeros == [fp \in Fps |-> 0]
<1>2. zeros \in [Fps -> Nat]
  OBVIOUS
<1> HIDE DEF zeros
<1>3. PICK a \in Asks :
        clu = [pc |-> "counts", ask |-> a, groups |-> <<>>, baseline |-> zeros,
               ranked |-> <<>>, clusters |-> <<>>, seen |-> {}, inserts |-> 0]
  BY <1>1 DEF zeros
<1>4. clu.pc = "counts" /\ clu.baseline = zeros /\ clu.ranked = <<>> /\ clu.clusters = <<>>
  BY <1>3
<1> QED
  BY <1>2, <1>4 DEF RankInv, AfterRank

LEMMA RankNext ==
  ASSUME Aggregated, Aggregated', RankInv, [ExplanationNext]_explanationVars
  PROVE  RankInv'
<1>1. RunShape /\ SeenTables /\ SeenGroups
  BY DEF Aggregated
<1>2. ASSUME clu'.baseline = clu.baseline, clu'.ranked = clu.ranked, clu'.clusters = clu.clusters,
             clu'.groups = clu.groups, clu'.pc \in AfterRank <=> clu.pc \in AfterRank
      PROVE  RankInv'
  BY <1>2 DEF RankInv
<1>3. ASSUME clu'.baseline = clu.baseline, clu'.ranked = clu.ranked, clu'.clusters = clu.clusters,
             clu.pc \notin AfterRank, clu'.pc \notin AfterRank
      PROVE  RankInv'
  BY <1>3 DEF RankInv
<1>4. ASSUME NEW k \in RowKinds, CommitLine(k) PROVE RankInv'
  BY <1>1, <1>2, <1>4, CommitChanges
<1>5. CASE QueryCounts
  BY <1>1, <1>3, <1>5, CountsChanges DEF AfterRank
<1>6. CASE QueryServices
  BY <1>1, <1>3, <1>6, ServicesChanges DEF AfterRank
<1>7. CASE QueryLevels
  BY <1>1, <1>3, <1>7, LevelsChanges DEF AfterRank
<1>8. CASE QueryMessages
  <2>1. /\ clu.pc = "messages" /\ clu'.pc = IF DOMAIN clu'.groups = {} THEN "clustered" ELSE "baseline"
        /\ clu'.baseline = clu.baseline /\ clu'.ranked = clu.ranked /\ clu'.clusters = clu.clusters
    BY <1>1, <1>8, MessagesChanges
  <2>2. CASE DOMAIN clu'.groups # {}
    BY <1>3, <2>1, <2>2 DEF AfterRank
  <2>3. CASE DOMAIN clu'.groups = {}
    <3>1. clu'.ranked = <<>> /\ clu'.clusters = <<>> /\ clu'.baseline \in [Fps -> Nat]
      BY <2>1 DEF RankInv, AfterRank
    <3>2. FullList(<<>>, clu'.groups) /\ capped(<<>>) = <<>>
      BY <2>3, NothingRanked
    <3> QED
      BY <2>1, <2>3, <3>1, <3>2 DEF RankInv, AfterRank
  <2> QED
    BY <2>2, <2>3
<1>9. CASE QueryBaseline
  <2> DEFINE from(fp) == {k \in RowKinds : k.fp = fp /\ Matches(clu.ask, k, WinStart - BaselineLen, WinStart)}
  <2>1. /\ clu.pc = "baseline" /\ clu'.pc = "rank" /\ clu'.ranked = clu.ranked /\ clu'.clusters = clu.clusters
        /\ clu'.baseline = [fp \in Fps |-> Total(logTable, from(fp))]
    BY <1>1, <1>9, BaselineChanges
  <2>2. \A fp : from(fp) \subseteq RowKinds
    OBVIOUS
  <2> HIDE DEF from
  <2>3. \A fp : Total(logTable, from(fp)) \in Nat
    BY <1>1, <2>2, TotalIs DEF SeenTables
  <2>4. clu'.baseline \in [Fps -> Nat]
    BY <2>1, <2>3
  <2> QED
    BY <2>1, <2>4 DEF RankInv, AfterRank
<1>10. ASSUME NEW order, NEW embeds, RankAndMerge(order, embeds) PROVE RankInv'
  <2>1. /\ clu.pc = "rank" /\ clu'.pc = "clustered" /\ clu'.groups = clu.groups
        /\ clu'.baseline = clu.baseline /\ order \in SetToSeqs(DOMAIN clu.groups)
        /\ clu'.ranked = Ranked(clu.groups, clu.baseline, order, embeds)
        /\ clu'.clusters = capped(clu'.ranked)
    BY <1>1, <1>10, RankChanges
  <2>2. SoundGroups(clu.groups)
    BY <2>1, GroupsAreSound DEF Queried
  <2>3. clu.baseline \in [Fps -> Nat]
    BY DEF RankInv
  <2>4. FullList(Ranked(clu.groups, clu.baseline, order, embeds), clu.groups)
    BY <2>1, <2>2, <2>3, RankedIs
  <2> QED
    BY <2>1, <2>3, <2>4 DEF RankInv, AfterRank
<1>11. CASE ClusteringNext
  BY <1>4, <1>5, <1>6, <1>7, <1>8, <1>9, <1>10, <1>11 DEF ClusteringNext
<1>12. ASSUME NEW from \in AfterRank, NEW to \in AfterRank, Moved(from, to) PROVE RankInv'
  BY <1>2, <1>12 DEF Moved
<1>13. CASE CountLogs
  BY <1>1, <1>12, <1>13, ExplainChanges DEF AfterRank
<1>14. ASSUME NEW m, FindTriggers(m) PROVE RankInv'
  BY <1>1, <1>12, <1>14, ExplainChanges DEF AfterRank
<1>15. ASSUME NEW p, NEW llm, Summarize(p, llm) PROVE RankInv'
  BY <1>1, <1>12, <1>15, ExplainChanges DEF AfterRank
<1>16. CASE UNCHANGED explanationVars
  BY <1>2, <1>16 DEF explanationVars, clusteringVars
<1> QED
  BY <1>11, <1>13, <1>14, <1>15, <1>16 DEF ExplanationNext

\* What a list of clusters says of the groups it stands for.
LEMMA ListConserves ==
  ASSUME NEW r, NEW groups, NEW cs, NEW M, SoundGroups(groups), Represents(r, groups, cs, M)
  PROVE  /\ UNION {FpsOf(r[i]) : i \in DOMAIN r} = DOMAIN groups
         /\ \A i, j \in DOMAIN r : i # j => FpsOf(r[i]) \cap FpsOf(r[j]) = {}
         /\ \A i \in DOMAIN r :
              /\ r[i].count = SumFunction([fp \in FpsOf(r[i]) |-> groups[fp].count])
              /\ \A s \in Svcs : r[i].errors[s] = SumFunction([fp \in FpsOf(r[i]) |-> groups[fp].errors[s]])
         /\ (\E i \in DOMAIN r : r[i].merged # {}) =>
              \A p \in Similar : \A i, j \in DOMAIN r :
                p[1] \in FpsOf(r[i]) /\ p[2] \in FpsOf(r[j]) /\ i # j =>
                  \E fp \in {p[1], p[2]} : groups[fp].count < MergeMinCount \/ ~groups[fp].named
<1>1. /\ IsFiniteSet(DOMAIN cs)
      /\ \A i \in DOMAIN cs : cs[i] \in ClusterRecords
      /\ \A i, j \in DOMAIN cs : cs[i].fp = cs[j].fp => i = j
  BY DEF Represents, Plain, Sound
<1>2. /\ {cs[i].fp : i \in DOMAIN cs} = DOMAIN groups
      /\ \A i \in DOMAIN cs : /\ cs[i].count = groups[cs[i].fp].count
                              /\ cs[i].errors = groups[cs[i].fp].errors
                              /\ cs[i].named = groups[cs[i].fp].named
  BY DEF Represents, FromGroups
<1>3. /\ \A n \in DOMAIN r : M[n] \subseteq DOMAIN cs /\ StandsFor(r[n], cs, M[n])
      /\ \A i \in DOMAIN cs : \E n \in DOMAIN r : i \in M[n]
      /\ \A m, n \in DOMAIN r : m # n => M[m] \cap M[n] = {}
      /\ (\E n \in DOMAIN r : r[n].merged # {}) => \A n \in DOMAIN r : Closed(cs, M[n])
  BY DEF Represents, Grouping
<1>4. \A n \in DOMAIN r : /\ FpsOf(r[n]) = {cs[i].fp : i \in M[n]}
                          /\ r[n].count = Counts(cs, M[n])
                          /\ \A s \in Svcs : r[n].errors[s] = ErrorsOf(cs, M[n], s)
  BY <1>3 DEF StandsFor
<1>5. UNION {FpsOf(r[i]) : i \in DOMAIN r} = DOMAIN groups
  <2>1. ASSUME NEW i \in DOMAIN r, NEW fp \in FpsOf(r[i]) PROVE fp \in DOMAIN groups
    <3>1. PICK x \in M[i] : cs[x].fp = fp
      BY <1>4, <2>1
    <3> QED
      BY <1>2, <1>3, <3>1
  <2>2. ASSUME NEW fp \in DOMAIN groups PROVE \E i \in DOMAIN r : fp \in FpsOf(r[i])
    <3>1. PICK x \in DOMAIN cs : cs[x].fp = fp
      BY <1>2, <2>2
    <3>2. PICK i \in DOMAIN r : x \in M[i]
      BY <1>3
    <3> QED
      BY <1>4, <3>1, <3>2
  <2> QED
    BY <2>1, <2>2
<1>6. ASSUME NEW i \in DOMAIN r, NEW j \in DOMAIN r, i # j PROVE FpsOf(r[i]) \cap FpsOf(r[j]) = {}
  <2> SUFFICES ASSUME NEW fp \in FpsOf(r[i]), fp \in FpsOf(r[j]) PROVE FALSE
    OBVIOUS
  <2>1. PICK x \in M[i] : cs[x].fp = fp
    BY <1>4
  <2>2. PICK y \in M[j] : cs[y].fp = fp
    BY <1>4
  <2>3. x = y
    BY <1>1, <1>3, <2>1, <2>2
  <2> QED
    BY <1>3, <1>6, <2>3
<1>7. ASSUME NEW i \in DOMAIN r
      PROVE  /\ r[i].count = SumFunction([fp \in FpsOf(r[i]) |-> groups[fp].count])
             /\ \A s \in Svcs : r[i].errors[s] = SumFunction([fp \in FpsOf(r[i]) |-> groups[fp].errors[s]])
  <2> DEFINE P == M[i]
             S == FpsOf(r[i])
             b == [x \in P |-> cs[x].fp]
             f == [fp \in S |-> groups[fp].count]
             e(s) == [fp \in S |-> groups[fp].errors[s]]
  <2>1. P \subseteq DOMAIN cs /\ S = {cs[x].fp : x \in P}
    BY <1>3, <1>4
  <2>2. b \in Bijection(P, S)
    <3>1. b \in Surjection(P, S)
      BY <2>1 DEF Surjection
    <3>2. \A x, y \in P : b[x] = b[y] => x = y
      BY <1>1, <2>1
    <3> HIDE DEF b, P, S
    <3> QED
      BY <3>1, <3>2 DEF Bijection, Injection, Surjection, IsInjective
  <2>3. IsFiniteSet(P)
    BY <1>1, <2>1, FS_Subset
  <2> HIDE DEF P, S
  <2>4. IsFiniteSet(S)
    BY <2>2, <2>3, FS_Surjection DEF Bijection
  <2>5. ASSUME NEW x \in P
        PROVE  /\ b[x] \in S /\ cs[x].count = groups[b[x]].count /\ cs[x].errors = groups[b[x]].errors
               /\ cs[x].count \in Nat /\ cs[x].errors \in [Svcs -> Nat]
    BY <1>1, <1>2, <2>1 DEF ClusterRecords
  <2>6. \A fp \in S : \E x \in P : b[x] = fp
    BY <2>1
  <2> HIDE DEF b
  <2>7. f \in [S -> Int] /\ \A s \in Svcs : e(s) \in [S -> Int]
    BY <2>5, <2>6
  <2>8. [x \in P |-> f[b[x]]] = [x \in P |-> cs[x].count]
    BY <2>5
  <2>9. ASSUME NEW s \in Svcs PROVE [x \in P |-> e(s)[b[x]]] = [x \in P |-> cs[x].errors[s]]
    BY <2>5
  <2> HIDE DEF f, e
  <2>10. SumFunction([x \in P |-> f[b[x]]]) = SumFunction(f)
    BY <2>2, <2>4, <2>7, SumRenamed
  <2>11. ASSUME NEW s \in Svcs PROVE SumFunction([x \in P |-> e(s)[b[x]]]) = SumFunction(e(s))
    <3> DEFINE h == e(s)
    <3>1. h \in [S -> Int]
      BY <2>7
    <3> HIDE DEF h
    <3>2. SumFunction([x \in P |-> h[b[x]]]) = SumFunction(h)
      BY <2>2, <2>4, <3>1, SumRenamed
    <3> QED
      BY <3>2 DEF h
  <2>12. r[i].count = SumFunction(f)
    BY <1>4, <2>8, <2>10 DEF Counts, P
  <2>13. ASSUME NEW s \in Svcs PROVE r[i].errors[s] = SumFunction(e(s))
    <3>1. r[i].errors[s] = SumFunction([x \in P |-> cs[x].errors[s]])
      BY <1>4 DEF ErrorsOf, P
    <3> QED
      BY <2>9, <2>11, <3>1
  <2> QED
    BY <2>12, <2>13 DEF f, e, S
<1>8. ASSUME \E i \in DOMAIN r : r[i].merged # {}, NEW p \in Similar, NEW i \in DOMAIN r, NEW j \in DOMAIN r,
             p[1] \in FpsOf(r[i]), p[2] \in FpsOf(r[j]), i # j,
             ~\E fp \in {p[1], p[2]} : groups[fp].count < MergeMinCount \/ ~groups[fp].named
      PROVE  FALSE
  <2>1. PICK x \in M[i] : cs[x].fp = p[1]
    BY <1>4, <1>8
  <2>2. PICK y \in M[j] : cs[y].fp = p[2]
    BY <1>4, <1>8
  <2>3. x \in DOMAIN cs /\ y \in DOMAIN cs
    BY <1>3
  <2>4. <<cs[x].fp, cs[y].fp>> \in Similar
    <3>1. <<p[2], p[1]>> \in Similar
      BY ClusteringConstants
    <3>2. <<p[1], p[2]>> \in Similar
      <4> DEFINE q == <<p[2], p[1]>>
      <4>1. q \in Similar /\ q[1] = p[2] /\ q[2] = p[1]
        BY <3>1
      <4> HIDE DEF q
      <4>2. <<q[2], q[1]>> \in Similar
        BY <4>1, ClusteringConstants
      <4> QED
        BY <4>1, <4>2
    <3> QED
      BY <2>1, <2>2, <3>2
  <2>5. Eligible(cs[x]) /\ Eligible(cs[y])
    <3>1. cs[x].count \in Nat /\ cs[y].count \in Nat /\ MergeMinCount \in Nat
      BY <1>1, <2>3, ClusteringConstants DEF ClusterRecords
    <3>2. /\ cs[x].count = groups[p[1]].count /\ cs[x].named = groups[p[1]].named
          /\ cs[y].count = groups[p[2]].count /\ cs[y].named = groups[p[2]].named
      BY <1>2, <2>1, <2>2, <2>3
    <3>3. /\ ~(groups[p[1]].count < MergeMinCount) /\ groups[p[1]].named
          /\ ~(groups[p[2]].count < MergeMinCount) /\ groups[p[2]].named
      BY <1>8
    <3> QED
      BY <3>1, <3>2, <3>3 DEF Eligible
  <2>6. Closed(cs, M[i])
    BY <1>3, <1>8
  <2>7. y \in M[i]
    BY <2>3, <2>4, <2>5, <2>6 DEF Closed
  <2> QED
    BY <1>3, <1>8, <2>7
<1> QED
  BY <1>5, <1>6, <1>7, <1>8

LEMMA Conserved ==
  ASSUME Aggregated, RankInv
  PROVE  MergeConserves
<1> SUFFICES ASSUME clu.pc = "clustered"
             PROVE  LET r == clu.ranked
                        fpsOf(i) == {r[i].fp} \cup r[i].merged
                    IN /\ UNION {fpsOf(i) : i \in DOMAIN r} = DOMAIN clu.groups
                       /\ \A i, j \in DOMAIN r : i # j => fpsOf(i) \cap fpsOf(j) = {}
                       /\ \A i \in DOMAIN r :
                            /\ r[i].count = SumFunction([fp \in fpsOf(i) |-> clu.groups[fp].count])
                            /\ \A s \in Svcs :
                                 r[i].errors[s] = SumFunction([fp \in fpsOf(i) |-> clu.groups[fp].errors[s]])
                       /\ (\E i \in DOMAIN r : r[i].merged # {}) =>
                            \A p \in Similar : \A i, j \in DOMAIN r :
                              p[1] \in fpsOf(i) /\ p[2] \in fpsOf(j) /\ i # j =>
                                \E fp \in {p[1], p[2]} :
                                  clu.groups[fp].count < MergeMinCount \/ ~clu.groups[fp].named
  BY DEF MergeConserves
<1>1. FullList(clu.ranked, clu.groups)
  BY DEF RankInv, AfterRank
<1>2. PICK cs, M : Represents(clu.ranked, clu.groups, cs, M)
  BY <1>1 DEF FullList
<1>3. SoundGroups(clu.groups)
  BY GroupsAreSound DEF Queried
<1> DEFINE r == clu.ranked
           groups == clu.groups
<1>4. SoundGroups(groups) /\ Represents(r, groups, cs, M)
  BY <1>2, <1>3
<1> HIDE DEF r, groups
<1>5. /\ UNION {FpsOf(r[i]) : i \in DOMAIN r} = DOMAIN groups
      /\ \A i, j \in DOMAIN r : i # j => FpsOf(r[i]) \cap FpsOf(r[j]) = {}
      /\ \A i \in DOMAIN r :
           /\ r[i].count = SumFunction([fp \in FpsOf(r[i]) |-> groups[fp].count])
           /\ \A s \in Svcs : r[i].errors[s] = SumFunction([fp \in FpsOf(r[i]) |-> groups[fp].errors[s]])
      /\ (\E i \in DOMAIN r : r[i].merged # {}) =>
           \A p \in Similar : \A i, j \in DOMAIN r :
             p[1] \in FpsOf(r[i]) /\ p[2] \in FpsOf(r[j]) /\ i # j =>
               \E fp \in {p[1], p[2]} : groups[fp].count < MergeMinCount \/ ~groups[fp].named
  BY <1>4, ListConserves
<1> QED
  BY <1>5 DEF FpsOf, r, groups

-----------------------------------------------------------------------------
ClusterInv == Aggregated /\ RankInv

LEMMA ClusterInvNext ==
  ASSUME ClusterInv, [ExplanationNext]_explanationVars
  PROVE  ClusterInv'
  BY AggregatedNext, RankNext DEF ClusterInv

\* Whatever lines are committed between its queries, whatever order the groups come
\* in and whether or not the embeddings answer, a run groups the lines of the window
\* as one scan would, and every group is in one cluster and counted once.
THEOREM ClustersRight == ExplanationSpec => []ClustersPartitionLines
<1>1. ExplanationInit => ClusterInv
  BY AggregatedInit, RankInit DEF ClusterInv
<1>2. ClusterInv /\ [ExplanationNext]_explanationVars => ClusterInv'
  BY ClusterInvNext
<1>3. ClusterInv => ClustersPartitionLines
  BY ScanMatches, Conserved DEF ClusterInv, ClustersPartitionLines
<1> QED
  BY <1>1, <1>2, <1>3, PTL DEF ExplanationSpec
-----------------------------------------------------------------------------
(* The primary cluster.                                                    *)

\* The place c of a list leads when its cluster has the largest error group, then
\* the most lines, then the importance and the place.
Leads(q, c) ==
  /\ c \in DOMAIN q /\ TopErrors(q[c]) > 0
  /\ \A j \in DOMAIN q \ {c} :
       \/ TopErrors(q[c]) > TopErrors(q[j])
       \/ TopErrors(q[c]) = TopErrors(q[j]) /\ q[c].count > q[j].count
       \/ /\ TopErrors(q[c]) = TopErrors(q[j]) /\ q[c].count = q[j].count
          /\ q[c].importance >= q[j].importance /\ c < j

AllSound(q) == \A i \in DOMAIN q : Sound(q[i])

\* The three parts of a score are numbers.
LEMMA ScoreParts ==
  ASSUME NEW c \in ClusterRecords
  PROVE  /\ Ln(TopErrors(c) + 1) \in Int /\ Ln(c.count + c.baseline + 2) - Ln(c.baseline + 1) \in Int
         /\ onset_earliness(c) \in Int
<1> DEFINE v == Ln(TopErrors(c) + 1)
           x == Ln(c.count + c.baseline + 2) - Ln(c.baseline + 1)
           y == onset_earliness(c)
<1>1. c.count \in Nat /\ c.baseline \in Nat /\ c.first \in Stamps
  BY DEF ClusterRecords
<1>2. x \in Int
  <2>1. c.count + c.baseline + 2 \in Nat \ {0} /\ c.baseline + 1 \in Nat \ {0}
    BY <1>1
  <2>2. Ln(c.count + c.baseline + 2) \in Nat /\ Ln(c.baseline + 1) \in Nat
    BY <2>1, LnGrows
  <2> QED
    BY <2>2
<1>3. y \in Int
  <2>1. CASE c.first = NoTime \/ WinEnd = WinStart
    BY <2>1 DEF onset_earliness
  <2>2. CASE ~(c.first = NoTime \/ WinEnd = WinStart)
    <3>1. c.first \in Int /\ WinEnd \in Int /\ WinStart \in Int /\ WinEnd - WinStart > 0
      BY <1>1, <2>2, ClusteringConstants DEF Stamps
    <3>2. y = (1000 * (WinEnd - c.first)) \div (WinEnd - WinStart)
      BY <2>2 DEF onset_earliness
    <3> QED
      BY <3>1, <3>2
  <2> QED
    BY <2>1, <2>2
<1>4. v \in Int
  <2>1. TopErrors(c) + 1 \in Nat \ {0}
    BY TopErrorsIs
  <2> QED
    BY <2>1, LnGrows
<1> QED
  BY <1>2, <1>3, <1>4

\* The score weighs the volume alone.
LEMMA ScoreIs ==
  ASSUME NEW c \in ClusterRecords
  PROVE  /\ candidate_score(c) \in Int
         /\ WAnomaly = 0 /\ WOnset = 0 => candidate_score(c) = WVolume * Ln(TopErrors(c) + 1)
<1> DEFINE v == Ln(TopErrors(c) + 1)
           x == Ln(c.count + c.baseline + 2) - Ln(c.baseline + 1)
           y == onset_earliness(c)
<1>1. v \in Int /\ x \in Int /\ y \in Int
  BY ScoreParts
<1>2. candidate_score(c) = WVolume * v + WAnomaly * x + WOnset * y
  BY DEF candidate_score
<1> HIDE DEF v, x, y
<1>3. WVolume * v \in Int /\ WAnomaly * x \in Int /\ WOnset * y \in Int
  BY <1>1, ExplanationConstants
<1>4. candidate_score(c) \in Int
  BY <1>2, <1>3
<1>5. WAnomaly = 0 /\ WOnset = 0 => candidate_score(c) = WVolume * v
  BY <1>1, <1>2, <1>3
<1> QED
  BY <1>4, <1>5 DEF v

LEMMA LeaderIsPrimary ==
  ASSUME NEW q, IsFiniteSet(DOMAIN q), DOMAIN q \subseteq Int, AllSound(q), NEW c, Leads(q, c),
         WVolume > 0, WAnomaly = 0, WOnset = 0
  PROVE  select_primary_cluster(q) = q[c]
<1> DEFINE S == select_significant_clusters(q)
           F == {i \in S : TopErrors(q[i]) > 0}
           key == [i \in F |-> <<candidate_score(q[i]), q[i].count, q[i].importance, -i>>]
           significant == {i \in DOMAIN q :
                             \E l \in Lvls \cap {"error", "fatal", "warn", "critical"} : q[i].levels[l] > 0}
<1>1. ASSUME NEW i \in DOMAIN q
      PROVE  /\ q[i] \in ClusterRecords /\ TopErrors(q[i]) \in Nat /\ q[i].count \in Nat
             /\ q[i].importance \in Int /\ i \in Int /\ -i \in Int
             /\ candidate_score(q[i]) = WVolume * Ln(TopErrors(q[i]) + 1)
             /\ candidate_score(q[i]) \in Int
             /\ TopErrors(q[i]) > 0 => i \in significant
  <2>1. q[i] \in ClusterRecords /\ Sound(q[i])
    BY <1>1 DEF AllSound, Sound
  <2>2. TopErrors(q[i]) \in Nat /\ (TopErrors(q[i]) > 0 => \E s \in Svcs : q[i].errors[s] > 0)
    BY <2>1, TopErrorsIs
  <2>3. candidate_score(q[i]) = WVolume * Ln(TopErrors(q[i]) + 1)
    BY <2>1, ScoreIs
  <2>4. TopErrors(q[i]) + 1 \in Nat \ {0}
    BY <2>2
  <2>5. Ln(TopErrors(q[i]) + 1) \in Nat /\ WVolume \in Int
    BY <2>4, LnGrows, ExplanationConstants
  <2>6. candidate_score(q[i]) \in Int
    BY <2>3, <2>5
  <2>7. TopErrors(q[i]) > 0 => i \in significant
    BY <2>1, <2>2 DEF Sound, Errors
  <2>8. q[i].count \in Nat /\ q[i].importance \in Int
    BY <2>1 DEF ClusterRecords
  <2>9. i \in Int
    OBVIOUS
  <2> QED
    BY <2>1, <2>2, <2>3, <2>6, <2>7, <2>8, <2>9
<1>2. c \in DOMAIN q /\ TopErrors(q[c]) > 0 /\ c \in significant
  BY <1>1 DEF Leads
<1>3. S = significant
  BY <1>2 DEF select_significant_clusters
<1> HIDE DEF significant
<1>4. F = {i \in DOMAIN q : TopErrors(q[i]) > 0}
  <2>1. \A i \in significant : i \in DOMAIN q
    BY DEF significant
  <2> QED
    BY <1>1, <1>3, <2>1
<1>5. S # {} /\ F # {} /\ c \in F
  BY <1>2, <1>3, <1>4
<1>6. select_primary_cluster(q) = q[Best(key)]
  BY <1>5 DEF select_primary_cluster
<1> HIDE DEF S, F
<1>7. Keyed(F, key)
  <2>1. IsFiniteSet(F)
    <3>1. F \subseteq DOMAIN q
      BY <1>4
    <3> QED
      BY <3>1, FS_Subset
  <2>2. \A i \in F : key[i] \in Keys /\ key[i][4] = -i /\ i \in Int
    BY <1>1, <1>4 DEF Keys
  <2>3. DOMAIN key = F
    OBVIOUS
  <2> HIDE DEF key
  <2>4. ASSUME NEW i \in F, NEW j \in F, key[i] = key[j] PROVE i = j
    <3>1. -i = -j /\ i \in Int /\ j \in Int
      BY <2>2, <2>4
    <3> QED
      BY <3>1
  <2> QED
    BY <2>1, <2>2, <2>3, <2>4 DEF Keyed
<1>8. ASSUME NEW j \in F \ {c} PROVE Exceeds(key[c], key[j])
  <2> DEFINE a == TopErrors(q[c])
             b == TopErrors(q[j])
  <2>1. /\ key[c][1] = WVolume * Ln(a + 1) /\ key[j][1] = WVolume * Ln(b + 1)
        /\ key[c][2] = q[c].count /\ key[j][2] = q[j].count
        /\ key[c][3] = q[c].importance /\ key[j][3] = q[j].importance
        /\ key[c][4] = -c /\ key[j][4] = -j
    BY <1>1, <1>4, <1>5
  <2>2. key[c] \in Keys /\ key[j] \in Keys
    BY <1>5, <1>7 DEF Keyed
  <2>3. a \in Nat /\ b \in Nat /\ c \in Int /\ j \in Int /\ c \in DOMAIN q /\ j \in DOMAIN q
    BY <1>1, <1>4, <1>5
  <2>4. \/ a > b
        \/ a = b /\ q[c].count > q[j].count
        \/ a = b /\ q[c].count = q[j].count /\ q[c].importance >= q[j].importance /\ c < j
    BY <2>3 DEF Leads
  <2> HIDE DEF a, b, key
  <2>5. a > b => key[c][1] > key[j][1]
    <3> SUFFICES ASSUME a > b PROVE key[c][1] > key[j][1]
      OBVIOUS
    <3>1. a + 1 \in Nat \ {0} /\ b + 1 \in Nat \ {0} /\ b + 1 < a + 1
      BY <2>3
    <3>2. Ln(a + 1) \in Nat /\ Ln(b + 1) \in Nat /\ Ln(b + 1) < Ln(a + 1)
      BY <3>1, LnGrows
    <3> DEFINE x == Ln(a + 1)
               y == Ln(b + 1)
    <3>3. x \in Nat /\ y \in Nat /\ y < x /\ WVolume \in Int /\ WVolume > 0
      BY <3>2, ExplanationConstants
    <3>4. key[c][1] = WVolume * x /\ key[j][1] = WVolume * y
      BY <2>1
    <3> HIDE DEF x, y
    <3>5. WVolume * x > WVolume * y
      BY <3>3
    <3> QED
      BY <3>4, <3>5
  <2>6. a = b => key[c][1] = key[j][1]
    BY <2>1
  <2>7. /\ q[c].count \in Nat /\ q[j].count \in Nat /\ q[c].importance \in Int /\ q[j].importance \in Int
        /\ -c \in Int /\ -j \in Int /\ (c < j => -c > -j)
    BY <1>1, <2>3
  <2>8. \/ key[c][1] > key[j][1]
        \/ key[c][1] = key[j][1] /\ key[c][2] > key[j][2]
        \/ key[c][1] = key[j][1] /\ key[c][2] = key[j][2] /\ key[c][3] > key[j][3]
        \/ /\ key[c][1] = key[j][1] /\ key[c][2] = key[j][2] /\ key[c][3] = key[j][3]
           /\ key[c][4] > key[j][4]
    BY <2>1, <2>4, <2>5, <2>6, <2>7
  <2> QED
    BY <2>2, <2>8, ExceedsIs
<1> HIDE DEF key
<1>9. c = Best(key)
  BY <1>5, <1>7, <1>8, BestIs
<1> QED
  BY <1>6, <1>9

\* A full list is a sequence of clusters, each with lines if its groups have some.
LEMMA FullListIs ==
  ASSUME NEW r, NEW groups, FullList(r, groups)
  PROVE  r \in Seq(ClusterRecords) /\ AllSound(r) /\ Sorted(r)
<1>1. PICK cs, M : Represents(r, groups, cs, M)
  BY DEF FullList
<1>2. AllSound(r)
  BY <1>1 DEF Represents, Grouping, StandsFor, AllSound
<1>3. PICK n \in Nat : DOMAIN r = 1 .. n
  BY <1>1 DEF Represents, Listed1
<1>4. \A i \in 1 .. n : r[i] \in ClusterRecords
  BY <1>2, <1>3 DEF AllSound, Sound
<1>5. r = [i \in 1 .. n |-> r[i]]
  BY <1>1, <1>3 DEF Represents, IsTable
<1> HIDE DEF ClusterRecords
<1>6. r \in [1 .. n -> ClusterRecords]
  BY <1>4, <1>5
<1>7. r \in Seq(ClusterRecords)
  BY <1>3, <1>6, SeqOfLength
<1> QED
  BY <1>1, <1>2, <1>7 DEF Represents

LEMMA RecordNumbers ==
  ASSUME NEW c \in ClusterRecords PROVE c.count \in Int /\ c.importance \in Int
  BY DEF ClusterRecords

LEMMA Countable ==
  ASSUME NEW q \in Seq(ClusterRecords)
  PROVE  DOMAIN q = 1 .. Len(q) /\ Len(q) \in Nat /\ IsFiniteSet(DOMAIN q) /\ DOMAIN q \subseteq Int
         /\ \A i \in DOMAIN q : q[i] \in ClusterRecords
<1> HIDE DEF ClusterRecords
<1>1. DOMAIN q = 1 .. Len(q) /\ Len(q) \in Nat
  BY LenProperties
<1>2. IsFiniteSet(1 .. Len(q))
  BY <1>1, FS_Interval
<1> QED
  BY <1>1, <1>2

LEMMA CapKeeps ==
  ASSUME NEW r, r \in Seq(ClusterRecords), AllSound(r), Sorted(r),
         WVolume > 0, WAnomaly = 0, WOnset = 0, \E i \in DOMAIN r : TopErrors(r[i]) > 0
  PROVE  select_primary_cluster(capped(r)) = select_primary_cluster(r)
<1> DEFINE c == LargestError(r)
           m == Shown(r)
           q == capped(r)
           key == [i \in DOMAIN r |-> <<TopErrors(r[i]), r[i].count, -i, 0>>]
<1>1. /\ DOMAIN r = 1 .. Len(r) /\ Len(r) \in Nat /\ IsFiniteSet(DOMAIN r)
      /\ \A i \in DOMAIN r : r[i] \in ClusterRecords
  BY Countable
<1>2. ASSUME NEW i \in DOMAIN r
      PROVE  /\ TopErrors(r[i]) \in Nat /\ r[i].count \in Nat /\ r[i].importance \in Int
             /\ i \in Int /\ -i \in Int
  <2>1. r[i] \in ClusterRecords
    BY <1>1
  <2>2. TopErrors(r[i]) \in Nat
    BY <2>1, TopErrorsIs
  <2>3. r[i].count \in Nat /\ r[i].importance \in Int
    BY <2>1 DEF ClusterRecords
  <2> QED
    BY <1>1, <2>2, <2>3
<1> HIDE DEF ClusterRecords
<1>3. \A i \in DOMAIN r : /\ key[i][1] = TopErrors(r[i]) /\ key[i][2] = r[i].count /\ key[i][3] = -i
                          /\ key[i][4] = 0 /\ key[i] \in Keys
  BY <1>2 DEF Keys
<1>4. DOMAIN key = DOMAIN r /\ c = Best(key)
  BY DEF LargestError
<1> HIDE DEF key, c
<1>5. Keyed(DOMAIN r, key)
  <2>1. ASSUME NEW i \in DOMAIN r, NEW j \in DOMAIN r, key[i] = key[j] PROVE i = j
    <3>1. -i = -j /\ i \in Int /\ j \in Int
      BY <1>2, <1>3, <2>1
    <3> QED
      BY <3>1
  <2> QED
    BY <1>1, <1>3, <1>4, <2>1 DEF Keyed
<1>6. c \in DOMAIN r /\ \A j \in DOMAIN r \ {c} : Exceeds(key[c], key[j])
  <2>1. DOMAIN r # {}
    OBVIOUS
  <2> QED
    BY <1>4, <1>5, <2>1, BestIs
<1>7. ASSUME NEW j \in DOMAIN r \ {c}
      PROVE  \/ TopErrors(r[c]) > TopErrors(r[j])
             \/ TopErrors(r[c]) = TopErrors(r[j]) /\ r[c].count > r[j].count
             \/ TopErrors(r[c]) = TopErrors(r[j]) /\ r[c].count = r[j].count /\ c < j
  <2>1. /\ key[c] \in Keys /\ key[j] \in Keys /\ Exceeds(key[c], key[j])
    BY <1>3, <1>6
  <2>2. \/ key[c][1] > key[j][1]
        \/ key[c][1] = key[j][1] /\ key[c][2] > key[j][2]
        \/ key[c][1] = key[j][1] /\ key[c][2] = key[j][2] /\ key[c][3] > key[j][3]
        \/ key[c][1] = key[j][1] /\ key[c][2] = key[j][2] /\ key[c][3] = key[j][3] /\ key[c][4] > key[j][4]
    BY <2>1, ExceedsIs
  <2>3. /\ key[c][1] = TopErrors(r[c]) /\ key[c][2] = r[c].count /\ key[c][3] = -c /\ key[c][4] = 0
        /\ key[j][1] = TopErrors(r[j]) /\ key[j][2] = r[j].count /\ key[j][3] = -j /\ key[j][4] = 0
    BY <1>3, <1>6
  <2>4. c \in Int /\ j \in Int /\ (-c > -j => c < j)
    BY <1>1, <1>6
  <2> QED
    BY <2>2, <2>3, <2>4
<1>8. TopErrors(r[c]) > 0
  <2>1. PICK i \in DOMAIN r : TopErrors(r[i]) > 0
    OBVIOUS
  <2>2. CASE i = c
    BY <2>1, <2>2
  <2>3. CASE i # c
    <3>1. i \in DOMAIN r \ {c}
      BY <2>1, <2>3
    <3>2. TopErrors(r[c]) \in Nat /\ TopErrors(r[i]) \in Nat
      BY <1>2, <1>6, <2>1
    <3>3. TopErrors(r[c]) > TopErrors(r[i]) \/ TopErrors(r[c]) = TopErrors(r[i])
      BY <1>7, <3>1
    <3> QED
      BY <2>1, <3>2, <3>3
  <2> QED
    BY <2>2, <2>3
<1>9. \A i, j \in DOMAIN r : i < j => r[i].importance >= r[j].importance
  BY DEF Sorted
<1>10. Leads(r, c)
  <2>1. ASSUME NEW j \in DOMAIN r \ {c}
        PROVE  \/ TopErrors(r[c]) > TopErrors(r[j])
               \/ TopErrors(r[c]) = TopErrors(r[j]) /\ r[c].count > r[j].count
               \/ /\ TopErrors(r[c]) = TopErrors(r[j]) /\ r[c].count = r[j].count
                  /\ r[c].importance >= r[j].importance /\ c < j
    BY <1>6, <1>7, <1>9
  <2> QED
    BY <1>6, <1>8, <2>1 DEF Leads
<1>11. select_primary_cluster(r) = r[c]
  BY <1>1, <1>10, LeaderIsPrimary
<1>12. /\ m \in 0 .. Len(r) /\ q \in Seq(ClusterRecords)
       /\ \A i \in 1 .. m : q[i] = r[i]
       /\ IF Len(r) > m /\ TopErrors(r[c]) > 0 /\ c > m
          THEN Len(q) = m + 1 /\ q[m + 1] = r[c] ELSE Len(q) = m
  BY CappedIs DEF c
<1> HIDE DEF m, q
<1>13. DOMAIN q = 1 .. Len(q) /\ Len(q) \in Nat /\ IsFiniteSet(DOMAIN q) /\ DOMAIN q \subseteq Int
  BY <1>12, Countable
<1>14. CASE Len(r) > m /\ c > m
  <2> DEFINE k == m + 1
  <2>1. Len(q) = k /\ q[k] = r[c]
    BY <1>8, <1>12, <1>14
  <2>2. ASSUME NEW j \in DOMAIN q \ {k} PROVE j \in DOMAIN r /\ j # c /\ j < c /\ q[j] = r[j]
    BY <1>1, <1>6, <1>12, <1>13, <1>14, <2>1, <2>2
  <2>3. k \in DOMAIN q
    BY <1>12, <1>13, <2>1
  <2> HIDE DEF k
  <2>4. AllSound(q)
    <3>1. ASSUME NEW j \in DOMAIN q PROVE Sound(q[j])
      BY <1>6, <2>1, <2>2 DEF AllSound
    <3> QED
      BY <3>1 DEF AllSound
  <2>5. Leads(q, k)
    <3>1. ASSUME NEW j \in DOMAIN q \ {k}
          PROVE  \/ TopErrors(q[k]) > TopErrors(q[j])
                 \/ TopErrors(q[k]) = TopErrors(q[j]) /\ q[k].count > q[j].count
      <4>1. j \in DOMAIN r \ {c} /\ j < c /\ q[j] = r[j] /\ c \in Int /\ j \in Int
        BY <1>2, <1>6, <2>2
      <4>2. ~(c < j)
        BY <4>1
      <4>3. \/ TopErrors(r[c]) > TopErrors(r[j])
            \/ TopErrors(r[c]) = TopErrors(r[j]) /\ r[c].count > r[j].count
        BY <1>7, <4>1, <4>2
      <4> QED
        BY <2>1, <4>1, <4>3
    <3>2. TopErrors(q[k]) > 0
      BY <1>8, <2>1
    <3> QED
      BY <2>3, <3>1, <3>2 DEF Leads
  <2>6. select_primary_cluster(q) = q[k]
    BY <1>13, <2>4, <2>5, LeaderIsPrimary
  <2> QED
    BY <1>11, <2>1, <2>6 DEF q
<1>15. CASE ~(Len(r) > m /\ c > m)
  <2>1. Len(q) = m
    BY <1>12, <1>15
  <2>2. c \in 1 .. m
    BY <1>1, <1>6, <1>12, <1>15
  <2>3. ASSUME NEW j \in DOMAIN q PROVE j \in DOMAIN r /\ q[j] = r[j]
    BY <1>1, <1>12, <1>13, <2>1, <2>3
  <2>4. c \in DOMAIN q
    BY <1>13, <2>1, <2>2
  <2>5. AllSound(q)
    BY <2>3 DEF AllSound
  <2>6. Leads(q, c)
    BY <1>10, <2>3, <2>4 DEF Leads
  <2>7. select_primary_cluster(q) = q[c]
    BY <1>13, <2>5, <2>6, LeaderIsPrimary
  <2> QED
    BY <1>11, <2>3, <2>4, <2>7 DEF q
<1> QED
  BY <1>14, <1>15
-----------------------------------------------------------------------------
(* The numbers of the explanation.                                         *)

GroupSum(groups) == SumFunction([fp \in DOMAIN groups |-> groups[fp].count])

\* With no line committed the groups are those of the one table there was.
LEMMA StillCounts ==
  ASSUME Aggregated, clu.pc \in Queried, clu.inserts = 0
  PROVE  /\ GroupSum(clu.groups) = Total(logTable, window(clu.ask))
         /\ \A fp \in DOMAIN clu.groups : clu.groups[fp].count > 0
<1> DEFINE W == window(clu.ask)
           G == DOMAIN clu.groups
<1>1. /\ clu.seen = {logTable} /\ logTable \in Tabled
      /\ AfterMessages(clu.ask, clu.groups, clu.seen)
  BY DEF Aggregated, SeenTables, SeenGroups, Queried
<1>2. PICK tc \in clu.seen, ts \in clu.seen, tl \in clu.seen, tm \in clu.seen :
        Torn(clu.ask, clu.groups, clu.seen, tc, ts, tl, tm)
  BY <1>1 DEF AfterMessages
<1>3. tc = logTable
  BY <1>1
<1>4. /\ G \subseteq Fps
      /\ \A fp \in Fps : GroupAt(clu.groups, fp) = Cell(clu.ask, fp, tc, ts, tl, tm)
      /\ GroupsOf(tc, W) \subseteq G
      /\ \A fp \in G : \E t \in clu.seen : fp \in GroupsOf(t, W)
  BY <1>2 DEF Torn
<1>5. G = GroupsOf(logTable, W)
  BY <1>1, <1>3, <1>4
<1> DEFINE of(fp) == {k \in W : k.fp = fp}
<1>6. ASSUME NEW fp \in G PROVE clu.groups[fp].count = Total(logTable, of(fp))
  <2>1. clu.groups[fp] = Cell(clu.ask, fp, tc, ts, tl, tm)
    BY <1>4, <1>6 DEF GroupAt
  <2>2. Cell(clu.ask, fp, tc, ts, tl, tm).count = Total(tc, base(clu.ask, fp))
    BY CellFields
  <2> QED
    BY <1>3, <2>1, <2>2 DEF base
<1>7. W \subseteq RowKinds
  BY BaseIs
<1>8. ASSUME NEW fp \in G PROVE Total(logTable, of(fp)) > 0
  <2>1. PICK k \in W : logTable[k] > 0 /\ fp = k.fp
    BY <1>5, <1>8 DEF GroupsOf, Present
  <2>2. k \in Present(logTable, of(fp)) /\ of(fp) \subseteq RowKinds
    BY <1>7, <2>1 DEF Present
  <2> HIDE DEF of
  <2> QED
    BY <1>1, <2>2, TotalIs
<1> HIDE DEF W
<1>9. Total(logTable, W) = SumFunction([fp \in GroupsOf(logTable, W) |-> Total(logTable, of(fp))])
  BY <1>1, <1>7, TotalByGroup
<1> HIDE DEF of
<1>10. [fp \in GroupsOf(logTable, W) |-> Total(logTable, of(fp))] = [fp \in G |-> clu.groups[fp].count]
  BY <1>5, <1>6
<1>11. GroupSum(clu.groups) = Total(logTable, W)
  BY <1>9, <1>10 DEF GroupSum
<1> QED
  BY <1>6, <1>8, <1>11 DEF W

\* The primary cluster is one of the list.
LEMMA PrimaryIs ==
  ASSUME NEW q \in Seq(ClusterRecords)
  PROVE  select_primary_cluster(q) = NoCluster \/ \E i \in DOMAIN q : select_primary_cluster(q) = q[i]
<1> DEFINE S == select_significant_clusters(q)
           F == {i \in S : TopErrors(q[i]) > 0}
           scores == [i \in F |-> <<candidate_score(q[i]), q[i].count, q[i].importance, -i>>]
           sizes == [i \in S |-> <<q[i].count, q[i].importance, -i, 0>>]
<1>1. IsFiniteSet(DOMAIN q) /\ \A i \in DOMAIN q : q[i] \in ClusterRecords /\ i \in Int
  BY Countable
<1>2. S \subseteq DOMAIN q /\ IsFiniteSet(S)
  <2>1. S \subseteq DOMAIN q
    BY DEF select_significant_clusters
  <2> HIDE DEF S
  <2> QED
    BY <1>1, <2>1, FS_Subset
<1>3. select_primary_cluster(q) = IF S = {} THEN NoCluster
                                  ELSE IF F # {} THEN q[Best(scores)] ELSE q[Best(sizes)]
  BY DEF select_primary_cluster
<1> HIDE DEF S
<1>4. F \subseteq S /\ IsFiniteSet(F)
  BY <1>2, FS_Subset
<1> HIDE DEF F
<1>5. ASSUME NEW i \in S
      PROVE  candidate_score(q[i]) \in Int /\ q[i].count \in Int /\ q[i].importance \in Int /\ i \in Int /\ -i \in Int
  <2>1. q[i] \in ClusterRecords /\ i \in Int
    BY <1>1, <1>2
  <2>2. candidate_score(q[i]) \in Int
    BY <2>1, ScoreIs
  <2>3. q[i].count \in Int /\ q[i].importance \in Int
    BY <2>1, RecordNumbers
  <2> QED
    BY <2>1, <2>2, <2>3
<1>6. Keyed(F, scores)
  <2>1. \A i \in F : scores[i] \in Keys /\ scores[i][4] = -i /\ i \in Int
    BY <1>4, <1>5 DEF Keys
  <2>2. DOMAIN scores = F
    OBVIOUS
  <2> HIDE DEF scores
  <2>3. ASSUME NEW i \in F, NEW j \in F, scores[i] = scores[j] PROVE i = j
    <3>1. -i = -j /\ i \in Int /\ j \in Int
      BY <2>1, <2>3
    <3> QED
      BY <3>1
  <2> QED
    BY <1>4, <2>1, <2>2, <2>3 DEF Keyed
<1>7. Keyed(S, sizes)
  <2>1. \A i \in S : sizes[i] \in Keys /\ sizes[i][3] = -i /\ i \in Int
    BY <1>5 DEF Keys
  <2>2. DOMAIN sizes = S
    OBVIOUS
  <2> HIDE DEF sizes
  <2>3. ASSUME NEW i \in S, NEW j \in S, sizes[i] = sizes[j] PROVE i = j
    <3>1. -i = -j /\ i \in Int /\ j \in Int
      BY <2>1, <2>3
    <3> QED
      BY <3>1
  <2> QED
    BY <1>2, <2>1, <2>2, <2>3 DEF Keyed
<1> HIDE DEF scores, sizes
<1>8. F # {} => Best(scores) \in DOMAIN q
  BY <1>2, <1>4, <1>6, BestIs
<1>9. S # {} => Best(sizes) \in DOMAIN q
  BY <1>2, <1>7, BestIs
<1> QED
  BY <1>3, <1>8, <1>9
-----------------------------------------------------------------------------
(* Triggers and evidence.                                                  *)

\* A list of triggers, no cause of which comes after the primary cluster.
NoLateCause(ts) ==
  /\ ts # <<>> => 1 \in DOMAIN ts
  /\ \A n \in DOMAIN ts :
       /\ ts[n].at \in Int
       /\ FpMessage[ts[n].fp] = "causal" /\ Primary.count > 0 => ts[n].at <= Primary.first

LEMMA TriggersInTime ==
  ASSUME NEW ts \in find_trigger_candidates
  PROVE  NoLateCause(ts)
<1> DEFINE earliest(fp) == Min({k.at : k \in {x \in TriggerKinds : x.fp = fp}})
           picks == {f \in [{k.fp : k \in TriggerKinds} -> TriggerKinds] :
                       \A fp \in DOMAIN f : f[fp].fp = fp /\ f[fp].at = earliest(fp)}
           inTime(s) == \A i, j \in DOMAIN s : i < j => s[i].at <= s[j].at
           Out(s) == [n \in 1 .. Min({3, Len(s)}) |-> [fp |-> s[n].fp, at |-> s[n].at, svc |-> s[n].svc]]
<1>1. find_trigger_candidates = {Out(s) : s \in {x \in UNION {SetToSeqs(Range(f)) : f \in picks} : inTime(x)}}
  BY DEF find_trigger_candidates
<1> HIDE DEF Out, inTime
<1>2. PICK s \in UNION {SetToSeqs(Range(f)) : f \in picks} : ts = Out(s)
  BY <1>1
<1>3. PICK f \in [{k.fp : k \in TriggerKinds} -> TriggerKinds] : s \in SetToSeqs(Range(f))
  BY <1>2
<1> DEFINE R == Range(f)
           c == Cardinality(R)
<1>4. R \subseteq TriggerKinds
  BY DEF Range
<1>5. TriggerKinds \subseteq RowKinds
  BY DEF TriggerKinds, Present
<1> HIDE DEF R
<1>6. IsFiniteSet(R)
  BY <1>4, <1>5, KindsFinite
<1>7. c \in Nat /\ s \in Bijection(1 .. c, R)
  BY <1>3, <1>6, OrderIs DEF R
<1> HIDE DEF c
<1>8. s \in [1 .. c -> R]
  BY <1>7 DEF Bijection, Injection
<1>9. Len(s) = c
  BY <1>7, <1>8, SeqOfLength
<1>10. Min({3, Len(s)}) = IF 3 <= c THEN 3 ELSE c
  BY <1>7, <1>9, MinOfTwo
<1> DEFINE m == IF 3 <= c THEN 3 ELSE c
<1>11. m \in Nat /\ m <= c
  BY <1>7
<1>12. DOMAIN ts = 1 .. m
  BY <1>2, <1>10 DEF Out
<1>13. \A n \in 1 .. m : ts[n].fp = s[n].fp /\ ts[n].at = s[n].at
  BY <1>2, <1>10 DEF Out
<1>18. m = 0 => ts = <<>>
  <2> DEFINE T == {ts[n] : n \in 1 .. m}
  <2>1. ts = [n \in 1 .. m |-> ts[n]]
    BY <1>2, <1>10 DEF Out
  <2>2. \A n \in 1 .. m : ts[n] \in T
    OBVIOUS
  <2> HIDE DEF T, m
  <2>3. ts \in [1 .. m -> T]
    BY <2>1, <2>2
  <2>4. ts \in Seq(T) /\ Len(ts) = m
    BY <1>11, <2>3, SeqOfLength
  <2> QED
    BY <2>4, EmptySeq
<1> HIDE DEF m
<1>14. ASSUME NEW n \in DOMAIN ts
       PROVE  /\ ts[n].at \in Int
              /\ FpMessage[ts[n].fp] = "causal" /\ Primary.count > 0 => ts[n].at <= Primary.first
  <2>1. n \in 1 .. c /\ n \in 1 .. m
    BY <1>7, <1>11, <1>12
  <2>2. s[n] \in TriggerKinds /\ ts[n].fp = s[n].fp /\ ts[n].at = s[n].at
    BY <1>4, <1>8, <1>13, <2>1
  <2>3. s[n].at \in Int
    BY <1>5, <2>2, ClusteringConstants
  <2>4. s[n].at <= search_end(FpMessage[s[n].fp])
    BY <2>2 DEF TriggerKinds
  <2>5. FpMessage[ts[n].fp] = "causal" /\ Primary.count > 0 => ts[n].at <= Primary.first
    BY <2>2, <2>4 DEF search_end
  <2> QED
    BY <2>2, <2>3, <2>5
<1>15. ts # <<>> => 1 \in DOMAIN ts
  BY <1>11, <1>12, <1>18
<1> QED
  BY <1>14, <1>15 DEF NoLateCause

LEMMA MinutesIs ==
  ASSUME NEW delta \in Int, Minutes(delta) >= 0
  PROVE  delta > -2
<1>1. CASE delta >= 0
  BY <1>1
<1>2. CASE ~(delta >= 0)
  <2>1. Minutes(delta) = -((-delta) \div 2)
    BY <1>2 DEF Minutes
  <2> DEFINE d == -delta
  <2>2. d \in Nat /\ delta = -d
    BY <1>2
  <2>3. d \div 2 \in Int /\ -(d \div 2) >= 0
    BY <2>1, <2>2
  <2>4. d < 2
    BY <2>2, <2>3
  <2> QED
    BY <2>2, <2>4
<1> QED
  BY <1>1, <1>2

\* The secondary clusters are a list.
LEMMA SecondaryIs ==
  ASSUME clu.clusters \in Seq(ClusterRecords)
  PROVE  Len(Secondary) \in Nat
<1> DEFINE rest == {i \in select_significant_clusters(clu.clusters) : clu.clusters[i] # Primary}
           order == Descending([i \in rest |-> <<clu.clusters[i].count, -i, 0, 0>>])
           m == Min({4, Cardinality(rest)})
           T == {clu.clusters[order[n]] : n \in 1 .. m}
           f == [n \in 1 .. m |-> clu.clusters[order[n]]]
<1>1. Secondary = f
  BY DEF Secondary
<1>2. rest \subseteq DOMAIN clu.clusters /\ IsFiniteSet(DOMAIN clu.clusters)
  BY Countable DEF select_significant_clusters
<1> HIDE DEF rest
<1>3. Cardinality(rest) \in Nat
  BY <1>2, FS_Subset, FS_CardinalityType
<1>4. m = IF 4 <= Cardinality(rest) THEN 4 ELSE Cardinality(rest)
  BY <1>3, MinOfTwo
<1>5. m \in Nat
  BY <1>3, <1>4
<1> HIDE DEF m, order
<1>6. f \in [1 .. m -> T]
  OBVIOUS
<1> HIDE DEF f, T
<1>7. Len(f) = m
  BY <1>5, <1>6, SeqOfLength
<1> QED
  BY <1>1, <1>5, <1>7

\* A list cut short has elements of its own only.
LEMMA CutKeeps ==
  ASSUME NEW T, NEW items \in Seq(T), NEW max \in Nat
  PROVE  Range(SubSeq(items, 1, Min({max, Len(items)}))) \subseteq T
<1> DEFINE n == Len(items)
           m == Min({max, n})
           s == SubSeq(items, 1, m)
<1>1. n \in Nat
  BY LenProperties
<1>2. m = IF max <= n THEN max ELSE n
  BY <1>1, MinOfTwo
<1>3. m \in 0 .. n /\ 1 \in 1 .. n + 1
  BY <1>1, <1>2
<1> HIDE DEF m
<1>4. s \in Seq(T)
  BY <1>3, Stretch
<1> HIDE DEF s
<1>5. \A j \in DOMAIN s : s[j] \in T
  BY <1>4, LenProperties
<1>6. Range(s) \subseteq T
  BY <1>5 DEF Range
<1> QED
  BY <1>6 DEF s, m

\* The evidence of a list of clusters that no trigger came before.
Plainly == {"failures", "new", "seen before", "secondary", "total", "no clusters"}

LEMMA PlainEvidence ==
  ASSUME NEW x \in Plainly, NEW y \in Plainly, NEW z \in Plainly, NEW k \in Nat
  PROVE  <<x, y>> \o <<>> \o [n \in 1 .. Min({3, k}) |-> z] \in Seq(Plainly) /\ <<x, y>> \in Seq(Plainly)
<1> DEFINE m == Min({3, k})
           tail == [n \in 1 .. m |-> z]
           head == <<x, y>>
<1>1. m = IF 3 <= k THEN 3 ELSE k
  BY MinOfTwo
<1>2. m \in Nat
  BY <1>1
<1> HIDE DEF m
<1>3. tail \in [1 .. m -> Plainly]
  OBVIOUS
<1>4. head \in Seq(Plainly) /\ <<>> \in Seq(Plainly)
  OBVIOUS
<1> HIDE DEF tail, head
<1>5. tail \in Seq(Plainly)
  BY <1>2, <1>3, SeqOfLength
<1>6. head \o <<>> \in Seq(Plainly)
  BY <1>4, ConcatProperties
<1>7. head \o <<>> \o tail \in Seq(Plainly)
  BY <1>5, <1>6, ConcatProperties
<1> QED
  BY <1>4, <1>7 DEF head, tail, m

\* The evidence names a trigger only if one came less than a minute after the
\* primary cluster, or before it.
LEMMA AfterTrigger ==
  ASSUME clu.clusters \in Seq(ClusterRecords), NEW ts,
         "after trigger" \in Range(build_evidence_items(ts))
  PROVE  ts # <<>> /\ Primary.first # NoTime /\ Minutes(Primary.first - ts[1].at) >= 0
<1> DEFINE p == Primary
           minutes == Minutes(p.first - ts[1].at)
           x == "failures"
           y == IF p.baseline = 0 THEN "new" ELSE "seen before"
           z == "secondary"
           k == Len(Secondary)
           few == <<"total", "no clusters">>
           many == <<x, y>> \o <<>> \o [n \in 1 .. Min({3, k}) |-> z]
           items == IF p = NoCluster THEN few ELSE many
<1> SUFFICES ASSUME ~(ts # <<>> /\ p.first # NoTime /\ minutes >= 0) PROVE FALSE
  OBVIOUS
<1>1. build_evidence_items(ts) = SubSeq(items, 1, Min({MaxItems, Len(items)}))
  BY DEF build_evidence_items
<1>2. few \in Seq(Plainly)
  <2> DEFINE u == "total"
             v == "no clusters"
  <2>1. u \in Plainly /\ v \in Plainly
    BY DEF Plainly
  <2> HIDE DEF u, v
  <2>2. 0 \in Nat
    OBVIOUS
  <2>3. <<u, v>> \in Seq(Plainly)
    BY <2>1, <2>2, PlainEvidence
  <2> QED
    BY <2>3 DEF u, v
<1>3. many \in Seq(Plainly)
  <2>1. x \in Plainly /\ y \in Plainly /\ z \in Plainly
    BY DEF Plainly
  <2>2. k \in Nat
    BY SecondaryIs
  <2> HIDE DEF x, y, z, k
  <2> QED
    BY <2>1, <2>2, PlainEvidence
<1>4. items \in Seq(Plainly)
  BY <1>2, <1>3
<1> HIDE DEF items
<1>5. Range(SubSeq(items, 1, Min({MaxItems, Len(items)}))) \subseteq Plainly
  BY <1>4, CutKeeps, ExplanationConstants
<1>6. "after trigger" \in Plainly
  BY <1>1, <1>5
<1> QED
  BY <1>6 DEF Plainly
-----------------------------------------------------------------------------
(* The explanation.                                                        *)

ExplShape == expl = [mode |-> expl.mode, total |-> expl.total, triggers |-> expl.triggers, result |-> expl.result]

\* The result that Summarize gives.
Insufficient == clu.clusters = <<>> \/ Primary = NoCluster
ResultOf(p, llm) ==
  [narrative |-> IF Insufficient THEN "insufficient" ELSE IF llm THEN "llm" ELSE "rules",
   confidence |-> IF Insufficient THEN "low"
                  ELSE IF p # NoAnswer THEN label_from_calibrated_probability(p)
                  ELSE compute_confidence(expl.triggers),
   calibrated |-> ~Insufficient /\ p # NoAnswer,
   primary |-> Primary, items |-> build_evidence_items(expl.triggers)]

TotalFits ==
  clu.pc \in {"triggers", "summary", "done"} /\ clu.inserts = 0 /\ clu.ask.env = "" =>
    expl.total = GroupSum(clu.groups)
TriggersFit ==
  clu.pc \in {"summary", "done"} /\ expl.mode = "regex" => NoLateCause(expl.triggers)
ResultFits ==
  clu.pc = "done" =>
    /\ expl.result.primary = Primary /\ expl.result.items = build_evidence_items(expl.triggers)
    /\ (expl.result.narrative = "insufficient") => Insufficient
    /\ Insufficient => expl.result.confidence = "low" /\ ~expl.result.calibrated
    /\ Insufficient => expl.result.narrative = "insufficient"

ExplInv == ExplShape /\ TotalFits /\ TriggersFit /\ ResultFits

LEMMA ExplInit == ASSUME ExplanationInit PROVE ExplInv
<1>1. clu \in {[pc |-> "counts", ask |-> a, groups |-> <<>>, baseline |-> [fp \in Fps |-> 0],
                ranked |-> <<>>, clusters |-> <<>>, seen |-> {}, inserts |-> 0] : a \in Asks}
  BY DEF ExplanationInit, ClusteringInit
<1> DEFINE zeros == [fp \in Fps |-> 0]
<1> HIDE DEF zeros
<1>2. PICK a \in Asks :
        clu = [pc |-> "counts", ask |-> a, groups |-> <<>>, baseline |-> zeros,
               ranked |-> <<>>, clusters |-> <<>>, seen |-> {}, inserts |-> 0]
  BY <1>1 DEF zeros
<1>3. clu.pc = "counts"
  BY <1>2
<1>4. PICK m \in Modes : expl = [mode |-> m, total |-> 0, triggers |-> <<>>, result |-> NoAnswer]
  BY DEF ExplanationInit
<1>5. ExplShape
  BY <1>4 DEF ExplShape
<1> QED
  BY <1>3, <1>5 DEF ExplInv, TotalFits, TriggersFit, ResultFits

\* What follows from clusters that stay is the same after a step.
LEMMA PrimaryStays == ASSUME clu'.clusters = clu.clusters PROVE Primary' = Primary
  BY DEF Primary

LEMMA ExplStays ==
  ASSUME ExplInv, UNCHANGED expl, clu.pc \notin {"summary", "done"}, clu'.pc \notin {"summary", "done"},
         clu'.pc = "triggers" => clu.pc = "triggers" /\ clu'.inserts # 0
  PROVE  ExplInv'
<1>1. ExplShape' /\ TriggersFit' /\ ResultFits'
  BY DEF ExplInv, ExplShape, TriggersFit, ResultFits
<1>2. TotalFits'
  BY DEF TotalFits
<1> QED
  BY <1>1, <1>2 DEF ExplInv

LEMMA CommitExplains ==
  ASSUME Aggregated, ExplInv, UNCHANGED expl, NEW k \in RowKinds, CommitLine(k)
  PROVE  ExplInv'
<1>1. /\ clu'.pc = clu.pc /\ clu.pc # "done" /\ clu'.inserts = clu.inserts + 1 /\ clu'.clusters = clu.clusters
      /\ clu.inserts \in Nat
  BY CommitChanges DEF Aggregated, SeenTables
<1>2. clu'.inserts # 0
  BY <1>1
<1>3. NoLateCause(expl.triggers) => NoLateCause(expl.triggers)'
  BY <1>1, PrimaryStays DEF NoLateCause
<1>4. ExplShape' /\ TotalFits' /\ ResultFits'
  BY <1>1, <1>2 DEF ExplInv, ExplShape, TotalFits, ResultFits
<1>5. TriggersFit'
  BY <1>1, <1>3 DEF ExplInv, TriggersFit
<1> QED
  BY <1>4, <1>5 DEF ExplInv

LEMMA CountExplains ==
  ASSUME Aggregated, ExplInv, CountLogs
  PROVE  ExplInv'
<1> DEFINE n == Total(logTable, counted_kinds)
<1>1. expl' = [expl EXCEPT !.total = n] /\ Moved("clustered", "triggers") /\ ExplShape
  BY ExplainChanges DEF CountLogs, Aggregated, ExplInv
<1> HIDE DEF n
<1>2. ExplShape' /\ expl'.total = n
  BY <1>1 DEF ExplShape
<1>3. ASSUME clu.inserts = 0, clu.ask.env = "" PROVE n = GroupSum(clu.groups)
  <2>1. counted_kinds = window(clu.ask)
    BY <1>3 DEF counted_kinds, window, Matches
  <2>2. GroupSum(clu.groups) = Total(logTable, window(clu.ask))
    BY <1>1, <1>3, StillCounts DEF Moved, Queried
  <2> QED
    BY <2>1, <2>2 DEF n
<1>4. TotalFits'
  BY <1>1, <1>2, <1>3 DEF TotalFits, Moved
<1>5. TriggersFit' /\ ResultFits'
  BY <1>1 DEF TriggersFit, ResultFits, Moved
<1> QED
  BY <1>2, <1>4, <1>5 DEF ExplInv

LEMMA FindExplains ==
  ASSUME Aggregated, ExplInv, NEW m, FindTriggers(m)
  PROVE  ExplInv'
<1>1. PICK ts \in (IF expl.mode = "regex" THEN find_trigger_candidates ELSE {rare_event_triggers(m)}) :
        expl' = [expl EXCEPT !.triggers = ts]
  BY DEF FindTriggers
<1>2. Moved("triggers", "summary") /\ ExplShape /\ TotalFits
  BY ExplainChanges DEF Aggregated, ExplInv
<1>3. ExplShape' /\ expl'.triggers = ts /\ expl'.mode = expl.mode /\ expl'.total = expl.total
  BY <1>1, <1>2 DEF ExplShape
<1>4. expl.mode = "regex" => NoLateCause(ts)
  BY <1>1, TriggersInTime
<1>5. NoLateCause(ts) => NoLateCause(ts)'
  BY <1>2, PrimaryStays DEF NoLateCause, Moved
<1>6. TriggersFit'
  BY <1>2, <1>3, <1>4, <1>5 DEF TriggersFit, NoLateCause
<1>7. TotalFits' /\ ResultFits'
  BY <1>2, <1>3 DEF TotalFits, ResultFits, Moved
<1> QED
  BY <1>3, <1>6, <1>7 DEF ExplInv

LEMMA SummaryExplains ==
  ASSUME Aggregated, ExplInv, NEW p, NEW llm, Summarize(p, llm)
  PROVE  ExplInv'
<1> DEFINE r == ResultOf(p, llm)
<1>1. expl' = [expl EXCEPT !.result = r]
  BY DEF Summarize, ResultOf, Insufficient
<1>2. /\ r.primary = Primary /\ r.items = build_evidence_items(expl.triggers)
      /\ r.narrative = (IF Insufficient THEN "insufficient" ELSE IF llm THEN "llm" ELSE "rules")
      /\ Insufficient => r.confidence = "low"
      /\ r.calibrated = (~Insufficient /\ p # NoAnswer)
  BY DEF ResultOf
<1> HIDE DEF r
<1>3. Moved("summary", "done") /\ ExplShape /\ TotalFits /\ TriggersFit
  BY ExplainChanges DEF Aggregated, ExplInv
<1>4. /\ ExplShape' /\ expl'.result = r /\ expl'.triggers = expl.triggers /\ expl'.mode = expl.mode
      /\ expl'.total = expl.total
  BY <1>1, <1>3 DEF ExplShape
<1>5. clu'.clusters = clu.clusters /\ Primary' = Primary /\ Insufficient' = Insufficient
  BY <1>3, PrimaryStays DEF Moved, Insufficient
<1>6. NoLateCause(expl.triggers) => NoLateCause(expl.triggers)'
  BY <1>4, <1>5 DEF NoLateCause
<1>7. TriggersFit'
  BY <1>3, <1>4, <1>6 DEF TriggersFit, Moved
<1>8. TotalFits'
  BY <1>3, <1>4 DEF TotalFits, Moved
<1>9. build_evidence_items(expl.triggers)' = build_evidence_items(expl.triggers)
  BY <1>4, <1>5 DEF build_evidence_items, Secondary
<1>10. ResultFits'
  BY <1>2, <1>4, <1>5, <1>9 DEF ResultFits
<1> QED
  BY <1>4, <1>7, <1>8, <1>10 DEF ExplInv

LEMMA ExplNext ==
  ASSUME Aggregated, ExplInv, [ExplanationNext]_explanationVars
  PROVE  ExplInv'
<1>1. RunShape
  BY DEF Aggregated
<1>2. ASSUME NEW k \in RowKinds, CommitLine(k), UNCHANGED expl PROVE ExplInv'
  BY <1>2, CommitExplains
<1>3. ASSUME UNCHANGED expl,
             QueryCounts \/ QueryServices \/ QueryLevels \/ QueryMessages \/ QueryBaseline
      PROVE  ExplInv'
  <2>1. clu.pc \in {"counts", "services", "levels", "messages", "baseline"}
    BY <1>3 DEF QueryCounts, QueryServices, QueryLevels, QueryMessages, QueryBaseline, AtStep
  <2>2. clu'.pc \in {"services", "levels", "messages", "clustered", "baseline", "rank"}
    BY <1>1, <1>3, CountsChanges, ServicesChanges, LevelsChanges, MessagesChanges, BaselineChanges
  <2> QED
    BY <1>3, <2>1, <2>2, ExplStays
<1>4. ASSUME NEW order, NEW embeds, RankAndMerge(order, embeds), UNCHANGED expl PROVE ExplInv'
  BY <1>1, <1>4, RankChanges, ExplStays
<1>5. ASSUME ClusteringNext, UNCHANGED expl PROVE ExplInv'
  BY <1>2, <1>3, <1>4, <1>5 DEF ClusteringNext
<1>6. ASSUME UNCHANGED explanationVars PROVE ExplInv'
  <2>1. clu' = clu /\ expl' = expl /\ logTable' = logTable
    BY <1>6 DEF explanationVars, clusteringVars
  <2>2. Primary' = Primary
    BY <2>1, PrimaryStays
  <2>3. NoLateCause(expl.triggers)' <=> NoLateCause(expl.triggers)
    BY <2>1, <2>2 DEF NoLateCause
  <2>4. build_evidence_items(expl.triggers)' = build_evidence_items(expl.triggers)
    BY <2>1, <2>2 DEF build_evidence_items, Secondary
  <2>5. Insufficient' <=> Insufficient
    BY <2>1, <2>2 DEF Insufficient
  <2> QED
    BY <2>1, <2>2, <2>3, <2>4, <2>5 DEF ExplInv, ExplShape, TotalFits, TriggersFit, ResultFits
<1> QED
  BY <1>5, <1>6, CountExplains, FindExplains, SummaryExplains DEF ExplanationNext

\* The parts of the property.
LEMMA CapFits == ASSUME RankInv PROVE CapKeepsPrimary
<1> SUFFICES ASSUME clu.pc = "triggers", WVolume > 0, WAnomaly = 0, WOnset = 0,
                    \E i \in DOMAIN clu.ranked : TopErrors(clu.ranked[i]) > 0
             PROVE  Primary = select_primary_cluster(clu.ranked)
  BY DEF CapKeepsPrimary
<1>1. FullList(clu.ranked, clu.groups) /\ clu.clusters = capped(clu.ranked)
  BY DEF RankInv, AfterRank
<1>2. clu.ranked \in Seq(ClusterRecords) /\ AllSound(clu.ranked) /\ Sorted(clu.ranked)
  BY <1>1, FullListIs
<1>3. select_primary_cluster(capped(clu.ranked)) = select_primary_cluster(clu.ranked)
  BY <1>2, CapKeeps
<1> QED
  BY <1>1, <1>3 DEF Primary

LEMMA ClustersListed ==
  ASSUME RankInv, clu.pc \in AfterRank
  PROVE  /\ clu.ranked \in Seq(ClusterRecords) /\ clu.clusters \in Seq(ClusterRecords)
         /\ \A i \in DOMAIN clu.clusters : \E j \in DOMAIN clu.ranked : clu.clusters[i] = clu.ranked[j]
<1> DEFINE r == clu.ranked
           q == clu.clusters
           m == Shown(r)
           c == LargestError(r)
<1>1. FullList(r, clu.groups) /\ q = capped(r)
  BY DEF RankInv
<1>2. r \in Seq(ClusterRecords)
  BY <1>1, FullListIs
<1> HIDE DEF r, q
<1>3. /\ m \in 0 .. Len(r) /\ q \in Seq(ClusterRecords)
      /\ \A i \in 1 .. m : q[i] = r[i]
      /\ IF Len(r) > m /\ TopErrors(r[c]) > 0 /\ c > m
         THEN Len(q) = m + 1 /\ q[m + 1] = r[c] /\ c \in DOMAIN r ELSE Len(q) = m
  BY <1>1, <1>2, CappedIs
<1>4. DOMAIN r = 1 .. Len(r) /\ Len(r) \in Nat /\ DOMAIN q = 1 .. Len(q) /\ Len(q) \in Nat
  BY <1>2, <1>3, Countable
<1>5. m \in Nat /\ m <= Len(r) /\ \A i \in 1 .. m : q[i] = r[i]
  BY <1>3, <1>4
<1>6. Len(q) = m \/ (Len(q) = m + 1 /\ q[m + 1] = r[c] /\ c \in DOMAIN r)
  BY <1>3
<1>7. q \in Seq(ClusterRecords)
  BY <1>3
<1> HIDE DEF m, c
<1>8. ASSUME NEW i \in DOMAIN q PROVE \E j \in DOMAIN r : q[i] = r[j]
  <2>1. i \in Int /\ 1 <= i /\ i <= Len(q)
    BY <1>4
  <2>2. CASE i <= m
    <3>1. i \in 1 .. m /\ i \in 1 .. Len(r)
      BY <1>4, <1>5, <2>1, <2>2
    <3>2. q[i] = r[i] /\ i \in DOMAIN r
      BY <1>4, <1>5, <3>1
    <3> QED
      BY <3>2
  <2>3. CASE i > m
    <3>1. Len(q) # m
      BY <1>5, <2>1, <2>3
    <3>2. Len(q) = m + 1 /\ q[m + 1] = r[c] /\ c \in DOMAIN r
      BY <1>6, <3>1
    <3>3. i = m + 1
      BY <1>5, <2>1, <2>3, <3>2
    <3> QED
      BY <3>2, <3>3
  <2> QED
    BY <1>5, <2>1, <2>2, <2>3
<1> QED
  BY <1>2, <1>7, <1>8 DEF r, q

LEMMA TriggersPrecede == ASSUME RankInv, ExplInv PROVE TriggerPrecedesErrors
<1> SUFFICES ASSUME clu.pc = "done", expl.mode = "regex", expl.result.primary.count > 0
             PROVE  LET first == expl.result.primary.first
                    IN /\ \A i \in DOMAIN expl.triggers :
                            FpMessage[expl.triggers[i].fp] = "causal" => expl.triggers[i].at <= first
                       /\ "after trigger" \in Range(expl.result.items) => expl.triggers[1].at < first + 2
  BY DEF TriggerPrecedesErrors
<1>1. /\ expl.result.primary = Primary /\ expl.result.items = build_evidence_items(expl.triggers)
      /\ NoLateCause(expl.triggers)
  BY DEF ExplInv, ResultFits, TriggersFit
<1>2. ASSUME NEW i \in DOMAIN expl.triggers, FpMessage[expl.triggers[i].fp] = "causal"
      PROVE  expl.triggers[i].at <= Primary.first
  BY <1>1, <1>2 DEF NoLateCause
<1>3. ASSUME "after trigger" \in Range(build_evidence_items(expl.triggers))
      PROVE  expl.triggers[1].at < Primary.first + 2
  <2>1. clu.clusters \in Seq(ClusterRecords)
    BY ClustersListed DEF AfterRank
  <2>2. /\ expl.triggers # <<>> /\ Primary.first # NoTime
        /\ Minutes(Primary.first - expl.triggers[1].at) >= 0
    BY <1>3, <2>1, AfterTrigger
  <2>3. expl.triggers[1].at \in Int
    BY <1>1, <2>2 DEF NoLateCause
  <2>4. Primary.first \in Int
    <3>1. Primary # NoCluster
      BY <1>1 DEF NoCluster
    <3>2. PICK i \in DOMAIN clu.clusters : Primary = clu.clusters[i]
      BY <2>1, <3>1, PrimaryIs DEF Primary
    <3>3. Primary \in ClusterRecords
      BY <2>1, <3>2, Countable
    <3> QED
      BY <2>2, <3>3 DEF ClusterRecords, Stamps
  <2>5. Primary.first - expl.triggers[1].at > -2
    BY <2>2, <2>3, <2>4, MinutesIs
  <2> QED
    BY <2>3, <2>4, <2>5
<1> QED
  BY <1>1, <1>2, <1>3

LEMMA NarrativeFits == ASSUME Aggregated, RankInv, ExplInv PROVE NarrativeFitsTotals
<1> SUFFICES ASSUME clu.pc = "done"
             PROVE  /\ expl.result.narrative = "insufficient" =>
                         expl.result.confidence = "low" /\ ~expl.result.calibrated
                    /\ clu.inserts = 0 =>
                         /\ clu.ask.env = "" =>
                              expl.total = SumFunction([fp \in DOMAIN clu.groups |-> clu.groups[fp].count])
                         /\ expl.result.narrative # "insufficient" => expl.result.primary.count > 0
  BY DEF NarrativeFitsTotals
<1>1. expl.result.narrative = "insufficient" => expl.result.confidence = "low" /\ ~expl.result.calibrated
  BY DEF ExplInv, ResultFits
<1>2. ASSUME clu.inserts = 0, clu.ask.env = ""
      PROVE  expl.total = SumFunction([fp \in DOMAIN clu.groups |-> clu.groups[fp].count])
  BY <1>2 DEF ExplInv, TotalFits, GroupSum
<1>3. ASSUME clu.inserts = 0, expl.result.narrative # "insufficient" PROVE expl.result.primary.count > 0
  <2>1. expl.result.primary = Primary /\ ~Insufficient
    BY <1>3 DEF ExplInv, ResultFits
  <2>2. /\ clu.clusters \in Seq(ClusterRecords)
        /\ \A i \in DOMAIN clu.clusters : \E j \in DOMAIN clu.ranked : clu.clusters[i] = clu.ranked[j]
    BY ClustersListed DEF AfterRank
  <2>3. PICK i \in DOMAIN clu.clusters : Primary = clu.clusters[i]
    BY <2>1, <2>2, PrimaryIs DEF Primary, Insufficient
  <2>4. PICK j \in DOMAIN clu.ranked : Primary = clu.ranked[j]
    BY <2>2, <2>3
  <2>5. FullList(clu.ranked, clu.groups)
    BY DEF RankInv, AfterRank
  <2>6. PICK cs, M : Represents(clu.ranked, clu.groups, cs, M)
    BY <2>5 DEF FullList
  <2> DEFINE P == M[j]
             f == [x \in P |-> cs[x].count]
  <2>7. P \subseteq DOMAIN cs /\ StandsFor(clu.ranked[j], cs, P)
    BY <2>6 DEF Represents, Grouping
  <2>8. /\ IsFiniteSet(DOMAIN cs) /\ \A x \in DOMAIN cs : cs[x] \in ClusterRecords
        /\ {cs[x].fp : x \in DOMAIN cs} = DOMAIN clu.groups
        /\ \A x \in DOMAIN cs : cs[x].count = clu.groups[cs[x].fp].count
    BY <2>6 DEF Represents, Plain, Sound, FromGroups
  <2>9. \A fp \in DOMAIN clu.groups : clu.groups[fp].count > 0
    BY <1>3, StillCounts DEF Queried
  <2> HIDE DEF P
  <2>10. \A x \in P : cs[x].count \in Nat /\ cs[x].count > 0
    BY <2>7, <2>8, <2>9 DEF ClusterRecords
  <2>11. IsFiniteSet(P)
    BY <2>7, <2>8, FS_Subset
  <2>12. P # {}
    BY <2>7 DEF StandsFor, FpsOf
  <2>13. f \in [P -> Nat] /\ \E x \in P : f[x] > 0
    BY <2>10, <2>12
  <2> HIDE DEF f
  <2>14. SumFunction(f) > 0
    BY <2>11, <2>13, SumOfSome
  <2>15. clu.ranked[j].count = SumFunction(f)
    BY <2>7 DEF StandsFor, Counts, f
  <2> QED
    BY <2>1, <2>4, <2>14, <2>15
<1> QED
  BY <1>1, <1>2, <1>3

\* Whatever lines are committed between its queries, whatever the weights, limits
\* and modes, the cap leaves the primary cluster, no cause offered comes after the
\* errors, and the narrative fits the numbers beside it.
THEOREM ExplanationRight == ExplanationSpec => []ExplanationFitsWindow
<1> DEFINE Inv == ClusterInv /\ ExplInv
<1>1. ExplanationInit => Inv
  BY AggregatedInit, RankInit, ExplInit DEF ClusterInv
<1>2. Inv /\ [ExplanationNext]_explanationVars => Inv'
  <2>1. ClusterInv /\ [ExplanationNext]_explanationVars => ClusterInv'
    BY ClusterInvNext
  <2>2. ClusterInv /\ ExplInv /\ [ExplanationNext]_explanationVars => ExplInv'
    BY ExplNext DEF ClusterInv
  <2> QED
    BY <2>1, <2>2
<1>3. Inv => ExplanationFitsWindow
  BY CapFits, TriggersPrecede, NarrativeFits DEF ClusterInv, ExplanationFitsWindow
<1> HIDE DEF Inv
<1> QED
  BY <1>1, <1>2, <1>3, PTL DEF ExplanationSpec
=============================================================================
