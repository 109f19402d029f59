--------------------------- MODULE SublistLemmas ---------------------------
(***************************************************************************)
(* What the lists of Sublists are.  The elements of a sublist are those at *)
(* the indices kept, each index once, in order; those of joined lists are  *)
(* theirs, list after list.                                                *)
(***************************************************************************)
EXTENDS Sublists, FiniteSetTheorems, SequenceTheorems, TLAPS

(* The indices of a list are counted from 1 to their number, in order.     *)
LEMMA Counting ==
    ASSUME NEW n \in Nat, NEW I \in SUBSET (1..n)
    PROVE  /\ IsFiniteSet(I) /\ Cardinality(I) \in Nat
           /\ \A i \in I : UpTo(I, i) \in 1..Cardinality(I)
           /\ \A i, j \in I : i < j => UpTo(I, i) < UpTo(I, j)
<1>1. IsFiniteSet(1..n)
  BY FS_Interval
<1>2. IsFiniteSet(I) /\ Cardinality(I) \in Nat
  BY <1>1, FS_Subset, FS_CardinalityType
<1>3. \A T \in SUBSET I : /\ IsFiniteSet(T) /\ Cardinality(T) \in Nat
                          /\ Cardinality(T) <= Cardinality(I)
  BY <1>2, FS_Subset, FS_CardinalityType
<1>4. ASSUME NEW i \in I PROVE UpTo(I, i) \in 1..Cardinality(I)
  <2>. DEFINE T == {j \in I : j <= i}
  <2>1. i \in T
    OBVIOUS
  <2>2. IsFiniteSet(T) /\ Cardinality(T) \in Nat /\ Cardinality(T) <= Cardinality(I)
    BY <1>3
  <2>3. Cardinality(T) # 0
    BY <2>1, <2>2, FS_EmptySet
  <2>. QED  BY <1>2, <2>2, <2>3 DEF UpTo
<1>5. ASSUME NEW i \in I, NEW j \in I, i < j PROVE UpTo(I, i) < UpTo(I, j)
  <2>. DEFINE T == {k \in I : k <= i}
              U == {k \in I : k <= j}
  <2>1. \A k \in I : k \in Nat
    OBVIOUS
  <2>2. \A k \in I : k <= i => k <= j
    BY <1>5, <2>1
  <2>3. T \in SUBSET U
    BY <2>2
  <2>4. j \in U /\ j \notin T
    BY <1>5, <2>1
  <2>5. IsFiniteSet(U) /\ Cardinality(U) \in Nat /\ Cardinality(T) \in Nat
    BY <1>3
  <2>6. Cardinality(T) <= Cardinality(U) /\ Cardinality(T) # Cardinality(U)
    BY <2>3, <2>4, <2>5, FS_Subset
  <2>. QED  BY <2>5, <2>6 DEF UpTo
<1>. QED  BY <1>2, <1>4, <1>5

(* So every number up to the number of indices is that of one of them.     *)
LEMMA NthIndex ==
    ASSUME NEW n \in Nat, NEW I \in SUBSET (1..n)
    PROVE  /\ \A k \in 1..Cardinality(I) : Nth(I, k) \in I /\ UpTo(I, Nth(I, k)) = k
           /\ \A k, l \in 1..Cardinality(I) : k < l => Nth(I, k) < Nth(I, l)
           /\ \A i \in I : Nth(I, UpTo(I, i)) = i
<1>. DEFINE c == Cardinality(I)
            f == [i \in I |-> UpTo(I, i)]
<1>1. /\ IsFiniteSet(I) /\ c \in Nat
      /\ \A i \in I : UpTo(I, i) \in 1..c
      /\ \A i, j \in I : i < j => UpTo(I, i) < UpTo(I, j)
  BY Counting
<1>2. \A i, j \in I : UpTo(I, i) = UpTo(I, j) => i = j
  <2>. SUFFICES ASSUME NEW i \in I, NEW j \in I, i # j
                PROVE  UpTo(I, i) # UpTo(I, j)
    OBVIOUS
  <2>1. i < j \/ j < i
    OBVIOUS
  <2>. QED  BY <1>1, <2>1
<1>3. f \in Injection(I, 1..c)
  BY <1>1, <1>2 DEF Injection, IsInjective
<1>4. IsFiniteSet(1..c) /\ Cardinality(1..c) = c
  BY <1>1, FS_Interval
<1>5. f \in Surjection(I, 1..c)
  BY <1>3, <1>4, FS_Injection
<1>6. \A k \in 1..c : \E i \in I : UpTo(I, i) = k
  BY <1>5 DEF Surjection
<1>7. \A k \in 1..c : Nth(I, k) \in I /\ UpTo(I, Nth(I, k)) = k
  BY <1>6 DEF Nth
<1>8. ASSUME NEW k \in 1..c, NEW l \in 1..c, k < l PROVE Nth(I, k) < Nth(I, l)
  <2>1. Nth(I, k) \in I /\ Nth(I, l) \in I /\ I \subseteq Nat
    BY <1>7
  <2>2. UpTo(I, Nth(I, k)) = k /\ UpTo(I, Nth(I, l)) = l
    BY <1>7
  <2>3. Nth(I, k) # Nth(I, l)
    BY <1>8, <2>2
  <2>4. Nth(I, l) < Nth(I, k) => l < k
    BY <1>1, <2>1, <2>2
  <2>5. Nth(I, k) \in Nat /\ Nth(I, l) \in Nat
    BY <2>1
  <2>6. c \in Nat
    BY <1>1
  <2>7. k \in Int /\ l \in Int
    BY <2>6
  <2>. QED  BY <1>8, <2>3, <2>4, <2>5, <2>7
<1>9. \A i \in I : Nth(I, UpTo(I, i)) = i
  BY <1>1, <1>2, <1>7
<1>. QED  BY <1>7, <1>8, <1>9

(* A set of indices that is not empty has a least one.                     *)
LEMMA LeastIndex ==
    ASSUME NEW n \in Nat, NEW I \in SUBSET (1..n), I # {}
    PROVE  \E i \in I : \A j \in I : i <= j
<1>1. IsFiniteSet(I) /\ Cardinality(I) \in Nat
  BY Counting
<1>2. 1 \in 1..Cardinality(I)
  BY <1>1, FS_EmptySet
<1>3. PICK i \in I : UpTo(I, i) = 1
  BY <1>2, NthIndex
<1>4. ASSUME NEW j \in I, j < i PROVE FALSE
  <2>1. UpTo(I, j) \in 1..Cardinality(I) /\ UpTo(I, j) < UpTo(I, i)
    BY <1>4, Counting
  <2>. QED  BY <1>1, <1>3, <2>1
<1>. QED  BY <1>4

(* The elements of a sublist, and of one that is filtered.                 *)
LEMMA SublistIs ==
    ASSUME NEW S, NEW s \in Seq(S), NEW I \in SUBSET (DOMAIN s)
    PROVE  /\ Sublist(s, I) \in Seq(S)
           /\ Len(Sublist(s, I)) = Cardinality(I)
           /\ DOMAIN Sublist(s, I) = 1..Cardinality(I)
           /\ \A k \in DOMAIN Sublist(s, I) :
                 Nth(I, k) \in I /\ Sublist(s, I)[k] = s[Nth(I, k)]
           /\ \A k, l \in DOMAIN Sublist(s, I) : k < l => Nth(I, k) < Nth(I, l)
           /\ \A k, l \in DOMAIN Sublist(s, I) : Nth(I, k) = Nth(I, l) => k = l
           /\ \A i \in I : /\ UpTo(I, i) \in DOMAIN Sublist(s, I)
                           /\ Nth(I, UpTo(I, i)) = i
<1>. DEFINE t == Sublist(s, I)
            c == Cardinality(I)
<1>1. Len(s) \in Nat /\ DOMAIN s = 1..Len(s) /\ \A i \in DOMAIN s : s[i] \in S
  OBVIOUS
<1>2. I \in SUBSET (1..Len(s))
  BY <1>1
<1>3. c \in Nat /\ \A i \in I : UpTo(I, i) \in 1..c
  BY <1>1, <1>2, Counting
<1>4. /\ \A k \in 1..c : Nth(I, k) \in I
      /\ \A k, l \in 1..c : k < l => Nth(I, k) < Nth(I, l)
      /\ \A i \in I : Nth(I, UpTo(I, i)) = i
  BY <1>1, <1>2, NthIndex
<1>5. t = [k \in 1..c |-> s[Nth(I, k)]]
  BY DEF Sublist
<1>6. t \in Seq(S)
  BY <1>1, <1>3, <1>4, <1>5
<1>7. Len(t) = c /\ DOMAIN t = 1..c
  BY <1>3, <1>5, <1>6
<1>8. ASSUME NEW k \in 1..c, NEW l \in 1..c, Nth(I, k) = Nth(I, l)
      PROVE  k = l
  <2>1. c \in Nat /\ I \subseteq Nat
    BY <1>2, <1>3
  <2>2. Nth(I, k) \in Nat /\ Nth(I, l) \in Nat
    BY <1>4, <2>1
  <2>3. ~(k < l) /\ ~(l < k)
    BY <1>4, <1>8, <2>2
  <2>. QED  BY <2>1, <2>3
<1>. QED  BY <1>3, <1>4, <1>5, <1>6, <1>7, <1>8

(* The place of an index in an order of which the pairs of B are those     *)
(* where the first comes before, and equals stay as they are: the number   *)
(* of indices that are not after it.                                       *)
PlaceIn(B, n, i) ==
    Cardinality({j \in 1..n : <<j, i>> \in B \/ (j <= i /\ <<i, j>> \notin B)})

(* The places are 1 to n, each taken once, and they follow the order.      *)
LEMMA Places ==
    ASSUME NEW n \in Nat, NEW B,
           \A i \in 1..n : <<i, i>> \notin B,
           \A i, j, k \in 1..n :
               /\ <<i, j>> \in B /\ <<j, k>> \in B => <<i, k>> \in B
               /\ <<i, k>> \in B => <<i, j>> \in B \/ <<j, k>> \in B
    PROVE  /\ \A k \in 1..n : \E i \in 1..n : PlaceIn(B, n, i) = k
           /\ \A i, j \in 1..n : PlaceIn(B, n, i) = PlaceIn(B, n, j) => i = j
           /\ \A i, j \in 1..n :
                 PlaceIn(B, n, i) < PlaceIn(B, n, j) =>
                     <<j, i>> \notin B /\ (<<i, j>> \notin B => i < j)
<1>. DEFINE b(j, i) == <<j, i>> \in B
            R(j, i) == b(j, i) \/ (j <= i /\ ~b(i, j))
            T(i) == {j \in 1..n : R(j, i)}
            f == [i \in 1..n |-> PlaceIn(B, n, i)]
<1>1. IsFiniteSet(1..n) /\ Cardinality(1..n) = n
  BY FS_Interval
<1>2. \A i \in 1..n : i \in Nat
  OBVIOUS
<1>0. /\ \A i \in 1..n : ~b(i, i)
      /\ \A i, j, k \in 1..n :
            /\ b(i, j) /\ b(j, k) => b(i, k)
            /\ b(i, k) => b(i, j) \/ b(j, k)
  OBVIOUS
<1>7. \A i \in 1..n : PlaceIn(B, n, i) = Cardinality({j \in 1..n : R(j, i)})
  BY DEF PlaceIn
<1>. HIDE DEF b
<1>a. \A i, j \in 1..n : b(i, j) => ~b(j, i)
  <2>. SUFFICES ASSUME NEW i \in 1..n, NEW j \in 1..n, b(i, j), b(j, i)
                PROVE  FALSE
    OBVIOUS
  <2>1. b(i, i)
    BY <1>0
  <2>. QED  BY <2>1, <1>0
<1>3. \A i \in 1..n : R(i, i)
  BY <1>0, <1>2
<1>4. \A i, j \in 1..n : R(i, j) \/ R(j, i)
  BY <1>0, <1>2
<1>5. \A i, j \in 1..n : R(i, j) /\ R(j, i) => i = j
  <2>. SUFFICES ASSUME NEW i \in 1..n, NEW j \in 1..n, R(i, j), R(j, i)
                PROVE  i = j
    OBVIOUS
  <2>1. ~b(i, j) \/ ~b(j, i)
    BY <1>a
  <2>2. i <= j /\ j <= i
    BY <2>1
  <2>. QED  BY <2>2, <1>2
<1>6. \A i, j, k \in 1..n : R(i, j) /\ R(j, k) => R(i, k)
  <2>. SUFFICES ASSUME NEW i \in 1..n, NEW j \in 1..n, NEW k \in 1..n,
                       R(i, j), R(j, k)
                PROVE  R(i, k)
    OBVIOUS
  <2>1. CASE b(i, j)
    <3>1. b(i, k) \/ b(k, j)
      BY <2>1, <1>0
    <3>2. b(k, j) => b(j, k)
      OBVIOUS
    <3>3. ~b(k, j)
      BY <3>2, <1>a
    <3>. QED  BY <3>1, <3>3
  <2>2. CASE b(j, k)
    <3>1. b(j, i) \/ b(i, k)
      BY <2>2, <1>0
    <3>2. b(j, i) => b(i, j)
      OBVIOUS
    <3>3. ~b(j, i)
      BY <3>2, <1>a
    <3>. QED  BY <3>1, <3>3
  <2>3. CASE ~b(i, j) /\ ~b(j, k)
    <3>1. i <= j /\ j <= k /\ ~b(j, i) /\ ~b(k, j)
      BY <2>3
    <3>2. i <= k
      BY <3>1, <1>2
    <3>3. ~b(k, i)
      BY <3>1, <1>0
    <3>. QED  BY <3>2, <3>3
  <2>. QED  BY <2>1, <2>2, <2>3
<1>. HIDE DEF R
<1>8. \A i \in 1..n : /\ IsFiniteSet(T(i)) /\ Cardinality(T(i)) \in Nat
                      /\ Cardinality(T(i)) <= n /\ Cardinality(T(i)) # 0
  <2>. TAKE i \in 1..n
  <2>1. T(i) \subseteq 1..n /\ i \in T(i)
    BY <1>3
  <2>2. IsFiniteSet(T(i)) /\ Cardinality(T(i)) <= n
    BY <1>1, <2>1, FS_Subset
  <2>. QED  BY <2>1, <2>2, FS_CardinalityType, FS_EmptySet
<1>9. \A i, j \in 1..n : i # j /\ R(i, j) => PlaceIn(B, n, i) < PlaceIn(B, n, j)
  <2>. SUFFICES ASSUME NEW i \in 1..n, NEW j \in 1..n, i # j, R(i, j)
                PROVE  PlaceIn(B, n, i) < PlaceIn(B, n, j)
    OBVIOUS
  <2>1. T(i) \subseteq T(j)
    BY <1>6
  <2>2. j \in T(j) /\ j \notin T(i)
    BY <1>3, <1>5
  <2>3. Cardinality(T(i)) <= Cardinality(T(j)) /\ Cardinality(T(i)) # Cardinality(T(j))
    BY <1>8, <2>1, <2>2, FS_Subset
  <2>4. PlaceIn(B, n, i) = Cardinality(T(i)) /\ PlaceIn(B, n, j) = Cardinality(T(j))
    BY <1>7
  <2>. QED  BY <1>8, <2>3, <2>4
<1>10. \A i \in 1..n : PlaceIn(B, n, i) \in 1..n
  <2>. TAKE i \in 1..n
  <2>1. PlaceIn(B, n, i) = Cardinality(T(i))
    BY <1>7
  <2>2. Cardinality(T(i)) \in Nat /\ Cardinality(T(i)) <= n /\ Cardinality(T(i)) # 0
    BY <1>8
  <2>. HIDE DEF T
  <2>. QED  BY <2>1, <2>2
<1>11. \A i, j \in 1..n : PlaceIn(B, n, i) = PlaceIn(B, n, j) => i = j
  <2>. SUFFICES ASSUME NEW i \in 1..n, NEW j \in 1..n, i # j
                PROVE  PlaceIn(B, n, i) # PlaceIn(B, n, j)
    OBVIOUS
  <2>1. PlaceIn(B, n, i) < PlaceIn(B, n, j) \/ PlaceIn(B, n, j) < PlaceIn(B, n, i)
    BY <1>4, <1>9
  <2>2. PlaceIn(B, n, i) \in Int /\ PlaceIn(B, n, j) \in Int
    BY <1>10
  <2>. QED  BY <2>1, <2>2
<1>12. f \in Injection(1..n, 1..n)
  BY <1>10, <1>11 DEF Injection, IsInjective
<1>13. f \in Surjection(1..n, 1..n)
  BY <1>1, <1>12, FS_Injection
<1>14. \A k \in 1..n : \E i \in 1..n : PlaceIn(B, n, i) = k
  BY <1>13 DEF Surjection
<1>15. ASSUME NEW i \in 1..n, NEW j \in 1..n, PlaceIn(B, n, i) < PlaceIn(B, n, j)
       PROVE  <<j, i>> \notin B /\ (<<i, j>> \notin B => i < j)
  <2>1. PlaceIn(B, n, i) \in Int /\ PlaceIn(B, n, j) \in Int
    BY <1>10
  <2>2. i # j
    BY <1>15, <2>1
  <2>3. ~R(j, i)
    BY <1>9, <1>15, <2>1, <2>2
  <2>. QED  BY <1>0, <1>2, <2>2, <2>3 DEF R, b
<1>. QED  BY <1>11, <1>14, <1>15

(* A set of indices that is not empty has a last one.                      *)
LEMMA GreatestIndex ==
    ASSUME NEW n \in Nat, NEW I \in SUBSET (1..n), I # {}
    PROVE  \E i \in I : \A j \in I : j <= i
<1>1. IsFiniteSet(I) /\ Cardinality(I) \in Nat
  BY Counting
<1>2. Cardinality(I) \in 1..Cardinality(I)
  BY <1>1, FS_EmptySet
<1>3. PICK i \in I : UpTo(I, i) = Cardinality(I)
  BY <1>2, NthIndex
<1>4. ASSUME NEW j \in I, i < j PROVE FALSE
  <2>1. UpTo(I, j) \in 1..Cardinality(I) /\ UpTo(I, i) < UpTo(I, j)
    BY <1>4, Counting
  <2>. QED  BY <1>1, <1>3, <2>1
<1>. QED  BY <1>4

-----------------------------------------------------------------------------
(* Joined.                                                                 *)

(* The recursive function in Joined exists.                                *)
LEMMA UptoExists ==
    ASSUME NEW S, NEW ss \in Seq(Seq(S)), NEW n \in 0..Len(ss)
    PROVE  \E f : f = [k \in 0..n |-> IF k = 0 THEN <<>> ELSE f[k - 1] \o ss[k]]
<1>. DEFINE P(m) == \E f : f = [k \in 0..m |->
                                 IF k = 0 THEN <<>> ELSE f[k - 1] \o ss[k]]
            Bad == {m \in 1..Len(ss) : ~P(m)}
<1>1. P(0)
  <2>. DEFINE f == [k \in 0..0 |-> <<>>]
  <2>1. f = [k \in 0..0 |-> IF k = 0 THEN <<>> ELSE f[k - 1] \o ss[k]]
    OBVIOUS
  <2>. HIDE DEF f
  <2>. QED  BY <2>1
<1>2. ASSUME NEW m \in 1..Len(ss), P(m - 1)
      PROVE  P(m)
  <2>1. PICK f : f = [k \in 0..(m - 1) |->
                        IF k = 0 THEN <<>> ELSE f[k - 1] \o ss[k]]
    BY <1>2
  <2>. DEFINE g == [k \in 0..m |-> IF k = m THEN f[m - 1] \o ss[m] ELSE f[k]]
  <2>2. m \in Nat /\ m # 0 /\ m - 1 \in 0..m /\ m - 1 # m
    OBVIOUS
  <2>3. g[m - 1] = f[m - 1]
    BY <2>2
  <2>4. ASSUME NEW k \in 0..m
        PROVE  g[k] = IF k = 0 THEN <<>> ELSE g[k - 1] \o ss[k]
    <3>1. CASE k = m
      BY <3>1, <2>2, <2>3
    <3>2. CASE k # m
      <4>1. k \in 0..(m - 1) /\ g[k] = f[k]
        BY <3>2, <2>2
      <4>2. k # 0 => g[k - 1] = f[k - 1]
        BY <3>2, <2>2
      <4>. HIDE DEF g
      <4>. QED  BY <4>1, <4>2, <2>1
    <3>. QED  BY <3>1, <3>2
  <2>5. g = [k \in 0..m |-> g[k]]
    OBVIOUS
  <2>. HIDE DEF g
  <2>6. g = [k \in 0..m |-> IF k = 0 THEN <<>> ELSE g[k - 1] \o ss[k]]
    BY <2>4, <2>5
  <2>. QED  BY <2>6
<1>. HIDE DEF P
<1>3. Bad = {}
  <2>. SUFFICES ASSUME Bad # {} PROVE FALSE
    OBVIOUS
  <2>0. Len(ss) \in Nat
    OBVIOUS
  <2>1. PICK m \in Bad : \A j \in Bad : m <= j
    BY <2>0, LeastIndex
  <2>2. m - 1 \notin Bad /\ m \in 1..Len(ss)
    BY <2>1, <2>0
  <2>3. P(m - 1)
    BY <2>2, <2>0, <1>1
  <2>. QED  BY <2>1, <2>2, <2>3, <1>2
<1>4. P(n)
  BY <1>1, <1>3
<1>. QED  BY <1>4 DEF P

LEMMA JoinedUnfolds ==
    ASSUME NEW S, NEW ss \in Seq(Seq(S))
    PROVE  \E f : /\ f = [k \in 0..Len(ss) |->
                            IF k = 0 THEN <<>> ELSE f[k - 1] \o ss[k]]
                  /\ Joined(ss) = f[Len(ss)]
<1>. DEFINE f == CHOOSE g : g = [k \in 0..Len(ss) |->
                                   IF k = 0 THEN <<>> ELSE g[k - 1] \o ss[k]]
<1>1. Joined(ss) = f[Len(ss)]
  BY DEF Joined
<1>2. Len(ss) \in 0..Len(ss)
  OBVIOUS
<1>3. \E g : g = [k \in 0..Len(ss) |-> IF k = 0 THEN <<>> ELSE g[k - 1] \o ss[k]]
  BY <1>2, UptoExists
<1>4. f = [k \in 0..Len(ss) |-> IF k = 0 THEN <<>> ELSE f[k - 1] \o ss[k]]
  BY <1>3
<1>. HIDE DEF f
<1>. QED  BY <1>1, <1>4

(* In the list c the list of index i begins after start[i] elements, and   *)
(* nothing else is in it.                                                  *)
JoinedAt(ss, c, start) ==
    /\ start \in [DOMAIN ss -> Nat]
    /\ \A i \in DOMAIN ss : \A j \in DOMAIN ss[i] :
          start[i] + j \in DOMAIN c /\ c[start[i] + j] = ss[i][j]
    /\ \A k \in DOMAIN c :
          \E i \in DOMAIN ss : \E j \in DOMAIN ss[i] : k = start[i] + j
    /\ \A i, h \in DOMAIN ss : i < h => start[i] + Len(ss[i]) <= start[h]

(* The joined list has such places.                                        *)
LEMMA JoinedIs ==
    ASSUME NEW S, NEW ss \in Seq(Seq(S))
    PROVE  /\ Joined(ss) \in Seq(S)
           /\ \E start : JoinedAt(ss, Joined(ss), start)
<1>. DEFINE N == Len(ss)
<1>0. N \in Nat /\ DOMAIN ss = 1..N
  OBVIOUS
<1>1. PICK f : /\ f = [k \in 0..N |-> IF k = 0 THEN <<>> ELSE f[k - 1] \o ss[k]]
               /\ Joined(ss) = f[N]
  BY JoinedUnfolds
<1>2. f[0] = <<>>
  BY <1>0, <1>1
<1>3. ASSUME NEW m \in 1..N PROVE f[m] = f[m - 1] \o ss[m]
  <2>1. m \in 0..N /\ m # 0
    BY <1>0
  <2>. HIDE DEF N
  <2>2. f[m] = IF m = 0 THEN <<>> ELSE f[m - 1] \o ss[m]
    BY <2>1, <1>1
  <2>. QED  BY <2>1, <2>2
<1>. DEFINE Q(m) ==
         /\ f[m] \in Seq(S)
         /\ \A i \in 1..m : \A j \in DOMAIN ss[i] :
               /\ Len(f[i - 1]) \in Nat
               /\ Len(f[i - 1]) + j \in DOMAIN f[m]
               /\ f[m][Len(f[i - 1]) + j] = ss[i][j]
         /\ \A k \in DOMAIN f[m] :
               \E i \in 1..m : \E j \in DOMAIN ss[i] : k = Len(f[i - 1]) + j
         /\ \A i \in 1..m : /\ Len(f[i - 1]) \in Nat
                             /\ Len(f[i - 1]) + Len(ss[i]) <= Len(f[m])
         /\ \A i, h \in 1..m : i < h => Len(f[i - 1]) + Len(ss[i]) <= Len(f[h - 1])
       Bad == {m \in 1..N : ~Q(m)}
<1>4. Q(0)
  BY <1>2
<1>5. ASSUME NEW m \in 1..N, Q(m - 1)
      PROVE  Q(m)
  <2>. DEFINE b == f[m - 1]  c == f[m]
  <2>1. /\ b \in Seq(S) /\ ss[m] \in Seq(S) /\ c = b \o ss[m]
        /\ m \in Nat \ {0} /\ m - 1 \in Nat
    <3>1. c = b \o ss[m]
      BY <1>3
    <3>2. m \in Nat \ {0} /\ m - 1 \in Nat /\ ss[m] \in Seq(S)
      BY <1>0
    <3>3. b \in Seq(S)
      BY <1>5
    <3>. QED  BY <3>1, <3>2, <3>3
  <2>2. /\ Len(b) \in Nat /\ Len(ss[m]) \in Nat
        /\ DOMAIN b = 1..Len(b) /\ DOMAIN ss[m] = 1..Len(ss[m])
        /\ c \in Seq(S) /\ Len(c) = Len(b) + Len(ss[m]) /\ DOMAIN c = 1..Len(c)
        /\ \A k \in 1..Len(b) : c[k] = b[k]
        /\ \A j \in 1..Len(ss[m]) : c[Len(b) + j] = ss[m][j]
    <3>. HIDE DEF b, c
    <3>. QED  BY <2>1
  <2>3. \A i \in 1..m : i = m \/ i \in 1..(m - 1)
    BY <2>1
  <2>4. \A i \in 1..(m - 1) :
          /\ Len(f[i - 1]) \in Nat /\ Len(f[i - 1]) + Len(ss[i]) <= Len(b)
          /\ \A j \in DOMAIN ss[i] : /\ Len(f[i - 1]) + j \in DOMAIN b
                                     /\ b[Len(f[i - 1]) + j] = ss[i][j]
    BY <1>5
  <2>5. \A k \in DOMAIN b :
          \E i \in 1..(m - 1) : \E j \in DOMAIN ss[i] : k = Len(f[i - 1]) + j
    BY <1>5
  <2>6. \A i, h \in 1..(m - 1) : i < h => Len(f[i - 1]) + Len(ss[i]) <= Len(f[h - 1])
    BY <1>5
  <2>7. \A i \in 1..(m - 1) : Len(ss[i]) \in Nat /\ i \in 1..m /\ i \in Nat /\ i < m
    BY <1>0, <2>1
  <2>. HIDE DEF Q, Bad, N
  <2>8. \A i \in 1..m : \A j \in DOMAIN ss[i] :
          /\ Len(f[i - 1]) \in Nat
          /\ Len(f[i - 1]) + j \in DOMAIN c
          /\ c[Len(f[i - 1]) + j] = ss[i][j]
    <3>. SUFFICES ASSUME NEW i \in 1..m, NEW j \in DOMAIN ss[i]
                  PROVE  /\ Len(f[i - 1]) \in Nat
                         /\ Len(f[i - 1]) + j \in DOMAIN c
                         /\ c[Len(f[i - 1]) + j] = ss[i][j]
      OBVIOUS
    <3>1. CASE i = m
      <4>1. j \in 1..Len(ss[m]) /\ Len(f[i - 1]) = Len(b)
        BY <2>2, <3>1
      <4>. HIDE DEF b, c
      <4>2. Len(b) + j \in 1..Len(c)
        BY <4>1, <2>2
      <4>. QED  BY <3>1, <4>1, <4>2, <2>2
    <3>2. CASE i \in 1..(m - 1)
      <4>. DEFINE k == Len(f[i - 1]) + j
      <4>1. /\ Len(f[i - 1]) \in Nat /\ k \in DOMAIN b /\ b[k] = ss[i][j]
        BY <3>2, <2>4
      <4>. HIDE DEF b, c, k
      <4>2. k \in 1..Len(c) /\ c[k] = b[k]
        BY <4>1, <2>2
      <4>. QED  BY <4>1, <4>2, <2>2 DEF k
    <3>. QED  BY <3>1, <3>2, <2>3
  <2>9. \A k \in DOMAIN c :
          \E i \in 1..m : \E j \in DOMAIN ss[i] : k = Len(f[i - 1]) + j
    <3>. SUFFICES ASSUME NEW k \in DOMAIN c
                  PROVE  \E i \in 1..m : \E j \in DOMAIN ss[i] : k = Len(f[i - 1]) + j
      OBVIOUS
    <3>1. CASE k \in DOMAIN b
      BY <3>1, <2>5, <2>7
    <3>2. CASE k \notin DOMAIN b
      <4>. DEFINE j == k - Len(b)
      <4>1. j \in 1..Len(ss[m]) /\ k = Len(b) + j
        <5>. HIDE DEF b, c
        <5>. QED  BY <3>2, <2>2
      <4>. HIDE DEF j
      <4>2. j \in DOMAIN ss[m] /\ k = Len(f[m - 1]) + j /\ m \in 1..m
        BY <4>1, <2>1, <2>2
      <4>. QED  BY <4>2
    <3>. QED  BY <3>1, <3>2
  <2>10. \A i \in 1..m : /\ Len(f[i - 1]) \in Nat
                         /\ Len(f[i - 1]) + Len(ss[i]) <= Len(c)
    <3>. SUFFICES ASSUME NEW i \in 1..m
                  PROVE  /\ Len(f[i - 1]) \in Nat
                         /\ Len(f[i - 1]) + Len(ss[i]) <= Len(c)
      OBVIOUS
    <3>1. CASE i = m
      BY <3>1, <2>2
    <3>2. CASE i \in 1..(m - 1)
      <4>1. /\ Len(f[i - 1]) \in Nat /\ Len(f[i - 1]) + Len(ss[i]) <= Len(b)
            /\ Len(ss[i]) \in Nat
        BY <3>2, <2>4, <2>7
      <4>. DEFINE x == Len(f[i - 1])  y == Len(ss[i])
      <4>2. x \in Nat /\ y \in Nat /\ x + y <= Len(b)
        BY <4>1
      <4>. HIDE DEF b, c, x, y
      <4>3. x + y <= Len(c)
        BY <4>2, <2>2
      <4>. QED  BY <4>2, <4>3 DEF x, y
    <3>. QED  BY <3>1, <3>2, <2>3
  <2>11. \A i, h \in 1..m : i < h => Len(f[i - 1]) + Len(ss[i]) <= Len(f[h - 1])
    <3>. SUFFICES ASSUME NEW i \in 1..m, NEW h \in 1..m, i < h
                  PROVE  Len(f[i - 1]) + Len(ss[i]) <= Len(f[h - 1])
      OBVIOUS
    <3>1. i \in 1..(m - 1)
      BY <2>1
    <3>2. CASE h = m
      BY <3>1, <3>2, <2>4
    <3>3. CASE h \in 1..(m - 1)
      BY <3>1, <3>3, <2>6
    <3>. QED  BY <3>2, <3>3, <2>3
  <2>. QED  BY <2>2, <2>8, <2>9, <2>10, <2>11 DEF Q
<1>. HIDE DEF Q
<1>6. Bad = {}
  <2>. SUFFICES ASSUME Bad # {} PROVE FALSE
    OBVIOUS
  <2>1. PICK m \in Bad : \A j \in Bad : m <= j
    <3>1. Bad \in SUBSET (1..N)
      OBVIOUS
    <3>. HIDE DEF Bad, N
    <3>. QED  BY <1>0, <3>1, LeastIndex
  <2>2. m - 1 \notin Bad /\ m \in 1..N
    BY <2>1, <1>0
  <2>3. Q(m - 1)
    BY <2>2, <1>0, <1>4
  <2>. QED  BY <2>1, <2>2, <2>3, <1>5
<1>7. Q(N)
  BY <1>0, <1>4, <1>6
<1>. DEFINE start == [i \in DOMAIN ss |-> Len(f[i - 1])]
<1>8. /\ \A i \in DOMAIN ss : /\ start[i] = Len(f[i - 1]) /\ start[i] \in Nat
      /\ start \in [DOMAIN ss -> Nat]
  BY <1>0, <1>7 DEF Q
<1>. HIDE DEF start, N
<1>9. JoinedAt(ss, f[N], start)
  <2>1. \A i \in DOMAIN ss : \A j \in DOMAIN ss[i] :
          start[i] + j \in DOMAIN f[N] /\ f[N][start[i] + j] = ss[i][j]
    BY <1>0, <1>7, <1>8 DEF Q
  <2>2. \A k \in DOMAIN f[N] :
          \E i \in DOMAIN ss : \E j \in DOMAIN ss[i] : k = start[i] + j
    <3>. SUFFICES ASSUME NEW k \in DOMAIN f[N]
                  PROVE  \E i \in DOMAIN ss : \E j \in DOMAIN ss[i] : k = start[i] + j
      OBVIOUS
    <3>1. PICK i \in 1..N : \E j \in DOMAIN ss[i] : k = Len(f[i - 1]) + j
      BY <1>7 DEF Q
    <3>2. i \in DOMAIN ss /\ start[i] = Len(f[i - 1])
      BY <1>0, <1>8
    <3>. QED  BY <3>1, <3>2
  <2>3. \A i, h \in DOMAIN ss : i < h => start[i] + Len(ss[i]) <= start[h]
    BY <1>0, <1>7, <1>8 DEF Q
  <2>. QED  BY <1>8, <2>1, <2>2, <2>3 DEF JoinedAt
<1>. QED  BY <1>1, <1>7, <1>9 DEF Q
=============================================================================
