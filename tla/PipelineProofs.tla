-------------------------- MODULE PipelineProofs --------------------------
(***************************************************************************)
(* What a run of the pipeline gives, for every number of slots, every      *)
(* profile and every answer of the sources, in every order.                *)
(***************************************************************************)
EXTENDS Pipeline, SublistLemmas, TLAPS

(* Strings have places in their order, one each.                           *)
LEMMA RankIs ==
    /\ \A w \in Strings : Rank[w] \in Int
    /\ \A v, w \in Strings : Rank[v] = Rank[w] => v = w
<1>1. Rank \in [Strings -> Int]
  BY EngineAssumption
<1>2. \A v, w \in Strings : Rank[v] = Rank[w] => v = w
  BY EngineAssumption
<1>. QED  BY <1>1, <1>2

(* The order of strings, word by word, is a strict total order.            *)
LEMMA EarlierIsNot ==
    ASSUME NEW a \in Seq(Strings)
    PROVE  ~Earlier(a, a)
<1>. SUFFICES ASSUME Earlier(a, a) PROVE FALSE
  OBVIOUS
<1>1. PICK i \in 1..Len(a) : i \notin DOMAIN a \/ Rank[a[i]] < Rank[a[i]]
  BY DEF Earlier
<1>2. i \in DOMAIN a /\ a[i] \in Strings
  OBVIOUS
<1>3. Rank[a[i]] \in Int
  BY <1>2, RankIs
<1>. QED  BY <1>1, <1>2, <1>3

LEMMA EarlierGoesOn ==
    ASSUME NEW a \in Seq(Strings), NEW b \in Seq(Strings), NEW c \in Seq(Strings),
           Earlier(a, b), Earlier(b, c)
    PROVE  Earlier(a, c)
<1>1. PICK i \in 1..Len(b) :
          /\ \A k \in 1..(i - 1) : k \in DOMAIN a /\ a[k] = b[k]
          /\ i \notin DOMAIN a \/ Rank[a[i]] < Rank[b[i]]
  BY DEF Earlier
<1>2. PICK j \in 1..Len(c) :
          /\ \A k \in 1..(j - 1) : k \in DOMAIN b /\ b[k] = c[k]
          /\ j \notin DOMAIN b \/ Rank[b[j]] < Rank[c[j]]
  BY DEF Earlier
<1>3. \A k \in DOMAIN a : Rank[a[k]] \in Int
  <2>1. \A k \in DOMAIN a : a[k] \in Strings
    OBVIOUS
  <2>. QED  BY <2>1, RankIs
<1>4. \A k \in DOMAIN b : Rank[b[k]] \in Int
  <2>1. \A k \in DOMAIN b : b[k] \in Strings
    OBVIOUS
  <2>. QED  BY <2>1, RankIs
<1>5. \A k \in DOMAIN c : Rank[c[k]] \in Int
  <2>1. \A k \in DOMAIN c : c[k] \in Strings
    OBVIOUS
  <2>. QED  BY <2>1, RankIs
<1>6. DOMAIN b = 1..Len(b) /\ DOMAIN c = 1..Len(c) /\ Len(b) \in Nat /\ Len(c) \in Nat
  OBVIOUS
<1>7. CASE i < j
  <2>1. i \in 1..(j - 1) /\ i \in 1..Len(c)
    BY <1>6, <1>7
  <2>2. b[i] = c[i]
    BY <1>2, <2>1
  <2>3. \A k \in 1..(i - 1) : k \in DOMAIN a /\ a[k] = c[k]
    BY <1>1, <1>2, <1>6, <1>7
  <2>. QED  BY <1>1, <2>1, <2>2, <2>3 DEF Earlier
<1>8. CASE i = j
  <2>1. Rank[b[i]] < Rank[c[i]]
    BY <1>2, <1>6, <1>8
  <2>2. i \notin DOMAIN a \/ Rank[a[i]] < Rank[c[i]]
    BY <1>1, <1>3, <1>4, <1>5, <1>6, <1>8, <2>1
  <2>3. \A k \in 1..(i - 1) : k \in DOMAIN a /\ a[k] = c[k]
    BY <1>1, <1>2, <1>6, <1>8
  <2>. QED  BY <1>8, <2>2, <2>3 DEF Earlier
<1>9. CASE j < i
  <2>1. j \in 1..(i - 1) /\ j \in DOMAIN b
    BY <1>6, <1>9
  <2>2. j \in DOMAIN a /\ a[j] = b[j]
    BY <1>1, <2>1
  <2>3. Rank[a[j]] < Rank[c[j]]
    BY <1>2, <2>1, <2>2
  <2>4. \A k \in 1..(j - 1) : k \in DOMAIN a /\ a[k] = c[k]
    BY <1>1, <1>2, <1>6, <1>9
  <2>. QED  BY <2>3, <2>4 DEF Earlier
<1>10. i < j \/ i = j \/ j < i
  BY <1>6
<1>. QED  BY <1>7, <1>8, <1>9, <1>10

LEMMA EarlierOrLater ==
    ASSUME NEW a \in Seq(Strings), NEW b \in Seq(Strings), a # b, ~Earlier(b, a)
    PROVE  Earlier(a, b)
<1>. DEFINE D == {i \in 1..Len(b) : i \notin DOMAIN a \/ a[i] # b[i]}
<1>1. /\ DOMAIN a = 1..Len(a) /\ DOMAIN b = 1..Len(b)
      /\ Len(a) \in Nat /\ Len(b) \in Nat
  OBVIOUS
<1>2. CASE D = {}
  <2>1. \A i \in 1..Len(b) : i \in 1..Len(a) /\ a[i] = b[i]
    <3>. SUFFICES ASSUME NEW i \in 1..Len(b) PROVE ~(i \notin DOMAIN a \/ a[i] # b[i])
      BY <1>1
    <3>1. i \notin D
      BY <1>2
    <3>. QED  BY <3>1
  <2>2. Len(b) <= Len(a)
    BY <1>1, <2>1
  <2>3. Len(b) # Len(a)
    <3>1. a = [k \in 1..Len(a) |-> a[k]] /\ b = [k \in 1..Len(b) |-> b[k]]
      BY <1>1
    <3>. QED  BY <2>1, <3>1
  <2>. DEFINE i == Len(b) + 1
  <2>4. i \in 1..Len(a) /\ i \notin DOMAIN b /\ i - 1 = Len(b)
    <3>0. \A x, y \in Nat : y <= x /\ y # x => y < x
      OBVIOUS
    <3>1. Len(b) < Len(a)
      BY <1>1, <2>2, <2>3, <3>0
    <3>2. Len(b) + 1 \in 1..Len(a) /\ Len(b) + 1 \notin 1..Len(b)
      BY <1>1, <3>1
    <3>. QED  BY <1>1, <3>2
  <2>5. \A j \in 1..(i - 1) : j \in DOMAIN b /\ b[j] = a[j]
    BY <1>1, <2>1, <2>4
  <2>. HIDE DEF i
  <2>6. Earlier(b, a)
    BY <2>4, <2>5 DEF Earlier
  <2>. QED  BY <2>6
<1>3. CASE D # {}
  <2>1. PICK i \in D : \A j \in D : i <= j
    <3>. HIDE DEF D
    <3>1. D \in SUBSET (1..Len(b))
      BY DEF D
    <3>. QED  BY <1>1, <1>3, <3>1, LeastIndex
  <2>2. \A j \in 1..(i - 1) : j \in DOMAIN a /\ a[j] = b[j]
    <3>. SUFFICES ASSUME NEW j \in 1..(i - 1) PROVE j \notin D /\ j \in 1..Len(b)
      OBVIOUS
    <3>1. j \in Nat /\ i \in Nat /\ j < i /\ i <= Len(b)
      BY <1>1
    <3>. QED  BY <1>1, <2>1, <3>1
  <2>3. CASE i \notin DOMAIN a
    BY <2>2, <2>3 DEF Earlier
  <2>4. CASE i \in DOMAIN a
    <3>1. a[i] \in Strings /\ b[i] \in Strings /\ a[i] # b[i]
      BY <1>1, <2>4
    <3>2. Rank[a[i]] < Rank[b[i]] \/ Rank[b[i]] < Rank[a[i]]
      <4>1. Rank[a[i]] \in Int /\ Rank[b[i]] \in Int /\ Rank[a[i]] # Rank[b[i]]
        BY <3>1, RankIs
      <4>. QED  BY <4>1
    <3>3. Rank[a[i]] < Rank[b[i]] => Earlier(a, b)
      BY <2>2 DEF Earlier
    <3>4. \A j \in 1..(i - 1) : j \in DOMAIN b /\ b[j] = a[j]
      BY <1>1, <2>2
    <3>5. Rank[b[i]] < Rank[a[i]] => Earlier(b, a)
      BY <1>1, <2>4, <3>4 DEF Earlier
    <3>. QED  BY <3>2, <3>3, <3>5
  <2>. QED  BY <2>3, <2>4
<1>. QED  BY <1>2, <1>3
-----------------------------------------------------------------------------
(* The answers of DetectRegion are strings, and there is one.              *)
LEMMA RegionsAre ==
    ASSUME NEW n \in Nodes
    PROVE  /\ \A server \in Servers :
                 /\ DetectRegion(n.name, server) # {}
                 /\ DetectRegion(n.name, server) \subseteq Strings
           /\ Code(n) \in Strings
<1>1. n.server \in Servers
  BY DEF Nodes
<1>2. \A o \in Occurrences(n.name) : RegionOf[o[1]] \in Strings
  <2>1. \A o \in Occurrences(n.name) : o[1] \in Keywords
    BY DEF Occurrences
  <2>2. \A c \in Codes : c \in Strings
    BY EngineAssumption
  <2>. QED  BY <2>1, <2>2 DEF Codes
<1>3. \A s \in Servers : Geo[s] # {} /\ Geo[s] \subseteq Strings
  BY EngineAssumption
<1>4. ASSUME NEW server \in Servers
      PROVE  /\ DetectRegion(n.name, server) # {}
             /\ DetectRegion(n.name, server) \subseteq Strings
  BY <1>2, <1>3 DEF DetectRegion
<1>5. Code(n) \in DetectRegion(n.name, n.server)
  BY <1>1, <1>4 DEF Code
<1>. QED  BY <1>1, <1>4, <1>5

(* A name that begins with a code and a separator has this region, and     *)
(* only this one unless it is ambiguous.                                   *)
LEMMA LeadIsCode ==
    ASSUME NEW n \in Nodes, Len(n.name) > 1, n.name[1] \in Codes,
           n.name[2] \in Separators, ~Ambiguous(n)
    PROVE  Code(n) = n.name[1]
<1>. DEFINE name == n.name
            c == name[1]
            found == DetectRegion(name, n.server)
            regions == {RegionOf[o[1]] : o \in Occurrences(name)}
<1>1. name \in Seq(Strings) /\ Len(name) \in Nat /\ DOMAIN name = 1..Len(name)
  BY DEF Nodes
<1>2. c \in Strings /\ <<c>> \in Keywords /\ RegionOf[<<c>>] = c
  BY EngineAssumption
<1>3. name[2] \notin Letters
  BY EngineAssumption
<1>4. Occurs(<<c>>, name, 1)
  <2>1. Len(<<c>>) = 1 /\ Len(name) > 1
    OBVIOUS
  <2>. DEFINE u == SubSeq(name, 1, 1)
  <2>2. u \in Seq(Strings) /\ Len(u) = 1 /\ u[1] = c
    <3>1. \A i \in 1..1 : name[i] \in Strings
      BY <1>1, <2>1
    <3>2. /\ u \in Seq(Strings) /\ Len(u) = IF 1 <= 1 THEN 1 - 1 + 1 ELSE 0
          /\ \A i \in 1..(1 - 1 + 1) : u[i] = name[1 + i - 1]
      BY <3>1, SubSeqProperties
    <3>. HIDE DEF u
    <3>. QED  BY <3>2
  <2>. HIDE DEF u, c
  <2>3. u = <<c>>
    BY <2>2
  <2>4. 1 + Len(<<c>>) <= Len(name) + 1 /\ SubSeq(name, 1, 1 + Len(<<c>>) - 1) = <<c>>
    BY <1>1, <2>1, <2>3 DEF u
  <2>5. name[1 + Len(<<c>>)] \notin Letters
    BY <1>3, <2>1
  <2>. QED  BY <2>4, <2>5 DEF Occurs
<1>5. <<<<c>>, 1>> \in Occurrences(name)
  BY <1>1, <1>2, <1>4 DEF Occurrences
<1>6. found = regions
  BY <1>5 DEF DetectRegion
<1>7. c \in regions
  BY <1>2, <1>5
<1>8. IsFiniteSet(found)
  <2>1. IsFiniteSet(Keywords)
    BY EngineAssumption
  <2>. DEFINE image == {RegionOf[k] : k \in Keywords}
              to == [k \in Keywords |-> RegionOf[k]]
  <2>2. IsFiniteSet(image)
    <3>1. to \in Surjection(Keywords, image)
      BY DEF Surjection
    <3>. HIDE DEF to, image
    <3>. QED  BY <2>1, <3>1, FS_Surjection
  <2>3. regions \subseteq {RegionOf[k] : k \in Keywords}
    BY DEF Occurrences
  <2>. QED  BY <1>6, <2>2, <2>3, FS_Subset
<1>9. Cardinality(found) \in Nat /\ ~(Cardinality(found) > 1)
  BY <1>8, FS_CardinalityType DEF Ambiguous
<1>. HIDE DEF found, regions
<1>10. ASSUME NEW d \in found PROVE d = c
  <2>. SUFFICES ASSUME d # c PROVE FALSE
    OBVIOUS
  <2>1. {c, d} \subseteq found
    BY <1>6, <1>7
  <2>2. Cardinality({c, d}) = 2
    <3>1. Cardinality({c}) = 1 /\ IsFiniteSet({c}) /\ d \notin {c}
      BY FS_Singleton
    <3>2. Cardinality({c} \cup {d}) = Cardinality({c}) + 1
      BY <3>1, FS_AddElement
    <3>3. {c} \cup {d} = {c, d}
      OBVIOUS
    <3>4. Cardinality({c} \cup {d}) = 2
      BY <3>1, <3>2
    <3>. QED  BY <3>3, <3>4
  <2>3. Cardinality({c, d}) <= Cardinality(found)
    BY <1>8, <2>1, FS_Subset
  <2>. QED  BY <1>9, <2>2, <2>3
<1>11. Code(n) \in found
  BY <1>6, <1>7 DEF Code, found
<1>. QED  BY <1>10, <1>11

(* Every order of a profile is a strict weak one.                          *)
LEMMA BeforeIsOrder ==
    ASSUME NEW a \in Nodes, NEW b \in Nodes, NEW c \in Nodes, NEW p
    PROVE  /\ ~Before(a, a, p)
           /\ Before(a, b, p) /\ Before(b, c, p) => Before(a, c, p)
           /\ Before(a, c, p) => Before(a, b, p) \/ Before(b, c, p)
<1>1. CASE p.sort = "region"
  <2>1. \A n \in {a, b, c} : Code(n) \in Strings /\ Rank[Code(n)] \in Int
    BY RegionsAre, RankIs
  <2>. DEFINE x == Rank[Code(a)]
              y == Rank[Code(b)]
              z == Rank[Code(c)]
  <2>2. \A m, n : Before(m, n, p) <=> Rank[Code(m)] < Rank[Code(n)]
    BY <1>1 DEF Before
  <2>3. x \in Int /\ y \in Int /\ z \in Int
    BY <2>1
  <2>. HIDE DEF x, y, z
  <2>4. ~(x < x) /\ (x < y /\ y < z => x < z) /\ (x < z => x < y \/ y < z)
    BY <2>3
  <2>. QED  BY <2>2, <2>4 DEF x, y, z
<1>2. CASE p.sort = "name"
  <2>1. /\ a.name \in Seq(Strings) /\ b.name \in Seq(Strings)
        /\ c.name \in Seq(Strings)
    BY DEF Nodes
  <2>2. \A m, n : Before(m, n, p) <=> Earlier(m.name, n.name)
    BY <1>2 DEF Before
  <2>3. ~Before(a, a, p)
    BY <2>1, <2>2, EarlierIsNot
  <2>4. Before(a, b, p) /\ Before(b, c, p) => Before(a, c, p)
    BY <2>1, <2>2, EarlierGoesOn
  <2>5. ASSUME Before(a, c, p), ~Before(a, b, p), ~Before(b, c, p)
        PROVE  FALSE
    <3>1. Earlier(a.name, c.name) /\ ~Earlier(a.name, b.name) /\ ~Earlier(b.name, c.name)
      BY <2>2, <2>5
    <3>2. a.name # b.name
      BY <3>1
    <3>3. Earlier(b.name, a.name)
      BY <2>1, <3>1, <3>2, EarlierOrLater
    <3>. QED  BY <2>1, <3>1, <3>3, EarlierGoesOn
  <2>. QED  BY <2>3, <2>4, <2>5
<1>3. CASE p.sort = "type"
  <2>1. \A n \in {a, b, c} : n.type \in Strings /\ Rank[n.type] \in Int
    BY RankIs DEF Nodes
  <2>. DEFINE x == Rank[a.type]
              y == Rank[b.type]
              z == Rank[c.type]
  <2>2. \A m, n : Before(m, n, p) <=> Rank[m.type] < Rank[n.type]
    BY <1>3 DEF Before
  <2>3. x \in Int /\ y \in Int /\ z \in Int
    BY <2>1
  <2>. HIDE DEF x, y, z
  <2>4. ~(x < x) /\ (x < y /\ y < z => x < z) /\ (x < z => x < y \/ y < z)
    BY <2>3
  <2>. QED  BY <2>2, <2>4 DEF x, y, z
<1>4. CASE p.sort \notin {"region", "name", "type"}
  BY <1>4 DEF Before
<1>. QED  BY <1>1, <1>2, <1>3, <1>4

(* A list in another order.                                                *)
Reorders(f, s) ==
    /\ f \in [DOMAIN s -> DOMAIN s]
    /\ \A k, l \in DOMAIN s : f[k] = f[l] => k = l
    /\ \A i \in DOMAIN s : \E k \in DOMAIN s : f[k] = i

(* A stable sort gives each node one place, in the order of the profile    *)
(* and, where that says nothing, in the order of the list.                 *)
LEMMA StablySortedIs ==
    ASSUME NEW s \in Seq(Nodes), NEW p
    PROVE  \E f : /\ Reorders(f, s)
                  /\ StablySorted(s, p) = [k \in DOMAIN s |-> s[f[k]]]
                  /\ \A k, l \in DOMAIN s : k < l =>
                        /\ ~Before(s[f[l]], s[f[k]], p)
                        /\ ~Before(s[f[k]], s[f[l]], p) => f[k] < f[l]
<1>. DEFINE n == Len(s)
            B == {x \in (1..n) \X (1..n) : Before(s[x[1]], s[x[2]], p)}
            Place(i) == Cardinality({j \in DOMAIN s :
                            \/ Before(s[j], s[i], p)
                            \/ j <= i /\ ~Before(s[i], s[j], p)})
            f == [k \in DOMAIN s |-> CHOOSE i \in DOMAIN s : Place(i) = k]
<1>1. n \in Nat /\ DOMAIN s = 1..n /\ \A i \in DOMAIN s : s[i] \in Nodes
  OBVIOUS
<1>2. \A i, j \in 1..n : <<i, j>> \in B <=> Before(s[i], s[j], p)
  OBVIOUS
<1>3. StablySorted(s, p) = [k \in DOMAIN s |-> s[f[k]]]
  BY DEF StablySorted
<1>4. ASSUME NEW i \in 1..n PROVE Place(i) = PlaceIn(B, n, i)
  <2>. DEFINE P(j) == Before(s[j], s[i], p) \/ (j <= i /\ ~Before(s[i], s[j], p))
              Q(j) == <<j, i>> \in B \/ (j <= i /\ <<i, j>> \notin B)
  <2>1. /\ Place(i) = Cardinality({j \in DOMAIN s : P(j)})
        /\ PlaceIn(B, n, i) = Cardinality({j \in 1..n : Q(j)})
    BY DEF PlaceIn
  <2>. HIDE DEF B, n, Place
  <2>2. ASSUME NEW j \in 1..n PROVE P(j) <=> Q(j)
    <3>1. /\ <<j, i>> \in B <=> Before(s[j], s[i], p)
          /\ <<i, j>> \in B <=> Before(s[i], s[j], p)
      BY <1>2
    <3>. QED  BY <3>1
  <2>3. DOMAIN s = 1..n
    BY <1>1
  <2>. HIDE DEF P, Q
  <2>4. {j \in DOMAIN s : P(j)} = {j \in 1..n : Q(j)}
    BY <2>2, <2>3
  <2>. QED  BY <2>1, <2>4
<1>. HIDE DEF n, B, Place
<1>5. \A i \in 1..n : <<i, i>> \notin B
  BY <1>1, <1>2, BeforeIsOrder
<1>6. \A i, j, k \in 1..n :
         /\ <<i, j>> \in B /\ <<j, k>> \in B => <<i, k>> \in B
         /\ <<i, k>> \in B => <<i, j>> \in B \/ <<j, k>> \in B
  <2>. TAKE i, j, k \in 1..n
  <2>1. /\ Before(s[i], s[j], p) /\ Before(s[j], s[k], p) => Before(s[i], s[k], p)
        /\ Before(s[i], s[k], p) => Before(s[i], s[j], p) \/ Before(s[j], s[k], p)
    BY <1>1, BeforeIsOrder
  <2>. QED  BY <1>2, <2>1
<1>7. /\ \A k \in 1..n : \E i \in 1..n : PlaceIn(B, n, i) = k
      /\ \A i, j \in 1..n : PlaceIn(B, n, i) = PlaceIn(B, n, j) => i = j
      /\ \A i, j \in 1..n :
            PlaceIn(B, n, i) < PlaceIn(B, n, j) =>
                <<j, i>> \notin B /\ (<<i, j>> \notin B => i < j)
  BY <1>1, <1>5, <1>6, Places
<1>8. \A k \in 1..n : \E i \in 1..n : Place(i) = k
  BY <1>4, <1>7
<1>9. \A k \in 1..n : f[k] \in 1..n /\ Place(f[k]) = k
  BY <1>1, <1>8
<1>10. f \in [1..n -> 1..n]
  BY <1>1, <1>9
<1>. HIDE DEF f
<1>11. \A k, l \in 1..n : f[k] = f[l] => k = l
  BY <1>9
<1>12. \A i \in 1..n : \E k \in 1..n : f[k] = i
  <2>1. f \in Injection(1..n, 1..n)
    BY <1>10, <1>11 DEF Injection, IsInjective
  <2>2. f \in Surjection(1..n, 1..n)
    BY <1>1, <2>1, FS_Interval, FS_Injection
  <2>. QED  BY <2>2 DEF Surjection
<1>13. ASSUME NEW k \in 1..n, NEW l \in 1..n, k < l
       PROVE  /\ ~Before(s[f[l]], s[f[k]], p)
              /\ ~Before(s[f[k]], s[f[l]], p) => f[k] < f[l]
  <2>1. f[k] \in 1..n /\ f[l] \in 1..n
    BY <1>9
  <2>2. PlaceIn(B, n, f[k]) = k /\ PlaceIn(B, n, f[l]) = l
    BY <1>4, <1>9
  <2>3. <<f[l], f[k]>> \notin B /\ (<<f[k], f[l]>> \notin B => f[k] < f[l])
    <3>1. PlaceIn(B, n, f[k]) < PlaceIn(B, n, f[l])
      BY <1>13, <2>2
    <3>. QED  BY <1>7, <2>1, <3>1
  <2>. QED  BY <1>2, <2>1, <2>3
<1>14. Reorders(f, s)
  BY <1>1, <1>10, <1>11, <1>12 DEF Reorders
<1>. QED  BY <1>1, <1>3, <1>13, <1>14

(* Whatever order ApplySort leaves, no node is lost or doubled, and the    *)
(* order is that of the names, or of the regions if each node has one.     *)
InOrder(f, s, p) ==
    /\ p.sort = "name" =>
          \A k, l \in DOMAIN s : k < l =>
              /\ ~Earlier(s[f[l]].name, s[f[k]].name)
              /\ ~Earlier(s[f[k]].name, s[f[l]].name) => f[k] < f[l]
    /\ (p.sort = "region" /\ \A i \in DOMAIN s : ~Ambiguous(s[i])) =>
          \A k, l \in DOMAIN s : k < l => ~(Rank[Code(s[f[l]])] < Rank[Code(s[f[k]])])

LEMMA SortedIs ==
    ASSUME NEW s \in Seq(Nodes), NEW p, NEW t \in ApplySort(s, p)
    PROVE  \E f : /\ Reorders(f, s)
                  /\ t = [k \in DOMAIN s |-> s[f[k]]]
                  /\ InOrder(f, s, p)
<1>1. CASE t \in Permuted(s) /\ p.sort = "region" /\ \E i \in DOMAIN s : Ambiguous(s[i])
  <2>1. PICK f \in [DOMAIN s -> DOMAIN s] :
            /\ \A k, l \in DOMAIN s : f[k] = f[l] => k = l
            /\ t = [k \in DOMAIN s |-> s[f[k]]]
    BY <1>1 DEF Permuted
  <2>2. IsFiniteSet(DOMAIN s)
    <3>1. DOMAIN s = 1..Len(s) /\ Len(s) \in Nat
      OBVIOUS
    <3>2. IsFiniteSet(1..Len(s))
      BY <3>1, FS_Interval
    <3>. QED  BY <3>1, <3>2
  <2>3. f \in Injection(DOMAIN s, DOMAIN s)
    BY <2>1 DEF Injection, IsInjective
  <2>4. f \in Surjection(DOMAIN s, DOMAIN s)
    BY <2>2, <2>3, FS_Injection
  <2>5. Reorders(f, s)
    BY <2>1, <2>4 DEF Reorders, Surjection
  <2>6. InOrder(f, s, p)
    BY <1>1 DEF InOrder
  <2>. QED  BY <2>1, <2>5, <2>6
<1>2. CASE t = StablySorted(s, p)
  <2>1. PICK f : /\ Reorders(f, s)
                 /\ StablySorted(s, p) = [k \in DOMAIN s |-> s[f[k]]]
                 /\ \A k, l \in DOMAIN s : k < l =>
                       /\ ~Before(s[f[l]], s[f[k]], p)
                       /\ ~Before(s[f[k]], s[f[l]], p) => f[k] < f[l]
    BY StablySortedIs
  <2>2. p.sort = "name" => \A m, n : Before(m, n, p) <=> Earlier(m.name, n.name)
    BY DEF Before
  <2>3. p.sort = "region" => \A m, n : Before(m, n, p) <=> Rank[Code(m)] < Rank[Code(n)]
    BY DEF Before
  <2>4. InOrder(f, s, p)
    BY <2>1, <2>2, <2>3 DEF InOrder
  <2>. QED  BY <1>2, <2>1, <2>4
<1>3. \/ t \in Permuted(s) /\ p.sort = "region" /\ \E i \in DOMAIN s : Ambiguous(s[i])
      \/ t = StablySorted(s, p)
  BY DEF ApplySort
<1>. QED  BY <1>1, <1>2, <1>3

-----------------------------------------------------------------------------
(* The identity of a node is its place in the merged list.                 *)
Numbered(m) == m \in Seq(Nodes) /\ \A i \in DOMAIN m : m[i].no = i

(* The list t is what is at the places P of the list m, in order.          *)
Picks(t, m, P) ==
    /\ t \in Seq(Nodes)
    /\ \A k \in DOMAIN t : t[k].no \in P /\ t[k] = m[t[k].no]
    /\ \A k, l \in DOMAIN t : k < l => t[k].no < t[l].no
    /\ \A i \in P : \E k \in DOMAIN t : t[k].no = i

LEMMA SublistPicks ==
    ASSUME NEW m, NEW P, NEW t, Picks(t, m, P), NEW I \in SUBSET (DOMAIN t)
    PROVE  Picks(Sublist(t, I), m, {t[i].no : i \in I})
<1>. DEFINE u == Sublist(t, I)
            Q == {t[i].no : i \in I}
<1>1. t \in Seq(Nodes)
  BY DEF Picks
<1>2. /\ u \in Seq(Nodes)
      /\ \A k \in DOMAIN u : Nth(I, k) \in I /\ u[k] = t[Nth(I, k)]
      /\ \A k, l \in DOMAIN u : k < l => Nth(I, k) < Nth(I, l)
      /\ \A i \in I : UpTo(I, i) \in DOMAIN u /\ Nth(I, UpTo(I, i)) = i
  BY <1>1, SublistIs
<1>. HIDE DEF u
<1>3. \A k \in DOMAIN u : u[k].no \in Q /\ u[k] = m[u[k].no]
  BY <1>2 DEF Picks
<1>4. \A k, l \in DOMAIN u : k < l => u[k].no < u[l].no
  BY <1>2 DEF Picks
<1>5. \A i \in I : \E k \in DOMAIN u : u[k] = t[i]
  BY <1>2
<1>6. \A q \in Q : \E k \in DOMAIN u : u[k].no = q
  BY <1>5
<1>. QED  BY <1>2, <1>3, <1>4, <1>6 DEF Picks, u

(* What the engine is given and does not leave out: the first node of each *)
(* endpoint, if it is complete and passes the filters and the script.      *)
FirstOf(i) == \A j \in 1..(i - 1) : Key(merged[j]) # Key(merged[i])
Survives(i) ==
    /\ FirstOf(i)
    /\ merged[i].name # NoName
    /\ Passes(merged[i], profile)
    /\ ~Dropped(merged[i], profile)

Kept == Filtered(profile)[Validate[Dedup[merged]]]

LEMMA KeptIs ==
    ASSUME Numbered(merged)
    PROVE  Picks(Kept, merged, {i \in DOMAIN merged : Survives(i)})
<1>. DEFINE first == {i \in DOMAIN merged : FirstOf(i)}
            named == {i \in first : merged[i].name # NoName}
            kept == {i \in named : /\ Passes(merged[i], profile)
                                   /\ ~Dropped(merged[i], profile)}
            d == Dedup[merged]
            v == Validate[d]
<1>1. merged \in Lists /\ \A i \in DOMAIN merged : merged[i].no = i
  BY DEF Numbered, Lists
<1>2. Picks(merged, merged, DOMAIN merged)
  BY <1>1 DEF Picks, Lists
<1>3. Picks(d, merged, first)
  <2>1. d = Sublist(merged, first)
    BY <1>1 DEF Dedup, FirstOf
  <2>2. first = {merged[i].no : i \in first}
    BY <1>1
  <2>3. first \in SUBSET (DOMAIN merged)
    OBVIOUS
  <2>. HIDE DEF first, d
  <2>. QED  BY <1>2, <2>1, <2>2, <2>3, SublistPicks
<1>. HIDE DEF first, d
<1>4. Picks(v, merged, named)
  <2>. DEFINE I == {k \in DOMAIN d : d[k].name # NoName}
  <2>1. v = Sublist(d, I)
    BY <1>3 DEF Validate, Picks, Lists
  <2>2. named = {d[k].no : k \in I}
    BY <1>3 DEF Picks
  <2>3. I \in SUBSET (DOMAIN d)
    OBVIOUS
  <2>. HIDE DEF named, v, I
  <2>. QED  BY <1>3, <2>1, <2>2, <2>3, SublistPicks
<1>. HIDE DEF named, v
<1>5. Picks(Kept, merged, kept)
  <2>. DEFINE I == {k \in DOMAIN v : Passes(v[k], profile) /\ ~Dropped(v[k], profile)}
  <2>1. Kept = Sublist(v, I)
    BY <1>4 DEF Kept, Filtered, Picks, Lists, v, d
  <2>2. kept = {v[k].no : k \in I}
    BY <1>4 DEF Picks
  <2>3. I \in SUBSET (DOMAIN v)
    OBVIOUS
  <2>. HIDE DEF kept, I
  <2>. QED  BY <1>4, <2>1, <2>2, <2>3, SublistPicks
<1>6. kept = {i \in DOMAIN merged : Survives(i)}
  BY DEF first, named, Survives
<1>. QED  BY <1>5, <1>6

-----------------------------------------------------------------------------
(* The new values of fields have their types, and a node keeps its         *)
(* identity.                                                               *)
LEMMA OverwrittenIs ==
    ASSUME NEW n \in Nodes, NEW fields, Fields(fields)
    PROVE  /\ Overwritten(n, fields) \in Nodes
           /\ \A f \in {"type", "server", "name"} \ DOMAIN fields :
                 Overwritten(n, fields)[f] = n[f]
           /\ \A f \in {"no", "source", "prefix"} : Overwritten(n, fields)[f] = n[f]
<1>. DEFINE r == Overwritten(n, fields)
<1>1. DOMAIN n = {"type", "server", "name", "no", "source", "prefix"}
  BY DEF Nodes
<1>2. r = [f \in DOMAIN n |-> IF f \in DOMAIN fields THEN fields[f] ELSE n[f]]
  BY DEF Overwritten
<1>3. \A f \in DOMAIN n : f \notin DOMAIN fields => r[f] = n[f]
  BY <1>2
<1>4. DOMAIN fields \subseteq {"type", "server", "name"}
  BY DEF Fields
<1>5. /\ n.type \in Strings /\ n.server \in Servers /\ n.name \in Seq(Strings)
      /\ n.no \in Nat /\ n.source \in STRING /\ n.prefix \in STRING
  BY DEF Nodes
<1>6. /\ r.type \in Strings /\ r.server \in Servers /\ r.name \in Seq(Strings)
      /\ r.no = n.no /\ r.source = n.source /\ r.prefix = n.prefix
  <2>1. r.type \in Strings
    BY <1>1, <1>2, <1>5 DEF Fields
  <2>2. r.server \in Servers
    BY <1>1, <1>2, <1>5 DEF Fields
  <2>3. r.name \in Seq(Strings)
    BY <1>1, <1>2, <1>5 DEF Fields
  <2>4. r.no = n.no /\ r.source = n.source /\ r.prefix = n.prefix
    BY <1>1, <1>3, <1>4
  <2>. QED  BY <2>1, <2>2, <2>3, <2>4
<1>7. r = [type |-> r.type, server |-> r.server, name |-> r.name,
           no |-> r.no, source |-> r.source, prefix |-> r.prefix]
  BY <1>1, <1>2
<1>. HIDE DEF r
<1>8. r \in Nodes
  BY <1>5, <1>6, <1>7 DEF Nodes
<1>9. \A f \in {"type", "server", "name"} \ DOMAIN fields : r[f] = n[f]
  BY <1>1, <1>3
<1>. QED  BY <1>6, <1>8, <1>9 DEF r

(* A list of strings joined from lists of strings, whatever they are.      *)
LEMMA JoinedStrings ==
    ASSUME NEW n \in Nat, NEW ss, DOMAIN ss = 1..n, ss = [i \in 1..n |-> ss[i]],
           \A i \in 1..n : ss[i] \in Seq(Strings)
    PROVE  Joined(ss) \in Seq(Strings) /\ ss \in Seq(Seq(Strings))
<1>1. ss \in Seq(Seq(Strings))
  OBVIOUS
<1>. QED  BY <1>1, JoinedIs

LEMMA NormalisedIs ==
    ASSUME NEW s \in Seq(Strings)
    PROVE  Normalised[s] \in Seq(Strings)
<1>. DEFINE Text(i) == i \in DOMAIN s /\ s[i] \notin Separators
            Piece(i) == CASE Text(i) -> <<s[i]>>
                          [] ~Text(i) /\ Text(i + 1) /\ (\E j \in 1..i : Text(j)) -> <<Blank>>
                          [] OTHER -> <<>>
            ss == [i \in DOMAIN s |-> Piece(i)]
<1>1. Normalised[s] = Joined(ss)
  BY DEF Normalised
<1>2. Len(s) \in Nat /\ DOMAIN s = 1..Len(s) /\ \A i \in DOMAIN s : s[i] \in Strings
  OBVIOUS
<1>3. Blank \in Strings
  BY EngineAssumption
<1>. HIDE DEF Text
<1>4. \A i \in DOMAIN s : Piece(i) \in {<<s[i]>>, <<Blank>>, <<>>}
  OBVIOUS
<1>. HIDE DEF Piece
<1>5. \A i \in 1..Len(s) : ss[i] \in Seq(Strings)
  <2>. TAKE i \in 1..Len(s)
  <2>1. ss[i] = Piece(i) /\ Piece(i) \in {<<s[i]>>, <<Blank>>, <<>>} /\ s[i] \in Strings
    BY <1>2, <1>4
  <2>2. \A v \in Strings : <<v>> \in Seq(Strings)
    OBVIOUS
  <2>3. <<>> \in Seq(Strings)
    OBVIOUS
  <2>. QED  BY <1>3, <2>1, <2>2, <2>3
<1>6. DOMAIN ss = 1..Len(s) /\ ss = [i \in 1..Len(s) |-> ss[i]]
  BY <1>2
<1>. HIDE DEF ss
<1>. QED  BY <1>1, <1>2, <1>5, <1>6, JoinedStrings

(* What is left of a name without its region keywords is a name.           *)
LEMMA TagIs ==
    ASSUME NEW name \in Seq(Strings)
    PROVE  TagOf(name) \in Seq(Strings)
<1>. DEFINE places == Removed[Occurrences(name)]
            ss == [i \in DOMAIN name |-> IF i \in places THEN <<>> ELSE <<name[i]>>]
<1>1. Len(name) \in Nat /\ DOMAIN name = 1..Len(name)
      /\ \A i \in DOMAIN name : name[i] \in Strings
  OBVIOUS
<1>2. places \in SUBSET Nat
  <2>. DEFINE found == Occurrences(name)
              going == CHOOSE T \in SUBSET found : \A o \in found :
                  o \in T <=> \A t \in T : Goes(t, o) => Span(t) \cap Span(o) = {}
  <2>1. found \in SUBSET (Keywords \X Nat)
    BY <1>1 DEF Occurrences
  <2>2. places = UNION {Span(o) : o \in found \cap going}
    BY <2>1 DEF Removed
  <2>3. ASSUME NEW k \in Keywords, NEW i \in Nat
        PROVE  Span(<<k, i>>) \in SUBSET Nat
    <3>1. k \in Seq(Strings)
      BY EngineAssumption
    <3>2. Len(k) \in Nat
      BY <3>1
    <3>. QED  BY <3>2 DEF Span
  <2>. HIDE DEF found, going, places
  <2>4. \A o \in found : Span(o) \in SUBSET Nat
    BY <2>1, <2>3
  <2>. QED  BY <2>2, <2>4
<1>. HIDE DEF places
<1>3. Without(name)[places] = Joined(ss)
  BY <1>2 DEF Without
<1>4. \A i \in 1..Len(name) : ss[i] \in Seq(Strings)
  BY <1>1
<1>5. DOMAIN ss = 1..Len(name) /\ ss = [i \in 1..Len(name) |-> ss[i]]
  BY <1>1
<1>. HIDE DEF ss
<1>6. Without(name)[places] \in Seq(Strings)
  BY <1>1, <1>3, <1>4, <1>5, JoinedStrings
<1>7. StripRegionKeywords(name) \in Seq(Strings)
  BY <1>6, NormalisedIs DEF StripRegionKeywords, places
<1>8. "?" \in Strings
  BY EngineAssumption
<1>. QED  BY <1>7, <1>8 DEF TagOf

LEMMA CodeIs ==
    ASSUME NEW code \in Strings
    PROVE  CodeOrUN(code) \in Strings
<1>1. "UN" \in Strings
  BY EngineAssumption
<1>. QED  BY <1>1 DEF CodeOrUN

(* What a symbol of a template becomes.                                    *)
LEMMA ExpandedIs ==
    ASSUME NEW w \in Strings \cup Variables, NEW n \in Nodes,
           NEW server \in Servers, NEW code \in Strings
    PROVE  /\ Expanded(w, n, server, code) \in Seq(Strings)
           /\ w = "{code}" => Expanded(w, n, server, code) = <<CodeOrUN(code)>>
           /\ w \notin Variables => Expanded(w, n, server, code) = <<w>>
<1>. DEFINE x == Expanded(w, n, server, code)
<1>1. /\ n.type \in Strings /\ n.name \in Seq(Strings) /\ server \in Strings
      /\ CodeOrUN(code) \in Strings
  <2>1. Servers \subseteq Strings
    BY EngineAssumption
  <2>. QED  BY <2>1, CodeIs DEF Nodes
<1>2. \A v \in Strings : <<v>> \in Seq(Strings)
  OBVIOUS
<1>3. CASE w = "{code}"
  <2>1. x = <<CodeOrUN(code)>>
    BY <1>3 DEF Expanded
  <2>. QED  BY <1>1, <1>2, <1>3, <2>1 DEF Variables
<1>4. CASE w = "{tag}"
  <2>1. x = TagOf(n.name)
    BY <1>4 DEF Expanded
  <2>. QED  BY <1>1, <1>4, <2>1, TagIs DEF Variables
<1>5. CASE w = "{type}"
  <2>1. x = <<n.type>>
    BY <1>5 DEF Expanded
  <2>. QED  BY <1>1, <1>2, <1>5, <2>1 DEF Variables
<1>6. CASE w = "{name}"
  <2>1. x = n.name
    BY <1>6 DEF Expanded
  <2>. QED  BY <1>1, <1>6, <2>1 DEF Variables
<1>7. CASE w = "{server}"
  <2>1. x = IF server = "" THEN <<>> ELSE <<server>>
    BY <1>7 DEF Expanded
  <2>2. <<>> \in Seq(Strings)
    OBVIOUS
  <2>. QED  BY <1>1, <1>2, <1>7, <2>1, <2>2 DEF Variables
<1>8. CASE w \notin Variables
  <2>1. x = <<w>>
    BY <1>8 DEF Expanded, Variables
  <2>. QED  BY <1>2, <1>8, <2>1 DEF Variables
<1>. QED  BY <1>3, <1>4, <1>5, <1>6, <1>7, <1>8 DEF Variables

(* What a list joined from two lists of one element, and perhaps others,   *)
(* begins with.                                                            *)
LEMMA JoinedBegins ==
    ASSUME NEW S, NEW ss \in Seq(Seq(S)), NEW a, NEW b, Len(ss) > 1,
           ss[1] = <<a>>, ss[2] = <<b>>
    PROVE  Len(Joined(ss)) > 1 /\ Joined(ss)[2] = b
<1>. DEFINE c == Joined(ss)
<1>1. c \in Seq(S) /\ \E start : JoinedAt(ss, c, start)
  BY JoinedIs
<1>. HIDE DEF c
<1>2. PICK start : JoinedAt(ss, c, start)
  BY <1>1
<1>3. /\ Len(ss) \in Nat /\ DOMAIN ss = 1..Len(ss) /\ 1 \in DOMAIN ss /\ 2 \in DOMAIN ss
      /\ Len(c) \in Nat /\ DOMAIN c = 1..Len(c)
  BY <1>1
<1>4. /\ Len(ss[1]) = 1 /\ DOMAIN ss[1] = {1}
      /\ Len(ss[2]) = 1 /\ DOMAIN ss[2] = {1} /\ ss[2][1] = b
  OBVIOUS
<1>5. \A i \in DOMAIN ss : start[i] \in Nat
  BY <1>2 DEF JoinedAt
<1>0. \A g, h \in DOMAIN ss : g < h => start[g] + Len(ss[g]) <= start[h]
  BY <1>2 DEF JoinedAt
<1>6. start[1] + 1 <= start[2]
  <2>1. start[1] + Len(ss[1]) <= start[2]
    <3>1. 1 < 2
      OBVIOUS
    <3>. QED  BY <1>0, <1>3, <3>1
  <2>. QED  BY <1>4, <2>1
<1>7. start[2] + 1 \in DOMAIN c /\ c[start[2] + 1] = b
  <2>1. 1 \in DOMAIN ss[2]
    BY <1>4
  <2>. QED  BY <1>2, <1>3, <1>4, <2>1 DEF JoinedAt
<1>8. 2 \in DOMAIN c /\ Len(c) > 1
  BY <1>3, <1>5, <1>6, <1>7
<1>9. PICK i \in DOMAIN ss : \E j \in DOMAIN ss[i] : 2 = start[i] + j
  BY <1>2, <1>8 DEF JoinedAt
<1>10. PICK j \in DOMAIN ss[i] : 2 = start[i] + j
  BY <1>9
<1>11. j \in Nat /\ j >= 1 /\ start[i] <= 1
  <2>1. ss[i] \in Seq(S)
    OBVIOUS
  <2>2. j \in 1..Len(ss[i]) /\ Len(ss[i]) \in Nat
    BY <2>1
  <2>. QED  BY <1>5, <1>10, <2>2
<1>12. CASE i = 1
  <2>1. j = 1
    BY <1>4, <1>12
  <2>. DEFINE x == start[1]  y == start[2]
  <2>a. x \in Nat /\ y \in Nat /\ x + 1 <= y /\ 2 = x + 1
    BY <1>3, <1>5, <1>6, <1>10, <1>12, <2>1
  <2>. HIDE DEF x, y
  <2>b. x = 1 /\ y >= 2
    BY <2>a
  <2>2. start[1] = 1 /\ start[2] >= 2
    BY <2>b DEF x, y
  <2>3. 1 \in DOMAIN c
    BY <1>3, <1>8
  <2>4. PICK h \in DOMAIN ss : \E g \in DOMAIN ss[h] : 1 = start[h] + g
    BY <1>2, <2>3 DEF JoinedAt
  <2>5. PICK g \in DOMAIN ss[h] : 1 = start[h] + g
    BY <2>4
  <2>6. g \in Nat /\ g >= 1
    <3>1. ss[h] \in Seq(S)
      OBVIOUS
    <3>2. g \in 1..Len(ss[h]) /\ Len(ss[h]) \in Nat
      BY <3>1
    <3>. QED  BY <3>2
  <2>7. start[h] = 0
    BY <1>5, <2>5, <2>6
  <2>8. 1 < h
    BY <1>3, <2>2, <2>7
  <2>9. start[1] + 1 <= start[h]
    <3>1. start[1] + Len(ss[1]) <= start[h]
      BY <1>0, <1>3, <2>8
    <3>. QED  BY <1>4, <3>1
  <2>. QED  BY <2>2, <2>7, <2>9
<1>13. CASE i = 2
  <2>1. j = 1
    BY <1>4, <1>13
  <2>2. start[2] = 1
    BY <1>3, <1>5, <1>10, <1>13, <2>1
  <2>. QED  BY <1>7, <1>8, <2>2 DEF c
<1>14. CASE i \notin {1, 2}
  <2>1. 2 < i
    BY <1>3, <1>14
  <2>2. start[2] + 1 <= start[i]
    <3>1. start[2] + Len(ss[2]) <= start[i]
      BY <1>0, <1>3, <2>1
    <3>. QED  BY <1>4, <3>1
  <2>. DEFINE x == start[1]  y == start[2]  z == start[i]
  <2>3. x \in Nat /\ y \in Nat /\ z \in Nat /\ x + 1 <= y /\ y + 1 <= z /\ z <= 1
    BY <1>3, <1>5, <1>6, <1>11, <2>2
  <2>. HIDE DEF x, y, z
  <2>. QED  BY <2>3
<1>. QED  BY <1>12, <1>13, <1>14

(* The name of a node has a separator in the second place if the template  *)
(* has one after the code.                                                 *)
Begins(t, n) ==
    (Len(t) > 1 /\ t[1] = "{code}" /\ t[2] \in Separators)
    => Len(n.name) > 1 /\ n.name[2] \in Separators

(* A name made from a template.                                            *)
LEMMA FilledIs ==
    ASSUME NEW t \in Seq(Strings \cup Variables), NEW n \in Nodes,
           NEW server \in Servers, NEW code \in Strings
    PROVE  LET name == Filled(t, n, server, code)
           IN  /\ name \in Seq(Strings)
               /\ (Len(t) > 1 /\ t[1] = "{code}" /\ t[2] \in Separators)
                  => Len(name) > 1 /\ name[2] \in Separators
<1>. DEFINE ss == [i \in DOMAIN t |-> Expanded(t[i], n, server, code)]
            name == Filled(t, n, server, code)
<1>1. Len(t) \in Nat /\ DOMAIN t = 1..Len(t)
      /\ \A i \in DOMAIN t : t[i] \in Strings \cup Variables
  OBVIOUS
<1>2. \A i \in 1..Len(t) : ss[i] \in Seq(Strings)
  BY <1>1, ExpandedIs
<1>3. DOMAIN ss = 1..Len(t) /\ ss = [i \in 1..Len(t) |-> ss[i]]
  BY <1>1
<1>4. name = Joined(ss)
  BY DEF Filled
<1>5. \A i \in 1..Len(t) : ss[i] = Expanded(t[i], n, server, code)
  BY <1>1
<1>. HIDE DEF ss, name
<1>6. name \in Seq(Strings) /\ ss \in Seq(Seq(Strings))
  BY <1>1, <1>2, <1>3, <1>4, JoinedStrings
<1>0. Len(ss) = Len(t) /\ (Len(t) > 1 => 1 \in 1..Len(t) /\ 2 \in 1..Len(t))
  BY <1>1, <1>3, <1>6
<1>7. ASSUME Len(t) > 1, t[1] = "{code}", t[2] \in Separators
      PROVE  Len(name) > 1 /\ name[2] \in Separators
  <2>1. t[1] \in Strings \cup Variables /\ ss[1] = <<CodeOrUN(code)>>
    <3>1. 1 \in 1..Len(t)
      BY <1>0, <1>7
    <3>. QED  BY <1>1, <1>5, <1>7, <3>1, ExpandedIs
  <2>2. t[2] \notin Variables
    BY <1>7, EngineAssumption
  <2>3. ss[2] = <<t[2]>>
    <3>1. 2 \in 1..Len(t)
      BY <1>0, <1>7
    <3>2. t[2] \in Strings \cup Variables /\ ss[2] = Expanded(t[2], n, server, code)
      BY <1>1, <1>5, <3>1
    <3>. QED  BY <2>2, <3>2, ExpandedIs
  <2>4. Len(ss) > 1
    BY <1>0, <1>7
  <2>5. Len(Joined(ss)) > 1 /\ Joined(ss)[2] = t[2]
    BY <1>6, <2>1, <2>3, <2>4, JoinedBegins
  <2>. QED  BY <1>4, <1>7, <2>5
<1>. QED  BY <1>6, <1>7 DEF name

-----------------------------------------------------------------------------
(* A renamed node has another name, as the template has it.                *)
LEMMA RenamedIs ==
    ASSUME NEW n \in Nodes, NEW server \in Servers, NEW p \in Profiles,
           NEW r \in Renamed(server, p)[n]
    PROVE  /\ r \in Nodes
           /\ \A f \in DOMAIN n \ {"name"} : r[f] = n[f]
           /\ Begins(p.rename, r)
<1>1. p.rename \in Seq(Strings \cup Variables)
  BY PipelineAssumption
<1>2. Renamed(server, p)[n] =
          IF p.rename = <<>> THEN {n}
          ELSE {[n EXCEPT !.name = Filled(p.rename, n, server, code)] :
                    code \in DetectRegion(n.name, server)}
  BY DEF Renamed
<1>3. CASE p.rename = <<>>
  <2>1. r = n
    BY <1>2, <1>3
  <2>2. ~(Len(p.rename) > 1)
    BY <1>3
  <2>. QED  BY <2>1, <2>2 DEF Begins
<1>4. CASE p.rename # <<>>
  <2>1. PICK code \in DetectRegion(n.name, server) :
            r = [n EXCEPT !.name = Filled(p.rename, n, server, code)]
    BY <1>2, <1>4
  <2>2. code \in Strings
    BY <2>1, RegionsAre
  <2>. DEFINE name == Filled(p.rename, n, server, code)
  <2>3. /\ name \in Seq(Strings)
        /\ (Len(p.rename) > 1 /\ p.rename[1] = "{code}" /\ p.rename[2] \in Separators)
           => Len(name) > 1 /\ name[2] \in Separators
    BY <1>1, <2>2, FilledIs
  <2>. HIDE DEF name
  <2>4. r = [n EXCEPT !.name = name]
    BY <2>1 DEF name
  <2>5. r \in Nodes /\ r.name = name
    BY <2>3, <2>4 DEF Nodes
  <2>6. \A f \in DOMAIN n \ {"name"} : r[f] = n[f]
    BY <2>4
  <2>. QED  BY <2>3, <2>5, <2>6 DEF Begins
<1>. QED  BY <1>3, <1>4

(* What the transform, the overrides and the template leave alone.         *)
LEMMA ChangedIs ==
    ASSUME NEW n \in Nodes, NEW p \in Profiles
    PROVE  LET b == ApplyOverrides(Scripted(n, p), p)
           IN  /\ b \in Nodes /\ b.no = n.no /\ b.source = n.source
               /\ "type" \notin DOMAIN p.script.sets => b.type = n.type
               /\ "server" \notin DOMAIN p.script.sets \cup DOMAIN p.overrides
                  => b.server = n.server
<1>. DEFINE over == [f \in DOMAIN p.overrides \cap Overridable |-> p.overrides[f]]
            a == Scripted(n, p)
            b == ApplyOverrides(a, p)
<1>1. Fields(p.script.sets) /\ Fields(over)
  BY PipelineAssumption
<1>2. DOMAIN over = DOMAIN p.overrides \cap {"name", "server"}
  BY DEF Overridable
<1>3. /\ a \in Nodes /\ a.no = n.no /\ a.source = n.source
      /\ "type" \notin DOMAIN p.script.sets => a.type = n.type
      /\ "server" \notin DOMAIN p.script.sets => a.server = n.server
  <2>1. CASE n.type \in p.script.throws
    BY <2>1 DEF Scripted
  <2>2. CASE n.type \notin p.script.throws
    <3>1. a = Overwritten(n, p.script.sets)
      BY <2>2 DEF Scripted
    <3>. HIDE DEF a
    <3>. QED  BY <1>1, <3>1, OverwrittenIs
  <2>. QED  BY <2>1, <2>2
<1>. HIDE DEF a
<1>4. /\ b \in Nodes /\ b.no = a.no /\ b.source = a.source /\ b.type = a.type
      /\ "server" \notin DOMAIN p.overrides => b.server = a.server
  <2>1. b = Overwritten(a, over)
    BY DEF ApplyOverrides
  <2>. HIDE DEF b, over
  <2>. QED  BY <1>1, <1>2, <1>3, <2>1, OverwrittenIs
<1>. HIDE DEF b
<1>. QED  BY <1>3, <1>4 DEF a, b

LEMMA TransformedIs ==
    ASSUME NEW n \in Nodes, NEW p \in Profiles, NEW r \in Transformed(p)[n]
    PROVE  /\ r \in Nodes
           /\ r.no = n.no /\ r.source = n.source
           /\ "type" \notin DOMAIN p.script.sets => r.type = n.type
           /\ "server" \notin DOMAIN p.script.sets \cup DOMAIN p.overrides
              => r.server = n.server
           /\ Begins(p.rename, r)
<1>. DEFINE b == ApplyOverrides(Scripted(n, p), p)
<1>1. /\ b \in Nodes /\ b.no = n.no /\ b.source = n.source
      /\ "type" \notin DOMAIN p.script.sets => b.type = n.type
      /\ "server" \notin DOMAIN p.script.sets \cup DOMAIN p.overrides
         => b.server = n.server
  BY ChangedIs
<1>. HIDE DEF b
<1>2. r \in Renamed(n.server, p)[b] /\ n.server \in Servers
  BY DEF Transformed, b, Nodes
<1>3. /\ r \in Nodes /\ Begins(p.rename, r)
      /\ \A f \in DOMAIN b \ {"name"} : r[f] = b[f]
  BY <1>1, <1>2, RenamedIs
<1>4. DOMAIN b = {"type", "server", "name", "no", "source", "prefix"}
  BY <1>1 DEF Nodes
<1>5. r.no = b.no /\ r.source = b.source /\ r.type = b.type /\ r.server = b.server
  BY <1>3, <1>4
<1>. QED  BY <1>1, <1>3, <1>5

(* There is always something a node may become.                            *)
LEMMA TransformedHas ==
    ASSUME NEW n \in Nodes, NEW p \in Profiles
    PROVE  \E r : r \in Transformed(p)[n]
<1>. DEFINE b == ApplyOverrides(Scripted(n, p), p)
<1>1. b \in Nodes /\ n.server \in Servers
  BY ChangedIs DEF Nodes
<1>. HIDE DEF b
<1>2. Transformed(p)[n] = Renamed(n.server, p)[b]
  BY DEF Transformed, b
<1>3. Renamed(n.server, p)[b] =
          IF p.rename = <<>> THEN {b}
          ELSE {[b EXCEPT !.name = Filled(p.rename, b, n.server, code)] :
                    code \in DetectRegion(b.name, n.server)}
  BY <1>1 DEF Renamed
<1>4. PICK code : code \in DetectRegion(b.name, n.server)
  BY <1>1, RegionsAre
<1>. QED  BY <1>2, <1>3, <1>4

(* The engine's result: the nodes kept, each transformed, in some order.   *)
Result(out, l, f) ==
    /\ l \in Seq(Nodes) /\ DOMAIN l = DOMAIN Kept
    /\ \A k \in DOMAIN l : l[k] \in Transformed(profile)[Kept[k]]
    /\ Reorders(f, l)
    /\ out = [k \in DOMAIN l |-> l[f[k]]]
    /\ InOrder(f, l, profile)

LEMMA EngineIs ==
    ASSUME Numbered(merged), profile \in Profiles,
           NEW out \in Engine(Validate[Dedup[merged]], profile)
    PROVE  \E l, f : Result(out, l, f)
<1>1. Kept \in Seq(Nodes)
  BY KeptIs DEF Picks
<1>2. PICK l \in AllTransformed(profile)[Kept] : out \in ApplySort(l, profile)
  BY DEF Engine, Kept
<1>. HIDE DEF Kept
<1>. DEFINE may(k) == Transformed(profile)[Kept[k]]
            R == UNION {{k} \X may(k) : k \in DOMAIN Kept}
<1>3. AllTransformed(profile)[Kept] = Selections[R]
  BY <1>1 DEF AllTransformed, Lists
<1>4. \A k \in DOMAIN Kept : may(k) # {} /\ may(k) \subseteq Nodes
  <2>. TAKE k \in DOMAIN Kept
  <2>1. Kept[k] \in Nodes
    BY <1>1
  <2>2. \E t : t \in may(k)
    BY <2>1, TransformedHas
  <2>3. \A t \in may(k) : t \in Nodes
    BY <2>1, TransformedIs
  <2>. QED  BY <2>2, <2>3
<1>. HIDE DEF may
<1>5. DOMAIN Kept = 1..Len(Kept) /\ Len(Kept) \in Nat
  BY <1>1
<1>6. \A x \in R : /\ x \in Nat \X Nodes /\ x[1] \in DOMAIN Kept /\ x[2] \in may(x[1])
  BY <1>4, <1>5
<1>7. \A k \in DOMAIN Kept : \E x \in R : x[1] = k
  <2>. TAKE k \in DOMAIN Kept
  <2>1. PICK t : t \in may(k)
    BY <1>4
  <2>2. <<k, t>> \in R
    BY <2>1
  <2>. QED  BY <2>2
<1>. HIDE DEF R
<1>8. R \in SUBSET (Nat \X Nodes) /\ {x[1] : x \in R} = DOMAIN Kept
  BY <1>6, <1>7
<1>9. /\ l \in [{x[1] : x \in R} -> {x[2] : x \in R}]
      /\ \A k \in DOMAIN l : <<k, l[k]>> \in R
  BY <1>2, <1>3, <1>8 DEF Selections
<1>10. DOMAIN l = DOMAIN Kept /\ l = [k \in DOMAIN Kept |-> l[k]]
  BY <1>8, <1>9
<1>11. \A k \in DOMAIN l : l[k] \in may(k)
  <2>. TAKE k \in DOMAIN l
  <2>1. <<k, l[k]>> \in R
    BY <1>9
  <2>. QED  BY <1>6, <2>1
<1>12. l \in Seq(Nodes)
  <2>1. \A k \in 1..Len(Kept) : l[k] \in Nodes
    BY <1>4, <1>5, <1>10, <1>11
  <2>. QED  BY <1>5, <1>10, <2>1
<1>13. PICK f : /\ Reorders(f, l)
                /\ out = [k \in DOMAIN l |-> l[f[k]]]
                /\ InOrder(f, l, profile)
  BY <1>2, <1>12, SortedIs
<1>. QED  BY <1>10, <1>11, <1>12, <1>13 DEF Result, may

(* A node of the result comes from one of the merged list that survives,   *)
(* and every one that does is in the result once.                          *)
LEMMA ResultIs ==
    ASSUME Numbered(merged), profile \in Profiles,
           NEW out, NEW l, NEW f, Result(out, l, f)
    PROVE  /\ out \in Seq(Nodes)
           /\ \A k \in DOMAIN out :
                 /\ out[k].no \in DOMAIN merged /\ Survives(out[k].no)
                 /\ ~Moves => Key(out[k]) = Key(merged[out[k].no])
                 /\ Begins(profile.rename, out[k])
           /\ \A k, m \in DOMAIN out : out[k].no = out[m].no => k = m
           /\ \A i \in DOMAIN merged : Survives(i) => \E k \in DOMAIN out : out[k].no = i
           /\ profile.sort = "name" =>
                 \A k, m \in DOMAIN out : k < m =>
                     /\ ~Earlier(out[m].name, out[k].name)
                     /\ ~Earlier(out[k].name, out[m].name) => out[k].no < out[m].no
           /\ (profile.sort = "region" /\ \A k \in DOMAIN out : ~Ambiguous(out[k])) =>
                 \A k, m \in DOMAIN out : k < m => ~(Rank[Code(out[m])] < Rank[Code(out[k])])
<1>1. /\ l \in Seq(Nodes) /\ DOMAIN l = DOMAIN Kept
      /\ \A k \in DOMAIN l : l[k] \in Transformed(profile)[Kept[k]]
      /\ f \in [DOMAIN l -> DOMAIN l]
      /\ \A k, m \in DOMAIN l : f[k] = f[m] => k = m
      /\ \A i \in DOMAIN l : \E k \in DOMAIN l : f[k] = i
      /\ out = [k \in DOMAIN l |-> l[f[k]]]
  BY DEF Result, Reorders
<1>2. /\ Kept \in Seq(Nodes)
      /\ \A k \in DOMAIN Kept : /\ Kept[k].no \in DOMAIN merged /\ Survives(Kept[k].no)
                               /\ Kept[k] = merged[Kept[k].no]
      /\ \A k, m \in DOMAIN Kept : k < m => Kept[k].no < Kept[m].no
      /\ \A i \in DOMAIN merged : Survives(i) => \E k \in DOMAIN Kept : Kept[k].no = i
  <2>. HIDE DEF Kept
  <2>. QED  BY KeptIs DEF Picks
<1>. HIDE DEF Kept
<1>3. \A k \in DOMAIN l :
         /\ l[k].no = Kept[k].no
         /\ ~Moves => Key(l[k]) = Key(Kept[k])
         /\ Begins(profile.rename, l[k])
  <2>. TAKE k \in DOMAIN l
  <2>1. Kept[k] \in Nodes /\ l[k] \in Transformed(profile)[Kept[k]]
    BY <1>1, <1>2
  <2>2. /\ l[k].no = Kept[k].no
        /\ "type" \notin DOMAIN profile.script.sets => l[k].type = Kept[k].type
        /\ "server" \notin DOMAIN profile.script.sets \cup DOMAIN profile.overrides
           => l[k].server = Kept[k].server
        /\ Begins(profile.rename, l[k])
    BY <2>1, TransformedIs
  <2>3. ~Moves => /\ "type" \notin DOMAIN profile.script.sets
                  /\ "server" \notin DOMAIN profile.script.sets \cup DOMAIN profile.overrides
    BY DEF Moves
  <2>. QED  BY <2>2, <2>3 DEF Key
<1>4. out \in Seq(Nodes) /\ DOMAIN out = DOMAIN l
  <2>1. DOMAIN l = 1..Len(l) /\ Len(l) \in Nat /\ \A k \in DOMAIN l : l[k] \in Nodes
    BY <1>1
  <2>. QED  BY <1>1, <2>1
<1>5. \A k \in DOMAIN out : f[k] \in DOMAIN l /\ out[k] = l[f[k]]
  BY <1>1, <1>4
<1>6. \A k \in DOMAIN out :
         /\ out[k].no \in DOMAIN merged /\ Survives(out[k].no)
         /\ ~Moves => Key(out[k]) = Key(merged[out[k].no])
         /\ Begins(profile.rename, out[k])
  <2>. TAKE k \in DOMAIN out
  <2>. DEFINE q == f[k]
  <2>1. q \in DOMAIN l /\ q \in DOMAIN Kept /\ out[k] = l[q]
    BY <1>1, <1>5
  <2>. HIDE DEF q
  <2>2. /\ Kept[q].no \in DOMAIN merged /\ Survives(Kept[q].no)
        /\ Kept[q] = merged[Kept[q].no]
    BY <1>2, <2>1
  <2>3. /\ l[q].no = Kept[q].no
        /\ ~Moves => Key(l[q]) = Key(Kept[q])
        /\ Begins(profile.rename, l[q])
    BY <1>3, <2>1
  <2>. QED  BY <2>1, <2>2, <2>3
<1>7. \A k, m \in DOMAIN l : k < m => l[k].no < l[m].no
  BY <1>1, <1>2, <1>3
<1>8. \A k \in DOMAIN l : k \in Int /\ l[k].no \in Int
  <2>1. \A n \in Nodes : n.no \in Int
    BY DEF Nodes
  <2>2. DOMAIN l = 1..Len(l) /\ Len(l) \in Nat /\ \A k \in DOMAIN l : l[k] \in Nodes
    BY <1>1
  <2>. QED  BY <2>1, <2>2
<1>9. \A k, m \in DOMAIN l : l[k].no = l[m].no => k = m
  <2>. SUFFICES ASSUME NEW k \in DOMAIN l, NEW m \in DOMAIN l, l[k].no = l[m].no
                PROVE  k = m
    OBVIOUS
  <2>1. ~(k < m) /\ ~(m < k)
    BY <1>7, <1>8
  <2>. QED  BY <1>8, <2>1
<1>10. \A k, m \in DOMAIN out : out[k].no = out[m].no => k = m
  <2>. SUFFICES ASSUME NEW k \in DOMAIN out, NEW m \in DOMAIN out, out[k].no = out[m].no
                PROVE  k = m
    OBVIOUS
  <2>1. f[k] = f[m]
    BY <1>5, <1>9
  <2>. QED  BY <1>1, <1>4, <2>1
<1>11. ASSUME NEW i \in DOMAIN merged, Survives(i)
       PROVE  \E k \in DOMAIN out : out[k].no = i
  <2>1. PICK q \in DOMAIN Kept : Kept[q].no = i
    BY <1>2, <1>11
  <2>2. PICK k \in DOMAIN l : f[k] = q
    BY <1>1
  <2>. QED  BY <1>1, <1>3, <1>4, <1>5, <2>1, <2>2
<1>12. ASSUME profile.sort = "name", NEW k \in DOMAIN out, NEW m \in DOMAIN out, k < m
       PROVE  /\ ~Earlier(out[m].name, out[k].name)
              /\ ~Earlier(out[k].name, out[m].name) => out[k].no < out[m].no
  <2>1. /\ ~Earlier(l[f[m]].name, l[f[k]].name)
        /\ ~Earlier(l[f[k]].name, l[f[m]].name) => f[k] < f[m]
    BY <1>4, <1>12 DEF Result, InOrder
  <2>. QED  BY <1>5, <1>7, <2>1
<1>13. ASSUME profile.sort = "region", \A k \in DOMAIN out : ~Ambiguous(out[k]),
              NEW k \in DOMAIN out, NEW m \in DOMAIN out, k < m
       PROVE  ~(Rank[Code(out[m])] < Rank[Code(out[k])])
  <2>1. \A i \in DOMAIN l : ~Ambiguous(l[i])
    <3>. TAKE i \in DOMAIN l
    <3>1. PICK q \in DOMAIN l : f[q] = i
      BY <1>1
    <3>2. ~Ambiguous(out[q]) /\ out[q] = l[i]
      BY <1>4, <1>5, <1>13, <3>1
    <3>. QED  BY <3>2
  <2>2. ~(Rank[Code(l[f[m]])] < Rank[Code(l[f[k]])])
    BY <1>4, <1>13, <2>1 DEF Result, InOrder
  <2>. QED  BY <1>5, <2>2
<1>. QED  BY <1>4, <1>6, <1>10, <1>11, <1>12, <1>13

(* The prefix is all that Prefixed changes.                                *)
LEMMA PrefixedIs ==
    ASSUME NEW out \in Seq(Nodes)
    PROVE  /\ DOMAIN Prefixed(out) = DOMAIN out
           /\ \A k \in DOMAIN out :
                 /\ Key(Prefixed(out)[k]) = Key(out[k])
                 /\ \A f \in {"type", "server", "name", "no", "source"} :
                       Prefixed(out)[k][f] = out[k][f]
                 /\ profile.prefix =>
                       Prefixed(out)[k].prefix = SourceOf(out[k], Tagged(out))
                 /\ Begins(profile.rename, out[k])
                    => Begins(profile.rename, Prefixed(out)[k])
<1>1. \A k \in DOMAIN out : out[k] \in Nodes
  OBVIOUS
<1>. DEFINE pre(k) == [out[k] EXCEPT !.prefix = SourceOf(out[k], Tagged(out))]
<1>2. \A k \in DOMAIN out :
         /\ \A f \in {"type", "server", "name", "no", "source"} : pre(k)[f] = out[k][f]
         /\ pre(k).prefix = SourceOf(out[k], Tagged(out))
  BY <1>1 DEF Nodes
<1>3. Prefixed(out) = IF ~profile.prefix THEN out ELSE [k \in DOMAIN out |-> pre(k)]
  BY DEF Prefixed
<1>. HIDE DEF pre
<1>4. DOMAIN Prefixed(out) = DOMAIN out
  BY <1>3
<1>5. \A k \in DOMAIN out :
         /\ \A f \in {"type", "server", "name", "no", "source"} :
               Prefixed(out)[k][f] = out[k][f]
         /\ profile.prefix => Prefixed(out)[k].prefix = SourceOf(out[k], Tagged(out))
  BY <1>2, <1>3
<1>6. \A k \in DOMAIN out : /\ Prefixed(out)[k].type = out[k].type
                            /\ Prefixed(out)[k].server = out[k].server
                            /\ Prefixed(out)[k].name = out[k].name
  BY <1>5
<1>. QED  BY <1>4, <1>5, <1>6 DEF Key, Begins

-----------------------------------------------------------------------------
(* What every step keeps: the nodes merged so far are numbered, and the    *)
(* output is what the engine makes of all of them.                         *)
PipeInv ==
    /\ profile \in Profiles /\ feed \in Feeds
    /\ fetch \in [DOMAIN feed -> {"waiting", "fetching", "done"}]
    /\ Numbered(merged)
    /\ run \in {"fetching", "ok", "error"}
    /\ run # "fetching" => \A s \in DOMAIN fetch : fetch[s] = "done"
    /\ run # "ok" => output = <<>>
    /\ run = "ok" => \E out \in Engine(Validate[Dedup[merged]], profile) :
                        output = Prefixed(out)

LEMMA PipeInitially == PipeInit => PipeInv
<1>. SUFFICES ASSUME PipeInit PROVE PipeInv
  OBVIOUS
<1>1. fetch \in [DOMAIN feed -> {"waiting", "fetching", "done"}]
  BY DEF PipeInit
<1>2. Numbered(merged)
  <2>1. merged = <<>>
    BY DEF PipeInit
  <2>2. <<>> \in Seq(Nodes) /\ \A i \in DOMAIN <<>> : <<>>[i].no = i
    OBVIOUS
  <2>. QED  BY <2>1, <2>2 DEF Numbered
<1>. QED  BY <1>1, <1>2 DEF PipeInit, PipeInv

LEMMA StartKeeps ==
    ASSUME PipeInv, NEW s \in DOMAIN fetch, StartFetch(s)
    PROVE  PipeInv'
<1>1. /\ fetch' = [fetch EXCEPT ![s] = "fetching"] /\ fetch[s] = "waiting"
      /\ UNCHANGED <<profile, feed, merged, run, output>>
  BY DEF StartFetch
<1>2. run = "fetching"
  BY <1>1 DEF PipeInv
<1>3. fetch' \in [DOMAIN feed' -> {"waiting", "fetching", "done"}]
  BY <1>1 DEF PipeInv
<1>4. Numbered(merged')
  BY <1>1 DEF PipeInv
<1>. QED  BY <1>1, <1>2, <1>3, <1>4 DEF PipeInv, Numbered

(* The nodes a source gives get the next places.                           *)
LEMMA ArrivedIs ==
    ASSUME PipeInv, NEW s \in DOMAIN fetch
    PROVE  Numbered(merged \o Arrived(s))
<1>. DEFINE n == Len(merged)
            new == Arrived(s)
<1>1. s \in DOMAIN feed /\ feed[s] \in Seq(Nodes) /\ s \in STRING
  BY PipelineAssumption DEF PipeInv
<1>2. /\ merged \in Seq(Nodes) /\ n \in Nat /\ DOMAIN merged = 1..n
      /\ \A i \in DOMAIN merged : merged[i].no = i
  BY DEF PipeInv, Numbered
<1>3. \A i \in DOMAIN feed[s] : feed[s][i] \in Nodes /\ i \in Nat
  BY <1>1
<1>4. \A i \in DOMAIN feed[s] : new[i] = [feed[s][i] EXCEPT !.no = n + i, !.source = s]
  BY DEF Arrived
<1>5. \A i \in DOMAIN feed[s] : new[i] \in Nodes /\ new[i].no = n + i
  <2>. TAKE i \in DOMAIN feed[s]
  <2>1. n + i \in Nat /\ s \in STRING /\ feed[s][i] \in Nodes
    BY <1>1, <1>2, <1>3
  <2>. HIDE DEF new, n
  <2>. QED  BY <1>4, <2>1 DEF Nodes
<1>6. new \in Seq(Nodes)
  <2>1. DOMAIN feed[s] = 1..Len(feed[s]) /\ Len(feed[s]) \in Nat
    BY <1>1
  <2>2. new = [i \in 1..Len(feed[s]) |-> new[i]]
    BY <2>1 DEF Arrived
  <2>3. \A i \in 1..Len(feed[s]) : new[i] \in Nodes
    BY <1>5, <2>1
  <2>. HIDE DEF new
  <2>4. [i \in 1..Len(feed[s]) |-> new[i]] \in Seq(Nodes)
    BY <2>1, <2>3
  <2>. QED  BY <2>2, <2>4
<1>7. DOMAIN new = DOMAIN feed[s]
  BY DEF Arrived
<1>. HIDE DEF new
<1>8. /\ merged \o new \in Seq(Nodes) /\ DOMAIN (merged \o new) = 1..(n + Len(new))
      /\ \A i \in 1..(n + Len(new)) :
            (merged \o new)[i] = IF i <= n THEN merged[i] ELSE new[i - n]
      /\ Len(new) \in Nat /\ DOMAIN new = 1..Len(new)
  BY <1>2, <1>6
<1>9. ASSUME NEW i \in 1..(n + Len(new)) PROVE (merged \o new)[i].no = i
  <2>1. CASE i <= n
    <3>1. i \in DOMAIN merged
      BY <1>2, <1>8, <2>1
    <3>. QED  BY <1>2, <1>8, <2>1, <3>1
  <2>2. CASE ~(i <= n)
    <3>1. i - n \in DOMAIN feed[s] /\ n + (i - n) = i
      BY <1>2, <1>7, <1>8, <2>2
    <3>. QED  BY <1>5, <1>8, <2>2, <3>1
  <2>. QED  BY <2>1, <2>2
<1>. QED  BY <1>8, <1>9 DEF Numbered, new

LEMMA EndKeeps ==
    ASSUME PipeInv, NEW s \in DOMAIN fetch, EndFetch(s)
    PROVE  PipeInv'
<1>1. /\ fetch' = [fetch EXCEPT ![s] = "done"] /\ fetch[s] = "fetching"
      /\ merged' = merged \o Arrived(s) \/ merged' = merged
      /\ UNCHANGED <<profile, feed, run, output>>
  BY DEF EndFetch
<1>2. run = "fetching"
  BY <1>1 DEF PipeInv
<1>3. fetch' \in [DOMAIN feed' -> {"waiting", "fetching", "done"}]
  BY <1>1 DEF PipeInv
<1>4. Numbered(merged')
  BY <1>1, ArrivedIs DEF PipeInv
<1>. QED  BY <1>1, <1>2, <1>3, <1>4 DEF PipeInv, Numbered

LEMMA FinishKeeps ==
    ASSUME PipeInv, Finish
    PROVE  PipeInv'
<1>1. /\ \A s \in DOMAIN fetch : fetch[s] = "done"
      /\ UNCHANGED <<profile, feed, fetch, merged>>
      /\ run = "fetching"
  BY DEF Finish
<1>2. CASE run' = "error" /\ output' = output
  BY <1>1, <1>2 DEF PipeInv, Numbered
<1>3. CASE run' = "ok" /\ \E out \in Engine(Validate[Dedup[merged]], profile) :
                              output' = Prefixed(out)
  <2>1. PICK out \in Engine(Validate[Dedup[merged]], profile) : output' = Prefixed(out)
    BY <1>3
  <2>2. Engine(Validate[Dedup[merged]], profile)' = Engine(Validate[Dedup[merged]], profile)
    BY <1>1
  <2>3. Prefixed(out)' = Prefixed(out)
    BY <1>1 DEF Prefixed, Tagged, SourceOf
  <2>4. \E o \in Engine(Validate[Dedup[merged]], profile)' : output' = Prefixed(o)'
    BY <2>1, <2>2, <2>3
  <2>. QED  BY <1>1, <1>3, <2>4 DEF PipeInv, Numbered
<1>. QED  BY <1>2, <1>3 DEF Finish

(* The invariant holds in every run.                                       *)
THEOREM PipeInvariance == PipeSpec => []PipeInv
<1>1. PipeInit => PipeInv
  BY PipeInitially
<1>2. PipeInv /\ [PipeNext]_pipeVars => PipeInv'
  <2>. SUFFICES ASSUME PipeInv, [PipeNext]_pipeVars PROVE PipeInv'
    OBVIOUS
  <2>1. CASE UNCHANGED pipeVars
    <3>1. UNCHANGED <<profile, feed, fetch, merged, run, output>>
      BY <2>1 DEF pipeVars
    <3>2. \A out : Prefixed(out)' = Prefixed(out)
      BY <3>1 DEF Prefixed, Tagged, SourceOf
    <3>3. Engine(Validate[Dedup[merged]], profile)' = Engine(Validate[Dedup[merged]], profile)
      BY <3>1
    <3>4. run' = "ok" => \E out \in Engine(Validate[Dedup[merged]], profile)' :
                             output' = Prefixed(out)'
      BY <3>1, <3>2, <3>3 DEF PipeInv
    <3>. QED  BY <3>1, <3>4 DEF PipeInv, Numbered
  <2>2. ASSUME NEW s \in DOMAIN fetch, StartFetch(s) PROVE PipeInv'
    BY <2>2, StartKeeps
  <2>3. ASSUME NEW s \in DOMAIN fetch, EndFetch(s) PROVE PipeInv'
    BY <2>3, EndKeeps
  <2>4. ASSUME Finish PROVE PipeInv'
    BY <2>4, FinishKeeps
  <2>. QED  BY <2>1, <2>2, <2>3, <2>4 DEF PipeNext
<1>. QED  BY <1>1, <1>2, PTL DEF PipeSpec

(* What the invariant says of the output: before the prefixes it was a     *)
(* list of nodes that survive, each once.                                  *)
Comes(out) ==
    /\ output = Prefixed(out)
    /\ out \in Seq(Nodes)
    /\ DOMAIN output = DOMAIN out
    /\ \A k \in DOMAIN out :
          /\ out[k].no \in DOMAIN merged /\ Survives(out[k].no)
          /\ ~Moves => Key(out[k]) = Key(merged[out[k].no])
          /\ Begins(profile.rename, output[k])
          /\ Key(output[k]) = Key(out[k])
          /\ output[k].no = out[k].no /\ output[k].name = out[k].name
          /\ output[k].source = out[k].source /\ output[k].server = out[k].server
          /\ profile.prefix => output[k].prefix = SourceOf(out[k], Tagged(out))
    /\ \A k, m \in DOMAIN out : out[k].no = out[m].no => k = m
    /\ \A i \in DOMAIN merged : Survives(i) => \E k \in DOMAIN out : out[k].no = i
    /\ profile.sort = "name" =>
          \A k, m \in DOMAIN out : k < m =>
              /\ ~Earlier(out[m].name, out[k].name)
              /\ ~Earlier(out[k].name, out[m].name) => out[k].no < out[m].no
    /\ (profile.sort = "region" /\ \A k \in DOMAIN out : ~Ambiguous(out[k])) =>
          \A k, m \in DOMAIN out : k < m => ~(Rank[Code(out[m])] < Rank[Code(out[k])])

LEMMA OutputIs ==
    ASSUME PipeInv, run = "ok"
    PROVE  \E out : Comes(out)
<1>1. Numbered(merged) /\ profile \in Profiles
  BY DEF PipeInv
<1>2. PICK out \in Engine(Validate[Dedup[merged]], profile) : output = Prefixed(out)
  BY DEF PipeInv
<1>3. PICK l, f : Result(out, l, f)
  BY <1>1, EngineIs
<1>4. /\ out \in Seq(Nodes)
      /\ \A k \in DOMAIN out :
            /\ out[k].no \in DOMAIN merged /\ Survives(out[k].no)
            /\ ~Moves => Key(out[k]) = Key(merged[out[k].no])
            /\ Begins(profile.rename, out[k])
      /\ \A k, m \in DOMAIN out : out[k].no = out[m].no => k = m
      /\ \A i \in DOMAIN merged : Survives(i) => \E k \in DOMAIN out : out[k].no = i
      /\ profile.sort = "name" =>
            \A k, m \in DOMAIN out : k < m =>
                /\ ~Earlier(out[m].name, out[k].name)
                /\ ~Earlier(out[k].name, out[m].name) => out[k].no < out[m].no
      /\ (profile.sort = "region" /\ \A k \in DOMAIN out : ~Ambiguous(out[k])) =>
            \A k, m \in DOMAIN out : k < m => ~(Rank[Code(out[m])] < Rank[Code(out[k])])
  BY <1>1, <1>3, ResultIs
<1>5. /\ DOMAIN output = DOMAIN out
      /\ \A k \in DOMAIN out :
            /\ Key(output[k]) = Key(out[k])
            /\ \A g \in {"type", "server", "name", "no", "source"} :
                  output[k][g] = out[k][g]
            /\ profile.prefix => output[k].prefix = SourceOf(out[k], Tagged(out))
            /\ Begins(profile.rename, out[k]) => Begins(profile.rename, output[k])
  BY <1>2, <1>4, PrefixedIs
<1>6. \A k \in DOMAIN out : /\ output[k].no = out[k].no /\ output[k].name = out[k].name
                            /\ output[k].source = out[k].source
                            /\ output[k].server = out[k].server
  BY <1>5
<1>. QED  BY <1>2, <1>4, <1>5, <1>6 DEF Comes

-----------------------------------------------------------------------------
(* No endpoint is twice in the result, whatever the order the sources      *)
(* ended in.                                                               *)
THEOREM EndpointsStayDistinct == PipeSpec => []OneNodePerEndpoint
<1>1. PipeInv => OneNodePerEndpoint
  <2>. SUFFICES ASSUME PipeInv, ~Moves, NEW i \in DOMAIN output, NEW j \in DOMAIN output,
                       Key(output[i]) = Key(output[j])
                PROVE  i = j
    BY DEF OneNodePerEndpoint
  <2>1. run = "ok"
    BY DEF PipeInv
  <2>2. PICK out : Comes(out)
    BY <2>1, OutputIs
  <2>. DEFINE a == out[i].no
              b == out[j].no
  <2>3. /\ a \in DOMAIN merged /\ Survives(a) /\ Key(merged[a]) = Key(output[i])
        /\ b \in DOMAIN merged /\ Survives(b) /\ Key(merged[b]) = Key(output[j])
    BY <2>2 DEF Comes
  <2>4. a = b => i = j
    BY <2>2 DEF Comes
  <2>. HIDE DEF a, b
  <2>5. a \in Nat /\ b \in Nat /\ a >= 1 /\ b >= 1
    <3>1. DOMAIN merged = 1..Len(merged) /\ Len(merged) \in Nat
      BY DEF PipeInv, Numbered
    <3>. QED  BY <2>3, <3>1
  <2>6. ~(a < b) /\ ~(b < a)
    BY <2>3, <2>5 DEF Survives, FirstOf
  <2>. QED  BY <2>4, <2>5, <2>6
<1>. QED  BY <1>1, PipeInvariance, PTL

(* An endpoint of which every node is good is in the result, and one of    *)
(* which none is is not.                                                   *)
THEOREM EndpointsAreKept == PipeSpec => []EndpointsKept
<1>1. PipeInv => EndpointsKept
  <2>. SUFFICES ASSUME PipeInv, run = "ok", ~Moves PROVE EndpointsKept
    BY DEF EndpointsKept
  <2>. DEFINE Good(n) == /\ n.name # NoName
                         /\ n.type \notin profile.script.drops
                         /\ profile.include = {}
                            \/ Words(n.name) \cap profile.include # {}
                         /\ Words(n.name) \cap profile.exclude = {}
                         /\ profile.types = {} \/ n.type \in profile.types
                         /\ n.server \in Addresses \cup {""} => profile.servers # "domain"
                         /\ n.server \notin Addresses => profile.servers # "ip"
              With(k) == {n \in {merged[i] : i \in DOMAIN merged} : Key(n) = k}
              Out == {Key(output[i]) : i \in DOMAIN output}
  <2>1. \A i \in DOMAIN merged : Survives(i) <=> FirstOf(i) /\ Good(merged[i])
    BY DEF Survives, Passes, Dropped
  <2>2. PICK out : Comes(out)
    BY OutputIs
  <2>3. DOMAIN merged = 1..Len(merged) /\ Len(merged) \in Nat
    BY DEF PipeInv, Numbered
  <2>. HIDE DEF Good
  <2>4. ASSUME NEW k \in {Key(merged[i]) : i \in DOMAIN merged},
               \A n \in With(k) : Good(n)
        PROVE  k \in Out
    <3>. DEFINE I == {i \in DOMAIN merged : Key(merged[i]) = k}
    <3>1. I \in SUBSET (1..Len(merged)) /\ I # {}
      BY <2>3
    <3>. HIDE DEF I
    <3>2. PICK i \in I : \A j \in I : i <= j
      BY <2>3, <3>1, LeastIndex
    <3>3. i \in DOMAIN merged /\ Key(merged[i]) = k
      BY DEF I
    <3>4. FirstOf(i)
      <4>. SUFFICES ASSUME NEW j \in 1..(i - 1), Key(merged[j]) = Key(merged[i])
                    PROVE  FALSE
        BY DEF FirstOf
      <4>1. j \in DOMAIN merged /\ j < i /\ j \in Int /\ i \in Int
        BY <2>3, <3>3
      <4>2. j \in I
        BY <3>3, <4>1 DEF I
      <4>. QED  BY <3>2, <4>1, <4>2
    <3>5. Survives(i)
      BY <2>1, <2>4, <3>3, <3>4
    <3>6. PICK q \in DOMAIN out : out[q].no = i
      BY <2>2, <3>3, <3>5 DEF Comes
    <3>7. q \in DOMAIN output /\ Key(output[q]) = k
      BY <2>2, <3>3, <3>6 DEF Comes
    <3>. QED  BY <3>7
  <2>5. ASSUME NEW k \in Out PROVE \E n \in With(k) : Good(n)
    <3>1. PICK q \in DOMAIN output : k = Key(output[q])
      OBVIOUS
    <3>. DEFINE i == out[q].no
    <3>2. i \in DOMAIN merged /\ Survives(i) /\ Key(merged[i]) = k
      BY <2>2, <3>1 DEF Comes
    <3>. QED  BY <2>1, <3>2
  <2>. HIDE DEF With, Out
  <2>6. \A k \in {Key(merged[i]) : i \in DOMAIN merged} :
           /\ (\A n \in With(k) : Good(n)) => k \in Out
           /\ k \in Out => \E n \in With(k) : Good(n)
    BY <2>4, <2>5
  <2>. QED  BY <2>6 DEF EndpointsKept, With, Out, Good
<1>. QED  BY <1>1, PipeInvariance, PTL

(* A prefix names the source of the node, or that of another node which    *)
(* has its endpoint in the end.                                            *)
THEOREM PrefixesAreTrue == PipeSpec => []PrefixTruthful
<1>1. PipeInv => PrefixTruthful
  <2>. SUFFICES ASSUME PipeInv, run = "ok", profile.prefix, NEW k \in DOMAIN output,
                       output[k].prefix # output[k].source
                PROVE  \E i \in DOMAIN merged :
                          /\ merged[i].source # output[k].source
                          /\ Key(Tagged(output)[i]) = Key(output[k])
    BY DEF PrefixTruthful
  <2>1. PICK out : Comes(out)
    BY OutputIs
  <2>2. /\ DOMAIN output = DOMAIN out
        /\ \A m \in DOMAIN out : output[m].no = out[m].no /\ Key(output[m]) = Key(out[m])
        /\ \A m, q \in DOMAIN out : out[m].no = out[q].no => m = q
        /\ output[k].prefix = SourceOf(out[k], Tagged(out))
        /\ out[k].no \in DOMAIN merged
    BY <2>1 DEF Comes
  <2>3. DOMAIN merged = 1..Len(merged) /\ Len(merged) \in Nat
    BY DEF PipeInv, Numbered
  <2>4. ASSUME NEW m \in DOMAIN out, NEW i \in DOMAIN merged, out[m].no = i
        PROVE  Tagged(out)[i] = out[m] /\ Tagged(output)[i] = output[m]
    <3>1. (CHOOSE j \in DOMAIN out : out[j].no = i) = m
      BY <2>2, <2>4
    <3>2. (CHOOSE j \in DOMAIN output : output[j].no = i) = m
      BY <2>2, <2>4
    <3>. QED  BY <2>2, <2>4, <3>1, <3>2 DEF Tagged
  <2>5. ASSUME NEW i \in DOMAIN merged
        PROVE  Key(Tagged(output)[i]) = Key(Tagged(out)[i])
    <3>1. CASE \E m \in DOMAIN out : out[m].no = i
      BY <2>2, <2>4, <3>1
    <3>2. CASE ~\E m \in DOMAIN out : out[m].no = i
      <4>1. ~\E m \in DOMAIN output : output[m].no = i
        BY <2>2, <3>2
      <4>. QED  BY <3>2, <4>1 DEF Tagged
    <3>. QED  BY <3>1, <3>2
  <2>. DEFINE same == {i \in DOMAIN Tagged(out) : Key(Tagged(out)[i]) = Key(out[k])}
              last == CHOOSE i \in same : \A j \in same : j <= i
  <2>6. DOMAIN Tagged(out) = DOMAIN merged
    BY DEF Tagged
  <2>7. out[k].no \in same
    BY <2>2, <2>4, <2>6
  <2>8. same \in SUBSET (1..Len(merged)) /\ same # {}
    BY <2>3, <2>6, <2>7
  <2>9. SourceOf(out[k], Tagged(out)) = merged[last].source
    BY DEF SourceOf
  <2>10. last \in same
    <3>. HIDE DEF same
    <3>1. \E i \in same : \A j \in same : j <= i
      BY <2>3, <2>8, GreatestIndex
    <3>. QED  BY <3>1
  <2>. HIDE DEF last
  <2>11. last \in DOMAIN merged /\ Key(Tagged(out)[last]) = Key(out[k])
    BY <2>6, <2>10
  <2>. QED  BY <2>2, <2>5, <2>9, <2>11
<1>. QED  BY <1>1, PipeInvariance, PTL

LEMMA ComesFromNodes ==
    ASSUME NEW out, Comes(out), NEW k \in DOMAIN out
    PROVE  out[k] \in Nodes
<1>1. out \in Seq(Nodes)
  BY DEF Comes
<1>. QED  BY <1>1

LEMMA NotBefore ==
    ASSUME NEW c \in Codes, NEW d \in Codes, ~(Rank[d] < Rank[c])
    PROVE  Rank[c] <= Rank[d]
<1>1. c \in Strings /\ d \in Strings
  BY EngineAssumption
<1>2. Rank[c] \in Int /\ Rank[d] \in Int
  BY <1>1, RankIs
<1>. QED  BY <1>2

(* Names made with {code} are in the order of their codes, although each   *)
(* look at a name with keywords of two regions may give either, unless one *)
(* of the names given has two.                                             *)
THEOREM CodesAreInOrder == PipeSpec => []CodesInOrder
<1>1. PipeInv => CodesInOrder
  <2>. SUFFICES ASSUME PipeInv, run = "ok", profile.sort = "region",
                       Len(profile.rename) > 1, profile.rename[1] = "{code}",
                       profile.rename[2] \in Separators,
                       \A k \in DOMAIN output : ~Ambiguous(output[k]),
                       NEW i \in DOMAIN output, NEW j \in DOMAIN output, i < j,
                       output[i].name[1] \in Codes, output[j].name[1] \in Codes
                PROVE  Rank[output[i].name[1]] <= Rank[output[j].name[1]]
    BY DEF CodesInOrder
  <2>1. PICK out : Comes(out)
    BY OutputIs
  <2>2. /\ out \in Seq(Nodes) /\ DOMAIN output = DOMAIN out
        /\ \A k \in DOMAIN out : /\ output[k].name = out[k].name
                                  /\ output[k].server = out[k].server
                                  /\ Begins(profile.rename, output[k])
    BY <2>1 DEF Comes
  <2>3. \A k \in DOMAIN out : ~Ambiguous(out[k])
    BY <2>2 DEF Ambiguous
  <2>4. ~(Rank[Code(out[j])] < Rank[Code(out[i])])
    BY <2>1, <2>2, <2>3 DEF Comes
  <2>5. ASSUME NEW k \in {i, j} PROVE Code(out[k]) = output[k].name[1]
    <3>0. k \in DOMAIN out
      BY <2>2
    <3>1. out[k] \in Nodes /\ ~Ambiguous(out[k])
      BY <2>1, <2>3, <3>0, ComesFromNodes
    <3>2. Len(output[k].name) > 1 /\ output[k].name[2] \in Separators
      BY <2>2, <3>0 DEF Begins
    <3>3. out[k].name = output[k].name /\ out[k].name[1] \in Codes
      BY <2>2, <3>0
    <3>. QED  BY <3>1, <3>2, <3>3, LeadIsCode
  <2>6. ~(Rank[output[j].name[1]] < Rank[output[i].name[1]])
    BY <2>4, <2>5
  <2>. QED  BY <2>6, NotBefore
<1>. QED  BY <1>1, PipeInvariance, PTL

(* The result is in the order of its names, and in that of arrival where   *)
(* they are equal.                                                         *)
THEOREM NamesAreInOrder == PipeSpec => []NamesInOrder
<1>1. PipeInv => NamesInOrder
  <2>. SUFFICES ASSUME PipeInv, profile.sort = "name",
                       NEW i \in DOMAIN output, NEW j \in DOMAIN output, i < j
                PROVE  /\ ~Earlier(output[j].name, output[i].name)
                       /\ output[i].name = output[j].name => output[i].no < output[j].no
    BY DEF NamesInOrder
  <2>1. run = "ok"
    BY DEF PipeInv
  <2>2. PICK out : Comes(out)
    BY <2>1, OutputIs
  <2>3. /\ i \in DOMAIN out /\ j \in DOMAIN out
        /\ output[i].name = out[i].name /\ output[j].name = out[j].name
        /\ output[i].no = out[i].no /\ output[j].no = out[j].no
    BY <2>2 DEF Comes
  <2>4. /\ ~Earlier(out[j].name, out[i].name)
        /\ ~Earlier(out[i].name, out[j].name) => out[i].no < out[j].no
    BY <2>2, <2>3 DEF Comes
  <2>5. out[i].name \in Seq(Strings)
    <3>1. out \in Seq(Nodes)
      BY <2>2 DEF Comes
    <3>2. out[i] \in Nodes
      BY <2>3, <3>1
    <3>. QED  BY <3>2 DEF Nodes
  <2>6. ~Earlier(out[i].name, out[i].name)
    BY <2>5, EarlierIsNot
  <2>. QED  BY <2>3, <2>4, <2>6
<1>. QED  BY <1>1, PipeInvariance, PTL
=============================================================================
