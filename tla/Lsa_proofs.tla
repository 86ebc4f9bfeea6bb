----------------------------- MODULE Lsa_proofs -----------------------------
(***************************************************************************)
(* Proofs about D-LSA, for every page and block size, number of requests,  *)
(* pages and drafts: the buckets of a block, the slot list of a query,     *)
(* the rows in the paged cache, and what a query reads.                    *)
(***************************************************************************)
EXTENDS Lsa, WellFoundedInduction, SequenceTheorems, FiniteSetTheorems, FunctionTheorems, TLAPS

-----------------------------------------------------------------------------
(* Inductions over a set of naturals.                                      *)

\* A set of naturals has a least member.
LEMMA LeastNat ==
  ASSUME NEW S, S \subseteq Nat, S # {}
  PROVE  \E m \in S : \A n \in S : m <= n
<1> DEFINE R == {ss \in Nat \X Nat : ss[1] < ss[2]}
<1>1. IsWellFoundedOn(R, Nat)
  BY NatLessThanWellFounded DEF OpToRel
<1>2. PICK m \in S : \A n \in S : ~(<<n, m>> \in R)
  BY <1>1, WFMin
<1>3. ASSUME NEW n \in S PROVE m <= n
  <2>1. m \in Nat /\ n \in Nat /\ <<n, m>> \in Nat \X Nat /\ <<n, m>> \notin R
    BY <1>2
  <2> QED BY <2>1
<1> QED BY <1>3

\* What holds at 0 and is handed on holds everywhere.
LEMMA Induction ==
  ASSUME NEW S, 0 \in S, \A n \in Nat : n \in S => n + 1 \in S
  PROVE  Nat \subseteq S
<1> SUFFICES ASSUME Nat \ S # {} PROVE FALSE
  OBVIOUS
<1>1. PICK m \in Nat \ S : \A n \in Nat \ S : m <= n
  BY LeastNat
<1>2. m - 1 \in Nat
  BY <1>1
<1> QED BY <1>1, <1>2

-----------------------------------------------------------------------------
(* Lists one behind the other.                                             *)

IsList(s, n) == s = [i \in 1 .. n |-> s[i]]

\* w is s, of length a, and t, of length b, behind it.
IsJoin(w, s, t, a, b) ==
  /\ Len(s) = a /\ Len(t) = b /\ IsList(w, a + b)
  /\ \A i \in 1 .. a : w[i] = s[i]
  /\ \A i \in 1 .. b : w[a + i] = t[i]

\* A concatenation has the elements of its parts, one behind the other.
LEMMA Joined ==
  ASSUME NEW a \in Nat, NEW b \in Nat, NEW s, NEW t, IsList(s, a), IsList(t, b)
  PROVE  IsJoin(s \o t, s, t, a, b)
<1> DEFINE S == {s[i] : i \in 1 .. a} \cup {t[i] : i \in 1 .. b}
<1>1. s \in Seq(S) /\ Len(s) = a
  <2>1. \A i \in 1 .. a : s[i] \in S
    OBVIOUS
  <2> HIDE DEF S
  <2>2. s \in [1 .. a -> S]
    BY <2>1 DEF IsList
  <2> QED BY <2>2
<1>2. t \in Seq(S) /\ Len(t) = b
  <2>1. \A i \in 1 .. b : t[i] \in S
    OBVIOUS
  <2> HIDE DEF S
  <2>2. t \in [1 .. b -> S]
    BY <2>1 DEF IsList
  <2> QED BY <2>2
<1> HIDE DEF S
<1>3. /\ s \o t \in Seq(S) /\ Len(s \o t) = a + b
      /\ \A i \in 1 .. a + b : (s \o t)[i] = IF i <= a THEN s[i] ELSE t[i - a]
  <2>1. /\ s \o t \in Seq(S) /\ Len(s \o t) = Len(s) + Len(t)
        /\ \A i \in 1 .. Len(s) + Len(t) :
             (s \o t)[i] = IF i <= Len(s) THEN s[i] ELSE t[i - Len(s)]
    BY <1>1, <1>2, ConcatProperties, Zenon
  <2> QED BY <1>1, <1>2, <2>1, Zenon
<1>4. IsList(s \o t, a + b)
  BY <1>3, LenProperties DEF IsList
<1>5. ASSUME NEW i \in 1 .. a PROVE (s \o t)[i] = s[i]
  <2>1. i \in 1 .. a + b /\ i <= a
    OBVIOUS
  <2> QED BY <1>3, <2>1
<1>6. ASSUME NEW i \in 1 .. b PROVE (s \o t)[a + i] = t[i]
  <2>1. PICK k \in 1 .. a + b : k = a + i /\ ~ k <= a /\ k - a = i
    OBVIOUS
  <2>2. (s \o t)[k] = t[k - a]
    BY <1>3, <2>1
  <2> QED BY <2>1, <2>2
<1> QED BY <1>1, <1>2, <1>4, <1>5, <1>6 DEF IsJoin

\* f cuts the sequence F into n pieces that end at e[1], ..., e[n].
Cuts(f, e, F, n) ==
  /\ e[0] = 0 /\ f = [c \in 1 .. n |-> f[c]]
  /\ \A c \in 1 .. n : /\ e[c] \in Nat /\ e[c - 1] \in Nat /\ e[c - 1] <= e[c]
                       /\ f[c] = [j \in 1 .. e[c] - e[c - 1] |-> F[e[c - 1] + j]]

\* g is the recursive function of FlattenSeq, up to n.
Flattening(g, f, n) == g = [i \in 1 .. n |-> IF i = 1 THEN f[i] ELSE g[i - 1] \o f[i]]

LEMMA FlatteningExists ==
  ASSUME NEW f, NEW n \in Nat
  PROVE  \E g : Flattening(g, f, n)
<1> DEFINE Made == {m \in Nat : \E g : Flattening(g, f, m)}
<1>1. 0 \in Made
  <2>1. Flattening([i \in 1 .. 0 |-> 0], f, 0)
    BY DEF Flattening
  <2> QED BY <2>1
<1>2. ASSUME NEW m \in Nat, m \in Made PROVE m + 1 \in Made
  <2>1. PICK g : Flattening(g, f, m)
    BY <1>2
  <2> DEFINE h == [i \in 1 .. m + 1 |-> IF i <= m THEN g[i] ELSE
                                        IF i = 1 THEN f[i] ELSE g[m] \o f[i]]
  <2>2. ASSUME NEW i \in 1 .. m + 1
        PROVE  h[i] = IF i = 1 THEN f[i] ELSE h[i - 1] \o f[i]
    <3>1. CASE i <= m
      <4>1. i \in 1 .. m /\ h[i] = g[i] /\ (i # 1 => h[i - 1] = g[i - 1])
        BY <3>1
      <4>2. g[i] = IF i = 1 THEN f[i] ELSE g[i - 1] \o f[i]
        BY <2>1, <4>1 DEF Flattening
      <4> QED BY <4>1, <4>2
    <3>2. CASE ~ i <= m
      <4>1. i = m + 1 /\ (i # 1 => h[i - 1] = g[m] /\ i - 1 = m)
        BY <3>2
      <4> QED BY <3>2, <4>1
    <3> QED BY <3>1, <3>2
  <2>3. Flattening(h, f, m + 1)
    <3> DEFINE k == [i \in 1 .. m + 1 |-> IF i = 1 THEN f[i] ELSE h[i - 1] \o f[i]]
    <3>1. \A i \in 1 .. m + 1 : h[i] = k[i]
      BY <2>2
    <3>2. h = k
      BY <3>1
    <3> QED BY <3>2 DEF Flattening
  <2> HIDE DEF h
  <2> QED BY <2>3
<1>3. Nat \subseteq Made
  <2> HIDE DEF Made
  <2> QED BY <1>1, <1>2, Induction
<1> QED BY <1>3

\* The first a elements of a sequence and the d behind them are the first a + d.
LEMMA CutsJoin ==
  ASSUME NEW F, NEW a \in Nat, NEW d \in Nat
  PROVE  [t \in 1 .. a |-> F[t]] \o [j \in 1 .. d |-> F[a + j]] = [t \in 1 .. a + d |-> F[t]]
<1>s. PICK s : s = [t \in 1 .. a |-> F[t]]
  OBVIOUS
<1>u. PICK u : u = [j \in 1 .. d |-> F[a + j]]
  OBVIOUS
<1>1. IsList(s, a) /\ IsList(u, d)
  BY <1>s, <1>u DEF IsList
<1>2. /\ \A t \in 1 .. a : s[t] = F[t]
      /\ \A i \in 1 .. d : u[i] = F[a + i]
  BY <1>s, <1>u
<1>3. /\ IsList(s \o u, a + d)
      /\ \A i \in 1 .. a : (s \o u)[i] = s[i]
      /\ \A i \in 1 .. d : (s \o u)[a + i] = u[i]
  <2>1. IsJoin(s \o u, s, u, a, d)
    BY <1>1, Joined, Zenon
  <2> QED BY <2>1 DEF IsJoin
<1>4. ASSUME NEW t \in 1 .. a + d PROVE (s \o u)[t] = F[t]
  <2>1. CASE t <= a
    <3>1. t \in 1 .. a
      BY <2>1
    <3> QED BY <1>2, <1>3, <3>1
  <2>2. CASE ~ t <= a
    <3>1. PICK i \in 1 .. d : a + i = t
      <4>1. t - a \in 1 .. d /\ a + (t - a) = t
        BY <2>2
      <4> QED BY <4>1
    <3> QED BY <1>2, <1>3, <3>1
  <2> QED BY <2>1, <2>2
<1>5. s \o u = [t \in 1 .. a + d |-> (s \o u)[t]]
  BY <1>3 DEF IsList
<1> DEFINE w == s \o u
<1>6. w = [t \in 1 .. a + d |-> w[t]] /\ \A t \in 1 .. a + d : w[t] = F[t]
  BY <1>4, <1>5
<1> HIDE DEF w
<1>7. w = [t \in 1 .. a + d |-> F[t]]
  BY <1>6
<1> QED BY <1>7, <1>s, <1>u DEF w

\* Flattening the pieces gives the sequence.
LEMMA FlattenCuts ==
  ASSUME NEW n \in Nat \ {0}, NEW f, NEW e, NEW F, Cuts(f, e, F, n)
  PROVE  FlattenSeq(f) = [t \in 1 .. e[n] |-> F[t]]
<1>1. e[0] = 0 /\ f = [c \in 1 .. n |-> f[c]]
  BY Zenon DEF Cuts
<1>2. \A c \in 1 .. n : /\ e[c] \in Nat /\ e[c - 1] \in Nat /\ e[c - 1] <= e[c]
                        /\ f[c] = [j \in 1 .. e[c] - e[c - 1] |-> F[e[c - 1] + j]]
  BY Zenon DEF Cuts
<1>3. Len(f) = n
  <2> DEFINE R == {f[b] : b \in 1 .. n}
  <2>1. \A b \in 1 .. n : f[b] \in R
    OBVIOUS
  <2> HIDE DEF R
  <2>2. f \in [1 .. n -> R]
    BY <1>1, <2>1
  <2>3. f \in Seq(R) /\ DOMAIN f = 1 .. n
    BY <2>2
  <2>4. DOMAIN f = 1 .. Len(f) /\ Len(f) \in Nat
    BY <2>3, LenProperties
  <2> QED BY <2>3, <2>4
<1> DEFINE g == CHOOSE g : Flattening(g, f, n)
<1>4. Flattening(g, f, n)
  BY FlatteningExists
<1>5. FlattenSeq(f) = g[n]
  BY <1>3 DEF FlattenSeq, Flattening
<1> HIDE DEF g
<1> DEFINE T == {m \in Nat : m + 1 <= n => g[m + 1] = [t \in 1 .. e[m + 1] |-> F[t]]}
<1>6. 0 \in T
  <2> SUFFICES ASSUME 1 <= n PROVE g[1] = [t \in 1 .. e[1] |-> F[t]]
    OBVIOUS
  <2>1. g[1] = f[1]
    BY <1>4 DEF Flattening
  <2>2. e[1] \in Nat /\ f[1] = [j \in 1 .. e[1] - e[0] |-> F[e[0] + j]]
    <3>1. 1 \in 1 .. n /\ 1 - 1 = 0
      OBVIOUS
    <3> QED BY <1>2, <3>1
  <2>3. [j \in 1 .. e[1] - 0 |-> F[0 + j]] = [t \in 1 .. e[1] |-> F[t]]
    BY <2>2
  <2> QED BY <1>1, <2>1, <2>2, <2>3
<1>7. ASSUME NEW i \in Nat, i \in T PROVE i + 1 \in T
  <2> SUFFICES ASSUME i + 1 + 1 <= n PROVE g[i + 1 + 1] = [t \in 1 .. e[i + 1 + 1] |-> F[t]]
    OBVIOUS
  <2>1. PICK a \in 1 .. n : a = i + 1 + 1 /\ a # 1 /\ a - 1 = i + 1
    OBVIOUS
  <2>2. g[a - 1] = [t \in 1 .. e[a - 1] |-> F[t]]
    BY <1>7, <2>1
  <2>3. g[a] = g[a - 1] \o f[a]
    <3>1. \A c \in 1 .. n : c # 1 => g[c] = g[c - 1] \o f[c]
      BY <1>4, Zenon DEF Flattening
    <3> QED BY <2>1, <3>1, Zenon
  <2>4. /\ e[a] \in Nat /\ e[a - 1] \in Nat /\ e[a - 1] <= e[a]
        /\ f[a] = [j \in 1 .. e[a] - e[a - 1] |-> F[e[a - 1] + j]]
    BY <1>2, <2>1, Zenon
  <2>5. PICK q \in Nat : q = e[a - 1]
    BY <2>4
  <2>6. PICK d \in Nat : d = e[a] - e[a - 1] /\ e[a] = q + d
    BY <2>4, <2>5
  <2>7. f[a] = [j \in 1 .. d |-> F[q + j]] /\ g[a - 1] = [t \in 1 .. q |-> F[t]]
    BY <2>2, <2>4, <2>5, <2>6, Zenon
  <2>8. g[a] = [t \in 1 .. e[a] |-> F[t]]
    <3>1. [t \in 1 .. q |-> F[t]] \o [j \in 1 .. d |-> F[q + j]] = [t \in 1 .. q + d |-> F[t]]
      BY CutsJoin
    <3>2. g[a] = [t \in 1 .. q + d |-> F[t]]
      BY <2>3, <2>7, <3>1
    <3> QED BY <2>6, <3>2
  <2> QED BY <2>1, <2>8
<1>8. Nat \subseteq T
  <2> HIDE DEF T
  <2> QED BY <1>6, <1>7, Induction
<1>9. n - 1 \in Nat /\ n - 1 + 1 = n
  OBVIOUS
<1> QED BY <1>5, <1>8, <1>9

-----------------------------------------------------------------------------
(* Places by rank.                                                         *)

\* before orders the members of S strictly.
Ordered(S, before) ==
  /\ \A x \in S : <<x, x>> \notin before
  /\ \A x, y \in S : x # y => <<x, y>> \in before \/ <<y, x>> \in before
  /\ \A x, y, z \in S : <<x, y>> \in before /\ <<y, z>> \in before => <<x, z>> \in before

Earlier(S, before, x) == {y \in S : <<y, x>> \in before}

\* s lists each member of S once, each behind those before it.
Ranked(s, S, before) ==
  /\ Cardinality(S) \in Nat
  /\ s \in [1 .. Cardinality(S) -> S]
  /\ \A i \in 1 .. Cardinality(S) : Cardinality(Earlier(S, before, s[i])) = i - 1
  /\ \A i, j \in 1 .. Cardinality(S) : s[i] = s[j] => i = j
  /\ \A x \in S : Cardinality(Earlier(S, before, x)) \in 0 .. Cardinality(S) - 1
                  /\ s[Cardinality(Earlier(S, before, x)) + 1] = x

\* Of two members the later one has more before it.
LEMMA RankGrows ==
  ASSUME NEW S, IsFiniteSet(S), NEW before, Ordered(S, before), NEW x \in S, NEW y \in S,
         <<x, y>> \in before
  PROVE  /\ Cardinality(Earlier(S, before, x)) \in Nat
         /\ Cardinality(Earlier(S, before, y)) \in Nat
         /\ Cardinality(Earlier(S, before, x)) < Cardinality(Earlier(S, before, y))
<1> DEFINE a == Earlier(S, before, x)
           b == Earlier(S, before, y)
<1>1. a \subseteq S /\ b \subseteq S /\ a \cup {x} \subseteq b /\ x \notin a
  BY DEF Ordered, Earlier
<1> HIDE DEF a, b
<1>2. IsFiniteSet(a) /\ IsFiniteSet(b) /\ Cardinality(a) \in Nat /\ Cardinality(b) \in Nat
  BY <1>1, FS_Subset, FS_CardinalityType
<1>3. Cardinality(a \cup {x}) = Cardinality(a) + 1
  BY <1>1, <1>2, FS_AddElement
<1>4. Cardinality(a \cup {x}) <= Cardinality(b)
  BY <1>1, <1>2, FS_Subset
<1> QED BY <1>2, <1>3, <1>4 DEF a, b

\* What ByRank returns.
LEMMA ByRankIs ==
  ASSUME NEW S, IsFiniteSet(S), NEW before, Ordered(S, before)
  PROVE  Ranked(ByRank(S, before), S, before)
<1>n. PICK n \in Nat : n = Cardinality(S)
  BY FS_CardinalityType
<1> DEFINE rank == [x \in S |-> Cardinality(Earlier(S, before, x)) + 1]
<1>1. ASSUME NEW x \in S
      PROVE  Cardinality(Earlier(S, before, x)) \in 0 .. n - 1
  <2>1. Earlier(S, before, x) \subseteq S \ {x}
    BY DEF Ordered, Earlier
  <2>2. IsFiniteSet(S \ {x}) /\ Cardinality(S \ {x}) = n - 1
    BY <1>n, FS_RemoveElement
  <2>3. /\ IsFiniteSet(Earlier(S, before, x))
        /\ Cardinality(Earlier(S, before, x)) <= n - 1
    BY <2>1, <2>2, FS_Subset
  <2>4. Cardinality(Earlier(S, before, x)) \in Nat
    BY <2>3, FS_CardinalityType
  <2> QED BY <2>3, <2>4
<1>2. ASSUME NEW x \in S, NEW y \in S, rank[x] = rank[y]
      PROVE  x = y
  <2>1. Cardinality(Earlier(S, before, x)) = Cardinality(Earlier(S, before, y))
    BY <1>1, <1>2
  <2>2. CASE <<x, y>> \in before
    BY <2>1, <2>2, RankGrows
  <2>3. CASE <<y, x>> \in before
    BY <2>1, <2>3, RankGrows
  <2> QED BY <2>2, <2>3 DEF Ordered
<1>3. rank \in [S -> 1 .. n]
  BY <1>1
<1>4. \A i \in 1 .. n : \E x \in S : rank[x] = i
  <2>1. rank \in Injection(S, 1 .. n)
    BY <1>2, <1>3 DEF Injection, IsInjective
  <2>2. IsFiniteSet(1 .. n) /\ Cardinality(1 .. n) = n
    BY FS_Interval
  <2>3. rank \in Surjection(S, 1 .. n)
    BY <1>n, <2>1, <2>2, FS_Injection
  <2> QED BY <2>3 DEF Surjection
<1>5. \A x \in S : rank[x] = Cardinality(Earlier(S, before, x)) + 1
  OBVIOUS
<1> DEFINE s == ByRank(S, before)
<1>6. ASSUME NEW i \in 1 .. n
      PROVE  s[i] \in S /\ Cardinality(Earlier(S, before, s[i])) = i - 1
  <2>1. s[i] = CHOOSE x \in S : Cardinality(Earlier(S, before, x)) = i - 1
    BY <1>n DEF ByRank, Earlier
  <2>2. \E x \in S : Cardinality(Earlier(S, before, x)) = i - 1
    <3>1. PICK x \in S : rank[x] = i
      BY <1>4
    <3>2. Cardinality(Earlier(S, before, x)) = i - 1
      BY <1>1, <1>5, <3>1
    <3> QED BY <3>2
  <2> HIDE DEF s
  <2> QED BY <2>1, <2>2
<1>7. s = [i \in 1 .. n |-> s[i]]
  <2> DEFINE G(i) == CHOOSE x \in S : Cardinality({y \in S : <<y, x>> \in before}) = i - 1
  <2>1. s = [i \in 1 .. n |-> G(i)]
    BY <1>n DEF ByRank
  <2> HIDE DEF G, s
  <2> QED BY <2>1
<1> HIDE DEF s, rank
<1>8. s \in [1 .. n -> S]
  BY <1>6, <1>7
<1>9. ASSUME NEW i \in 1 .. n, NEW j \in 1 .. n, s[i] = s[j]
      PROVE  i = j
  BY <1>6, <1>9
<1>10. ASSUME NEW x \in S
       PROVE  s[Cardinality(Earlier(S, before, x)) + 1] = x
  <2>1. PICK i \in 1 .. n : i = Cardinality(Earlier(S, before, x)) + 1
    BY <1>1
  <2>2. Cardinality(Earlier(S, before, s[i])) = Cardinality(Earlier(S, before, x)) /\ s[i] \in S
    BY <1>1, <1>6, <2>1
  <2>3. rank[s[i]] = rank[x]
    BY <1>5, <2>2
  <2> QED BY <1>2, <2>1, <2>2, <2>3
<1> QED BY <1>n, <1>1, <1>6, <1>8, <1>9, <1>10 DEF Ranked, s

\* Naturals in ascending order.
LEMMA AscendingIs ==
  ASSUME NEW S, S \subseteq Nat, IsFiniteSet(S)
  PROVE  /\ Cardinality(S) \in Nat /\ Ascending(S) \in [1 .. Cardinality(S) -> S]
         /\ \A i, j \in 1 .. Cardinality(S) : Ascending(S)[i] = Ascending(S)[j] => i = j
         /\ \A x \in S : \E i \in 1 .. Cardinality(S) : Ascending(S)[i] = x
<1> DEFINE less == {p \in S \X S : p[1] < p[2]}
<1>1. Ordered(S, less)
  BY DEF Ordered
<1>2. Ascending(S) = ByRank(S, less)
  BY DEF Ascending
<1> HIDE DEF less
<1>3. Ranked(Ascending(S), S, less)
  BY <1>1, <1>2, ByRankIs
<1>4. ASSUME NEW x \in S
      PROVE  \E i \in 1 .. Cardinality(S) : Ascending(S)[i] = x
  <2>1. Cardinality(Earlier(S, less, x)) + 1 \in 1 .. Cardinality(S)
    BY <1>3 DEF Ranked
  <2> QED BY <1>3, <2>1 DEF Ranked
<1> QED BY <1>3, <1>4 DEF Ranked

\* Lists whose members are all different, and in no other list.
AllApart(f, k) ==
  \A c, d \in 1 .. k : \A i \in 1 .. Len(f[c]), j \in 1 .. Len(f[d]) :
    f[c][i] = f[d][j] => c = d /\ i = j

\* w has the members of the first k lists, and no other.
Holds(w, f, k, U) ==
  /\ w \in Seq(U)
  /\ \A i \in 1 .. Len(w) : \E c \in 1 .. k : \E j \in 1 .. Len(f[c]) : w[i] = f[c][j]
  /\ \A c \in 1 .. k : \A j \in 1 .. Len(f[c]) : \E i \in 1 .. Len(w) : w[i] = f[c][j]

Distinct(w) == \A i, j \in 1 .. Len(w) : w[i] = w[j] => i = j

LEMMA OneMore ==
  ASSUME NEW U, NEW f, NEW k \in Nat, \A c \in 1 .. k + 1 : f[c] \in Seq(U),
         NEW w, Holds(w, f, k, U)
  PROVE  /\ Holds(w \o f[k + 1], f, k + 1, U)
         /\ AllApart(f, k + 1) /\ Distinct(w) => Distinct(w \o f[k + 1])
<1>t. PICK t \in Seq(U) : t = f[k + 1]
  <2>1. k + 1 \in 1 .. k + 1
    OBVIOUS
  <2> QED BY <2>1
<1>1. w \in Seq(U)
  BY DEF Holds
<1>a. PICK a \in Nat : a = Len(w)
  BY <1>1, LenProperties
<1>b. PICK b \in Nat : b = Len(t)
  BY LenProperties
<1>v. PICK v : v = w \o t
  OBVIOUS
<1>2. /\ v \in Seq(U) /\ Len(v) = a + b
      /\ \A i \in 1 .. a + b : v[i] = IF i <= a THEN w[i] ELSE t[i - a]
  BY <1>1, <1>a, <1>b, <1>v, ConcatProperties
<1>3. \A i \in 1 .. a : v[i] = w[i]
  BY <1>2
<1>4. ASSUME NEW i \in 1 .. b PROVE v[a + i] = t[i]
  <2>1. PICK x \in 1 .. a + b : x = a + i /\ ~ x <= a /\ x - a = i
    OBVIOUS
  <2> QED BY <1>2, <2>1
<1>5. ASSUME NEW i \in 1 .. a + b
      PROVE  i \in 1 .. a \/ \E x \in 1 .. b : i = a + x
  <2>1. CASE i <= a
    BY <2>1
  <2>2. CASE ~ i <= a
    <3>1. i - a \in 1 .. b /\ i = a + (i - a)
      BY <2>2
    <3> QED BY <3>1
  <2> QED BY <2>1, <2>2
<1>6. \A c \in 1 .. k : c \in 1 .. k + 1 /\ c # k + 1
  OBVIOUS
<1>7. ASSUME NEW i \in 1 .. a + b
      PROVE  \E c \in 1 .. k + 1 : \E j \in 1 .. Len(f[c]) : v[i] = f[c][j]
  <2>1. CASE i \in 1 .. a
    <3>1. PICK c \in 1 .. k : \E j \in 1 .. Len(f[c]) : w[i] = f[c][j]
      BY <1>a, <2>1 DEF Holds
    <3> QED BY <1>3, <1>6, <2>1, <3>1
  <2>2. CASE \E x \in 1 .. b : i = a + x
    <3>1. PICK x \in 1 .. b : i = a + x
      BY <2>2
    <3>2. v[i] = t[x] /\ k + 1 \in 1 .. k + 1
      BY <1>4, <3>1
    <3> QED BY <1>t, <1>b, <3>2
  <2> QED BY <1>5, <2>1, <2>2
<1>8. ASSUME NEW c \in 1 .. k + 1, NEW j \in 1 .. Len(f[c])
      PROVE  \E i \in 1 .. a + b : v[i] = f[c][j]
  <2>1. CASE c = k + 1
    <3>1. j \in 1 .. b
      BY <1>t, <1>b, <2>1
    <3>2. v[a + j] = f[c][j] /\ a + j \in 1 .. a + b
      BY <1>t, <1>4, <2>1, <3>1
    <3> QED BY <3>2
  <2>2. CASE c # k + 1
    <3>1. c \in 1 .. k
      BY <2>2
    <3>2. PICK i \in 1 .. a : w[i] = f[c][j]
      BY <1>a, <3>1 DEF Holds
    <3>3. i \in 1 .. a + b
      OBVIOUS
    <3> QED BY <1>3, <3>2, <3>3
  <2> QED BY <2>1, <2>2
<1>9. ASSUME AllApart(f, k + 1), Distinct(w)
      PROVE  Distinct(v)
  <2>1. ASSUME NEW i \in 1 .. a, NEW x \in 1 .. b PROVE v[i] # v[a + x]
    <3>1. PICK c \in 1 .. k : \E j \in 1 .. Len(f[c]) : w[i] = f[c][j]
      BY <1>a, <2>1 DEF Holds
    <3>2. PICK j \in 1 .. Len(f[c]) : w[i] = f[c][j]
      BY <3>1
    <3>3. k + 1 \in 1 .. k + 1 /\ x \in 1 .. Len(f[k + 1])
      BY <1>t, <1>b
    <3>4. f[c][j] # f[k + 1][x]
      BY <1>6, <1>9, <3>3 DEF AllApart
    <3> QED BY <1>3, <1>4, <1>t, <3>2, <3>4
  <2>2. ASSUME NEW x \in 1 .. b, NEW y \in 1 .. b, v[a + x] = v[a + y] PROVE x = y
    <3>1. k + 1 \in 1 .. k + 1 /\ x \in 1 .. Len(f[k + 1]) /\ y \in 1 .. Len(f[k + 1])
      BY <1>t, <1>b
    <3>2. f[k + 1][x] = f[k + 1][y]
      BY <1>4, <1>t, <2>2
    <3> QED BY <1>9, <3>1, <3>2 DEF AllApart
  <2>3. ASSUME NEW i \in 1 .. a, NEW j \in 1 .. a, v[i] = v[j] PROVE i = j
    BY <1>3, <1>9, <1>a, <2>3 DEF Distinct
  <2>4. ASSUME NEW i \in 1 .. a + b, NEW j \in 1 .. a + b, v[i] = v[j] PROVE i = j
    BY <1>5, <2>1, <2>2, <2>3, <2>4
  <2> QED BY <1>2, <2>4 DEF Distinct
<1>10. Holds(v, f, k + 1, U)
  BY <1>2, <1>7, <1>8 DEF Holds
<1> QED BY <1>9, <1>10, <1>t, <1>v

\* Flattening loses nothing, adds nothing and repeats nothing.
LEMMA FlattenHolds ==
  ASSUME NEW U, NEW k \in Nat, NEW f, f = [c \in 1 .. k |-> f[c]],
         \A c \in 1 .. k : f[c] \in Seq(U)
  PROVE  Holds(FlattenSeq(f), f, k, U) /\ (AllApart(f, k) => Distinct(FlattenSeq(f)))
<1>1. f \in [1 .. k -> Seq(U)] /\ DOMAIN f = 1 .. k
  <2>1. \A c \in 1 .. k : f[c] \in Seq(U)
    OBVIOUS
  <2> QED BY <2>1
<1>2. Len(f) = k
  <2>1. f \in Seq(Seq(U))
    BY <1>1
  <2>2. DOMAIN f = 1 .. Len(f) /\ Len(f) \in Nat
    BY <2>1, LenProperties
  <2> QED BY <1>1, <2>2
<1>3. CASE k = 0
  <2>1. FlattenSeq(f) = f
    BY <1>2, <1>3 DEF FlattenSeq
  <2>2. f \in Seq(U) /\ 1 .. k = {}
    BY <1>1, <1>3
  <2> QED BY <1>2, <1>3, <2>1, <2>2 DEF Holds, Distinct
<1>4. CASE k # 0
  <2> DEFINE g == CHOOSE g : Flattening(g, f, k)
  <2>1. Flattening(g, f, k)
    BY FlatteningExists
  <2>2. FlattenSeq(f) = g[k]
    BY <1>2, <1>4 DEF FlattenSeq, Flattening
  <2> HIDE DEF g
  <2>3. g[1] = f[1] /\ \A c \in 1 .. k : c # 1 => g[c] = g[c - 1] \o f[c]
    <3>1. 1 \in 1 .. k
      BY <1>4
    <3> QED BY <2>1, <3>1, Zenon DEF Flattening
  <2> DEFINE Right(m) == Holds(g[m], f, m, U) /\ (AllApart(f, m) => Distinct(g[m]))
             T == {m \in Nat : m + 1 <= k => Right(m + 1)}
  <2>4. Right(1)
    <3>1. f[1] \in Seq(U) /\ 1 .. 1 = {1}
      <4>1. 1 \in 1 .. k
        BY <1>4
      <4> QED BY <4>1
    <3>2. Holds(f[1], f, 1, U)
      BY <3>1 DEF Holds
    <3>3. AllApart(f, 1) => Distinct(f[1])
      <4>1. ASSUME AllApart(f, 1), NEW i \in 1 .. Len(f[1]), NEW j \in 1 .. Len(f[1]),
                   f[1][i] = f[1][j]
            PROVE  i = j
        <5>1. 1 \in 1 .. 1
          OBVIOUS
        <5>2. \A x \in 1 .. Len(f[1]), y \in 1 .. Len(f[1]) :
                f[1][x] = f[1][y] => 1 = 1 /\ x = y
          BY <4>1, <5>1, Zenon DEF AllApart
        <5> QED BY <4>1, <5>2, Zenon
      <4> QED BY <4>1 DEF Distinct
    <3> QED BY <2>3, <3>2, <3>3
  <2>5. ASSUME NEW m \in Nat, m \in T, m + 1 + 1 <= k PROVE Right(m + 1 + 1)
    <3>1. PICK a \in Nat : a = m + 1
      OBVIOUS
    <3>2. Right(a)
      BY <2>5, <3>1
    <3>3. g[a + 1] = g[a] \o f[a + 1]
      <4>1. PICK c \in 1 .. k : c = a + 1 /\ c # 1 /\ c - 1 = a
        BY <2>5, <3>1
      <4> QED BY <2>3, <4>1
    <3>4. \A c \in 1 .. a + 1 : f[c] \in Seq(U)
      BY <2>5, <3>1
    <3>5. Holds(g[a] \o f[a + 1], f, a + 1, U)
      BY <3>2, <3>4, OneMore
    <3>6. ASSUME AllApart(f, a + 1) PROVE Distinct(g[a] \o f[a + 1])
      <4>1. AllApart(f, a)
        <5>1. \A c \in 1 .. a : c \in 1 .. a + 1
          OBVIOUS
        <5> QED BY <3>6, <5>1 DEF AllApart
      <4> QED BY <3>2, <3>4, <3>6, <4>1, OneMore
    <3> QED BY <3>1, <3>3, <3>5, <3>6
  <2> HIDE DEF Right
  <2>6. 0 \in T
    BY <2>4
  <2>7. \A m \in Nat : m \in T => m + 1 \in T
    BY <2>5
  <2>8. Nat \subseteq T
    <3> HIDE DEF T
    <3> QED BY <2>6, <2>7, Induction
  <2>9. Right(k)
    <3>1. PICK m \in Nat : m + 1 = k
      <4>1. k - 1 \in Nat /\ k - 1 + 1 = k
        BY <1>4
      <4> QED BY <4>1
    <3> QED BY <2>8, <3>1
  <2> QED BY <2>2, <2>9 DEF Right
<1> QED BY <1>3, <1>4

\* The pieces that the programs of a query read make up its list.
LEMMA CeilingIs ==
  ASSUME NEW x \in Nat, NEW y \in Nat \ {0}
  PROVE  Ceiling(x, y) \in Nat /\ x <= y * Ceiling(x, y)
<1>1. (x + y - 1) \div y \in Nat /\ x <= y * ((x + y - 1) \div y)
  <2>1. PICK n \in Nat : n = x + y - 1
    OBVIOUS
  <2>2. n \div y \in Nat /\ n < y * (n \div y) + y
    BY Z3
  <2>3. PICK m \in Nat : m = y * (n \div y)
    <3>1. y * (n \div y) \in Nat
      BY <2>2, Z3
    <3> QED BY <3>1
  <2> QED BY <2>1, <2>2, <2>3
<1> QED BY <1>1 DEF Ceiling

LEMMA SplitReadsAll ==
  ASSUME NEW U, NEW list \in Seq(U), NEW splits \in Nat \ {0}
  PROVE  SplitReads(list, splits) = list
<1>1. PICK n \in Nat : n = Len(list) /\ list = [i \in 1 .. n |-> list[i]]
  BY LenProperties
<1>2. PICK w \in Nat \ {0} : w = BlockN
  BY SelectOK
<1>3. PICK c \in Nat : c = Ceiling(n, splits) /\ n <= splits * c
  BY CeilingIs
<1>4. PICK d \in Nat : d = Ceiling(c, w) /\ c <= w * d
  BY CeilingIs
<1>5. PICK per \in Nat : per = d * w
  BY Z3
<1>6. c <= per
  BY <1>4, <1>5, Z3
<1>7. n <= splits * per
  <2>1. splits * c <= splits * per /\ splits * c \in Nat /\ splits * per \in Nat
    BY <1>6, Z3
  <2> QED BY <1>3, <2>1
<1>8. \A s \in Nat : SplitOf(list, splits, s) = SubSeq(list, (s - 1) * per + 1, Smaller(s * per, n))
  BY <1>1, <1>2, <1>3, <1>4, <1>5 DEF SplitOf
<1> DEFINE e == [s \in 0 .. splits |-> Smaller(s * per, n)]
           f == [s \in 1 .. splits |-> SplitOf(list, splits, s)]
<1>9. e[0] = 0 /\ e[splits] = n
  <2>1. 0 * per = 0 /\ splits * per \in Nat
    BY Z3
  <2> QED BY <1>7, <2>1 DEF Smaller
<1>10. ASSUME NEW s \in 1 .. splits
       PROVE  /\ e[s] \in Nat /\ e[s - 1] \in Nat /\ e[s - 1] <= e[s]
              /\ f[s] = [j \in 1 .. e[s] - e[s - 1] |-> list[e[s - 1] + j]]
  <2>1. PICK a \in Nat : a = (s - 1) * per
    <3>1. s - 1 \in Nat
      OBVIOUS
    <3> QED BY <3>1, Z3
  <2>2. s * per = a + per
    <3>1. s \in Nat
      OBVIOUS
    <3> QED BY <2>1, <3>1, Z3
  <2>3. e[s] = Smaller(a + per, n) /\ e[s - 1] = Smaller(a, n)
    <3>1. s \in 0 .. splits /\ s - 1 \in 0 .. splits
      OBVIOUS
    <3> QED BY <2>1, <2>2, <3>1
  <2>4. e[s] \in Nat /\ e[s - 1] \in Nat /\ e[s - 1] <= e[s]
    BY <2>3 DEF Smaller
  <2>5. f[s] = SubSeq(list, a + 1, Smaller(a + per, n))
    <3>1. f[s] = SplitOf(list, splits, s) /\ s \in Nat
      OBVIOUS
    <3>2. SplitOf(list, splits, s) = SubSeq(list, (s - 1) * per + 1, Smaller(s * per, n))
      BY <1>8, <3>1
    <3> QED BY <2>1, <2>2, <3>1, <3>2
  <2> HIDE DEF e, f
  <2>6. PICK p \in Nat, q \in Nat : p = e[s - 1] /\ q = e[s]
    BY <2>4
  <2>7. CASE a <= n
    <3>1. p = a /\ q = Smaller(a + per, n)
      BY <2>3, <2>6, <2>7 DEF Smaller
    <3>2. SubSeq(list, a + 1, q) = [j \in 1 .. q - a |-> list[a + j]]
      <4>1. SubSeq(list, a + 1, q) = [j \in 1 .. 1 + q - (a + 1) |-> list[j + (a + 1) - 1]]
        BY SMT
      <4>2. 1 + q - (a + 1) = q - a
        BY SMT
      <4>3. \A j \in 1 .. q - a : j + (a + 1) - 1 = a + j
        BY SMT
      <4> QED BY <4>1, <4>2, <4>3
    <3> QED BY <2>4, <2>5, <2>6, <3>1, <3>2
  <2>8. CASE a > n
    <3>1. p = n /\ q = n /\ Smaller(a + per, n) = n
      BY <2>3, <2>6, <2>8 DEF Smaller
    <3>2. SubSeq(list, a + 1, n) = << >>
      BY <2>8, <1>1
    <3>3. [j \in 1 .. q - p |-> list[p + j]] = << >>
      BY <3>1
    <3> QED BY <2>4, <2>5, <2>6, <3>1, <3>2, <3>3
  <2> QED BY <2>7, <2>8
<1>11. f = [s \in 1 .. splits |-> f[s]]
  OBVIOUS
<1>12. Cuts(f, e, list, splits)
  <2> HIDE DEF e, f
  <2> QED BY <1>9, <1>10, <1>11, Zenon DEF Cuts
<1>13. SplitReads(list, splits) = FlattenSeq(f)
  BY DEF SplitReads
<1> HIDE DEF e, f
<1>14. FlattenSeq(f) = [t \in 1 .. e[splits] |-> list[t]]
  BY <1>12, FlattenCuts
<1> QED BY <1>1, <1>9, <1>13, <1>14

-----------------------------------------------------------------------------
(* The list of a query.                                                    *)

\* The buckets 0 .. n - 1 hold lists of positions, and no position twice.
BucketsApart(members, n) ==
  /\ \A b \in 0 .. n - 1 : members[b] \in Seq(Nat)
  /\ \A b, d \in 0 .. n - 1 : \A i \in 1 .. Len(members[b]), j \in 1 .. Len(members[d]) :
       members[b][i] = members[d][j] => b = d /\ i = j

\* A choice of m of them, in any order.
Choice(picks, m, n) == picks \in [1 .. m -> 0 .. n - 1] /\ IsInjective(picks)

\* The positions that the picked buckets hold between the sinks and the tail.
Found(p, picks, members, m, tail) ==
  /\ Counted(p, tail)
  /\ \E c \in 1 .. m : \E j \in 1 .. Len(members[picks[c]]) : members[picks[c]][j] = p

\* What Expanded returns.
Expands(x, picks, members, m, tail) ==
  /\ x \in Seq(Nat) /\ Len(x) <= TopK /\ Distinct(x)
  /\ \A i \in 1 .. Len(x) : Counted(x[i], tail)
  /\ tail - Sink <= TopK =>
       \A p \in Nat : Found(p, picks, members, m, tail) => \E i \in 1 .. Len(x) : x[i] = p

LEMMA ExpandedIs ==
  ASSUME NEW n \in Nat, NEW members, BucketsApart(members, n),
         NEW m \in Nat, NEW picks, Choice(picks, m, n), NEW tail \in Nat
  PROVE  Expands(Expanded(picks, members, tail), picks, members, m, tail)
<1> DEFINE f == [c \in 1 .. m |-> members[picks[c]]]
<1>1. \A c \in 1 .. m : picks[c] \in 0 .. n - 1
  BY DEF Choice
<1>2. \A c \in 1 .. m : f[c] \in Seq(Nat) /\ f[c] = members[picks[c]]
  BY <1>1 DEF BucketsApart
<1>3. AllApart(f, m)
  <2> SUFFICES ASSUME NEW c \in 1 .. m, NEW d \in 1 .. m,
                      NEW i \in 1 .. Len(f[c]), NEW j \in 1 .. Len(f[d]), f[c][i] = f[d][j]
               PROVE  c = d /\ i = j
    BY DEF AllApart
  <2>1. f[c] = members[picks[c]] /\ f[d] = members[picks[d]]
    BY <1>2
  <2> HIDE DEF f
  <2>2. picks[c] = picks[d] /\ i = j
    <3>1. PICK b \in 0 .. n - 1, e \in 0 .. n - 1 : b = picks[c] /\ e = picks[d]
      BY <1>1
    <3>2. i \in 1 .. Len(members[b]) /\ j \in 1 .. Len(members[e])
          /\ members[b][i] = members[e][j]
      BY <2>1, <3>1
    <3>3. \A g, h \in 0 .. n - 1 : \A k \in 1 .. Len(members[g]), l \in 1 .. Len(members[h]) :
            members[g][k] = members[h][l] => g = h /\ k = l
      BY Zenon DEF BucketsApart
    <3>4. \A k \in 1 .. Len(members[b]), l \in 1 .. Len(members[e]) :
            members[b][k] = members[e][l] => b = e /\ k = l
      BY <3>3
    <3>5. b = e /\ i = j
      BY <3>2, <3>4, Zenon
    <3> QED BY <3>1, <3>5
  <2>3. c = d
    BY <2>2 DEF Choice, IsInjective
  <2> QED BY <2>2, <2>3
<1> DEFINE found == FlattenSeq(f)
<1>4. Holds(found, f, m, Nat) /\ Distinct(found)
  <2>1. f = [c \in 1 .. m |-> f[c]]
    OBVIOUS
  <2>2. \A c \in 1 .. m : f[c] \in Seq(Nat)
    BY <1>2
  <2> HIDE DEF f
  <2> QED BY <1>3, <2>1, <2>2, FlattenHolds
<1> DEFINE valid == {j \in DOMAIN found : Counted(found[j], tail)}
           place == Ascending(valid)
           v == Cardinality(valid)
           x == Expanded(picks, members, tail)
<1>5. x = [i \in 1 .. Smaller(v, TopK) |-> found[place[i]]]
  <2>1. DOMAIN picks = 1 .. m
    BY DEF Choice
  <2> QED BY <2>1 DEF Expanded
<1> HIDE DEF f, found
<1>l. PICK l \in Nat : l = Len(found) /\ DOMAIN found = 1 .. l /\ \A i \in 1 .. l : found[i] \in Nat
  BY <1>4, LenProperties, ElementOfSeq DEF Holds
<1>6. valid \subseteq 1 .. l /\ valid \subseteq Nat /\ IsFiniteSet(valid)
  <2>1. valid \subseteq 1 .. l
    BY <1>l
  <2>2. IsFiniteSet(1 .. l)
    BY FS_Interval
  <2>3. IsFiniteSet(valid)
    <3> HIDE DEF valid
    <3> QED BY <2>1, <2>2, FS_Subset
  <2> QED BY <2>1, <2>3
<1>7. \A j \in 1 .. l : j \in valid <=> Counted(found[j], tail)
  BY <1>l
<1> HIDE DEF valid
<1>8. /\ v \in Nat /\ place \in [1 .. v -> valid]
      /\ \A i, j \in 1 .. v : place[i] = place[j] => i = j
      /\ \A y \in valid : \E i \in 1 .. v : place[i] = y
  BY <1>6, AscendingIs
<1> HIDE DEF place, v, x
<1>t. TopK \in Nat /\ Sink \in Nat
  BY SelectOK
<1>z. PICK z \in Nat : z = Smaller(v, TopK) /\ z <= v /\ z <= TopK /\ (v <= TopK => z = v)
  BY <1>8, <1>t DEF Smaller
<1>9. x = [i \in 1 .. z |-> found[place[i]]]
  BY <1>5, <1>z
<1>10. \A i \in 1 .. z : x[i] = found[place[i]] /\ place[i] \in valid /\ place[i] \in 1 .. l
  <2> SUFFICES ASSUME NEW i \in 1 .. z
               PROVE  x[i] = found[place[i]] /\ place[i] \in valid /\ place[i] \in 1 .. l
    OBVIOUS
  <2>1. x[i] = found[place[i]]
    BY <1>9
  <2>2. i \in 1 .. v
    BY <1>8, <1>z
  <2>3. place[i] \in valid
    BY <1>8, <2>2
  <2> QED BY <1>6, <2>1, <2>3
<1>11. x \in Seq(Nat) /\ Len(x) = z
  <2>1. \A i \in 1 .. z : found[place[i]] \in Nat
    BY <1>10, <1>l
  <2>2. x \in [1 .. z -> Nat]
    BY <1>9, <2>1
  <2> QED BY <1>9, <2>2
<1>12. Distinct(x)
  <2> SUFFICES ASSUME NEW i \in 1 .. z, NEW j \in 1 .. z, x[i] = x[j] PROVE i = j
    BY <1>11 DEF Distinct
  <2>1. place[i] = place[j]
    BY <1>4, <1>10, <1>l DEF Distinct
  <2> QED BY <1>8, <1>z, <2>1
<1>13. \A i \in 1 .. z : Counted(x[i], tail)
  BY <1>7, <1>10
<1>14. ASSUME tail - Sink <= TopK PROVE v <= TopK
  <2> DEFINE h == [j \in valid |-> found[j]]
             T == {p \in Nat : Sink <= p /\ p < tail}
  <2>1. h \in Injection(valid, T)
    <3>1. \A j \in valid : found[j] \in T
      BY <1>l, <1>6, <1>7, <1>t DEF Counted
    <3>2. \A j, k \in valid : found[j] = found[k] => j = k
      BY <1>4, <1>l, <1>6 DEF Distinct
    <3> QED BY <3>1, <3>2 DEF Injection, IsInjective
  <2>2. T = Sink .. tail - 1
    BY <1>t
  <2>3. IsFiniteSet(T) /\ Cardinality(T) = IF Sink > tail - 1 THEN 0 ELSE tail - 1 - Sink + 1
    <3>1. Sink \in Int /\ tail - 1 \in Int
      BY <1>t
    <3> HIDE DEF T
    <3> QED BY <2>2, <3>1, FS_Interval
  <2>4. Cardinality(valid) <= Cardinality(T)
    <3> HIDE DEF h, T
    <3> QED BY <2>1, <2>3, FS_Injection
  <2> HIDE DEF T
  <2>5. v = Cardinality(valid)
    BY DEF v
  <2> QED BY <1>14, <1>t, <1>8, <2>3, <2>4, <2>5
<1>15. ASSUME tail - Sink <= TopK, NEW p \in Nat, Found(p, picks, members, m, tail)
       PROVE  \E i \in 1 .. z : x[i] = p
  <2>1. PICK c \in 1 .. m : \E j \in 1 .. Len(members[picks[c]]) : members[picks[c]][j] = p
    BY <1>15 DEF Found
  <2>2. PICK j \in 1 .. Len(f[c]) : f[c][j] = p
    BY <1>2, <2>1 DEF f
  <2>3. PICK y \in 1 .. l : found[y] = p
    BY <1>4, <1>l, <2>2 DEF Holds
  <2>4. y \in valid
    BY <1>7, <1>15, <2>3 DEF Found
  <2>5. PICK i \in 1 .. v : place[i] = y
    BY <1>8, <2>4
  <2>6. z = v
    BY <1>14, <1>15, <1>z
  <2> QED BY <1>10, <2>3, <2>5, <2>6
<1> QED BY <1>11, <1>12, <1>13, <1>15, <1>z DEF Expands, x

\* Where the tail starts: not past the window, and within reach of it.
LEMMA TailStartIs ==
  ASSUME NEW pos \in Nat, NEW clustered \in Nat, pos + 1 <= clustered + Window + Block
  PROVE  /\ TailStart(pos, clustered) \in 0 .. pos
         /\ TailStart(pos, clustered) <= pos + 1 - Window \/ TailStart(pos, clustered) = 0
         /\ pos - TailStart(pos, clustered) + 1 <= Window + Block
         /\ TailStart(pos, clustered) <= clustered
<1>1. PICK b \in Nat \ {0} : b = Block /\ Window = b
  BY SelectOK DEF Window
<1> QED BY <1>1 DEF TailStart, Larger, Smaller

\* What SlotList returns.
Slots(w, pos, picks, members, m, tail) ==
  /\ w \in Seq(Nat) /\ Len(w) <= Width /\ Distinct(w)
  /\ \A i \in 1 .. Len(w) : w[i] \in 0 .. pos
  /\ \A p \in 0 .. pos : p < Sink \/ p >= tail => \E i \in 1 .. Len(w) : w[i] = p
  /\ tail - Sink <= TopK =>
       \A p \in Nat : Found(p, picks, members, m, tail) => \E i \in 1 .. Len(w) : w[i] = p

LEMMA SlotListIs ==
  ASSUME NEW pos \in Nat, NEW clustered \in Nat, pos + 1 <= clustered + Window + Block,
         NEW n \in Nat, NEW members, BucketsApart(members, n),
         NEW m \in Nat, NEW picks, Choice(picks, m, n)
  PROVE  Slots(SlotList(pos, clustered, picks, members), pos, picks, members, m,
               TailStart(pos, clustered))
<1>t. PICK tail \in Nat : /\ tail = TailStart(pos, clustered) /\ tail <= pos
                          /\ pos - tail + 1 <= Window + Block
  BY TailStartIs
<1>s. PICK sink \in Nat : sink = Sink
  BY SelectOK
<1>w. PICK b \in Nat \ {0}, k \in Nat \ {0} : b = Block /\ Window = b /\ k = TopK
  BY SelectOK DEF Window
<1>a. PICK a \in Nat : a = Smaller(Sink, tail) /\ a <= sink /\ a <= tail /\ (a = sink \/ a = tail)
  BY <1>s DEF Smaller
<1>c. PICK c \in Nat : c = pos - tail + 1 /\ c <= b + b
  BY <1>t, <1>w
<1>h. PICK h : h = [i \in 1 .. a |-> i - 1]
  OBVIOUS
<1>x. PICK x : x = Expanded(picks, members, tail)
  OBVIOUS
<1>y. PICK y : y = [i \in 1 .. c |-> tail + i - 1]
  OBVIOUS
<1>1. SlotList(pos, clustered, picks, members) = h \o x \o y
  BY <1>t, <1>a, <1>c, <1>h, <1>x, <1>y DEF SlotList
<1>2. Expands(x, picks, members, m, tail)
  BY <1>x, ExpandedIs
<1>3. h \in Seq(Nat) /\ Len(h) = a /\ \A i \in 1 .. a : h[i] = i - 1
  BY <1>h
<1>4. y \in Seq(Nat) /\ Len(y) = c /\ \A i \in 1 .. c : y[i] = tail + i - 1
  BY <1>y
<1>5. x \in Seq(Nat) /\ Len(x) <= k /\ Distinct(x)
  BY <1>2, <1>w DEF Expands
<1>d. PICK d \in Nat : d = Len(x) /\ d <= k
  BY <1>5, LenProperties
<1>6. \A i \in 1 .. d : x[i] \in Nat /\ sink <= x[i] /\ x[i] < tail
  <2> SUFFICES ASSUME NEW i \in 1 .. d PROVE x[i] \in Nat /\ sink <= x[i] /\ x[i] < tail
    OBVIOUS
  <2>1. x[i] \in Nat
    BY <1>5, <1>d, ElementOfSeq
  <2>2. Counted(x[i], tail)
    BY <1>2, <1>d DEF Expands
  <2> QED BY <2>1, <2>2, <1>s DEF Counted
<1> DEFINE f == [i \in 1 .. 3 |-> IF i = 1 THEN h ELSE IF i = 2 THEN x ELSE y]
<1>7. f[1] = h /\ f[2] = x /\ f[3] = y
  OBVIOUS
<1>e. /\ Len(f[1]) = a /\ \A i \in 1 .. a : f[1][i] = i - 1
      /\ Len(f[2]) = d /\ f[2] = x
      /\ Len(f[3]) = c /\ \A i \in 1 .. c : f[3][i] = tail + i - 1
  BY <1>3, <1>4, <1>7, <1>d
<1>f. ASSUME NEW u \in 1 .. 3, NEW i \in 1 .. Len(f[u])
      PROVE  /\ u = 1 => i \in 1 .. a /\ f[u][i] = i - 1
             /\ u = 2 => /\ i \in 1 .. d /\ f[u][i] = x[i]
                         /\ x[i] \in Nat /\ sink <= x[i] /\ x[i] < tail
             /\ u = 3 => i \in 1 .. c /\ f[u][i] = tail + i - 1
  <2> HIDE DEF f
  <2>1. CASE u = 1
    BY <1>e, <2>1
  <2>2. CASE u = 2
    <3>1. i \in 1 .. d /\ f[u][i] = x[i]
      BY <1>e, <2>2
    <3> QED BY <1>6, <2>2, <3>1
  <2>3. CASE u = 3
    BY <1>e, <2>3
  <2> QED BY <2>1, <2>2, <2>3
<1>8. AllApart(f, 3)
  <2> SUFFICES ASSUME NEW u \in 1 .. 3, NEW v \in 1 .. 3,
                      NEW i \in 1 .. Len(f[u]), NEW j \in 1 .. Len(f[v]), f[u][i] = f[v][j]
               PROVE  u = v /\ i = j
    BY DEF AllApart
  <2> HIDE DEF f
  <2>1. PICK at : at = f[u][i] /\ at = f[v][j]
    OBVIOUS
  <2>2. /\ u = 1 => i \in 1 .. a /\ at = i - 1
        /\ u = 2 => i \in 1 .. d /\ at = x[i] /\ at \in Nat /\ sink <= at /\ at < tail
        /\ u = 3 => i \in 1 .. c /\ at = tail + i - 1
    <3>1. /\ u = 1 => i \in 1 .. a /\ f[u][i] = i - 1
          /\ u = 2 => /\ i \in 1 .. d /\ f[u][i] = x[i]
                      /\ x[i] \in Nat /\ sink <= x[i] /\ x[i] < tail
          /\ u = 3 => i \in 1 .. c /\ f[u][i] = tail + i - 1
      BY <1>f, Zenon
    <3> QED BY <2>1, <3>1
  <2>3. /\ v = 1 => j \in 1 .. a /\ at = j - 1
        /\ v = 2 => j \in 1 .. d /\ at = x[j] /\ at \in Nat /\ sink <= at /\ at < tail
        /\ v = 3 => j \in 1 .. c /\ at = tail + j - 1
    <3>1. /\ v = 1 => j \in 1 .. a /\ f[v][j] = j - 1
          /\ v = 2 => /\ j \in 1 .. d /\ f[v][j] = x[j]
                      /\ x[j] \in Nat /\ sink <= x[j] /\ x[j] < tail
          /\ v = 3 => j \in 1 .. c /\ f[v][j] = tail + j - 1
      BY <1>f, Zenon
    <3> QED BY <2>1, <3>1
  <2>4. (u = 1 \/ u = 2 \/ u = 3) /\ (v = 1 \/ v = 2 \/ v = 3)
    OBVIOUS
  <2>5. u = v
    BY <1>a, <2>2, <2>3, <2>4
  <2>6. u = 2 => i = j
    BY <1>5, <1>d, <2>2, <2>3, <2>5 DEF Distinct
  <2>7. u # 2 => i = j
    BY <2>2, <2>3, <2>4, <2>5
  <2> QED BY <2>5, <2>6, <2>7
<1>9. \A i \in 1 .. 3 : f[i] \in Seq(Nat)
  BY <1>3, <1>4, <1>5
<1> HIDE DEF f
<1>z. PICK z : z = h \o x
  OBVIOUS
<1>10. Holds(h, f, 1, Nat) /\ Distinct(h)
  <2>1. \A i \in 1 .. Len(h) : \E j \in 1 .. Len(f[1]) : h[i] = f[1][j]
    BY <1>7
  <2>2. \A j \in 1 .. Len(f[1]) : \E i \in 1 .. Len(h) : h[i] = f[1][j]
    BY <1>7
  <2>3. 1 .. 1 = {1}
    OBVIOUS
  <2>4. Holds(h, f, 1, Nat)
    BY <1>3, <2>1, <2>2, <2>3 DEF Holds
  <2>5. Distinct(h)
    BY <1>3 DEF Distinct
  <2> QED BY <2>4, <2>5
<1>11. Holds(z, f, 2, Nat) /\ Distinct(z)
  <2>1. \A i \in 1 .. 1 + 1 : f[i] \in Seq(Nat)
    BY <1>9
  <2>2. Holds(h \o f[1 + 1], f, 1 + 1, Nat) /\ (AllApart(f, 1 + 1) => Distinct(h \o f[1 + 1]))
    BY <1>10, <2>1, OneMore
  <2>3. 1 + 1 = 2
    OBVIOUS
  <2>4. AllApart(f, 2)
    <3>1. \A i \in 1 .. 2 : i \in 1 .. 3
      OBVIOUS
    <3> QED BY <1>8, <3>1 DEF AllApart
  <2> QED BY <1>7, <1>z, <2>2, <2>3, <2>4
<1>12. Holds(z \o y, f, 3, Nat) /\ Distinct(z \o y)
  <2>1. \A i \in 1 .. 2 + 1 : f[i] \in Seq(Nat)
    BY <1>9
  <2>2. Holds(z \o f[2 + 1], f, 2 + 1, Nat) /\ (AllApart(f, 2 + 1) => Distinct(z \o f[2 + 1]))
    BY <1>11, <2>1, OneMore
  <2>3. 2 + 1 = 3
    OBVIOUS
  <2> QED BY <1>7, <1>8, <2>2, <2>3
<1>v. PICK w : w = z \o y /\ w = SlotList(pos, clustered, picks, members)
  BY <1>1, <1>z
<1>13. w \in Seq(Nat) /\ Len(w) = a + d + c
  <2>1. z \in Seq(Nat) /\ Len(z) = a + d
    BY <1>3, <1>5, <1>d, <1>z, ConcatProperties
  <2>2. y \in Seq(Nat) /\ Len(y) = c
    BY <1>4
  <2>3. z \o y \in Seq(Nat) /\ Len(z \o y) = Len(z) + Len(y)
    BY <2>1, <2>2, ConcatProperties
  <2> QED BY <1>v, <2>1, <2>2, <2>3
<1>14. Len(w) <= Width
  BY <1>a, <1>c, <1>d, <1>s, <1>w, <1>13 DEF Width
<1>15. ASSUME NEW i \in 1 .. Len(w) PROVE w[i] \in 0 .. pos
  <2>1. PICK u \in 1 .. 3 : \E j \in 1 .. Len(f[u]) : w[i] = f[u][j]
    BY <1>12, <1>v, <1>15 DEF Holds
  <2>2. PICK j \in 1 .. Len(f[u]) : w[i] = f[u][j]
    BY <2>1
  <2>3. PICK at : at = w[i] /\ at = f[u][j]
    BY <2>2
  <2>4. /\ u = 1 => j \in 1 .. a /\ at = j - 1
        /\ u = 2 => /\ j \in 1 .. d /\ at = x[j] /\ at \in Nat /\ sink <= at /\ at < tail
        /\ u = 3 => j \in 1 .. c /\ at = tail + j - 1
    <3>1. /\ u = 1 => j \in 1 .. a /\ f[u][j] = j - 1
          /\ u = 2 => /\ j \in 1 .. d /\ f[u][j] = x[j]
                      /\ x[j] \in Nat /\ sink <= x[j] /\ x[j] < tail
          /\ u = 3 => j \in 1 .. c /\ f[u][j] = tail + j - 1
      BY <1>f, Zenon
    <3> QED BY <2>3, <3>1
  <2>5. u = 1 \/ u = 2 \/ u = 3
    OBVIOUS
  <2>6. at \in 0 .. pos
    <3>1. CASE u = 1
      <4>1. at = j - 1 /\ j \in 1 .. a
        BY <2>4, <3>1, Zenon
      <4>2. a <= tail /\ tail <= pos
        BY <1>a, <1>t
      <4> QED BY <4>1, <4>2
    <3>2. CASE u = 2
      <4>1. at \in Nat /\ at < tail
        BY <2>4, <3>2, Zenon
      <4>2. tail <= pos
        BY <1>t
      <4> QED BY <4>1, <4>2
    <3>3. CASE u = 3
      <4>1. at = tail + j - 1 /\ j \in 1 .. c
        BY <2>4, <3>3, Zenon
      <4>2. c = pos - tail + 1
        BY <1>c
      <4> QED BY <4>1, <4>2
    <3> QED BY <2>5, <3>1, <3>2, <3>3
  <2> QED BY <2>3, <2>6, Zenon
<1>16. ASSUME NEW u \in 1 .. 3, NEW j \in 1 .. Len(f[u])
       PROVE  \E i \in 1 .. Len(w) : w[i] = f[u][j]
  <2>1. Holds(w, f, 3, Nat)
    BY <1>12, <1>v
  <2>2. \A e \in 1 .. 3 : \A g \in 1 .. Len(f[e]) : \E i \in 1 .. Len(w) : w[i] = f[e][g]
    BY <2>1, Zenon DEF Holds
  <2> QED BY <2>2, <1>16, Zenon
<1>17. ASSUME NEW p \in 0 .. pos, p < Sink \/ p >= tail
       PROVE  \E i \in 1 .. Len(w) : w[i] = p
  <2>1. CASE p < a
    <3>1. PICK j \in 1 .. a : j = p + 1
      BY <1>a, <2>1
    <3>2. j \in 1 .. Len(f[1]) /\ f[1][j] = p /\ 1 \in 1 .. 3
      BY <1>e, <3>1
    <3> QED BY <1>16, <3>2
  <2>2. CASE p >= tail
    <3>1. PICK j \in 1 .. c : j = p - tail + 1
      BY <1>c, <1>t, <2>2
    <3>2. j \in 1 .. Len(f[3]) /\ f[3][j] = p /\ 3 \in 1 .. 3
      <4>1. f[3][j] = tail + j - 1 /\ Len(f[3]) = c
        BY <1>e
      <4>2. tail + j - 1 = p
        BY <3>1
      <4> QED BY <4>1, <4>2
    <3> QED BY <1>16, <3>2
  <2> QED BY <1>17, <1>a, <1>s, <2>1, <2>2
<1>18. ASSUME tail - Sink <= TopK, NEW p \in Nat, Found(p, picks, members, m, tail)
       PROVE  \E i \in 1 .. Len(w) : w[i] = p
  <2>1. PICK j \in 1 .. Len(f[2]) : f[2][j] = p /\ 2 \in 1 .. 3
    BY <1>2, <1>7, <1>18 DEF Expands
  <2> QED BY <1>16, <2>1
<1>19. Slots(w, pos, picks, members, m, tail)
  BY <1>12, <1>13, <1>14, <1>15, <1>17, <1>18, <1>v DEF Slots
<1> QED BY <1>19, <1>t, <1>v

-----------------------------------------------------------------------------
(* The buckets of a block.                                                 *)

LEMMA WholeParts ==
  ASSUME NEW a \in Nat \ {0}, NEW b \in Nat \ {0}, a % b = 0
  PROVE  a \div b \in Nat \ {0} /\ a = (a \div b) * b
BY Z3

LEMMA PoolsAre ==
  \E n \in Nat \ {0} :
    /\ Pools = 0 .. n - 1 /\ IsFiniteSet(Pools) /\ Cardinality(Pools) = n
    /\ Block = n * PoolSize
    /\ \A p \in 0 .. Block - 1 : p \div PoolSize \in Pools
<1>1. PICK a \in Nat \ {0}, b \in Nat \ {0} : a = Block /\ b = PoolSize /\ a % b = 0
  BY SelectOK
<1>2. PICK n \in Nat \ {0} : n = a \div b /\ a = n * b
  BY <1>1, WholeParts
<1>3. Pools = 0 .. n - 1
  BY <1>1, <1>2 DEF Pools
<1>4. IsFiniteSet(Pools) /\ Cardinality(Pools) = n
  BY <1>3, FS_Interval
<1>5. ASSUME NEW p \in 0 .. a - 1 PROVE p \div b \in Pools
  <2>1. p \in Nat /\ p < n * b
    BY <1>2
  <2>2. p \div b \in Nat /\ p \div b < n
    BY <2>1, Z3
  <2> QED BY <1>3, <2>2
<1> QED BY <1>1, <1>2, <1>3, <1>4, <1>5

LEMMA SizesAre ==
  /\ CapPools \in Nat \ {0} /\ BucketCap = CapPools * PoolSize
  /\ Buckets \in Nat \ {0} /\ Block = Buckets * BucketSize
  /\ PoolSize \in Nat \ {0} /\ BucketSize \in Nat \ {0} /\ Block \in Nat \ {0}
BY SelectOK, WholeParts DEF CapPools, Buckets

\* T has the positions of a block, each in one bucket.
Tables(T) ==
  /\ \A b \in 0 .. Buckets - 1 : T[b] \in Seq(Nat)
  /\ \A b \in 0 .. Buckets - 1 : \A i \in 1 .. Len(T[b]) : T[b][i] \in 0 .. Block - 1
  /\ \A b, d \in 0 .. Buckets - 1 : \A i \in 1 .. Len(T[b]), j \in 1 .. Len(T[d]) :
       T[b][i] = T[d][j] => b = d /\ i = j

\* Whatever the labels, no position is in two places of the tables, and none is
\* left out if every pool's label is a bucket's.
LEMMA TablesAre ==
  ASSUME NEW keys
  PROVE  /\ Tables(BucketTables(keys))
         /\ Ward(PoolSums(keys)) \in [Pools -> 0 .. Buckets - 1] =>
              \A p \in 0 .. Block - 1 : \E b \in 0 .. Buckets - 1 :
                \E i \in 1 .. Len(BucketTables(keys)[b]) : BucketTables(keys)[b][i] = p
<1>l. PICK label : label = Ward(PoolSums(keys))
  OBVIOUS
<1> DEFINE S(b) == {p \in 0 .. Block - 1 : label[p \div PoolSize] = b}
<1>t. PICK T : T = [b \in 0 .. Buckets - 1 |-> Ascending(S(b))]
  OBVIOUS
<1>1. BucketTables(keys) = T
  BY <1>l, <1>t DEF BucketTables
<1>2. ASSUME NEW b \in 0 .. Buckets - 1
      PROVE  /\ T[b] \in Seq(Nat) /\ Len(T[b]) = Cardinality(S(b))
             /\ \A i \in 1 .. Len(T[b]) : T[b][i] \in S(b)
             /\ \A i, j \in 1 .. Len(T[b]) : T[b][i] = T[b][j] => i = j
             /\ \A p \in S(b) : \E i \in 1 .. Len(T[b]) : T[b][i] = p
  <2>1. T[b] = Ascending(S(b))
    BY <1>t
  <2>2. S(b) \subseteq 0 .. Block - 1 /\ 0 .. Block - 1 \subseteq Nat
    BY SizesAre
  <2>3. IsFiniteSet(0 .. Block - 1)
    BY SizesAre, FS_Interval
  <2> HIDE DEF S
  <2>4. IsFiniteSet(S(b)) /\ S(b) \subseteq Nat
    BY <2>2, <2>3, FS_Subset
  <2>5. /\ Cardinality(S(b)) \in Nat /\ T[b] \in [1 .. Cardinality(S(b)) -> S(b)]
        /\ \A i, j \in 1 .. Cardinality(S(b)) : T[b][i] = T[b][j] => i = j
        /\ \A x \in S(b) : \E i \in 1 .. Cardinality(S(b)) : T[b][i] = x
    BY <2>1, <2>4, AscendingIs
  <2>6. T[b] \in Seq(Nat) /\ Len(T[b]) = Cardinality(S(b))
    <3>1. PICK n \in Nat : n = Cardinality(S(b))
      BY <2>5
    <3>2. T[b] \in [1 .. n -> Nat]
      BY <2>4, <2>5, <3>1
    <3> QED BY <3>1, <3>2
  <2> QED BY <2>5, <2>6
<1>3. ASSUME NEW b \in 0 .. Buckets - 1, NEW x \in S(b)
      PROVE  x \in 0 .. Block - 1 /\ label[x \div PoolSize] = b
  BY <1>3
<1>4. ASSUME NEW p \in 0 .. Block - 1
      PROVE  p \in S(label[p \div PoolSize])
  OBVIOUS
<1> HIDE DEF S
<1>5. ASSUME NEW b \in 0 .. Buckets - 1, NEW d \in 0 .. Buckets - 1,
             NEW i \in 1 .. Len(T[b]), NEW j \in 1 .. Len(T[d]), T[b][i] = T[d][j]
      PROVE  b = d /\ i = j
  <2>1. T[b][i] \in S(b) /\ T[d][j] \in S(d)
    BY <1>2
  <2>2. b = d
    BY <1>3, <1>5, <2>1
  <2> QED BY <1>2, <1>5, <2>2
<1>6. Tables(T)
  BY <1>2, <1>3, <1>5 DEF Tables
<1>7. ASSUME label \in [Pools -> 0 .. Buckets - 1], NEW p \in 0 .. Block - 1
      PROVE  \E b \in 0 .. Buckets - 1 : \E i \in 1 .. Len(T[b]) : T[b][i] = p
  <2>1. PICK b \in 0 .. Buckets - 1 : b = label[p \div PoolSize]
    BY <1>7, PoolsAre
  <2> QED BY <1>2, <1>4, <2>1
<1> QED BY <1>1, <1>6, <1>7, <1>l

-----------------------------------------------------------------------------
(* The forest of the merged pools.                                         *)

\* A pool that is not alive has a parent before it.
Forest(parent, alive) ==
  /\ parent \in [Pools -> Pools] /\ alive \subseteq Pools
  /\ \A i \in alive : parent[i] = i
  /\ \A i \in Pools \ alive : parent[i] < i

\* root is the recursive function of Ward, for the pools below n.
RootsTo(root, parent, n) ==
  root = [i \in 0 .. n - 1 |-> IF parent[i] = i THEN i ELSE root[parent[i]]]
Roots(root, parent) ==
  root = [i \in Pools |-> IF parent[i] = i THEN i ELSE root[parent[i]]]

LEMMA RootsExist ==
  ASSUME NEW parent, NEW alive, Forest(parent, alive)
  PROVE  \E root : Roots(root, parent)
<1>n. PICK n \in Nat \ {0} : Pools = 0 .. n - 1
  BY PoolsAre
<1>1. \A i \in 0 .. n - 1 : parent[i] \in 0 .. n - 1 /\ (parent[i] = i \/ parent[i] < i)
  BY <1>n DEF Forest
<1> DEFINE T == {m \in Nat : m <= n => \E root : RootsTo(root, parent, m)}
<1>2. 0 \in T
  <2>1. RootsTo([i \in 0 .. 0 - 1 |-> 0], parent, 0)
    BY DEF RootsTo
  <2> QED BY <2>1
<1>3. ASSUME NEW m \in Nat, m \in T, m + 1 <= n
      PROVE  \E root : RootsTo(root, parent, m + 1)
  <2>1. PICK r : RootsTo(r, parent, m)
    BY <1>3
  <2> DEFINE R == [i \in 0 .. m |-> IF i < m THEN r[i]
                                     ELSE IF parent[m] = m THEN m ELSE r[parent[m]]]
  <2>2. ASSUME NEW i \in 0 .. m
        PROVE  R[i] = IF parent[i] = i THEN i ELSE R[parent[i]]
    <3>1. parent[i] \in 0 .. n - 1 /\ (parent[i] = i \/ parent[i] < i)
      <4>1. i \in 0 .. n - 1
        BY <1>3
      <4> QED BY <1>1, <4>1
    <3>2. CASE i < m
      <4>1. i \in 0 .. m - 1 /\ R[i] = r[i]
        BY <3>2
      <4>2. r[i] = IF parent[i] = i THEN i ELSE r[parent[i]]
        BY <2>1, <4>1 DEF RootsTo
      <4>3. parent[i] < i => R[parent[i]] = r[parent[i]]
        BY <3>1, <3>2
      <4> QED BY <3>1, <4>1, <4>2, <4>3
    <3>3. CASE i = m
      <4>1. parent[i] < i => R[parent[i]] = r[parent[i]]
        BY <3>1, <3>3
      <4>2. R[i] = IF parent[i] = i THEN i ELSE r[parent[i]]
        BY <3>3
      <4> QED BY <3>1, <4>1, <4>2
    <3> QED BY <3>2, <3>3
  <2>3. R = [i \in 0 .. m |-> R[i]]
    OBVIOUS
  <2> HIDE DEF R
  <2>4. R = [i \in 0 .. m |-> IF parent[i] = i THEN i ELSE R[parent[i]]]
    BY <2>2, <2>3
  <2>5. m + 1 - 1 = m
    OBVIOUS
  <2>6. RootsTo(R, parent, m + 1)
    BY <2>4, <2>5 DEF RootsTo
  <2> QED BY <2>6
<1>4. Nat \subseteq T
  <2>1. \A m \in Nat : m \in T => m + 1 \in T
    BY <1>3
  <2> HIDE DEF T
  <2> QED BY <1>2, <2>1, Induction
<1>5. PICK root : RootsTo(root, parent, n)
  BY <1>4
<1> QED BY <1>5, <1>n DEF RootsTo, Roots

\* A root is alive, and its own.
LEMMA RootsAlive ==
  ASSUME NEW parent, NEW alive, Forest(parent, alive), NEW root, Roots(root, parent)
  PROVE  /\ root \in [Pools -> alive]
         /\ \A i \in alive : root[i] = i
         /\ \A i \in Pools \ alive : root[i] = root[parent[i]] /\ parent[i] # i
<1>n. PICK n \in Nat \ {0} : Pools = 0 .. n - 1
  BY PoolsAre
<1>1. root = [i \in Pools |-> root[i]]
      /\ \A i \in Pools : root[i] = IF parent[i] = i THEN i ELSE root[parent[i]]
  BY DEF Roots
<1>2. \A i \in alive : root[i] = i /\ i \in Pools
  BY <1>1 DEF Forest
<1>3. \A i \in Pools \ alive : root[i] = root[parent[i]] /\ parent[i] # i
  <2> SUFFICES ASSUME NEW i \in Pools \ alive
               PROVE  root[i] = root[parent[i]] /\ parent[i] # i
    OBVIOUS
  <2>1. parent[i] < i /\ parent[i] \in Pools
    BY DEF Forest
  <2>2. parent[i] # i
    BY <1>n, <2>1
  <2> QED BY <1>1, <2>2
<1> DEFINE Bad == {i \in Pools : root[i] \notin alive}
<1>4. Bad = {}
  <2> SUFFICES ASSUME Bad # {} PROVE FALSE
    OBVIOUS
  <2>1. PICK i \in Bad : \A j \in Bad : i <= j
    <3>1. Bad \subseteq Nat
      BY <1>n
    <3> HIDE DEF Bad
    <3> QED BY <3>1, LeastNat
  <2>2. i \in Pools \ alive
    BY <1>2
  <2>3. parent[i] \in Pools /\ parent[i] < i
    BY <2>2 DEF Forest
  <2>4. root[parent[i]] \in alive
    BY <1>n, <2>1, <2>3
  <2> QED BY <1>3, <2>2, <2>4
<1>5. root \in [Pools -> alive]
  BY <1>1, <1>4
<1> QED BY <1>2, <1>3, <1>5

LEMMA RootsUnique ==
  ASSUME NEW parent, NEW alive, Forest(parent, alive),
         NEW root, Roots(root, parent), NEW other, Roots(other, parent)
  PROVE  root = other
<1>n. PICK n \in Nat \ {0} : Pools = 0 .. n - 1
  BY PoolsAre
<1>1. /\ root \in [Pools -> alive] /\ other \in [Pools -> alive]
      /\ \A i \in alive : root[i] = i /\ other[i] = i
      /\ \A i \in Pools \ alive : root[i] = root[parent[i]] /\ other[i] = other[parent[i]]
  BY RootsAlive
<1> DEFINE Bad == {i \in Pools : root[i] # other[i]}
<1>2. Bad = {}
  <2> SUFFICES ASSUME Bad # {} PROVE FALSE
    OBVIOUS
  <2>1. PICK i \in Bad : \A j \in Bad : i <= j
    <3>1. Bad \subseteq Nat
      BY <1>n
    <3> HIDE DEF Bad
    <3> QED BY <3>1, LeastNat
  <2>2. i \in Pools \ alive
    BY <1>1
  <2>3. parent[i] \in Pools /\ parent[i] < i
    BY <2>2 DEF Forest
  <2>4. root[parent[i]] = other[parent[i]]
    BY <1>n, <2>1, <2>3
  <2> QED BY <1>1, <2>2, <2>4
<1> QED BY <1>1, <1>2

-----------------------------------------------------------------------------
(* One round of merges.                                                    *)

\* The parts of WardRound.
Cost(w, i, j) == Norm(w.sum[i]) + Norm(w.sum[j]) - Norm(w.sum[i] + w.sum[j])
Partners(w, i) == {j \in w.alive \ {i} : w.size[i] + w.size[j] <= CapPools}
Prefers(w, i, j, k) ==
  Cost(w, i, j) < Cost(w, i, k) \/ (Cost(w, i, j) = Cost(w, i, k) /\ j <= k)
Cheapest(w, i) ==
  CHOOSE j \in Partners(w, i) : \A k \in Partners(w, i) : Prefers(w, i, j, k)
Best(w) == {<<i, Cheapest(w, i)>> : i \in {i \in w.alive : Partners(w, i) # {}}}
Mutual(w) == {p \in Best(w) : p[1] < p[2] /\ <<p[2], p[1]>> \in Best(w)}
Precedes(w, p, q) ==
  \/ Cost(w, p[1], p[2]) < Cost(w, q[1], q[2])
  \/ Cost(w, p[1], p[2]) = Cost(w, q[1], q[2]) /\ p[1] < q[1]
Merged(w) ==
  {p \in Mutual(w) : Cardinality({q \in Mutual(w) : Precedes(w, q, p)}) < MergesLeft(w)}
Kept(w) == {p[1] : p \in Merged(w)}
Absorbed(w) == {p[2] : p \in Merged(w)}
Other(w, i) == CHOOSE j \in Pools : <<i, j>> \in Merged(w) \/ <<j, i>> \in Merged(w)
JoinedOf(w, f) == [i \in Pools |-> IF i \in Kept(w) THEN f[i] + f[Other(w, i)] ELSE f[i]]

LEMMA RoundIs ==
  ASSUME NEW w
  PROVE  WardRound(w) =
           [sum |-> JoinedOf(w, w.sum), size |-> JoinedOf(w, w.size),
            alive |-> w.alive \ Absorbed(w),
            parent |-> [i \in Pools |-> IF i \in Absorbed(w) THEN Other(w, i) ELSE w.parent[i]]]
BY Zenon DEF WardRound, JoinedOf, Other, Kept, Absorbed, Merged, Precedes, Mutual, Best, Cheapest,
             Prefers, Partners, Cost

\* What a round starts from.
WardTypes(w) ==
  /\ w.sum \in [Pools -> Int] /\ w.size \in [Pools -> Nat]
  /\ Forest(w.parent, w.alive)

\* Adding two vectors costs nothing or some of their lengths.
LEMMA CostIs ==
  ASSUME NEW w, WardTypes(w), NEW i \in Pools, NEW j \in Pools
  PROVE  Cost(w, i, j) \in Nat /\ Cost(w, i, j) = Cost(w, j, i)
<1>1. PICK a \in Int, b \in Int : a = w.sum[i] /\ b = w.sum[j]
  BY DEF WardTypes
<1>2. Norm(a) + Norm(b) - Norm(a + b) \in Nat
  BY DEF Norm
<1>3. Norm(a) + Norm(b) - Norm(a + b) = Norm(b) + Norm(a) - Norm(b + a)
  BY DEF Norm
<1> QED BY <1>1, <1>2, <1>3 DEF Cost

LEMMA PartnersAre ==
  ASSUME NEW w, WardTypes(w), NEW i \in w.alive
  PROVE  /\ Partners(w, i) \subseteq w.alive /\ Partners(w, i) \subseteq Pools
         /\ Pools \subseteq Nat
         /\ \A j \in Partners(w, i) : j # i /\ i \in Partners(w, j)
<1>1. w.alive \subseteq Pools /\ w.size \in [Pools -> Nat]
  BY DEF WardTypes, Forest
<1>2. Pools \subseteq Nat
  BY PoolsAre
<1>3. ASSUME NEW j \in Partners(w, i) PROVE j # i /\ i \in Partners(w, j)
  <2>1. j \in w.alive /\ j # i /\ w.size[i] + w.size[j] <= CapPools
    BY DEF Partners
  <2>2. PICK a \in Nat, b \in Nat : a = w.size[i] /\ b = w.size[j]
    BY <1>1, <2>1
  <2>3. w.size[j] + w.size[i] <= CapPools
    BY <2>1, <2>2
  <2> QED BY <2>1, <2>3 DEF Partners
<1> QED BY <1>1, <1>2, <1>3 DEF Partners

LEMMA CheapestIs ==
  ASSUME NEW w, WardTypes(w), NEW i \in w.alive, Partners(w, i) # {}
  PROVE  /\ Cheapest(w, i) \in Partners(w, i)
         /\ \A k \in Partners(w, i) : Prefers(w, i, Cheapest(w, i), k)
<1>1. i \in Pools /\ Partners(w, i) \subseteq Pools /\ Partners(w, i) \subseteq Nat
  BY PartnersAre DEF WardTypes, Forest
<1>2. \A j \in Partners(w, i) : Cost(w, i, j) \in Nat
  BY <1>1, CostIs
<1> DEFINE C == {Cost(w, i, j) : j \in Partners(w, i)}
<1>3. PICK m \in C : \A n \in C : m <= n
  <2>1. C \subseteq Nat /\ C # {}
    BY <1>2
  <2> HIDE DEF C
  <2> QED BY <2>1, LeastNat
<1> DEFINE J == {j \in Partners(w, i) : Cost(w, i, j) = m}
<1>4. PICK c \in J : \A j \in J : c <= j
  <2>1. J \subseteq Nat /\ J # {}
    BY <1>1, <1>3
  <2> HIDE DEF J
  <2> QED BY <2>1, LeastNat
<1>5. ASSUME NEW k \in Partners(w, i) PROVE Prefers(w, i, c, k)
  <2>1. Cost(w, i, c) = m /\ m <= Cost(w, i, k) /\ m \in Nat /\ Cost(w, i, k) \in Nat
    BY <1>2, <1>3, <1>4
  <2>2. Cost(w, i, k) = m => c <= k
    BY <1>4
  <2> QED BY <2>1, <2>2 DEF Prefers
<1>6. c \in Partners(w, i)
  BY <1>4
<1>7. \E j \in Partners(w, i) : \A k \in Partners(w, i) : Prefers(w, i, j, k)
  BY <1>5, <1>6
<1> QED BY <1>7, Zenon DEF Cheapest

\* A mutual pair.
IsMutual(w, a, b) ==
  /\ a \in w.alive /\ b \in w.alive /\ a < b
  /\ b \in Partners(w, a) /\ a \in Partners(w, b)
  /\ b = Cheapest(w, a) /\ a = Cheapest(w, b)

LEMMA MutualIs ==
  ASSUME NEW w, WardTypes(w)
  PROVE  /\ \A p \in Mutual(w) : p = <<p[1], p[2]>> /\ IsMutual(w, p[1], p[2])
         /\ \A a, b : IsMutual(w, a, b) => <<a, b>> \in Mutual(w)
<1>1. ASSUME NEW p \in Mutual(w) PROVE p = <<p[1], p[2]>> /\ IsMutual(w, p[1], p[2])
  <2>1. p \in Best(w) /\ p[1] < p[2] /\ <<p[2], p[1]>> \in Best(w)
    BY DEF Mutual
  <2>2. PICK i \in w.alive : Partners(w, i) # {} /\ p = <<i, Cheapest(w, i)>>
    BY <2>1 DEF Best
  <2>3. PICK j \in w.alive : Partners(w, j) # {} /\ <<p[2], p[1]>> = <<j, Cheapest(w, j)>>
    BY <2>1 DEF Best
  <2>4. p[1] = i /\ p[2] = Cheapest(w, i) /\ p[2] = j /\ p[1] = Cheapest(w, j)
    BY <2>2, <2>3
  <2>5. Cheapest(w, i) \in Partners(w, i) /\ Cheapest(w, j) \in Partners(w, j)
    BY <2>2, <2>3, CheapestIs
  <2>6. p = <<p[1], p[2]>>
    BY <2>2, <2>4
  <2> QED BY <2>1, <2>4, <2>5, <2>6 DEF IsMutual
<1>2. ASSUME NEW a, NEW b, IsMutual(w, a, b) PROVE <<a, b>> \in Mutual(w)
  <2>1. <<a, b>> \in Best(w) /\ <<b, a>> \in Best(w) /\ a < b
    BY <1>2 DEF IsMutual, Best
  <2>2. PICK p : p = <<a, b>>
    OBVIOUS
  <2>3. p[1] = a /\ p[2] = b
    BY <2>2
  <2> QED BY <2>1, <2>2, <2>3 DEF Mutual
<1> QED BY <1>1, <1>2

\* No pool is in two mutual pairs.
LEMMA MutualApart ==
  ASSUME NEW w, WardTypes(w), NEW a, NEW b, NEW c, NEW d, IsMutual(w, a, b), IsMutual(w, c, d)
  PROVE  /\ a = c \/ b = d => a = c /\ b = d
         /\ a # d /\ b # c
<1>1. a = c => b = d
  BY DEF IsMutual
<1>2. b = d => a = c
  BY DEF IsMutual
<1>3. ASSUME a = d PROVE FALSE
  <2>1. b = c
    BY <1>3 DEF IsMutual
  <2>2. a < b /\ b < a /\ a \in Nat /\ b \in Nat
    <3>1. a \in Nat /\ b \in Nat
      BY PartnersAre DEF IsMutual
    <3> QED BY <1>3, <2>1, <3>1 DEF IsMutual
  <2> QED BY <2>2
<1>4. ASSUME b = c PROVE FALSE
  <2>1. a = d
    BY <1>4 DEF IsMutual
  <2> QED BY <1>3, <2>1
<1> QED BY <1>1, <1>2, <1>3, <1>4

\* The pools of a merged pair are each other's other.
LEMMA OtherIs ==
  ASSUME NEW w, WardTypes(w), NEW p \in Merged(w)
  PROVE  /\ p = <<p[1], p[2]>> /\ IsMutual(w, p[1], p[2])
         /\ Other(w, p[1]) = p[2] /\ Other(w, p[2]) = p[1]
<1>1. \A q \in Merged(w) : q = <<q[1], q[2]>> /\ IsMutual(w, q[1], q[2])
  BY MutualIs DEF Merged
<1>2. PICK a, b : p = <<a, b>> /\ a = p[1] /\ b = p[2] /\ IsMutual(w, a, b)
  BY <1>1
<1>3. a \in Pools /\ b \in Pools
  BY <1>2 DEF IsMutual, WardTypes, Forest
<1>4. ASSUME NEW j \in Pools, <<a, j>> \in Merged(w) \/ <<j, a>> \in Merged(w)
      PROVE  j = b
  <2>1. CASE <<a, j>> \in Merged(w)
    <3>1. IsMutual(w, a, j)
      <4>1. PICK q \in Merged(w) : q = <<a, j>>
        BY <2>1
      <4>2. q[1] = a /\ q[2] = j
        BY <4>1
      <4> QED BY <1>1, <4>1, <4>2
    <3> QED BY <1>2, <3>1, MutualApart
  <2>2. CASE <<j, a>> \in Merged(w)
    <3>1. IsMutual(w, j, a)
      <4>1. PICK q \in Merged(w) : q = <<j, a>>
        BY <2>2
      <4>2. q[1] = j /\ q[2] = a
        BY <4>1
      <4> QED BY <1>1, <4>1, <4>2
    <3> QED BY <1>2, <3>1, MutualApart
  <2> QED BY <1>4, <2>1, <2>2
<1>5. ASSUME NEW j \in Pools, <<b, j>> \in Merged(w) \/ <<j, b>> \in Merged(w)
      PROVE  j = a
  <2>1. CASE <<b, j>> \in Merged(w)
    <3>1. IsMutual(w, b, j)
      <4>1. PICK q \in Merged(w) : q = <<b, j>>
        BY <2>1
      <4>2. q[1] = b /\ q[2] = j
        BY <4>1
      <4> QED BY <1>1, <4>1, <4>2
    <3> QED BY <1>2, <3>1, MutualApart
  <2>2. CASE <<j, b>> \in Merged(w)
    <3>1. IsMutual(w, j, b)
      <4>1. PICK q \in Merged(w) : q = <<j, b>>
        BY <2>2
      <4>2. q[1] = j /\ q[2] = b
        BY <4>1
      <4> QED BY <1>1, <4>1, <4>2
    <3> QED BY <1>2, <3>1, MutualApart
  <2> QED BY <1>5, <2>1, <2>2
<1>6. Other(w, a) = b
  <2>1. <<a, b>> \in Merged(w)
    BY <1>2
  <2>2. \E j \in Pools : <<a, j>> \in Merged(w) \/ <<j, a>> \in Merged(w)
    BY <1>3, <2>1
  <2> QED BY <1>4, <2>2 DEF Other
<1>7. Other(w, b) = a
  <2>1. <<a, b>> \in Merged(w)
    BY <1>2
  <2>2. \E j \in Pools : <<b, j>> \in Merged(w) \/ <<j, b>> \in Merged(w)
    BY <1>3, <2>1
  <2> QED BY <1>5, <2>2 DEF Other
<1> QED BY <1>1, <1>2, <1>6, <1>7

LEMMA KeptAbsorbed ==
  ASSUME NEW w, WardTypes(w)
  PROVE  /\ \A k \in Kept(w) : /\ IsMutual(w, k, Other(w, k)) /\ Other(w, k) \in Absorbed(w)
                               /\ Other(w, Other(w, k)) = k
         /\ \A b \in Absorbed(w) : /\ IsMutual(w, Other(w, b), b) /\ Other(w, b) \in Kept(w)
                                   /\ Other(w, Other(w, b)) = b
         /\ Kept(w) \cap Absorbed(w) = {}
         /\ Kept(w) \subseteq w.alive /\ Absorbed(w) \subseteq w.alive
<1>1. ASSUME NEW k \in Kept(w)
      PROVE  /\ IsMutual(w, k, Other(w, k)) /\ Other(w, k) \in Absorbed(w)
             /\ Other(w, Other(w, k)) = k
  <2>1. PICK p \in Merged(w) : k = p[1]
    BY DEF Kept
  <2> QED BY <2>1, OtherIs DEF Absorbed
<1>2. ASSUME NEW b \in Absorbed(w)
      PROVE  /\ IsMutual(w, Other(w, b), b) /\ Other(w, b) \in Kept(w)
             /\ Other(w, Other(w, b)) = b
  <2>1. PICK p \in Merged(w) : b = p[2]
    BY DEF Absorbed
  <2> QED BY <2>1, OtherIs DEF Kept
<1>3. ASSUME NEW x \in Kept(w), x \in Absorbed(w) PROVE FALSE
  BY <1>1, <1>2, <1>3, MutualApart
<1>4. Kept(w) \subseteq w.alive /\ Absorbed(w) \subseteq w.alive
  BY <1>1, <1>2 DEF IsMutual
<1> QED BY <1>1, <1>2, <1>3, <1>4

\* The pools of a cluster.
ClusterOf(root, i) == {p \in Pools : root[p] = i}

\* What a round keeps: sizes count the pools of a cluster, and none is too large.
WardInv(w) ==
  /\ WardTypes(w)
  /\ \A i \in w.alive : w.size[i] <= CapPools
  /\ \A root : Roots(root, w.parent) =>
       \A i \in w.alive : w.size[i] = Cardinality(ClusterOf(root, i))

\* Where a merged root's pools go.
MovedRoot(w, root) ==
  [p \in Pools |-> IF root[p] \in Absorbed(w) THEN Other(w, root[p]) ELSE root[p]]

LEMMA RoundForest ==
  ASSUME NEW w, WardTypes(w)
  PROVE  /\ WardTypes(WardRound(w))
         /\ \A root : Roots(root, w.parent) => Roots(MovedRoot(w, root), WardRound(w).parent)
<1> DEFINE v == WardRound(w)
<1>1. /\ v.sum = JoinedOf(w, w.sum) /\ v.size = JoinedOf(w, w.size)
      /\ v.alive = w.alive \ Absorbed(w)
      /\ v.parent = [i \in Pools |-> IF i \in Absorbed(w) THEN Other(w, i) ELSE w.parent[i]]
  BY RoundIs
<1> HIDE DEF v
<1>0. Pools \subseteq Nat
  BY PoolsAre
<1>2. w.alive \subseteq Pools /\ Pools \subseteq Nat /\ w.parent \in [Pools -> Pools]
  BY <1>0 DEF WardTypes, Forest
<1>3. ASSUME NEW k \in Kept(w)
      PROVE  k \in Pools /\ Other(w, k) \in Pools
  BY <1>2, KeptAbsorbed DEF IsMutual
<1>4. ASSUME NEW b \in Absorbed(w)
      PROVE  b \in Pools /\ Other(w, b) \in w.alive /\ Other(w, b) \in Pools /\ Other(w, b) < b
             /\ Other(w, b) \notin Absorbed(w) /\ b \in w.alive
  BY <1>2, KeptAbsorbed DEF IsMutual
<1>5. v.sum \in [Pools -> Int]
  <2>1. w.sum \in [Pools -> Int]
    BY DEF WardTypes
  <2>2. \A i \in Pools : i \in Kept(w) => w.sum[i] + w.sum[Other(w, i)] \in Int
    BY <1>3, <2>1
  <2> QED BY <1>1, <2>1, <2>2 DEF JoinedOf
<1>6. v.size \in [Pools -> Nat]
  <2>1. w.size \in [Pools -> Nat]
    BY DEF WardTypes
  <2>2. \A i \in Pools : i \in Kept(w) => w.size[i] + w.size[Other(w, i)] \in Nat
    BY <1>3, <2>1
  <2> QED BY <1>1, <2>1, <2>2 DEF JoinedOf
<1>7. Forest(v.parent, v.alive)
  <2>1. v.parent \in [Pools -> Pools]
    BY <1>1, <1>2, <1>4
  <2>2. v.alive \subseteq Pools
    BY <1>1, <1>2
  <2>3. ASSUME NEW i \in v.alive PROVE v.parent[i] = i
    <3>1. i \in w.alive /\ i \notin Absorbed(w) /\ i \in Pools
      BY <1>1, <1>2
    <3> QED BY <1>1, <3>1 DEF WardTypes, Forest
  <2>4. ASSUME NEW i \in Pools \ v.alive PROVE v.parent[i] < i
    <3>1. CASE i \in Absorbed(w)
      BY <1>1, <1>4, <3>1
    <3>2. CASE i \notin Absorbed(w)
      <4>1. i \in Pools \ w.alive
        BY <1>1, <3>2
      <4> QED BY <1>1, <3>2, <4>1 DEF WardTypes, Forest
    <3> QED BY <3>1, <3>2
  <2> QED BY <2>1, <2>2, <2>3, <2>4 DEF Forest
<1>8. ASSUME NEW root, Roots(root, w.parent)
      PROVE  Roots(MovedRoot(w, root), v.parent)
  <2>1. PICK r : r = MovedRoot(w, root)
    OBVIOUS
  <2>2. /\ root \in [Pools -> w.alive]
        /\ \A i \in w.alive : root[i] = i
        /\ \A i \in Pools \ w.alive : root[i] = root[w.parent[i]] /\ w.parent[i] # i
    BY <1>8, RootsAlive DEF WardTypes
  <2>3. r = [p \in Pools |-> r[p]]
        /\ \A p \in Pools : r[p] = IF root[p] \in Absorbed(w) THEN Other(w, root[p]) ELSE root[p]
    BY <2>1 DEF MovedRoot
  <2>4. ASSUME NEW i \in Pools
        PROVE  r[i] = IF v.parent[i] = i THEN i ELSE r[v.parent[i]]
    <3>1. CASE i \in Absorbed(w)
      <4>1. PICK k \in w.alive : k = Other(w, i) /\ k # i /\ k \notin Absorbed(w) /\ k \in Pools
        BY <1>2, <1>4, <3>1
      <4>2. root[i] = i /\ root[k] = k
        BY <1>4, <2>2, <3>1, <4>1
      <4>3. r[i] = k /\ r[k] = k
        BY <2>3, <3>1, <4>1, <4>2
      <4>4. v.parent[i] = k
        BY <1>1, <3>1, <4>1
      <4> QED BY <4>1, <4>3, <4>4
    <3>2. CASE i \notin Absorbed(w) /\ i \in w.alive
      <4>1. v.parent[i] = i
        BY <1>1, <3>2 DEF WardTypes, Forest
      <4>2. r[i] = i
        BY <2>2, <2>3, <3>2
      <4> QED BY <4>1, <4>2
    <3>3. CASE i \notin Absorbed(w) /\ i \notin w.alive
      <4>1. v.parent[i] = w.parent[i] /\ w.parent[i] # i /\ w.parent[i] \in Pools
        BY <1>1, <1>2, <2>2, <3>3
      <4>2. root[i] = root[w.parent[i]]
        BY <2>2, <3>3
      <4>3. r[i] = r[w.parent[i]]
        BY <2>3, <4>1, <4>2
      <4> QED BY <4>1, <4>3
    <3> QED BY <3>1, <3>2, <3>3
  <2>5. Roots(r, v.parent)
    BY <2>3, <2>4 DEF Roots
  <2> QED BY <2>1, <2>5
<1> QED BY <1>5, <1>6, <1>7, <1>8 DEF v, WardTypes

LEMMA ClusterFinite ==
  ASSUME NEW root, NEW i
  PROVE  IsFiniteSet(ClusterOf(root, i)) /\ Cardinality(ClusterOf(root, i)) \in Nat
         /\ ClusterOf(root, i) \subseteq Pools
<1>1. ClusterOf(root, i) \subseteq Pools
  BY DEF ClusterOf
<1>2. IsFiniteSet(Pools)
  BY PoolsAre
<1> QED BY <1>1, <1>2, FS_Subset, FS_CardinalityType

LEMMA DisjointSum ==
  ASSUME NEW S, IsFiniteSet(S), NEW T, IsFiniteSet(T), S \cap T = {}
  PROVE  IsFiniteSet(S \cup T) /\ Cardinality(S \cup T) = Cardinality(S) + Cardinality(T)
<1>1. Cardinality(S \cap T) = 0
  BY FS_EmptySet
<1>2. PICK m, n \in Nat : m = Cardinality(S) /\ n = Cardinality(T)
  BY FS_CardinalityType
<1>3. IsFiniteSet(S \cup T) /\ Cardinality(S \cup T) = m + n - 0
  BY <1>1, <1>2, FS_Union
<1> QED BY <1>2, <1>3

LEMMA RoundSizes ==
  ASSUME NEW w, WardInv(w)
  PROVE  WardInv(WardRound(w))
<1> DEFINE v == WardRound(w)
<1>0. WardTypes(w)
  BY DEF WardInv
<1>1. v.size = JoinedOf(w, w.size) /\ v.alive = w.alive \ Absorbed(w)
  BY RoundIs
<1>2. WardTypes(v)
  BY <1>0, RoundForest
<1>3. \A root : Roots(root, w.parent) => Roots(MovedRoot(w, root), v.parent)
  BY <1>0, RoundForest
<1> HIDE DEF v
<1>4. w.alive \subseteq Pools /\ w.size \in [Pools -> Nat]
  BY <1>0 DEF WardTypes, Forest
<1>5. ASSUME NEW i \in v.alive
      PROVE  /\ i \in Pools /\ i \in w.alive /\ i \notin Absorbed(w)
             /\ v.size[i] = IF i \in Kept(w) THEN w.size[i] + w.size[Other(w, i)] ELSE w.size[i]
  BY <1>1, <1>4 DEF JoinedOf
<1>6. ASSUME NEW i \in v.alive PROVE v.size[i] <= CapPools
  <2>1. CASE i \in Kept(w)
    <3>1. Other(w, i) \in Partners(w, i)
      BY <1>0, <2>1, KeptAbsorbed DEF IsMutual
    <3>2. w.size[i] + w.size[Other(w, i)] <= CapPools
      BY <3>1 DEF Partners
    <3> QED BY <1>5, <2>1, <3>2
  <2>2. CASE i \notin Kept(w)
    BY <1>5, <2>2 DEF WardInv
  <2> QED BY <2>1, <2>2
<1>7. ASSUME NEW next, Roots(next, v.parent), NEW i \in v.alive
      PROVE  v.size[i] = Cardinality(ClusterOf(next, i))
  <2>1. PICK root : Roots(root, w.parent)
    BY <1>0, RootsExist DEF WardTypes
  <2>2. next = MovedRoot(w, root)
    <3>1. Forest(v.parent, v.alive)
      BY <1>2 DEF WardTypes
    <3> QED BY <1>3, <1>7, <2>1, <3>1, RootsUnique
  <2>3. \A p \in Pools : next[p] = IF root[p] \in Absorbed(w) THEN Other(w, root[p]) ELSE root[p]
    BY <2>2 DEF MovedRoot
  <2>4. \A j \in w.alive : w.size[j] = Cardinality(ClusterOf(root, j))
    BY <2>1 DEF WardInv
  <2>5. \A b \in Absorbed(w) : Other(w, b) \in Kept(w) /\ Other(w, Other(w, b)) = b
    BY <1>0, KeptAbsorbed
  <2>6. CASE i \in Kept(w)
    <3>1. PICK b : b = Other(w, i) /\ b \in Absorbed(w) /\ Other(w, b) = i /\ b \in w.alive
      BY <1>0, <2>6, KeptAbsorbed
    <3>2. i # b
      BY <1>5, <3>1
    <3>3. ASSUME NEW p \in Pools PROVE next[p] = i <=> root[p] = i \/ root[p] = b
      BY <1>5, <2>3, <2>5, <3>1
    <3>4. ClusterOf(next, i) = ClusterOf(root, i) \cup ClusterOf(root, b)
      BY <3>3 DEF ClusterOf
    <3>5. ClusterOf(root, i) \cap ClusterOf(root, b) = {}
      BY <3>2 DEF ClusterOf
    <3>6. Cardinality(ClusterOf(next, i))
            = Cardinality(ClusterOf(root, i)) + Cardinality(ClusterOf(root, b))
      BY <3>4, <3>5, ClusterFinite, DisjointSum
    <3> QED BY <1>5, <2>4, <2>6, <3>1, <3>6
  <2>7. CASE i \notin Kept(w)
    <3>1. ASSUME NEW p \in Pools PROVE next[p] = i <=> root[p] = i
      BY <1>5, <2>3, <2>5, <2>7
    <3>2. ClusterOf(next, i) = ClusterOf(root, i)
      BY <3>1 DEF ClusterOf
    <3> QED BY <1>5, <2>4, <2>7, <3>2
  <2> QED BY <2>6, <2>7
<1> QED BY <1>2, <1>6, <1>7 DEF WardInv, v

\* Clusters do not overlap: m of them with q pools or more have m * q together.
Within(root, S) == {p \in Pools : root[p] \in S}

LEMMA ClustersAdd ==
  ASSUME NEW root, NEW q \in Nat, NEW m \in Nat, NEW S, IsFiniteSet(S), Cardinality(S) = m,
         \A i \in S : Cardinality(ClusterOf(root, i)) >= q
  PROVE  Cardinality(Within(root, S)) >= m * q
<1> DEFINE Full(V) == \A i \in V : Cardinality(ClusterOf(root, i)) >= q
           P(k) == \A V : IsFiniteSet(V) /\ Cardinality(V) = k /\ Full(V)
                            => Cardinality(Within(root, V)) >= k * q
           T == {k \in Nat : P(k)}
<1>0. ASSUME NEW V
      PROVE  IsFiniteSet(Within(root, V)) /\ Cardinality(Within(root, V)) \in Nat
  <2>1. Within(root, V) \subseteq Pools
    BY DEF Within
  <2>2. IsFiniteSet(Pools)
    BY PoolsAre
  <2> QED BY <2>1, <2>2, FS_Subset, FS_CardinalityType
<1>1. 0 \in T
  <2>1. 0 * q = 0
    OBVIOUS
  <2> QED BY <1>0, <2>1
<1>2. ASSUME NEW k \in Nat, P(k) PROVE P(k + 1)
  <2> SUFFICES ASSUME NEW V, IsFiniteSet(V), Cardinality(V) = k + 1,
                      \A i \in V : Cardinality(ClusterOf(root, i)) >= q
               PROVE  Cardinality(Within(root, V)) >= (k + 1) * q
    OBVIOUS
  <2>1. PICK i \in V : TRUE
    <3>1. V # {}
      BY FS_EmptySet
    <3> QED BY <3>1
  <2>2. PICK U : U = V \ {i}
    OBVIOUS
  <2>3. IsFiniteSet(U) /\ Cardinality(U) = k
    <3>1. IsFiniteSet(U) /\ Cardinality(U) = (k + 1) - 1
      BY <2>1, <2>2, FS_RemoveElement
    <3> QED BY <3>1
  <2>4. Cardinality(Within(root, U)) >= k * q
    BY <1>2, <2>2, <2>3
  <2>5. Within(root, V) = Within(root, U) \cup ClusterOf(root, i)
    BY <2>1, <2>2 DEF Within, ClusterOf
  <2>6. Within(root, U) \cap ClusterOf(root, i) = {}
    BY <2>2 DEF Within, ClusterOf
  <2>7. Cardinality(Within(root, V))
          = Cardinality(Within(root, U)) + Cardinality(ClusterOf(root, i))
    BY <1>0, <2>5, <2>6, ClusterFinite, DisjointSum
  <2>8. Cardinality(ClusterOf(root, i)) >= q
    BY <2>1
  <2>9. (k + 1) * q = k * q + q
    BY Z3
  <2>10. PICK a \in Nat, b \in Nat, c \in Nat :
           a = Cardinality(Within(root, U)) /\ b = Cardinality(ClusterOf(root, i)) /\ c = k * q
    BY <1>0, ClusterFinite
  <2> QED BY <2>4, <2>7, <2>8, <2>9, <2>10
<1>3. m \in T
  <2>1. \A k \in Nat : k \in T => k + 1 \in T
    BY <1>2
  <2> HIDE DEF T
  <2> QED BY <1>1, <2>1, Induction
<1> QED BY <1>3

\* Were no two of Buckets + 1 clusters to fit in a row, they would have more
\* pools than a block: with 64 rows of 4 pools and 128 pools there is always a pair.
RoomToMerge == (Buckets + 1) * (CapPools + 1) > 2 * Cardinality(Pools)

LEMMA NotAllLarge ==
  ASSUME NEW a \in Nat, NEW m \in Nat, m >= 2, NEW d \in Nat, NEW q \in Nat, NEW n \in Nat,
         a + q >= d, q + q >= d, a + (m - 1) * q <= n
  PROVE  m * d <= 2 * n
<1>1. PICK k \in Nat : m = k + 2
  <2>1. m - 2 \in Nat /\ m = (m - 2) + 2
    OBVIOUS
  <2> QED BY <2>1
<1>2. (m - 1) * q = k * q + q
  BY <1>1, Z3
<1>3. k * q + k * q = k * (q + q)
  BY Z3
<1>4. k * (q + q) >= k * d
  <2>1. PICK e \in Nat : q + q = d + e
    <3>1. (q + q) - d \in Nat /\ q + q = d + ((q + q) - d)
      OBVIOUS
    <3> QED BY <3>1
  <2>2. k * (d + e) = k * d + k * e /\ k * e \in Nat /\ k * d \in Nat
    BY Z3
  <2> QED BY <2>1, <2>2
<1>5. m * d = k * d + d + d
  BY <1>1, Z3
<1>6. PICK x \in Nat, y \in Nat : x = k * q /\ y = k * d
  OBVIOUS
<1>7. x + x >= y
  BY <1>3, <1>4, <1>6
<1> QED BY <1>2, <1>5, <1>6, <1>7

LEMMA PairExists ==
  ASSUME RoomToMerge, NEW w, WardInv(w), Cardinality(w.alive) > Buckets
  PROVE  \E i \in w.alive : Partners(w, i) # {}
<1> SUFFICES ASSUME \A i \in w.alive : Partners(w, i) = {} PROVE FALSE
  OBVIOUS
<1>0. w.alive \subseteq Pools /\ w.size \in [Pools -> Nat] /\ Forest(w.parent, w.alive)
  BY DEF WardInv, WardTypes, Forest
<1>1. PICK root : Roots(root, w.parent)
  BY <1>0, RootsExist
<1>2. \A i \in w.alive : w.size[i] = Cardinality(ClusterOf(root, i))
  BY <1>1 DEF WardInv
<1>3. IsFiniteSet(Pools) /\ IsFiniteSet(w.alive)
  BY <1>0, PoolsAre, FS_Subset
<1>4. PICK m \in Nat, n \in Nat, b \in Nat \ {0}, c \in Nat \ {0} :
        m = Cardinality(w.alive) /\ n = Cardinality(Pools) /\ b = Buckets /\ c = CapPools
  BY <1>3, SizesAre, FS_CardinalityType
<1>5. m > b /\ (b + 1) * (c + 1) > 2 * n
  BY <1>4 DEF RoomToMerge
<1>6. PICK x \in w.alive : \A y \in w.alive : w.size[x] <= w.size[y]
  <2> DEFINE Z == {w.size[y] : y \in w.alive}
  <2>1. w.alive # {}
    BY <1>4, <1>5, FS_EmptySet
  <2>2. Z \subseteq Nat /\ Z # {}
    BY <1>0, <2>1
  <2>3. PICK z \in Z : \A y \in Z : z <= y
    <3> HIDE DEF Z
    <3> QED BY <2>2, LeastNat
  <2> QED BY <2>3
<1>7. PICK a \in Nat : a = w.size[x] /\ a <= c
  BY <1>0, <1>4, <1>6 DEF WardInv
<1>8. PICK q \in Nat : q >= a /\ q >= c + 1 - a /\ q \in {a, c + 1 - a}
  <2>1. PICK y \in Nat : y = c + 1 - a
    BY <1>7
  <2>2. CASE a >= y
    BY <1>7, <2>1, <2>2
  <2>3. CASE y >= a
    BY <1>7, <2>1, <2>3
  <2> QED BY <1>7, <2>1, <2>2, <2>3
<1>9. ASSUME NEW y \in w.alive, y # x PROVE Cardinality(ClusterOf(root, y)) >= q
  <2>1. PICK s \in Nat : s = w.size[y] /\ s = Cardinality(ClusterOf(root, y))
    BY <1>0, <1>2
  <2>2. s >= a
    BY <1>6, <1>7, <2>1
  <2>3. a + s > c
    <3>1. y \notin Partners(w, x)
      OBVIOUS
    <3>2. ~(w.size[x] + w.size[y] <= CapPools)
      BY <1>9, <3>1 DEF Partners
    <3> QED BY <1>4, <1>7, <2>1, <3>2
  <2> QED BY <1>8, <2>1, <2>2, <2>3
<1>10. PICK rest : rest = w.alive \ {x}
  OBVIOUS
<1>11. IsFiniteSet(rest) /\ Cardinality(rest) = m - 1
  BY <1>3, <1>4, <1>6, <1>10, FS_RemoveElement
<1>12. m - 1 \in Nat /\ m >= 2
  BY <1>5
<1>13. Cardinality(Within(root, rest)) >= (m - 1) * q
  BY <1>9, <1>10, <1>11, <1>12, ClustersAdd
<1>14. Cardinality(Within(root, rest)) + a <= n
  <2>1. Within(root, rest) \subseteq Pools /\ ClusterOf(root, x) \subseteq Pools
    BY DEF Within, ClusterOf
  <2>2. Within(root, rest) \cap ClusterOf(root, x) = {}
    BY <1>10 DEF Within, ClusterOf
  <2>3. IsFiniteSet(Within(root, rest)) /\ IsFiniteSet(ClusterOf(root, x))
    BY <1>3, <2>1, FS_Subset
  <2>4. PICK u : u = Within(root, rest) \cup ClusterOf(root, x)
    OBVIOUS
  <2>5. Cardinality(u) = Cardinality(Within(root, rest)) + Cardinality(ClusterOf(root, x))
    BY <2>2, <2>3, <2>4, DisjointSum
  <2>6. u \subseteq Pools
    BY <2>1, <2>4
  <2>7. Cardinality(u) <= Cardinality(Pools)
    BY <1>3, <2>6, FS_Subset
  <2> QED BY <1>2, <1>4, <1>6, <1>7, <2>5, <2>7
<1>15. a + (m - 1) * q <= n
  <2>1. PICK y \in Nat : y = (m - 1) * q
    BY <1>12
  <2>2. Cardinality(Within(root, rest)) \in Nat
    <3>1. Within(root, rest) \subseteq Pools
      BY DEF Within
    <3> QED BY <1>3, <3>1, FS_Subset, FS_CardinalityType
  <2> QED BY <1>13, <1>14, <2>1, <2>2
<1>16. m * (c + 1) <= 2 * n
  <2>1. a + q >= c + 1 /\ q + q >= c + 1
    BY <1>8
  <2>2. c + 1 \in Nat
    OBVIOUS
  <2> QED BY <1>12, <1>15, <2>1, <2>2, NotAllLarge
<1>17. m * (c + 1) >= (b + 1) * (c + 1)
  <2>1. PICK e \in Nat : m = (b + 1) + e
    <3>1. m - (b + 1) \in Nat /\ m = (b + 1) + (m - (b + 1))
      BY <1>5
    <3> QED BY <3>1
  <2>2. ((b + 1) + e) * (c + 1) = (b + 1) * (c + 1) + e * (c + 1) /\ e * (c + 1) \in Nat
        /\ (b + 1) * (c + 1) \in Nat
    BY Z3
  <2> QED BY <2>1, <2>2
<1> QED
  <2>1. PICK y \in Nat, z \in Nat : y = m * (c + 1) /\ z = (b + 1) * (c + 1)
    OBVIOUS
  <2> QED BY <1>5, <1>16, <1>17, <2>1

\* The cheapest of all pairs is a mutual one, and goes before every other.
LEMMA PairMerges ==
  ASSUME NEW w, WardTypes(w), MergesLeft(w) \in Nat \ {0},
         \E i \in w.alive : Partners(w, i) # {}
  PROVE  Absorbed(w) # {}
<1> DEFINE Pairs == {p \in w.alive \X w.alive : p[2] \in Partners(w, p[1])}
           Costs == {Cost(w, p[1], p[2]) : p \in Pairs}
<1>0. w.alive \subseteq Pools /\ Pools \subseteq Nat
  <2>1. Pools \subseteq Nat
    BY PoolsAre
  <2> QED BY <2>1 DEF WardTypes, Forest
<1>1. ASSUME NEW i \in w.alive, NEW j \in Partners(w, i)
      PROVE  /\ j \in w.alive /\ i \in Partners(w, j) /\ j # i
             /\ Cost(w, i, j) \in Nat /\ Cost(w, i, j) = Cost(w, j, i)
             /\ Cost(w, i, j) \in Costs
  <2>1. j \in w.alive /\ i \in Partners(w, j) /\ j # i
    BY PartnersAre
  <2>2. <<i, j>> \in Pairs
    BY <2>1
  <2>3. Cost(w, i, j) \in Nat /\ Cost(w, i, j) = Cost(w, j, i)
    BY <1>0, <2>1, CostIs
  <2>4. Cost(w, i, j) \in Costs
    <3>1. PICK p \in Pairs : p[1] = i /\ p[2] = j
      BY <2>2
    <3> QED BY <3>1
  <2> QED BY <2>1, <2>3, <2>4
<1>2. PICK m \in Costs : \A n \in Costs : m <= n
  <2>1. Costs \subseteq Nat
    BY <1>1
  <2>2. Costs # {}
    BY <1>1
  <2> HIDE DEF Costs
  <2> QED BY <2>1, <2>2, LeastNat
<1>3. m \in Nat
  BY <1>1
<1> DEFINE Firsts == {i \in w.alive : \E j \in Partners(w, i) : Cost(w, i, j) = m}
<1>4. PICK a \in Firsts : \A i \in Firsts : a <= i
  <2>1. Firsts \subseteq Nat /\ Firsts # {}
    <3>1. PICK p \in Pairs : m = Cost(w, p[1], p[2])
      BY <1>2
    <3> QED BY <1>0, <3>1
  <2> HIDE DEF Firsts
  <2> QED BY <2>1, LeastNat
<1>5. \A i \in w.alive : \A j \in Partners(w, i) : m <= Cost(w, i, j)
  BY <1>1, <1>2
<1>6. ASSUME NEW i \in w.alive, \A j \in Partners(w, i) : Cost(w, i, j) \in Nat,
             NEW x \in Partners(w, i), Cost(w, i, x) = m
      PROVE  /\ Cheapest(w, i) \in Partners(w, i) /\ Cost(w, i, Cheapest(w, i)) = m
             /\ Cheapest(w, i) <= x
  <2>1. PICK c \in Partners(w, i) : c = Cheapest(w, i) /\ Prefers(w, i, c, x)
    BY <1>6, CheapestIs
  <2>2. Cost(w, i, c) \in Nat /\ m <= Cost(w, i, c)
    BY <1>5, <1>6
  <2> QED BY <1>3, <1>6, <2>1, <2>2 DEF Prefers
<1>7. PICK b \in Partners(w, a) : b = Cheapest(w, a) /\ Cost(w, a, b) = m
  <2>1. PICK x \in Partners(w, a) : Cost(w, a, x) = m
    BY <1>4
  <2>2. \A j \in Partners(w, a) : Cost(w, a, j) \in Nat
    BY <1>1
  <2> QED BY <1>6, <2>1, <2>2
<1>8. b \in w.alive /\ a \in Partners(w, b) /\ a # b /\ Cost(w, b, a) = m
  BY <1>1, <1>4, <1>7
<1>9. a < b
  <2>1. b \in Firsts
    BY <1>8
  <2> QED BY <1>0, <1>4, <1>8, <2>1
<1>10. a = Cheapest(w, b)
  <2>1. \A j \in Partners(w, b) : Cost(w, b, j) \in Nat
    BY <1>1, <1>8
  <2>2. PICK c \in Partners(w, b) : c = Cheapest(w, b) /\ Cost(w, b, c) = m /\ c <= a
    BY <1>6, <1>8, <2>1
  <2>3. c \in w.alive /\ b \in Partners(w, c) /\ Cost(w, c, b) = m
    BY <1>1, <1>8, <2>2
  <2>4. c \in Firsts
    BY <2>3
  <2>5. a <= c
    BY <1>4, <2>4
  <2> QED BY <1>0, <1>4, <2>2, <2>3, <2>5
<1>11. IsMutual(w, a, b)
  BY <1>4, <1>7, <1>8, <1>9, <1>10 DEF IsMutual
<1>12. PICK p \in Mutual(w) : p[1] = a /\ p[2] = b
  <2>1. <<a, b>> \in Mutual(w)
    BY <1>11, MutualIs
  <2> QED BY <2>1
<1>13. ASSUME NEW q \in Mutual(w), Precedes(w, q, p) PROVE FALSE
  <2>1. IsMutual(w, q[1], q[2])
    BY MutualIs
  <2>2. PICK c \in w.alive : c = q[1]
    BY <2>1 DEF IsMutual
  <2>d. PICK d \in Partners(w, c) : d = q[2]
    BY <2>1, <2>2 DEF IsMutual
  <2>3. Cost(w, c, d) \in Nat /\ m <= Cost(w, c, d)
    BY <1>1, <1>5
  <2>4. Cost(w, c, d) = m => a <= c
    BY <1>4
  <2>5. Cost(w, c, d) < m \/ (Cost(w, c, d) = m /\ c < a)
    BY <1>7, <1>12, <1>13, <2>2, <2>d DEF Precedes
  <2>6. a \in Nat /\ c \in Nat
    BY <1>0, <1>4, <2>2
  <2> QED BY <1>3, <2>3, <2>4, <2>5, <2>6
<1>14. {q \in Mutual(w) : Precedes(w, q, p)} = {}
  BY <1>13
<1>15. Cardinality({q \in Mutual(w) : Precedes(w, q, p)}) = 0
  BY <1>14, FS_EmptySet
<1>16. Cardinality({q \in Mutual(w) : Precedes(w, q, p)}) < MergesLeft(w)
  BY <1>15
<1>17. p \in Merged(w)
  BY <1>16 DEF Merged
<1> QED BY <1>17 DEF Absorbed

\* A round that has merges left takes a pool away.
LEMMA RoundShrinks ==
  ASSUME RoomToMerge, NEW w, WardInv(w), MergesLeft(w) # 0
  PROVE  /\ Cardinality(w.alive) \in Nat /\ Cardinality(WardRound(w).alive) \in Nat
         /\ Cardinality(WardRound(w).alive) < Cardinality(w.alive)
<1>0. WardTypes(w)
  BY DEF WardInv
<1>1. w.alive \subseteq Pools /\ IsFiniteSet(Pools)
  BY <1>0, PoolsAre DEF WardTypes, Forest
<1>2. PICK m \in Nat, b \in Nat : m = Cardinality(w.alive) /\ b = Buckets
  BY <1>1, SizesAre, FS_Subset, FS_CardinalityType
<1>3. MergesLeft(w) = IF m - b >= 0 THEN m - b ELSE 0
  BY <1>2 DEF MergesLeft, Larger
<1>4. MergesLeft(w) \in Nat \ {0} /\ m > b
  BY <1>3
<1>5. Absorbed(w) # {}
  BY <1>0, <1>2, <1>4, PairExists, PairMerges
<1>6. Absorbed(w) \subseteq w.alive
  BY <1>0, KeptAbsorbed
<1>7. PICK v : v = w.alive \ Absorbed(w)
  OBVIOUS
<1>8. v \subseteq w.alive /\ v # w.alive
  BY <1>5, <1>6, <1>7
<1>9. IsFiniteSet(w.alive)
  BY <1>1, FS_Subset
<1>10. IsFiniteSet(v) /\ Cardinality(v) <= Cardinality(w.alive)
       /\ (Cardinality(v) = Cardinality(w.alive) => v = w.alive)
  BY <1>8, <1>9, FS_Subset
<1>11. Cardinality(v) \in Nat
  BY <1>10, FS_CardinalityType
<1>12. WardRound(w).alive = v
  BY <1>7, RoundIs
<1> QED BY <1>2, <1>8, <1>10, <1>11, <1>12

-----------------------------------------------------------------------------
(* The rounds reach the bucket count, and the tables have room.            *)

\* f takes m steps from start.
Steps(f, start, step, m) ==
  f = [n \in 0 .. m |-> IF n = 0 THEN start ELSE step[<<n, f[n - 1]>>]]

LEMMA Recursion ==
  ASSUME NEW S, NEW start \in S, NEW step \in [Nat \X S -> S], NEW m \in Nat
  PROVE  \E f : Steps(f, start, step, m) /\ f \in [0 .. m -> S]
<1> DEFINE P(k) == \E f : Steps(f, start, step, k) /\ f \in [0 .. k -> S]
           T == {k \in Nat : P(k)}
<1>1. P(0)
  <2>1. PICK f : f = [n \in 0 .. 0 |-> start]
    OBVIOUS
  <2>2. [n \in 0 .. 0 |-> IF n = 0 THEN start ELSE step[<<n, f[n - 1]>>]]
          = [n \in 0 .. 0 |-> start]
    <3>1. \A n \in 0 .. 0 : n = 0
      OBVIOUS
    <3> QED BY <3>1
  <2>3. Steps(f, start, step, 0)
    BY <2>1, <2>2 DEF Steps
  <2>4. f \in [0 .. 0 -> S]
    BY <2>1
  <2> QED BY <2>3, <2>4
<1>2. ASSUME NEW k \in Nat, P(k) PROVE P(k + 1)
  <2>1. PICK f : Steps(f, start, step, k) /\ f \in [0 .. k -> S]
    BY <1>2
  <2>2. PICK x : x = step[<<k + 1, f[k]>>]
    OBVIOUS
  <2>3. x \in S
    <3>1. f[k] \in S /\ k + 1 \in Nat
      BY <2>1
    <3> QED BY <2>2, <3>1
  <2>4. PICK g : g = [n \in 0 .. k + 1 |-> IF n = k + 1 THEN x ELSE f[n]]
    OBVIOUS
  <2>5. ASSUME NEW n \in 0 .. k + 1
        PROVE  g[n] = IF n = 0 THEN start ELSE step[<<n, g[n - 1]>>]
    <3>1. CASE n = k + 1
      <4>1. n # 0 /\ n - 1 = k /\ k \in 0 .. k + 1 /\ k # k + 1
        BY <3>1
      <4>2. g[n] = x /\ g[k] = f[k]
        BY <2>4, <3>1, <4>1
      <4> QED BY <2>2, <3>1, <4>1, <4>2
    <3>2. CASE n # k + 1
      <4>1. n \in 0 .. k /\ g[n] = f[n]
        BY <2>4, <3>2
      <4>2. f[n] = IF n = 0 THEN start ELSE step[<<n, f[n - 1]>>]
        BY <2>1, <4>1 DEF Steps
      <4>3. n # 0 => g[n - 1] = f[n - 1]
        <5>1. n # 0 => n - 1 \in 0 .. k + 1 /\ n - 1 # k + 1
          BY <4>1
        <5> QED BY <2>4, <5>1
      <4> QED BY <4>1, <4>2, <4>3
    <3> QED BY <3>1, <3>2
  <2>6. g = [n \in 0 .. k + 1 |-> g[n]]
    BY <2>4
  <2>7. Steps(g, start, step, k + 1)
    BY <2>5, <2>6 DEF Steps
  <2>8. g \in [0 .. k + 1 -> S]
    BY <2>1, <2>3, <2>4
  <2> QED BY <2>7, <2>8
<1>3. Nat \subseteq T
  <2>1. 0 \in T /\ \A k \in Nat : k \in T => k + 1 \in T
    BY <1>1, <1>2
  <2> HIDE DEF T
  <2> QED BY <2>1, Induction
<1> QED BY <1>3

\* The sums of a block's pools.
Totals(f, keys, i) ==
  f = [n \in 0 .. PoolSize |-> IF n = 0 THEN 0 ELSE f[n - 1] + keys[i * PoolSize + n - 1]]

LEMMA PoolSumsAre ==
  ASSUME NEW keys \in [0 .. Block - 1 -> Int]
  PROVE  PoolSums(keys) \in [Pools -> Int]
<1> DEFINE Total(i) == CHOOSE f : Totals(f, keys, i)
<1>1. PoolSums(keys) = [i \in Pools |-> Total(i)[PoolSize]]
  BY Zenon DEF PoolSums, Totals
<1>2. ASSUME NEW i \in Pools PROVE Total(i)[PoolSize] \in Int
  <2>0. PICK m \in Nat : m = PoolSize
    BY SizesAre
  <2>1. PICK value : value = [n \in Nat |-> IF n \in 1 .. m THEN keys[i * PoolSize + n - 1] ELSE 0]
    OBVIOUS
  <2>2. ASSUME NEW n \in 1 .. m PROVE keys[i * PoolSize + n - 1] \in Int
    <3>1. PICK k \in Nat \ {0} : Pools = 0 .. k - 1 /\ Block = k * PoolSize
      BY PoolsAre
    <3>2. i \in Nat /\ i <= k - 1
      BY <3>1
    <3>3. i * m + n - 1 >= 0 /\ i * m + n - 1 < k * m
      <4>1. PICK d \in Nat : k = i + 1 + d
        <5>1. k - 1 - i \in Nat /\ k = i + 1 + (k - 1 - i)
          BY <3>2
        <5> QED BY <5>1
      <4>2. (i + 1 + d) * m = i * m + m + d * m
        BY <3>2, Z3
      <4>3. i * m \in Nat /\ d * m \in Nat
        BY <3>2
      <4> QED BY <4>1, <4>2, <4>3
    <3>4. i * PoolSize + n - 1 \in 0 .. Block - 1
      <4>1. i * m \in Nat /\ k * m \in Nat
        BY <3>2
      <4> QED BY <2>0, <3>1, <3>3, <4>1
    <3> QED BY <3>4
  <2>3. value \in [Nat -> Int]
    BY <2>1, <2>2
  <2>4. PICK step : step = [p \in Nat \X Int |-> p[2] + value[p[1]]]
    OBVIOUS
  <2>5. step \in [Nat \X Int -> Int]
    BY <2>3, <2>4
  <2>6. PICK f : Steps(f, 0, step, m) /\ f \in [0 .. m -> Int]
    <3>1. 0 \in Int
      OBVIOUS
    <3> QED BY <2>5, <3>1, Recursion
  <2>7. Totals(f, keys, i)
    <3>1. ASSUME NEW n \in 0 .. m
          PROVE  f[n] = IF n = 0 THEN 0 ELSE f[n - 1] + keys[i * PoolSize + n - 1]
      <4>1. f[n] = IF n = 0 THEN 0 ELSE step[<<n, f[n - 1]>>]
        BY <2>6 DEF Steps
      <4>2. CASE n # 0
        <5>1. n \in 1 .. m /\ n \in Nat /\ f[n - 1] \in Int
          BY <2>6, <4>2
        <5>2. step[<<n, f[n - 1]>>] = f[n - 1] + value[n]
          BY <2>4, <5>1
        <5> QED BY <2>1, <4>1, <4>2, <5>1, <5>2
      <4> QED BY <4>1, <4>2
    <3>2. f = [n \in 0 .. m |-> f[n]]
      BY <2>6
    <3> QED BY <2>0, <3>1, <3>2 DEF Totals
  <2>8. Totals(Total(i), keys, i)
    BY <2>7
  <2> HIDE DEF Total
  <2>9. PICK g : g = Total(i) /\ g = [n \in 0 .. m |-> g[n]]
          /\ \A n \in 0 .. m : g[n] = IF n = 0 THEN 0 ELSE g[n - 1] + keys[i * PoolSize + n - 1]
    BY <2>0, <2>8 DEF Totals
  <2> DEFINE T == {n \in Nat : n <= m => g[n] \in Int}
  <2>10. 0 \in T
    <3>1. 0 \in 0 .. m
      OBVIOUS
    <3>2. g[0] = 0
      BY <2>9, <3>1
    <3> QED BY <3>2
  <2>11. ASSUME NEW n \in Nat, n \in T PROVE n + 1 \in T
    <3>1. CASE n + 1 <= m
      <4>1. n + 1 \in 0 .. m /\ n + 1 # 0 /\ n + 1 \in 1 .. m /\ (n + 1) - 1 = n /\ g[n] \in Int
        BY <2>11, <3>1
      <4>2. keys[i * PoolSize + (n + 1) - 1] \in Int
        BY <2>2, <4>1
      <4>3. g[n + 1] = g[(n + 1) - 1] + keys[i * PoolSize + (n + 1) - 1]
        BY <2>9, <4>1
      <4> QED BY <4>1, <4>2, <4>3
    <3> QED BY <3>1
  <2>12. m \in T
    <3> HIDE DEF T
    <3> QED BY <2>10, <2>11, Induction
  <2> QED BY <2>0, <2>9, <2>12
<1> HIDE DEF Total
<1> QED BY <1>1, <1>2

StartOf(sums) ==
  [sum |-> sums, size |-> [i \in Pools |-> 1], alive |-> Pools, parent |-> [i \in Pools |-> i]]
Rounds(f, sums) ==
  f = [n \in 0 .. Cardinality(Pools) |->
         IF n = 0 THEN StartOf(sums)
         ELSE IF MergesLeft(f[n - 1]) = 0 THEN f[n - 1] ELSE WardRound(f[n - 1])]
Labels(w, root) == [i \in Pools |-> Cardinality({j \in w.alive : j < root[i]})]

LEMMA WardIs ==
  ASSUME NEW sums
  PROVE  Ward(sums) = Labels((CHOOSE f : Rounds(f, sums))[Cardinality(Pools)],
           CHOOSE root : Roots(root, (CHOOSE f : Rounds(f, sums))[Cardinality(Pools)].parent))
BY Zenon DEF Ward, Labels, Rounds, Roots, StartOf

LEMMA WardStart ==
  ASSUME NEW sums \in [Pools -> Int]
  PROVE  WardInv(StartOf(sums))
<1>1. PICK w : w = StartOf(sums)
  OBVIOUS
<1>2. /\ w.sum = sums /\ w.size = [i \in Pools |-> 1] /\ w.alive = Pools
      /\ w.parent = [i \in Pools |-> i]
  BY <1>1 DEF StartOf
<1>3. Forest(w.parent, w.alive)
  BY <1>2 DEF Forest
<1>4. WardTypes(w)
  BY <1>2, <1>3 DEF WardTypes
<1>5. \A i \in w.alive : w.size[i] <= CapPools
  BY <1>2, SizesAre
<1>6. ASSUME NEW root, Roots(root, w.parent), NEW i \in w.alive
      PROVE  w.size[i] = Cardinality(ClusterOf(root, i))
  <2>1. \A j \in Pools : root[j] = j
    BY <1>2, <1>3, <1>6, RootsAlive
  <2>2. ClusterOf(root, i) = {i}
    BY <1>2, <2>1 DEF ClusterOf
  <2>3. Cardinality({i}) = 1
    BY FS_Singleton
  <2> QED BY <1>2, <2>2, <2>3
<1>7. WardInv(w)
  BY <1>4, <1>5, <1>6 DEF WardInv
<1> QED BY <1>1, <1>7

Worlds ==
  [sum : [Pools -> Int], size : [Pools -> Nat], alive : SUBSET Pools, parent : [Pools -> Pools]]

LEMMA RoundsExist ==
  ASSUME NEW sums \in [Pools -> Int]
  PROVE  \E f : Rounds(f, sums)
<1> DEFINE S == {w \in Worlds : WardInv(w)}
           Turn(w) == IF MergesLeft(w) = 0 THEN w ELSE WardRound(w)
<1>1. PICK start : start = StartOf(sums)
  OBVIOUS
<1>2. start \in S
  <2>1. start \in Worlds
    BY <1>1 DEF StartOf, Worlds
  <2> QED BY <1>1, <2>1, WardStart
<1>3. ASSUME NEW w \in S PROVE Turn(w) \in S
  <2>1. WardInv(WardRound(w))
    BY RoundSizes
  <2>2. PICK v : v = WardRound(w)
    OBVIOUS
  <2>3. /\ v.sum \in [Pools -> Int] /\ v.size \in [Pools -> Nat] /\ v.alive \subseteq Pools
        /\ v.parent \in [Pools -> Pools]
    BY <2>1, <2>2 DEF WardInv, WardTypes, Forest
  <2>4. v = [sum |-> v.sum, size |-> v.size, alive |-> v.alive, parent |-> v.parent]
    BY <2>2, RoundIs
  <2>5. v \in Worlds
    BY <2>3, <2>4 DEF Worlds
  <2> QED BY <2>1, <2>2, <2>5
<1> HIDE DEF S
<1>4. PICK step : step = [p \in Nat \X S |-> Turn(p[2])]
  OBVIOUS
<1>5. step \in [Nat \X S -> S]
  BY <1>3, <1>4
<1>6. PICK m \in Nat : m = Cardinality(Pools)
  BY PoolsAre
<1>7. PICK f : Steps(f, start, step, m) /\ f \in [0 .. m -> S]
  BY <1>2, <1>5, Recursion
<1>8. ASSUME NEW n \in 0 .. m
      PROVE  f[n] = IF n = 0 THEN start ELSE Turn(f[n - 1])
  <2>1. f[n] = IF n = 0 THEN start ELSE step[<<n, f[n - 1]>>]
    BY <1>7 DEF Steps
  <2>2. CASE n # 0
    <3>1. n \in Nat /\ f[n - 1] \in S
      BY <1>7, <2>2
    <3>2. PICK x \in S : x = f[n - 1]
      BY <3>1
    <3>3. step[<<n, x>>] = Turn(x)
      BY <1>4, <3>1
    <3> QED BY <2>1, <2>2, <3>2, <3>3
  <2> QED BY <2>1, <2>2
<1>9. f = [n \in 0 .. m |-> f[n]]
  BY <1>7
<1>10. f = [n \in 0 .. m |-> IF n = 0 THEN start ELSE Turn(f[n - 1])]
  <2> HIDE DEF Turn
  <2> QED BY <1>8, <1>9
<1> QED BY <1>1, <1>6, <1>10, Zenon DEF Rounds

\* The clusters the labels are taken from.
LEMMA WardEnds ==
  ASSUME NEW sums \in [Pools -> Int]
  PROVE  \E w, root : /\ WardInv(w) /\ Roots(root, w.parent) /\ Ward(sums) = Labels(w, root)
                      /\ RoomToMerge => MergesLeft(w) = 0
<1> DEFINE F == CHOOSE f : Rounds(f, sums)
<1>1. PICK f : f = F /\ Rounds(f, sums)
  BY RoundsExist
<1>2. PICK m \in Nat : m = Cardinality(Pools)
  BY PoolsAre
<1>3. /\ f = [n \in 0 .. m |-> f[n]]
      /\ f[0] = StartOf(sums)
      /\ \A n \in 0 .. m : n # 0 =>
           f[n] = IF MergesLeft(f[n - 1]) = 0 THEN f[n - 1] ELSE WardRound(f[n - 1])
  <2>1. 0 \in 0 .. m
    OBVIOUS
  <2> QED BY <1>1, <1>2, <2>1 DEF Rounds
<1> DEFINE Far(n) == RoomToMerge => \/ MergesLeft(f[n]) = 0
                                    \/ Cardinality(f[n].alive) <= m - n
           T == {n \in Nat : n <= m => WardInv(f[n]) /\ Far(n)}
<1>4. 0 \in T
  <2>1. WardInv(f[0])
    BY <1>3, WardStart
  <2>2. Cardinality(f[0].alive) <= m - 0
    BY <1>2, <1>3 DEF StartOf
  <2> QED BY <2>1, <2>2
<1>5. ASSUME NEW n \in Nat, n \in T PROVE n + 1 \in T
  <2> SUFFICES ASSUME n + 1 <= m PROVE WardInv(f[n + 1]) /\ Far(n + 1)
    OBVIOUS
  <2>1. PICK w : w = f[n]
    OBVIOUS
  <2>2. WardInv(w) /\ (RoomToMerge => MergesLeft(w) = 0 \/ Cardinality(w.alive) <= m - n)
    BY <1>5, <2>1
  <2>3. f[n + 1] = IF MergesLeft(w) = 0 THEN w ELSE WardRound(w)
    <3>1. n + 1 \in 0 .. m /\ n + 1 # 0 /\ (n + 1) - 1 = n
      OBVIOUS
    <3> QED BY <1>3, <2>1, <3>1
  <2>4. CASE MergesLeft(w) = 0
    BY <2>2, <2>3, <2>4
  <2>5. CASE MergesLeft(w) # 0
    <3>1. f[n + 1] = WardRound(w) /\ WardInv(WardRound(w))
      BY <2>2, <2>3, <2>5, RoundSizes
    <3>2. ASSUME RoomToMerge PROVE Cardinality(WardRound(w).alive) <= m - (n + 1)
      <4>1. PICK a \in Nat, b \in Nat :
              a = Cardinality(w.alive) /\ b = Cardinality(WardRound(w).alive) /\ b < a
        BY <2>2, <2>5, <3>2, RoundShrinks
      <4> QED BY <2>2, <2>5, <3>2, <4>1
    <3> QED BY <3>1, <3>2
  <2> QED BY <2>4, <2>5
<1>6. m \in T
  <2> HIDE DEF T
  <2> QED BY <1>4, <1>5, Induction
<1>7. PICK w : w = f[m] /\ WardInv(w)
  BY <1>6
<1>8. PICK root : root = (CHOOSE r : Roots(r, w.parent)) /\ Roots(root, w.parent)
  BY <1>7, RootsExist DEF WardInv, WardTypes
<1>9. ASSUME RoomToMerge PROVE MergesLeft(w) = 0
  <2>1. MergesLeft(w) = 0 \/ Cardinality(w.alive) <= 0
    BY <1>6, <1>7, <1>9
  <2>2. CASE Cardinality(w.alive) <= 0
    <3>1. Cardinality(w.alive) \in Nat
      <4>1. w.alive \subseteq Pools /\ IsFiniteSet(Pools)
        BY <1>7, PoolsAre DEF WardInv, WardTypes, Forest
      <4> QED BY <4>1, FS_Subset, FS_CardinalityType
    <3> QED BY <2>2, <3>1, SizesAre DEF MergesLeft, Larger
  <2> QED BY <2>1, <2>2
<1>10. Ward(sums) = Labels(w, root)
  BY <1>1, <1>2, <1>7, <1>8, WardIs
<1> QED BY <1>7, <1>8, <1>9, <1>10

\* Two clusters have different labels.
LEMMA LabelsApart ==
  ASSUME NEW w, WardInv(w), NEW a \in w.alive, NEW b \in w.alive,
         Cardinality({j \in w.alive : j < a}) = Cardinality({j \in w.alive : j < b})
  PROVE  a = b
<1> DEFINE less == {p \in w.alive \X w.alive : p[1] < p[2]}
<1>1. w.alive \subseteq Pools
  BY DEF WardInv, WardTypes, Forest
<1>2. IsFiniteSet(Pools) /\ Pools \subseteq Nat
  <2>1. Pools \subseteq Nat
    BY PoolsAre
  <2> QED BY <2>1, PoolsAre
<1>3. IsFiniteSet(w.alive) /\ w.alive \subseteq Nat
  BY <1>1, <1>2, FS_Subset
<1>4. PICK A : A = w.alive
  OBVIOUS
<1>5. Ordered(A, less)
  BY <1>3, <1>4 DEF Ordered
<1>6. \A x \in A : Earlier(A, less, x) = {j \in A : j < x}
  BY <1>4 DEF Earlier
<1> HIDE DEF less
<1>7. Ranked(ByRank(A, less), A, less)
  BY <1>3, <1>4, <1>5, ByRankIs
<1>8. Cardinality(Earlier(A, less, a)) = Cardinality(Earlier(A, less, b))
  BY <1>4, <1>6
<1>9. \A x \in A : ByRank(A, less)[Cardinality(Earlier(A, less, x)) + 1] = x
  BY <1>7 DEF Ranked
<1> QED BY <1>4, <1>8, <1>9

\* ward_labels reaches the bucket count, so that every pool gets one of the block's
\* rows and the failure of core.py:173 does not happen: whatever the keys, as
\* long as more buckets than rows, all half full, would be more than the block.
THEOREM WardReaches ==
  ASSUME NEW sums \in [Pools -> Int], RoomToMerge
  PROVE  Ward(sums) \in [Pools -> 0 .. Buckets - 1]
<1>1. PICK w, root : /\ WardInv(w) /\ Roots(root, w.parent) /\ Ward(sums) = Labels(w, root)
                     /\ MergesLeft(w) = 0
  BY WardEnds
<1>2. w.alive \subseteq Pools /\ IsFiniteSet(Pools) /\ root \in [Pools -> w.alive]
  BY <1>1, PoolsAre, RootsAlive DEF WardInv, WardTypes, Forest
<1>3. IsFiniteSet(w.alive)
  BY <1>2, FS_Subset
<1>4. PICK m \in Nat, b \in Nat \ {0} : m = Cardinality(w.alive) /\ b = Buckets /\ m <= b
  <2>1. PICK m \in Nat, b \in Nat \ {0} : m = Cardinality(w.alive) /\ b = Buckets
    BY <1>3, SizesAre, FS_CardinalityType
  <2>2. MergesLeft(w) = IF m - b >= 0 THEN m - b ELSE 0
    BY <2>1 DEF MergesLeft, Larger
  <2>3. m <= b
    BY <1>1, <2>1, <2>2
  <2> QED BY <2>1, <2>3
<1>5. ASSUME NEW i \in Pools
      PROVE  Cardinality({j \in w.alive : j < root[i]}) \in 0 .. Buckets - 1
  <2>1. PICK x \in w.alive : x = root[i]
    BY <1>2
  <2>2. PICK V : V = {j \in w.alive : j < x}
    OBVIOUS
  <2>3. x \in Nat
    <3>1. Pools \subseteq Nat
      BY PoolsAre
    <3> QED BY <1>2, <3>1
  <2>4. V \subseteq w.alive /\ V # w.alive
    BY <2>2, <2>3
  <2>5. IsFiniteSet(V) /\ Cardinality(V) <= m /\ (m = Cardinality(V) => w.alive = V)
    BY <1>3, <1>4, <2>4, FS_Subset
  <2>6. PICK v \in Nat : v = Cardinality(V)
    BY <2>5, FS_CardinalityType
  <2>7. v < m
    BY <2>4, <2>5, <2>6
  <2> QED BY <1>4, <2>1, <2>2, <2>6, <2>7
<1> QED BY <1>1, <1>5 DEF Labels

\* Whatever the keys, a bucket's keys fit its row: bucket_tables never writes the
\* next bucket's members (core.py:205).
THEOREM RowsFit ==
  ASSUME NEW keys \in [0 .. Block - 1 -> Int], NEW b \in 0 .. Buckets - 1
  PROVE  Len(BucketTables(keys)[b]) <= BucketCap
<1>0. PICK sums : sums = PoolSums(keys) /\ sums \in [Pools -> Int]
  BY PoolSumsAre
<1>1. PICK w, root : WardInv(w) /\ Roots(root, w.parent) /\ Ward(sums) = Labels(w, root)
  BY <1>0, WardEnds
<1>2. /\ w.alive \subseteq Pools /\ root \in [Pools -> w.alive] /\ w.size \in [Pools -> Nat]
      /\ \A i \in w.alive : w.size[i] <= CapPools /\ w.size[i] = Cardinality(ClusterOf(root, i))
  BY <1>1, RootsAlive DEF WardInv, WardTypes, Forest
<1>3. PICK label : label = Ward(sums)
  OBVIOUS
<1>4. PICK S : S = {p \in 0 .. Block - 1 : label[p \div PoolSize] = b}
  OBVIOUS
<1>5. PICK size \in Nat \ {0}, cap \in Nat \ {0} :
        size = PoolSize /\ cap = CapPools /\ BucketCap = cap * size
  BY SizesAre
<1>6. PICK n \in Nat \ {0} : /\ Pools = 0 .. n - 1 /\ Block = n * size
                             /\ \A p \in 0 .. Block - 1 : p \div size \in Pools
  BY <1>5, PoolsAre
<1>7. PICK V : V = {i \in Pools : label[i] = b}
  OBVIOUS
<1>8. IsFiniteSet(V) /\ Cardinality(V) \in Nat /\ Cardinality(V) <= cap
  <2>1. V \subseteq Pools /\ IsFiniteSet(Pools)
    BY <1>7, PoolsAre
  <2>2. IsFiniteSet(V) /\ Cardinality(V) \in Nat
    BY <2>1, FS_Subset, FS_CardinalityType
  <2>3. CASE V = {}
    <3>1. Cardinality(V) = 0
      BY <2>3, FS_EmptySet
    <3> QED BY <1>5, <2>2, <3>1
  <2>4. CASE V # {}
    <3>1. PICK i \in Pools : label[i] = b
      BY <1>7, <2>4
    <3>2. PICK x \in w.alive : x = root[i]
      BY <1>2
    <3>3. ASSUME NEW j \in V PROVE j \in ClusterOf(root, x)
      <4>1. j \in Pools /\ label[j] = label[i] /\ root[j] \in w.alive
        BY <1>2, <1>7, <3>1
      <4>2. Cardinality({k \in w.alive : k < root[j]}) = Cardinality({k \in w.alive : k < x})
        BY <1>1, <1>3, <3>2, <4>1 DEF Labels
      <4>3. root[j] = x
        BY <1>1, <4>1, <4>2, LabelsApart
      <4> QED BY <4>1, <4>3 DEF ClusterOf
    <3>4. V \subseteq ClusterOf(root, x) /\ IsFiniteSet(ClusterOf(root, x))
      BY <3>3, ClusterFinite
    <3>5. Cardinality(V) <= Cardinality(ClusterOf(root, x))
      BY <3>4, FS_Subset
    <3>6. Cardinality(ClusterOf(root, x)) <= cap /\ Cardinality(ClusterOf(root, x)) \in Nat
      BY <1>2, <1>5, ClusterFinite
    <3> QED BY <2>2, <3>5, <3>6
  <2> QED BY <2>3, <2>4
<1>9. PICK R : R = 0 .. size - 1
  OBVIOUS
<1>10. IsFiniteSet(R) /\ Cardinality(R) = size
  <2>1. 0 \in Int /\ size - 1 \in Int
    OBVIOUS
  <2>2. IsFiniteSet(R) /\ Cardinality(R) = IF 0 > size - 1 THEN 0 ELSE (size - 1) - 0 + 1
    BY <1>9, <2>1, FS_Interval
  <2> QED BY <2>2
<1>11. IsFiniteSet(V \X R) /\ Cardinality(V \X R) = Cardinality(V) * size
  BY <1>8, <1>10, FS_Product
<1>12. PICK f : f = [p \in S |-> <<p \div size, p % size>>]
  OBVIOUS
<1>13. ASSUME NEW p \in S
       PROVE  /\ p \in Nat /\ p \div size \in V /\ p % size \in R
              /\ p = size * (p \div size) + (p % size)
  <2>1. p \in 0 .. Block - 1 /\ label[p \div size] = b
    BY <1>4, <1>5
  <2>2. p \in Nat
    BY <2>1
  <2>3. p % size \in R /\ p = size * (p \div size) + (p % size)
    BY <1>9, <2>2, Z3
  <2>4. p \div size \in V
    BY <1>6, <1>7, <2>1
  <2> QED BY <2>2, <2>3, <2>4
<1>14. f \in Injection(S, V \X R)
  <2>1. f \in [S -> V \X R]
    BY <1>12, <1>13
  <2>2. ASSUME NEW p \in S, NEW q \in S, f[p] = f[q] PROVE p = q
    <3>1. p \div size = q \div size /\ p % size = q % size
      BY <1>12, <2>2
    <3> QED BY <1>13, <3>1
  <2> QED BY <2>1, <2>2 DEF Injection, IsInjective
<1>15. IsFiniteSet(S) /\ Cardinality(S) \in Nat /\ Cardinality(S) <= Cardinality(V) * size
  <2>1. IsFiniteSet(S) /\ Cardinality(S) <= Cardinality(V \X R)
    BY <1>11, <1>14, FS_Injection
  <2> QED BY <1>11, <2>1, FS_CardinalityType
<1>16. Cardinality(S) <= BucketCap
  <2>1. PICK v \in Nat, d \in Nat : v = Cardinality(V) /\ cap = v + d
    <3>1. cap - Cardinality(V) \in Nat /\ cap = Cardinality(V) + (cap - Cardinality(V))
      BY <1>8
    <3> QED BY <1>8, <3>1
  <2>2. (v + d) * size = v * size + d * size /\ d * size \in Nat /\ v * size \in Nat
    BY Z3
  <2>3. PICK x \in Nat, y \in Nat : x = v * size /\ y = d * size /\ BucketCap = x + y
    BY <1>5, <2>1, <2>2
  <2>4. Cardinality(S) \in Nat /\ Cardinality(S) <= x
    BY <1>15, <2>1, <2>3
  <2> QED BY <2>3, <2>4
<1>17. S \subseteq Nat
  BY <1>13
<1>18. BucketTables(keys)[b] = Ascending(S)
  BY <1>0, <1>3, <1>4 DEF BucketTables
<1>19. Ascending(S) \in [1 .. Cardinality(S) -> S]
  BY <1>15, <1>17, AscendingIs
<1>20. Len(Ascending(S)) = Cardinality(S)
  BY <1>15, <1>19
<1> QED BY <1>16, <1>18, <1>20

-----------------------------------------------------------------------------
(* The radix select.                                                       *)

LEMMA PowerIs ==
  /\ Power \in [0 .. Digits -> Nat \ {0}] /\ Power[0] = 1
  /\ \A n \in 1 .. Digits : Power[n] = Radix * Power[n - 1]
<1>1. PICK m \in Nat, r \in Nat \ {0} : m = Digits /\ r = Radix
  BY SelectOK
<1> DEFINE S == Nat \ {0}
           Powers(f) == f = [n \in 0 .. m |-> IF n = 0 THEN 1 ELSE Radix * f[n - 1]]
<1>2. PICK step : step = [p \in Nat \X S |-> r * p[2]]
  OBVIOUS
<1>3. step \in [Nat \X S -> S]
  <2>1. ASSUME NEW x \in S PROVE r * x \in S
    BY Z3
  <2> QED BY <1>2, <2>1
<1>4. PICK f : Steps(f, 1, step, m) /\ f \in [0 .. m -> S]
  <2>1. 1 \in S
    OBVIOUS
  <2> HIDE DEF S
  <2> QED BY <1>3, <2>1, Recursion
<1>5. ASSUME NEW g, Steps(g, 1, step, m), NEW n \in 1 .. m, g[n - 1] \in S
      PROVE  g[n] = r * g[n - 1]
  <2>1. n \in 0 .. m /\ n # 0 /\ n \in Nat
    OBVIOUS
  <2>2. g[n] = step[<<n, g[n - 1]>>]
    BY <1>5, <2>1 DEF Steps
  <2> QED BY <1>2, <1>5, <2>1, <2>2
<1>6. Powers(f)
  <2>1. ASSUME NEW n \in 0 .. m PROVE f[n] = IF n = 0 THEN 1 ELSE Radix * f[n - 1]
    <3>1. CASE n = 0
      BY <1>4, <3>1 DEF Steps
    <3>2. CASE n # 0
      <4>1. n \in 1 .. m /\ f[n - 1] \in S
        BY <1>4, <3>2
      <4> QED BY <1>1, <1>4, <1>5, <3>2, <4>1
    <3> QED BY <3>1, <3>2
  <2>2. f = [n \in 0 .. m |-> f[n]]
    BY <1>4
  <2> QED BY <2>1, <2>2
<1>7. Power = CHOOSE g : Powers(g)
  BY <1>1, Zenon DEF Power
<1>8. Powers(Power)
  <2> HIDE DEF Powers
  <2> QED BY <1>6, <1>7
<1>9. /\ Power = [n \in 0 .. m |-> Power[n]] /\ Power[0] = 1
      /\ \A n \in 1 .. m : Power[n] = r * Power[n - 1]
  <2>1. PICK g : g = Power /\ g = [n \in 0 .. m |-> IF n = 0 THEN 1 ELSE Radix * g[n - 1]]
    BY <1>8
  <2>2. 0 \in 0 .. m /\ \A n \in 1 .. m : n \in 0 .. m /\ n # 0
    OBVIOUS
  <2> QED BY <1>1, <2>1, <2>2
<1> DEFINE T == {n \in Nat : n <= m => Power[n] \in S}
<1>10. 0 \in T
  BY <1>9
<1>11. ASSUME NEW n \in Nat, n \in T PROVE n + 1 \in T
  <2> SUFFICES ASSUME n + 1 <= m PROVE Power[n + 1] \in S
    OBVIOUS
  <2>1. n + 1 \in 1 .. m /\ (n + 1) - 1 = n
    OBVIOUS
  <2>2. PICK x \in S : x = Power[n]
    BY <1>11
  <2>3. Power[n + 1] = r * x
    BY <1>9, <2>1, <2>2
  <2>4. r * x \in S
    BY Z3
  <2> QED BY <2>3, <2>4
<1>12. \A n \in 0 .. m : Power[n] \in S
  <2>1. Nat \subseteq T
    <3> HIDE DEF T
    <3> QED BY <1>10, <1>11, Induction
  <2> QED BY <2>1
<1> QED BY <1>1, <1>9, <1>12

\* A row of vis scores.
IsRow(score, vis) == vis \in Nat /\ \A c \in 0 .. vis - 1 : score[c] \in 0 .. Power[Digits] - 1

LEMMA ColumnsFinite ==
  ASSUME NEW vis \in Nat, NEW S, S \subseteq 0 .. vis - 1
  PROVE  IsFiniteSet(S) /\ Cardinality(S) \in Nat
<1>1. 0 \in Int /\ vis - 1 \in Int
  OBVIOUS
<1>2. PICK C : C = 0 .. vis - 1 /\ IsFiniteSet(C)
  BY <1>1, FS_Interval
<1> QED BY <1>2, FS_Subset, FS_CardinalityType

LEMMA SmallerSet ==
  ASSUME NEW vis \in Nat, NEW S, S \subseteq 0 .. vis - 1, NEW V, V \subseteq S
  PROVE  /\ Cardinality(V) \in Nat /\ Cardinality(S) \in Nat /\ Cardinality(V) <= Cardinality(S)
         /\ V # S => Cardinality(V) < Cardinality(S)
<1>1. IsFiniteSet(S) /\ Cardinality(S) \in Nat /\ Cardinality(V) \in Nat
  BY ColumnsFinite
<1>2. Cardinality(V) <= Cardinality(S) /\ (Cardinality(S) = Cardinality(V) => S = V)
  BY <1>1, FS_Subset
<1> QED BY <1>1, <1>2

\* U is made of two sets of columns that share none.
Splits(U, S, V, vis) ==
  S \subseteq 0 .. vis - 1 /\ V \subseteq 0 .. vis - 1 /\ S \cap V = {} /\ U = S \cup V

LEMMA TwoSets ==
  ASSUME NEW vis \in Nat, NEW U, NEW S, NEW V, Splits(U, S, V, vis)
  PROVE  /\ Cardinality(S) \in Nat /\ Cardinality(V) \in Nat
         /\ Cardinality(U) = Cardinality(S) + Cardinality(V)
<1>1. S \subseteq 0 .. vis - 1 /\ V \subseteq 0 .. vis - 1 /\ S \cap V = {} /\ U = S \cup V
  BY DEF Splits
<1>2. IsFiniteSet(S) /\ Cardinality(S) \in Nat /\ IsFiniteSet(V) /\ Cardinality(V) \in Nat
  BY <1>1, ColumnsFinite
<1> QED BY <1>1, <1>2, DisjointSum

\* The parts of RadixPass.
Matching(score, vis, pass, prefix) ==
  {c \in 0 .. vis - 1 : score[c] \div (Shift(pass) * Radix) = prefix}
DigitOf(score, pass, c) == (score[c] \div Shift(pass)) % Radix
Hist(score, vis, pass, prefix, d) ==
  Cardinality({c \in Matching(score, vis, pass, prefix) : DigitOf(score, pass, c) = d})
Above(score, vis, pass, prefix, d) ==
  Cardinality({c \in Matching(score, vis, pass, prefix) : DigitOf(score, pass, c) > d})
Fits(score, vis, pass, before) ==
  {d \in 0 .. Radix - 1 :
     /\ Above(score, vis, pass, before.prefix, d) < before.rem
     /\ Above(score, vis, pass, before.prefix, d) + Hist(score, vis, pass, before.prefix, d)
          >= before.rem}
DigitFor(fits) == IF fits = {} THEN 0 ELSE Max(fits)

LEMMA PassIs ==
  ASSUME NEW score, NEW vis, NEW pass, NEW before
  PROVE  LET fits == Fits(score, vis, pass, before)
             digit == DigitFor(fits)
         IN RadixPass(score, vis, pass, before) =
              [prefix |-> before.prefix * Radix + digit,
               rem |-> before.rem - (IF fits = {} THEN 0
                                     ELSE Above(score, vis, pass, before.prefix, digit))]
BY Zenon DEF RadixPass, Fits, DigitFor, Hist, Above, DigitOf, Matching

LEMMA MostOf ==
  ASSUME NEW r \in Nat, NEW S, S \subseteq 0 .. r, S # {}
  PROVE  \E d \in S : \A f \in S : d >= f
<1> DEFINE D == {r - d : d \in S}
<1>1. D \subseteq Nat
  <2> SUFFICES ASSUME NEW d \in S PROVE r - d \in Nat
    OBVIOUS
  <2> QED OBVIOUS
<1>2. D # {}
  OBVIOUS
<1>3. PICK e \in D : \A f \in D : e <= f
  <2> HIDE DEF D
  <2> QED BY <1>1, <1>2, LeastNat
<1>4. PICK d \in S : e = r - d
  BY <1>3
<1>5. ASSUME NEW f \in S PROVE d >= f
  <2>1. e <= r - f
    BY <1>3
  <2> QED BY <1>4, <2>1
<1> QED BY <1>5

LEMMA DigitIs ==
  ASSUME NEW fits, fits \subseteq 0 .. Radix - 1
  PROVE  DigitFor(fits) \in 0 .. Radix - 1 /\ (fits # {} => DigitFor(fits) \in fits)
<1>1. PICK r \in Nat : r = Radix - 1
  BY SelectOK
<1>2. CASE fits = {}
  BY <1>1, <1>2 DEF DigitFor
<1>3. CASE fits # {}
  <2>1. fits \subseteq 0 .. r
    BY <1>1
  <2>2. \E d \in fits : \A f \in fits : d >= f
    BY <1>3, <2>1, MostOf
  <2>3. Max(fits) \in fits
    BY <2>2 DEF Max
  <2> QED BY <1>3, <2>3 DEF DigitFor
<1> QED BY <1>2, <1>3

\* Division by a product is division twice.
LEMMA DivTwice ==
  ASSUME NEW x \in Nat, NEW s \in Nat \ {0}, NEW r \in Nat \ {0}
  PROVE  /\ x \div s \in Nat /\ (x \div s) \div r \in Nat /\ (x \div s) % r \in 0 .. r - 1
         /\ x \div s = ((x \div s) \div r) * r + ((x \div s) % r)
         /\ x \div (s * r) = (x \div s) \div r
<1>1. PICK q \in Nat, e \in 0 .. s - 1 : q = x \div s /\ x = s * q + e
  <2>1. x \div s \in Nat /\ x % s \in 0 .. s - 1 /\ x = s * (x \div s) + (x % s)
    BY SMT
  <2> QED BY <2>1
<1>2. PICK a \in Nat, b \in 0 .. r - 1 : a = q \div r /\ b = q % r /\ q = r * a + b
  <2>1. q \div r \in Nat /\ q % r \in 0 .. r - 1 /\ q = r * (q \div r) + (q % r)
    BY SMT
  <2> QED BY <2>1
<1>3. PICK m \in Nat \ {0} : m = s * r
  BY Z3
<1>4. s * q = m * a + s * b
  <2>1. s * (r * a + b) = (s * r) * a + s * b
    BY Z3
  <2> QED BY <1>2, <1>3, <2>1
<1>5. s * b + e \in 0 .. m - 1
  <2>1. s * b <= s * (r - 1) /\ s * b \in Nat
    BY Z3
  <2>2. s * (r - 1) = m - s
    BY <1>3, Z3
  <2>3. s * (r - 1) \in Int
    BY Z3
  <2> QED BY <2>1, <2>2, <2>3
<1>6. PICK f \in 0 .. m - 1 : f = s * b + e
  BY <1>5
<1>7. x = m * a + f
  <2>1. m * a \in Nat /\ s * b \in Nat /\ s * q \in Nat
    BY Z3
  <2> QED BY <1>1, <1>4, <1>6, <2>1
<1>8. x \div m = a
  BY <1>7, SMT
<1>9. r * a = a * r
  BY Z3
<1> QED BY <1>1, <1>2, <1>3, <1>8, <1>9

\* Numbers of two digits compare by the higher one first.
LEMMA DigitsCompare ==
  ASSUME NEW r \in Nat \ {0}, NEW a \in Nat, NEW b \in 0 .. r - 1, NEW p \in Nat,
         NEW d \in 0 .. r - 1
  PROVE  /\ a * r + b > p * r + d <=> (a > p \/ (a = p /\ b > d))
         /\ a * r + b = p * r + d <=> (a = p /\ b = d)
         /\ p * r + d \in Nat
<1>1. PICK u \in Nat, v \in Nat : u = a * r /\ v = p * r
  BY Z3
<1>2. a > p => u >= v + r
  <2> SUFFICES ASSUME a > p PROVE u >= v + r
    OBVIOUS
  <2>1. PICK k \in Nat : a = p + 1 + k
    <3>1. a - p - 1 \in Nat /\ a = p + 1 + (a - p - 1)
      OBVIOUS
    <3> QED BY <3>1
  <2>2. (p + 1 + k) * r = p * r + r + k * r /\ k * r \in Nat
    BY Z3
  <2> QED BY <1>1, <2>1, <2>2
<1>3. a < p => v >= u + r
  <2> SUFFICES ASSUME a < p PROVE v >= u + r
    OBVIOUS
  <2>1. PICK k \in Nat : p = a + 1 + k
    <3>1. p - a - 1 \in Nat /\ p = a + 1 + (p - a - 1)
      OBVIOUS
    <3> QED BY <3>1
  <2>2. (a + 1 + k) * r = a * r + r + k * r /\ k * r \in Nat
    BY Z3
  <2> QED BY <1>1, <2>1, <2>2
<1>4. a = p => u = v
  BY <1>1
<1>5. /\ u + b > v + d <=> (a > p \/ (a = p /\ b > d))
      /\ u + b = v + d <=> (a = p /\ b = d)
      /\ v + d \in Nat
  BY <1>2, <1>3, <1>4
<1> QED BY <1>1, <1>5

\* The number the first n digits of a score are, and the columns where it is
\* above p, or p.
Part(score, n, c) == score[c] \div Power[Digits - n]
Higher(score, vis, n, p) == {c \in 0 .. vis - 1 : Part(score, n, c) > p}
Same(score, vis, n, p) == {c \in 0 .. vis - 1 : Part(score, n, c) = p}

LEMMA PartIs ==
  ASSUME NEW score, NEW vis, IsRow(score, vis), NEW n \in 0 .. Digits - 1, NEW c \in 0 .. vis - 1
  PROVE  /\ Part(score, n, c) \in Nat /\ DigitOf(score, n, c) \in 0 .. Radix - 1
         /\ Part(score, n + 1, c) = Part(score, n, c) * Radix + DigitOf(score, n, c)
         /\ score[c] \div (Shift(n) * Radix) = Part(score, n, c)
<1>1. PICK m \in Nat, r \in Nat \ {0} : m = Digits /\ r = Radix
  BY SelectOK
<1>2. PICK s \in Nat \ {0} : s = Power[m - 1 - n]
  BY <1>1, PowerIs
<1>3. Power[m - n] = r * s
  <2>1. m - n \in 1 .. m /\ (m - n) - 1 = m - 1 - n
    BY <1>1
  <2> QED BY <1>1, <1>2, <2>1, PowerIs
<1>4. r * s = s * r
  BY Z3
<1>5. PICK x \in Nat : x = score[c]
  <2>1. score[c] \in 0 .. Power[Digits] - 1
    BY DEF IsRow
  <2>2. Power[Digits] \in Nat
    BY <1>1, PowerIs
  <2> QED BY <2>1, <2>2
<1>6. Shift(n) = s
  BY <1>1, <1>2 DEF Shift
<1>7. Part(score, n, c) = x \div (s * r)
  BY <1>1, <1>3, <1>4, <1>5 DEF Part
<1>8. Part(score, n + 1, c) = x \div s
  <2>1. m - (n + 1) = m - 1 - n
    BY <1>1
  <2> QED BY <1>1, <1>2, <1>5, <2>1 DEF Part
<1>9. DigitOf(score, n, c) = (x \div s) % r
  BY <1>1, <1>5, <1>6 DEF DigitOf
<1>10. /\ x \div s \in Nat /\ (x \div s) \div r \in Nat /\ (x \div s) % r \in 0 .. r - 1
       /\ x \div s = ((x \div s) \div r) * r + ((x \div s) % r)
       /\ x \div (s * r) = (x \div s) \div r
  BY DivTwice
<1> QED BY <1>1, <1>5, <1>6, <1>7, <1>8, <1>9, <1>10

\* The state of the passes after n of them: prefix is the first n digits of the
\* TopP-th best score, and rem of the columns that share them are among the best.
Narrows(score, vis, n, w) ==
  /\ w.prefix \in Nat /\ w.rem \in 1 .. TopP
  /\ Cardinality(Higher(score, vis, n, w.prefix)) = TopP - w.rem
  /\ Cardinality(Same(score, vis, n, w.prefix)) >= w.rem

\* Some digit holds the rem-th of the columns.
LEMMA SomeFits ==
  ASSUME NEW score, NEW vis, IsRow(score, vis), NEW n \in 0 .. Digits - 1, NEW w,
         Narrows(score, vis, n, w)
  PROVE  Fits(score, vis, n, w) # {}
<1>1. PICK r \in Nat \ {0}, p \in Nat, m \in Nat \ {0} : r = Radix /\ p = w.prefix /\ m = w.rem
  BY SelectOK DEF Narrows
<1>2. vis \in Nat
  BY DEF IsRow
<1>3. PICK M : M = Matching(score, vis, n, p) /\ M \subseteq 0 .. vis - 1
  BY DEF Matching
<1>4. M = Same(score, vis, n, p)
  BY <1>3, PartIs DEF Matching, Same
<1>5. Cardinality(M) \in Nat /\ Cardinality(M) >= m
  BY <1>1, <1>2, <1>3, <1>4, ColumnsFinite DEF Narrows
<1>6. \A c \in M : DigitOf(score, n, c) \in 0 .. r - 1
  BY <1>1, <1>3, PartIs
<1> DEFINE From(d) == {c \in M : DigitOf(score, n, c) >= d}
           G == {d \in 0 .. r - 1 : Cardinality(From(d)) >= m}
<1>7. From(0) = M
  BY <1>6
<1>8. PICK d \in G : \A f \in G : d >= f
  <2>1. 0 \in G
    <3>1. Cardinality(From(0)) >= m
      BY <1>5, <1>7
    <3>2. 0 \in 0 .. r - 1
      OBVIOUS
    <3> HIDE DEF From
    <3> QED BY <3>1, <3>2
  <2>2. G \subseteq 0 .. r - 1 /\ G # {}
    BY <2>1
  <2>3. PICK k \in Nat : k = r - 1
    OBVIOUS
  <2> HIDE DEF G
  <2> QED BY <2>2, <2>3, MostOf
<1>9. PICK A, H : /\ A = {c \in M : DigitOf(score, n, c) > d}
                  /\ H = {c \in M : DigitOf(score, n, c) = d}
  OBVIOUS
<1>10. /\ Cardinality(A) \in Nat /\ Cardinality(H) \in Nat
       /\ Cardinality(From(d)) = Cardinality(A) + Cardinality(H)
  <2>1. A \subseteq 0 .. vis - 1 /\ H \subseteq 0 .. vis - 1
    BY <1>3, <1>9
  <2>2. A \cap H = {} /\ From(d) = A \cup H
    BY <1>6, <1>9
  <2> HIDE DEF From
  <2>3. Splits(From(d), A, H, vis)
    BY <2>1, <2>2 DEF Splits
  <2> QED BY <1>2, <2>3, TwoSets
<1>11. Cardinality(A) < m
  <2>1. CASE d = r - 1
    <3>1. A = {}
      BY <1>6, <1>9, <2>1
    <3> QED BY <3>1, FS_EmptySet
  <2>2. CASE d # r - 1
    <3>1. d + 1 \in 0 .. r - 1 /\ d + 1 \notin G
      BY <1>8, <2>2
    <3>2. From(d + 1) = A
      BY <1>6, <1>9
    <3>3. ~(Cardinality(A) >= m)
      BY <3>1, <3>2
    <3> QED BY <1>10, <3>3
  <2> QED BY <2>1, <2>2
<1>12. Cardinality(A) + Cardinality(H) >= m
  BY <1>8, <1>10
<1>13. A = {c \in Matching(score, vis, n, p) : DigitOf(score, n, c) > d}
       /\ H = {c \in Matching(score, vis, n, p) : DigitOf(score, n, c) = d}
  BY <1>3, <1>9
<1>14. Above(score, vis, n, p, d) = Cardinality(A) /\ Hist(score, vis, n, p, d) = Cardinality(H)
  BY <1>13, Zenon DEF Above, Hist
<1>15. d \in Fits(score, vis, n, w)
  <2>1. d \in 0 .. Radix - 1
    BY <1>1
  <2> QED BY <1>1, <1>11, <1>12, <1>14, <2>1 DEF Fits
<1> QED BY <1>15

\* A pass adds a digit.
LEMMA PassNarrows ==
  ASSUME NEW score, NEW vis, IsRow(score, vis), NEW n \in 0 .. Digits - 1, NEW w,
         Narrows(score, vis, n, w)
  PROVE  Narrows(score, vis, n + 1, RadixPass(score, vis, n, w))
<1>1. PICK r \in Nat \ {0}, p \in Nat, m \in 1 .. TopP :
        r = Radix /\ p = w.prefix /\ m = w.rem
  BY SelectOK DEF Narrows
<1>2. vis \in Nat /\ TopP \in Nat
  BY SelectOK DEF IsRow
<1>3. PICK d \in 0 .. r - 1 : d = DigitFor(Fits(score, vis, n, w)) /\ d \in Fits(score, vis, n, w)
  <2>1. Fits(score, vis, n, w) \subseteq 0 .. Radix - 1
    BY DEF Fits
  <2> QED BY <1>1, <2>1, SomeFits, DigitIs
<1>4. PICK M : M = Matching(score, vis, n, p) /\ M \subseteq 0 .. vis - 1
  BY DEF Matching
<1>5. PICK A, H : /\ A = {c \in M : DigitOf(score, n, c) > d}
                  /\ H = {c \in M : DigitOf(score, n, c) = d}
  OBVIOUS
<1>6. Above(score, vis, n, p, d) = Cardinality(A) /\ Hist(score, vis, n, p, d) = Cardinality(H)
  BY <1>4, <1>5, Zenon DEF Above, Hist
<1>7. A \subseteq 0 .. vis - 1 /\ H \subseteq 0 .. vis - 1
  BY <1>4, <1>5
<1>8. Cardinality(A) \in Nat /\ Cardinality(H) \in Nat
  BY <1>2, <1>7, ColumnsFinite
<1>9. Cardinality(A) < m /\ Cardinality(A) + Cardinality(H) >= m
  BY <1>1, <1>3, <1>6 DEF Fits
<1>10. PICK v : /\ v = RadixPass(score, vis, n, w)
                /\ v.prefix = p * r + d /\ v.rem = m - Cardinality(A)
  <2>1. Fits(score, vis, n, w) # {}
    BY <1>3
  <2>2. RadixPass(score, vis, n, w) =
          [prefix |-> w.prefix * Radix + DigitFor(Fits(score, vis, n, w)),
           rem |-> w.rem - (IF Fits(score, vis, n, w) = {} THEN 0
                            ELSE Above(score, vis, n, w.prefix, DigitFor(Fits(score, vis, n, w))))]
    BY PassIs, Zenon
  <2>3. RadixPass(score, vis, n, w) = [prefix |-> p * r + d, rem |-> m - Cardinality(A)]
    BY <1>1, <1>3, <1>6, <2>1, <2>2, Zenon
  <2> QED BY <2>3
<1>11. PICK a, b : /\ a = [c \in 0 .. vis - 1 |-> Part(score, n, c)]
                   /\ b = [c \in 0 .. vis - 1 |-> DigitOf(score, n, c)]
  OBVIOUS
<1>12. \A c \in 0 .. vis - 1 :
         /\ a[c] = Part(score, n, c) /\ b[c] = DigitOf(score, n, c)
         /\ a[c] \in Nat /\ b[c] \in 0 .. r - 1
         /\ Part(score, n + 1, c) = a[c] * r + b[c]
         /\ score[c] \div (Shift(n) * Radix) = a[c]
  <2> SUFFICES ASSUME NEW c \in 0 .. vis - 1
               PROVE  /\ a[c] = Part(score, n, c) /\ b[c] = DigitOf(score, n, c)
                      /\ a[c] \in Nat /\ b[c] \in 0 .. r - 1
                      /\ Part(score, n + 1, c) = a[c] * r + b[c]
                      /\ score[c] \div (Shift(n) * Radix) = a[c]
    OBVIOUS
  <2>1. a[c] = Part(score, n, c) /\ b[c] = DigitOf(score, n, c)
    BY <1>11
  <2> QED BY <1>1, <2>1, PartIs
<1>13. PICK P \in Nat : P = p * r + d
  BY DigitsCompare
<1>14. \A c \in 0 .. vis - 1 :
         /\ Part(score, n + 1, c) > P <=> (a[c] > p \/ (a[c] = p /\ b[c] > d))
         /\ Part(score, n + 1, c) = P <=> (a[c] = p /\ b[c] = d)
  <2> SUFFICES ASSUME NEW c \in 0 .. vis - 1
               PROVE  /\ Part(score, n + 1, c) > P <=> (a[c] > p \/ (a[c] = p /\ b[c] > d))
                      /\ Part(score, n + 1, c) = P <=> (a[c] = p /\ b[c] = d)
    OBVIOUS
  <2>1. PICK x \in Nat, y \in 0 .. r - 1 : x = a[c] /\ y = b[c]
    BY <1>12
  <2>2. Part(score, n + 1, c) = x * r + y
    BY <1>12, <2>1
  <2>3. /\ x * r + y > p * r + d <=> (x > p \/ (x = p /\ y > d))
        /\ x * r + y = p * r + d <=> (x = p /\ y = d)
    BY DigitsCompare
  <2> QED BY <1>13, <2>1, <2>2, <2>3
<1>15. PICK B : B = Higher(score, vis, n, p) /\ B \subseteq 0 .. vis - 1
  BY DEF Higher
<1>16. Cardinality(B) = TopP - m
  BY <1>1, <1>15 DEF Narrows
<1>17. M = {c \in 0 .. vis - 1 : a[c] = p}
  BY <1>4, <1>12 DEF Matching
<1>18. B = {c \in 0 .. vis - 1 : a[c] > p}
  BY <1>12, <1>15 DEF Higher
<1>19. Higher(score, vis, n + 1, P) = B \cup A
  BY <1>5, <1>12, <1>14, <1>17, <1>18 DEF Higher
<1>20. Same(score, vis, n + 1, P) = H
  BY <1>5, <1>12, <1>14, <1>17 DEF Same
<1>21. B \cap A = {}
  BY <1>5, <1>12, <1>17, <1>18
<1>22. Cardinality(B \cup A) = Cardinality(B) + Cardinality(A)
  <2>1. Splits(B \cup A, B, A, vis)
    BY <1>7, <1>15, <1>21 DEF Splits
  <2> QED BY <1>2, <2>1, TwoSets
<1>23. v.prefix = P /\ v.rem \in 1 .. TopP /\ v.rem <= Cardinality(H)
       /\ Cardinality(B \cup A) = TopP - v.rem
  BY <1>1, <1>2, <1>8, <1>9, <1>10, <1>13, <1>16, <1>22
<1> QED BY <1>8, <1>10, <1>13, <1>19, <1>20, <1>23 DEF Narrows

\* The states of the passes of a row.
Passes(f, score, vis) ==
  f = [n \in 0 .. Digits |-> IF n = 0 THEN [prefix |-> 0, rem |-> TopP]
                             ELSE RadixPass(score, vis, n - 1, f[n - 1])]

LEMMA PassesExist ==
  ASSUME NEW score, NEW vis \in Nat
  PROVE  \E f : Passes(f, score, vis)
<1> DEFINE S == [prefix : Nat, rem : Int]
<1>1. PICK start : start = [prefix |-> 0, rem |-> TopP]
  OBVIOUS
<1>2. start \in S
  BY <1>1, SelectOK
<1>3. ASSUME NEW n, NEW w \in S PROVE RadixPass(score, vis, n, w) \in S
  <2>1. PICK r \in Nat \ {0} : r = Radix
    BY SelectOK
  <2>2. PICK fits : fits = Fits(score, vis, n, w) /\ fits \subseteq 0 .. Radix - 1
    BY DEF Fits
  <2>3. PICK d \in Nat : d = DigitFor(fits)
    <3>1. DigitFor(fits) \in 0 .. r - 1
      BY <2>1, <2>2, DigitIs
    <3> QED BY <3>1
  <2>4. Above(score, vis, n, w.prefix, d) \in Nat
    <3>1. PICK A : /\ A = {c \in Matching(score, vis, n, w.prefix) : DigitOf(score, n, c) > d}
                   /\ A \subseteq 0 .. vis - 1
      BY DEF Matching
    <3>2. Cardinality(A) \in Nat
      BY <3>1, ColumnsFinite
    <3> QED BY <3>1, <3>2 DEF Above
  <2>5. RadixPass(score, vis, n, w) =
          [prefix |-> w.prefix * r + d,
           rem |-> w.rem - (IF fits = {} THEN 0 ELSE Above(score, vis, n, w.prefix, d))]
    BY <2>1, <2>2, <2>3, PassIs, Zenon
  <2>6. PICK p \in Nat, m \in Int : p = w.prefix /\ m = w.rem
    OBVIOUS
  <2>7. p * r \in Nat
    BY Z3
  <2> QED BY <2>3, <2>4, <2>5, <2>6, <2>7
<1> HIDE DEF S
<1>4. PICK step : step = [p \in Nat \X S |-> RadixPass(score, vis, p[1] - 1, p[2])]
  OBVIOUS
<1>5. step \in [Nat \X S -> S]
  BY <1>3, <1>4
<1>6. PICK m \in Nat : m = Digits
  BY SelectOK
<1>7. PICK f : Steps(f, start, step, m) /\ f \in [0 .. m -> S]
  BY <1>2, <1>5, Recursion
<1>8. ASSUME NEW n \in 0 .. m
      PROVE  f[n] = IF n = 0 THEN start ELSE RadixPass(score, vis, n - 1, f[n - 1])
  <2>1. f[n] = IF n = 0 THEN start ELSE step[<<n, f[n - 1]>>]
    BY <1>7 DEF Steps
  <2>2. CASE n # 0
    <3>1. n \in Nat /\ f[n - 1] \in S
      BY <1>7, <2>2
    <3>2. PICK x \in S : x = f[n - 1]
      BY <3>1
    <3>3. step[<<n, x>>] = RadixPass(score, vis, n - 1, x)
      BY <1>4, <3>1
    <3> QED BY <2>1, <2>2, <3>2, <3>3
  <2> QED BY <2>1, <2>2
<1>9. f = [n \in 0 .. m |-> f[n]]
  BY <1>7
<1>10. f = [n \in 0 .. m |-> IF n = 0 THEN start
                             ELSE RadixPass(score, vis, n - 1, f[n - 1])]
  BY <1>8, <1>9
<1> QED BY <1>1, <1>6, <1>10, Zenon DEF Passes

\* What the passes end with: the TopP-th best score and how many of the columns
\* that have it are among the TopP best.
IsCut(score, vis, kth, rem) ==
  /\ kth \in Nat /\ rem \in 1 .. TopP
  /\ Cardinality({c \in 0 .. vis - 1 : score[c] > kth}) = TopP - rem
  /\ Cardinality({c \in 0 .. vis - 1 : score[c] = kth}) >= rem

LEMMA PassesCut ==
  ASSUME NEW score, NEW vis, IsRow(score, vis), vis > TopP, NEW f, Passes(f, score, vis)
  PROVE  IsCut(score, vis, f[Digits].prefix, f[Digits].rem)
<1>1. PICK m \in Nat \ {0}, k \in Nat \ {0} : m = Digits /\ k = TopP
  BY SelectOK
<1>2. vis \in Nat
  BY DEF IsRow
<1>3. /\ f[0] = [prefix |-> 0, rem |-> k]
      /\ \A n \in 0 .. m : n # 0 => f[n] = RadixPass(score, vis, n - 1, f[n - 1])
  <2>1. PICK g : g = f /\ g = [n \in 0 .. m |-> IF n = 0 THEN [prefix |-> 0, rem |-> k]
                                        ELSE RadixPass(score, vis, n - 1, g[n - 1])]
    BY <1>1 DEF Passes
  <2>2. 0 \in 0 .. m
    OBVIOUS
  <2> QED BY <2>1, <2>2
<1>4. PICK M \in Nat \ {0} : M = Power[m]
  BY <1>1, PowerIs
<1>5. ASSUME NEW c \in 0 .. vis - 1
      PROVE  score[c] \in Nat /\ Part(score, 0, c) = 0 /\ Part(score, m, c) = score[c]
  <2>1. PICK x \in 0 .. M - 1 : x = score[c]
    BY <1>1, <1>4 DEF IsRow
  <2>2. x \div M = 0 /\ x \div 1 = x
    BY SMT
  <2>3. Power[m - m] = 1 /\ Power[m - 0] = M
    BY <1>1, <1>4, PowerIs
  <2> QED BY <1>1, <2>1, <2>2, <2>3 DEF Part
<1> DEFINE T == {n \in Nat : n <= m => Narrows(score, vis, n, f[n])}
<1>6. 0 \in T
  <2>1. Higher(score, vis, 0, 0) = {}
    BY <1>5 DEF Higher
  <2>2. PICK C : C = 0 .. vis - 1 /\ Same(score, vis, 0, 0) = C
    BY <1>5 DEF Same
  <2>3. Cardinality(C) = vis
    <3>1. 0 \in Int /\ vis - 1 \in Int
      BY <1>2
    <3> QED BY <1>2, <2>2, <3>1, FS_Interval
  <2>4. Cardinality({}) = 0
    BY FS_EmptySet
  <2>5. PICK w : w = f[0] /\ w.prefix = 0 /\ w.rem = k
    BY <1>3
  <2>6. /\ Cardinality(Higher(score, vis, 0, w.prefix)) = 0
        /\ Cardinality(Same(score, vis, 0, w.prefix)) = vis
    BY <2>1, <2>2, <2>3, <2>4, <2>5
  <2>7. Narrows(score, vis, 0, w)
    BY <1>1, <1>2, <2>5, <2>6 DEF Narrows
  <2> QED BY <2>5, <2>7
<1>7. ASSUME NEW n \in Nat, n \in T PROVE n + 1 \in T
  <2> SUFFICES ASSUME n + 1 <= m PROVE Narrows(score, vis, n + 1, f[n + 1])
    OBVIOUS
  <2>1. PICK w : w = f[n]
    OBVIOUS
  <2>2. Narrows(score, vis, n, w)
    BY <1>7, <2>1
  <2>3. n + 1 \in 0 .. m /\ n + 1 # 0 /\ (n + 1) - 1 = n
    OBVIOUS
  <2>4. f[n + 1] = RadixPass(score, vis, n, w)
    BY <1>3, <2>1, <2>3
  <2>5. n \in 0 .. Digits - 1
    BY <1>1
  <2>6. Narrows(score, vis, n + 1, RadixPass(score, vis, n, w))
    BY <2>2, <2>5, PassNarrows
  <2> QED BY <2>4, <2>6
<1>8. Narrows(score, vis, m, f[m])
  <2>1. Nat \subseteq T
    <3> HIDE DEF T
    <3> QED BY <1>6, <1>7, Induction
  <2> QED BY <2>1
<1>9. PICK p, q : p = f[m].prefix /\ q = f[m].rem
  OBVIOUS
<1>10. /\ Higher(score, vis, m, p) = {c \in 0 .. vis - 1 : score[c] > p}
       /\ Same(score, vis, m, p) = {c \in 0 .. vis - 1 : score[c] = p}
  BY <1>5 DEF Higher, Same
<1>11. IsCut(score, vis, p, q)
  BY <1>8, <1>9, <1>10 DEF Narrows, IsCut
<1> QED BY <1>1, <1>9, <1>11

-----------------------------------------------------------------------------
(* The columns that are taken.                                             *)

\* Every column is one program's, and those of earlier programs stand before it.
LEMMA PartsCover ==
  ASSUME NEW vis \in Nat, NEW c \in 0 .. vis - 1
  PROVE  /\ \E part \in 0 .. Parts - 1 : c \in PartOf(vis, part)
         /\ \A part \in 0 .. Parts - 1 : c \in PartOf(vis, part) =>
              \A d \in 0 .. vis - 1 :
                /\ (\E p \in 0 .. part - 1 : d \in PartOf(vis, p)) => d < c
                /\ d <= c => (\E p \in 0 .. part - 1 : d \in PartOf(vis, p))
                             \/ d \in PartOf(vis, part)
                /\ d \in PartOf(vis, part) => ~\E p \in 0 .. part - 1 : d \in PartOf(vis, p)
<1>1. PICK n \in Nat \ {0}, h \in Nat \ {0} : n = Parts /\ h = Chunk
  BY SelectOK
<1>2. PICK a \in Nat, b \in Nat : /\ a = Ceiling(vis, n) /\ vis <= n * a
                                  /\ b = Ceiling(a, h) /\ a <= h * b
  BY CeilingIs
<1>3. PICK s \in Nat : s = b * h
  BY Z3
<1>4. a <= s
  <2>1. h * b = b * h
    BY Z3
  <2> QED BY <1>2, <1>3, <2>1
<1>5. vis <= s * n
  <2>1. n * a <= s * n /\ n * a \in Nat /\ s * n \in Nat
    BY <1>4, Z3
  <2> QED BY <1>2, <2>1
<1>6. s # 0
  <2>1. 0 * n = 0
    OBVIOUS
  <2> QED BY <1>5, <2>1
<1>7. PICK P : P = [p \in 0 .. n - 1 |-> p * s]
  OBVIOUS
<1>8. ASSUME NEW p \in 0 .. n - 1
      PROVE  P[p] \in Nat /\ PartOf(vis, p) = P[p] .. Smaller(P[p] + s, vis) - 1
  <2>1. p * s \in Nat
    BY Z3
  <2> QED BY <1>1, <1>2, <1>3, <1>7, <2>1 DEF PartOf
<1>9. ASSUME NEW d \in 0 .. vis - 1
      PROVE  \E p \in 0 .. n - 1 : d \in PartOf(vis, p)
  <2>1. PICK q \in Nat, e \in 0 .. s - 1 : d = s * q + e
    <3>1. d \div s \in Nat /\ d % s \in 0 .. s - 1 /\ d = s * (d \div s) + (d % s)
      BY <1>6, SMT
    <3> QED BY <3>1
  <2>2. q < n
    <3> SUFFICES ASSUME q >= n PROVE FALSE
      OBVIOUS
    <3>1. s * q >= s * n /\ s * q \in Nat /\ s * n \in Nat
      BY Z3
    <3> QED BY <1>5, <2>1, <3>1
  <2>3. s * q = P[q] /\ q \in 0 .. n - 1
    <3>1. s * q = q * s
      BY Z3
    <3> QED BY <1>7, <2>2, <3>1
  <2> QED BY <1>8, <2>1, <2>3 DEF Smaller
<1>10. ASSUME NEW p \in 0 .. n - 1, NEW q \in 0 .. n - 1, p < q
       PROVE  P[p] + s <= P[q]
  <2>1. PICK k \in Nat : q = p + 1 + k
    <3>1. q - p - 1 \in Nat /\ q = p + 1 + (q - p - 1)
      BY <1>10
    <3> QED BY <3>1
  <2>2. (p + 1 + k) * s = p * s + s + k * s /\ k * s \in Nat /\ p * s \in Nat
    BY Z3
  <2> QED BY <1>7, <2>1, <2>2
<1>11. ASSUME NEW p \in 0 .. n - 1, NEW q \in 0 .. n - 1, p < q,
              NEW x \in PartOf(vis, p), NEW y \in PartOf(vis, q)
       PROVE  x < y
  <2>1. P[p] \in Nat /\ P[q] \in Nat /\ P[p] + s <= P[q]
    BY <1>8, <1>10, <1>11
  <2> QED BY <1>8, <2>1 DEF Smaller
<1>12. ASSUME NEW part \in 0 .. n - 1, c \in PartOf(vis, part), NEW d \in 0 .. vis - 1
       PROVE  /\ (\E p \in 0 .. part - 1 : d \in PartOf(vis, p)) => d < c
              /\ d <= c => (\E p \in 0 .. part - 1 : d \in PartOf(vis, p))
                           \/ d \in PartOf(vis, part)
              /\ d \in PartOf(vis, part) => ~\E p \in 0 .. part - 1 : d \in PartOf(vis, p)
  <2>1. \A p \in 0 .. part - 1 : p \in 0 .. n - 1 /\ p < part
    OBVIOUS
  <2>2. (\E p \in 0 .. part - 1 : d \in PartOf(vis, p)) => d < c
    BY <1>11, <1>12, <2>1
  <2>3. d \in PartOf(vis, part) => ~\E p \in 0 .. part - 1 : d \in PartOf(vis, p)
    <3> SUFFICES ASSUME d \in PartOf(vis, part), NEW p \in 0 .. part - 1, d \in PartOf(vis, p)
                 PROVE  FALSE
      OBVIOUS
    <3>1. d < d
      BY <1>11, <2>1
    <3> QED BY <3>1
  <2>4. ASSUME d <= c
        PROVE  (\E p \in 0 .. part - 1 : d \in PartOf(vis, p)) \/ d \in PartOf(vis, part)
    <3>1. PICK p \in 0 .. n - 1 : d \in PartOf(vis, p)
      BY <1>9
    <3>2. ~(part < p)
      <4> SUFFICES ASSUME part < p PROVE FALSE
        OBVIOUS
      <4>1. c < d
        BY <1>11, <1>12, <3>1
      <4> QED BY <2>4, <4>1
    <3>3. p \in 0 .. part - 1 \/ p = part
      BY <3>2
    <3> QED BY <3>1, <3>3
  <2> QED BY <2>2, <2>3, <2>4
<1> QED BY <1>1, <1>9, <1>12

\* The columns the compaction takes for a k-th score and a number of its ties.
TakenBy(score, vis, kth, rem) ==
  {c \in 0 .. vis - 1 : \E part \in 0 .. Parts - 1 :
     /\ c \in PartOf(vis, part)
     /\ \/ score[c] > kth
        \/ /\ score[c] = kth
           /\ EarlierTies(score, vis, kth, part)
              + Cardinality({d \in PartOf(vis, part) : d <= c /\ score[d] = kth}) <= rem}

LEMMA TakenIs ==
  ASSUME NEW score, NEW vis, NEW F, F = CHOOSE f : Passes(f, score, vis),
         NEW kth, kth = (IF vis <= TopP THEN -1 ELSE F[Digits].prefix),
         NEW rem, rem = F[Digits].rem
  PROVE  Taken(score, vis) = TakenBy(score, vis, kth, rem)
<1>1. Taken(score, vis) =
        TakenBy(score, vis,
                IF vis <= TopP THEN -1 ELSE (CHOOSE f : Passes(f, score, vis))[Digits].prefix,
                (CHOOSE f : Passes(f, score, vis))[Digits].rem)
  BY Zenon DEF Taken, TakenBy, Passes
<1> QED BY <1>1, Zenon

Ties(score, kth, c) == {d \in 0 .. c : score[d] = kth}

\* The rank of a column among the ties of all programs.
LEMMA TieRank ==
  ASSUME NEW score, NEW vis \in Nat, NEW kth, NEW part \in 0 .. Parts - 1,
         NEW c \in 0 .. vis - 1, c \in PartOf(vis, part)
  PROVE  EarlierTies(score, vis, kth, part)
           + Cardinality({d \in PartOf(vis, part) : d <= c /\ score[d] = kth})
         = Cardinality(Ties(score, kth, c))
<1>1. PICK A, B : /\ A = {d \in 0 .. vis - 1 : score[d] = kth
                                               /\ \E p \in 0 .. part - 1 : d \in PartOf(vis, p)}
                  /\ B = {d \in PartOf(vis, part) : d <= c /\ score[d] = kth}
  OBVIOUS
<1>2. PartOf(vis, part) \subseteq 0 .. vis - 1
  <2>1. PICK s \in Nat : s = Ceiling(Ceiling(vis, Parts), Chunk) * Chunk
    <3>1. PICK n \in Nat \ {0}, h \in Nat \ {0} : n = Parts /\ h = Chunk
      BY SelectOK
    <3>2. PICK a \in Nat : a = Ceiling(vis, n)
      BY CeilingIs
    <3>3. PICK b \in Nat : b = Ceiling(a, h)
      BY CeilingIs
    <3>4. b * h \in Nat
      BY Z3
    <3> QED BY <3>1, <3>2, <3>3, <3>4
  <2>2. part * s \in Nat
    <3>1. part \in Nat
      BY SelectOK
    <3> QED BY <3>1, Z3
  <2> QED BY <2>1, <2>2 DEF PartOf, Smaller
<1>3. /\ \A d \in 0 .. vis - 1 :
           /\ (\E p \in 0 .. part - 1 : d \in PartOf(vis, p)) => d < c
           /\ d <= c => (\E p \in 0 .. part - 1 : d \in PartOf(vis, p)) \/ d \in PartOf(vis, part)
           /\ d \in PartOf(vis, part) => ~\E p \in 0 .. part - 1 : d \in PartOf(vis, p)
  BY PartsCover
<1>4. PICK U : U = Ties(score, kth, c)
  OBVIOUS
<1>5. U \subseteq 0 .. vis - 1 /\ A \subseteq 0 .. vis - 1 /\ B \subseteq 0 .. vis - 1
  BY <1>1, <1>2, <1>4 DEF Ties
<1>6. A \cap B = {}
  BY <1>1, <1>3
<1>7. U = A \cup B
  <2>1. ASSUME NEW d \in U PROVE d \in A \cup B
    <3>1. d \in 0 .. vis - 1 /\ d <= c /\ score[d] = kth
      BY <1>4 DEF Ties
    <3> QED BY <1>1, <1>3, <3>1
  <2>2. ASSUME NEW d \in A \cup B PROVE d \in U
    <3>1. d \in 0 .. vis - 1 /\ score[d] = kth /\ d <= c
      BY <1>1, <1>3, <1>5
    <3> QED BY <1>4, <3>1 DEF Ties
  <2> QED BY <2>1, <2>2
<1>8. Cardinality(U) = Cardinality(A) + Cardinality(B)
  <2>1. Splits(U, A, B, vis)
    BY <1>5, <1>6, <1>7 DEF Splits
  <2> QED BY <2>1, TwoSets
<1> QED BY <1>1, <1>4, <1>8 DEF EarlierTies

\* The columns that come before c by score and position.
Ahead(score, vis, c) == {d \in 0 .. vis - 1 : Better(score, d, c)}

\* The columns that are taken are those with fewer than TopP ahead of them.
LEMMA TakenAhead ==
  ASSUME NEW score, NEW vis, IsRow(score, vis)
  PROVE  Taken(score, vis) = {c \in 0 .. vis - 1 : Cardinality(Ahead(score, vis, c)) < TopP}
<1>1. PICK k \in Nat \ {0} : k = TopP
  BY SelectOK
<1>2. vis \in Nat
  BY DEF IsRow
<1>3. PICK C : C = 0 .. vis - 1
  OBVIOUS
<1>4. \A c \in C : score[c] \in Nat
  <2>1. PICK M \in Nat : M = Power[Digits]
    BY PowerIs, SelectOK
  <2> QED BY <1>3, <2>1 DEF IsRow
<1>5. PICK F : F = CHOOSE f : Passes(f, score, vis)
  OBVIOUS
<1>6. Passes(F, score, vis)
  BY <1>2, <1>5, PassesExist, Zenon
<1>7. PICK kth, rem : /\ kth = IF vis <= TopP THEN -1 ELSE F[Digits].prefix
                      /\ rem = F[Digits].rem
  OBVIOUS
<1>8. Taken(score, vis) = TakenBy(score, vis, kth, rem)
  BY <1>5, <1>7, TakenIs
<1>9. ASSUME NEW c \in C
      PROVE  c \in Taken(score, vis) <=>
               \/ score[c] > kth
               \/ score[c] = kth /\ Cardinality(Ties(score, kth, c)) <= rem
  <2>1. c \in 0 .. vis - 1
    BY <1>3
  <2>2. \E part \in 0 .. Parts - 1 : c \in PartOf(vis, part)
    BY <1>2, <2>1, PartsCover
  <2>3. \A part \in 0 .. Parts - 1 : c \in PartOf(vis, part) =>
          EarlierTies(score, vis, kth, part)
            + Cardinality({d \in PartOf(vis, part) : d <= c /\ score[d] = kth})
          = Cardinality(Ties(score, kth, c))
    BY <1>2, <2>1, TieRank
  <2> QED BY <1>8, <2>1, <2>2, <2>3, Zenon DEF TakenBy
<1>10. ASSUME NEW c \in C
       PROVE  /\ Ahead(score, vis, c) \subseteq C /\ c \notin Ahead(score, vis, c)
              /\ Cardinality(Ahead(score, vis, c)) \in Nat
              /\ Cardinality(Ahead(score, vis, c)) < vis
  <2>1. PICK A : A = Ahead(score, vis, c)
    OBVIOUS
  <2>2. A \subseteq C /\ c \notin A
    BY <1>3, <1>4, <2>1 DEF Ahead, Better
  <2>3. Cardinality(C) = vis
    <3>1. 0 \in Int /\ vis - 1 \in Int
      BY <1>2
    <3> QED BY <1>2, <1>3, <3>1, FS_Interval
  <2>4. C \subseteq 0 .. vis - 1 /\ A # C
    BY <1>3, <2>2
  <2>5. Cardinality(A) \in Nat /\ Cardinality(A) < Cardinality(C)
    BY <1>2, <2>2, <2>4, SmallerSet
  <2> QED BY <2>1, <2>2, <2>3, <2>5
<1>11. CASE vis <= k
  <2>1. kth = -1
    BY <1>1, <1>7, <1>11
  <2>2. ASSUME NEW c \in C
        PROVE  c \in Taken(score, vis) /\ Cardinality(Ahead(score, vis, c)) < TopP
    <3>1. score[c] > kth
      BY <1>4, <2>1
    <3>2. Cardinality(Ahead(score, vis, c)) < k
      BY <1>2, <1>10, <1>11
    <3> QED BY <1>1, <1>9, <3>1, <3>2
  <2>3. Taken(score, vis) \subseteq C
    BY <1>3, <1>8 DEF TakenBy
  <2> QED BY <1>3, <2>2, <2>3
<1>12. CASE ~(vis <= k)
  <2>1. kth \in Nat /\ rem \in 1 .. k
        /\ Cardinality({c \in C : score[c] > kth}) = k - rem
        /\ Cardinality({c \in C : score[c] = kth}) >= rem
    <3>1. IsCut(score, vis, kth, rem)
      <4>1. vis > TopP
        BY <1>1, <1>2, <1>12
      <4>2. kth = F[Digits].prefix
        BY <1>1, <1>7, <1>12
      <4> QED BY <1>6, <1>7, <4>1, <4>2, PassesCut
    <3> QED BY <1>1, <1>3, <3>1 DEF IsCut
  <2>2. PICK H, E : H = {c \in C : score[c] > kth} /\ E = {c \in C : score[c] = kth}
    OBVIOUS
  <2>3. /\ Cardinality(H) \in Nat /\ Cardinality(E) \in Nat
        /\ Cardinality(H) = k - rem /\ Cardinality(E) >= rem
    <3>1. H \subseteq 0 .. vis - 1 /\ E \subseteq 0 .. vis - 1
      BY <1>3, <2>2
    <3> QED BY <1>2, <2>1, <2>2, <3>1, ColumnsFinite
  <2>4. ASSUME NEW c \in C
        PROVE  c \in Taken(score, vis) <=> Cardinality(Ahead(score, vis, c)) < k
    <3>1. PICK A : A = Ahead(score, vis, c) /\ A \subseteq 0 .. vis - 1
      BY <1>3, <1>10
    <3>2. Cardinality(A) \in Nat
      BY <1>10, <3>1
    <3>3. PICK x \in Nat : x = score[c]
      BY <1>4
    <3>4. \A d \in C : d \in A <=> score[d] > x \/ (score[d] = x /\ d < c)
      BY <1>3, <3>1, <3>3 DEF Ahead, Better
    <3>5. CASE x > kth
      <4>1. A \subseteq H
        BY <1>3, <1>4, <2>1, <2>2, <3>1, <3>4, <3>5
      <4>2. H \subseteq 0 .. vis - 1
        BY <1>3, <2>2
      <4>3. Cardinality(A) <= Cardinality(H)
        BY <1>2, <4>1, <4>2, SmallerSet
      <4>4. Cardinality(A) < k
        BY <2>1, <2>3, <3>2, <4>3
      <4> QED BY <1>9, <3>1, <3>3, <3>5, <4>4
    <3>6. CASE x = kth
      <4>1. PICK B, U : B = {d \in E : d < c} /\ U = Ties(score, kth, c)
        OBVIOUS
      <4>2. /\ B \subseteq 0 .. vis - 1 /\ H \subseteq 0 .. vis - 1 /\ U \subseteq 0 .. vis - 1
            /\ {c} \subseteq 0 .. vis - 1
        BY <1>2, <1>3, <2>2, <4>1 DEF Ties
      <4>3. A = H \cup B /\ H \cap B = {}
        BY <1>3, <1>4, <2>1, <2>2, <3>1, <3>4, <3>6, <4>1
      <4>4. U = B \cup {c} /\ B \cap {c} = {}
        <5>1. \A d \in 0 .. c : d \in C /\ (d < c \/ d = c)
          BY <1>2, <1>3
        <5>2. \A d \in C : d <= c => d \in 0 .. c
          BY <1>2, <1>3
        <5>3. score[c] = kth /\ c \in 0 .. c
          BY <1>3, <3>3, <3>6
        <5>4. \A d \in C : d < c => d <= c /\ d # c
          BY <1>3
        <5> QED BY <2>2, <4>1, <5>1, <5>2, <5>3, <5>4 DEF Ties
      <4>5. Cardinality(A) = Cardinality(H) + Cardinality(B)
        <5>1. Splits(A, H, B, vis)
          BY <4>2, <4>3 DEF Splits
        <5> QED BY <1>2, <5>1, TwoSets
      <4>6. Cardinality(U) = Cardinality(B) + 1 /\ Cardinality(B) \in Nat
        <5>1. Splits(U, B, {c}, vis)
          BY <4>2, <4>4 DEF Splits
        <5>2. Cardinality({c}) = 1
          BY FS_Singleton
        <5> QED BY <1>2, <5>1, <5>2, TwoSets
      <4>7. Cardinality(A) < k <=> Cardinality(U) <= rem
        BY <2>1, <2>3, <4>5, <4>6
      <4>8. score[c] = kth /\ ~(score[c] > kth)
        BY <2>1, <3>3, <3>6
      <4>9. c \in Taken(score, vis) <=> Cardinality(U) <= rem
        BY <1>9, <4>1, <4>8, Zenon
      <4> QED BY <3>1, <4>7, <4>9
    <3>7. CASE x < kth
      <4>1. PICK U : U = H \cup E
        OBVIOUS
      <4>2. H \cap E = {} /\ H \subseteq 0 .. vis - 1 /\ E \subseteq 0 .. vis - 1
        BY <1>3, <1>4, <2>1, <2>2
      <4>3. U \subseteq A
        BY <1>3, <1>4, <2>1, <2>2, <3>4, <3>7, <4>1
      <4>4. Cardinality(U) = Cardinality(H) + Cardinality(E)
        <5>1. Splits(U, H, E, vis)
          BY <4>1, <4>2 DEF Splits
        <5> QED BY <1>2, <5>1, TwoSets
      <4>5. Cardinality(U) \in Nat /\ Cardinality(U) <= Cardinality(A)
        BY <1>2, <3>1, <4>3, SmallerSet
      <4>6. ~(Cardinality(A) < k)
        BY <2>1, <2>3, <3>2, <4>4, <4>5
      <4> QED BY <1>9, <2>1, <3>1, <3>3, <3>7, <4>6
    <3> QED BY <2>1, <3>5, <3>6, <3>7
  <2>5. Taken(score, vis) \subseteq C
    BY <1>3, <1>8 DEF TakenBy
  <2> QED BY <1>1, <1>3, <2>4, <2>5
<1> QED BY <1>11, <1>12

-----------------------------------------------------------------------------
(* The order of the taken columns.                                         *)

Before(score, S) == {p \in S \X S : Better(score, p[1], p[2])}

LEMMA BeforeOrders ==
  ASSUME NEW score, NEW S, S \subseteq Nat, \A c \in S : score[c] \in Nat
  PROVE  Ordered(S, Before(score, S))
<1>1. ASSUME NEW x \in S, NEW y \in S
      PROVE  <<x, y>> \in Before(score, S) <=> Better(score, x, y)
  BY DEF Before
<1>2. \A x \in S : ~Better(score, x, x)
  BY DEF Better
<1>3. \A x, y \in S : x # y => Better(score, x, y) \/ Better(score, y, x)
  BY DEF Better
<1>4. \A x, y, z \in S : Better(score, x, y) /\ Better(score, y, z) => Better(score, x, z)
  BY DEF Better
<1> QED BY <1>1, <1>2, <1>3, <1>4 DEF Ordered

\* The columns that are taken, best first, are the start of all columns, best
\* first.
LEMMA PickedIs ==
  ASSUME NEW score, NEW vis, IsRow(score, vis)
  PROVE  Picked(score, vis) = SubSeq(BestFirst(score, 0 .. vis - 1), 1, Smaller(TopP, vis))
<1>1. PICK k \in Nat \ {0} : k = TopP
  BY SelectOK
<1>2. vis \in Nat
  BY DEF IsRow
<1>3. PICK C : C = 0 .. vis - 1
  OBVIOUS
<1>4. \A c \in C : score[c] \in Nat
  <2>1. PICK M \in Nat : M = Power[Digits]
    BY PowerIs, SelectOK
  <2> QED BY <1>3, <2>1 DEF IsRow
<1>5. IsFiniteSet(C) /\ Cardinality(C) = vis
  <2>1. 0 \in Int /\ vis - 1 \in Int
    BY <1>2
  <2> QED BY <1>2, <1>3, <2>1, FS_Interval
<1>6. PICK T : T = Taken(score, vis)
  OBVIOUS
<1>7. T = {c \in C : Cardinality(Ahead(score, vis, c)) < k}
  BY <1>1, <1>3, <1>6, TakenAhead
<1>8. T \subseteq C /\ IsFiniteSet(T) /\ T \subseteq Nat /\ C \subseteq Nat
  <2>1. T \subseteq C
    BY <1>7
  <2>2. C \subseteq Nat
    BY <1>2, <1>3
  <2> QED BY <1>5, <2>1, <2>2, FS_Subset
<1>9. PICK s, t : s = BestFirst(score, C) /\ t = BestFirst(score, T)
  OBVIOUS
<1>10. Ranked(s, C, Before(score, C)) /\ Ranked(t, T, Before(score, T))
  <2>1. Ordered(C, Before(score, C)) /\ Ordered(T, Before(score, T))
    BY <1>4, <1>8, BeforeOrders
  <2>2. s = ByRank(C, Before(score, C)) /\ t = ByRank(T, Before(score, T))
    BY <1>9, Zenon DEF BestFirst, Before
  <2> QED BY <1>5, <1>8, <2>1, <2>2, ByRankIs
<1>11. ASSUME NEW c \in C
       PROVE  Earlier(C, Before(score, C), c) = Ahead(score, vis, c)
  BY <1>3 DEF Earlier, Before, Ahead
<1>12. ASSUME NEW c \in T
       PROVE  Earlier(T, Before(score, T), c) = Ahead(score, vis, c)
  <2>1. c \in C /\ Cardinality(Ahead(score, vis, c)) < k
    BY <1>7
  <2>2. ASSUME NEW d \in Ahead(score, vis, c) PROVE d \in T
    <3>1. d \in C /\ Better(score, d, c)
      BY <1>3 DEF Ahead
    <3>2. PICK A, B : A = Ahead(score, vis, d) /\ B = Ahead(score, vis, c)
      OBVIOUS
    <3>3. A \subseteq B
      BY <1>3, <1>4, <2>1, <3>1, <3>2 DEF Ahead, Better
    <3>4. B \subseteq 0 .. vis - 1
      BY <3>2 DEF Ahead
    <3>5. Cardinality(A) \in Nat /\ Cardinality(B) \in Nat /\ Cardinality(A) <= Cardinality(B)
      BY <1>2, <3>3, <3>4, SmallerSet
    <3> QED BY <1>7, <2>1, <3>1, <3>2, <3>5
  <2>3. \A d \in T : Better(score, d, c) <=> d \in Ahead(score, vis, c)
    BY <1>3, <1>8 DEF Ahead
  <2>4. \A d \in T : d \in Earlier(T, Before(score, T), c) <=> Better(score, d, c)
    BY DEF Earlier, Before
  <2>5. Earlier(T, Before(score, T), c) \subseteq T
    BY DEF Earlier
  <2> QED BY <2>2, <2>3, <2>4, <2>5
<1>13. PICK n \in Nat : n = Cardinality(T)
  BY <1>8, FS_CardinalityType
<1>14. /\ s \in [1 .. vis -> C] /\ \A i \in 1 .. vis : Cardinality(Ahead(score, vis, s[i])) = i - 1
       /\ \A c \in C : /\ Cardinality(Ahead(score, vis, c)) \in 0 .. vis - 1
                       /\ s[Cardinality(Ahead(score, vis, c)) + 1] = c
  BY <1>5, <1>10, <1>11 DEF Ranked
<1>15. /\ t \in [1 .. n -> T] /\ \A i \in 1 .. n : Cardinality(Ahead(score, vis, t[i])) = i - 1
       /\ \A c \in T : Cardinality(Ahead(score, vis, c)) \in 0 .. n - 1
  BY <1>10, <1>12, <1>13 DEF Ranked
<1>16. n = Smaller(k, vis)
  <2>1. n <= vis
    BY <1>5, <1>8, <1>13, FS_Subset
  <2>2. n <= k
    <3>1. CASE n = 0
      BY <3>1
    <3>2. CASE n # 0
      <4>1. n \in 1 .. n
        BY <3>2
      <4>2. t[n] \in T /\ Cardinality(Ahead(score, vis, t[n])) = n - 1
        BY <1>15, <4>1
      <4>3. n - 1 < k
        BY <1>7, <4>2
      <4> QED BY <4>3
    <3> QED BY <3>1, <3>2
  <2>3. n >= Smaller(k, vis)
    <3> SUFFICES ASSUME n < k, n < vis PROVE FALSE
      BY <1>2 DEF Smaller
    <3>1. n + 1 \in 1 .. vis
      BY <1>2
    <3>2. s[n + 1] \in C /\ Cardinality(Ahead(score, vis, s[n + 1])) = n
      BY <1>14, <3>1
    <3>3. s[n + 1] \in T
      BY <1>7, <3>2
    <3>4. n \in 0 .. n - 1
      BY <1>15, <3>2, <3>3
    <3> QED BY <3>4
  <2> QED BY <1>2, <2>1, <2>2, <2>3 DEF Smaller
<1>17. ASSUME NEW i \in 1 .. n PROVE t[i] = s[i]
  <2>1. t[i] \in T /\ Cardinality(Ahead(score, vis, t[i])) = i - 1
    BY <1>15
  <2>2. t[i] \in C /\ (i - 1) + 1 = i
    <3>1. t[i] \in C
      BY <1>8, <2>1
    <3> QED BY <3>1
  <2>3. s[(i - 1) + 1] = t[i]
    BY <1>14, <2>1, <2>2
  <2> QED BY <2>2, <2>3
<1>18. t = [i \in 1 .. n |-> s[i]]
  <2>1. t = [i \in 1 .. n |-> t[i]]
    BY <1>15
  <2> QED BY <1>17, <2>1
<1>19. SubSeq(s, 1, n) = [i \in 1 .. n |-> s[i]]
  <2>1. SubSeq(s, 1, n) = [i \in 1 .. 1 + n - 1 |-> s[i + 1 - 1]]
    BY SMT
  <2>2. 1 + n - 1 = n /\ \A i \in 1 .. n : i + 1 - 1 = i
    BY SMT
  <2> QED BY <2>1, <2>2
<1>20. Picked(score, vis) = t
  BY <1>6, <1>9 DEF Picked
<1> QED BY <1>1, <1>3, <1>9, <1>16, <1>18, <1>19, <1>20

-----------------------------------------------------------------------------
(* Positions, pages and blocks.                                            *)

LEMMA PageSize ==
  ASSUME setup \in Setups
  PROVE  Page \in Nat \ {0} /\ \E n \in Nat \ {0} : Page = n * BucketSize
<1>1. Page \in Nat \ {0} /\ Page % BucketSize = 0
  BY LsaOK DEF Page
<1>2. BucketSize \in Nat \ {0}
  BY SelectOK
<1>3. PICK a \in Nat \ {0}, b \in Nat \ {0} : a = Page /\ b = BucketSize /\ a % b = 0
  BY <1>1, <1>2
<1>4. a = (a \div b) * b /\ a \div b \in Nat \ {0}
  BY <1>3, Z3
<1> QED BY <1>1, <1>3, <1>4

LEMMA BlockSize ==
  /\ Block \in Nat \ {0} /\ BucketSize \in Nat \ {0} /\ Buckets \in Nat \ {0}
  /\ Block = Buckets * BucketSize
<1>1. PICK a \in Nat \ {0}, b \in Nat \ {0} : a = Block /\ b = BucketSize /\ a % b = 0
  BY SelectOK
<1>2. a = (a \div b) * b /\ a \div b \in Nat \ {0}
  BY <1>1, Z3
<1> QED BY <1>1, <1>2 DEF Buckets

\* n blocks: what Floor counts.
LEMMA FloorBounds ==
  ASSUME NEW p \in Nat
  PROVE  /\ Floor(p) \in Nat /\ Floor(p) <= p /\ p < Floor(p) + Block
         /\ \E k \in Nat : Floor(p) = k * Block
<1>1. PICK b \in Nat \ {0} : b = Block
  BY BlockSize
<1>2. p \div b \in Nat /\ (p \div b) * b <= p /\ p < (p \div b) * b + b
  BY <1>1, Z3
<1>3. (p \div b) * b \in Nat
  BY <1>1, <1>2, Z3
<1> QED BY <1>1, <1>2, <1>3 DEF Floor

LEMMA FloorOf ==
  ASSUME NEW k \in Nat, NEW i \in 0 .. Block - 1
  PROVE  Floor(k * Block + i) = k * Block
<1>1. PICK b \in Nat \ {0} : b = Block /\ i \in Nat /\ i < b
  BY BlockSize
<1>2. (k * b + i) \div b = k
  BY <1>1, Z3
<1> QED BY <1>1, <1>2 DEF Floor

\* A multiple of the block size within reach of a position is its floor.
LEMMA FloorUnique ==
  ASSUME NEW k \in Nat, NEW p \in Nat, k * Block <= p, p < k * Block + Block
  PROVE  Floor(p) = k * Block
<1>1. PICK b \in Nat \ {0} : b = Block
  BY BlockSize
<1>2. PICK m \in Nat : m = k * b
  BY <1>1, Z3
<1>3. PICK i \in 0 .. b - 1 : p = m + i
  <2>1. p - m \in 0 .. b - 1 /\ p = m + (p - m)
    BY <1>1, <1>2
  <2> QED BY <2>1
<1> QED BY <1>1, <1>2, <1>3, FloorOf

\* Floors below one another are a block apart.
LEMMA FloorStep ==
  ASSUME NEW k \in Nat, NEW n \in Nat, k * Block < n * Block
  PROVE  k * Block + Block <= n * Block
<1>1. PICK b \in Nat \ {0} : b = Block
  BY BlockSize
<1>2. k < n
  BY <1>1, Z3
<1>3. PICK d \in Nat : n = k + 1 + d
  <2>1. n - k - 1 \in Nat /\ n = k + 1 + (n - k - 1)
    BY <1>2
  <2> QED BY <2>1
<1>4. n * b = k * b + b + d * b /\ d * b \in Nat /\ k * b \in Nat
  BY <1>1, <1>3, Z3
<1> QED BY <1>1, <1>4

\* A bucket's position is one of its block's.
LEMMA BucketHome ==
  ASSUME NEW pos \in Nat, pos % BucketSize = 0
  PROVE  \E j \in 0 .. Buckets - 1 : pos = Floor(pos) + j * BucketSize
<1>1. PICK s \in Nat \ {0}, n \in Nat \ {0} : s = BucketSize /\ n = Buckets /\ Block = n * s
  BY BlockSize
<1>2. PICK k \in Nat : Floor(pos) = k * Block /\ k * Block <= pos /\ pos < k * Block + Block
  BY FloorBounds
<1>3. PICK m \in Nat : pos = m * s
  <2>1. pos = (pos \div s) * s /\ pos \div s \in Nat
    BY <1>1, Z3
  <2> QED BY <2>1
<1>4. PICK e \in Nat : e = k * n
  BY <1>1, Z3
<1>5. k * Block = e * s
  BY <1>1, <1>4, Z3
<1>6. e * s <= m * s /\ m * s < e * s + n * s
  BY <1>1, <1>2, <1>3, <1>5
<1>7. e <= m
  BY <1>1, <1>6, Z3
<1>8. m < e + n
  BY <1>1, <1>6, Z3
<1>9. PICK j \in 0 .. n - 1 : m = e + j
  <2>1. m - e \in 0 .. n - 1 /\ m = e + (m - e)
    BY <1>7, <1>8
  <2> QED BY <2>1
<1>10. m * s = e * s + j * s
  BY <1>1, <1>9, Z3
<1> QED BY <1>1, <1>2, <1>3, <1>5, <1>9, <1>10

LEMMA FloorOfBucket ==
  ASSUME NEW k \in Nat, NEW j \in 0 .. Buckets - 1
  PROVE  /\ k * Block + j * BucketSize \in Nat
         /\ Floor(k * Block + j * BucketSize) = k * Block
         /\ (k * Block + j * BucketSize) % BucketSize = 0
<1>1. PICK s \in Nat \ {0}, n \in Nat \ {0} : s = BucketSize /\ n = Buckets /\ Block = n * s
  BY BlockSize
<1>2. j \in Nat /\ j + 1 <= n
  BY <1>1
<1>3. PICK i \in Nat : i = j * s
  BY <1>1, <1>2, Z3
<1>4. i + s <= n * s
  <2>1. PICK d \in Nat : n = j + 1 + d
    <3>1. n - j - 1 \in Nat /\ n = j + 1 + (n - j - 1)
      BY <1>1, <1>2
    <3> QED BY <3>1
  <2>2. n * s = j * s + s + d * s /\ d * s \in Nat
    BY <1>1, <1>2, <2>1, Z3
  <2> QED BY <1>3, <2>2, <1>1
<1>5. PICK b \in Nat \ {0} : b = Block
  BY BlockSize
<1>6. i \in 0 .. Block - 1
  BY <1>1, <1>3, <1>4, <1>5
<1>7. k * Block \in Nat
  BY <1>5, Z3
<1>8. (k * Block + j * s) % s = 0
  <2>1. PICK m \in Nat : m = k * n + j
    <3>1. k * n \in Nat
      BY <1>1, Z3
    <3> QED BY <3>1, <1>2
  <2>2. k * (n * s) + j * s = m * s
    BY <1>1, <1>2, <2>1, Z3
  <2>3. (m * s) % s = 0
    BY <1>1, Z3
  <2> QED BY <1>1, <2>2, <2>3
<1> QED BY <1>1, <1>3, <1>6, <1>7, <1>8, FloorOf

\* A multiple less a multiple.
LEMMA RestDivides ==
  ASSUME NEW s \in Nat \ {0}, NEW e \in Nat, NEW a \in Nat, NEW p \in Nat,
         p = e * s + a, p % s = 0
  PROVE  a % s = 0
<1>1. PICK m \in Nat : p = m * s
  <2>1. p = (p \div s) * s /\ p \div s \in Nat
    BY Z3
  <2> QED BY <2>1
<1>2. PICK k \in Int : k = m - e
  OBVIOUS
<1>3. k * s = m * s - e * s
  BY <1>2, Z3
<1>4. a = k * s
  <2>1. e * s \in Nat /\ m * s \in Nat
    BY Z3
  <2> QED BY <2>1, <1>1, <1>3
<1>5. (k * s) % s = 0
  BY Z3
<1> QED BY <1>4, <1>5

\* Two buckets in one row of one page are one.
LEMMA SamePlace ==
  ASSUME setup \in Setups, NEW p \in Nat, NEW q \in Nat,
         p % BucketSize = 0, q % BucketSize = 0, p \div Page = q \div Page,
         (p % Page) \div BucketSize = (q % Page) \div BucketSize
  PROVE  p = q
<1>1. PICK s \in Nat \ {0}, n \in Nat \ {0} : s = BucketSize /\ Page = n * s
  BY PageSize, BlockSize
<1>2. PICK g \in Nat \ {0} : g = Page /\ g = n * s
  BY <1>1, PageSize
<1>3. PICK d \in Nat : d = p \div g /\ d = q \div g
  BY <1>2, Z3
<1>4. PICK a \in Nat : a = p % g /\ p = d * g + a
  BY <1>2, <1>3, Z3
<1>5. PICK b \in Nat : b = q % g /\ q = d * g + b
  BY <1>2, <1>3, Z3
<1>6. PICK e \in Nat : d * g = e * s
  <2>1. d * n \in Nat /\ d * g = (d * n) * s
    BY <1>1, <1>2, Z3
  <2> QED BY <2>1
<1>7. a % s = 0
  <2>1. p = e * s + a /\ p % s = 0
    BY <1>1, <1>4, <1>6
  <2> QED BY <2>1, RestDivides
<1>8. b % s = 0
  <2>1. q = e * s + b /\ q % s = 0
    BY <1>1, <1>5, <1>6
  <2> QED BY <2>1, RestDivides
<1>9. a \div s = b \div s
  BY <1>1, <1>2, <1>4, <1>5
<1>10. a = b
  BY <1>1, <1>7, <1>8, <1>9, Z3
<1> QED BY <1>4, <1>5, <1>10

\* A position's page is in a table long enough for it.
LEMMA PageIndex ==
  ASSUME setup \in Setups, NEW n \in Nat, NEW pos \in Nat, pos < n * Page
  PROVE  /\ pos \div Page \in Nat /\ pos \div Page + 1 \in 1 .. n
         /\ pos % Page \in 0 .. Page - 1
         /\ pos = (pos \div Page) * Page + (pos % Page)
<1>1. PICK g \in Nat \ {0} : g = Page
  BY PageSize
<1>2. pos \div g \in Nat /\ pos = (pos \div g) * g + (pos % g) /\ pos % g \in 0 .. g - 1
  BY <1>1, Z3
<1>3. pos \div g < n
  BY <1>1, <1>2, Z3
<1> QED BY <1>1, <1>2, <1>3

LEMMA PageOfSlot ==
  ASSUME setup \in Setups, NEW d \in Nat, NEW o \in 0 .. Page - 1
  PROVE  /\ d * Page + o \in Nat /\ (d * Page + o) \div Page = d /\ (d * Page + o) % Page = o
         /\ \A n \in Nat : d < n => d * Page + o < n * Page
<1>1. PICK g \in Nat \ {0} : g = Page
  BY PageSize
<1>2. d * g \in Nat /\ (d * g + o) \div g = d /\ (d * g + o) % g = o
  BY <1>1, Z3
<1>3. ASSUME NEW n \in Nat, d < n PROVE d * g + o < n * g
  <2>1. PICK e \in Nat : n = d + 1 + e
    <3>1. n - d - 1 \in Nat /\ n = d + 1 + (n - d - 1)
      BY <1>3
    <3> QED BY <3>1
  <2>2. n * g = d * g + g + e * g /\ e * g \in Nat
    BY <1>1, <2>1, Z3
  <2> QED BY <1>1, <1>2, <2>2
<1> QED BY <1>1, <1>2, <1>3
-----------------------------------------------------------------------------
(* What bucketing and writing do to a slot.                                *)

\* A block table that names no page twice.
Paged(table) ==
  /\ table \in Seq(Pages)
  /\ \A i, j \in 1 .. Len(table) : table[i] = table[j] => i = j

\* Every page has its bucket rows.
RowShape(rows) == \A p \in Pages : DOMAIN rows[p] = 0 .. Page \div BucketSize - 1

\* Whole blocks that the table covers.
Closed(starting, table) ==
  \A b \in starting : /\ \E k \in Nat : b = k * Block
                      /\ b + Block <= Len(table) * Page

BlockAt(keys, table, b) == [i \in 0 .. Block - 1 |-> KeyAt(keys, table, b + i)]

\* The bucket row at position pos, of the block with these keys.
BlockRow(keys, pos) ==
  [of |-> keys, members |-> BucketTables(keys)[(pos - Floor(pos)) \div BucketSize]]

LEMMA SamePage ==
  ASSUME setup \in Setups, NEW table, Paged(table), NEW p \in Nat, NEW q \in Nat,
         p < Len(table) * Page, q < Len(table) * Page,
         PageOf(table, p) = PageOf(table, q)
  PROVE  p \div Page = q \div Page
<1>1. Len(table) \in Nat
  BY DEF Paged
<1>2. /\ p \div Page \in Nat /\ p \div Page + 1 \in 1 .. Len(table)
      /\ q \div Page \in Nat /\ q \div Page + 1 \in 1 .. Len(table)
  BY <1>1, PageIndex
<1>3. p \div Page + 1 = q \div Page + 1
  BY <1>2 DEF Paged, PageOf
<1> QED BY <1>2, <1>3

LEMMA RowIndex ==
  ASSUME setup \in Setups, NEW table, Paged(table), NEW pos \in Nat,
         pos < Len(table) * Page
  PROVE  /\ PageOf(table, pos) \in Pages
         /\ \E i \in 1 .. Len(table) : PageOf(table, pos) = table[i]
         /\ (pos % Page) \div BucketSize \in 0 .. Page \div BucketSize - 1
<1>1. Len(table) \in Nat
  BY DEF Paged
<1>2. pos \div Page + 1 \in 1 .. Len(table) /\ pos % Page \in 0 .. Page - 1
  BY <1>1, PageIndex
<1>3. PageOf(table, pos) \in Pages /\ \E i \in 1 .. Len(table) : PageOf(table, pos) = table[i]
  BY <1>2 DEF Paged, PageOf
<1>4. PICK s \in Nat \ {0}, n \in Nat \ {0} : s = BucketSize /\ Page = n * s
  BY PageSize, BlockSize
<1>5. PICK o \in Nat : o = pos % Page /\ o < n * s
  BY <1>2, <1>4, PageSize
<1>6. o \div s \in Nat /\ o \div s < n /\ (n * s) \div s = n
  BY <1>4, <1>5, Z3
<1> QED BY <1>3, <1>4, <1>5, <1>6

LEMMA ClusteredRow ==
  ASSUME setup \in Setups, NEW rows, RowShape(rows), NEW keys, NEW table, Paged(table),
         NEW starting, Closed(starting, table),
         NEW pos \in Nat, pos % BucketSize = 0, pos < Len(table) * Page
  PROVE  RowAt(Clustered(rows, keys, table, starting), table, pos) =
           IF Floor(pos) \in starting THEN BlockRow(BlockAt(keys, table, Floor(pos)), pos)
           ELSE RowAt(rows, table, pos)
<1> DEFINE homes(p, r) == {h \in starting \X (0 .. Buckets - 1) :
             LET at == h[1] + h[2] * BucketSize
             IN PageOf(table, at) = p /\ (at % Page) \div BucketSize = r}
           block(b) == [i \in 0 .. Block - 1 |-> KeyAt(keys, table, b + i)]
           made == [b \in starting |-> BucketTables(block(b))]
           row0(p, r) == IF homes(p, r) = {} THEN rows[p][r]
                         ELSE LET home == CHOOSE h \in homes(p, r) : TRUE
                              IN [of |-> block(home[1]), members |-> made[home[1]][home[2]]]
           new == [p \in Pages |-> [r \in DOMAIN rows[p] |-> row0(p, r)]]
           p0 == PageOf(table, pos)
           r0 == (pos % Page) \div BucketSize
<1>1. Clustered(rows, keys, table, starting) = new
  BY DEF Clustered
<1>2. p0 \in Pages /\ r0 \in DOMAIN rows[p0]
  BY RowIndex DEF RowShape
<1>3. RowAt(Clustered(rows, keys, table, starting), table, pos) = row0(p0, r0)
  <2> HIDE DEF row0, p0, r0
  <2>1. new[p0][r0] = row0(p0, r0)
    BY <1>2
  <2>2. RowAt(new, table, pos) = new[p0][r0]
    BY DEF RowAt, p0, r0
  <2> QED BY <1>1, <2>1, <2>2
<1>4. ASSUME NEW h \in homes(p0, r0)
      PROVE  h[1] = Floor(pos) /\ h[2] = (pos - Floor(pos)) \div BucketSize
  <2>1. PICK b \in starting, j \in 0 .. Buckets - 1 : h = <<b, j>>
    BY <1>4
  <2>2. PICK k \in Nat : b = k * Block
    BY <2>1 DEF Closed
  <2>3. PICK at \in Nat : /\ at = b + j * BucketSize /\ Floor(at) = b
                          /\ at % BucketSize = 0
    BY <2>2, FloorOfBucket
  <2>4. PageOf(table, at) = p0 /\ (at % Page) \div BucketSize = r0
    BY <1>4, <2>1, <2>3
  <2>5. at < Len(table) * Page
    <3>1. at < Floor(at) + Block
      BY FloorBounds
    <3>2. b + Block <= Len(table) * Page
      BY <2>1 DEF Closed
    <3>3. Len(table) * Page \in Nat /\ b \in Nat /\ Block \in Nat
      <4>1. PICK n \in Nat, g \in Nat : n = Len(table) /\ g = Page
        BY PageSize DEF Paged
      <4>2. n * g \in Nat
        BY Z3
      <4> QED BY <2>3, <4>1, <4>2, FloorBounds, BlockSize
    <3> QED BY <2>3, <3>1, <3>2, <3>3
  <2> HIDE DEF p0, r0
  <2>6. at \div Page = pos \div Page
    BY <2>4, <2>5, SamePage DEF p0
  <2>7. at = pos
    BY <2>3, <2>4, <2>6, SamePlace DEF r0
  <2>8. (pos - Floor(pos)) \div BucketSize = j
    <3>1. PICK s \in Nat \ {0}, f \in Nat : s = BucketSize /\ f = Floor(pos)
      BY BlockSize, FloorBounds
    <3>2. PICK e \in Nat : e = j * s
      BY <3>1, Z3
    <3>3. pos - f = e
      BY <2>3, <2>7, <3>1, <3>2
    <3>4. (j * s) \div s = j
      BY <3>1, Z3
    <3> QED BY <3>1, <3>2, <3>3, <3>4
  <2> QED BY <2>1, <2>3, <2>7, <2>8
<1>5. ASSUME Floor(pos) \in starting PROVE homes(p0, r0) # {}
  <2>1. PICK j \in 0 .. Buckets - 1 : pos = Floor(pos) + j * BucketSize
    BY BucketHome
  <2>2. <<Floor(pos), j>> \in homes(p0, r0)
    BY <1>5, <2>1
  <2> QED BY <2>2
<1>6. ASSUME homes(p0, r0) # {}
      PROVE  Floor(pos) \in starting /\ row0(p0, r0) = BlockRow(block(Floor(pos)), pos)
  <2>1. PICK home \in homes(p0, r0) : home = CHOOSE h \in homes(p0, r0) : TRUE
    BY <1>6
  <2>2. home[1] = Floor(pos) /\ home[2] = (pos - Floor(pos)) \div BucketSize
    BY <1>4
  <2>3. Floor(pos) \in starting
    <3>1. home \in starting \X (0 .. Buckets - 1)
      BY <2>1
    <3>2. home[1] \in starting
      BY <3>1
    <3> QED BY <2>2, <3>2
  <2>4. row0(p0, r0) = [of |-> block(home[1]), members |-> made[home[1]][home[2]]]
    BY <1>6, <2>1
  <2>5. made[home[1]] = BucketTables(block(home[1]))
    BY <2>2, <2>3
  <2> HIDE DEF row0, made, block
  <2> QED BY <2>2, <2>3, <2>4, <2>5 DEF BlockRow
<1>7. block(Floor(pos)) = BlockAt(keys, table, Floor(pos))
  BY DEF BlockAt
<1>8. CASE Floor(pos) \in starting
  BY <1>3, <1>5, <1>6, <1>7, <1>8
<1>9. CASE Floor(pos) \notin starting
  <2>1. homes(p0, r0) = {}
    BY <1>6, <1>9
  <2>2. row0(p0, r0) = rows[p0][r0]
    BY <2>1
  <2> QED BY <1>3, <1>9, <2>2 DEF RowAt
<1> QED BY <1>8, <1>9

\* Pages the table does not name keep their rows.
LEMMA ClusteredElsewhere ==
  ASSUME setup \in Setups, NEW rows, RowShape(rows), NEW keys, NEW table, Paged(table),
         NEW starting, Closed(starting, table),
         NEW p \in Pages, \A i \in 1 .. Len(table) : table[i] # p,
         NEW r \in 0 .. Page \div BucketSize - 1
  PROVE  Clustered(rows, keys, table, starting)[p][r] = rows[p][r]
<1> DEFINE homes(x, y) == {h \in starting \X (0 .. Buckets - 1) :
             LET at == h[1] + h[2] * BucketSize
             IN PageOf(table, at) = x /\ (at % Page) \div BucketSize = y}
           block(b) == [i \in 0 .. Block - 1 |-> KeyAt(keys, table, b + i)]
           made == [b \in starting |-> BucketTables(block(b))]
           row0(x, y) == IF homes(x, y) = {} THEN rows[x][y]
                         ELSE LET home == CHOOSE h \in homes(x, y) : TRUE
                              IN [of |-> block(home[1]), members |-> made[home[1]][home[2]]]
           new == [x \in Pages |-> [y \in DOMAIN rows[x] |-> row0(x, y)]]
<1>1. Clustered(rows, keys, table, starting) = new
  BY DEF Clustered
<1>2. r \in DOMAIN rows[p]
  BY DEF RowShape
<1>3. homes(p, r) = {}
  <2> SUFFICES ASSUME NEW h \in homes(p, r) PROVE FALSE
    OBVIOUS
  <2>1. PICK b \in starting, j \in 0 .. Buckets - 1 : h = <<b, j>>
    OBVIOUS
  <2>2. PICK k \in Nat : b = k * Block
    BY <2>1 DEF Closed
  <2>3. PICK at \in Nat : at = b + j * BucketSize /\ Floor(at) = b
    BY <2>2, FloorOfBucket
  <2>4. PageOf(table, at) = p
    BY <2>1, <2>3
  <2>5. at < Len(table) * Page
    <3>1. at < Floor(at) + Block
      BY FloorBounds
    <3>2. b + Block <= Len(table) * Page
      BY <2>1 DEF Closed
    <3>3. PICK n \in Nat, g \in Nat : n = Len(table) /\ g = Page
      BY PageSize DEF Paged
    <3>4. n * g \in Nat
      BY Z3
    <3>5. b \in Nat /\ Block \in Nat
      BY <2>3, FloorBounds, BlockSize
    <3> QED BY <2>3, <3>1, <3>2, <3>3, <3>4, <3>5
  <2> QED BY <2>4, <2>5, RowIndex
<1>4. row0(p, r) = rows[p][r]
  BY <1>3
<1> HIDE DEF row0
<1>5. new[p][r] = row0(p, r)
  BY <1>2
<1> QED BY <1>1, <1>4, <1>5

LEMMA ClusteredShape ==
  ASSUME NEW rows, RowShape(rows), NEW keys, NEW table, NEW starting
  PROVE  RowShape(Clustered(rows, keys, table, starting))
<1> SUFFICES ASSUME NEW p \in Pages
             PROVE  DOMAIN Clustered(rows, keys, table, starting)[p] = 0 .. Page \div BucketSize - 1
  BY DEF RowShape
<1>1. DOMAIN Clustered(rows, keys, table, starting)[p] = DOMAIN rows[p]
  BY DEF Clustered
<1> QED BY <1>1 DEF RowShape

\* A key is the one written at its position, or the one that was there.
LEMMA WrittenKey ==
  ASSUME setup \in Setups, NEW table, Paged(table), NEW tokens,
         \A t \in DOMAIN tokens : t \in Nat /\ t < Len(table) * Page,
         NEW pos \in Nat, pos < Len(table) * Page
  PROVE  KeyAt(Written(table, tokens), table, pos) =
           IF pos \in DOMAIN tokens THEN tokens[pos] ELSE KeyAt(key, table, pos)
<1> DEFINE at(p, i) == {t \in DOMAIN tokens : PageOf(table, t) = p /\ t % Page = i}
           p0 == PageOf(table, pos)
           i0 == pos % Page
           key0(p, i) == IF at(p, i) = {} THEN key[p][i] ELSE tokens[CHOOSE t \in at(p, i) : TRUE]
           new == [p \in Pages |-> [i \in 0 .. Page - 1 |-> key0(p, i)]]
<1>1. Written(table, tokens) = new
  BY DEF Written
<1>2. p0 \in Pages /\ i0 \in 0 .. Page - 1
  <2>1. Len(table) \in Nat
    BY DEF Paged
  <2> QED BY <2>1, RowIndex, PageIndex
<1>3. KeyAt(new, table, pos) = key0(p0, i0)
  <2> HIDE DEF key0, p0, i0
  <2>1. new[p0][i0] = key0(p0, i0)
    BY <1>2
  <2>2. KeyAt(new, table, pos) = new[p0][i0]
    BY DEF KeyAt, p0, i0
  <2> QED BY <2>1, <2>2
<1>4. ASSUME NEW t \in at(p0, i0) PROVE t = pos
  <2>1. t \in Nat /\ t < Len(table) * Page /\ PageOf(table, t) = p0 /\ t % Page = i0
    OBVIOUS
  <2> HIDE DEF at
  <2>2. t \div Page = pos \div Page
    BY <2>1, SamePage
  <2>3. Len(table) \in Nat
    BY DEF Paged
  <2>4. t = (t \div Page) * Page + (t % Page) /\ pos = (pos \div Page) * Page + (pos % Page)
    BY <2>1, <2>3, PageIndex
  <2> QED BY <2>1, <2>2, <2>4
<1>5. CASE pos \in DOMAIN tokens
  <2>1. pos \in at(p0, i0)
    BY <1>5
  <2>2. PICK t \in at(p0, i0) : t = CHOOSE u \in at(p0, i0) : TRUE
    BY <2>1
  <2>3. key0(p0, i0) = tokens[t]
    BY <2>1, <2>2
  <2>4. t = pos
    BY <1>4
  <2> QED BY <1>1, <1>3, <1>5, <2>3, <2>4
<1>6. CASE pos \notin DOMAIN tokens
  <2>1. at(p0, i0) = {}
    BY <1>4, <1>6
  <2>2. key0(p0, i0) = key[p0][i0]
    BY <2>1
  <2> QED BY <1>1, <1>3, <1>6, <2>2 DEF KeyAt
<1> QED BY <1>5, <1>6

\* Pages the table does not name keep their keys.
LEMMA WrittenElsewhere ==
  ASSUME setup \in Setups, NEW table, Paged(table), NEW tokens,
         \A t \in DOMAIN tokens : t \in Nat /\ t < Len(table) * Page,
         NEW p \in Pages, \A i \in 1 .. Len(table) : table[i] # p, NEW o \in 0 .. Page - 1
  PROVE  Written(table, tokens)[p][o] = key[p][o]
<1>1. {t \in DOMAIN tokens : PageOf(table, t) = p /\ t % Page = o} = {}
  <2> SUFFICES ASSUME NEW t \in DOMAIN tokens, PageOf(table, t) = p PROVE FALSE
    OBVIOUS
  <2> QED BY RowIndex
<1> QED BY <1>1 DEF Written

-----------------------------------------------------------------------------
(* What the builder buckets.                                               *)

LEMMA DecodeSound ==
  ASSUME NEW ctx \in Nat, NEW late \in Nat, NEW b \in DecodeClosures(ctx, late)
  PROVE  (\E k \in Nat : b = k * Block) /\ b + Block <= ctx
<1>1. b = Floor(late) - Block /\ Floor(late) >= Block /\ Floor(late) <= ctx
  BY DEF DecodeClosures
<1>2. PICK m \in Nat : Floor(late) = m * Block
  BY FloorBounds
<1>3. PICK c \in Nat \ {0} : c = Block
  BY BlockSize
<1>4. m >= 1
  BY <1>1, <1>2, <1>3, Z3
<1>5. PICK k \in Nat : m = k + 1
  <2>1. m - 1 \in Nat /\ m = (m - 1) + 1
    BY <1>4
  <2> QED BY <2>1
<1>6. m * c = k * c + c /\ k * c \in Nat
  BY <1>5, <1>3, Z3
<1> QED BY <1>1, <1>2, <1>3, <1>6

\* The block that decoding closed is among the candidates, however late the
\* host's count is.
LEMMA DecodeClosed ==
  ASSUME 2 * DecodeQ <= Block + 1, NEW ctx \in Nat, NEW late \in Nat,
         ctx <= late, late <= ctx + DecodeQ - 1,
         NEW k \in Nat, k * Block + Block <= ctx, k * Block + Block > ctx - DecodeQ
  PROVE  k * Block \in DecodeClosures(ctx, late)
<1>1. PICK c \in Nat \ {0}, d \in Nat \ {0} : c = Block /\ d = DecodeQ
  BY BlockSize, LsaOK
<1>2. PICK m \in Nat, e \in Nat : m = k + 1 /\ e = k * c /\ m * c = e + c
  <2>1. k * c \in Nat /\ (k + 1) * c = k * c + c
    BY <1>1, Z3
  <2> QED BY <2>1
<1>3. m * Block <= late /\ late < m * Block + Block
  BY <1>1, <1>2
<1>4. Floor(late) = m * Block
  BY <1>3, FloorUnique
<1>5. Floor(late) = e + c /\ Floor(late) - Block = k * Block
  BY <1>1, <1>2, <1>4
<1>6. /\ Floor(late) >= Block /\ Floor(late) > late - 2 * DecodeQ
      /\ Floor(late) <= ctx /\ Floor(late) > ctx - DecodeQ
  BY <1>1, <1>2, <1>5
<1> QED BY <1>5, <1>6 DEF DecodeClosures

LEMMA PrefillSound ==
  ASSUME NEW ctx \in Nat, NEW q \in Nat, NEW upper \in Nat, NEW b \in PrefillBlocks(ctx, q, upper)
  PROVE  q > DecodeQ /\ (\E k \in Nat : b = k * Block) /\ b + Block <= ctx + q
<1>1. q > DecodeQ
  <2>1. q \in Int /\ DecodeQ \in Int
    BY LsaOK
  <2> QED BY <2>1 DEF PrefillBlocks
<1>2. /\ b \in {k * Block : k \in FirstBlock(upper, q) .. upper \div Block - 1}
      /\ b + Block <= ctx + q
  <2>1. ~ (q <= DecodeQ)
    BY <1>1, LsaOK
  <2> QED BY <2>1 DEF PrefillBlocks
<1>3. FirstBlock(upper, q) \in Nat
  <2>1. PICK c \in Nat \ {0} : c = Block
    BY BlockSize
  <2>2. PICK y \in Int : y = upper - q - DecodeQ
    BY LsaOK
  <2>3. y \div c \in Int
    BY <2>1, Z3
  <2> QED BY <2>1, <2>2, <2>3 DEF FirstBlock, Larger
<1>4. PICK k \in FirstBlock(upper, q) .. upper \div Block - 1 : b = k * Block
  BY <1>2
<1>5. k \in Nat
  BY <1>3, <1>4
<1> QED BY <1>1, <1>2, <1>4, <1>5

\* A chunk's blocks are all among the candidates.
LEMMA PrefillClosed ==
  ASSUME NEW ctx \in Nat, NEW q \in Nat, q > DecodeQ,
         NEW k \in Nat, k * Block + Block <= ctx + q, k * Block + Block > ctx - DecodeQ
  PROVE  k * Block \in PrefillBlocks(ctx, q, ctx + q)
<1>1. PICK c \in Nat \ {0}, d \in Nat \ {0} : c = Block /\ d = DecodeQ
  BY BlockSize, LsaOK
<1>2. PICK m \in Nat : m = k + 1 /\ m * c = k * c + c /\ k * c \in Nat
  <2>1. k * c \in Nat /\ (k + 1) * c = k * c + c
    BY <1>1, Z3
  <2> QED BY <2>1
<1>3. PICK u \in Nat, y \in Int : u = ctx + q /\ y = ctx - d
  BY <1>1
<1>4. k <= u \div c - 1
  <2>1. m * c <= u
    BY <1>1, <1>2, <1>3
  <2>2. m <= u \div c /\ u \div c \in Nat
    BY <1>1, <2>1, Z3
  <2> QED BY <1>2, <2>2
<1>5. y \div c <= k
  <2>1. y < m * c
    BY <1>1, <1>2, <1>3
  <2>2. y \div c < m /\ y \div c \in Int
    BY <1>1, <2>1, Z3
  <2> QED BY <1>2, <2>2
<1>6. ctx + q - q - DecodeQ = y
  BY <1>1, <1>3
<1>7. FirstBlock(ctx + q, q) = Larger(0, y \div c)
  BY <1>1, <1>6 DEF FirstBlock
<1>8. FirstBlock(ctx + q, q) <= k /\ FirstBlock(ctx + q, q) \in Int
  <2>1. y \div c \in Int
    BY <1>1, Z3
  <2> QED BY <1>5, <1>7, <2>1 DEF Larger
<1>9. k \in FirstBlock(ctx + q, q) .. (ctx + q) \div Block - 1
  <2>1. u \div c \in Int
    BY <1>1, Z3
  <2> QED BY <1>1, <1>3, <1>4, <1>8, <2>1
<1>10. ~ (q <= DecodeQ)
  BY <1>1
<1> QED BY <1>9, <1>10 DEF PrefillBlocks

-----------------------------------------------------------------------------
(* What a request may rely on.                                             *)

\* The keys of the text below n are in place, in pages of g tokens.
KeysHold(g, keys, table, text, n) ==
  \A p \in Nat : p < n => keys[table[p \div g + 1]][p % g] = text[p + 1]

BlockText(text, b) == [i \in 0 .. Block - 1 |-> text[b + i + 1]]

\* The bucket row at position pos of a text.
RowText(text, pos) == BlockRow(BlockText(text, Floor(pos)), pos)

\* A bucket whose row is certain, for a request that hit so many tokens.
Due(g, pos, hit) ==
  \/ Floor(pos) + Block > hit - DecodeQ
  \/ Floor(pos) + Block <= (pos \div g + 1) * g - DecodeQ

RowsHold(g, rows, table, text, hit, n) ==
  \A pos \in Nat : pos % BucketSize = 0 /\ Floor(pos) + Block <= n /\ Due(g, pos, hit) =>
    rows[table[pos \div g + 1]][(pos % g) \div BucketSize] = RowText(text, pos)

LEMMA BlockRead ==
  ASSUME NEW keys, NEW table, NEW text, NEW n \in Int, KeysHold(Page, keys, table, text, n),
         NEW b \in Nat, b + Block <= n
  PROVE  BlockAt(keys, table, b) = BlockText(text, b)
<1> SUFFICES ASSUME NEW i \in 0 .. Block - 1
             PROVE  KeyAt(keys, table, b + i) = text[b + i + 1]
  BY DEF BlockAt, BlockText
<1>1. b + i \in Nat /\ b + i < n
  BY BlockSize
<1> QED BY <1>1 DEF KeysHold, KeyAt, PageOf

\* The rows after a step: closed blocks of final keys, on top of what was there.
StepRows(rows, keys, wrote, table, ctx, q, late) ==
  Clustered(Clustered(rows, keys, table, DecodeClosures(ctx, late)), wrote, table,
            PrefillBlocks(ctx, q, late + q))

LEMMA StepCovers ==
  ASSUME setup \in Setups, NEW ctx \in Nat, NEW q \in Nat, NEW late \in Nat, NEW table,
         Paged(table), ctx + q <= Len(table) * Page
  PROVE  /\ Closed(DecodeClosures(ctx, late), table)
         /\ Closed(PrefillBlocks(ctx, q, late + q), table)
<1>1. PICK n \in Nat : n = Len(table) * Page
  <2>1. PICK m \in Nat, g \in Nat : m = Len(table) /\ g = Page
    BY PageSize DEF Paged
  <2>2. m * g \in Nat
    BY Z3
  <2> QED BY <2>1, <2>2
<1>2. ASSUME NEW b \in DecodeClosures(ctx, late)
      PROVE  (\E k \in Nat : b = k * Block) /\ b + Block <= Len(table) * Page
  <2>1. (\E k \in Nat : b = k * Block) /\ b + Block <= ctx
    BY DecodeSound
  <2>2. b + Block \in Int
    <3>1. PICK k \in Nat : b = k * Block
      BY <2>1
    <3>2. PICK c \in Nat : c = Block
      BY BlockSize
    <3>3. k * c \in Nat
      BY <3>2, Z3
    <3> QED BY <3>1, <3>2, <3>3
  <2> QED BY <1>1, <2>1, <2>2
<1>3. ASSUME NEW b \in PrefillBlocks(ctx, q, late + q)
      PROVE  (\E k \in Nat : b = k * Block) /\ b + Block <= Len(table) * Page
  <2>1. (\E k \in Nat : b = k * Block) /\ b + Block <= ctx + q
    <3>1. late + q \in Nat
      OBVIOUS
    <3> QED BY <3>1, PrefillSound
  <2>2. b + Block \in Int
    <3>1. PICK k \in Nat : b = k * Block
      BY <2>1
    <3>2. PICK c \in Nat : c = Block
      BY BlockSize
    <3>3. k * c \in Nat
      BY <3>2, Z3
    <3> QED BY <3>1, <3>2, <3>3
  <2> QED BY <1>1, <2>1, <2>2
<1> QED BY <1>2, <1>3 DEF Closed

\* A step leaves a row alone or makes it from its block's text.
LEMMA StepRow ==
  ASSUME setup \in Setups, NEW rows, RowShape(rows), NEW keys, NEW wrote, NEW table,
         Paged(table), NEW ctx \in Nat, NEW q \in Nat, NEW late \in Nat,
         ctx + q <= Len(table) * Page, NEW text,
         KeysHold(Page, keys, table, text, ctx),
         KeysHold(Page, wrote, table, text, Clusterable(ctx, q)),
         NEW pos \in Nat, pos % BucketSize = 0, pos < Len(table) * Page
  PROVE  \/ RowAt(StepRows(rows, keys, wrote, table, ctx, q, late), table, pos) =
              RowText(text, pos)
         \/ /\ RowAt(StepRows(rows, keys, wrote, table, ctx, q, late), table, pos) =
                 RowAt(rows, table, pos)
            /\ Floor(pos) \notin DecodeClosures(ctx, late)
            /\ Floor(pos) \notin PrefillBlocks(ctx, q, late + q)
<1> DEFINE first == Clustered(rows, keys, table, DecodeClosures(ctx, late))
<1>1. /\ Closed(DecodeClosures(ctx, late), table)
      /\ Closed(PrefillBlocks(ctx, q, late + q), table)
  BY StepCovers
<1>2. RowShape(first)
  BY ClusteredShape
<1>3. RowAt(first, table, pos) =
        IF Floor(pos) \in DecodeClosures(ctx, late)
        THEN BlockRow(BlockAt(keys, table, Floor(pos)), pos)
        ELSE RowAt(rows, table, pos)
  BY <1>1, ClusteredRow
<1> HIDE DEF first
<1>4. RowAt(StepRows(rows, keys, wrote, table, ctx, q, late), table, pos) =
        IF Floor(pos) \in PrefillBlocks(ctx, q, late + q)
        THEN BlockRow(BlockAt(wrote, table, Floor(pos)), pos)
        ELSE RowAt(first, table, pos)
  <2>1. StepRows(rows, keys, wrote, table, ctx, q, late) =
          Clustered(first, wrote, table, PrefillBlocks(ctx, q, late + q))
    BY DEF StepRows, first
  <2> QED BY <1>1, <1>2, <2>1, ClusteredRow
<1>5. Floor(pos) \in Nat
  BY FloorBounds
<1>6. ASSUME Floor(pos) \in PrefillBlocks(ctx, q, late + q)
      PROVE  BlockAt(wrote, table, Floor(pos)) = BlockText(text, Floor(pos))
  <2>1. late + q \in Nat
    OBVIOUS
  <2>2. q > DecodeQ /\ Floor(pos) + Block <= ctx + q
    BY <1>6, <2>1, PrefillSound
  <2>3. Clusterable(ctx, q) = ctx + q
    BY <2>2 DEF Clusterable
  <2> QED BY <1>5, <2>2, <2>3, BlockRead
<1>7. ASSUME Floor(pos) \in DecodeClosures(ctx, late)
      PROVE  BlockAt(keys, table, Floor(pos)) = BlockText(text, Floor(pos))
  <2>1. Floor(pos) + Block <= ctx
    BY <1>7, DecodeSound
  <2> QED BY <1>5, <2>1, BlockRead
<1>8. CASE Floor(pos) \in PrefillBlocks(ctx, q, late + q)
  BY <1>4, <1>6, <1>8 DEF RowText
<1>9. CASE /\ Floor(pos) \notin PrefillBlocks(ctx, q, late + q)
           /\ Floor(pos) \in DecodeClosures(ctx, late)
  BY <1>3, <1>4, <1>7, <1>9 DEF RowText
<1>10. CASE /\ Floor(pos) \notin PrefillBlocks(ctx, q, late + q)
            /\ Floor(pos) \notin DecodeClosures(ctx, late)
  BY <1>3, <1>4, <1>10
<1> QED BY <1>8, <1>9, <1>10

\* After a step every row below its final keys is certain: the block that ends
\* in the last DecodeQ tokens was bucketed by this step, whoever closed it.
LEMMA StepRowsHold ==
  ASSUME 2 * DecodeQ <= Block + 1, setup \in Setups, NEW rows, RowShape(rows),
         NEW keys, NEW wrote, NEW table,
         Paged(table), NEW ctx \in Nat, NEW q \in Nat, NEW late \in Nat,
         ctx <= late, late <= ctx + DecodeQ - 1, q > DecodeQ => late = ctx,
         ctx + q <= Len(table) * Page, NEW text, NEW hit \in Nat,
         KeysHold(Page, keys, table, text, ctx),
         KeysHold(Page, wrote, table, text, Clusterable(ctx, q)),
         RowsHold(Page, rows, table, text, hit, ctx - DecodeQ)
  PROVE  RowsHold(Page, StepRows(rows, keys, wrote, table, ctx, q, late), table, text, hit,
                  Clusterable(ctx, q))
<1> SUFFICES ASSUME NEW pos \in Nat, pos % BucketSize = 0,
                    Floor(pos) + Block <= Clusterable(ctx, q), Due(Page, pos, hit)
             PROVE  RowAt(StepRows(rows, keys, wrote, table, ctx, q, late), table, pos) =
                      RowText(text, pos)
  BY DEF RowsHold, RowAt, PageOf
<1>1. PICK n \in Nat : n = Len(table) * Page
  <2>1. PICK m \in Nat, g \in Nat : m = Len(table) /\ g = Page
    BY PageSize DEF Paged
  <2>2. m * g \in Nat
    BY Z3
  <2> QED BY <2>1, <2>2
<1>2. PICK k \in Nat : Floor(pos) = k * Block /\ Floor(pos) \in Nat /\ pos < Floor(pos) + Block
  BY FloorBounds
<1>3. PICK d \in Nat, c \in Nat : d = DecodeQ /\ c = Block
  BY LsaOK, BlockSize
<1>4. Clusterable(ctx, q) = IF q > d THEN ctx + q ELSE ctx
  BY <1>3 DEF Clusterable
<1>5. pos < Len(table) * Page
  BY <1>1, <1>2, <1>3, <1>4
<1>6. CASE Floor(pos) + Block <= ctx - DecodeQ
  <2>1. RowAt(rows, table, pos) = RowText(text, pos)
    BY <1>6 DEF RowsHold, RowAt, PageOf
  <2> QED BY <1>5, <2>1, StepRow
<1>7. CASE Floor(pos) + Block > ctx - DecodeQ /\ Floor(pos) + Block <= ctx
  <2>1. Floor(pos) \in DecodeClosures(ctx, late)
    BY <1>2, <1>7, DecodeClosed
  <2> QED BY <1>5, <2>1, StepRow
<1>8. CASE Floor(pos) + Block > ctx
  <2>1. q > DecodeQ /\ Floor(pos) + Block <= ctx + q /\ late = ctx
    BY <1>2, <1>3, <1>4, <1>8
  <2>2. Floor(pos) + Block > ctx - DecodeQ
    BY <1>2, <1>3, <1>8
  <2>3. Floor(pos) \in PrefillBlocks(ctx, q, ctx + q)
    BY <1>2, <2>1, <2>2, PrefillClosed
  <2> QED BY <1>5, <2>1, <2>3, StepRow
<1>9. Floor(pos) + Block \in Int /\ ctx - DecodeQ \in Int
  BY <1>2, <1>3
<1> QED BY <1>6, <1>7, <1>8, <1>9

\* A page the table does not name keeps its rows.
LEMMA StepElsewhere ==
  ASSUME setup \in Setups, NEW rows, RowShape(rows), NEW keys, NEW wrote, NEW table,
         Paged(table), NEW ctx \in Nat, NEW q \in Nat, NEW late \in Nat,
         ctx + q <= Len(table) * Page,
         NEW p \in Pages, \A i \in 1 .. Len(table) : table[i] # p,
         NEW r \in 0 .. Page \div BucketSize - 1
  PROVE  StepRows(rows, keys, wrote, table, ctx, q, late)[p][r] = rows[p][r]
<1> DEFINE first == Clustered(rows, keys, table, DecodeClosures(ctx, late))
<1>1. /\ Closed(DecodeClosures(ctx, late), table)
      /\ Closed(PrefillBlocks(ctx, q, late + q), table)
  BY StepCovers
<1>2. RowShape(first)
  BY ClusteredShape
<1>3. first[p][r] = rows[p][r]
  BY <1>1, ClusteredElsewhere
<1> HIDE DEF first
<1>4. Clustered(first, wrote, table, PrefillBlocks(ctx, q, late + q))[p][r] = first[p][r]
  BY <1>1, <1>2, ClusteredElsewhere
<1> QED BY <1>3, <1>4 DEF StepRows, first

LEMMA StepShape ==
  ASSUME NEW rows, RowShape(rows), NEW keys, NEW wrote, NEW table, NEW ctx, NEW q, NEW late
  PROVE  RowShape(StepRows(rows, keys, wrote, table, ctx, q, late))
BY ClusteredShape DEF StepRows

-----------------------------------------------------------------------------
(* The invariant.                                                          *)

\* A page that holds page i of a text: every key, and every row whose block
\* ended early enough for the page's owner to have bucketed it.
HeldPage(g, keys, rows, p, text, i) ==
  /\ \A pos \in Nat : pos \div g + 1 = i => keys[p][pos % g] = text[pos + 1]
  /\ \A pos \in Nat : /\ pos % BucketSize = 0 /\ pos \div g + 1 = i
                      /\ Floor(pos) + Block <= i * g - DecodeQ
       => rows[p][(pos % g) \div BucketSize] = RowText(text, pos)

CachedPage(st, keys, rows, ch, p) ==
  \E line \in 1 .. st.texts, i \in Nat \ {0} :
    /\ i * st.page <= Len(Texts[line])
    /\ ch[p] = SubSeq(Texts[line], 1, i * st.page)
    /\ HeldPage(st.page, keys, rows, p, Texts[line], i)

\* What an active request owns or shares: its full pages are in the cache, the
\* others are not.
Owner(st, x, keys, rows, ch) ==
  /\ x \in [line : 1 .. st.texts, prompt : Nat, hit : Nat, ctx : Nat, slack : Nat,
            table : Seq(Pages)]
  /\ Paged(x.table)
  /\ x.ctx <= Len(x.table) * st.page /\ x.ctx <= Len(Texts[x.line])
  /\ x.slack <= DecodeQ - 1 /\ (x.ctx < x.prompt => x.slack = 0)
  /\ KeysHold(st.page, keys, x.table, Texts[x.line], x.ctx)
  /\ RowsHold(st.page, rows, x.table, Texts[x.line], x.hit, x.ctx - DecodeQ)
  /\ \A i \in 1 .. Len(x.table) :
       ch[x.table[i]] = IF i * st.page <= x.ctx THEN SubSeq(Texts[x.line], 1, i * st.page)
                        ELSE None

\* A page that is not full is nobody else's.
Apart(st, x, y) ==
  \A i \in 1 .. Len(x.table), j \in 1 .. Len(y.table) :
    i * st.page > x.ctx => x.table[i] # y.table[j]

Good(st, rq, ks, rs, ch) ==
  /\ st \in Setups
  /\ DOMAIN rq = Requests
  /\ \A p \in Pages : DOMAIN rs[p] = 0 .. st.page \div BucketSize - 1
  /\ \A p \in Pages : ch[p] # None => CachedPage(st, ks, rs, ch, p)
  /\ \A r \in Requests : rq[r] # None => Owner(st, rq[r], ks, rs, ch)
  /\ \A r, s \in Requests : r # s /\ rq[r] # None /\ rq[s] # None => Apart(st, rq[r], rq[s])

Inv == Good(setup, req, key, row, cached)

\* Two texts that agree on the pages up to the i-th, and on its blocks.
Agree(g, T, U, i) ==
  /\ \A p \in Nat : p < i * g => T[p + 1] = U[p + 1]
  /\ \A pos \in Nat : pos \div g + 1 = i => BlockText(T, Floor(pos)) = BlockText(U, Floor(pos))

\* One conversation, or pages of whole blocks.
Regular == \A s \in Setups : s.texts = 1 \/ s.page % Block = 0

LEMMA TextTypes ==
  ASSUME setup \in Setups, NEW line \in 1 .. setup.texts
  PROVE  Texts[line] \in Seq(Int) /\ Len(Texts[line]) \in Nat
<1>1. line \in 1 .. Len(Texts) /\ Texts \in Seq(Seq(Int))
  BY LsaOK
<1> QED BY <1>1

LEMMA SubLen ==
  ASSUME NEW T \in Seq(Int), NEW m \in Nat, m <= Len(T)
  PROVE  /\ SubSeq(T, 1, m) \in Seq(Int) /\ Len(SubSeq(T, 1, m)) = m
         /\ \A p \in Nat : p < m => SubSeq(T, 1, m)[p + 1] = T[p + 1]
<1>1. Len(T) \in Nat
  OBVIOUS
<1>2. SubSeq(T, 1, m) = [i \in 1 .. m |-> T[i]]
  BY <1>1
<1>3. \A i \in 1 .. m : T[i] \in Int
  BY <1>1
<1>4. SubSeq(T, 1, m) \in [1 .. m -> Int]
  BY <1>2, <1>3
<1>5. SubSeq(T, 1, m) \in Seq(Int) /\ Len(SubSeq(T, 1, m)) = m
  BY <1>4
<1>6. ASSUME NEW p \in Nat, p < m PROVE SubSeq(T, 1, m)[p + 1] = T[p + 1]
  <2>1. p + 1 \in 1 .. m
    BY <1>6
  <2> QED BY <1>2, <2>1
<1> QED BY <1>5, <1>6

\* A full page's entry is not the missing one.
LEMMA NotNone ==
  ASSUME NEW T \in Seq(Int), NEW m \in Nat, m <= Len(T)
  PROVE  SubSeq(T, 1, m) # None
BY SubLen, LsaOK

LEMMA Times ==
  ASSUME setup \in Setups, NEW i \in Nat
  PROVE  i * Page \in Nat /\ (i + 1) * Page = i * Page + Page
<1>1. PICK g \in Nat \ {0} : g = Page
  BY PageSize
<1>2. i * g \in Nat /\ (i + 1) * g = i * g + g
  BY <1>1, Z3
<1> QED BY <1>1, <1>2

\* The slots of a page, counted from 1.
LEMMA InPage ==
  ASSUME setup \in Setups, NEW pos \in Nat, NEW i \in Nat \ {0}, pos \div Page + 1 = i
  PROVE  pos < i * Page
<1>1. PICK g \in Nat \ {0} : g = Page
  BY PageSize
<1>2. pos < (pos \div g + 1) * g
  BY <1>1, Z3
<1> QED BY <1>1, <1>2

\* On pages of whole blocks a block ends within its page.
LEMMA BlockInPage ==
  ASSUME setup \in Setups, Page % Block = 0, NEW pos \in Nat, NEW i \in Nat \ {0},
         pos \div Page + 1 = i
  PROVE  Floor(pos) + Block <= i * Page
<1>1. PICK c \in Nat \ {0}, g \in Nat \ {0} : c = Block /\ g = Page /\ g % c = 0
  BY PageSize, BlockSize
<1>2. PICK e \in Nat : g = e * c
  <2>1. g = (g \div c) * c /\ g \div c \in Nat
    BY <1>1, Z3
  <2> QED BY <2>1
<1>3. PICK n \in Nat : n = i * e /\ i * g = n * c
  <2>1. i * e \in Nat /\ i * (e * c) = (i * e) * c
    BY <1>1, <1>2, Z3
  <2> QED BY <1>2, <2>1
<1>4. PICK k \in Nat : Floor(pos) = k * Block /\ Floor(pos) <= pos /\ Floor(pos) \in Nat
  BY FloorBounds
<1>5. pos < i * Page
  BY InPage
<1>6. k * Block < n * Block
  <2>1. n * c \in Nat
    BY <1>1, Z3
  <2> QED BY <1>1, <1>3, <1>4, <1>5, <2>1
<1> QED BY <1>1, <1>3, <1>4, <1>6, FloorStep

\* Equal cache entries name one page of one text, as far as it was read.
LEMMA SameText ==
  ASSUME Regular, setup \in Setups, NEW l \in 1 .. setup.texts, NEW m \in 1 .. setup.texts,
         NEW i \in Nat \ {0}, NEW j \in Nat \ {0},
         i * Page <= Len(Texts[l]), j * Page <= Len(Texts[m]),
         SubSeq(Texts[l], 1, i * Page) = SubSeq(Texts[m], 1, j * Page)
  PROVE  i = j /\ Agree(Page, Texts[l], Texts[m], i)
<1> DEFINE T == Texts[l]
           U == Texts[m]
<1>1. T \in Seq(Int) /\ U \in Seq(Int)
  BY TextTypes
<1>2. PICK a \in Nat, b \in Nat : a = i * Page /\ b = j * Page
  BY Times
<1> HIDE DEF T, U
<1>3. SubSeq(T, 1, a) = SubSeq(U, 1, b) /\ a <= Len(T) /\ b <= Len(U)
  BY <1>2 DEF T, U
<1>4. a = b
  <2>1. Len(SubSeq(T, 1, a)) = a
    BY <1>1, <1>3, SubLen
  <2>2. Len(SubSeq(U, 1, b)) = b
    BY <1>1, <1>3, SubLen
  <2> QED BY <1>3, <2>1, <2>2
<1>5. i = j
  <2>1. PICK g \in Nat \ {0} : g = Page
    BY PageSize
  <2>2. i * g = j * g
    BY <1>2, <1>4, <2>1
  <2> QED BY <2>1, <2>2, Z3
<1>6. ASSUME NEW p \in Nat, p < a PROVE T[p + 1] = U[p + 1]
  <2>1. SubSeq(T, 1, a)[p + 1] = T[p + 1]
    BY <1>1, <1>3, <1>6, SubLen
  <2>2. SubSeq(U, 1, b)[p + 1] = U[p + 1]
    BY <1>1, <1>3, <1>4, <1>6, SubLen
  <2> QED BY <1>3, <1>4, <2>1, <2>2
<1>7. ASSUME NEW pos \in Nat, pos \div Page + 1 = i
      PROVE  BlockText(T, Floor(pos)) = BlockText(U, Floor(pos))
  <2>1. CASE setup.texts = 1
    <3>1. l = m
      BY <2>1
    <3> QED BY <3>1 DEF T, U
  <2>2. CASE Page % Block = 0
    <3>1. Floor(pos) + Block <= a /\ Floor(pos) \in Nat
      BY <1>2, <1>7, <2>2, BlockInPage, FloorBounds
    <3>2. ASSUME NEW t \in 0 .. Block - 1
          PROVE  T[Floor(pos) + t + 1] = U[Floor(pos) + t + 1]
      <4>1. Floor(pos) + t \in Nat /\ Floor(pos) + t < a
        BY <3>1, BlockSize
      <4> QED BY <1>6, <4>1
    <3> QED BY <3>2 DEF BlockText
  <2> QED BY <2>1, <2>2 DEF Regular, Page
<1> QED BY <1>2, <1>5, <1>6, <1>7 DEF Agree, T, U

\* A full page in the cache holds what its entry says.
LEMMA FullPage ==
  ASSUME Regular, Inv, NEW line \in 1 .. setup.texts, NEW p \in Pages, NEW i \in Nat \ {0},
         i * Page <= Len(Texts[line]), cached[p] = SubSeq(Texts[line], 1, i * Page)
  PROVE  HeldPage(Page, key, row, p, Texts[line], i)
<1>1. setup \in Setups /\ Page = setup.page
  BY DEF Inv, Good, Page
<1>2. Texts[line] \in Seq(Int) /\ i * Page \in Nat
  BY <1>1, TextTypes, Times
<1>3. cached[p] # None
  BY <1>2, NotNone
<1>4. CachedPage(setup, key, row, cached, p)
  BY <1>3 DEF Inv, Good
<1>5. PICK l \in 1 .. setup.texts, j \in Nat \ {0} :
        /\ j * Page <= Len(Texts[l])
        /\ cached[p] = SubSeq(Texts[l], 1, j * Page)
        /\ HeldPage(Page, key, row, p, Texts[l], j)
  BY <1>1, <1>4 DEF CachedPage
<1>6. SubSeq(Texts[line], 1, i * Page) = SubSeq(Texts[l], 1, j * Page)
  BY <1>5
<1>7. i = j /\ Agree(Page, Texts[line], Texts[l], i)
  BY <1>1, <1>5, <1>6, SameText
<1>8. ASSUME NEW pos \in Nat, pos \div Page + 1 = i
      PROVE  Texts[line][pos + 1] = Texts[l][pos + 1]
  BY <1>1, <1>7, <1>8, InPage DEF Agree
<1>9. ASSUME NEW pos \in Nat, pos \div Page + 1 = i
      PROVE  BlockText(Texts[line], Floor(pos)) = BlockText(Texts[l], Floor(pos))
  BY <1>7, <1>9 DEF Agree
<1> QED BY <1>5, <1>7, <1>8, <1>9 DEF HeldPage, RowText

\* What a prefix hit hands to a request is an owner's due.
LEMMA HitOwner ==
  ASSUME Regular, Inv, NEW line \in 1 .. setup.texts, NEW prompt \in Nat, NEW n \in Nat,
         n * Page <= Len(Texts[line]), NEW table \in [1 .. n -> Pages],
         \A i \in 1 .. n : cached[table[i]] = SubSeq(Texts[line], 1, i * Page)
  PROVE  /\ Owner(setup, [line |-> line, prompt |-> prompt, hit |-> n * Page, ctx |-> n * Page,
                          slack |-> 0, table |-> table], key, row, cached)
         /\ Len(table) = n
         /\ \A i \in 1 .. n : i * Page <= n * Page /\ cached[table[i]] # None
<1> DEFINE T == Texts[line]
<1>1. setup \in Setups /\ Page = setup.page
  BY DEF Inv, Good, Page
<1>2. T \in Seq(Int) /\ Len(T) \in Nat
  BY <1>1, TextTypes
<1>3. table \in Seq(Pages) /\ Len(table) = n
  OBVIOUS
<1>4. PICK m \in Nat : m = n * Page
  BY <1>1, Times
<1>5. ASSUME NEW i \in 1 .. n
      PROVE  /\ i \in Nat \ {0} /\ i * Page \in Nat /\ i * Page <= m
             /\ i * Page <= Len(T)
  <2>1. PICK g \in Nat \ {0} : g = Page
    BY <1>1, PageSize
  <2>2. i \in Nat \ {0} /\ i <= n
    OBVIOUS
  <2>3. i * g \in Nat /\ i * g <= n * g
    BY <2>1, <2>2, Z3
  <2>4. m = n * g /\ m <= Len(T)
    BY <1>4, <2>1
  <2>5. i * g <= m
    BY <2>3, <2>4
  <2>6. i * g <= Len(T)
    <3>1. PICK a \in Nat, b \in Nat : a = i * g /\ b = Len(T)
      BY <1>2, <2>3
    <3>2. m <= b
      BY <2>4, <3>1
    <3> QED BY <2>5, <3>1, <3>2
  <2> QED BY <2>1, <2>2, <2>3, <2>5, <2>6
<1>6. ASSUME NEW i \in 1 .. n PROVE HeldPage(Page, key, row, table[i], T, i)
  BY <1>5, FullPage
<1>7. ASSUME NEW i \in 1 .. n, NEW j \in 1 .. n, table[i] = table[j] PROVE i = j
  <2>1. SubSeq(T, 1, i * Page) = SubSeq(T, 1, j * Page)
    BY <1>7
  <2>2. PICK a \in Nat \ {0}, b \in Nat \ {0} : a = i /\ b = j
    BY <1>5
  <2>3. /\ a * Page <= Len(Texts[line]) /\ b * Page <= Len(Texts[line])
        /\ SubSeq(Texts[line], 1, a * Page) = SubSeq(Texts[line], 1, b * Page)
    <3>1. i * Page <= Len(T) /\ j * Page <= Len(T)
      BY <1>5
    <3> QED BY <2>1, <2>2, <3>1
  <2>4. a = b
    BY <1>1, <2>3, SameText
  <2> QED BY <2>2, <2>4
<1>8. Paged(table)
  BY <1>3, <1>7 DEF Paged
<1>9. KeysHold(Page, key, table, T, m)
  <2> SUFFICES ASSUME NEW pos \in Nat, pos < m
               PROVE  key[table[pos \div Page + 1]][pos % Page] = T[pos + 1]
    BY DEF KeysHold
  <2>1. PICK i \in 1 .. n : i = pos \div Page + 1
    BY <1>1, <1>4, PageIndex
  <2> QED BY <1>6, <2>1 DEF HeldPage
<1>10. RowsHold(Page, row, table, T, m, m - DecodeQ)
  <2> SUFFICES ASSUME NEW pos \in Nat, pos % BucketSize = 0, Floor(pos) + Block <= m - DecodeQ,
                      Due(Page, pos, m)
               PROVE  row[table[pos \div Page + 1]][(pos % Page) \div BucketSize] =
                        RowText(T, pos)
    BY DEF RowsHold
  <2>1. Floor(pos) \in Nat /\ pos < Floor(pos) + Block
    BY FloorBounds
  <2>2. DecodeQ \in Nat /\ Block \in Nat
    BY LsaOK, BlockSize
  <2>3. pos < m
    BY <2>1, <2>2
  <2>4. PICK i \in 1 .. n : i = pos \div Page + 1
    BY <1>1, <1>4, <2>3, PageIndex
  <2>5. Floor(pos) + Block <= i * Page - DecodeQ
    <3>1. ~ (Floor(pos) + Block > m - DecodeQ)
      BY <2>1, <2>2
    <3> QED BY <2>4, <3>1 DEF Due
  <2> QED BY <1>6, <2>4, <2>5 DEF HeldPage
<1>11. \A i \in 1 .. n : cached[table[i]] # None
  BY <1>2, <1>5, NotNone
<1>12. 0 <= DecodeQ - 1
  BY LsaOK
<1> DEFINE x == [line |-> line, prompt |-> prompt, hit |-> m, ctx |-> m, slack |-> 0,
                 table |-> table]
<1>13. /\ x \in [line : 1 .. setup.texts, prompt : Nat, hit : Nat, ctx : Nat, slack : Nat,
                 table : Seq(Pages)]
       /\ x.line = line /\ x.prompt = prompt /\ x.hit = m /\ x.ctx = m /\ x.slack = 0
       /\ x.table = table
  BY <1>3
<1> HIDE DEF x, T
<1>14. \A i \in 1 .. n : i * Page <= m /\ cached[table[i]] = SubSeq(T, 1, i * Page)
  BY <1>5 DEF T
<1>15. m <= Len(T)
  BY <1>4 DEF T
<1>16. Owner(setup, x, key, row, cached)
  <2>1. x.ctx <= Len(x.table) * setup.page /\ x.ctx <= Len(Texts[x.line])
    BY <1>1, <1>3, <1>4, <1>13, <1>15 DEF T
  <2>2. x.slack <= DecodeQ - 1 /\ (x.ctx < x.prompt => x.slack = 0)
    BY <1>12, <1>13
  <2>3. /\ Paged(x.table)
        /\ KeysHold(setup.page, key, x.table, Texts[x.line], x.ctx)
        /\ RowsHold(setup.page, row, x.table, Texts[x.line], x.hit, x.ctx - DecodeQ)
    BY <1>1, <1>8, <1>9, <1>10, <1>13 DEF T
  <2>4. \A i \in 1 .. Len(x.table) :
          cached[x.table[i]] =
            IF i * setup.page <= x.ctx THEN SubSeq(Texts[x.line], 1, i * setup.page) ELSE None
    BY <1>1, <1>3, <1>13, <1>14 DEF T
  <2> QED BY <1>13, <2>1, <2>2, <2>3, <2>4 DEF Owner
<1> QED BY <1>3, <1>4, <1>11, <1>14, <1>16 DEF x

\* Changing one request: what is left to show of the invariant.
LEMMA OneRequest ==
  ASSUME NEW st, NEW rq, NEW ks, NEW rs, NEW ch, NEW r \in Requests, NEW x,
         DOMAIN rq = Requests, st \in Setups,
         \A p \in Pages : DOMAIN rs[p] = 0 .. st.page \div BucketSize - 1,
         \A p \in Pages : ch[p] # None => CachedPage(st, ks, rs, ch, p),
         x # None => Owner(st, x, ks, rs, ch),
         \A s \in Requests : s # r /\ rq[s] # None => Owner(st, rq[s], ks, rs, ch),
         \A s \in Requests : s # r /\ rq[s] # None /\ x # None =>
           Apart(st, x, rq[s]) /\ Apart(st, rq[s], x),
         \A s, t \in Requests : s # t /\ rq[s] # None /\ rq[t] # None => Apart(st, rq[s], rq[t])
  PROVE  Good(st, [rq EXCEPT ![r] = x], ks, rs, ch)
<1> DEFINE new == [rq EXCEPT ![r] = x]
<1>1. DOMAIN new = Requests /\ \A s \in Requests : new[s] = IF s = r THEN x ELSE rq[s]
  OBVIOUS
<1> HIDE DEF new
<1>2. ASSUME NEW s \in Requests, new[s] # None PROVE Owner(st, new[s], ks, rs, ch)
  BY <1>1, <1>2
<1>3. ASSUME NEW s \in Requests, NEW t \in Requests, s # t, new[s] # None, new[t] # None
      PROVE  Apart(st, new[s], new[t])
  BY <1>1, <1>3
<1>4. Good(st, new, ks, rs, ch)
  BY <1>1, <1>2, <1>3 DEF Good
<1> QED BY <1>4 DEF new

LEMMA StartInv ==
  ASSUME Regular, Inv, NEW r \in Requests, NEW line \in 1 .. setup.texts,
         NEW prompt \in setup.prompts, Start(r, line, prompt)
  PROVE  Inv'
<1>1. setup \in Setups /\ Page = setup.page
  BY DEF Inv, Good, Page
<1> DEFINE Hit(n, table) ==
        /\ \A i \in 1 .. n : cached[table[i]] = SubSeq(Texts[line], 1, i * Page)
        /\ req' = [req EXCEPT ![r] = [line |-> line, prompt |-> prompt, hit |-> n * Page,
                                      ctx |-> n * Page, slack |-> 0, table |-> table]]
<1>0. PICK n \in 0 .. (prompt - 1) \div Page : \E table \in [1 .. n -> Pages] : Hit(n, table)
  BY DEF Start
<1>2. PICK table \in [1 .. n -> Pages] : Hit(n, table)
  BY <1>0
<1>3. prompt \in Nat \ {0} /\ prompt <= Len(Texts[line]) /\ Len(Texts[line]) \in Nat
  BY <1>1, LsaOK, TextTypes
<1>4. n \in Nat /\ n * Page <= prompt - 1
  <2>1. PICK g \in Nat \ {0}, a \in Nat : g = Page /\ a = prompt - 1
    <3>1. prompt - 1 \in Nat
      BY <1>3
    <3> QED BY <1>1, <3>1, PageSize
  <2>2. a \div g \in Nat /\ (a \div g) * g <= a
    BY <2>1, Z3
  <2>3. n \in Nat /\ n <= a \div g
    BY <2>1, <2>2
  <2>4. n * g <= (a \div g) * g /\ n * g \in Nat /\ (a \div g) * g \in Nat
    BY <2>1, <2>2, <2>3, Z3
  <2> QED BY <2>1, <2>2, <2>3, <2>4
<1>5. n * Page <= Len(Texts[line])
  <2>1. PICK m \in Nat : m = n * Page
    BY <1>1, <1>4, Times
  <2> QED BY <1>3, <1>4, <2>1
<1> DEFINE x == [line |-> line, prompt |-> prompt, hit |-> n * Page, ctx |-> n * Page,
                 slack |-> 0, table |-> table]
<1>6. /\ Owner(setup, x, key, row, cached)
      /\ Len(x.table) = n /\ x.ctx = n * Page /\ x.table = table
      /\ \A i \in 1 .. n : i * Page <= n * Page /\ cached[table[i]] # None
  BY <1>2, <1>3, <1>4, <1>5, HitOwner
<1>7. req' = [req EXCEPT ![r] = x]
  BY <1>2
<1> HIDE DEF x
<1>8. ASSUME NEW s \in Requests, s # r, req[s] # None
      PROVE  Apart(setup, x, req[s]) /\ Apart(setup, req[s], x)
  <2>1. Owner(setup, req[s], key, row, cached)
    BY <1>8 DEF Inv, Good
  <2>2. Apart(setup, x, req[s])
    <3> SUFFICES ASSUME NEW i \in 1 .. n PROVE ~ (i * setup.page > x.ctx)
      BY <1>6 DEF Apart
    <3>1. i \in Nat
      BY <1>4
    <3>2. i * Page \in Nat /\ n * Page \in Nat
      BY <1>1, <1>4, <3>1, Times
    <3>3. i * setup.page <= x.ctx
      BY <1>1, <1>6
    <3> QED BY <1>1, <1>6, <3>2, <3>3
  <2>3. Apart(setup, req[s], x)
    <3> SUFFICES ASSUME NEW i \in 1 .. Len(req[s].table), NEW j \in 1 .. n,
                        i * setup.page > req[s].ctx, req[s].table[i] = table[j]
                 PROVE  FALSE
      BY <1>6 DEF Apart
    <3>1. ~ (i * setup.page <= req[s].ctx)
      <4>1. req[s].ctx \in Nat /\ Len(req[s].table) \in Nat
        BY <2>1 DEF Owner
      <4>2. i \in Nat
        BY <4>1
      <4>3. i * Page \in Nat
        BY <1>1, <4>2, Times
      <4> QED BY <1>1, <4>1, <4>3
    <3>2. cached[req[s].table[i]] = None
      BY <2>1, <3>1 DEF Owner
    <3> QED BY <1>6, <3>2
  <2> QED BY <2>2, <2>3
<1>9. Good(setup, [req EXCEPT ![r] = x], key, row, cached)
  <2>1. /\ DOMAIN req = Requests
        /\ \A p \in Pages : DOMAIN row[p] = 0 .. setup.page \div BucketSize - 1
        /\ \A p \in Pages : cached[p] # None => CachedPage(setup, key, row, cached, p)
        /\ \A s \in Requests : req[s] # None => Owner(setup, req[s], key, row, cached)
        /\ \A s, t \in Requests : s # t /\ req[s] # None /\ req[t] # None =>
             Apart(setup, req[s], req[t])
    BY DEF Inv, Good
  <2> QED BY <1>1, <1>6, <1>8, <2>1, OneRequest
<1>10. setup' = setup /\ key' = key /\ row' = row /\ cached' = cached
  BY DEF Start
<1> QED BY <1>7, <1>9, <1>10 DEF Inv

LEMMA FinishInv ==
  ASSUME Inv, NEW r \in Requests, Finish(r)
  PROVE  Inv'
<1>1. Good(setup, [req EXCEPT ![r] = None], key, row, cached)
  BY OneRequest DEF Inv, Good
<1>2. /\ setup' = setup /\ key' = key /\ row' = row /\ cached' = cached
      /\ req' = [req EXCEPT ![r] = None]
  BY DEF Finish
<1> QED BY <1>1, <1>2 DEF Inv

LEMMA InitInv == Init => Inv
<1> SUFFICES ASSUME Init PROVE Inv
  OBVIOUS
<1>1. DOMAIN req = Requests /\ \A r \in Requests : req[r] = None
  BY DEF Init
<1>2. \A p \in Pages : cached[p] = None
  BY DEF Init
<1>3. \A p \in Pages : DOMAIN row[p] = 0 .. setup.page \div BucketSize - 1
  BY DEF Init
<1>4. setup \in Setups
  BY DEF Init
<1> QED BY <1>1, <1>2, <1>3, <1>4 DEF Inv, Good

-----------------------------------------------------------------------------
(* A step.                                                                 *)

\* What a step of q tokens finds: the request's table, grown for them.
Ready(x, table, q, late, final) ==
  /\ Owner(setup, x, key, row, cached)
  /\ Paged(table) /\ Len(x.table) <= Len(table)
  /\ \A i \in 1 .. Len(x.table) : table[i] = x.table[i]
  /\ q \in Nat /\ late \in Nat /\ final \in Nat
  /\ x.ctx + q <= Len(table) * Page /\ x.ctx + q <= Len(Texts[x.line])
  /\ x.ctx <= late /\ late <= x.ctx + DecodeQ - 1
  /\ x.ctx <= final /\ final <= x.ctx + q
  /\ q > DecodeQ => late = x.ctx /\ final = x.ctx + q

Tokens(x, q, final) ==
  [t \in x.ctx .. x.ctx + q - 1 |-> IF t < final THEN Texts[x.line][t + 1] ELSE Wrong]
Wrote(x, table, q, final) == Written(table, Tokens(x, q, final))
NewRows(x, table, q, late, final) ==
  StepRows(row, key, Wrote(x, table, q, final), table, x.ctx, q, late)
NewCache(x, table, final) ==
  [p \in Pages |->
     IF \E i \in 1 .. final \div Page : table[i] = p
     THEN LET i == CHOOSE i \in 1 .. final \div Page : table[i] = p
          IN SubSeq(Texts[x.line], 1, i * Page)
     ELSE IF p \in ToSet(table) THEN None ELSE cached[p]]

LEMMA ReadyTypes ==
  ASSUME setup \in Setups, NEW x, NEW table, NEW q, NEW late, NEW final,
         Ready(x, table, q, late, final)
  PROVE  /\ q \in Nat /\ late \in Nat /\ final \in Nat /\ x.ctx \in Nat
         /\ Paged(table) /\ Len(table) \in Nat /\ Len(table) * Page \in Nat
         /\ Paged(x.table) /\ Len(x.table) \in Nat /\ x.ctx <= Len(x.table) * Page
         /\ x.line \in 1 .. setup.texts /\ x.hit \in Nat
         /\ x.ctx + q <= Len(table) * Page /\ x.ctx <= final /\ final <= x.ctx + q
         /\ final <= Len(Texts[x.line]) /\ Len(Texts[x.line]) \in Nat
         /\ Clusterable(x.ctx, q) \in Nat /\ Clusterable(x.ctx, q) <= final
         /\ final - DecodeQ <= Clusterable(x.ctx, q)
<1>1. /\ q \in Nat /\ late \in Nat /\ final \in Nat /\ x.ctx \in Nat /\ x.hit \in Nat
      /\ Paged(table) /\ Paged(x.table) /\ x.ctx <= Len(x.table) * Page
      /\ x.line \in 1 .. setup.texts
      /\ x.ctx + q <= Len(table) * Page /\ x.ctx <= final /\ final <= x.ctx + q
      /\ x.ctx + q <= Len(Texts[x.line]) /\ (q > DecodeQ => final = x.ctx + q)
  BY DEF Ready, Owner, Page
<1>2. Len(table) \in Nat /\ Len(x.table) \in Nat
  BY <1>1 DEF Paged
<1>3. Len(table) * Page \in Nat
  BY <1>2, Times
<1>4. Len(Texts[x.line]) \in Nat
  BY <1>1, TextTypes
<1>5. DecodeQ \in Nat
  BY LsaOK
<1>6. /\ Clusterable(x.ctx, q) \in Nat /\ Clusterable(x.ctx, q) <= final
      /\ final - DecodeQ <= Clusterable(x.ctx, q)
  BY <1>1, <1>5 DEF Clusterable
<1> QED BY <1>1, <1>2, <1>3, <1>4, <1>6

LEMMA SamePageOf ==
  ASSUME setup \in Setups, NEW x, NEW table, NEW q, NEW late, NEW final,
         Ready(x, table, q, late, final), NEW pos \in Nat, pos < x.ctx
  PROVE  table[pos \div Page + 1] = x.table[pos \div Page + 1]
<1>1. Len(x.table) \in Nat /\ pos < Len(x.table) * Page
  <2>1. /\ x.ctx \in Nat /\ Len(x.table) \in Nat /\ x.ctx <= Len(x.table) * Page
    BY ReadyTypes
  <2>2. PICK n \in Nat : n = Len(x.table) * Page
    BY <2>1, Times
  <2> QED BY <2>1, <2>2
<1>2. pos \div Page + 1 \in 1 .. Len(x.table)
  BY <1>1, PageIndex
<1> QED BY <1>2 DEF Ready

LEMMA StepKeys ==
  ASSUME setup \in Setups, NEW x, NEW table, NEW q, NEW late, NEW final,
         Ready(x, table, q, late, final)
  PROVE  /\ KeysHold(Page, key, table, Texts[x.line], x.ctx)
         /\ KeysHold(Page, Wrote(x, table, q, final), table, Texts[x.line], final)
         /\ KeysHold(Page, Wrote(x, table, q, final), table, Texts[x.line], Clusterable(x.ctx, q))
<1>1. KeysHold(Page, key, table, Texts[x.line], x.ctx)
  <2> SUFFICES ASSUME NEW pos \in Nat, pos < x.ctx
               PROVE  key[table[pos \div Page + 1]][pos % Page] = Texts[x.line][pos + 1]
    BY DEF KeysHold
  <2>1. key[x.table[pos \div Page + 1]][pos % Page] = Texts[x.line][pos + 1]
    BY DEF Ready, Owner, KeysHold, Page
  <2> QED BY <2>1, SamePageOf
<1>2. /\ q \in Nat /\ final \in Nat /\ x.ctx \in Nat
      /\ Paged(table) /\ Len(table) * Page \in Nat
      /\ x.ctx + q <= Len(table) * Page /\ x.ctx <= final /\ final <= x.ctx + q
  BY ReadyTypes
<1>3. DOMAIN Tokens(x, q, final) = x.ctx .. x.ctx + q - 1
  BY DEF Tokens
<1>4. \A t \in DOMAIN Tokens(x, q, final) : t \in Nat /\ t < Len(table) * Page
  BY <1>2, <1>3
<1>5. KeysHold(Page, Wrote(x, table, q, final), table, Texts[x.line], final)
  <2> SUFFICES ASSUME NEW pos \in Nat, pos < final
               PROVE  KeyAt(Wrote(x, table, q, final), table, pos) = Texts[x.line][pos + 1]
    BY DEF KeysHold, KeyAt, PageOf
  <2>1. pos < Len(table) * Page
    BY <1>2
  <2>2. KeyAt(Wrote(x, table, q, final), table, pos) =
          IF pos \in DOMAIN Tokens(x, q, final) THEN Tokens(x, q, final)[pos]
          ELSE KeyAt(key, table, pos)
    BY <1>2, <1>4, <2>1, WrittenKey DEF Wrote
  <2>3. CASE pos < x.ctx
    <3>1. pos \notin DOMAIN Tokens(x, q, final)
      BY <1>2, <1>3, <2>3
    <3>2. KeyAt(key, table, pos) = Texts[x.line][pos + 1]
      BY <1>1, <2>3 DEF KeysHold, KeyAt, PageOf
    <3> QED BY <2>2, <3>1, <3>2
  <2>4. CASE x.ctx <= pos
    <3>1. pos \in x.ctx .. x.ctx + q - 1
      BY <1>2, <2>4
    <3>2. Tokens(x, q, final)[pos] = Texts[x.line][pos + 1]
      BY <3>1 DEF Tokens
    <3> QED BY <1>3, <2>2, <3>1, <3>2
  <2> QED BY <1>2, <2>3, <2>4
<1>6. KeysHold(Page, Wrote(x, table, q, final), table, Texts[x.line], Clusterable(x.ctx, q))
  <2>1. Clusterable(x.ctx, q) \in Nat /\ Clusterable(x.ctx, q) <= final
    BY ReadyTypes
  <2> QED BY <1>2, <1>5, <2>1 DEF KeysHold
<1> QED BY <1>1, <1>5, <1>6

LEMMA StepKeepsRows ==
  ASSUME 2 * DecodeQ <= Block + 1, setup \in Setups, RowShape(row),
         NEW x, NEW table, NEW q, NEW late, NEW final, Ready(x, table, q, late, final)
  PROVE  /\ RowsHold(Page, NewRows(x, table, q, late, final), table, Texts[x.line], x.hit,
                     Clusterable(x.ctx, q))
         /\ RowsHold(Page, NewRows(x, table, q, late, final), table, Texts[x.line], x.hit,
                     final - DecodeQ)
<1>1. /\ q \in Nat /\ late \in Nat /\ final \in Nat /\ x.ctx \in Nat /\ x.hit \in Nat
      /\ Paged(table) /\ x.ctx + q <= Len(table) * Page
      /\ Clusterable(x.ctx, q) \in Nat /\ final - DecodeQ <= Clusterable(x.ctx, q)
  BY ReadyTypes
<1>2. DecodeQ \in Nat /\ Block \in Nat \ {0}
  BY LsaOK, BlockSize
<1>3. RowsHold(Page, row, table, Texts[x.line], x.hit, x.ctx - DecodeQ)
  <2> SUFFICES ASSUME NEW pos \in Nat, pos % BucketSize = 0,
                      Floor(pos) + Block <= x.ctx - DecodeQ, Due(Page, pos, x.hit)
               PROVE  row[table[pos \div Page + 1]][(pos % Page) \div BucketSize] =
                        RowText(Texts[x.line], pos)
    BY DEF RowsHold
  <2>1. Floor(pos) \in Nat /\ pos < Floor(pos) + Block
    BY FloorBounds
  <2>2. pos < x.ctx
    BY <1>1, <1>2, <2>1
  <2>3. row[x.table[pos \div Page + 1]][(pos % Page) \div BucketSize] =
          RowText(Texts[x.line], pos)
    BY DEF Ready, Owner, RowsHold, Page
  <2> QED BY <2>2, <2>3, SamePageOf
<1>4. x.ctx <= late /\ late <= x.ctx + DecodeQ - 1 /\ (q > DecodeQ => late = x.ctx)
  BY DEF Ready
<1>5. RowsHold(Page, NewRows(x, table, q, late, final), table, Texts[x.line], x.hit,
               Clusterable(x.ctx, q))
  BY <1>1, <1>3, <1>4, StepKeys, StepRowsHold DEF NewRows
<1>6. ASSUME NEW pos \in Nat, Floor(pos) + Block <= final - DecodeQ
      PROVE  Floor(pos) + Block <= Clusterable(x.ctx, q)
  <2>1. Floor(pos) \in Nat
    BY FloorBounds
  <2>2. PICK e \in Nat : e = Floor(pos) + Block
    BY <1>2, <2>1
  <2> QED BY <1>1, <1>2, <1>6, <2>2
<1>7. RowsHold(Page, NewRows(x, table, q, late, final), table, Texts[x.line], x.hit,
               final - DecodeQ)
  BY <1>5, <1>6 DEF RowsHold
<1> QED BY <1>5, <1>7

LEMMA StepCache ==
  ASSUME setup \in Setups, NEW x, NEW table, NEW q, NEW late, NEW final,
         Ready(x, table, q, late, final)
  PROVE  /\ \A i \in 1 .. Len(table) :
              NewCache(x, table, final)[table[i]] =
                IF i * Page <= final THEN SubSeq(Texts[x.line], 1, i * Page) ELSE None
         /\ \A p \in Pages : (\A i \in 1 .. Len(table) : table[i] # p) =>
              NewCache(x, table, final)[p] = cached[p]
<1>1. /\ final \in Nat /\ Paged(table) /\ Len(table) \in Nat
      /\ final <= x.ctx + q /\ x.ctx + q <= Len(table) * Page
      /\ x.ctx \in Nat /\ q \in Nat /\ Len(table) * Page \in Nat
  BY ReadyTypes
<1>2. PICK g \in Nat \ {0} : g = Page
  BY PageSize
<1>3. PICK full \in Nat : full = final \div Page
  <2>1. final \div g \in Nat
    BY <1>1, <1>2, Z3
  <2> QED BY <1>2, <2>1
<1>4. full <= Len(table)
  <2>1. PICK n \in Nat : n = Len(table) /\ final <= n * g
    BY <1>1, <1>2
  <2>2. final \div g <= n
    BY <1>1, <1>2, <2>1, Z3
  <2> QED BY <1>2, <1>3, <2>1, <2>2
<1>5. ASSUME NEW i \in Nat PROVE i <= full <=> i * Page <= final
  <2>1. i <= final \div g <=> i * g <= final
    BY <1>1, <1>2, Z3
  <2> QED BY <1>2, <1>3, <2>1
<1>6. table \in Seq(Pages) /\ \A i, j \in 1 .. Len(table) : table[i] = table[j] => i = j
  BY <1>1 DEF Paged
<1>7. ASSUME NEW i \in 1 .. Len(table)
      PROVE  NewCache(x, table, final)[table[i]] =
               IF i * Page <= final THEN SubSeq(Texts[x.line], 1, i * Page) ELSE None
  <2>1. table[i] \in Pages /\ i \in Nat /\ table[i] \in ToSet(table)
    BY <1>1, <1>6 DEF ToSet
  <2>2. CASE i <= full
    <3>1. i \in 1 .. final \div Page
      BY <1>3, <2>1, <2>2
    <3>2. PICK j \in 1 .. final \div Page :
            /\ j = CHOOSE k \in 1 .. final \div Page : table[k] = table[i]
            /\ table[j] = table[i]
      BY <3>1
    <3>3. j = i
      BY <1>1, <1>3, <1>4, <1>6, <3>2
    <3>4. NewCache(x, table, final)[table[i]] = SubSeq(Texts[x.line], 1, j * Page)
      BY <2>1, <3>1, <3>2 DEF NewCache
    <3> QED BY <1>5, <2>1, <2>2, <3>3, <3>4
  <2>3. CASE ~ (i <= full)
    <3>1. ~ \E j \in 1 .. final \div Page : table[j] = table[i]
      <4> SUFFICES ASSUME NEW j \in 1 .. full, table[j] = table[i] PROVE FALSE
        BY <1>3
      <4>1. j \in 1 .. Len(table)
        BY <1>1, <1>4
      <4> QED BY <1>6, <2>3, <4>1
    <3>2. NewCache(x, table, final)[table[i]] = None
      BY <2>1, <3>1 DEF NewCache
    <3> QED BY <1>5, <2>1, <2>3, <3>2
  <2> QED BY <2>2, <2>3
<1>8. ASSUME NEW p \in Pages, \A i \in 1 .. Len(table) : table[i] # p
      PROVE  NewCache(x, table, final)[p] = cached[p]
  <2>1. ~ \E i \in 1 .. final \div Page : table[i] = p
    <3>1. \A i \in 1 .. full : i \in 1 .. Len(table)
      BY <1>1, <1>4
    <3> QED BY <1>3, <1>8, <3>1
  <2>2. p \notin ToSet(table)
    BY <1>6, <1>8 DEF ToSet
  <2> QED BY <2>1, <2>2 DEF NewCache
<1> QED BY <1>7, <1>8

\* Its slots outside the table's pages keep keys and rows.
LEMMA StepAway ==
  ASSUME setup \in Setups, RowShape(row),
         NEW x, NEW table, NEW q, NEW late, NEW final, Ready(x, table, q, late, final),
         NEW p \in Pages, \A i \in 1 .. Len(table) : table[i] # p, NEW pos \in Nat
  PROVE  /\ Wrote(x, table, q, final)[p][pos % Page] = key[p][pos % Page]
         /\ NewRows(x, table, q, late, final)[p][(pos % Page) \div BucketSize] =
              row[p][(pos % Page) \div BucketSize]
<1>1. /\ final \in Nat /\ Paged(table) /\ x.ctx \in Nat /\ q \in Nat /\ late \in Nat
      /\ x.ctx + q <= Len(table) * Page /\ Len(table) * Page \in Nat
  BY ReadyTypes
<1>2. PICK s \in Nat \ {0}, n \in Nat \ {0} : s = BucketSize /\ Page = n * s
  BY PageSize, BlockSize
<1>3. PICK g \in Nat \ {0} : g = Page
  BY PageSize
<1>4. PICK o \in 0 .. g - 1 : o = pos % Page
  <2>1. pos % g \in 0 .. g - 1
    BY <1>3, Z3
  <2> QED BY <1>3, <2>1
<1>5. o \div BucketSize \in 0 .. Page \div BucketSize - 1
  <2>1. o \in Nat /\ o < n * s
    BY <1>2, <1>3, <1>4
  <2>2. o \div s \in Nat /\ o \div s < n /\ (n * s) \div s = n
    BY <1>2, <2>1, Z3
  <2> QED BY <1>2, <2>2
<1>6. \A t \in DOMAIN Tokens(x, q, final) : t \in Nat /\ t < Len(table) * Page
  BY <1>1 DEF Tokens
<1>7. Wrote(x, table, q, final)[p][o] = key[p][o]
  <2>1. o \in 0 .. Page - 1
    BY <1>3
  <2> QED BY <1>1, <1>6, <2>1, WrittenElsewhere DEF Wrote
<1>8. NewRows(x, table, q, late, final)[p][o \div BucketSize] = row[p][o \div BucketSize]
  <2>1. PICK r \in 0 .. Page \div BucketSize - 1 : r = o \div BucketSize
    BY <1>5
  <2>2. PICK wrote : wrote = Wrote(x, table, q, final)
    OBVIOUS
  <2>3. PICK ctx \in Nat : ctx = x.ctx
    BY <1>1
  <2>4. StepRows(row, key, wrote, table, ctx, q, late)[p][r] = row[p][r]
    <3>1. ctx + q <= Len(table) * Page
      BY <1>1, <2>3
    <3> QED BY <1>1, <3>1, StepElsewhere
  <2> QED BY <2>1, <2>2, <2>3, <2>4 DEF NewRows
<1> QED BY <1>4, <1>7, <1>8

LEMMA OwnerAfter ==
  ASSUME 2 * DecodeQ <= Block + 1, Inv,
         NEW x, NEW table, NEW q, NEW late, NEW final, Ready(x, table, q, late, final),
         NEW slack \in Nat, slack <= DecodeQ - 1, final < x.prompt => slack = 0
  PROVE  Owner(setup, [x EXCEPT !.table = table, !.ctx = final, !.slack = slack],
               Wrote(x, table, q, final), NewRows(x, table, q, late, final),
               NewCache(x, table, final))
<1> DEFINE y == [x EXCEPT !.table = table, !.ctx = final, !.slack = slack]
<1>1. setup \in Setups /\ Page = setup.page /\ RowShape(row)
  BY DEF Inv, Good, Page, RowShape
<1>2. /\ final \in Nat /\ Paged(table) /\ Len(table) * Page \in Nat
      /\ x.ctx + q <= Len(table) * Page /\ final <= x.ctx + q /\ x.ctx \in Nat /\ q \in Nat
      /\ final <= Len(Texts[x.line])
  BY <1>1, ReadyTypes
<1>3. x \in [line : 1 .. setup.texts, prompt : Nat, hit : Nat, ctx : Nat, slack : Nat,
             table : Seq(Pages)]
  BY DEF Ready, Owner
<1>4. table \in Seq(Pages)
  BY <1>2 DEF Paged
<1>5. /\ y \in [line : 1 .. setup.texts, prompt : Nat, hit : Nat, ctx : Nat, slack : Nat,
                table : Seq(Pages)]
      /\ y.line = x.line /\ y.prompt = x.prompt /\ y.hit = x.hit /\ y.ctx = final
      /\ y.slack = slack /\ y.table = table
  BY <1>2, <1>3, <1>4
<1> HIDE DEF y
<1>6. KeysHold(Page, Wrote(x, table, q, final), table, Texts[x.line], final)
  BY <1>1, StepKeys
<1>7. RowsHold(Page, NewRows(x, table, q, late, final), table, Texts[x.line], x.hit,
               final - DecodeQ)
  BY <1>1, StepKeepsRows
<1>8. \A i \in 1 .. Len(table) :
        NewCache(x, table, final)[table[i]] =
          IF i * Page <= final THEN SubSeq(Texts[x.line], 1, i * Page) ELSE None
  BY <1>1, StepCache
<1>9. y.ctx <= Len(y.table) * setup.page /\ y.ctx <= Len(Texts[y.line])
  BY <1>1, <1>2, <1>5
<1>10. y.slack <= DecodeQ - 1 /\ (y.ctx < y.prompt => y.slack = 0)
  BY <1>5
<1>11. Owner(setup, y, Wrote(x, table, q, final), NewRows(x, table, q, late, final),
             NewCache(x, table, final))
  BY <1>1, <1>2, <1>5, <1>6, <1>7, <1>8, <1>9, <1>10 DEF Owner
<1> QED BY <1>11 DEF y

\* The step's pages that are also another's: full ones, of both.
Shares(x, table, y) ==
  \A i \in 1 .. Len(table), j \in 1 .. Len(y.table) :
    table[i] = y.table[j] =>
      i <= Len(x.table) /\ ~ (i * Page > x.ctx) /\ ~ (j * Page > y.ctx)

LEMMA SharedPage ==
  ASSUME Regular, Inv, NEW x, NEW table, NEW q, NEW late, NEW final,
         Ready(x, table, q, late, final),
         NEW y, Owner(setup, y, key, row, cached), Shares(x, table, y),
         NEW i \in 1 .. Len(table), NEW j \in 1 .. Len(y.table), table[i] = y.table[j]
  PROVE  /\ i = j /\ i * Page <= x.ctx /\ i * Page \in Nat
         /\ Agree(Page, Texts[x.line], Texts[y.line], i)
<1>1. setup \in Setups /\ Page = setup.page
  BY DEF Inv, Good, Page
<1>2. /\ x.ctx \in Nat /\ Len(table) \in Nat /\ Len(x.table) \in Nat
      /\ x.line \in 1 .. setup.texts /\ x.ctx <= final /\ final <= Len(Texts[x.line])
      /\ Len(Texts[x.line]) \in Nat /\ final \in Nat
  BY <1>1, ReadyTypes
<1>3. /\ y.ctx \in Nat /\ Len(y.table) \in Nat /\ y.line \in 1 .. setup.texts
      /\ y.ctx <= Len(Texts[y.line])
  BY DEF Owner
<1>4. Len(Texts[y.line]) \in Nat
  BY <1>1, <1>3, TextTypes
<1>5. i \in Nat \ {0} /\ j \in Nat \ {0}
  BY <1>2, <1>3
<1>6. i * Page \in Nat /\ j * Page \in Nat
  BY <1>1, <1>5, Times
<1>7. i <= Len(x.table) /\ ~ (i * Page > x.ctx) /\ ~ (j * Page > y.ctx)
  BY DEF Shares
<1>8. i * Page <= x.ctx /\ j * Page <= y.ctx
  <2>1. PICK a \in Nat, b \in Nat, c \in Nat, d \in Nat :
          a = i * Page /\ b = j * Page /\ c = x.ctx /\ d = y.ctx
    BY <1>2, <1>3, <1>6
  <2>2. ~ (a > c) /\ ~ (b > d)
    BY <1>7, <2>1
  <2> QED BY <2>1, <2>2
<1>9. i \in 1 .. Len(x.table) /\ table[i] = x.table[i]
  BY <1>2, <1>5, <1>7 DEF Ready
<1>10. cached[table[i]] = SubSeq(Texts[x.line], 1, i * Page)
  BY <1>1, <1>8, <1>9 DEF Ready, Owner
<1>11. cached[table[i]] = SubSeq(Texts[y.line], 1, j * Page)
  BY <1>1, <1>8 DEF Owner
<1>12. i * Page <= Len(Texts[x.line]) /\ j * Page <= Len(Texts[y.line])
  <2>1. PICK a \in Nat, b \in Nat, c \in Nat, d \in Nat :
          a = i * Page /\ b = j * Page /\ c = Len(Texts[x.line]) /\ d = Len(Texts[y.line])
    BY <1>2, <1>4, <1>6
  <2>2. a <= c
    BY <1>2, <1>8, <2>1
  <2>3. b <= d
    BY <1>3, <1>8, <2>1
  <2> QED BY <2>1, <2>2, <2>3
<1>13. PICK l \in 1 .. setup.texts, m \in 1 .. setup.texts : l = x.line /\ m = y.line
  BY <1>2, <1>3
<1>14. PICK a \in Nat \ {0}, b \in Nat \ {0} : a = i /\ b = j
  BY <1>5
<1>15. /\ a * Page <= Len(Texts[l]) /\ b * Page <= Len(Texts[m])
       /\ SubSeq(Texts[l], 1, a * Page) = SubSeq(Texts[m], 1, b * Page)
  BY <1>10, <1>11, <1>12, <1>13, <1>14
<1>16. a = b /\ Agree(Page, Texts[l], Texts[m], a)
  BY <1>1, <1>15, SameText
<1> QED BY <1>6, <1>8, <1>13, <1>14, <1>16

\* A slot of another request: its key and its row are as they were, or made anew
\* from the same text.
LEMMA OtherSlot ==
  ASSUME Regular, Inv, NEW x, NEW table, NEW q, NEW late, NEW final,
         Ready(x, table, q, late, final),
         NEW y, Owner(setup, y, key, row, cached), Shares(x, table, y),
         NEW j \in 1 .. Len(y.table), NEW pos \in Nat, pos \div Page + 1 = j
  PROVE  /\ Wrote(x, table, q, final)[y.table[j]][pos % Page] = key[y.table[j]][pos % Page]
         /\ pos % BucketSize = 0 =>
              LET new == NewRows(x, table, q, late, final)[y.table[j]][(pos % Page) \div BucketSize]
              IN \/ new = row[y.table[j]][(pos % Page) \div BucketSize]
                 \/ new = RowText(Texts[y.line], pos)
<1>1. setup \in Setups /\ Page = setup.page /\ RowShape(row)
  BY DEF Inv, Good, Page, RowShape
<1>2. /\ q \in Nat /\ late \in Nat /\ final \in Nat /\ x.ctx \in Nat
      /\ Paged(table) /\ Len(table) \in Nat /\ Len(table) * Page \in Nat
      /\ x.ctx + q <= Len(table) * Page /\ x.ctx <= final /\ final <= x.ctx + q
  BY <1>1, ReadyTypes
<1>3. y.table[j] \in Pages
  BY DEF Owner
<1>4. CASE \A i \in 1 .. Len(table) : table[i] # y.table[j]
  BY <1>1, <1>3, <1>4, StepAway
<1>5. CASE \E i \in 1 .. Len(table) : table[i] = y.table[j]
  <2>1. PICK i \in 1 .. Len(table) : table[i] = y.table[j]
    BY <1>5
  <2>2. /\ i = j /\ i * Page <= x.ctx /\ i * Page \in Nat
        /\ Agree(Page, Texts[x.line], Texts[y.line], i)
    BY <2>1, SharedPage
  <2>3. pos < i * Page
    <3>1. i \in Nat \ {0}
      BY <1>2
    <3> QED BY <1>1, <2>2, <3>1, InPage
  <2>4. pos < x.ctx /\ pos < Len(table) * Page
    BY <1>2, <2>2, <2>3
  <2>5. table[pos \div Page + 1] = y.table[j]
    BY <2>1, <2>2
  <2>6. Wrote(x, table, q, final)[y.table[j]][pos % Page] = key[y.table[j]][pos % Page]
    <3>1. \A t \in DOMAIN Tokens(x, q, final) : t \in Nat /\ t < Len(table) * Page
      BY <1>2 DEF Tokens
    <3>2. pos \notin DOMAIN Tokens(x, q, final)
      BY <1>2, <2>4 DEF Tokens
    <3>3. KeyAt(Wrote(x, table, q, final), table, pos) = KeyAt(key, table, pos)
      BY <1>1, <1>2, <2>4, <3>1, <3>2, WrittenKey DEF Wrote
    <3> QED BY <2>5, <3>3 DEF KeyAt, PageOf
  <2>7. ASSUME pos % BucketSize = 0
        PROVE  LET new == NewRows(x, table, q, late, final)[y.table[j]]
                            [(pos % Page) \div BucketSize]
               IN \/ new = row[y.table[j]][(pos % Page) \div BucketSize]
                  \/ new = RowText(Texts[y.line], pos)
    <3>1. BlockText(Texts[x.line], Floor(pos)) = BlockText(Texts[y.line], Floor(pos))
      BY <2>2 DEF Agree
    <3>2. /\ KeysHold(Page, key, table, Texts[x.line], x.ctx)
          /\ KeysHold(Page, Wrote(x, table, q, final), table, Texts[x.line],
                      Clusterable(x.ctx, q))
      BY <1>1, StepKeys
    <3>3. \/ RowAt(NewRows(x, table, q, late, final), table, pos) =
               RowText(Texts[x.line], pos)
          \/ RowAt(NewRows(x, table, q, late, final), table, pos) = RowAt(row, table, pos)
      BY <1>1, <1>2, <2>4, <2>7, <3>2, StepRow DEF NewRows
    <3> QED BY <2>5, <3>1, <3>3 DEF RowAt, PageOf, RowText
  <2> QED BY <2>6, <2>7
<1> QED BY <1>4, <1>5

LEMMA OtherAfter ==
  ASSUME Regular, Inv, NEW x, NEW table, NEW q, NEW late, NEW final,
         Ready(x, table, q, late, final),
         NEW y, Owner(setup, y, key, row, cached), Shares(x, table, y)
  PROVE  Owner(setup, y, Wrote(x, table, q, final), NewRows(x, table, q, late, final),
               NewCache(x, table, final))
<1> DEFINE ks == Wrote(x, table, q, final)
           rs == NewRows(x, table, q, late, final)
           ch == NewCache(x, table, final)
<1>1. setup \in Setups /\ Page = setup.page
  BY DEF Inv, Good, Page
<1>2. /\ y.ctx \in Nat /\ Len(y.table) \in Nat /\ y.ctx <= Len(y.table) * Page
      /\ y.table \in Seq(Pages) /\ y.line \in 1 .. setup.texts
  BY <1>1 DEF Owner
<1>3. Len(y.table) * Page \in Nat
  BY <1>1, <1>2, Times
<1>4. ASSUME NEW pos \in Nat, pos < y.ctx
      PROVE  pos \div Page + 1 \in 1 .. Len(y.table)
  BY <1>1, <1>2, <1>3, <1>4, PageIndex
<1>5. KeysHold(Page, ks, y.table, Texts[y.line], y.ctx)
  <2> SUFFICES ASSUME NEW pos \in Nat, pos < y.ctx
               PROVE  ks[y.table[pos \div Page + 1]][pos % Page] = Texts[y.line][pos + 1]
    BY DEF KeysHold
  <2>1. PICK j \in 1 .. Len(y.table) : j = pos \div Page + 1
    BY <1>4
  <2>2. ks[y.table[j]][pos % Page] = key[y.table[j]][pos % Page]
    BY <2>1, OtherSlot
  <2>3. key[y.table[j]][pos % Page] = Texts[y.line][pos + 1]
    BY <1>1, <2>1 DEF Owner, KeysHold
  <2> QED BY <2>1, <2>2, <2>3
<1>6. RowsHold(Page, rs, y.table, Texts[y.line], y.hit, y.ctx - DecodeQ)
  <2> SUFFICES ASSUME NEW pos \in Nat, pos % BucketSize = 0,
                      Floor(pos) + Block <= y.ctx - DecodeQ, Due(Page, pos, y.hit)
               PROVE  rs[y.table[pos \div Page + 1]][(pos % Page) \div BucketSize] =
                        RowText(Texts[y.line], pos)
    BY DEF RowsHold
  <2>1. Floor(pos) \in Nat /\ pos < Floor(pos) + Block
    BY FloorBounds
  <2>2. DecodeQ \in Nat /\ Block \in Nat
    BY LsaOK, BlockSize
  <2>3. pos < y.ctx
    BY <1>2, <2>1, <2>2
  <2>4. PICK j \in 1 .. Len(y.table) : j = pos \div Page + 1
    BY <1>4, <2>3
  <2>5. row[y.table[j]][(pos % Page) \div BucketSize] = RowText(Texts[y.line], pos)
    BY <1>1, <2>4 DEF Owner, RowsHold
  <2> HIDE DEF rs
  <2>6. \/ rs[y.table[j]][(pos % Page) \div BucketSize] =
             row[y.table[j]][(pos % Page) \div BucketSize]
        \/ rs[y.table[j]][(pos % Page) \div BucketSize] = RowText(Texts[y.line], pos)
    BY <2>4, OtherSlot DEF rs
  <2> QED BY <2>4, <2>5, <2>6
<1>7. ASSUME NEW j \in 1 .. Len(y.table)
      PROVE  ch[y.table[j]] = cached[y.table[j]]
  <2>1. y.table[j] \in Pages
    BY <1>2
  <2>2. CASE \A i \in 1 .. Len(table) : table[i] # y.table[j]
    BY <1>1, <2>1, <2>2, StepCache
  <2>3. CASE \E i \in 1 .. Len(table) : table[i] = y.table[j]
    <3>1. PICK i \in 1 .. Len(table) : table[i] = y.table[j]
      BY <2>3
    <3>2. i = j /\ i * Page <= x.ctx /\ i * Page \in Nat
      BY <3>1, SharedPage
    <3>3. /\ x.ctx \in Nat /\ final \in Nat /\ x.ctx <= final /\ Len(x.table) \in Nat
          /\ Len(table) \in Nat
      BY <1>1, ReadyTypes
    <3>4. i \in 1 .. Len(x.table) /\ table[i] = x.table[i]
      <4>1. i <= Len(x.table)
        BY <3>1 DEF Shares
      <4>2. i \in 1 .. Len(x.table)
        BY <3>3, <4>1
      <4> QED BY <4>2 DEF Ready
    <3>5. cached[table[i]] = SubSeq(Texts[x.line], 1, i * Page)
      BY <1>1, <3>2, <3>4 DEF Ready, Owner
    <3>6. i * Page <= final
      BY <3>2, <3>3
    <3>7. ch[table[i]] = SubSeq(Texts[x.line], 1, i * Page)
      <4>1. ch[table[i]] =
              IF i * Page <= final THEN SubSeq(Texts[x.line], 1, i * Page) ELSE None
        BY <1>1, StepCache
      <4> QED BY <3>6, <4>1
    <3> QED BY <3>1, <3>5, <3>7
  <2> QED BY <2>2, <2>3
<1> HIDE DEF ks, rs, ch
<1>8. Owner(setup, y, ks, rs, ch)
  <2>1. \A j \in 1 .. Len(y.table) :
          ch[y.table[j]] = IF j * setup.page <= y.ctx
                           THEN SubSeq(Texts[y.line], 1, j * setup.page) ELSE None
    BY <1>7 DEF Owner
  <2> QED BY <1>1, <1>5, <1>6, <2>1 DEF Owner
<1> QED BY <1>8 DEF ks, rs, ch

LEMMA CachedAfter ==
  ASSUME 2 * DecodeQ <= Block + 1, Inv,
         NEW x, NEW table, NEW q, NEW late, NEW final, Ready(x, table, q, late, final),
         NEW p \in Pages, NewCache(x, table, final)[p] # None
  PROVE  CachedPage(setup, Wrote(x, table, q, final), NewRows(x, table, q, late, final),
                    NewCache(x, table, final), p)
<1> DEFINE ks == Wrote(x, table, q, final)
           rs == NewRows(x, table, q, late, final)
           ch == NewCache(x, table, final)
<1>1. setup \in Setups /\ Page = setup.page /\ RowShape(row)
  BY DEF Inv, Good, Page, RowShape
<1>2. /\ final \in Nat /\ Len(table) \in Nat /\ x.line \in 1 .. setup.texts
      /\ final <= Len(Texts[x.line]) /\ Len(Texts[x.line]) \in Nat /\ x.hit \in Nat
  BY <1>1, ReadyTypes
<1>3. ch[p] # None
  OBVIOUS
<1>4. CASE \A i \in 1 .. Len(table) : table[i] # p
  <2>1. ch[p] = cached[p]
    BY <1>1, <1>4, StepCache
  <2>2. CachedPage(setup, key, row, cached, p)
    BY <1>3, <2>1 DEF Inv, Good
  <2>3. ASSUME NEW pos \in Nat
        PROVE  /\ ks[p][pos % Page] = key[p][pos % Page]
               /\ rs[p][(pos % Page) \div BucketSize] = row[p][(pos % Page) \div BucketSize]
    BY <1>1, <1>4, StepAway
  <2> HIDE DEF ks, rs, ch
  <2>4. PICK line \in 1 .. setup.texts, i \in Nat \ {0} :
          /\ i * Page <= Len(Texts[line])
          /\ cached[p] = SubSeq(Texts[line], 1, i * Page)
          /\ HeldPage(Page, key, row, p, Texts[line], i)
    BY <1>1, <2>2 DEF CachedPage
  <2>5. HeldPage(Page, ks, rs, p, Texts[line], i)
    BY <2>3, <2>4 DEF HeldPage
  <2>6. CachedPage(setup, ks, rs, ch, p)
    BY <1>1, <2>1, <2>4, <2>5 DEF CachedPage
  <2> QED BY <2>6 DEF ks, rs, ch
<1>5. CASE \E i \in 1 .. Len(table) : table[i] = p
  <2>1. PICK i \in 1 .. Len(table) : table[i] = p
    BY <1>5
  <2>2. i \in Nat \ {0}
    BY <1>2
  <2>3. PICK m \in Nat : m = i * Page
    BY <1>1, <2>2, Times
  <2>4. ch[p] = IF i * Page <= final THEN SubSeq(Texts[x.line], 1, i * Page) ELSE None
    BY <1>1, <2>1, StepCache
  <2>5. m <= final /\ ch[p] = SubSeq(Texts[x.line], 1, m)
    BY <1>3, <2>3, <2>4
  <2>6. KeysHold(Page, ks, table, Texts[x.line], final)
    BY <1>1, StepKeys
  <2>7. RowsHold(Page, rs, table, Texts[x.line], x.hit, final - DecodeQ)
    BY <1>1, StepKeepsRows
  <2> HIDE DEF ks, rs, ch
  <2>8. ASSUME NEW pos \in Nat, pos \div Page + 1 = i
        PROVE  ks[p][pos % Page] = Texts[x.line][pos + 1]
    <3>1. pos < m
      BY <1>1, <2>2, <2>3, <2>8, InPage
    <3>2. pos < final
      BY <1>2, <2>3, <2>5, <3>1
    <3> QED BY <2>1, <2>6, <2>8, <3>2 DEF KeysHold
  <2>9. ASSUME NEW pos \in Nat, pos % BucketSize = 0, pos \div Page + 1 = i,
               Floor(pos) + Block <= i * Page - DecodeQ
        PROVE  rs[p][(pos % Page) \div BucketSize] = RowText(Texts[x.line], pos)
    <3>1. PICK e \in Nat, d \in Nat : e = Floor(pos) + Block /\ d = DecodeQ
      <4>1. Floor(pos) \in Nat
        BY FloorBounds
      <4> QED BY <4>1, LsaOK, BlockSize
    <3>2. Floor(pos) + Block <= final - DecodeQ
      BY <1>2, <2>3, <2>5, <2>9, <3>1
    <3>3. Due(Page, pos, x.hit)
      BY <2>9 DEF Due
    <3> QED BY <2>1, <2>7, <2>9, <3>2, <3>3 DEF RowsHold
  <2>10. HeldPage(Page, ks, rs, p, Texts[x.line], i)
    BY <2>8, <2>9 DEF HeldPage
  <2>11. i * Page <= Len(Texts[x.line])
    BY <1>2, <2>3, <2>5
  <2>12. CachedPage(setup, ks, rs, ch, p)
    BY <1>1, <1>2, <2>2, <2>3, <2>5, <2>10, <2>11 DEF CachedPage
  <2> QED BY <2>12 DEF ks, rs, ch
<1> QED BY <1>4, <1>5

LEMMA GrownTable ==
  ASSUME Inv, NEW r \in Requests, req[r] # None, NEW len \in Nat, NEW table \in Grown(r, len)
  PROVE  /\ Paged(table) /\ Len(req[r].table) <= Len(table)
         /\ \A i \in 1 .. Len(req[r].table) : table[i] = req[r].table[i]
         /\ \A i \in 1 .. Len(table) : i > Len(req[r].table) => table[i] \notin InUse
         /\ len <= Len(table) * Page
<1> DEFINE have == req[r].table
           need == Ceiling(len, Page) - Len(have)
<1>1. PICK new \in [1 .. need -> Pages \ InUse] : IsInjective(new) /\ table = have \o new
  BY DEF Grown
<1>2. setup \in Setups /\ Owner(setup, req[r], key, row, cached)
  BY DEF Inv, Good
<1>3. Paged(have) /\ have \in Seq(Pages) /\ Len(have) \in Nat
  BY <1>2 DEF Owner, Paged
<1>4. \A i \in 1 .. Len(have) : have[i] \in InUse
  BY <1>3 DEF InUse, ToSet
<1>5. PICK g \in Nat \ {0} : g = Page
  BY <1>2, PageSize
<1>6. PICK c \in Nat : c = Ceiling(len, Page) /\ len <= c * g
  <2>1. PICK a \in Nat : a = len + g - 1
    <3>1. len + g - 1 \in Nat
      BY <1>5
    <3> QED BY <3>1
  <2>2. a \div g \in Nat /\ a < (a \div g) * g + g /\ (a \div g) * g \in Nat
    BY <1>5, <2>1, Z3
  <2>3. len <= (a \div g) * g
    BY <1>5, <2>1, <2>2
  <2> QED BY <1>5, <2>1, <2>2, <2>3 DEF Ceiling
<1>7. PICK m \in Nat : 1 .. need = 1 .. m /\ c <= Len(have) + m
  <2>1. CASE c >= Len(have)
    <3>1. c - Len(have) \in Nat /\ need = c - Len(have) /\ c <= Len(have) + (c - Len(have))
      BY <1>3, <1>6, <2>1
    <3> QED BY <3>1
  <2>2. CASE c < Len(have)
    <3>1. 1 .. need = 1 .. 0 /\ c <= Len(have) + 0
      BY <1>3, <1>6, <2>2
    <3> QED BY <3>1
  <2> QED BY <1>3, <1>6, <2>1, <2>2
<1> HIDE DEF have, need
<1>8. new \in [1 .. m -> Pages \ InUse]
  BY <1>1, <1>7
<1>9. new \in Seq(Pages) /\ Len(new) = m /\ DOMAIN new = 1 .. m
  BY <1>8
<1>10. /\ table \in Seq(Pages) /\ Len(table) = Len(have) + m
       /\ \A i \in 1 .. Len(have) : table[i] = have[i]
       /\ \A i \in 1 .. Len(table) : i > Len(have) =>
            i - Len(have) \in 1 .. m /\ table[i] = new[i - Len(have)]
  <2>1. PICK old \in Seq(Pages), n \in Nat : old = have /\ n = Len(old)
    BY <1>3
  <2>2. table = old \o new
    BY <1>1, <2>1
  <2>3. table \in Seq(Pages) /\ Len(table) = n + m
    <3>1. PICK add \in Seq(Pages) : add = new /\ Len(add) = m
      BY <1>9
    <3>2. old \o add \in Seq(Pages) /\ Len(old \o add) = Len(old) + Len(add)
      OBVIOUS
    <3> QED BY <2>1, <2>2, <3>1, <3>2
  <2>4. \A i \in 1 .. n : table[i] = old[i]
    BY <1>9, <2>1, <2>2
  <2>5. \A i \in 1 .. n + m : i > n => i - n \in 1 .. m /\ table[i] = new[i - n]
    BY <1>9, <2>1, <2>2
  <2> QED BY <2>1, <2>3, <2>4, <2>5
<1>11. \A i \in 1 .. Len(table) : i > Len(have) => table[i] \notin InUse
  BY <1>8, <1>10
<1>12. \A i, j \in 1 .. m : new[i] = new[j] => i = j
  BY <1>1, <1>9 DEF IsInjective
<1>13. ASSUME NEW i \in 1 .. Len(table), NEW j \in 1 .. Len(table), table[i] = table[j]
       PROVE  i = j
  <2>1. i \in Nat /\ j \in Nat /\ i >= 1 /\ j >= 1
    BY <1>3, <1>10
  <2>2. CASE i <= Len(have) /\ j <= Len(have)
    <3>1. i \in 1 .. Len(have) /\ j \in 1 .. Len(have)
      BY <1>3, <2>1, <2>2
    <3>2. have[i] = have[j]
      BY <1>10, <1>13, <3>1
    <3> QED BY <1>3, <3>1, <3>2 DEF Paged
  <2>3. CASE i <= Len(have) /\ j > Len(have)
    <3>1. i \in 1 .. Len(have)
      BY <1>3, <2>1, <2>3
    <3>2. table[i] \in InUse /\ table[j] \notin InUse
      BY <1>4, <1>10, <1>11, <2>3, <3>1
    <3> QED BY <1>13, <3>2
  <2>4. CASE i > Len(have) /\ j <= Len(have)
    <3>1. j \in 1 .. Len(have)
      BY <1>3, <2>1, <2>4
    <3>2. table[j] \in InUse /\ table[i] \notin InUse
      BY <1>4, <1>10, <1>11, <2>4, <3>1
    <3> QED BY <1>13, <3>2
  <2>5. CASE i > Len(have) /\ j > Len(have)
    <3>1. i - Len(have) \in 1 .. m /\ j - Len(have) \in 1 .. m
      BY <1>10, <2>5
    <3>2. new[i - Len(have)] = new[j - Len(have)]
      BY <1>10, <1>13, <2>5
    <3>3. i - Len(have) = j - Len(have)
      BY <1>12, <3>1, <3>2
    <3> QED BY <1>3, <2>1, <3>3
  <2> QED BY <1>3, <2>1, <2>2, <2>3, <2>4, <2>5
<1>14. Paged(table)
  BY <1>10, <1>13 DEF Paged
<1>15. len <= Len(table) * Page
  <2>1. PICK n \in Nat : n = Len(table) /\ c <= n
    BY <1>3, <1>7, <1>10
  <2>2. c * g <= n * g /\ c * g \in Nat /\ n * g \in Nat
    BY <1>5, <1>6, <2>1, Z3
  <2>3. len <= n * g
    BY <1>6, <2>2
  <2> QED BY <1>5, <2>1, <2>3
<1>16. Len(have) <= Len(table)
  BY <1>3, <1>7, <1>10
<1> QED BY <1>10, <1>11, <1>14, <1>15, <1>16 DEF have

\* A step as the lemmas above see it.
Made(r, q, table, late, final, slack) ==
  /\ Ready(req[r], table, q, late, final) /\ table \in Grown(r, req[r].ctx + q)
  /\ slack \in Nat /\ slack <= DecodeQ - 1 /\ (final < req[r].prompt => slack = 0)
  /\ setup' = setup
  /\ key' = Wrote(req[r], table, q, final)
  /\ row' = NewRows(req[r], table, q, late, final)
  /\ cached' = NewCache(req[r], table, final)
  /\ req' = [req EXCEPT ![r] =
               [req[r] EXCEPT !.table = table, !.ctx = final, !.slack = slack]]
  /\ read' = [req |-> r, from |-> req[r].ctx, q |-> q,
              clustered |-> Floor(Clusterable(req[r].ctx, q)),
              dense |-> q > DecodeQ /\ req[r].ctx + q <= DenseBelow]

LEMMA StepMade ==
  ASSUME Inv, NEW r \in Requests, NEW q \in 1 .. MaxLen(1), NEW good \in 0 .. DecodeQ - 1,
         Step(r, q, good)
  PROVE  \E table, late, final, slack : Made(r, q, table, late, final, slack)
<1> DEFINE x == req[r]
           todo == x.prompt - x.ctx
           upper == x.ctx + x.slack
           final == x.ctx + (IF todo > 0 THEN q ELSE 1 + good)
           slack == IF todo > 0 THEN 0 ELSE q - 1 - good
           made(table, late) ==
             LET closed == Clustered(row, key, table, DecodeClosures(x.ctx, late))
                 wrote == Written(table, [t \in x.ctx .. x.ctx + q - 1 |->
                                        IF t < final THEN Text(r)[t + 1] ELSE Wrong])
             IN /\ key' = wrote
                /\ row' = Clustered(closed, wrote, table,
                                    PrefillBlocks(x.ctx, q, late + q))
                /\ cached' = [p \in Pages |->
                     IF \E i \in 1 .. final \div Page : table[i] = p
                     THEN LET i == CHOOSE i \in 1 .. final \div Page : table[i] = p
                          IN SubSeq(Text(r), 1, i * Page)
                     ELSE IF p \in ToSet(table) THEN None ELSE cached[p]]
                /\ req' = [req EXCEPT ![r] =
                     [x EXCEPT !.table = table, !.ctx = final, !.slack = slack]]
                /\ read' = [req |-> r, from |-> x.ctx, q |-> q,
                            clustered |-> Floor(Clusterable(x.ctx, q)),
                            dense |-> q > DecodeQ /\ x.ctx + q <= DenseBelow]
<1>1. /\ req[r] # None /\ setup' = setup /\ x.ctx + q <= MaxLen(x.line)
      /\ IF todo > 0 THEN good = 0 /\ \E c \in setup.chunks : q = Smaller(c, todo)
                     ELSE q <= DecodeQ /\ good < q
  BY DEF Step
<1>2. PICK table \in Grown(r, x.ctx + q), late \in {x.ctx, upper} : made(table, late)
  BY DEF Step
<1>3. setup \in Setups /\ Owner(setup, x, key, row, cached)
  BY <1>1 DEF Inv, Good
<1>4. /\ x.ctx \in Nat /\ x.slack \in Nat /\ x.prompt \in Nat /\ x.slack <= DecodeQ - 1
      /\ (x.ctx < x.prompt => x.slack = 0)
  BY <1>3 DEF Owner
<1>5. DecodeQ \in Nat \ {0}
  BY LsaOK
<1>6. q \in Nat \ {0} /\ good \in Nat /\ good <= DecodeQ - 1
  <2>1. Len(Texts[1]) \in Nat
    <3>1. setup.texts \in 1 .. Len(Texts)
      BY <1>3, LsaOK
    <3>2. 1 \in 1 .. setup.texts
      BY <3>1, LsaOK
    <3> QED BY <1>3, <3>2, TextTypes
  <2>2. q \in 1 .. Len(Texts[1])
    BY DEF MaxLen
  <2> QED BY <1>5, <2>1, <2>2
<1>7. late \in Nat /\ x.ctx <= late /\ late <= x.ctx + DecodeQ - 1
  <2>1. PICK a \in Nat, b \in Nat : a = x.ctx /\ b = x.slack /\ b <= DecodeQ - 1
    BY <1>4
  <2>2. late = a \/ late = a + b
    BY <1>2, <2>1
  <2> QED BY <1>5, <2>1, <2>2
<1>8. /\ final \in Nat /\ x.ctx <= final /\ final <= x.ctx + q
      /\ slack \in Nat /\ slack <= DecodeQ - 1 /\ (final < x.prompt => slack = 0)
      /\ (q > DecodeQ => late = x.ctx /\ final = x.ctx + q)
  <2>1. CASE todo > 0
    <3>1. final = x.ctx + q /\ slack = 0 /\ x.slack = 0 /\ late = x.ctx
      BY <1>2, <1>4, <2>1
    <3> QED BY <1>4, <1>5, <1>6, <3>1
  <2>2. CASE ~ (todo > 0)
    <3>1. final = x.ctx + (1 + good) /\ slack = q - 1 - good /\ q <= DecodeQ /\ good < q
      BY <1>1, <2>2
    <3>2. x.prompt <= x.ctx
      BY <1>4, <2>2
    <3> QED BY <1>4, <1>5, <1>6, <3>1, <3>2
  <2> QED BY <2>1, <2>2
<1>9. x.ctx + q \in Nat
  BY <1>4, <1>6
<1>10. /\ Paged(table) /\ Len(x.table) <= Len(table)
       /\ \A i \in 1 .. Len(x.table) : table[i] = x.table[i]
       /\ x.ctx + q <= Len(table) * Page
  BY <1>1, <1>9, GrownTable
<1>11. Ready(x, table, q, late, final)
  <2>1. x.ctx + q <= Len(Texts[x.line])
    BY <1>1 DEF MaxLen
  <2> HIDE DEF x, final
  <2> QED BY <1>3, <1>6, <1>7, <1>8, <1>10, <2>1 DEF Ready
<1>12. /\ key' = Wrote(req[r], table, q, final)
       /\ row' = NewRows(req[r], table, q, late, final)
       /\ cached' = NewCache(req[r], table, final)
  BY <1>2 DEF Wrote, Tokens, NewRows, StepRows, NewCache, Text
<1>13. /\ req' = [req EXCEPT ![r] = [x EXCEPT !.table = table, !.ctx = final, !.slack = slack]]
       /\ read' = [req |-> r, from |-> x.ctx, q |-> q,
                   clustered |-> Floor(Clusterable(x.ctx, q)),
                   dense |-> q > DecodeQ /\ x.ctx + q <= DenseBelow]
  BY <1>2
<1> HIDE DEF final, slack, made
<1>14. Made(r, q, table, late, final, slack)
  BY <1>1, <1>2, <1>8, <1>11, <1>12, <1>13 DEF Made
<1> QED BY <1>14

LEMMA StepApart ==
  ASSUME Inv, NEW r \in Requests, req[r] # None, NEW s \in Requests, req[s] # None, r # s,
         NEW q, NEW table, NEW late, NEW final, NEW slack,
         Made(r, q, table, late, final, slack)
  PROVE  LET y == [req[r] EXCEPT !.table = table, !.ctx = final, !.slack = slack]
         IN Shares(req[r], table, req[s]) /\ Apart(setup, y, req[s]) /\ Apart(setup, req[s], y)
<1> DEFINE x == req[r]
           y == [req[r] EXCEPT !.table = table, !.ctx = final, !.slack = slack]
<1>1. setup \in Setups /\ Page = setup.page
  BY DEF Inv, Good, Page
<1>2. /\ Owner(setup, x, key, row, cached) /\ Owner(setup, req[s], key, row, cached)
      /\ Apart(setup, x, req[s]) /\ Apart(setup, req[s], x)
  BY DEF Inv, Good
<1>3. y.table = table /\ y.ctx = final
  BY <1>2 DEF Owner
<1>4. Ready(x, table, q, late, final) /\ q \in Nat
  BY DEF Made, Ready
<1>5. /\ x.ctx \in Nat /\ final \in Nat /\ x.ctx <= final /\ Len(x.table) \in Nat
      /\ Len(table) \in Nat
  BY <1>1, <1>4, ReadyTypes
<1>6. /\ \A i \in 1 .. Len(x.table) : table[i] = x.table[i]
      /\ \A i \in 1 .. Len(table) : i > Len(x.table) => table[i] \notin InUse
  <2>1. x.ctx + q \in Nat
    BY <1>4, <1>5
  <2> QED BY <2>1, GrownTable DEF Made
<1>7. \A j \in 1 .. Len(req[s].table) : req[s].table[j] \in InUse
  <2>1. DOMAIN req[s].table = 1 .. Len(req[s].table)
    <3>1. req[s].table \in Seq(Pages)
      BY <1>2 DEF Owner
    <3> QED BY <3>1
  <2>2. \A j \in 1 .. Len(req[s].table) : req[s].table[j] \in ToSet(req[s].table)
    BY <2>1 DEF ToSet
  <2>3. ToSet(req[s].table) \subseteq InUse
    BY DEF InUse
  <2> QED BY <2>2, <2>3
<1> HIDE DEF x, y
<1>8. ASSUME NEW i \in 1 .. Len(table), NEW j \in 1 .. Len(req[s].table),
             table[i] = req[s].table[j]
      PROVE  /\ i \in 1 .. Len(x.table) /\ x.table[i] = req[s].table[j]
             /\ ~ (i * Page > x.ctx) /\ ~ (j * Page > req[s].ctx)
  <2>1. ~ (i > Len(x.table))
    BY <1>6, <1>7, <1>8
  <2>2. i \in 1 .. Len(x.table)
    BY <1>5, <2>1
  <2>3. x.table[i] = req[s].table[j]
    BY <1>6, <1>8, <2>2
  <2> QED BY <1>1, <1>2, <2>2, <2>3 DEF Apart
<1>9. Shares(x, table, req[s])
  BY <1>5, <1>8 DEF Shares
<1>10. Apart(setup, y, req[s])
  <2> SUFFICES ASSUME NEW i \in 1 .. Len(table), NEW j \in 1 .. Len(req[s].table),
                      i * setup.page > final, table[i] = req[s].table[j]
               PROVE  FALSE
    BY <1>3 DEF Apart
  <2>1. PICK m \in Nat : m = i * Page
    <3>1. i \in Nat
      BY <1>5
    <3> QED BY <1>1, <3>1, Times
  <2> QED BY <1>1, <1>5, <1>8, <2>1
<1>11. Apart(setup, req[s], y)
  BY <1>1, <1>3, <1>8 DEF Apart
<1> QED BY <1>9, <1>10, <1>11 DEF x, y

LEMMA StepInv ==
  ASSUME 2 * DecodeQ <= Block + 1, Regular, Inv, NEW r \in Requests, req[r] # None,
         NEW q, NEW table, NEW late, NEW final, NEW slack,
         Made(r, q, table, late, final, slack)
  PROVE  Inv'
<1> DEFINE x == req[r]
           y == [req[r] EXCEPT !.table = table, !.ctx = final, !.slack = slack]
           ks == Wrote(x, table, q, final)
           rs == NewRows(x, table, q, late, final)
           ch == NewCache(x, table, final)
<1>1. /\ setup \in Setups /\ DOMAIN req = Requests /\ RowShape(row) /\ Page = setup.page
      /\ \A s \in Requests : req[s] # None => Owner(setup, req[s], key, row, cached)
      /\ \A s, t \in Requests : s # t /\ req[s] # None /\ req[t] # None =>
           Apart(setup, req[s], req[t])
  BY DEF Inv, Good, RowShape, Page
<1>2. /\ Ready(x, table, q, late, final)
      /\ slack \in Nat /\ slack <= DecodeQ - 1 /\ (final < x.prompt => slack = 0)
  BY DEF Made
<1>3. Owner(setup, y, ks, rs, ch)
  BY <1>2, OwnerAfter
<1>4. ASSUME NEW s \in Requests, s # r, req[s] # None
      PROVE  /\ Shares(x, table, req[s])
             /\ Apart(setup, y, req[s]) /\ Apart(setup, req[s], y)
  BY <1>4, StepApart
<1>5. ASSUME NEW s \in Requests, s # r, req[s] # None
      PROVE  Owner(setup, req[s], ks, rs, ch)
  BY <1>1, <1>2, <1>4, <1>5, OtherAfter
<1>6. ASSUME NEW p \in Pages, ch[p] # None PROVE CachedPage(setup, ks, rs, ch, p)
  BY <1>2, <1>6, CachedAfter
<1>7. \A p \in Pages : DOMAIN rs[p] = 0 .. setup.page \div BucketSize - 1
  BY <1>1, StepShape DEF NewRows, RowShape
<1>8. /\ setup' = setup /\ key' = ks /\ row' = rs /\ cached' = ch
      /\ req' = [req EXCEPT ![r] = y]
  BY DEF Made
<1> HIDE DEF x, y, ks, rs, ch
<1>9. Good(setup, [req EXCEPT ![r] = y], ks, rs, ch)
  BY <1>1, <1>3, <1>4, <1>5, <1>6, <1>7, OneRequest
<1> QED BY <1>8, <1>9 DEF Inv

\* Bucket b, below the builder's bound, is of a block that ends below it.
LEMMA VisibleBlock ==
  ASSUME NEW n \in Nat, NEW pos, NEW b \in 0 .. Visible(pos, Floor(n)) - 1, pos \in Nat
  PROVE  /\ b * BucketSize \in Nat /\ (b * BucketSize) % BucketSize = 0
         /\ Floor(b * BucketSize) + Block <= n
<1>1. PICK s \in Nat \ {0}, c \in Nat \ {0} : s = BucketSize /\ c = Block
  BY BlockSize
<1>2. PICK k \in Nat : Floor(n) = k * Block /\ Floor(n) \in Nat /\ Floor(n) <= n
  BY FloorBounds
<1>3. Floor(pos) \in Nat
  BY FloorBounds
<1>4. PICK u \in Nat : u = Smaller(Floor(pos), Floor(n)) /\ u <= k * Block
  BY <1>2, <1>3 DEF Smaller
<1>5. u \div s \in Nat /\ (u \div s) * s <= u
  BY <1>1, <1>4, Z3
<1>6. b \in Nat /\ b + 1 <= u \div s
  BY <1>1, <1>4, <1>5 DEF Visible
<1>7. b * s \in Nat /\ b * s + s <= u /\ (b * s) % s = 0
  BY <1>1, <1>4, <1>5, <1>6, Z3
<1>8. PICK at \in Nat : at = b * BucketSize /\ at < k * Block
  <2>1. k * Block \in Nat
    BY <1>2
  <2>2. b * s < k * Block
    BY <1>1, <1>4, <1>7, <2>1
  <2> QED BY <1>1, <1>7, <2>2
<1>9. PICK m \in Nat : Floor(at) = m * Block /\ Floor(at) <= at /\ Floor(at) \in Nat
  BY FloorBounds
<1>10. m * Block < k * Block
  BY <1>2, <1>8, <1>9
<1>11. m * Block + Block <= k * Block
  BY <1>10, FloorStep
<1>12. Floor(at) + Block <= n
  BY <1>1, <1>2, <1>9, <1>11
<1> QED BY <1>1, <1>7, <1>8, <1>12

\* What the last step's queries are, of the state that says it.
Sparse(rd) ==
  IF rd = None THEN {} ELSE IF rd.dense THEN {} ELSE rd.from .. rd.from + rd.q - 1

\* The queries are of one request's text, and read what the step made clusterable.
Queried(st, rd, rq) ==
  rd # None =>
    /\ rd.req \in Requests /\ rq[rd.req].line \in 1 .. st.texts
    /\ rd.from \in Nat /\ rd.q \in Nat
    /\ rd.from + rd.q <= Len(Texts[rq[rd.req].line])
    /\ rd.clustered = Floor(Clusterable(rd.from, rd.q))

\* The bucket rows of the queries are those of the request's text.
RowsFinal(g, rd, rq, rs) ==
  \A pos \in Sparse(rd) : \A b \in 0 .. Visible(pos, rd.clustered) - 1 :
    Due(g, b * BucketSize, rq[rd.req].hit) =>
      rs[rq[rd.req].table[(b * BucketSize) \div g + 1]][((b * BucketSize) % g) \div BucketSize]
        = RowText(Texts[rq[rd.req].line], b * BucketSize)

Seen == Queried(setup, read, req) /\ RowsFinal(setup.page, read, req, row)

LEMMA StepSeen ==
  ASSUME 2 * DecodeQ <= Block + 1, Inv, NEW r \in Requests, req[r] # None,
         NEW q, NEW table, NEW late, NEW final, NEW slack,
         Made(r, q, table, late, final, slack)
  PROVE  Seen'
<1> DEFINE x == req[r]
           rs == NewRows(x, table, q, late, final)
<1>1. setup \in Setups /\ RowShape(row) /\ DOMAIN req = Requests
  BY DEF Inv, Good, RowShape, Page
<1>2. Ready(x, table, q, late, final) /\ Owner(setup, x, key, row, cached)
  BY DEF Made, Ready
<1>3. RowsHold(Page, rs, table, Texts[x.line], x.hit, Clusterable(x.ctx, q))
  BY <1>1, <1>2, StepKeepsRows
<1>4. Clusterable(x.ctx, q) \in Nat /\ x.ctx \in Nat /\ q \in Nat
      /\ x.ctx + q <= Len(Texts[x.line]) /\ x.line \in 1 .. setup.texts
  <2>1. Clusterable(x.ctx, q) \in Nat /\ x.ctx \in Nat
    BY <1>1, <1>2, ReadyTypes
  <2>2. q \in Nat /\ x.ctx + q <= Len(Texts[x.line])
    BY <1>2 DEF Ready
  <2> QED BY <1>2, <2>1, <2>2 DEF Owner
<1>5. /\ req'[r].table = table /\ req'[r].line = x.line /\ req'[r].hit = x.hit
      /\ row' = rs /\ setup' = setup
      /\ read'.req = r /\ read'.from = x.ctx /\ read'.q = q
      /\ read'.clustered = Floor(Clusterable(x.ctx, q))
  <2>1. req' = [req EXCEPT ![r] =
                  [req[r] EXCEPT !.table = table, !.ctx = final, !.slack = slack]]
    BY DEF Made
  <2>2. req'[r] = [x EXCEPT !.table = table, !.ctx = final, !.slack = slack]
    BY <1>1, <2>1
  <2>3. req'[r].table = table /\ req'[r].line = x.line /\ req'[r].hit = x.hit
    BY <1>2, <2>2 DEF Owner
  <2>4. /\ read'.req = r /\ read'.from = x.ctx /\ read'.q = q
        /\ read'.clustered = Floor(Clusterable(x.ctx, q))
    BY DEF Made
  <2>5. row' = rs /\ setup' = setup
    BY DEF Made
  <2> QED BY <2>3, <2>4, <2>5
<1> HIDE DEF x, rs
<1>6. ASSUME NEW pos \in x.ctx .. x.ctx + q - 1,
             NEW b \in 0 .. Visible(pos, Floor(Clusterable(x.ctx, q))) - 1,
             Due(Page, b * BucketSize, x.hit)
      PROVE  rs[table[(b * BucketSize) \div Page + 1]][((b * BucketSize) % Page) \div BucketSize]
               = RowText(Texts[x.line], b * BucketSize)
  <2>1. pos \in Nat
    BY <1>4
  <2>2. /\ b * BucketSize \in Nat /\ (b * BucketSize) % BucketSize = 0
        /\ Floor(b * BucketSize) + Block <= Clusterable(x.ctx, q)
    BY <1>4, <2>1, VisibleBlock
  <2> QED BY <1>3, <1>6, <2>2 DEF RowsHold
<1>7. RowsFinal(Page, read', req', row')
  <2> SUFFICES ASSUME NEW pos \in Sparse(read'), NEW b \in 0 .. Visible(pos, read'.clustered) - 1,
                      Due(Page, b * BucketSize, req'[read'.req].hit)
               PROVE  row'[req'[read'.req].table[(b * BucketSize) \div Page + 1]]
                        [((b * BucketSize) % Page) \div BucketSize]
                          = RowText(Texts[req'[read'.req].line], b * BucketSize)
    BY DEF RowsFinal
  <2>1. pos \in x.ctx .. x.ctx + q - 1
    BY <1>5 DEF Sparse
  <2>2. b \in 0 .. Visible(pos, Floor(Clusterable(x.ctx, q))) - 1
    BY <1>5
  <2>3. Due(Page, b * BucketSize, x.hit)
    BY <1>5
  <2>4. rs[table[(b * BucketSize) \div Page + 1]][((b * BucketSize) % Page) \div BucketSize]
          = RowText(Texts[x.line], b * BucketSize)
    BY <1>6, <2>1, <2>2, <2>3
  <2>5. /\ req'[read'.req].table = table /\ req'[read'.req].line = x.line /\ row' = rs
    BY <1>5
  <2> QED BY <2>4, <2>5
<1>8. Queried(setup', read', req')
  BY <1>4, <1>5 DEF Queried
<1>9. RowsFinal(setup'.page, read', req', row')
  BY <1>5, <1>7 DEF Page
<1> QED BY <1>8, <1>9 DEF Seen

\* The queries' rows stay the text's, whatever happens.
LEMMA SeenAlways ==
  ASSUME 2 * DecodeQ <= Block + 1, Regular
  PROVE  Spec => [](Inv /\ Seen)
<1> DEFINE IInv == Inv /\ Seen
<1>0. ASSUME NEW st, NEW rq, NEW rs, NEW g
      PROVE  Queried(st, None, rq) /\ RowsFinal(g, None, rq, rs)
  BY DEF Queried, RowsFinal, Sparse
<1>1. Init => IInv
  <2> SUFFICES ASSUME Init PROVE IInv
    OBVIOUS
  <2>1. read = None
    BY DEF Init
  <2> QED BY <1>0, <2>1, InitInv DEF Seen
<1>2. IInv /\ [Next]_vars => IInv'
  <2> SUFFICES ASSUME IInv, [Next]_vars PROVE IInv'
    OBVIOUS
  <2>0. ASSUME read' = None PROVE Seen'
    BY <1>0, <2>0 DEF Seen
  <2>1. ASSUME NEW r \in Requests, NEW line \in 1 .. setup.texts, NEW prompt \in setup.prompts,
               Start(r, line, prompt)
        PROVE  IInv'
    <3>1. read' = None
      BY <2>1 DEF Start
    <3> QED BY <2>0, <2>1, <3>1, StartInv
  <2>2. ASSUME NEW r \in Requests, NEW q \in 1 .. MaxLen(1), NEW good \in 0 .. DecodeQ - 1,
               Step(r, q, good)
        PROVE  IInv'
    <3>1. req[r] # None
      BY <2>2 DEF Step
    <3>2. PICK table, late, final, slack : Made(r, q, table, late, final, slack)
      BY <2>2, StepMade
    <3>3. Inv'
      BY <3>1, <3>2, StepInv
    <3>4. Seen'
      BY <3>1, <3>2, StepSeen
    <3> QED BY <3>3, <3>4
  <2>3. ASSUME NEW r \in Requests, Finish(r) PROVE IInv'
    <3>1. read' = None
      BY <2>3 DEF Finish
    <3> QED BY <2>0, <2>3, <3>1, FinishInv
  <2>4. ASSUME UNCHANGED <<setup, req, key, row, cached, read>> PROVE IInv'
    BY <2>4 DEF Inv, Seen
  <2>5. ASSUME NEW score, NEW vis, Select(score, vis) PROVE IInv'
    BY <2>4, <2>5 DEF Select
  <2>6. CASE UNCHANGED vars
    BY <2>4, <2>6 DEF vars
  <2> QED BY <2>1, <2>2, <2>3, <2>5, <2>6 DEF Next
<1> QED BY <1>1, <1>2, PTL DEF Spec

LEMMA SeenFinal ==
  ASSUME Seen
  PROVE  BucketsAreFinal
<1> SUFFICES ASSUME NEW pos \in SparseQueries, NEW b \in 0 .. Visible(pos, read.clustered) - 1,
                    Settled(b * BucketSize)
             PROVE  RowAt(row, req[read.req].table, b * BucketSize).of =
                      BlockText(Text(read.req), Floor(b * BucketSize))
  BY DEF BucketsAreFinal, BlockText
<1>1. pos \in Sparse(read)
  BY DEF SparseQueries, Sparse
<1>2. Due(Page, b * BucketSize, req[read.req].hit)
  BY DEF Settled, Due
<1>3. RowAt(row, req[read.req].table, b * BucketSize)
        = RowText(Texts[req[read.req].line], b * BucketSize)
  BY <1>1, <1>2 DEF Seen, RowsFinal, RowAt, PageOf, Page
<1> QED BY <1>3 DEF RowText, BlockRow, Text

\* A bucket a query may see was made from the final keys of its block: for every
\* number of requests, pages, conversations and drafts, every page and block size.
\* A draft must be short enough for the builder's candidates to hold the block
\* that decoding closed, and a page must hold whole blocks unless there is one
\* conversation (backend.py:15-22).
THEOREM BucketsAreFinalHolds ==
  ASSUME 2 * DecodeQ <= Block + 1, \A s \in Setups : s.texts = 1 \/ s.page % Block = 0
  PROVE  Spec => []BucketsAreFinal
<1>1. Regular
  BY DEF Regular
<1>2. Spec => [](Inv /\ Seen)
  BY <1>1, SeenAlways
<1>3. Inv /\ Seen => BucketsAreFinal
  BY SeenFinal
<1> QED BY <1>2, <1>3, PTL

-----------------------------------------------------------------------------
(* What a query reads.                                                     *)

\* A query of the last step: within reach of the keys that are read in full.
LEMMA QueryIs ==
  ASSUME setup \in Setups, Queried(setup, read, req), NEW pos \in SparseQueries
  PROVE  \E T \in Seq(Int), n \in Nat :
           /\ T = Texts[req[read.req].line] /\ n <= Len(T)
           /\ pos \in Nat /\ read.clustered = Floor(n) /\ read.clustered \in Nat
           /\ pos + 1 <= read.clustered + Window + Block
           /\ Visible(pos, read.clustered) \in Nat
<1>1. /\ read # None /\ pos \in read.from .. read.from + read.q - 1
  BY DEF SparseQueries
<1>2. /\ read.from \in Nat /\ read.q \in Nat
      /\ req[read.req].line \in 1 .. setup.texts
      /\ read.from + read.q <= Len(Texts[req[read.req].line])
      /\ read.clustered = Floor(Clusterable(read.from, read.q))
  BY <1>1 DEF Queried
<1>3. PICK T : T = Texts[req[read.req].line] /\ T \in Seq(Int) /\ Len(T) \in Nat
  BY <1>2, TextTypes
<1>4. PICK d \in Nat, c \in Nat \ {0} : d = DecodeQ /\ c = Block /\ Window = c /\ d < c
  BY LsaOK, BlockSize DEF Window
<1>5. PICK f \in Nat, q \in Nat : f = read.from /\ q = read.q
  BY <1>2
<1>6. PICK n \in Nat : n = Clusterable(f, q) /\ n = IF q > d THEN f + q ELSE f
  BY <1>4 DEF Clusterable
<1>7. PICK e \in Nat : e = Floor(n) /\ n < e + c /\ e <= n
  BY <1>4, FloorBounds
<1>8. pos \in Nat /\ pos + 1 <= f + q
  BY <1>1, <1>5
<1>9. pos + 1 <= e + c + c
  BY <1>4, <1>6, <1>7, <1>8
<1>10. Visible(pos, e) \in Nat
  <2>1. PICK s \in Nat \ {0} : s = BucketSize
    BY BlockSize
  <2>2. Floor(pos) \in Nat
    BY <1>8, FloorBounds
  <2>3. PICK u \in Nat : u = Smaller(Floor(pos), e)
    BY <2>2 DEF Smaller
  <2>4. u \div s \in Nat
    BY <2>1, Z3
  <2> QED BY <2>1, <2>3, <2>4 DEF Visible
<1>11. n <= Len(T)
  BY <1>2, <1>3, <1>5, <1>6
<1> QED BY <1>2, <1>3, <1>4, <1>5, <1>6, <1>7, <1>8, <1>9, <1>10, <1>11

\* The place of bucket b in its block.
LEMMA BucketPlace ==
  ASSUME NEW b, b * BucketSize \in Nat, (b * BucketSize) % BucketSize = 0
  PROVE  \E j \in 0 .. Buckets - 1 :
           /\ b * BucketSize = Floor(b * BucketSize) + j * BucketSize
           /\ (b * BucketSize - Floor(b * BucketSize)) \div BucketSize = j
<1>1. PICK at \in Nat : at = b * BucketSize /\ at % BucketSize = 0
  OBVIOUS
<1>2. PICK j \in 0 .. Buckets - 1 : at = Floor(at) + j * BucketSize
  BY <1>1, BucketHome
<1>3. PICK s \in Nat \ {0}, f \in Nat : s = BucketSize /\ f = Floor(at)
  BY <1>1, BlockSize, FloorBounds
<1>4. j \in Nat
  BY BlockSize
<1>5. PICK e \in Nat : e = j * s /\ e \div s = j
  BY <1>3, <1>4, Z3
<1>6. at - f = e
  BY <1>2, <1>3, <1>5
<1>7. (at - Floor(at)) \div BucketSize = j
  BY <1>3, <1>5, <1>6
<1> QED BY <1>1, <1>2, <1>7

\* What a settled bucket holds: bucket j of its block's tables.
LEMMA MembersAre ==
  ASSUME setup \in Setups, Seen, NEW pos \in SettledQueries,
         NEW b \in 0 .. Visible(pos, read.clustered) - 1
  PROVE  \E j \in 0 .. Buckets - 1, f \in Nat :
           /\ b * BucketSize = f + j * BucketSize /\ f = Floor(b * BucketSize)
           /\ (\E k \in Nat : f = k * Block)
           /\ f + Block <= Len(Texts[req[read.req].line])
           /\ LET t == BucketTables(BlockText(Texts[req[read.req].line], f))[j]
              IN MembersOf(b) = [i \in DOMAIN t |-> f + t[i]]
<1>1. pos \in SparseQueries /\ Settled(b * BucketSize)
  BY DEF SettledQueries
<1>2. Queried(setup, read, req)
  BY DEF Seen
<1>3. PICK T \in Seq(Int), n \in Nat :
        /\ T = Texts[req[read.req].line] /\ n <= Len(T)
        /\ pos \in Nat /\ read.clustered = Floor(n) /\ read.clustered \in Nat
  BY <1>1, <1>2, QueryIs
<1>4. /\ b * BucketSize \in Nat /\ (b * BucketSize) % BucketSize = 0
      /\ Floor(b * BucketSize) + Block <= n
  BY <1>3, VisibleBlock
<1>5. PICK j \in 0 .. Buckets - 1 :
        /\ b * BucketSize = Floor(b * BucketSize) + j * BucketSize
        /\ (b * BucketSize - Floor(b * BucketSize)) \div BucketSize = j
  BY <1>4, BucketPlace
<1>6. PICK f \in Nat : f = Floor(b * BucketSize) /\ \E k \in Nat : f = k * Block
  BY <1>4, FloorBounds
<1>7. RowAt(row, req[read.req].table, b * BucketSize) = RowText(T, b * BucketSize)
  <2>1. pos \in Sparse(read)
    BY <1>1 DEF SparseQueries, Sparse
  <2>2. Due(Page, b * BucketSize, req[read.req].hit)
    BY <1>1 DEF Settled, Due
  <2> QED BY <1>3, <2>1, <2>2 DEF Seen, RowsFinal, RowAt, PageOf, Page
<1>8. RowText(T, b * BucketSize).members = BucketTables(BlockText(T, f))[j]
  BY <1>5, <1>6 DEF RowText, BlockRow
<1>9. PICK t : t = BucketTables(BlockText(T, f))[j]
  OBVIOUS
<1>10. RowAt(row, req[read.req].table, b * BucketSize).members = t
  BY <1>7, <1>8, <1>9
<1>11. MembersOf(b) = [i \in DOMAIN t |-> f + t[i]]
  BY <1>6, <1>10 DEF MembersOf
<1>12. f + Block <= Len(T)
  <2>1. PICK m \in Nat, c \in Nat : m = Len(T) /\ c = Block
    BY <1>3, BlockSize
  <2> QED BY <1>3, <1>4, <1>6, <2>1
<1>13. /\ j \in 0 .. Buckets - 1 /\ f \in Nat /\ f = Floor(b * BucketSize)
       /\ b * BucketSize = f + j * BucketSize /\ (\E k \in Nat : f = k * Block)
       /\ f + Block <= Len(Texts[req[read.req].line])
       /\ MembersOf(b) = [i \in DOMAIN BucketTables(BlockText(Texts[req[read.req].line], f))[j]
                            |-> f + BucketTables(BlockText(Texts[req[read.req].line], f))[j][i]]
  BY <1>3, <1>5, <1>6, <1>9, <1>11, <1>12
<1> QED BY <1>13, Zenon

\* s is t, f further on, of positions of a block.
Shifted(s, f, t) ==
  /\ Len(s) = Len(t)
  /\ \A i \in 1 .. Len(t) : s[i] = f + t[i] /\ t[i] \in 0 .. Block - 1

LEMMA MembersApart ==
  ASSUME setup \in Setups, Seen, NEW pos \in SettledQueries
  PROVE  BucketsApart(Members(pos), Visible(pos, read.clustered))
<1> DEFINE n == Visible(pos, read.clustered)
           M == Members(pos)
<1>1. \A b \in 0 .. n - 1 : M[b] = MembersOf(b)
  BY DEF Members
<1> HIDE DEF n, M
<1>2. PICK T : T = Texts[req[read.req].line]
  OBVIOUS
<1>3. ASSUME NEW b \in 0 .. n - 1
      PROVE  \E j \in 0 .. Buckets - 1, f \in Nat, k \in Nat :
               /\ b * BucketSize = f + j * BucketSize /\ f = k * Block
               /\ M[b] \in Seq(Nat) /\ Shifted(M[b], f, BucketTables(BlockText(T, f))[j])
  <2>1. PICK j \in 0 .. Buckets - 1, f \in Nat :
           /\ b * BucketSize = f + j * BucketSize
           /\ (\E k \in Nat : f = k * Block)
           /\ LET t == BucketTables(BlockText(T, f))[j]
              IN M[b] = [i \in DOMAIN t |-> f + t[i]]
    BY <1>1, <1>2, <1>3, MembersAre DEF n
  <2>2. PICK k \in Nat : f = k * Block
    BY <2>1
  <2>3. PICK keys : keys = BlockText(T, f)
    OBVIOUS
  <2>4. Tables(BucketTables(keys))
    BY TablesAre
  <2>5. PICK t : t = BucketTables(keys)[j]
    OBVIOUS
  <2>6. t \in Seq(Nat) /\ \A i \in 1 .. Len(t) : t[i] \in 0 .. Block - 1
    BY <2>4, <2>5 DEF Tables
  <2>7. PICK m \in Nat : m = Len(t) /\ DOMAIN t = 1 .. m
    BY <2>6, LenProperties
  <2>8. M[b] = [i \in 1 .. m |-> f + t[i]]
    BY <2>1, <2>3, <2>5, <2>7
  <2>9. \A i \in 1 .. m : f + t[i] \in Nat
    BY <2>6, <2>7, BlockSize
  <2>10. M[b] \in Seq(Nat) /\ Len(M[b]) = m /\ \A i \in 1 .. m : M[b][i] = f + t[i]
    BY <2>8, <2>9
  <2>11. Shifted(M[b], f, t)
    BY <2>6, <2>7, <2>10 DEF Shifted
  <2>12. Shifted(M[b], f, BucketTables(BlockText(T, f))[j])
    BY <2>3, <2>5, <2>11
  <2> QED BY <2>1, <2>2, <2>10, <2>12, Zenon
<1>4. ASSUME NEW b \in 0 .. n - 1, NEW d \in 0 .. n - 1,
             NEW i \in 1 .. Len(M[b]), NEW j \in 1 .. Len(M[d]), M[b][i] = M[d][j]
      PROVE  b = d /\ i = j
  <2>1. PICK u \in 0 .. Buckets - 1, f \in Nat, k \in Nat :
           /\ b * BucketSize = f + u * BucketSize /\ f = k * Block
           /\ Shifted(M[b], f, BucketTables(BlockText(T, f))[u])
    BY <1>3
  <2>2. PICK v \in 0 .. Buckets - 1, g \in Nat, l \in Nat :
           /\ d * BucketSize = g + v * BucketSize /\ g = l * Block
           /\ Shifted(M[d], g, BucketTables(BlockText(T, g))[v])
    BY <1>3
  <2>t. PICK t : t = BucketTables(BlockText(T, f))[u]
    OBVIOUS
  <2>s. PICK s : s = BucketTables(BlockText(T, g))[v]
    OBVIOUS
  <2>3. f + t[i] = g + s[j] /\ t[i] \in 0 .. Block - 1 /\ s[j] \in 0 .. Block - 1
    BY <1>4, <2>1, <2>2, <2>t, <2>s DEF Shifted
  <2>4. f = g
    <3>1. Floor(k * Block + t[i]) = k * Block /\ Floor(l * Block + s[j]) = l * Block
      BY <2>3, FloorOf
    <3> QED BY <2>1, <2>2, <2>3, <3>1
  <2>5. t[i] = s[j]
    <3>1. PICK x \in Int, y \in Int : x = t[i] /\ y = s[j]
      BY <2>3
    <3> QED BY <2>3, <2>4, <3>1
  <2>6. PICK tab : tab = BucketTables(BlockText(T, f)) /\ Tables(tab)
    BY TablesAre
  <2>7. t = tab[u] /\ s = tab[v]
    BY <2>4, <2>6, <2>t, <2>s
  <2>8. u = v /\ i = j
    <3>1. i \in 1 .. Len(tab[u]) /\ j \in 1 .. Len(tab[v]) /\ tab[u][i] = tab[v][j]
      BY <2>1, <2>2, <2>5, <2>7, <2>t, <2>s DEF Shifted
    <3>2. \A x, y \in 0 .. Buckets - 1 : \A e \in 1 .. Len(tab[x]), h \in 1 .. Len(tab[y]) :
            tab[x][e] = tab[y][h] => x = y /\ e = h
      BY <2>6, Zenon DEF Tables
    <3>3. u \in 0 .. Buckets - 1 /\ v \in 0 .. Buckets - 1
      BY <2>1, <2>2
    <3> QED BY <3>1, <3>2, <3>3, Zenon
  <2>9. b = d
    <3>1. PICK z \in Nat \ {0} : z = BucketSize
      BY BlockSize
    <3>2. b * z = d * z
      BY <2>1, <2>2, <2>4, <2>8, <3>1
    <3>3. b \in Int /\ d \in Int
      OBVIOUS
    <3> QED BY <3>1, <3>2, <3>3, Z3
  <2> QED BY <2>8, <2>9
<1>5. \A b \in 0 .. n - 1 : M[b] \in Seq(Nat)
  BY <1>3
<1> QED BY <1>4, <1>5 DEF BucketsApart, n, M

\* What a query reads is its slot list, whole.
LEMMA ReadsAre ==
  ASSUME setup \in Setups, Seen, NEW pos \in SettledQueries, NEW picks \in Orders(pos)
  PROVE  /\ Choice(picks, Smaller(Visible(pos, read.clustered), TopP),
                   Visible(pos, read.clustered))
         /\ Smaller(Visible(pos, read.clustered), TopP) \in Nat
         /\ Slots(Reads(pos, picks), pos, picks, Members(pos),
                  Smaller(Visible(pos, read.clustered), TopP), TailStart(pos, read.clustered))
<1>1. pos \in SparseQueries
  BY DEF SettledQueries
<1>2. Queried(setup, read, req)
  BY DEF Seen
<1>3. PICK c \in Nat, n \in Nat :
        /\ c = read.clustered /\ n = Visible(pos, c)
        /\ pos \in Nat /\ pos + 1 <= c + Window + Block
  BY <1>1, <1>2, QueryIs
<1>4. PICK m \in Nat : m = Smaller(n, TopP)
  <2>1. TopP \in Nat
    BY SelectOK
  <2> QED BY <2>1 DEF Smaller
<1>5. Choice(picks, m, n)
  BY <1>3, <1>4 DEF Orders, Choice
<1>6. PICK M : M = Members(pos) /\ BucketsApart(M, n)
  BY <1>3, MembersApart
<1>7. PICK w : w = SlotList(pos, c, picks, M)
  OBVIOUS
<1>8. Slots(w, pos, picks, M, m, TailStart(pos, c))
  BY <1>3, <1>5, <1>6, <1>7, SlotListIs
<1>9. w \in Seq(Nat)
  BY <1>8 DEF Slots
<1>10. PICK k \in Nat \ {0} : k = IF read.q <= DecodeQ THEN NumSplits ELSE 1
  BY SelectOK
<1>11. SplitReads(w, k) = w
  BY <1>9, SplitReadsAll
<1>12. Reads(pos, picks) = w
  BY <1>3, <1>6, <1>7, <1>10, <1>11 DEF Reads
<1> QED BY <1>3, <1>4, <1>5, <1>6, <1>8, <1>12

LEMMA SeenSound ==
  ASSUME setup \in Setups, Seen
  PROVE  ReadIsSound
<1> SUFFICES ASSUME NEW pos \in SettledQueries, NEW picks \in Orders(pos)
             PROVE  LET keys == Reads(pos, picks)
                    IN /\ Len(keys) <= Width
                       /\ IsInjective(keys)
                       /\ ToSet(keys) \subseteq 0 .. pos
                       /\ {p \in 0 .. pos : p < Sink \/ p > pos - Window} \subseteq ToSet(keys)
  BY DEF ReadIsSound
<1>1. PICK keys, m, M, tail : /\ keys = Reads(pos, picks) /\ tail = TailStart(pos, read.clustered)
                              /\ Slots(keys, pos, picks, M, m, tail)
  BY ReadsAre
<1>2. /\ keys \in Seq(Nat) /\ Len(keys) <= Width /\ Distinct(keys)
      /\ \A i \in 1 .. Len(keys) : keys[i] \in 0 .. pos
      /\ \A p \in 0 .. pos : p < Sink \/ p >= tail => \E i \in 1 .. Len(keys) : keys[i] = p
  BY <1>1 DEF Slots
<1>3. DOMAIN keys = 1 .. Len(keys)
  BY <1>2, LenProperties
<1>4. IsInjective(keys)
  BY <1>2, <1>3 DEF IsInjective, Distinct
<1>5. ToSet(keys) \subseteq 0 .. pos
  BY <1>2, <1>3 DEF ToSet
<1>6. ASSUME NEW p \in 0 .. pos, p < Sink \/ p > pos - Window PROVE p \in ToSet(keys)
  <2>1. pos \in SparseQueries /\ Queried(setup, read, req)
    BY DEF SettledQueries, Seen
  <2>2. pos \in Nat /\ read.clustered \in Nat /\ pos + 1 <= read.clustered + Window + Block
    BY <2>1, QueryIs
  <2>3. tail \in 0 .. pos /\ (tail <= pos + 1 - Window \/ tail = 0)
    BY <1>1, <2>2, TailStartIs
  <2>4. PICK c \in Nat : c = Window
    BY BlockSize DEF Window
  <2>5. p < Sink \/ p >= tail
    BY <1>6, <2>2, <2>3, <2>4
  <2> QED BY <1>2, <1>3, <2>5 DEF ToSet
<1> QED BY <1>1, <1>2, <1>4, <1>5, <1>6

\* Whatever the scores, a query reads no key twice and none past its own position,
\* always its sinks and its window, and its list fits the row it is put in
\* (core.py:20-24, read.py:39): for every page and block size and whatever clusters
\* the keys make, under what makes the rows it reads from its own.
THEOREM ReadIsSoundHolds ==
  ASSUME 2 * DecodeQ <= Block + 1, \A s \in Setups : s.texts = 1 \/ s.page % Block = 0
  PROVE  Spec => []ReadIsSound
<1>1. Regular
  BY DEF Regular
<1>2. Spec => [](Inv /\ Seen)
  BY <1>1, SeenAlways
<1>3. Inv /\ Seen => ReadIsSound
  BY SeenSound DEF Inv, Good
<1> QED BY <1>2, <1>3, PTL

\* A position between the sinks and the tail is in a bucket the query may see.
LEMMA BucketOf ==
  ASSUME RoomToMerge, setup \in Setups, Seen, NEW pos \in SettledQueries,
         NEW p \in Nat, p < TailStart(pos, read.clustered)
  PROVE  \E b \in 0 .. Visible(pos, read.clustered) - 1 :
           \E i \in 1 .. Len(Members(pos)[b]) : Members(pos)[b][i] = p
<1>1. pos \in SparseQueries /\ Queried(setup, read, req)
  BY DEF SettledQueries, Seen
<1>2. PICK T \in Seq(Int), n \in Nat :
        /\ T = Texts[req[read.req].line] /\ n <= Len(T)
        /\ pos \in Nat /\ read.clustered = Floor(n) /\ read.clustered \in Nat
        /\ pos + 1 <= read.clustered + Window + Block
  BY <1>1, QueryIs
<1>3. PICK c \in Nat, tail \in Nat :
        /\ c = read.clustered /\ tail = TailStart(pos, c) /\ p < tail
        /\ (tail <= pos + 1 - Window \/ tail = 0) /\ tail <= c
  BY <1>2, TailStartIs
<1>4. PICK size \in Nat \ {0}, w \in Nat \ {0}, many \in Nat \ {0} :
        /\ size = BucketSize /\ w = Block /\ many = Buckets /\ w = many * size /\ Window = w
  BY BlockSize DEF Window
<1>5. PICK k \in Nat, l \in Nat, m \in Nat :
        /\ Floor(p) = k * Block /\ Floor(p) <= p /\ p < Floor(p) + Block
        /\ c = l * Block /\ c <= n
        /\ Floor(pos) = m * Block /\ pos < Floor(pos) + Block
  <2>1. /\ \E k \in Nat : Floor(p) = k * Block /\ Floor(p) <= p /\ p < Floor(p) + Block
        /\ \E l \in Nat : Floor(n) = l * Block /\ Floor(n) <= n
        /\ \E m \in Nat : Floor(pos) = m * Block /\ pos < Floor(pos) + Block
    BY <1>2, FloorBounds
  <2> QED BY <1>2, <1>3, <2>1
<1>6. PICK f \in Nat, h \in Nat : f = Floor(p) /\ h = Floor(pos)
  BY <1>2, FloorBounds
<1>7. f + w <= c
  <2>1. k * Block < l * Block
    BY <1>3, <1>5, <1>6
  <2> QED BY <1>4, <1>5, <1>6, <2>1, FloorStep
<1>8. f + w <= h
  <2>1. p + w <= pos
    <3>1. Window = w
      BY <1>4
    <3>2. tail <= pos + 1 - w
      BY <1>3, <3>1
    <3> QED BY <1>2, <1>3, <1>4, <3>2
  <2>2. f < h
    <3>1. f <= p /\ pos < h + w
      BY <1>4, <1>5, <1>6
    <3> QED BY <1>2, <2>1, <3>1
  <2>3. k * Block < m * Block
    BY <1>5, <1>6, <2>2
  <2> QED BY <1>4, <1>5, <1>6, <2>3, FloorStep
<1>9. PICK keys : keys = BlockText(T, f)
  OBVIOUS
<1>10. keys \in [0 .. Block - 1 -> Int]
  <2>1. PICK len \in Nat : len = Len(T) /\ f + w <= len
    <3>1. PICK len \in Nat : len = Len(T)
      BY <1>2, LenProperties
    <3> QED BY <1>2, <1>5, <1>7, <3>1
  <2>2. \A i \in 0 .. Block - 1 : f + i + 1 \in 1 .. Len(T)
    BY <1>4, <2>1
  <2>3. \A i \in 0 .. Block - 1 : T[f + i + 1] \in Int
    BY <1>2, <2>2, ElementOfSeq
  <2> QED BY <1>9, <2>3 DEF BlockText
<1>11. Ward(PoolSums(keys)) \in [Pools -> 0 .. Buckets - 1]
  BY <1>10, PoolSumsAre, WardReaches
<1>12. PICK o \in 0 .. Block - 1 : p = f + o
  <2>1. p - f \in 0 .. Block - 1 /\ p = f + (p - f)
    BY <1>4, <1>5, <1>6
  <2> QED BY <2>1
<1>13. PICK j \in 0 .. Buckets - 1 : \E i \in 1 .. Len(BucketTables(keys)[j]) :
         BucketTables(keys)[j][i] = o
  BY <1>11, <1>12, TablesAre
<1>14. PICK b \in Nat : b = k * many + j
  <2>1. k * many \in Nat /\ j \in Nat
    BY <1>4
  <2> QED BY <2>1
<1>15. b * size = f + j * size /\ b * size + size <= f + w
  <2>1. j \in Nat /\ j + 1 <= many
    BY <1>4
  <2>2. b * size = k * w + j * size
    <3>1. (k * many + j) * size = k * (many * size) + j * size
      BY <1>4, <2>1, Z3
    <3> QED BY <1>4, <1>14, <3>1
  <2>3. j * size + size <= w
    <3>1. PICK d \in Nat : many = j + 1 + d
      <4>1. many - j - 1 \in Nat /\ many = j + 1 + (many - j - 1)
        BY <2>1
      <4> QED BY <4>1
    <3>2. (j + 1 + d) * size = j * size + size + d * size /\ d * size \in Nat
          /\ j * size \in Nat
      BY <2>1, Z3
    <3> QED BY <1>4, <3>1, <3>2
  <2>4. j * size \in Nat /\ k * w = f
    <3>1. j * size \in Nat
      BY <2>1, Z3
    <3> QED BY <1>4, <1>5, <1>6, <3>1
  <2> QED BY <2>2, <2>3, <2>4
<1>16. b \in 0 .. Visible(pos, c) - 1
  <2>1. PICK u \in Nat : u = Smaller(h, c) /\ f + w <= u
    BY <1>7, <1>8 DEF Smaller
  <2>2. b * size + size <= u
    <3>1. b * size \in Nat
      BY <1>14, Z3
    <3> QED BY <1>4, <1>15, <2>1, <3>1
  <2>3. b + 1 <= u \div size /\ u \div size \in Nat
    BY <2>2, Z3
  <2>4. Visible(pos, c) = u \div size
    BY <1>4, <1>6, <2>1 DEF Visible
  <2> QED BY <2>3, <2>4
<1>17. Members(pos)[b] = MembersOf(b)
  BY <1>3, <1>16 DEF Members
<1>18. PICK v \in 0 .. Buckets - 1, g \in Nat :
         /\ b * BucketSize = g + v * BucketSize /\ g = Floor(b * BucketSize)
         /\ LET t == BucketTables(BlockText(T, g))[v]
            IN MembersOf(b) = [i \in DOMAIN t |-> g + t[i]]
  BY <1>2, <1>3, <1>16, MembersAre
<1>19. g = f /\ v = j
  <2>1. Floor(k * Block + j * BucketSize) = k * Block
    BY FloorOfBucket
  <2>2. g = f
    BY <1>4, <1>5, <1>6, <1>15, <1>18, <2>1
  <2>3. v \in Nat /\ j \in Nat /\ v * size = j * size
    <3>1. v \in Nat /\ j \in Nat
      BY <1>4
    <3>2. PICK x \in Nat, y \in Nat : x = v * size /\ y = j * size
      BY <3>1
    <3>3. f + x = f + y
      <4>1. b * size = f + v * size
        BY <1>4, <1>18, <2>2
      <4> QED BY <1>15, <3>2, <4>1
    <3> QED BY <3>1, <3>2, <3>3
  <2>4. v = j
    BY <2>3, Z3
  <2> QED BY <2>2, <2>4
<1>20. PICK t : t = BucketTables(keys)[j]
  OBVIOUS
<1>21. t \in Seq(Nat)
  BY <1>20, TablesAre DEF Tables
<1>22. Members(pos)[b] = [i \in 1 .. Len(t) |-> f + t[i]]
  <2>1. DOMAIN t = 1 .. Len(t)
    BY <1>21, LenProperties
  <2> QED BY <1>9, <1>17, <1>18, <1>19, <1>20, <2>1
<1>23. PICK i \in 1 .. Len(t) : t[i] = o
  BY <1>13, <1>20
<1>24. Len(Members(pos)[b]) = Len(t) /\ Members(pos)[b][i] = p
  <2>1. PICK len \in Nat : len = Len(t)
    BY <1>21, LenProperties
  <2>2. Members(pos)[b] = [e \in 1 .. len |-> f + t[e]]
    BY <1>22, <2>1
  <2> QED BY <1>12, <1>23, <2>1, <2>2
<1> QED BY <1>3, <1>16, <1>23, <1>24

\* With no more buckets than picks, every bucket is picked.
LEMMA AllPicked ==
  ASSUME NEW n \in Nat, n <= TopP, NEW picks, Choice(picks, Smaller(n, TopP), n),
         NEW b \in 0 .. n - 1
  PROVE  \E c \in 1 .. Smaller(n, TopP) : picks[c] = b
<1>1. Smaller(n, TopP) = n
  BY DEF Smaller
<1>2. PICK S, V : S = 1 .. n /\ V = 0 .. n - 1
  OBVIOUS
<1>3. picks \in [S -> V] /\ IsInjective(picks)
  BY <1>1, <1>2 DEF Choice
<1>4. IsFiniteSet(S) /\ Cardinality(S) = n
  <2>1. 1 \in Int /\ n \in Int
    OBVIOUS
  <2>2. IsFiniteSet(S) /\ Cardinality(S) = IF 1 > n THEN 0 ELSE n - 1 + 1
    BY <1>2, <2>1, FS_Interval
  <2> QED BY <2>2
<1>5. IsFiniteSet(V) /\ Cardinality(V) = n
  <2>1. 0 \in Int /\ n - 1 \in Int
    OBVIOUS
  <2>2. IsFiniteSet(V) /\ Cardinality(V) = IF 0 > n - 1 THEN 0 ELSE (n - 1) - 0 + 1
    BY <1>2, <2>1, FS_Interval
  <2> QED BY <2>2
<1>6. picks \in Injection(S, V)
  BY <1>3 DEF Injection, IsInjective
<1>7. picks \in Surjection(S, V)
  BY <1>4, <1>5, <1>6, FS_Injection
<1> QED BY <1>1, <1>2, <1>7 DEF Surjection

LEMMA SeenExact ==
  ASSUME RoomToMerge, setup \in Setups, Seen
  PROVE  ExactWithinBudget
<1> SUFFICES ASSUME NEW pos \in SettledQueries, NEW picks \in Orders(pos),
                    pos + 1 <= Budget, Visible(pos, read.clustered) <= TopP
             PROVE  LET keys == Reads(pos, picks)
                    IN IsInjective(keys) /\ ToSet(keys) = 0 .. pos
  BY DEF ExactWithinBudget
<1>1. pos \in SparseQueries /\ Queried(setup, read, req)
  BY DEF SettledQueries, Seen
<1>2. PICK c \in Nat, n \in Nat :
        /\ c = read.clustered /\ n = Visible(pos, c)
        /\ pos \in Nat /\ pos + 1 <= c + Window + Block
  BY <1>1, QueryIs
<1>3. PICK m \in Nat : m = Smaller(n, TopP) /\ Choice(picks, m, n)
  BY <1>2, ReadsAre
<1>4. PICK keys, M, tail : /\ keys = Reads(pos, picks) /\ tail = TailStart(pos, c)
                           /\ M = Members(pos) /\ Slots(keys, pos, picks, M, m, tail)
  BY <1>2, <1>3, ReadsAre
<1>5. /\ keys \in Seq(Nat) /\ Distinct(keys)
      /\ \A i \in 1 .. Len(keys) : keys[i] \in 0 .. pos
      /\ \A p \in 0 .. pos : p < Sink \/ p >= tail => \E i \in 1 .. Len(keys) : keys[i] = p
      /\ tail - Sink <= TopK =>
           \A p \in Nat : Found(p, picks, M, m, tail) => \E i \in 1 .. Len(keys) : keys[i] = p
  BY <1>4 DEF Slots
<1>6. DOMAIN keys = 1 .. Len(keys)
  BY <1>5, LenProperties
<1>7. IsInjective(keys)
  BY <1>5, <1>6 DEF IsInjective, Distinct
<1>8. ToSet(keys) \subseteq 0 .. pos
  BY <1>5, <1>6 DEF ToSet
<1>9. tail \in Nat /\ tail - Sink <= TopK
  <2>1. tail \in 0 .. pos /\ (tail <= pos + 1 - Window \/ tail = 0)
    BY <1>2, <1>4, TailStartIs
  <2>2. PICK w \in Nat, s \in Nat, k \in Nat : w = Window /\ s = Sink /\ k = TopK
    BY SelectOK DEF Window
  <2>3. pos + 1 <= s + k + w
    BY <2>2 DEF Budget
  <2> QED BY <1>2, <2>1, <2>2, <2>3
<1>10. ASSUME NEW p \in 0 .. pos PROVE \E i \in 1 .. Len(keys) : keys[i] = p
  <2>1. CASE p < Sink \/ p >= tail
    BY <1>5, <2>1
  <2>2. CASE ~(p < Sink \/ p >= tail)
    <3>1. p \in Nat /\ p >= Sink /\ p < tail
      BY <1>2, <1>9, <2>2, SelectOK
    <3>2. PICK b \in 0 .. n - 1 : \E i \in 1 .. Len(M[b]) : M[b][i] = p
      BY <1>2, <1>4, <3>1, BucketOf
    <3>3. PICK e \in 1 .. m : picks[e] = b
      BY <1>2, <1>3, AllPicked
    <3>4. Found(p, picks, M, m, tail)
      BY <3>1, <3>2, <3>3 DEF Found, Counted
    <3> QED BY <1>5, <1>9, <3>1, <3>4
  <2> QED BY <2>1, <2>2
<1>11. 0 .. pos \subseteq ToSet(keys)
  BY <1>6, <1>10 DEF ToSet
<1> QED BY <1>4, <1>7, <1>8, <1>11

\* A query whose context fits the budget reads every key, once (README.md:36,
\* backend.py:24-26): for every page and block size and whatever clusters the keys
\* make, where the rows it reads are its own and a block has room to merge down to
\* its rows.
THEOREM ExactWithinBudgetHolds ==
  ASSUME 2 * DecodeQ <= Block + 1, \A s \in Setups : s.texts = 1 \/ s.page % Block = 0,
         RoomToMerge
  PROVE  Spec => []ExactWithinBudget
<1>1. Regular
  BY DEF Regular
<1>2. Spec => [](Inv /\ Seen)
  BY <1>1, SeenAlways
<1>3. Inv /\ Seen => ExactWithinBudget
  BY SeenExact DEF Inv, Good
<1> QED BY <1>2, <1>3, PTL

-----------------------------------------------------------------------------
(* The last selection.                                                     *)

Selection ==
  picked # None =>
    \E score \in ScoreRows : \E vis \in 0 .. Cardinality(DOMAIN score) :
      picked = [score |-> score, vis |-> vis, order |-> Picked(score, vis)]

\* Every selection is that of a row the kernels were given.
LEMMA SelectionAlways == Spec => []Selection
<1>1. Init => Selection
  BY DEF Init, Selection
<1>2. Selection /\ [Next]_vars => Selection'
  <2> SUFFICES ASSUME Selection, [Next]_vars PROVE Selection'
    OBVIOUS
  <2>1. ASSUME NEW r \in Requests, NEW line \in 1 .. setup.texts,
               NEW prompt \in setup.prompts, Start(r, line, prompt)
        PROVE  Selection'
    <3>1. picked' = None
      BY <2>1, Zenon DEF Start
    <3> QED BY <3>1 DEF Selection
  <2>2. ASSUME NEW r \in Requests, NEW q, NEW good, Step(r, q, good)
        PROVE  Selection'
    <3>1. picked' = picked
      BY <2>2, Zenon DEF Step
    <3> QED BY <3>1 DEF Selection
  <2>3. ASSUME NEW r \in Requests, Finish(r) PROVE Selection'
    BY <2>3 DEF Finish, Selection
  <2>4. ASSUME NEW score \in ScoreRows, NEW vis \in 0 .. Cardinality(DOMAIN score),
               Select(score, vis)
        PROVE  Selection'
    BY <2>4, Zenon DEF Select, Selection
  <2>5. CASE UNCHANGED vars
    BY <2>5 DEF vars, Selection
  <2> QED BY <2>1, <2>2, <2>3, <2>4, <2>5, Zenon DEF Next
<1> QED BY <1>1, <1>2, PTL DEF Spec

\* The radix select of every score row, split over any number of programs, takes
\* the TopP best of the visible columns, the lower of two equal ones first, in
\* that order (kernels.py:9-11).
THEOREM TopPExactHolds == Spec => []TopPExact
<1>1. Selection => TopPExact
  <2> SUFFICES ASSUME Selection, picked # None
               PROVE  picked.order = SubSeq(BestFirst(picked.score, 0 .. picked.vis - 1), 1,
                                            Smaller(TopP, picked.vis))
    BY Zenon DEF TopPExact
  <2>1. PICK score \in ScoreRows : \E vis \in 0 .. Cardinality(DOMAIN score) :
          picked = [score |-> score, vis |-> vis, order |-> Picked(score, vis)]
    BY DEF Selection
  <2>2. PICK vis \in 0 .. Cardinality(DOMAIN score) :
          picked = [score |-> score, vis |-> vis, order |-> Picked(score, vis)]
    BY <2>1
  <2>3. picked.score = score /\ picked.vis = vis /\ picked.order = Picked(score, vis)
    BY <2>2
  <2>4. PICK n \in Nat, M \in Nat : /\ n = Cardinality(DOMAIN score) /\ M = Power[Digits]
                                  /\ score \in [0 .. n - 1 -> 0 .. M - 1]
    <3>1. Cardinality(DOMAIN score) \in Nat
      BY ScoresOK, FS_CardinalityType
    <3>2. Power[Digits] \in Nat
      BY PowerIs, SelectOK
    <3> QED BY <3>1, <3>2, ScoresOK
  <2>5. IsRow(score, vis)
    <3>1. vis \in 0 .. n
      BY <2>4
    <3> QED BY <2>4, <3>1 DEF IsRow
  <2>6. Picked(score, vis) = SubSeq(BestFirst(score, 0 .. vis - 1), 1, Smaller(TopP, vis))
    BY <2>5, PickedIs
  <2> QED BY <2>3, <2>6, Zenon
<1> QED BY <1>1, SelectionAlways, PTL

=============================================================================
