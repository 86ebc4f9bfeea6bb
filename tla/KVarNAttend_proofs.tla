------------------------ MODULE KVarNAttend_proofs ------------------------
(***************************************************************************)
(* What each query row attends to, for every deployment, batch, padding    *)
(* and placement of the blocks.                                            *)
(***************************************************************************)
EXTENDS KVarNAttend, FiniteSetTheorems, SequenceTheorems, WellFoundedInduction, TLAPS

-----------------------------------------------------------------------------
(* Division.                                                               *)

\* Division, as the provers need it.
LEMMA DivIs ==
  ASSUME NEW a \in Nat, NEW b \in Nat \ {0}
  PROVE  /\ a \div b \in Nat
         /\ b * (a \div b) <= a /\ a < b * (a \div b) + b
<1>1. a = b * (a \div b) + (a % b) /\ a % b \in 0 .. b - 1 /\ a \div b \in Int
  BY SMT
<1>2. a \div b \in Nat
  BY SMT
<1>3. PICK q \in Nat : q = a \div b
  BY <1>2
<1>4. b * q \in Nat
  BY <1>3, SMT
<1> QED BY <1>1, <1>3, <1>4

\* A quotient is the only number between its bounds.
LEMMA DivBounds ==
  ASSUME NEW a \in Nat, NEW b \in Nat \ {0}, NEW c \in Nat
  PROVE  /\ b * c <= a => c <= a \div b
         /\ a < b * c => a \div b < c
<1>1. PICK q \in Nat : q = a \div b
  BY DivIs
<1>2. b * q <= a /\ a < b * q + b
  BY <1>1, DivIs
<1>3. PICK d \in Int : d = c - q
  OBVIOUS
<1>4. b * c = b * q + b * d /\ b * q \in Nat /\ b * c \in Nat /\ b * d \in Int
  BY <1>1, <1>3, SMT
<1>5. ~ d <= 0 => b * d >= b
  BY <1>3, SMT
<1>6. d <= 0 => b * d <= 0
  BY <1>3, SMT
<1> QED BY <1>1, <1>2, <1>3, <1>4, <1>5, <1>6

LEMMA DivMonotone ==
  ASSUME NEW a \in Nat, NEW c \in Nat, a <= c, NEW b \in Nat \ {0}
  PROVE  a \div b <= c \div b
<1>1. b * (a \div b) <= a /\ a \div b \in Nat
  BY DivIs
<1>2. PICK q \in Nat : q = a \div b
  BY <1>1
<1>3. b * q <= c /\ b * q \in Nat
  BY <1>1, <1>2, SMT
<1> QED BY <1>2, <1>3, DivBounds

-----------------------------------------------------------------------------
(* Inductions over a set of naturals, and sums.                            *)

LEMMA LeastNat ==
  ASSUME NEW S, S \subseteq Nat, S # {}
  PROVE  \E m \in S : \A n \in S : m <= n
<1> DEFINE R == {ss \in Nat \X Nat : ss[1] < ss[2]}
<1>1. IsWellFoundedOn(R, Nat)
  BY NatLessThanWellFounded DEF OpToRel
<1>2. PICK m \in S : \A n \in S : ~(<<n, m>> \in R)
  BY <1>1, WFMin
<1>3. ASSUME NEW n \in S PROVE m <= n
  <2>1. m \in Nat /\ n \in Nat /\ <<n, m>> \in Nat \X Nat /\ <<n, m>> \notin R
    BY <1>2
  <2> QED BY <2>1
<1> QED BY <1>3

LEMMA Induction ==
  ASSUME NEW S, 0 \in S, \A n \in Nat : n \in S => n + 1 \in S
  PROVE  Nat \subseteq S
<1> SUFFICES ASSUME Nat \ S # {} PROVE FALSE
  OBVIOUS
<1>1. PICK m \in Nat \ S : \A n \in Nat \ S : m <= n
  BY LeastNat
<1>2. m - 1 \in Nat
  BY <1>1
<1> QED BY <1>1, <1>2

\* f is the recursive function of Sum, up to n.
RunningSum(f, q, n) == f = [i \in 0 .. n |-> IF i = 0 THEN 0 ELSE f[i - 1] + q[i]]

LEMMA RunningSumExists ==
  ASSUME NEW q, NEW n \in Nat
  PROVE  \E f : RunningSum(f, q, n)
<1> DEFINE Good == {m \in Nat : \E f : RunningSum(f, q, m)}
<1>1. 0 \in Good
  <2>1. RunningSum([i \in 0 .. 0 |-> 0], q, 0)
    BY DEF RunningSum
  <2> QED BY <2>1
<1>2. ASSUME NEW m \in Nat, m \in Good PROVE m + 1 \in Good
  <2>1. PICK f : RunningSum(f, q, m)
    BY <1>2
  <2> DEFINE g == [i \in 0 .. m + 1 |-> IF i <= m THEN f[i] ELSE f[m] + q[m + 1]]
  <2>2. ASSUME NEW i \in 0 .. m + 1
        PROVE  g[i] = IF i = 0 THEN 0 ELSE g[i - 1] + q[i]
    <3>1. CASE i = 0
      BY <2>1, <3>1 DEF RunningSum
    <3>2. CASE i \in 1 .. m
      <4>1. g[i] = f[i] /\ g[i - 1] = f[i - 1] /\ i \in 0 .. m /\ i # 0
        BY <3>2
      <4>2. f[i] = f[i - 1] + q[i]
        BY <2>1, <4>1 DEF RunningSum
      <4> QED BY <4>1, <4>2
    <3>3. CASE i = m + 1
      BY <3>3
    <3> QED BY <3>1, <3>2, <3>3
  <2>3. g = [i \in 0 .. m + 1 |-> IF i = 0 THEN 0 ELSE g[i - 1] + q[i]]
    <3> DEFINE h == [i \in 0 .. m + 1 |-> IF i = 0 THEN 0 ELSE g[i - 1] + q[i]]
    <3>1. \A i \in 0 .. m + 1 : g[i] = h[i]
      BY <2>2
    <3> QED BY <3>1
  <2> HIDE DEF g
  <2> QED BY <2>3 DEF RunningSum
<1>3. Nat \subseteq Good
  <2> HIDE DEF Good
  <2> QED BY <1>1, <1>2, Induction
<1> QED BY <1>3

LEMMA SumIs ==
  ASSUME NEW q, NEW n \in Nat, \A i \in 1 .. n : q[i] \in Nat
  PROVE  /\ Sum(q, 0) = 0
         /\ \A i \in 0 .. n : Sum(q, i) \in Nat
         /\ \A i \in 1 .. n : Sum(q, i) = Sum(q, i - 1) + q[i]
<1>1. ASSUME NEW m \in Nat PROVE \E f : RunningSum(f, q, m) /\ Sum(q, m) = f[m]
  <2>1. PICK f : RunningSum(f, q, m)
    BY RunningSumExists
  <2> DEFINE g == CHOOSE g : RunningSum(g, q, m)
  <2>2. RunningSum(g, q, m)
    BY <2>1
  <2>3. Sum(q, m) = g[m]
    BY DEF Sum, RunningSum
  <2> QED BY <2>2, <2>3
\* Two of them agree where both are defined.
<1>2. ASSUME NEW f, NEW g, NEW k \in Nat, NEW m \in Nat, k <= m,
             RunningSum(f, q, k), RunningSum(g, q, m)
      PROVE  f[k] = g[k]
  <2> DEFINE Same == {i \in Nat : i <= k => f[i] = g[i]}
  <2>1. 0 \in Same
    <3>1. 0 \in 0 .. k /\ 0 \in 0 .. m
      BY <1>2
    <3>2. f[0] = 0 /\ g[0] = 0
      BY <1>2, <3>1 DEF RunningSum
    <3> QED BY <3>2
  <2>2. ASSUME NEW i \in Nat, i \in Same PROVE i + 1 \in Same
    <3> SUFFICES ASSUME i + 1 <= k PROVE f[i + 1] = g[i + 1]
      OBVIOUS
    <3>1. i + 1 \in 0 .. k /\ i + 1 \in 0 .. m /\ i + 1 # 0 /\ i + 1 - 1 = i /\ f[i] = g[i]
      BY <1>2, <2>2
    <3>2. f[i + 1] = f[i] + q[i + 1]
      BY <1>2, <3>1 DEF RunningSum
    <3>3. g[i + 1] = g[i] + q[i + 1]
      BY <1>2, <3>1 DEF RunningSum
    <3> QED BY <3>1, <3>2, <3>3
  <2>3. Nat \subseteq Same
    <3> HIDE DEF Same
    <3> QED BY <2>1, <2>2, Induction
  <2> QED BY <2>3
<1>3. Sum(q, 0) = 0
  <2>1. PICK f : RunningSum(f, q, 0) /\ Sum(q, 0) = f[0]
    BY <1>1
  <2> QED BY <2>1 DEF RunningSum
<1>4. ASSUME NEW i \in 1 .. n PROVE Sum(q, i) = Sum(q, i - 1) + q[i]
  <2>1. i \in Nat /\ i - 1 \in Nat /\ i - 1 <= i /\ i # 0 /\ i \in 0 .. i
    OBVIOUS
  <2>2. PICK f : RunningSum(f, q, i - 1) /\ Sum(q, i - 1) = f[i - 1]
    BY <1>1, <2>1
  <2>3. PICK g : RunningSum(g, q, i) /\ Sum(q, i) = g[i]
    BY <1>1, <2>1
  <2>4. f[i - 1] = g[i - 1]
    BY <1>2, <2>1, <2>2, <2>3
  <2>5. g[i] = g[i - 1] + q[i]
    BY <2>1, <2>3 DEF RunningSum
  <2> QED BY <2>2, <2>3, <2>4, <2>5
<1>5. \A i \in 0 .. n : Sum(q, i) \in Nat
  <2> DEFINE T == {i \in Nat : i <= n => Sum(q, i) \in Nat}
  <2>1. 0 \in T
    BY <1>3
  <2>2. ASSUME NEW i \in Nat, i \in T PROVE i + 1 \in T
    <3> SUFFICES ASSUME i + 1 <= n PROVE Sum(q, i + 1) \in Nat
      OBVIOUS
    <3>1. i + 1 \in 1 .. n /\ i + 1 - 1 = i /\ Sum(q, i) \in Nat
      BY <2>2
    <3>2. Sum(q, i + 1) = Sum(q, i) + q[i + 1]
      BY <1>4, <3>1
    <3> QED BY <3>1, <3>2
  <2>3. Nat \subseteq T
    <3> HIDE DEF T
    <3> QED BY <2>1, <2>2, Induction
  <2> QED BY <2>3
<1> QED BY <1>3, <1>4, <1>5

\* Between two offsets lie as many tokens as the requests there allow.
LEMMA SumBounds ==
  ASSUME NEW q, NEW n \in Nat, NEW lo \in Nat, NEW hi \in Nat,
         NEW i \in 0 .. n, NEW j \in 0 .. n, i <= j,
         \A r \in 1 .. n : q[r] \in Nat,
         \A r \in i + 1 .. j : lo <= q[r] /\ q[r] <= hi
  PROVE  /\ Sum(q, i) + (j - i) * lo <= Sum(q, j)
         /\ Sum(q, j) <= Sum(q, i) + (j - i) * hi
<1> DEFINE T == {d \in Nat : i + d <= j => /\ Sum(q, i) + d * lo <= Sum(q, i + d)
                                          /\ Sum(q, i + d) <= Sum(q, i) + d * hi}
<1>1. \A k \in 0 .. n : Sum(q, k) \in Nat
  BY SumIs
<1>2. 0 \in T
  <2>1. i + 0 = i /\ 0 * lo = 0 /\ 0 * hi = 0 /\ Sum(q, i) \in Nat
    BY <1>1, SMT
  <2> QED BY <2>1
<1>3. ASSUME NEW d \in Nat, d \in T PROVE d + 1 \in T
  <2> SUFFICES ASSUME i + d + 1 <= j
               PROVE  /\ Sum(q, i) + (d + 1) * lo <= Sum(q, i + d + 1)
                      /\ Sum(q, i + d + 1) <= Sum(q, i) + (d + 1) * hi
    BY SMT
  <2>1. /\ i + d + 1 \in 1 .. n /\ i + d + 1 \in i + 1 .. j /\ i + d \in 0 .. n
        /\ i + d + 1 - 1 = i + d
    OBVIOUS
  <2>2. Sum(q, i + d + 1) = Sum(q, i + d) + q[i + d + 1]
    BY <2>1, SumIs
  <2>3. lo <= q[i + d + 1] /\ q[i + d + 1] <= hi /\ q[i + d + 1] \in Nat
    BY <2>1
  <2>4. Sum(q, i) + d * lo <= Sum(q, i + d) /\ Sum(q, i + d) <= Sum(q, i) + d * hi
    BY <1>3
  <2>5. (d + 1) * lo = d * lo + lo /\ (d + 1) * hi = d * hi + hi /\ d * lo \in Nat /\ d * hi \in Nat
    BY SMT
  <2>6. Sum(q, i) \in Nat /\ Sum(q, i + d) \in Nat
    BY <1>1, <2>1
  <2> QED BY <2>2, <2>3, <2>4, <2>5, <2>6
<1>4. Nat \subseteq T
  <2> HIDE DEF T
  <2> QED BY <1>2, <1>3, Induction
<1>5. j - i \in Nat /\ i + (j - i) = j
  OBVIOUS
<1> QED BY <1>4, <1>5


\* Sums of the same numbers are the same.
LEMMA SumSame ==
  ASSUME NEW q, NEW r, NEW n \in Nat, \A i \in 1 .. n : q[i] \in Nat /\ r[i] = q[i]
  PROVE  Sum(r, n) = Sum(q, n)
<1> DEFINE T == {i \in Nat : i <= n => Sum(r, i) = Sum(q, i)}
<1>1. 0 \in T
  BY SumIs
<1>2. ASSUME NEW i \in Nat, i \in T PROVE i + 1 \in T
  <2> SUFFICES ASSUME i + 1 <= n PROVE Sum(r, i + 1) = Sum(q, i + 1)
    OBVIOUS
  <2>1. i + 1 \in 1 .. n /\ i + 1 - 1 = i /\ Sum(r, i) = Sum(q, i)
    BY <1>2
  <2>2. Sum(r, i + 1) = Sum(r, i) + r[i + 1]
    <3>1. \A k \in 1 .. n : r[k] \in Nat
      OBVIOUS
    <3> QED BY <2>1, <3>1, SumIs
  <2>3. Sum(q, i + 1) = Sum(q, i) + q[i + 1]
    BY <2>1, SumIs
  <2> QED BY <2>1, <2>2, <2>3
<1>3. Nat \subseteq T
  <2> HIDE DEF T
  <2> QED BY <1>1, <1>2, Induction
<1> QED BY <1>3

LEMMA SumMonotone ==
  ASSUME NEW q, NEW n \in Nat, \A i \in 1 .. n : q[i] \in Nat,
         NEW i \in 0 .. n, NEW j \in 0 .. n, i <= j
  PROVE  Sum(q, i) <= Sum(q, j)
<1> DEFINE T == {d \in Nat : i + d <= j => Sum(q, i) <= Sum(q, i + d)}
<1>1. \A k \in 0 .. n : Sum(q, k) \in Nat
  BY SumIs
<1>2. 0 \in T
  BY <1>1
<1>3. ASSUME NEW d \in Nat, d \in T PROVE d + 1 \in T
  <2> SUFFICES ASSUME i + (d + 1) <= j PROVE Sum(q, i) <= Sum(q, i + (d + 1))
    OBVIOUS
  <2>1. i + (d + 1) \in 1 .. n /\ i + (d + 1) - 1 = i + d /\ i + d \in 0 .. n
    OBVIOUS
  <2>2. Sum(q, i + (d + 1)) = Sum(q, i + d) + q[i + (d + 1)]
    BY <2>1, SumIs
  <2> QED BY <1>1, <1>3, <2>1, <2>2
<1>4. Nat \subseteq T
  <2> HIDE DEF T
  <2> QED BY <1>2, <1>3, Induction
<1>5. j - i \in Nat /\ i + (j - i) = j
  OBVIOUS
<1> QED BY <1>4, <1>5

\* A number up to the sum lies in the share of one member.
LEMMA SumFinds ==
  ASSUME NEW q, NEW n \in Nat, \A i \in 1 .. n : q[i] \in Nat, NEW t \in 1 .. Sum(q, n)
  PROVE  \E b \in 1 .. n : \E j \in 1 .. q[b] : t = Sum(q, b - 1) + j
<1> DEFINE U == {i \in 0 .. n : t <= Sum(q, i)}
<1>1. \A k \in 0 .. n : Sum(q, k) \in Nat
  BY SumIs
<1>2. n \in U /\ U \subseteq Nat
  BY <1>1
<1>3. PICK b \in U : \A i \in U : b <= i
  BY <1>2, LeastNat
<1>4. b # 0
  BY <1>1, <1>3, SumIs
<1>5. b \in 1 .. n /\ b - 1 \in 0 .. n /\ b - 1 \notin U
  BY <1>3, <1>4
<1>6. Sum(q, b) = Sum(q, b - 1) + q[b]
  BY <1>5, SumIs
<1>7. t - Sum(q, b - 1) \in 1 .. q[b]
  BY <1>1, <1>3, <1>5, <1>6
<1>8. t = Sum(q, b - 1) + (t - Sum(q, b - 1))
  BY <1>1, <1>5
<1> QED BY <1>5, <1>7, <1>8

\* In the share of no other.
LEMMA SumPlaceIsOne ==
  ASSUME NEW q, NEW n \in Nat, \A i \in 1 .. n : q[i] \in Nat,
         NEW b \in 1 .. n, NEW c \in 1 .. n, NEW j \in 1 .. q[b], NEW k \in 1 .. q[c],
         Sum(q, b - 1) + j = Sum(q, c - 1) + k
  PROVE  b = c /\ j = k
<1>1. \A i \in 0 .. n : Sum(q, i) \in Nat
  BY SumIs
<1>2. Sum(q, b) = Sum(q, b - 1) + q[b] /\ Sum(q, c) = Sum(q, c - 1) + q[c]
  BY SumIs
<1>3. b - 1 \in 0 .. n /\ c - 1 \in 0 .. n /\ b \in 0 .. n /\ c \in 0 .. n
  OBVIOUS
<1>4. ~ b < c
  <2> SUFFICES ASSUME b < c PROVE FALSE
    OBVIOUS
  <2>1. Sum(q, b) <= Sum(q, c - 1)
    BY <1>3, SumMonotone
  <2> QED BY <1>1, <1>2, <1>3, <2>1
<1>5. ~ c < b
  <2> SUFFICES ASSUME c < b PROVE FALSE
    OBVIOUS
  <2>1. Sum(q, c) <= Sum(q, b - 1)
    BY <1>3, SumMonotone
  <2> QED BY <1>1, <1>2, <1>3, <2>1
<1>6. b = c
  BY <1>4, <1>5
<1> QED BY <1>1, <1>3, <1>6

-----------------------------------------------------------------------------
(* Flattened sequences.                                                    *)

\* g is the recursive function of FlattenSeq, up to n.
Flattening(g, f, n) == g = [i \in 1 .. n |-> IF i = 1 THEN f[i] ELSE g[i - 1] \o f[i]]

LEMMA FlatteningExists ==
  ASSUME NEW f, NEW n \in Nat
  PROVE  \E g : Flattening(g, f, n)
<1> DEFINE Made == {m \in Nat : \E g : Flattening(g, f, m)}
<1>1. 0 \in Made
  <2>1. Flattening([i \in 1 .. 0 |-> 0], f, 0)
    BY DEF Flattening
  <2> QED BY <2>1
<1>2. ASSUME NEW m \in Nat, m \in Made PROVE m + 1 \in Made
  <2>1. PICK g : Flattening(g, f, m)
    BY <1>2
  <2> DEFINE h == [i \in 1 .. m + 1 |-> IF i <= m THEN g[i] ELSE
                                        IF i = 1 THEN f[i] ELSE g[m] \o f[i]]
  <2>2. ASSUME NEW i \in 1 .. m + 1
        PROVE  h[i] = IF i = 1 THEN f[i] ELSE h[i - 1] \o f[i]
    <3>1. CASE i <= m
      <4>1. i \in 1 .. m /\ h[i] = g[i] /\ (i # 1 => h[i - 1] = g[i - 1])
        BY <3>1
      <4>2. g[i] = IF i = 1 THEN f[i] ELSE g[i - 1] \o f[i]
        BY <2>1, <4>1 DEF Flattening
      <4> QED BY <4>1, <4>2
    <3>2. CASE ~ i <= m
      <4>1. i = m + 1 /\ (i # 1 => h[i - 1] = g[m] /\ i - 1 = m)
        BY <3>2
      <4> QED BY <3>2, <4>1
    <3> QED BY <3>1, <3>2
  <2>3. Flattening(h, f, m + 1)
    <3> DEFINE k == [i \in 1 .. m + 1 |-> IF i = 1 THEN f[i] ELSE h[i - 1] \o f[i]]
    <3>1. \A i \in 1 .. m + 1 : h[i] = k[i]
      BY <2>2
    <3>2. h = k
      BY <3>1
    <3> QED BY <3>2 DEF Flattening
  <2> HIDE DEF h
  <2> QED BY <2>3
<1>3. Nat \subseteq Made
  <2> HIDE DEF Made
  <2> QED BY <1>1, <1>2, Induction
<1> QED BY <1>3

\* The first n members of f are sequences over S, of the lengths q.
Parts(f, q, n, S) == \A b \in 1 .. n : q[b] \in Nat /\ f[b] \in Seq(S) /\ Len(f[b]) = q[b]

\* After its first k parts.
LEMMA FlattenSteps ==
  ASSUME NEW n \in Nat, NEW f, NEW q, NEW S, NEW g, Flattening(g, f, n), Parts(f, q, n, S),
         NEW k \in 1 .. n
  PROVE  /\ g[k] \in Seq(S) /\ Len(g[k]) = Sum(q, k)
         /\ \A b \in 1 .. k : \A j \in 1 .. q[b] : g[k][Sum(q, b - 1) + j] = f[b][j]
<1> DEFINE Has(m) == /\ g[m] \in Seq(S) /\ Len(g[m]) = Sum(q, m)
                     /\ \A b \in 1 .. m : \A j \in 1 .. q[b] :
                          g[m][Sum(q, b - 1) + j] = f[b][j]
           T == {m \in Nat : m + 1 <= n => Has(m + 1)}
<1>0. \A b \in 1 .. n : q[b] \in Nat
  BY DEF Parts
<1>1. \A i \in 0 .. n : Sum(q, i) \in Nat
  BY <1>0, SumIs
<1> HIDE DEF Has, T
<1>2. 0 \in T
  <2> SUFFICES ASSUME 1 <= n PROVE Has(1)
    BY DEF T
  <2>1. g[1] = f[1] /\ 1 \in 1 .. n
    BY DEF Flattening
  <2>2. Sum(q, 1) = Sum(q, 1 - 1) + q[1] /\ Sum(q, 0) = 0
    BY <1>0, <2>1, SumIs
  <2>3. q[1] \in Nat /\ f[1] \in Seq(S) /\ Len(f[1]) = q[1]
    BY <2>1 DEF Parts
  <2>4. Sum(q, 1) = q[1]
    BY <2>2, <2>3
  <2>5. ASSUME NEW b \in 1 .. 1, NEW j \in 1 .. q[b]
        PROVE  g[1][Sum(q, b - 1) + j] = f[b][j]
    <3>1. b = 1 /\ Sum(q, b - 1) + j = j
      BY <2>2, <2>3
    <3> QED BY <2>1, <3>1
  <2> QED BY <2>1, <2>3, <2>4, <2>5 DEF Has
<1>3. ASSUME NEW i \in Nat, i \in T PROVE i + 1 \in T
  <2> SUFFICES ASSUME i + 1 + 1 <= n PROVE Has(i + 1 + 1)
    BY DEF T
  <2>1. PICK m \in Nat : m = i + 1
    OBVIOUS
  <2>2. Has(m)
    BY <1>3, <2>1 DEF T
  <2>3. m \in 1 .. n /\ m + 1 \in 1 .. n /\ m + 1 # 1 /\ m + 1 - 1 = m /\ m \in 0 .. n
    BY <2>1
  <2>4. g[m + 1] = g[m] \o f[m + 1]
    <3>1. \A a \in 1 .. n : a # 1 => g[a] = g[a - 1] \o f[a]
      BY Zenon DEF Flattening
    <3>2. PICK a \in 1 .. n : a = m + 1 /\ a # 1 /\ a - 1 = m
      BY <2>3
    <3>3. g[a] = g[a - 1] \o f[a]
      BY <3>1, <3>2, Zenon
    <3> QED BY <3>2, <3>3, Zenon
  <2>5. f[m + 1] \in Seq(S) /\ Len(f[m + 1]) = q[m + 1] /\ q[m + 1] \in Nat
    BY <2>3 DEF Parts
  <2>6. Sum(q, m + 1) = Sum(q, m) + q[m + 1] /\ Sum(q, m) \in Nat
    BY <1>0, <1>1, <2>3, SumIs
  <2>7. g[m] \in Seq(S) /\ Len(g[m]) = Sum(q, m)
    BY <2>2 DEF Has
  <2>8. g[m + 1] \in Seq(S) /\ Len(g[m + 1]) = Sum(q, m + 1)
    <3>1. g[m] \o f[m + 1] \in Seq(S) /\ Len(g[m] \o f[m + 1]) = Len(g[m]) + Len(f[m + 1])
      BY <2>5, <2>7, ConcatProperties, Zenon
    <3> QED BY <2>4, <2>5, <2>6, <2>7, <3>1, Zenon
  <2>9. \A t \in 1 .. Sum(q, m) + q[m + 1] :
          g[m + 1][t] = IF t <= Sum(q, m) THEN g[m][t] ELSE f[m + 1][t - Sum(q, m)]
    <3>1. \A t \in 1 .. Len(g[m]) + Len(f[m + 1]) : (g[m] \o f[m + 1])[t] =
            IF t <= Len(g[m]) THEN g[m][t] ELSE f[m + 1][t - Len(g[m])]
      BY <2>5, <2>7, ConcatProperties, Zenon
    <3> QED BY <2>4, <2>5, <2>7, <3>1, Zenon
  <2>10. ASSUME NEW b \in 1 .. m + 1, NEW j \in 1 .. q[b]
         PROVE  g[m + 1][Sum(q, b - 1) + j] = f[b][j]
    <3>1. b \in 1 .. n /\ q[b] \in Nat /\ b - 1 \in 0 .. n /\ b \in 0 .. n /\ j \in Nat
      BY <1>0, <2>3
    <3>2. Sum(q, b) = Sum(q, b - 1) + q[b] /\ Sum(q, b - 1) \in Nat /\ Sum(q, b) \in Nat
      BY <1>0, <1>1, <3>1, SumIs
    <3>3. CASE b \in 1 .. m
      <4>1. Sum(q, b) <= Sum(q, m)
        BY <1>0, <2>3, <3>1, <3>3, SumMonotone
      <4>2. Sum(q, b - 1) + j \in 1 .. Sum(q, m) + q[m + 1] /\ Sum(q, b - 1) + j <= Sum(q, m)
        <5>1. q[m + 1] \in Nat
          BY <2>5
        <5>2. j <= q[b] /\ 1 <= j
          BY <3>1
        <5> QED BY <2>6, <3>1, <3>2, <4>1, <5>1, <5>2
      <4>3. g[m + 1][Sum(q, b - 1) + j] = g[m][Sum(q, b - 1) + j]
        BY <2>9, <4>2
      <4> QED BY <2>2, <3>3, <4>3 DEF Has
    <3>4. CASE b = m + 1
      <4>1. PICK t \in Nat : t = Sum(q, m) + j
        BY <2>6, <3>1
      <4>2. t \in 1 .. Sum(q, m) + q[m + 1] /\ ~ t <= Sum(q, m) /\ t - Sum(q, m) = j
            /\ Sum(q, b - 1) + j = t
        BY <2>3, <2>6, <3>1, <3>2, <3>4, <4>1
      <4>3. g[m + 1][t] = f[m + 1][j]
        BY <2>9, <4>2
      <4> QED BY <3>4, <4>2, <4>3
    <3> QED BY <2>3, <3>3, <3>4
  <2>11. Has(m + 1)
    BY <2>8, <2>10 DEF Has
  <2> QED BY <2>1, <2>11 DEF T
<1>4. Nat \subseteq T
  BY <1>2, <1>3, Induction
<1>5. k - 1 \in Nat /\ k - 1 + 1 = k
  OBVIOUS
<1>6. Has(k)
  BY <1>4, <1>5 DEF T
<1> QED BY <1>6 DEF Has

\* f is n sequences, of the lengths q.
Lists(f, q, n) ==
  /\ f = [b \in 1 .. n |-> f[b]]
  /\ \A b \in 1 .. n : q[b] \in Nat /\ f[b] = [j \in 1 .. q[b] |-> f[b][j]]

\* A flattened sequence has the elements of its parts, part by part.
LEMMA FlattenIs ==
  ASSUME NEW n \in Nat, NEW f, NEW q, Lists(f, q, n)
  PROVE  /\ FlattenSeq(f) = [t \in 1 .. Sum(q, n) |-> FlattenSeq(f)[t]]
         /\ Len(FlattenSeq(f)) = Sum(q, n)
         /\ \A b \in 1 .. n : \A j \in 1 .. q[b] :
              FlattenSeq(f)[Sum(q, b - 1) + j] = f[b][j]
<1>f. f = [b \in 1 .. n |-> f[b]]
  BY Zenon DEF Lists
<1>q. \A b \in 1 .. n : q[b] \in Nat
  BY DEF Lists
<1>b. \A b \in 1 .. n : f[b] = [j \in 1 .. q[b] |-> f[b][j]]
  BY Zenon DEF Lists
<1> DEFINE S == UNION {{f[b][j] : j \in 1 .. q[b]} : b \in 1 .. n}
<1>1. ASSUME NEW b \in 1 .. n PROVE f[b] \in Seq(S) /\ Len(f[b]) = q[b]
  <2>1. f[b] \in [1 .. q[b] -> S]
    <3>1. \A j \in 1 .. q[b] : f[b][j] \in S
      OBVIOUS
    <3> HIDE DEF S
    <3> QED BY <1>b, <3>1
  <2>2. q[b] \in Nat
    BY <1>q
  <2> HIDE DEF S
  <2> QED BY <2>1, <2>2
<1> HIDE DEF S
<1>2. Len(f) = n
  <2> DEFINE R == {f[b] : b \in 1 .. n}
  <2>1. \A b \in 1 .. n : f[b] \in R
    OBVIOUS
  <2> HIDE DEF R
  <2>2. f \in [1 .. n -> R]
    BY <1>f, <2>1
  <2>3. f \in Seq(R) /\ DOMAIN f = 1 .. n
    BY <2>2
  <2>4. DOMAIN f = 1 .. Len(f) /\ Len(f) \in Nat
    BY <2>3, LenProperties
  <2> QED BY <2>3, <2>4
<1>3. \A k \in 0 .. n : Sum(q, k) \in Nat
  BY <1>q, SumIs
<1>4. CASE n = 0
  <2>1. FlattenSeq(f) = f
    BY <1>2, <1>4 DEF FlattenSeq
  <2>2. Sum(q, n) = 0
    BY <1>4, <1>q, SumIs
  <2>3. f = [t \in 1 .. Sum(q, n) |-> f[t]]
    BY <1>f, <1>4, <2>2
  <2>4. Len(f) = Sum(q, n)
    BY <1>2, <1>4, <2>2
  <2>5. \A b \in 1 .. n : FALSE
    BY <1>4
  <2>6. FlattenSeq(f) = [t \in 1 .. Sum(q, n) |-> FlattenSeq(f)[t]]
    BY <2>1, <2>3
  <2> QED BY <2>1, <2>4, <2>5, <2>6
<1>5. CASE n # 0
  <2> DEFINE g == CHOOSE g : Flattening(g, f, n)
  <2>1. Flattening(g, f, n)
    BY FlatteningExists
  <2>2. FlattenSeq(f) = g[n]
    BY <1>2, <1>5 DEF FlattenSeq, Flattening
  <2> HIDE DEF g
  <2>3. n \in 1 .. n
    BY <1>5
  <2>4. Parts(f, q, n, S)
    BY <1>1, <1>q DEF Parts
  <2>5. /\ g[n] \in Seq(S) /\ Len(g[n]) = Sum(q, n)
        /\ \A b \in 1 .. n : \A j \in 1 .. q[b] : g[n][Sum(q, b - 1) + j] = f[b][j]
    BY <2>1, <2>3, <2>4, FlattenSteps
  <2>6. g[n] = [t \in 1 .. Sum(q, n) |-> g[n][t]]
    BY <2>5, LenProperties
  <2> QED BY <2>2, <2>5, <2>6
<1> QED BY <1>4, <1>5

-----------------------------------------------------------------------------
(* The kernels: which positions a program reads.                           *)

LEMMA QuotientAndRest ==
  ASSUME NEW b \in Nat \ {0}, NEW q \in Nat, NEW r \in 0 .. b - 1
  PROVE  q * b + r \in Nat /\ (q * b + r) \div b = q /\ (q * b + r) % b = r
<1>1. q * b \in Nat /\ b * q = q * b
  BY SMT
<1>2. PICK a \in Nat : a = q * b + r
  BY <1>1
<1>3. b * q <= a /\ a < b * (q + 1)
  <2>1. b * (q + 1) = b * q + b
    BY SMT
  <2> QED BY <1>1, <1>2, <2>1
<1>4. a \div b \in Nat /\ q <= a \div b /\ a \div b < q + 1
  BY <1>2, <1>3, DivIs, DivBounds
<1>5. a \div b = q
  BY <1>4
<1>6. a = b * (a \div b) + (a % b) /\ a % b \in 0 .. b - 1
  BY <1>2, SMT
<1> QED BY <1>1, <1>2, <1>5, <1>6

LEMMA GroupsAreWhole ==
  /\ G \in Nat \ {0} /\ BlockN \in Nat \ {0} /\ G \div BlockN \in Nat \ {0}
  /\ (G \div BlockN) * BlockN = G
<1>1. G \in Nat \ {0} /\ BlockN \in Nat \ {0} /\ BlockN <= G /\ G % BlockN = 0
  BY AttendOK
<1>2. G = BlockN * (G \div BlockN) + (G % BlockN) /\ G \div BlockN \in Nat
  BY <1>1, DivIs, SMT
<1>3. PICK c \in Nat : c = G \div BlockN
  BY <1>2
<1>4. G = BlockN * c
  <2>1. BlockN * c \in Nat
    BY <1>1, SMT
  <2> QED BY <1>1, <1>2, <1>3, <2>1
<1>5. c # 0 /\ c * BlockN = BlockN * c
  BY <1>1, <1>4, SMT
<1> QED BY <1>1, <1>3, <1>4, <1>5

\* Block k, chunk c, token i, of a position, and back.
LEMMA CellOf ==
  ASSUME NEW k \in Nat, NEW c \in 0 .. G \div BlockN - 1, NEW i \in 0 .. BlockN - 1
  PROVE  /\ c * BlockN + i \in 0 .. G - 1
         /\ k * G + c * BlockN + i \in Nat /\ k * G \in Nat /\ c * BlockN \in Nat
         /\ (k * G + c * BlockN + i) \div G = k
         /\ ((k * G + c * BlockN + i) % G) \div BlockN = c
<1>1. PICK n \in Nat \ {0} : n = G \div BlockN
  BY GroupsAreWhole
<1>2. c \in Nat /\ c + 1 <= n /\ BlockN \in Nat \ {0} /\ i \in Nat /\ i < BlockN /\ n * BlockN = G
  BY <1>1, GroupsAreWhole
<1>3. c * BlockN \in Nat /\ (c + 1) * BlockN = c * BlockN + BlockN
      /\ (c + 1) * BlockN <= n * BlockN
  BY <1>2, SMT
<1>4. c * BlockN + i \in 0 .. G - 1
  BY <1>2, <1>3, GroupsAreWhole
<1>5. PICK m \in 0 .. G - 1 : m = c * BlockN + i
  BY <1>4
<1>6. m \div BlockN = c
  BY <1>2, <1>5, QuotientAndRest
<1>7. k * G + m \in Nat /\ (k * G + m) \div G = k /\ (k * G + m) % G = m
  BY GroupsAreWhole, QuotientAndRest
<1>8. k * G \in Nat
  BY GroupsAreWhole, SMT
<1>9. k * G + c * BlockN + i = k * G + m
  BY <1>3, <1>5, <1>8
<1> QED BY <1>3, <1>4, <1>6, <1>7, <1>8, <1>9

LEMMA CellFor ==
  ASSUME NEW p \in Nat
  PROVE  \E k \in Nat, c \in 0 .. G \div BlockN - 1, i \in 0 .. BlockN - 1 :
           p = k * G + c * BlockN + i /\ k = p \div G
<1>1. PICK k \in Nat : k = p \div G
  BY GroupsAreWhole, DivIs
<1>2. PICK m \in 0 .. G - 1 : m = p % G
  BY GroupsAreWhole, SMT
<1>3. p = k * G + m /\ k * G \in Nat
  <2>1. p = G * (p \div G) + (p % G)
    BY GroupsAreWhole, SMT
  <2>2. k * G = G * k /\ k * G \in Nat
    BY GroupsAreWhole, SMT
  <2> QED BY <1>1, <1>2, <2>1, <2>2
<1>4. PICK c \in Nat : c = m \div BlockN
  BY GroupsAreWhole, DivIs
<1>5. PICK i \in 0 .. BlockN - 1 : i = m % BlockN
  BY GroupsAreWhole, SMT
<1>6. m = c * BlockN + i /\ c * BlockN \in Nat
  <2>1. m = BlockN * (m \div BlockN) + (m % BlockN)
    BY GroupsAreWhole, SMT
  <2>2. c * BlockN = BlockN * c /\ c * BlockN \in Nat
    BY GroupsAreWhole, SMT
  <2> QED BY <1>4, <1>5, <2>1, <2>2
<1>7. c < G \div BlockN
  <2>1. BlockN * (G \div BlockN) = (G \div BlockN) * BlockN
    BY GroupsAreWhole, SMT
  <2>2. m < BlockN * (G \div BlockN) /\ m \in Nat
    BY <2>1, GroupsAreWhole
  <2> QED BY <1>4, <2>2, GroupsAreWhole, DivBounds
<1>8. c \in 0 .. G \div BlockN - 1
  BY <1>7, GroupsAreWhole
<1> QED BY <1>1, <1>3, <1>6, <1>8

\* The read of position p of request r by program `split`.
ReadAt(r, p, split) ==
  [req |-> r, pos |-> p, copy |-> Copy(r, p \div G), split |-> split,
   chunk |-> (p % G) \div BlockN]

\* A scan reads the positions of its blocks below the length and from the
\* window on, each from the copy that holds its block.
LEMMA ScanIs ==
  ASSUME NEW r, NEW lo \in Nat, NEW hi \in Nat, NEW len \in Nat, NEW from \in Nat, NEW split
  PROVE  Scan(r, lo, hi, len, from, split) =
           {ReadAt(r, p, split) : p \in {p \in from .. len - 1 : lo <= p \div G /\ p \div G < hi}}
<1> DEFINE At(x) == [req |-> r, pos |-> x[1] * G + x[2] * BlockN + x[3],
                     copy |-> Copy(r, x[1]), split |-> split, chunk |-> x[2]]
           In(x) == LET col == x[2] * BlockN + x[3]
                    IN /\ col < TokensIn(len, x[1])
                       /\ from <= x[1] * G + col
           Cells == (lo .. hi - 1) \X (0 .. G \div BlockN - 1) \X (0 .. BlockN - 1)
           Due1 == {p \in from .. len - 1 : lo <= p \div G /\ p \div G < hi}
<1>1. Scan(r, lo, hi, len, from, split) = {At(x) : x \in {x \in Cells : In(x)}}
  BY DEF Scan
<1>2. ASSUME NEW k \in Nat, NEW c \in 0 .. G \div BlockN - 1, NEW i \in 0 .. BlockN - 1
      PROVE  /\ At(<<k, c, i>>) = ReadAt(r, k * G + c * BlockN + i, split)
             /\ In(<<k, c, i>>) <=> k * G + c * BlockN + i \in from .. len - 1
             /\ (k * G + c * BlockN + i) \div G = k
  <2>1. PICK kG \in Nat : kG = k * G
    BY CellOf
  <2>2. PICK col \in 0 .. G - 1 : col = c * BlockN + i
    BY CellOf
  <2>3. k * G + c * BlockN + i = kG + col /\ kG + col \in Nat
    BY <2>1, <2>2, CellOf
  <2>4. (kG + col) \div G = k /\ ((kG + col) % G) \div BlockN = c
    BY <2>3, CellOf
  <2>5. At(<<k, c, i>>) = ReadAt(r, kG + col, split)
    BY <2>3, <2>4 DEF ReadAt
  <2>6. col < TokensIn(len, k) <=> kG + col < len
    BY <2>1, <2>2, GroupsAreWhole DEF TokensIn, Min2, Max2
  <2>7. In(<<k, c, i>>) <=> col < TokensIn(len, k) /\ from <= kG + col
    BY <2>1, <2>2
  <2>8. In(<<k, c, i>>) <=> kG + col \in from .. len - 1
    BY <2>3, <2>6, <2>7
  <2> HIDE DEF At, In
  <2> QED BY <2>3, <2>4, <2>5, <2>8
<1>3. ASSUME NEW x \in Cells, In(x)
      PROVE  \E p \in Due1 : At(x) = ReadAt(r, p, split)
  <2>1. PICK k \in lo .. hi - 1, c \in 0 .. G \div BlockN - 1, i \in 0 .. BlockN - 1 :
          x = <<k, c, i>>
    BY <1>3
  <2>2. k \in Nat /\ lo <= k /\ k < hi
    BY <2>1
  <2> HIDE DEF At, In
  <2>3. k * G + c * BlockN + i \in Due1
    BY <1>2, <1>3, <2>1, <2>2
  <2> QED BY <1>2, <2>1, <2>2, <2>3
<1>4. ASSUME NEW p \in Due1
      PROVE  \E x \in Cells : In(x) /\ At(x) = ReadAt(r, p, split)
  <2>1. p \in Nat /\ p \in from .. len - 1 /\ lo <= p \div G /\ p \div G < hi
    BY <1>4
  <2>2. PICK k \in Nat, c \in 0 .. G \div BlockN - 1, i \in 0 .. BlockN - 1 :
          p = k * G + c * BlockN + i /\ k = p \div G
    BY <2>1, CellFor
  <2>3. <<k, c, i>> \in Cells
    BY <2>1, <2>2
  <2> HIDE DEF At, In, Cells
  <2>4. In(<<k, c, i>>) /\ At(<<k, c, i>>) = ReadAt(r, p, split)
    BY <1>2, <2>1, <2>2
  <2> QED BY <2>3, <2>4
<1> HIDE DEF At, In, Cells, Due1
<1>5. {At(x) : x \in {x \in Cells : In(x)}} = {ReadAt(r, p, split) : p \in Due1}
  BY <1>3, <1>4
<1> QED BY <1>1, <1>5 DEF Due1

LEMMA CeilIs ==
  ASSUME NEW a \in Nat, NEW b \in Nat \ {0}
  PROVE  /\ CeilDiv(a, b) \in Nat /\ a <= b * CeilDiv(a, b) /\ b * CeilDiv(a, b) \in Nat
         /\ \A c \in Nat : a <= b * c => CeilDiv(a, b) <= c
         /\ a > 0 => CeilDiv(a, b) > 0
<1>1. a + b - 1 \in Nat
  OBVIOUS
<1>2. PICK c \in Nat : c = (a + b - 1) \div b
  BY <1>1, DivIs
<1>3. b * c <= a + b - 1 /\ a + b - 1 < b * c + b
  BY <1>1, <1>2, DivIs
<1>4. b * c \in Nat
  BY <1>2, SMT
<1>5. a <= b * c
  BY <1>3, <1>4
<1>6. ASSUME NEW d \in Nat, a <= b * d PROVE c <= d
  <2>1. b * (d + 1) = b * d + b /\ b * d \in Nat
    BY SMT
  <2>2. a + b - 1 < b * (d + 1)
    BY <1>6, <2>1
  <2>3. c < d + 1
    BY <1>1, <1>2, <2>2, DivBounds
  <2> QED BY <1>2, <2>3
<1>7. a > 0 => c > 0
  <2>1. c = 0 => b * c = 0
    BY SMT
  <2> QED BY <1>2, <1>5, <2>1
<1>8. CeilDiv(a, b) = c
  BY <1>2 DEF CeilDiv
<1> QED BY <1>2, <1>4, <1>5, <1>6, <1>7, <1>8

\* The block of a position below the length is among the length's blocks.
LEMMA BlockOfPosition ==
  ASSUME NEW len \in Nat, NEW p \in Nat, p < len
  PROVE  p \div G \in Nat /\ p \div G < CeilDiv(len, G)
<1>1. PICK c \in Nat : c = CeilDiv(len, G) /\ len <= G * c /\ G * c \in Nat
  BY CeilIs, GroupsAreWhole
<1>2. p < G * c
  BY <1>1
<1> QED BY <1>1, <1>2, DivIs, DivBounds, GroupsAreWhole

\* What a row's reads have to be: each position once, of one request, from the
\* copy that holds it.
Exact(S, r, from, to) ==
  /\ \A x \in S : /\ x.req = r /\ x.copy = Copy(r, x.pos \div G)
                  /\ x.pos \in from .. to - 1
  /\ \A p \in from .. to - 1 : \E x \in S : x.pos = p
  /\ \A x, y \in S : x.pos = y.pos => x = y

LEMMA ReadsAreExact ==
  ASSUME NEW r, NEW from, NEW to, NEW by
  PROVE  Exact({ReadAt(r, p, by[p]) : p \in from .. to - 1}, r, from, to)
<1> DEFINE S == {ReadAt(r, p, by[p]) : p \in from .. to - 1}
<1>1. ASSUME NEW p PROVE /\ ReadAt(r, p, by[p]).req = r /\ ReadAt(r, p, by[p]).pos = p
                         /\ ReadAt(r, p, by[p]).copy = Copy(r, p \div G)
  BY DEF ReadAt
<1>2. ASSUME NEW x \in S PROVE \E p \in from .. to - 1 : x = ReadAt(r, p, by[p]) /\ x.pos = p
  BY <1>1
<1>3. \A p \in from .. to - 1 : ReadAt(r, p, by[p]) \in S
  OBVIOUS
<1> HIDE DEF S
<1>4. \A x \in S : x.req = r /\ x.copy = Copy(r, x.pos \div G) /\ x.pos \in from .. to - 1
  BY <1>1, <1>2
<1>5. \A p \in from .. to - 1 : \E x \in S : x.pos = p
  BY <1>1, <1>3
<1>6. ASSUME NEW x \in S, NEW y \in S, x.pos = y.pos PROVE x = y
  BY <1>2, <1>6
<1>7. Exact(S, r, from, to)
  BY <1>4, <1>5, <1>6 DEF Exact
<1> QED BY <1>7 DEF S

LEMMA WindowIsNat ==
  ASSUME cfg \in Config, NEW len \in Nat
  PROVE  WindowStart(len) \in Nat /\ WindowStart(len) <= len
<1>1. cfg.window \in Nat
  BY DEF Config
<1> QED BY <1>1 DEF WindowStart, Max2

\* The walk over the whole context.
LEMMA FusedIsExact ==
  ASSUME cfg \in Config, NEW r, NEW len \in Nat
  PROVE  Exact(FusedRow(r, len), r, WindowStart(len), len)
<1> DEFINE w == WindowStart(len)
           n == CeilDiv(len, G)
<1>1. w \in Nat /\ w <= len
  BY WindowIsNat
<1>2. n \in Nat /\ w \div G \in Nat
  BY <1>1, CeilIs, DivIs, GroupsAreWhole
<1>3. \A p \in w .. len - 1 : w \div G <= p \div G /\ p \div G < n
  BY <1>1, BlockOfPosition, DivMonotone, GroupsAreWhole
<1>4. FusedRow(r, len) = Scan(r, w \div G, n, len, w, 0)
  BY DEF FusedRow
<1> HIDE DEF w, n
<1>5. Scan(r, w \div G, n, len, w, 0) =
        {ReadAt(r, p, 0) : p \in {p \in w .. len - 1 : w \div G <= p \div G /\ p \div G < n}}
  BY <1>1, <1>2, ScanIs
<1>6. {p \in w .. len - 1 : w \div G <= p \div G /\ p \div G < n} = w .. len - 1
  BY <1>3
<1>7. Scan(r, w \div G, n, len, w, 0) = {ReadAt(r, p, 0) : p \in w .. len - 1}
  BY <1>5, <1>6
<1> DEFINE by == [p \in w .. len - 1 |-> 0]
<1>8. {ReadAt(r, p, 0) : p \in w .. len - 1} = {ReadAt(r, p, by[p]) : p \in w .. len - 1}
  OBVIOUS
<1>9. Exact({ReadAt(r, p, by[p]) : p \in w .. len - 1}, r, w, len)
  <2> HIDE DEF by
  <2> QED BY ReadsAreExact
<1> QED BY <1>4, <1>7, <1>8, <1>9 DEF w

\* The splits share the blocks out: a position is read by the split its block
\* falls to, and by no other.
LEMMA SplitsRead ==
  ASSUME NEW r, NEW len \in Nat, NEW from \in Nat, NEW splits \in Nat \ {0}
  PROVE  \E by : UNION {SplitOf(r, len, from, splits, s) : s \in 0 .. splits - 1} =
                   {ReadAt(r, p, by[p]) : p \in from .. len - 1}
<1> DEFINE n == CeilDiv(len, G)
           per == PerSplit(n, splits)
           by == [p \in from .. len - 1 |-> (p \div G) \div per]
           Lo(s) == s * per
           Hi(s) == Min2(Lo(s) + per, n)
<1>1. n \in Nat /\ (len > 0 => n > 0)
  BY CeilIs, GroupsAreWhole
<1>2. per \in Nat /\ n <= splits * per /\ splits * per \in Nat /\ (n > 0 => per > 0)
  BY <1>1, CeilIs DEF PerSplit
<1>3. ASSUME NEW s \in 0 .. splits - 1
      PROVE  Lo(s) \in Nat /\ Hi(s) \in Nat
             /\ SplitOf(r, len, from, splits, s) = Scan(r, Lo(s), Hi(s), len, from, s)
  <2>1. s \in Nat
    OBVIOUS
  <2>2. Lo(s) \in Nat
    <3> HIDE DEF per
    <3> QED BY <1>2, <2>1, SMT
  <2>3. Hi(s) \in Nat
    BY <1>1, <1>2, <2>2 DEF Min2
  <2> QED BY <2>2, <2>3 DEF SplitOf
<1> HIDE DEF n, per
<1>4. ASSUME NEW s \in 0 .. splits - 1, NEW p \in from .. len - 1
      PROVE  Lo(s) <= p \div G /\ p \div G < Hi(s) <=> s = by[p]
  <2>1. p \in Nat /\ p < len /\ len > 0 /\ s \in Nat
    OBVIOUS
  <2>2. PICK k \in Nat : k = p \div G /\ k < n
    BY <2>1, BlockOfPosition DEF n
  <2>3. per \in Nat \ {0}
    BY <1>1, <1>2, <2>1
  <2>4. by[p] = k \div per
    BY <2>2
  <2>5. Lo(s) = per * s /\ Lo(s) + per = per * (s + 1)
    BY <2>1, <2>3, SMT
  <2>6. k \div per \in Nat /\ per * (k \div per) <= k /\ k < per * (k \div per) + per
    BY <2>3, DivIs
  <2>7. Lo(s) <= k /\ k < Lo(s) + per => s = k \div per
    <3> SUFFICES ASSUME per * s <= k, k < per * (s + 1) PROVE s = k \div per
      BY <2>5
    <3>1. s <= k \div per /\ k \div per < s + 1
      BY <2>1, <2>3, DivBounds
    <3> QED BY <2>1, <2>6, <3>1
  <2>8. s = k \div per => Lo(s) <= k /\ k < Lo(s) + per
    <3>1. PICK d \in Nat : d = k \div per
      BY <2>6
    <3>2. per * d <= k /\ k < per * d + per
      BY <2>6, <3>1
    <3> QED BY <2>5, <3>1, <3>2
  <2>9. k < Hi(s) <=> k < Lo(s) + per
    BY <1>1, <1>2, <1>3, <2>2 DEF Min2
  <2> HIDE DEF Lo, Hi, by
  <2> QED BY <2>2, <2>4, <2>7, <2>8, <2>9
<1>5. ASSUME NEW p \in from .. len - 1 PROVE by[p] \in 0 .. splits - 1
  <2>1. p \in Nat /\ p < len /\ len > 0
    OBVIOUS
  <2>2. PICK k \in Nat : k = p \div G /\ k < n
    BY <2>1, BlockOfPosition DEF n
  <2>3. per \in Nat \ {0}
    BY <1>1, <1>2, <2>1
  <2>4. by[p] = k \div per
    BY <2>2
  <2>5. k < per * splits
    <3>1. per * splits = splits * per
      BY <2>3, SMT
    <3> QED BY <1>1, <1>2, <2>2, <3>1
  <2>6. k \div per \in Nat /\ k \div per < splits
    BY <2>3, <2>5, DivIs, DivBounds
  <2> QED BY <2>4, <2>6
<1>6. ASSUME NEW s \in 0 .. splits - 1
      PROVE  SplitOf(r, len, from, splits, s) =
               {ReadAt(r, p, s) : p \in {p \in from .. len - 1 : s = by[p]}}
  <2> HIDE DEF Lo, Hi, by
  <2>1. SplitOf(r, len, from, splits, s) =
          {ReadAt(r, p, s) : p \in {p \in from .. len - 1 :
                                      Lo(s) <= p \div G /\ p \div G < Hi(s)}}
    BY <1>3, ScanIs
  <2>2. {p \in from .. len - 1 : Lo(s) <= p \div G /\ p \div G < Hi(s)} =
          {p \in from .. len - 1 : s = by[p]}
    BY <1>4
  <2> QED BY <2>1, <2>2
<1> HIDE DEF by
<1>7. UNION {SplitOf(r, len, from, splits, s) : s \in 0 .. splits - 1} =
        {ReadAt(r, p, by[p]) : p \in from .. len - 1}
  <2>1. ASSUME NEW s \in 0 .. splits - 1, NEW x \in SplitOf(r, len, from, splits, s)
        PROVE  x \in {ReadAt(r, p, by[p]) : p \in from .. len - 1}
    BY <1>6, <2>1
  <2>2. ASSUME NEW p \in from .. len - 1
        PROVE  \E s \in 0 .. splits - 1 : ReadAt(r, p, by[p]) \in SplitOf(r, len, from, splits, s)
    BY <1>5, <1>6
  <2> QED BY <2>1, <2>2
<1> QED BY <1>7

LEMMA SplitsArePositive ==
  ASSUME cfg \in Config
  PROVE  NumSplits \in Nat \ {0}
<1>1. cfg.kv_splits \in Nat
  BY DEF Config
<1> QED BY <1>1 DEF NumSplits

\* The split walk, and the one the rows of a request share.
LEMMA SplitIsExact ==
  ASSUME cfg \in Config, NEW r, NEW len \in Nat
  PROVE  Exact(SplitRow(r, len), r, WindowStart(len), len)
<1>1. PICK by : UNION {SplitOf(r, len, WindowStart(len), NumSplits, s) : s \in 0 .. NumSplits - 1}
                  = {ReadAt(r, p, by[p]) : p \in WindowStart(len) .. len - 1}
  BY SplitsArePositive, WindowIsNat, SplitsRead
<1>2. SplitRow(r, len) = {ReadAt(r, p, by[p]) : p \in WindowStart(len) .. len - 1}
  BY <1>1 DEF SplitRow
<1> QED BY <1>2, ReadsAreExact

LEMMA SharedIsExact ==
  ASSUME cfg \in Config, NEW r, NEW len \in Nat, NEW qlen \in Nat, qlen <= len,
         NEW j \in 1 .. qlen, NEW splits \in Nat \ {0}
  PROVE  Exact(SharedRow(r, len, qlen, j, splits), r, WindowStart(len - qlen + j), len - qlen + j)
<1>1. PICK limit \in Nat : limit = len - qlen + j /\ limit <= len
  OBVIOUS
<1>2. PICK w \in Nat : w = WindowStart(limit)
  BY <1>1, WindowIsNat
<1>3. PICK by : UNION {SplitOf(r, len, w, splits, s) : s \in 0 .. splits - 1}
                  = {ReadAt(r, p, by[p]) : p \in w .. len - 1}
  BY <1>2, SplitsRead
<1> DEFINE All1 == {ReadAt(r, p, by[p]) : p \in w .. len - 1}
<1>4. SharedRow(r, len, qlen, j, splits) = {x \in All1 : x.pos < limit}
  <2>1. ~ len <= 0
    OBVIOUS
  <2> QED BY <1>1, <1>2, <1>3, <2>1 DEF SharedRow, SharedLimit
<1>5. \A p : ReadAt(r, p, by[p]).pos = p
  BY DEF ReadAt
<1>6. {x \in All1 : x.pos < limit} = {ReadAt(r, p, by[p]) : p \in w .. limit - 1}
  <2>1. ASSUME NEW x \in All1, x.pos < limit
        PROVE  x \in {ReadAt(r, p, by[p]) : p \in w .. limit - 1}
    <3>1. PICK p \in w .. len - 1 : x = ReadAt(r, p, by[p])
      OBVIOUS
    <3>2. p \in w .. limit - 1
      BY <1>1, <1>2, <1>5, <2>1, <3>1
    <3> QED BY <3>1, <3>2
  <2>2. ASSUME NEW p \in w .. limit - 1
        PROVE  ReadAt(r, p, by[p]) \in All1 /\ ReadAt(r, p, by[p]).pos < limit
    <3>1. p \in w .. len - 1 /\ p < limit
      BY <1>1, <1>2
    <3> QED BY <1>5, <3>1
  <2> HIDE DEF All1
  <2> QED BY <2>1, <2>2
<1> HIDE DEF All1
<1>7. Exact({ReadAt(r, p, by[p]) : p \in w .. limit - 1}, r, w, limit)
  BY ReadsAreExact
<1> QED BY <1>1, <1>2, <1>4, <1>6, <1>7

\* A slice of n requests whose contexts fit their block tables.
IsSlice(reqs, n) ==
  /\ DOMAIN reqs = 1 .. n
  /\ \A b \in 1 .. n : /\ reqs[b].seq \in Nat /\ reqs[b].qlen \in Nat
                       /\ reqs[b].qlen <= reqs[b].seq
                       /\ reqs[b].seq <= cfg.max_blocks * G

LEMMA CuSeqLensIs ==
  ASSUME NEW reqs, NEW n \in Nat, IsSlice(reqs, n), NEW b \in 1 .. n
  PROVE  CuSeqLens(reqs, b) = Sum([i \in 1 .. n |-> reqs[i].seq], b - 1)
<1> DEFINE seqs == [i \in 1 .. n |-> reqs[i].seq]
           front == [i \in 1 .. b - 1 |-> reqs[i].seq]
<1>1. b - 1 \in Nat /\ \A i \in 1 .. b - 1 : i \in 1 .. n
  OBVIOUS
<1>2. \A i \in 1 .. b - 1 : seqs[i] \in Nat /\ front[i] = seqs[i]
  BY <1>1 DEF IsSlice
<1>3. Len(front) = b - 1
  <2>1. \A i \in 1 .. b - 1 : reqs[i].seq \in Nat
    BY <1>1 DEF IsSlice
  <2>2. front \in [1 .. b - 1 -> Nat]
    BY <2>1
  <2>3. front \in Seq(Nat) /\ DOMAIN front = 1 .. b - 1
    BY <1>1, <2>2
  <2> HIDE DEF front
  <2>4. DOMAIN front = 1 .. Len(front) /\ Len(front) \in Nat
    BY <2>3, LenProperties
  <2> QED BY <1>1, <2>3, <2>4
<1>4. CuSeqLens(reqs, b) = Sum(front, b - 1)
  BY <1>3 DEF CuSeqLens, Total
<1> HIDE DEF front, seqs
<1>5. Sum(front, b - 1) = Sum(seqs, b - 1)
  BY <1>1, <1>2, SumSame
<1> QED BY <1>4, <1>5 DEF seqs

\* What the packed copy holds of a request's context.
LEMMA PackedScanIs ==
  ASSUME cfg \in Config, NEW r, NEW len \in Nat, len <= cfg.max_blocks * G
  PROVE  Scan(r, 0, cfg.max_blocks, len, 0, 0) = {ReadAt(r, p, 0) : p \in 0 .. len - 1}
<1>1. cfg.max_blocks \in Nat
  BY DEF Config
<1>2. ASSUME NEW p \in 0 .. len - 1 PROVE 0 <= p \div G /\ p \div G < cfg.max_blocks
  <2>1. PICK m \in Nat : m = cfg.max_blocks
    BY <1>1
  <2>2. m * G = G * m /\ G * m \in Nat
    BY <2>1, GroupsAreWhole, SMT
  <2>3. p < G * m /\ p \in Nat
    BY <2>1, <2>2
  <2>4. p \div G \in Nat /\ p \div G < m
    BY <2>3, DivIs, DivBounds, GroupsAreWhole
  <2> QED BY <2>1, <2>4
<1>3. {p \in 0 .. len - 1 : 0 <= p \div G /\ p \div G < cfg.max_blocks} = 0 .. len - 1
  BY <1>2
<1> QED BY <1>1, <1>3, ScanIs

\* A slice's contexts fit the scratch, so far as it is packed.
FitsScratch(reqs) == ~ PackedRows(reqs) > cfg.fa_rows

\* Each request's packed rows lie below the sum of all contexts.
LEMMA PackedRowsAre ==
  ASSUME NEW reqs, NEW n \in Nat, IsSlice(reqs, n)
  PROVE  /\ PackedRows(reqs) \in Nat
         /\ \A b \in 1 .. n : /\ CuSeqLens(reqs, b) \in Nat
                              /\ CuSeqLens(reqs, b) + reqs[b].seq <= PackedRows(reqs)
<1>1. PICK seqs : seqs = [i \in 1 .. n |-> reqs[i].seq]
  OBVIOUS
<1>2. \A i \in 1 .. n : seqs[i] \in Nat /\ seqs[i] = reqs[i].seq
  BY <1>1 DEF IsSlice
<1>3. Len(seqs) = n
  <2>1. seqs \in [1 .. n -> Nat]
    BY <1>1, <1>2
  <2>2. seqs \in Seq(Nat) /\ DOMAIN seqs = 1 .. n
    BY <2>1
  <2>3. DOMAIN seqs = 1 .. Len(seqs) /\ Len(seqs) \in Nat
    BY <2>2, LenProperties
  <2> QED BY <2>2, <2>3
<1>4. PackedRows(reqs) = Sum(seqs, n)
  <2>1. PackedRows(reqs) = Total(seqs)
    BY <1>1 DEF PackedRows, IsSlice
  <2> QED BY <1>3, <2>1 DEF Total
<1>5. \A i \in 0 .. n : Sum(seqs, i) \in Nat
  BY <1>2, SumIs
<1>6. ASSUME NEW b \in 1 .. n
      PROVE  /\ CuSeqLens(reqs, b) \in Nat
             /\ CuSeqLens(reqs, b) + reqs[b].seq <= PackedRows(reqs)
  <2>1. b - 1 \in 0 .. n /\ b \in 0 .. n /\ n \in 0 .. n /\ b <= n
    OBVIOUS
  <2>2. CuSeqLens(reqs, b) = Sum(seqs, b - 1)
    BY <1>1, CuSeqLensIs
  <2>3. Sum(seqs, b) = Sum(seqs, b - 1) + seqs[b]
    BY <1>2, SumIs
  <2>4. Sum(seqs, b) <= Sum(seqs, n)
    BY <1>2, <2>1, SumMonotone
  <2> QED BY <1>2, <1>4, <1>5, <2>1, <2>2, <2>3, <2>4
<1> QED BY <1>4, <1>5, <1>6

\* A scratch that holds the slice holds all that is packed of it.
LEMMA PackedIs ==
  ASSUME cfg \in Config, NEW reqs, NEW n \in Nat, IsSlice(reqs, n), FitsScratch(reqs), NEW y
  PROVE  y \in Packed(reqs) <=>
           \E c \in 1 .. n : \E x \in Scan(reqs[c].id, 0, cfg.max_blocks, reqs[c].seq, 0, 0) :
             y = [row |-> CuSeqLens(reqs, c) + x.pos, read |-> x]
<1> DEFINE S(c) == Scan(reqs[c].id, 0, cfg.max_blocks, reqs[c].seq, 0, 0)
<1>1. y \in Packed(reqs) <=>
        /\ \E c \in 1 .. n : \E x \in S(c) : y = [row |-> CuSeqLens(reqs, c) + x.pos, read |-> x]
        /\ y.row < cfg.fa_rows
  BY DEF Packed, IsSlice
<1>2. ASSUME NEW c \in 1 .. n, NEW x \in S(c) PROVE CuSeqLens(reqs, c) + x.pos < cfg.fa_rows
  <2>1. reqs[c].seq \in Nat /\ reqs[c].seq <= cfg.max_blocks * G
    BY DEF IsSlice
  <2>2. S(c) = {ReadAt(reqs[c].id, p, 0) : p \in 0 .. reqs[c].seq - 1}
    BY <2>1, PackedScanIs
  <2>3. PICK p \in 0 .. reqs[c].seq - 1 : x = ReadAt(reqs[c].id, p, 0)
    BY <1>2, <2>2
  <2>4. x.pos = p
    BY <2>3 DEF ReadAt
  <2>5. cfg.fa_rows \in Nat
    BY DEF Config
  <2>6. PICK rows \in Nat : rows = PackedRows(reqs)
    BY PackedRowsAre
  <2>7. PICK first \in Nat : first = CuSeqLens(reqs, c) /\ first + reqs[c].seq <= rows
    BY <2>6, PackedRowsAre
  <2> QED BY <2>1, <2>4, <2>5, <2>6, <2>7 DEF FitsScratch
<1> HIDE DEF S
<1>3. ASSUME NEW c \in 1 .. n, NEW x \in S(c), y = [row |-> CuSeqLens(reqs, c) + x.pos, read |-> x]
      PROVE  y.row < cfg.fa_rows
  BY <1>2, <1>3
<1>4. y \in Packed(reqs) <=>
        \E c \in 1 .. n : \E x \in S(c) : y = [row |-> CuSeqLens(reqs, c) + x.pos, read |-> x]
  BY <1>1, <1>3
<1> QED BY <1>4 DEF S

\* FlashAttention over the packed copy stays within the request's own rows, and
\* within the scratch if the copy does.
LEMMA FlashIsExact ==
  ASSUME cfg \in Config, NEW reqs, NEW n \in Nat, IsSlice(reqs, n), FitsScratch(reqs),
         NEW b \in 1 .. n,
         NEW diagonal \in BOOLEAN, NEW j, diagonal => j \in 1 .. reqs[b].qlen,
         NEW last, last = IF diagonal THEN reqs[b].seq - reqs[b].qlen + j ELSE reqs[b].seq
  PROVE  Exact(FlashRow(reqs, Packed(reqs), diagonal, b, j), reqs[b].id, 0, last)
<1> DEFINE seqs == [i \in 1 .. n |-> reqs[i].seq]
           Row(c, p) == [row |-> CuSeqLens(reqs, c) + p, read |-> ReadAt(reqs[c].id, p, 0)]
<1>1. \A i \in 1 .. n : seqs[i] \in Nat /\ reqs[i].seq = seqs[i]
  BY DEF IsSlice
<1>2. \A c \in 1 .. n : CuSeqLens(reqs, c) = Sum(seqs, c - 1) /\ Sum(seqs, c - 1) \in Nat
  <2>1. \A c \in 1 .. n : CuSeqLens(reqs, c) = Sum(seqs, c - 1)
    BY CuSeqLensIs
  <2>2. \A c \in 1 .. n : c - 1 \in 0 .. n
    OBVIOUS
  <2> HIDE DEF seqs
  <2> QED BY <1>1, <2>1, <2>2, SumIs
<1> HIDE DEF seqs
<1>3. last \in Nat /\ last <= seqs[b]
  BY <1>1 DEF IsSlice
<1>4. ASSUME NEW c \in 1 .. n
      PROVE  Scan(reqs[c].id, 0, cfg.max_blocks, reqs[c].seq, 0, 0) =
               {ReadAt(reqs[c].id, p, 0) : p \in 0 .. seqs[c] - 1}
  <2>1. reqs[c].seq \in Nat /\ reqs[c].seq <= cfg.max_blocks * G /\ reqs[c].seq = seqs[c]
    BY <1>1 DEF IsSlice
  <2> QED BY <2>1, PackedScanIs
<1>5. \A r, p : ReadAt(r, p, 0).pos = p
  BY DEF ReadAt
<1>6. ASSUME NEW y
      PROVE  y \in Packed(reqs) <=> \E c \in 1 .. n : \E p \in 0 .. seqs[c] - 1 : y = Row(c, p)
  <2>1. y \in Packed(reqs) <=>
          \E c \in 1 .. n : \E x \in Scan(reqs[c].id, 0, cfg.max_blocks, reqs[c].seq, 0, 0) :
            y = [row |-> CuSeqLens(reqs, c) + x.pos, read |-> x]
    BY PackedIs
  <2>2. ASSUME NEW c \in 1 .. n
        PROVE  (\E x \in Scan(reqs[c].id, 0, cfg.max_blocks, reqs[c].seq, 0, 0) :
                  y = [row |-> CuSeqLens(reqs, c) + x.pos, read |-> x]) <=>
               \E p \in 0 .. seqs[c] - 1 : y = Row(c, p)
    <3> DEFINE S == Scan(reqs[c].id, 0, cfg.max_blocks, reqs[c].seq, 0, 0)
    <3>1. \A x \in S : \E p \in 0 .. seqs[c] - 1 : x = ReadAt(reqs[c].id, p, 0) /\ x.pos = p
      BY <1>4, <1>5
    <3>2. \A p \in 0 .. seqs[c] - 1 : ReadAt(reqs[c].id, p, 0) \in S
      BY <1>4
    <3> HIDE DEF S
    <3>3. ASSUME NEW x \in S, y = [row |-> CuSeqLens(reqs, c) + x.pos, read |-> x]
          PROVE  \E p \in 0 .. seqs[c] - 1 : y = Row(c, p)
      BY <3>1, <3>3
    <3>4. ASSUME NEW p \in 0 .. seqs[c] - 1, y = Row(c, p)
          PROVE  \E x \in S : y = [row |-> CuSeqLens(reqs, c) + x.pos, read |-> x]
      BY <1>5, <3>2, <3>4
    <3> HIDE DEF Row
    <3> QED BY <3>3, <3>4, Zenon DEF S
  <2> HIDE DEF Row
  <2> QED BY <2>1, <2>2, Zenon
<1> DEFINE In(y) == /\ y \in Packed(reqs)
                    /\ CuSeqLens(reqs, b) <= y.row
                    /\ y.row < CuSeqLens(reqs, b) + last
<1>7. ASSUME NEW x
      PROVE  x \in FlashRow(reqs, Packed(reqs), diagonal, b, j) <=> \E y : In(y) /\ y.read = x
  <2>1. CuSeqLens(reqs, b) + last =
          IF diagonal THEN CuSeqLens(reqs, b) + reqs[b].seq - reqs[b].qlen + j
                      ELSE CuSeqLens(reqs, b) + reqs[b].seq
    BY <1>2 DEF IsSlice
  <2>2. PICK first \in Nat : first = CuSeqLens(reqs, b) /\ first + reqs[b].seq <= PackedRows(reqs)
    BY PackedRowsAre
  <2>3. PICK stop : stop = first + last
    OBVIOUS
  <2>4. x \in FlashRow(reqs, Packed(reqs), diagonal, b, j) <=>
          \/ \E y \in Packed(reqs) : first <= y.row /\ y.row < stop /\ y.read = x
          \/ \E row \in Max2(first, cfg.fa_rows) .. stop - 1 : x = Stray(row)
    <3>1. CASE diagonal
      <4>1. stop = first + reqs[b].seq - reqs[b].qlen + j
        BY <2>1, <2>2, <2>3, <3>1
      <4> QED BY <2>2, <3>1, <4>1 DEF FlashRow
    <3>2. CASE ~ diagonal
      <4>1. stop = first + reqs[b].seq
        BY <2>1, <2>2, <2>3, <3>2
      <4> QED BY <2>2, <3>2, <4>1 DEF FlashRow
    <3> QED BY <3>1, <3>2
  <2>5. ASSUME NEW row \in Max2(first, cfg.fa_rows) .. stop - 1 PROVE FALSE
    <3>1. cfg.fa_rows \in Nat
      BY DEF Config
    <3>2. PICK rows \in Nat : rows = PackedRows(reqs)
      BY PackedRowsAre
    <3>3. rows <= cfg.fa_rows
      BY <3>1, <3>2 DEF FitsScratch
    <3>4. Max2(first, cfg.fa_rows) \in Nat /\ cfg.fa_rows <= Max2(first, cfg.fa_rows)
      BY <3>1 DEF Max2
    <3>5. last \in Nat /\ last <= reqs[b].seq /\ reqs[b].seq \in Nat
      BY <1>1, <1>3
    <3>6. stop <= cfg.fa_rows /\ stop \in Nat
      BY <2>2, <2>3, <3>1, <3>2, <3>3, <3>5
    <3> QED BY <2>5, <3>1, <3>4, <3>6
  <2>6. (\E y \in Packed(reqs) : first <= y.row /\ y.row < stop /\ y.read = x) <=>
          \E y : In(y) /\ y.read = x
    BY <2>2, <2>3, Zenon
  <2> HIDE DEF In
  <2> QED BY <2>4, <2>5, <2>6, Zenon
<1>8. ASSUME NEW c \in 1 .. n, NEW p \in 0 .. seqs[c] - 1, In(Row(c, p))
      PROVE  c = b /\ p \in 0 .. last - 1
  <2>1. /\ Sum(seqs, b - 1) <= Sum(seqs, c - 1) + p
        /\ Sum(seqs, c - 1) + p < Sum(seqs, b - 1) + last
    BY <1>2, <1>8
  <2>2. PICK k \in 1 .. seqs[b] : Sum(seqs, b - 1) + k = Sum(seqs, c - 1) + (p + 1)
    <3>1. PICK x \in Nat, y \in Nat, z \in Nat :
            x = Sum(seqs, b - 1) /\ y = Sum(seqs, c - 1) /\ z = seqs[b]
      BY <1>1, <1>2
    <3>2. p \in Nat
      BY <1>1
    <3>3. x <= y + p /\ y + p < x + last /\ last <= z
      BY <1>3, <2>1, <3>1
    <3>4. y + (p + 1) - x \in 1 .. z /\ x + (y + (p + 1) - x) = y + (p + 1)
      BY <1>3, <3>1, <3>2, <3>3
    <3> QED BY <3>1, <3>4
  <2>3. p + 1 \in 1 .. seqs[c]
    BY <1>1
  <2>4. c = b
    <3>1. PICK e : e = p + 1
      OBVIOUS
    <3>2. e \in 1 .. seqs[c] /\ Sum(seqs, b - 1) + k = Sum(seqs, c - 1) + e
      BY <2>2, <2>3, <3>1
    <3>3. \A i \in 1 .. n : seqs[i] \in Nat
      BY <1>1
    <3> QED BY <3>2, <3>3, SumPlaceIsOne
  <2>5. PICK x \in Nat : x = Sum(seqs, b - 1)
    BY <1>2
  <2>6. x + p < x + last /\ p \in Nat /\ last \in Nat
    BY <1>1, <1>3, <2>1, <2>4, <2>5
  <2> HIDE DEF In
  <2> QED BY <2>4, <2>6
<1>9. ASSUME NEW p \in 0 .. last - 1 PROVE In(Row(b, p))
  <2>1. p \in 0 .. seqs[b] - 1
    BY <1>1, <1>3
  <2>2. Row(b, p) \in Packed(reqs)
    BY <1>6, <2>1
  <2>3. Row(b, p).row = CuSeqLens(reqs, b) + p
    OBVIOUS
  <2> QED BY <1>2, <1>3, <2>2, <2>3
<1>10. \A c, p : Row(c, p).read = ReadAt(reqs[c].id, p, 0)
  OBVIOUS
<1> HIDE DEF In, Row
<1>11. FlashRow(reqs, Packed(reqs), diagonal, b, j) =
         {ReadAt(reqs[b].id, p, 0) : p \in 0 .. last - 1}
  <2>1. ASSUME NEW x \in FlashRow(reqs, Packed(reqs), diagonal, b, j)
        PROVE  \E p \in 0 .. last - 1 : x = ReadAt(reqs[b].id, p, 0)
    <3>1. PICK y : In(y) /\ y.read = x
      BY <1>7
    <3>2. PICK c \in 1 .. n : \E p \in 0 .. seqs[c] - 1 : y = Row(c, p)
      BY <1>6, <3>1 DEF In
    <3>3. PICK p \in 0 .. seqs[c] - 1 : y = Row(c, p)
      BY <3>2
    <3> QED BY <1>8, <1>10, <3>1, <3>3
  <2>2. ASSUME NEW p \in 0 .. last - 1
        PROVE  ReadAt(reqs[b].id, p, 0) \in FlashRow(reqs, Packed(reqs), diagonal, b, j)
    BY <1>7, <1>9, <1>10
  <2> QED BY <2>1, <2>2
<1> DEFINE by == [p \in 0 .. last - 1 |-> 0]
<1>12. {ReadAt(reqs[b].id, p, 0) : p \in 0 .. last - 1} =
         {ReadAt(reqs[b].id, p, by[p]) : p \in 0 .. last - 1}
  OBVIOUS
<1>13. Exact({ReadAt(reqs[b].id, p, by[p]) : p \in 0 .. last - 1}, reqs[b].id, 0, last)
  <2> HIDE DEF by
  <2> QED BY ReadsAreExact
<1> QED BY <1>11, <1>12, <1>13

\* A request without context has no rows there, whatever the scratch holds.
LEMMA FlashOfNothing ==
  ASSUME cfg \in Config, NEW reqs, NEW n \in Nat, IsSlice(reqs, n),
         NEW b \in 1 .. n, reqs[b].seq = 0
  PROVE  FlashRow(reqs, Packed(reqs), FALSE, b, 1) = {}
<1>1. PICK first \in Nat : first = CuSeqLens(reqs, b)
  BY PackedRowsAre
<1>2. ASSUME NEW p \in Packed(reqs), first <= p.row, p.row < first PROVE FALSE
  <2>1. PICK c \in 1 .. n : \E x \in Scan(reqs[c].id, 0, cfg.max_blocks, reqs[c].seq, 0, 0) :
          p = [row |-> CuSeqLens(reqs, c) + x.pos, read |-> x]
    BY <1>2 DEF Packed, IsSlice
  <2>2. PICK x \in Scan(reqs[c].id, 0, cfg.max_blocks, reqs[c].seq, 0, 0) :
          p = [row |-> CuSeqLens(reqs, c) + x.pos, read |-> x]
    BY <2>1
  <2>3. reqs[c].seq \in Nat /\ reqs[c].seq <= cfg.max_blocks * G
    BY DEF IsSlice
  <2>4. PICK i \in 0 .. reqs[c].seq - 1 : x = ReadAt(reqs[c].id, i, 0)
    BY <2>2, <2>3, PackedScanIs
  <2>5. x.pos = i /\ i \in Nat
    BY <2>3, <2>4 DEF ReadAt
  <2>6. CuSeqLens(reqs, c) \in Nat
    BY PackedRowsAre
  <2>7. p.row \in Nat
    BY <2>2, <2>5, <2>6
  <2> QED BY <1>2, <2>7
<1>3. ASSUME NEW row \in Max2(first, cfg.fa_rows) .. first + 0 - 1 PROVE FALSE
  <2>1. cfg.fa_rows \in Nat
    BY DEF Config
  <2>2. Max2(first, cfg.fa_rows) \in Nat /\ first <= Max2(first, cfg.fa_rows)
    BY <2>1 DEF Max2
  <2> QED BY <1>3, <2>2
<1>4. FlashRow(reqs, Packed(reqs), FALSE, b, 1) =
        {p.read : p \in {p \in Packed(reqs) : first <= p.row /\ p.row < first + 0}}
          \cup {Stray(row) : row \in Max2(first, cfg.fa_rows) .. first + 0 - 1}
  BY <1>1 DEF FlashRow
<1>5. first + 0 = first
  OBVIOUS
<1> QED BY <1>2, <1>3, <1>4, <1>5

\* A row due nothing reads nothing.
LEMMA NothingIsEmpty ==
  ASSUME NEW S, NEW r, NEW from \in Nat, Exact(S, r, from, 0)
  PROVE  S = {}
<1>1. \A x \in S : x.pos \in from .. 0 - 1
  BY DEF Exact
<1>2. from .. 0 - 1 = {}
  OBVIOUS
<1> QED BY <1>1, <1>2

-----------------------------------------------------------------------------
(* The paths: the rows of a slice, in token order.                         *)

QLenOf(reqs) == [b \in DOMAIN reqs |-> reqs[b].qlen]

\* A row per query token of a slice, by request.
IsRows(f, reqs) == f = [b \in DOMAIN reqs |-> [j \in 1 .. reqs[b].qlen |-> f[b][j]]]

\* PerToken, for any rows.
LEMMA SliceRows ==
  ASSUME NEW reqs, NEW n \in Nat, IsSlice(reqs, n), NEW f, IsRows(f, reqs)
  PROVE  /\ FlattenSeq(f) = [t \in 1 .. Sum(QLenOf(reqs), n) |-> FlattenSeq(f)[t]]
         /\ Sum(QLenOf(reqs), n) \in Nat
         /\ \A b \in 1 .. n : \A j \in 1 .. reqs[b].qlen :
              FlattenSeq(f)[Sum(QLenOf(reqs), b - 1) + j] = f[b][j]
<1>1. PICK q : q = QLenOf(reqs)
  OBVIOUS
<1>2. \A b \in 1 .. n : q[b] \in Nat /\ q[b] = reqs[b].qlen
  BY <1>1 DEF IsSlice, QLenOf
<1>3. \A b \in 1 .. n : f[b] = [j \in 1 .. q[b] |-> f[b][j]]
  <2>1. ASSUME NEW b \in 1 .. n PROVE f[b] = [j \in 1 .. reqs[b].qlen |-> f[b][j]]
    BY Zenon DEF IsSlice, IsRows
  <2> QED BY <1>2, <2>1, Zenon
<1>4. f = [b \in 1 .. n |-> f[b]]
  BY Zenon DEF IsSlice, IsRows
<1>5. /\ FlattenSeq(f) = [t \in 1 .. Sum(q, n) |-> FlattenSeq(f)[t]]
      /\ \A b \in 1 .. n : \A j \in 1 .. q[b] : FlattenSeq(f)[Sum(q, b - 1) + j] = f[b][j]
  <2>1. Lists(f, q, n)
    BY <1>2, <1>3, <1>4, Zenon DEF Lists
  <2> QED BY <2>1, FlattenIs
<1>6. Sum(q, n) \in Nat
  <2>1. n \in 0 .. n
    OBVIOUS
  <2> QED BY <1>2, <2>1, SumIs
<1>7. \A b \in 1 .. n : \A j \in 1 .. reqs[b].qlen : FlattenSeq(f)[Sum(q, b - 1) + j] = f[b][j]
  BY <1>2, <1>5, Zenon
<1> QED BY <1>1, <1>5, <1>6, <1>7, Zenon

\* kvarn_decode_attention.
LEMMA DecodeRows ==
  ASSUME cfg \in Config, NEW reqs, NEW n \in Nat, IsSlice(reqs, n)
  PROVE  /\ DecodeAttention(reqs) = [b \in 1 .. n |-> DecodeAttention(reqs)[b]]
         /\ cfg.fused_decode \/ FitsScratch(reqs) => \A b \in 1 .. n :
              Exact(DecodeAttention(reqs)[b], reqs[b].id,
                    IF cfg.fused_decode THEN WindowStart(reqs[b].seq) ELSE 0, reqs[b].seq)
         /\ \A b \in 1 .. n : reqs[b].seq = 0 => DecodeAttention(reqs)[b] = {}
<1>1. DOMAIN reqs = 1 .. n
  BY DEF IsSlice
<1>2. ASSUME NEW b \in 1 .. n
      PROVE  DecodeAttention(reqs)[b] =
               IF DecodeSplits(Len(reqs)) THEN SplitRow(reqs[b].id, reqs[b].seq)
               ELSE IF cfg.fused_decode THEN FusedRow(reqs[b].id, reqs[b].seq)
               ELSE FlashRow(reqs, Packed(reqs), FALSE, b, 1)
  BY <1>1, Zenon DEF DecodeAttention
<1>3. DecodeSplits(Len(reqs)) => cfg.fused_decode
  BY DEF DecodeSplits
<1>4. ASSUME NEW b \in 1 .. n, cfg.fused_decode \/ FitsScratch(reqs)
      PROVE  Exact(DecodeAttention(reqs)[b], reqs[b].id,
                   IF cfg.fused_decode THEN WindowStart(reqs[b].seq) ELSE 0, reqs[b].seq)
  <2>1. reqs[b].seq \in Nat
    BY DEF IsSlice
  <2>2. Exact(SplitRow(reqs[b].id, reqs[b].seq), reqs[b].id, WindowStart(reqs[b].seq), reqs[b].seq)
    BY <2>1, SplitIsExact
  <2>3. Exact(FusedRow(reqs[b].id, reqs[b].seq), reqs[b].id, WindowStart(reqs[b].seq), reqs[b].seq)
    BY <2>1, FusedIsExact
  <2>4. FitsScratch(reqs) =>
          Exact(FlashRow(reqs, Packed(reqs), FALSE, b, 1), reqs[b].id, 0, reqs[b].seq)
    BY FlashIsExact
  <2> QED BY <1>2, <1>3, <1>4, <2>2, <2>3, <2>4
<1>5. DecodeAttention(reqs) = [b \in 1 .. n |-> DecodeAttention(reqs)[b]]
  BY <1>1, Zenon DEF DecodeAttention
<1>6. ASSUME NEW b \in 1 .. n, reqs[b].seq = 0 PROVE DecodeAttention(reqs)[b] = {}
  <2>1. CASE cfg.fused_decode
    <3>1. Exact(DecodeAttention(reqs)[b], reqs[b].id, WindowStart(0), 0)
      BY <1>4, <1>6, <2>1
    <3>2. WindowStart(0) \in Nat
      BY WindowIsNat
    <3> QED BY <3>1, <3>2, NothingIsEmpty
  <2>2. CASE ~ cfg.fused_decode
    BY <1>2, <1>3, <1>6, <2>2, FlashOfNothing
  <2> QED BY <2>1, <2>2
<1> QED BY <1>4, <1>5, <1>6

\* kvarn_verify_attention, a program per row of the plan.
LEMMA PlannedRows ==
  ASSUME cfg \in Config, NEW reqs, NEW plan, NEW qlen, NEW t \in DOMAIN plan,
         ~ SharedVerify(plan, qlen), plan[t].len \in Nat
  PROVE  Exact(VerifyAttention(reqs, plan, qlen)[t], reqs[plan[t].req].id,
               WindowStart(plan[t].len), plan[t].len)
<1>1. VerifyAttention(reqs, plan, qlen)[t] =
        IF VerifySplits THEN SplitRow(reqs[plan[t].req].id, plan[t].len)
        ELSE FusedRow(reqs[plan[t].req].id, plan[t].len)
  BY Zenon DEF VerifyAttention
<1>2. Exact(SplitRow(reqs[plan[t].req].id, plan[t].len), reqs[plan[t].req].id,
            WindowStart(plan[t].len), plan[t].len)
  BY SplitIsExact
<1>3. Exact(FusedRow(reqs[plan[t].req].id, plan[t].len), reqs[plan[t].req].id,
            WindowStart(plan[t].len), plan[t].len)
  BY FusedIsExact
<1> QED BY <1>1, <1>2, <1>3

\* kvarn_verify_attention, a program per request: every row at its own limit.
LEMMA SharedRows ==
  ASSUME cfg \in Config, NEW reqs, NEW plan, NEW qlen \in Nat, SharedVerify(plan, qlen),
         NEW b \in Nat \ {0}, NEW j \in 1 .. qlen, (b - 1) * qlen + j \in DOMAIN plan,
         NEW len \in Nat, len = plan[b * qlen].len
  PROVE  /\ qlen <= len =>
              Exact(VerifyAttention(reqs, plan, qlen)[(b - 1) * qlen + j], reqs[b].id,
                    WindowStart(len - qlen + j), len - qlen + j)
         /\ len = 0 => VerifyAttention(reqs, plan, qlen)[(b - 1) * qlen + j] = {}
<1>1. PICK t : t = (b - 1) * qlen + j
  OBVIOUS
<1>2. (t - 1) \div qlen = b - 1 /\ (t - 1) % qlen = j - 1
  <2>1. PICK a \in Nat, i \in 0 .. qlen - 1 : a = b - 1 /\ i = j - 1
    OBVIOUS
  <2> qlen \in Nat \ {0}
    OBVIOUS
  <2>2. a * qlen + i \in Nat /\ (a * qlen + i) \div qlen = a /\ (a * qlen + i) % qlen = i
    BY QuotientAndRest
  <2>3. PICK x \in Nat : x = a * qlen
    OBVIOUS
  <2>4. t - 1 = x + i
    BY <1>1, <2>1, <2>3
  <2> QED BY <2>1, <2>2, <2>3, <2>4
<1>3. \E splits \in Nat \ {0} :
        VerifyAttention(reqs, plan, qlen)[t] = SharedRow(reqs[b].id, len, qlen, j, splits)
  <2> DEFINE splits == IF cfg.max_blocks >= 16 /\ Len(plan) \div Max2(qlen, 1) <= cfg.sm
                       THEN NumSplits ELSE 1
  <2>1. splits \in Nat \ {0}
    BY SplitsArePositive
  <2>2. VerifyAttention(reqs, plan, qlen)[t] =
          SharedRow(reqs[(t - 1) \div qlen + 1].id, plan[((t - 1) \div qlen + 1) * qlen].len, qlen,
                    ((t - 1) % qlen) + 1, splits)
    BY <1>1, Zenon DEF VerifyAttention
  <2>3. (t - 1) \div qlen + 1 = b /\ ((t - 1) % qlen) + 1 = j
    BY <1>2
  <2> HIDE DEF splits
  <2> QED BY <2>1, <2>2, <2>3
<1>4. PICK splits \in Nat \ {0} :
        VerifyAttention(reqs, plan, qlen)[t] = SharedRow(reqs[b].id, len, qlen, j, splits)
  BY <1>3
<1>5. qlen <= len => Exact(SharedRow(reqs[b].id, len, qlen, j, splits), reqs[b].id,
                           WindowStart(len - qlen + j), len - qlen + j)
  BY SharedIsExact
<1>6. len = 0 => SharedRow(reqs[b].id, len, qlen, j, splits) = {}
  BY DEF SharedRow
<1> QED BY <1>1, <1>4, <1>5, <1>6

\* _decode_path_slow: the rows above the diagonal, from the slots and tiles that
\* hold them when the block the step writes has its slot.
LEMMA SlowRows ==
  ASSUME cfg \in Config, NEW reqs, NEW n \in Nat, IsSlice(reqs, n),
         \A b \in 1 .. n : reqs[b].qlen > 0 =>
                             <<reqs[b].id, (reqs[b].seq - 1) \div G>> \in resident
  PROVE  /\ SlowPath(reqs) = [t \in 1 .. Sum(QLenOf(reqs), n) |-> SlowPath(reqs)[t]]
         /\ \A b \in 1 .. n : \A j \in 1 .. reqs[b].qlen :
              Exact(SlowPath(reqs)[Sum(QLenOf(reqs), b - 1) + j], reqs[b].id, 0,
                    reqs[b].seq - reqs[b].qlen + j)
<1> DEFINE Row(b, j) ==
             {x \in Gathered(reqs[b].id, reqs[b].seq) : x.pos < reqs[b].seq - reqs[b].qlen + j}
           f == [b \in DOMAIN reqs |-> [j \in 1 .. reqs[b].qlen |-> Row(b, j)]]
<1>1. SlowPath(reqs) = FlattenSeq(f)
  BY DEF SlowPath, PerToken
<1>2. \A b \in DOMAIN reqs : \A j \in 1 .. reqs[b].qlen : f[b][j] = Row(b, j)
  OBVIOUS
<1>3. IsRows(f, reqs)
  BY <1>2 DEF IsRows
<1>4. \A b \in 1 .. n : b \in DOMAIN reqs
  BY DEF IsSlice
<1> HIDE DEF f
<1>5. ASSUME NEW b \in 1 .. n, NEW j \in 1 .. reqs[b].qlen
      PROVE  Exact(Row(b, j), reqs[b].id, 0, reqs[b].seq - reqs[b].qlen + j)
  <2>0. PICK r : r = reqs[b].id
    OBVIOUS
  <2>1. PICK len \in Nat, last \in Nat :
          /\ r = reqs[b].id /\ len = reqs[b].seq
          /\ last = reqs[b].seq - reqs[b].qlen + j /\ last <= len /\ 0 < len
    BY <2>0 DEF IsSlice
  <2>2. <<r, (len - 1) \div G>> \in resident
    BY <2>1 DEF IsSlice
  <2> DEFINE Read(i) == [req |-> r, pos |-> i, split |-> 0, chunk |-> 0,
                         copy |-> IF i \div G >= len \div G /\ Copy(r, i \div G) = "tile"
                                  THEN "zeros" ELSE Copy(r, i \div G)]
  <2>3. ASSUME NEW i \in 0 .. len - 1
        PROVE  Read(i).copy = Copy(r, i \div G)
    <3>1. PICK k \in Nat, m \in Nat, o \in Nat :
            k = i \div G /\ m = (len - 1) \div G /\ o = len \div G
      <4>1. i \in Nat /\ len - 1 \in Nat /\ G \in Nat \ {0}
        BY <2>1, GroupsAreWhole
      <4> QED BY <4>1, DivIs
    <3>2. k <= m
      BY <3>1, DivMonotone, GroupsAreWhole
    <3>3. m <= o
      BY <3>1, DivMonotone, GroupsAreWhole
    <3>4. CASE k >= o
      <4>1. k = m
        BY <3>2, <3>3, <3>4
      <4> QED BY <2>2, <3>1, <4>1 DEF Copy
    <3>5. CASE ~ k >= o
      BY <3>1, <3>5
    <3> QED BY <3>4, <3>5
  <2>4. \A i : Read(i).req = r /\ Read(i).pos = i
    OBVIOUS
  <2>5. Gathered(r, len) = {Read(i) : i \in 0 .. len - 1}
    BY DEF Gathered
  <2> HIDE DEF Read
  <2>6. Row(b, j) = {x \in {Read(i) : i \in 0 .. len - 1} : x.pos < last}
    BY <2>1, <2>5
  <2> HIDE DEF Row
  <2>7. ASSUME NEW x \in Row(b, j)
        PROVE  \E i \in 0 .. last - 1 : x = Read(i) /\ x.pos = i /\ x.req = r
                                        /\ x.copy = Copy(r, i \div G)
    <3>1. PICK i \in 0 .. len - 1 : x = Read(i)
      BY <2>6
    <3>2. x.pos < last
      BY <2>6
    <3>3. i \in 0 .. last - 1
      BY <2>1, <2>4, <3>1, <3>2
    <3> QED BY <2>3, <2>4, <3>1, <3>3
  <2>8. ASSUME NEW i \in 0 .. last - 1 PROVE Read(i) \in Row(b, j)
    <3>1. i \in 0 .. len - 1 /\ i < last
      BY <2>1
    <3> QED BY <2>4, <2>6, <3>1
  <2>9. Exact(Row(b, j), r, 0, last)
    <3>1. \A x \in Row(b, j) : /\ x.req = r /\ x.copy = Copy(r, x.pos \div G)
                               /\ x.pos \in 0 .. last - 1
      BY <2>7
    <3>2. \A i \in 0 .. last - 1 : \E x \in Row(b, j) : x.pos = i
      BY <2>4, <2>8
    <3>3. \A x, y \in Row(b, j) : x.pos = y.pos => x = y
      BY <2>7
    <3> QED BY <3>1, <3>2, <3>3 DEF Exact
  <2> QED BY <2>1, <2>9
<1> HIDE DEF Row
<1> QED BY <1>1, <1>2, <1>3, <1>4, <1>5, SliceRows

\* The packed copy and FlashAttention.
FlashRows(reqs) ==
  PerToken(reqs, LAMBDA b, j : FlashRow(reqs, Packed(reqs), causal, b, j))

LEMMA FlashRowsAre ==
  ASSUME cfg \in Config, causal \in BOOLEAN, NEW reqs, NEW n \in Nat, IsSlice(reqs, n)
  PROVE  /\ FlashRows(reqs) = [t \in 1 .. Sum(QLenOf(reqs), n) |-> FlashRows(reqs)[t]]
         /\ FitsScratch(reqs) => \A b \in 1 .. n : \A j \in 1 .. reqs[b].qlen :
              Exact(FlashRows(reqs)[Sum(QLenOf(reqs), b - 1) + j], reqs[b].id, 0,
                    IF causal THEN reqs[b].seq - reqs[b].qlen + j ELSE reqs[b].seq)
<1> DEFINE f == [b \in DOMAIN reqs |->
                   [j \in 1 .. reqs[b].qlen |-> FlashRow(reqs, Packed(reqs), causal, b, j)]]
<1>1. FlashRows(reqs) = FlattenSeq(f)
  BY DEF FlashRows, PerToken
<1>2. \A b \in DOMAIN reqs : \A j \in 1 .. reqs[b].qlen :
        f[b][j] = FlashRow(reqs, Packed(reqs), causal, b, j)
  OBVIOUS
<1>3. IsRows(f, reqs)
  BY <1>2 DEF IsRows
<1>4. \A b \in 1 .. n : b \in DOMAIN reqs
  BY DEF IsSlice
<1> HIDE DEF f
<1>5. ASSUME FitsScratch(reqs), NEW b \in 1 .. n, NEW j \in 1 .. reqs[b].qlen
      PROVE  Exact(FlashRow(reqs, Packed(reqs), causal, b, j), reqs[b].id, 0,
                   IF causal THEN reqs[b].seq - reqs[b].qlen + j ELSE reqs[b].seq)
  BY <1>5, FlashIsExact
<1> QED BY <1>1, <1>2, <1>3, <1>4, <1>5, SliceRows

\* _fused_verify_path: its plan ends every row at the diagonal.
LEMMA FusedRows ==
  ASSUME cfg \in Config, NEW reqs, NEW n \in Nat, IsSlice(reqs, n)
  PROVE  /\ FusedVerify(reqs) = [t \in 1 .. Sum(QLenOf(reqs), n) |-> FusedVerify(reqs)[t]]
         /\ \A b \in 1 .. n : \A j \in 1 .. reqs[b].qlen :
              Exact(FusedVerify(reqs)[Sum(QLenOf(reqs), b - 1) + j], reqs[b].id,
                    WindowStart(reqs[b].seq - reqs[b].qlen + j), reqs[b].seq - reqs[b].qlen + j)
<1> DEFINE Item(b, j) == [req |-> b, len |-> reqs[b].seq - reqs[b].qlen + j]
           f == [b \in DOMAIN reqs |-> [j \in 1 .. reqs[b].qlen |-> Item(b, j)]]
<1>1. FusedVerify(reqs) = VerifyAttention(reqs, FlattenSeq(f), 0)
  BY DEF FusedVerify, PerToken
<1>2. \A b \in DOMAIN reqs : \A j \in 1 .. reqs[b].qlen : f[b][j] = Item(b, j)
  OBVIOUS
<1>3. IsRows(f, reqs)
  BY <1>2 DEF IsRows
<1>4. \A b \in 1 .. n : b \in DOMAIN reqs
  BY DEF IsSlice
<1> HIDE DEF f, Item
<1>5. PICK plan : plan = FlattenSeq(f)
  OBVIOUS
<1>6. /\ plan = [t \in 1 .. Sum(QLenOf(reqs), n) |-> plan[t]] /\ Sum(QLenOf(reqs), n) \in Nat
      /\ \A b \in 1 .. n : \A j \in 1 .. reqs[b].qlen :
           plan[Sum(QLenOf(reqs), b - 1) + j] = f[b][j]
  BY <1>3, <1>5, SliceRows
<1>7. DOMAIN plan = 1 .. Sum(QLenOf(reqs), n)
  BY <1>6
<1>8. VerifyAttention(reqs, plan, 0) = [t \in DOMAIN plan |-> VerifyAttention(reqs, plan, 0)[t]]
  BY Zenon DEF VerifyAttention
<1>9. ~ SharedVerify(plan, 0)
  BY DEF SharedVerify
<1>10. ASSUME NEW b \in 1 .. n, NEW j \in 1 .. reqs[b].qlen
       PROVE  Exact(VerifyAttention(reqs, plan, 0)[Sum(QLenOf(reqs), b - 1) + j], reqs[b].id,
                    WindowStart(reqs[b].seq - reqs[b].qlen + j), reqs[b].seq - reqs[b].qlen + j)
  <2>1. PICK t : t = Sum(QLenOf(reqs), b - 1) + j
    OBVIOUS
  <2>2. plan[t] = Item(b, j)
    BY <1>2, <1>4, <1>6, <2>1
  <2>3. t \in DOMAIN plan
    <3>1. \A i \in 1 .. n : QLenOf(reqs)[i] \in Nat /\ QLenOf(reqs)[i] = reqs[i].qlen
      BY DEF IsSlice, QLenOf
    <3>2. PICK q : q = QLenOf(reqs)
      OBVIOUS
    <3>3. /\ Sum(q, b) = Sum(q, b - 1) + q[b] /\ Sum(q, b - 1) \in Nat /\ Sum(q, n) \in Nat
          /\ Sum(q, b) <= Sum(q, n)
      <4>1. b - 1 \in 0 .. n /\ b \in 0 .. n /\ n \in 0 .. n /\ b <= n
        OBVIOUS
      <4> QED BY <3>1, <3>2, <4>1, SumIs, SumMonotone
    <3>4. t \in 1 .. Sum(q, n)
      BY <2>1, <3>1, <3>2, <3>3
    <3> QED BY <1>7, <3>2, <3>4
  <2>4. plan[t].req = b /\ plan[t].len = reqs[b].seq - reqs[b].qlen + j /\ plan[t].len \in Nat
    <3>1. reqs[b].seq - reqs[b].qlen + j \in Nat
      BY DEF IsSlice
    <3> QED BY <2>2, <3>1 DEF Item
  <2>5. Exact(VerifyAttention(reqs, plan, 0)[t], reqs[plan[t].req].id,
              WindowStart(plan[t].len), plan[t].len)
    BY <1>9, <2>3, <2>4, PlannedRows
  <2> QED BY <2>1, <2>4, <2>5
<1> QED BY <1>1, <1>5, <1>7, <1>8, <1>10

-----------------------------------------------------------------------------
(* From exact reads to the ones a query row is due.                        *)

\* AttendsDue, of any set of reads.
DueReads(S, b, j) ==
  /\ {x.pos : x \in S} = Due(b, j)
  /\ Cardinality(S) = Cardinality({x.pos : x \in S})
  /\ \A x \in S : x.req = b /\ Holds(b, x.pos, x.copy)

\* Reads at different positions are as many as their positions.
LEMMA CountsAgree ==
  ASSUME NEW S, NEW from \in Int, NEW to \in Int, {x.pos : x \in S} = from .. to,
         \A x, y \in S : x.pos = y.pos => x = y
  PROVE  Cardinality(S) = Cardinality({x.pos : x \in S})
<1> DEFINE T == {x.pos : x \in S}
           f == [x \in S |-> x.pos]
<1>1. IsFiniteSet(T)
  BY FS_Interval
<1>2. \A x \in S : x.pos \in T
  OBVIOUS
<1>3. \A p \in T : \E x \in S : x.pos = p
  OBVIOUS
<1> HIDE DEF T
<1>4. f \in [S -> T] /\ \A x \in S : f[x] = x.pos
  BY <1>2
<1> HIDE DEF f
<1>5. f \in Injection(S, T)
  BY <1>4 DEF Injection, IsInjective
<1>6. f \in Surjection(S, T)
  BY <1>3, <1>4 DEF Surjection
<1>7. Cardinality(S) = Cardinality(T)
  BY <1>1, <1>5, <1>6, FS_Injection
<1> QED BY <1>7 DEF T

LEMMA ExactIsDue ==
  ASSUME NEW S, NEW b, NEW j, NEW from \in Nat, NEW to \in Nat, Exact(S, b, from, to),
         Due(b, j) = from .. to - 1
  PROVE  DueReads(S, b, j)
<1>1. {x.pos : x \in S} = from .. to - 1
  BY DEF Exact
<1>2. \A x, y \in S : x.pos = y.pos => x = y
  BY DEF Exact
<1>3. to - 1 \in Int
  OBVIOUS
<1>4. Cardinality(S) = Cardinality({x.pos : x \in S})
  BY <1>1, <1>2, <1>3, CountsAgree
<1>5. \A x \in S : x.req = b /\ Holds(b, x.pos, x.copy)
  BY DEF Exact, Holds
<1> QED BY <1>1, <1>4, <1>5 DEF DueReads

\* The keys of the step itself, of a request with nothing cached.
OwnReads(r, to) ==
  {[req |-> r, pos |-> i, copy |-> "own", split |-> 0, chunk |-> 0] : i \in 0 .. to - 1}

LEMMA OwnIsDue ==
  ASSUME NEW b, NEW j, NEW to \in Nat, batch[b].cached = 0, Due(b, j) = 0 .. to - 1
  PROVE  DueReads(OwnReads(b, to), b, j)
<1> DEFINE Read(i) == [req |-> b, pos |-> i, copy |-> "own", split |-> 0, chunk |-> 0]
<1>1. \A i : Read(i).req = b /\ Read(i).pos = i /\ Read(i).copy = "own"
  OBVIOUS
<1>2. PICK S : S = {Read(i) : i \in 0 .. to - 1}
  OBVIOUS
<1> HIDE DEF Read
<1>3. \A x \in S : \E i \in 0 .. to - 1 : x = Read(i) /\ x.pos = i /\ x.req = b /\ x.copy = "own"
  BY <1>1, <1>2
<1>4. \A i \in 0 .. to - 1 : Read(i) \in S /\ Read(i).pos = i
  BY <1>1, <1>2
<1>5. {x.pos : x \in S} = 0 .. to - 1
  BY <1>3, <1>4
<1>6. \A x, y \in S : x.pos = y.pos => x = y
  BY <1>3
<1>7. Cardinality(S) = Cardinality({x.pos : x \in S})
  <2>1. 0 \in Int /\ to - 1 \in Int
    OBVIOUS
  <2> QED BY <1>5, <1>6, <2>1, CountsAgree
<1>8. \A x \in S : x.req = b /\ Holds(b, x.pos, x.copy)
  <2>1. \A x \in S : x.req = b /\ x.pos >= 0 /\ x.copy = "own"
    BY <1>3
  <2> QED BY <2>1 DEF Holds
<1>9. DueReads(S, b, j)
  BY <1>5, <1>7, <1>8 DEF DueReads
<1> QED BY <1>2, <1>9 DEF OwnReads, Read

-----------------------------------------------------------------------------
(* The batch.                                                              *)

\* What the runner hands build(), whatever the step.
Setup ==
  /\ cfg \in Configs /\ batch \in Batches /\ Ordered(batch)
  /\ \A b \in DOMAIN batch : SeqLen(batch[b]) <= cfg.max_blocks * G
  /\ pad \in {0, 1} /\ (pad = 1 => Uniform(batch, Threshold))
  /\ causal \in BOOLEAN
  /\ WrittenBlocks(batch) \subseteq resident

N == Len(batch)

LEMMA BatchShape ==
  ASSUME Setup
  PROVE  /\ cfg \in Config /\ N \in Nat \ {0} /\ Requests = 1 .. N /\ N + pad \in Nat
         /\ QLens = [b \in 1 .. N + pad |-> QLens[b]] /\ Len(QLens) = N + pad
         /\ \A b \in 1 .. N + pad :
              /\ QLens[b] \in Nat /\ SeqLens[b] \in Nat /\ QLens[b] <= SeqLens[b]
              /\ SeqLens[b] <= cfg.max_blocks * G
         /\ \A b \in 1 .. N : /\ b \in 1 .. N + pad /\ QLens[b] = batch[b].qlen /\ QLens[b] > 0
                              /\ batch[b].cached \in Nat
                              /\ SeqLens[b] = batch[b].cached + QLens[b]
         /\ \A b \in N + 1 .. N + pad : QLens[b] = 0 /\ SeqLens[b] = 0
<1> DEFINE R == [cached : Nat, qlen : Nat \ {0}]
<1>1. cfg \in Config /\ batch \in Seq(R) /\ batch # <<>> /\ cfg.max_blocks \in Nat
  BY AttendOK DEF Setup, Config
<1>2. Requests = 1 .. N /\ N \in Nat /\ \A b \in 1 .. N : batch[b] \in R
  <2> HIDE DEF R
  <2> QED BY <1>1, LenProperties, ElementOfSeq DEF Requests, N
<1>3. N # 0
  <2> HIDE DEF R
  <2> QED BY <1>1, EmptySeq DEF N
<1>4. \A b \in 1 .. N : /\ batch[b].cached \in Nat /\ batch[b].qlen \in Nat /\ batch[b].qlen > 0
                        /\ batch[b].cached + batch[b].qlen <= cfg.max_blocks * G
  BY <1>2 DEF Setup, SeqLen, Requests
<1>5. pad \in Nat /\ N + pad \in Nat
  BY <1>2 DEF Setup
<1>6. 0 <= cfg.max_blocks * G
  BY <1>1, GroupsAreWhole
<1>7. \A b \in 1 .. N + pad :
        /\ QLens[b] = IF b \in 1 .. N THEN batch[b].qlen ELSE 0
        /\ SeqLens[b] = IF b \in 1 .. N THEN batch[b].cached + batch[b].qlen ELSE 0
  BY <1>2 DEF QLens, SeqLens, SeqLen, N
<1>8. Len(QLens) = N + pad /\ QLens = [b \in 1 .. N + pad |-> QLens[b]]
  <2>1. QLens \in [1 .. N + pad -> Nat]
    BY <1>2, <1>4, <1>5 DEF QLens, N
  <2>2. QLens \in Seq(Nat) /\ DOMAIN QLens = 1 .. N + pad
    BY <1>5, <2>1
  <2>3. DOMAIN QLens = 1 .. Len(QLens) /\ Len(QLens) \in Nat
    BY <2>2, LenProperties
  <2>4. QLens = [b \in 1 .. N + pad |-> QLens[b]]
    BY <2>1
  <2> QED BY <1>5, <2>2, <2>3, <2>4
<1>9. \A b \in 1 .. N : b \in 1 .. N + pad
  BY <1>2, <1>5
<1>10. \A b \in 1 .. N + pad :
         /\ QLens[b] \in Nat /\ SeqLens[b] \in Nat /\ QLens[b] <= SeqLens[b]
         /\ SeqLens[b] <= cfg.max_blocks * G
  BY <1>4, <1>6, <1>7
<1>11. \A b \in N + 1 .. N + pad : QLens[b] = 0 /\ SeqLens[b] = 0
  <2>1. \A b \in N + 1 .. N + pad : b \in 1 .. N + pad /\ b \notin 1 .. N
    BY <1>2, <1>5
  <2> QED BY <1>7, <2>1
<1> QED BY <1>1, <1>2, <1>3, <1>4, <1>5, <1>7, <1>8, <1>9, <1>10, <1>11

\* A sum over the second part of a list.
LEMMA SumShift ==
  ASSUME NEW q, NEW r, NEW n \in Nat, NEW d \in 0 .. n, \A i \in 1 .. n : q[i] \in Nat,
         \A i \in 1 .. n - d : r[i] = q[d + i], NEW k \in 0 .. n - d
  PROVE  Sum(r, k) = Sum(q, d + k) - Sum(q, d)
<1> DEFINE T == {i \in Nat : i <= n - d => Sum(r, i) = Sum(q, d + i) - Sum(q, d)}
<1>1. /\ Sum(q, 0) = 0
      /\ \A i \in 0 .. n : Sum(q, i) \in Nat
      /\ \A i \in 1 .. n : Sum(q, i) = Sum(q, i - 1) + q[i]
  BY SumIs
<1>2. n - d \in Nat /\ \A i \in 1 .. n - d : r[i] \in Nat
  <2>1. \A i \in 1 .. n - d : d + i \in 1 .. n
    OBVIOUS
  <2> QED BY <2>1
<1>3. /\ Sum(r, 0) = 0
      /\ \A i \in 0 .. n - d : Sum(r, i) \in Nat
      /\ \A i \in 1 .. n - d : Sum(r, i) = Sum(r, i - 1) + r[i]
  <2>1. PICK m \in Nat : m = n - d
    BY <1>2
  <2> QED BY <1>2, <2>1, SumIs
<1>4. 0 \in T
  <2>1. d + 0 = d /\ Sum(q, d) \in Nat
    BY <1>1
  <2> QED BY <1>3, <2>1
<1>5. ASSUME NEW i \in Nat, i \in T PROVE i + 1 \in T
  <2>1. SUFFICES ASSUME i + 1 <= n - d PROVE Sum(r, i + 1) = Sum(q, d + (i + 1)) - Sum(q, d)
    OBVIOUS
  <2>2. PICK a : a = i + 1
    OBVIOUS
  <2>3. PICK e : e = d + a
    OBVIOUS
  <2>4. a \in 1 .. n - d /\ a - 1 = i /\ e \in 1 .. n /\ e - 1 = d + i /\ d + i \in 0 .. n
    BY <2>1, <2>2, <2>3
  <2>5. Sum(r, a) = Sum(r, i) + r[a] /\ Sum(q, e) = Sum(q, d + i) + q[e] /\ r[a] = q[e]
    BY <1>1, <1>3, <2>3, <2>4
  <2>6. Sum(r, i) = Sum(q, d + i) - Sum(q, d)
    BY <1>5, <2>1
  <2>7. Sum(q, d + i) \in Nat /\ Sum(q, d) \in Nat /\ q[e] \in Nat
    BY <1>1, <2>4
  <2>8. Sum(r, a) = Sum(q, e) - Sum(q, d)
    BY <2>5, <2>6, <2>7
  <2> QED BY <2>2, <2>3, <2>8
<1>6. Nat \subseteq T
  <2> HIDE DEF T
  <2> QED BY <1>4, <1>5, Induction
<1> QED BY <1>6

\* A slice of the batch is one of its requests' tensors.
LEMMA PartIs ==
  ASSUME Setup, NEW d \in 0 .. N + pad, NEW to \in d .. N + pad, NEW p, NEW v, NEW m,
         NEW reqs, reqs = Slice(d + 1, to, p, v, m).reqs
  PROVE  /\ to - d \in Nat /\ IsSlice(reqs, to - d)
         /\ \A i \in 1 .. to - d : /\ reqs[i].id = d + i /\ reqs[i].qlen = QLens[d + i]
                                   /\ reqs[i].seq = SeqLens[d + i] /\ d + i \in 1 .. N + pad
         /\ \A k \in 0 .. to - d :
              Sum(QLenOf(reqs), k) = Sum(QLens, d + k) - Sum(QLens, d)
<1>1. /\ N + pad \in Nat
      /\ \A b \in 1 .. N + pad : /\ QLens[b] \in Nat /\ SeqLens[b] \in Nat /\ QLens[b] <= SeqLens[b]
                                 /\ SeqLens[b] <= cfg.max_blocks * G
  BY BatchShape
<1>2. reqs = [i \in 1 .. to - (d + 1) + 1 |->
                [id |-> d + 1 + i - 1, qlen |-> QLens[d + 1 + i - 1],
                 seq |-> SeqLens[d + 1 + i - 1]]]
  BY DEF Slice
<1>3. to - (d + 1) + 1 = to - d /\ to - d \in Nat
  BY <1>1
<1>4. \A i \in 1 .. to - d : d + 1 + i - 1 = d + i /\ d + i \in 1 .. N + pad
  BY <1>1
<1>5. reqs = [i \in 1 .. to - d |->
                [id |-> d + i, qlen |-> QLens[d + i], seq |-> SeqLens[d + i]]]
  BY <1>2, <1>3, <1>4
<1>6. \A i \in 1 .. to - d : /\ reqs[i].id = d + i /\ reqs[i].qlen = QLens[d + i]
                             /\ reqs[i].seq = SeqLens[d + i] /\ d + i \in 1 .. N + pad
  BY <1>4, <1>5
<1>7. DOMAIN reqs = 1 .. to - d
  BY <1>5
<1>8. IsSlice(reqs, to - d)
  BY <1>1, <1>6, <1>7 DEF IsSlice
<1>9. \A i \in 1 .. to - d : QLenOf(reqs)[i] = QLens[d + i] /\ QLens[d + i] \in Nat
  BY <1>1, <1>6, <1>7 DEF QLenOf
<1>10. ASSUME NEW k \in 0 .. to - d
       PROVE  Sum(QLenOf(reqs), k) = Sum(QLens, d + k) - Sum(QLens, d)
  <2>1. PICK q : q = QLens
    OBVIOUS
  <2>2. PICK r : r = QLenOf(reqs)
    OBVIOUS
  <2>3. \A i \in 1 .. to - d : r[i] = q[d + i]
    BY <1>9, <2>1, <2>2
  <2>4. d \in 0 .. to /\ to \in Nat /\ \A i \in 1 .. to : q[i] \in Nat
    BY <1>1, <2>1
  <2>5. Sum(r, k) = Sum(q, d + k) - Sum(q, d)
    BY <2>3, <2>4, SumShift
  <2> QED BY <2>1, <2>2, <2>5
<1> QED BY <1>3, <1>6, <1>8, <1>10

LEMMA MaxQIs ==
  ASSUME Setup
  PROVE  /\ MaxQ \in Nat \ {0} /\ \A b \in 1 .. N : QLens[b] <= MaxQ
         /\ \E b \in 1 .. N : QLens[b] = MaxQ
<1>1. PICK q : q = QLens
  OBVIOUS
<1>2. /\ N \in Nat \ {0} /\ Requests = 1 .. N
      /\ \A b \in 1 .. N : q[b] = batch[b].qlen /\ q[b] \in Nat /\ q[b] > 0
  BY <1>1, BatchShape
<1> DEFINE T == {k \in Nat : k + 1 <= N => \E m \in 1 .. k + 1 : \A b \in 1 .. k + 1 : q[b] <= q[m]}
<1>3. 0 \in T
  BY <1>2
<1>4. ASSUME NEW k \in Nat, k \in T PROVE k + 1 \in T
  <2>1. SUFFICES ASSUME k + 2 <= N
                 PROVE  \E m \in 1 .. k + 2 : \A b \in 1 .. k + 2 : q[b] <= q[m]
    BY <1>2
  <2>2. PICK m \in 1 .. k + 1 : \A b \in 1 .. k + 1 : q[b] <= q[m]
    BY <1>2, <1>4, <2>1
  <2>3. k + 2 \in 1 .. N /\ \A b \in 1 .. k + 2 : b \in 1 .. k + 1 \/ b = k + 2
    BY <1>2, <2>1
  <2>4. \A b \in 1 .. k + 2 : q[b] \in Nat
    BY <1>2, <2>1
  <2>5. CASE q[k + 2] <= q[m]
    BY <2>2, <2>3, <2>5
  <2>6. CASE ~ q[k + 2] <= q[m]
    <3>1. \A b \in 1 .. k + 2 : q[b] <= q[k + 2]
      BY <2>2, <2>3, <2>4, <2>6
    <3> QED BY <3>1
  <2> QED BY <2>5, <2>6
<1>5. Nat \subseteq T
  <2> HIDE DEF T
  <2> QED BY <1>3, <1>4, Induction
<1>6. PICK m \in 1 .. N : \A b \in 1 .. N : q[b] <= q[m]
  <2>1. PICK k \in Nat : k + 1 = N
    BY <1>2
  <2> QED BY <1>5, <2>1
<1> DEFINE S == {batch[b].qlen : b \in Requests}
<1>7. q[m] \in S /\ \A x \in S : q[m] >= x
  BY <1>2, <1>6
<1>8. MaxQ \in S /\ \A x \in S : MaxQ >= x
  <2>1. MaxQ = CHOOSE x \in S : \A y \in S : x >= y
    BY DEF MaxQ, Max
  <2> HIDE DEF S
  <2> QED BY <1>7, <2>1
<1>9. \E b \in 1 .. N : q[b] = MaxQ
  BY <1>2, <1>8
<1>10. \A b \in 1 .. N : q[b] <= MaxQ
  BY <1>2, <1>8
<1> QED BY <1>1, <1>2, <1>9, <1>10

LEMMA ThresholdIs ==
  ASSUME Setup
  PROVE  Threshold \in Nat \ {0}
<1>1. cfg \in Config
  BY BatchShape
<1>2. cfg.num_spec \in Nat
  BY <1>1 DEF Config
<1> QED BY <1>2 DEF Threshold

LEMMA SumsAre ==
  ASSUME Setup
  PROVE  /\ Sum(QLens, 0) = 0
         /\ \A b \in 0 .. N + pad : Sum(QLens, b) \in Nat
         /\ \A b \in 1 .. N + pad : Sum(QLens, b) = Sum(QLens, b - 1) + QLens[b]
         /\ \A a, b \in 0 .. N + pad : a <= b => Sum(QLens, a) <= Sum(QLens, b)
<1>1. PICK q : q = QLens
  OBVIOUS
<1>2. N + pad \in Nat /\ \A b \in 1 .. N + pad : q[b] \in Nat
  BY <1>1, BatchShape
<1>3. /\ Sum(q, 0) = 0
      /\ \A b \in 0 .. N + pad : Sum(q, b) \in Nat
      /\ \A b \in 1 .. N + pad : Sum(q, b) = Sum(q, b - 1) + q[b]
  BY <1>2, SumIs
<1>4. \A a, b \in 0 .. N + pad : a <= b => Sum(q, a) <= Sum(q, b)
  BY <1>2, SumMonotone
<1> QED BY <1>1, <1>3, <1>4

\* The step's shape when every query is short and nothing is padded,
LEMMA ShortStep ==
  ASSUME Setup, MaxQ <= Threshold, pad = 0
  PROVE  NumDecodes = N /\ NumTokens = Sum(QLens, N) /\ NumDecodeTokens = Sum(QLens, N)
<1>1. Len(QLens) = N
  BY BatchShape
<1> QED BY <1>1 DEF NumDecodes, NumTokens, NumDecodeTokens, Total

\* when a captured graph pads it,
LEMMA PaddedStep ==
  ASSUME Setup, pad # 0
  PROVE  /\ pad = 1 /\ MaxQ <= Threshold /\ NumDecodes = N + 1
         /\ NumTokens = (N + 1) * MaxQ /\ NumDecodeTokens = (N + 1) * MaxQ
         /\ \A b \in 1 .. N : QLens[b] = MaxQ
         /\ QLens[N + 1] = 0 /\ SeqLens[N + 1] = 0
         /\ \A b \in 0 .. N : Sum(QLens, b) = b * MaxQ
         /\ Sum(QLens, N + 1) = N * MaxQ /\ N * MaxQ \in Nat /\ (N + 1) * MaxQ = N * MaxQ + MaxQ
<1>1. pad = 1 /\ Uniform(batch, Threshold)
  BY DEF Setup
<1>2. /\ N \in Nat \ {0} /\ Requests = 1 .. N /\ Len(QLens) = N + 1
      /\ \A b \in 1 .. N : QLens[b] = batch[b].qlen
      /\ QLens[N + 1] = 0 /\ SeqLens[N + 1] = 0
  <2>1. N \in Nat
    BY BatchShape
  <2>2. N + 1 \in N + 1 .. N + pad
    BY <1>1, <2>1
  <2> QED BY <1>1, <2>2, BatchShape
<1>3. /\ MaxQ \in Nat \ {0} /\ \E b \in 1 .. N : QLens[b] = MaxQ
  BY MaxQIs
<1>4. \A b \in 1 .. N : QLens[b] = MaxQ /\ QLens[b] <= Threshold
  BY <1>1, <1>2, <1>3 DEF Uniform, Requests
<1>5. MaxQ <= Threshold
  BY <1>3, <1>4
<1>6. NumDecodes = N + 1 /\ NumTokens = (N + 1) * MaxQ /\ NumDecodeTokens = (N + 1) * MaxQ
  BY <1>1, <1>2, <1>5 DEF NumDecodes, NumTokens, NumDecodeTokens
<1>7. ASSUME NEW b \in 0 .. N PROVE Sum(QLens, b) = b * MaxQ
  <2>1. PICK q : q = QLens
    OBVIOUS
  <2>2. PICK m \in Nat : m = MaxQ
    BY <1>3
  <2>3. 0 \in 0 .. N /\ 0 <= b /\ N \in Nat /\ \A i \in 1 .. N : q[i] \in Nat
    BY <1>2, <1>4, <2>1, <2>2
  <2>4. \A i \in 0 + 1 .. b : m <= q[i] /\ q[i] <= m
    BY <1>4, <2>1, <2>2, <1>2
  <2>5. Sum(q, 0) + (b - 0) * m <= Sum(q, b) /\ Sum(q, b) <= Sum(q, 0) + (b - 0) * m
    BY <2>2, <2>3, <2>4, SumBounds
  <2>6. Sum(q, 0) = 0 /\ Sum(q, b) \in Nat
    BY <2>3, SumIs
  <2>7. PICK x \in Nat : x = b * m
    BY <2>3
  <2>8. (b - 0) * m = x
    BY <2>7
  <2>9. Sum(q, b) = x
    BY <2>5, <2>6, <2>7, <2>8
  <2> QED BY <2>1, <2>2, <2>7, <2>9
<1>8. Sum(QLens, N + 1) = N * MaxQ /\ N * MaxQ \in Nat
  <2>1. N + 1 \in 1 .. N + pad /\ N \in 0 .. N /\ N + 1 - 1 = N
    BY <1>1, <1>2
  <2>2. Sum(QLens, N + 1) = Sum(QLens, N + 1 - 1) + QLens[N + 1]
    BY <2>1, SumsAre
  <2>3. N * MaxQ \in Nat
    BY <1>2, <1>3
  <2>4. Sum(QLens, N) = N * MaxQ
    BY <1>7, <2>1
  <2>5. Sum(QLens, N + 1 - 1) = Sum(QLens, N)
    BY <2>1
  <2>6. PICK x \in Nat : x = N * MaxQ
    BY <2>3
  <2> QED BY <1>2, <2>2, <2>4, <2>5, <2>6
<1>9. (N + 1) * MaxQ = N * MaxQ + MaxQ
  BY <1>2, <1>3
<1> QED BY <1>1, <1>2, <1>4, <1>5, <1>6, <1>7, <1>8, <1>9

\* and when one of its queries is long: the decode portion ends before it.
LEMMA LongStep ==
  ASSUME Setup, ~ MaxQ <= Threshold
  PROVE  /\ pad = 0 /\ NumDecodes \in 0 .. N - 1
         /\ QLens[NumDecodes + 1] > Threshold
         /\ NumTokens = Sum(QLens, N) /\ NumDecodeTokens = Sum(QLens, NumDecodes)
         /\ NumDecodeTokens < NumTokens
<1>1. PICK q : q = QLens
  OBVIOUS
<1>2. pad = 0
  BY PaddedStep
<1>3. /\ N \in Nat \ {0} /\ Requests = 1 .. N /\ Len(q) = N
      /\ \A b \in 1 .. N : q[b] = batch[b].qlen /\ q[b] \in Nat /\ q[b] > 0
  BY <1>1, <1>2, BatchShape
<1>4. MaxQ \in Nat /\ Threshold \in Nat /\ \E b \in 1 .. N : q[b] = MaxQ
  BY <1>1, MaxQIs, ThresholdIs
<1> DEFINE S == {b \in Requests : batch[b].qlen > Threshold}
<1>5. S # {} /\ S \subseteq Nat
  BY <1>3, <1>4
<1>6. PICK f \in S : \A b \in S : f <= b
  <2> HIDE DEF S
  <2> QED BY <1>5, LeastNat
<1>7. Min(S) \in S
  <2> HIDE DEF S
  <2> QED BY <1>6 DEF Min
<1>8. NumDecodes = Min(S) - 1
  BY DEF NumDecodes
<1>9. PICK d \in 0 .. N - 1 : d = NumDecodes /\ q[d + 1] > Threshold
  <2>1. Min(S) \in 1 .. N /\ q[Min(S)] > Threshold
    BY <1>3, <1>7
  <2>2. PICK e : e = Min(S)
    OBVIOUS
  <2>3. e - 1 \in 0 .. N - 1 /\ e - 1 + 1 = e
    BY <1>3, <2>1, <2>2
  <2> QED BY <1>8, <2>1, <2>2, <2>3
<1>10. NumTokens = Sum(q, N)
  BY <1>1, <1>2, <1>3 DEF NumTokens, Total
<1>11. NumDecodeTokens = Sum(q, d)
  <2>1. NumDecodeTokens = Sum(SubSeq(q, 1, d), Len(SubSeq(q, 1, d)))
    BY <1>1, <1>9 DEF NumDecodeTokens, Total
  <2>2. q = [b \in 1 .. N |-> q[b]]
    BY <1>1, <1>2, BatchShape
  <2>3. q \in Seq(Nat)
    <3>1. q \in [1 .. N -> Nat]
      BY <1>3, <2>2
    <3> QED BY <1>3, <3>1
  <2>4. Len(SubSeq(q, 1, d)) = d /\ \A i \in 1 .. d : SubSeq(q, 1, d)[i] = q[i]
    BY <1>3, <2>3
  <2>5. PICK r : r = SubSeq(q, 1, d)
    OBVIOUS
  <2>6. d \in Nat /\ \A i \in 1 .. d : q[i] \in Nat /\ r[i] = q[i]
    BY <1>3, <2>4, <2>5
  <2>7. Sum(r, d) = Sum(q, d)
    BY <2>6, SumSame
  <2> QED BY <2>1, <2>4, <2>5, <2>7
<1>12. Sum(q, d) < Sum(q, N)
  <2>1. d + 1 \in 1 .. N /\ d \in 0 .. N /\ N \in 0 .. N /\ d + 1 \in 0 .. N
        /\ d + 1 - 1 = d /\ d + 1 <= N
    BY <1>3
  <2>2. PICK e : e = d + 1
    OBVIOUS
  <2>3. Sum(q, e) = Sum(q, e - 1) + q[e] /\ Sum(q, d) \in Nat /\ Sum(q, N) \in Nat
        /\ Sum(q, e) \in Nat
    BY <1>3, <2>1, <2>2, SumIs
  <2>4. Sum(q, e) <= Sum(q, N)
    BY <1>3, <2>1, <2>2, SumMonotone
  <2>5. q[e] > 0 /\ e - 1 = d /\ q[e] \in Nat
    BY <1>3, <2>1, <2>2
  <2> QED BY <2>3, <2>4, <2>5
<1> QED BY <1>1, <1>2, <1>9, <1>10, <1>11, <1>12

-----------------------------------------------------------------------------
(* The decode portion.                                                     *)

\* The context row j of request b sees.
LenOf(b, j) == IF causal THEN SeqLens[b] - QLens[b] + j ELSE SeqLens[b]

LEMMA LenIsNat ==
  ASSUME Setup, NEW b \in 1 .. N + pad, NEW j \in 1 .. QLens[b]
  PROVE  LenOf(b, j) \in Nat
<1>1. QLens[b] \in Nat /\ SeqLens[b] \in Nat /\ QLens[b] <= SeqLens[b]
  BY BatchShape
<1> QED BY <1>1 DEF LenOf

LEMMA DueIs ==
  ASSUME Setup, NEW b \in 1 .. N, NEW j \in 1 .. QLens[b]
  PROVE  Due(b, j) = WindowStart(LenOf(b, j)) .. LenOf(b, j) - 1
<1>1. /\ QLens[b] = batch[b].qlen /\ QLens[b] \in Nat /\ batch[b].cached \in Nat
      /\ SeqLens[b] = batch[b].cached + QLens[b]
  BY BatchShape
<1>2. LenOf(b, j) = IF causal THEN batch[b].cached + j ELSE SeqLen(batch[b])
  BY <1>1 DEF LenOf, SeqLen
<1> QED BY <1>2 DEF Due

\* The plan has a row per query token, of its request and length, and rows of
\* length 0 behind them.
LEMMA PlanIs ==
  ASSUME Setup, NumDecodes \in 0 .. N + pad, NumDecodeTokens \in Nat,
         Sum(QLens, NumDecodes) <= NumDecodeTokens
  PROVE  /\ Plan = [t \in 1 .. NumDecodeTokens |-> Plan[t]] /\ Len(Plan) = NumDecodeTokens
         /\ \A b \in 1 .. NumDecodes : \A j \in 1 .. QLens[b] :
              /\ Sum(QLens, b - 1) + j \in 1 .. Sum(QLens, NumDecodes)
              /\ Plan[Sum(QLens, b - 1) + j].req = b
              /\ Plan[Sum(QLens, b - 1) + j].len = LenOf(b, j)
         /\ \A t \in 1 .. NumDecodeTokens : t > Sum(QLens, NumDecodes) =>
              Plan[t].req = 1 /\ Plan[t].len = 0
<1>1. PICK q : q = QLens
  OBVIOUS
<1>2. PICK d \in 0 .. N + pad : d = NumDecodes
  OBVIOUS
<1>3. PICK n \in Nat : n = NumDecodeTokens
  OBVIOUS
<1>4. N + pad \in Nat /\ \A b \in 1 .. N + pad : q[b] \in Nat
  BY <1>1, BatchShape
<1>5. d \in Nat /\ \A b \in 1 .. d : b \in 1 .. N + pad /\ q[b] \in Nat
  BY <1>4
<1> DEFINE Item(b, j) == [req |-> b, len |-> IF causal THEN SeqLens[b] - q[b] + j ELSE SeqLens[b]]
           f == [b \in 1 .. d |-> [j \in 1 .. q[b] |-> Item(b, j)]]
<1>6. FlatPlan = FlattenSeq(f)
  BY <1>1, <1>2 DEF FlatPlan, PlanOf
<1>7. \A b \in 1 .. d : \A j \in 1 .. q[b] : f[b][j] = Item(b, j)
  OBVIOUS
<1>8. \A b, j : Item(b, j).req = b /\ Item(b, j).len = LenOf(b, j)
  BY <1>1 DEF LenOf
<1>9. Lists(f, q, d)
  BY <1>5, <1>7 DEF Lists
<1> HIDE DEF f, Item
<1>10. PICK flat : flat = FlatPlan
  OBVIOUS
<1>11. PICK m \in Nat : m = Sum(q, d)
  <2>1. d \in 0 .. d
    BY <1>5
  <2> QED BY <1>5, <2>1, SumIs
<1>12. /\ flat = [t \in 1 .. m |-> flat[t]] /\ Len(flat) = m
       /\ \A b \in 1 .. d : \A j \in 1 .. q[b] : flat[Sum(q, b - 1) + j] = Item(b, j)
  BY <1>5, <1>6, <1>7, <1>9, <1>10, <1>11, FlattenIs
<1>13. m <= n
  BY <1>1, <1>2, <1>3, <1>11
<1>14. PICK zeros : zeros = [i \in 1 .. n - m |-> [req |-> 1, len |-> 0]]
  OBVIOUS
<1>15. PICK plan : plan = flat \o zeros
  OBVIOUS
<1>16. Plan = plan
  BY <1>3, <1>10, <1>12, <1>14, <1>15 DEF Plan
<1>17. /\ plan = [t \in 1 .. n |-> plan[t]] /\ Len(plan) = n
       /\ \A t \in 1 .. m : plan[t] = flat[t]
       /\ \A t \in m + 1 .. n : plan[t] = [req |-> 1, len |-> 0]
  <2>1. PICK k \in Nat : k = n - m
    BY <1>13
  <2> DEFINE R == {flat[t] : t \in 1 .. m} \cup {[req |-> 1, len |-> 0]}
  <2>2. \A t \in 1 .. m : flat[t] \in R
    OBVIOUS
  <2>3. [req |-> 1, len |-> 0] \in R
    OBVIOUS
  <2> HIDE DEF R
  <2>4. flat \in [1 .. m -> R]
    BY <1>12, <2>2
  <2>5. flat \in Seq(R)
    BY <2>4
  <2>6. zeros \in [1 .. k -> R]
    BY <1>14, <2>1, <2>3
  <2>7. zeros \in Seq(R) /\ DOMAIN zeros = 1 .. k
    BY <2>6
  <2>8. Len(zeros) = k
    BY <2>1, <2>7, LenProperties
  <2>9. /\ plan \in Seq(R) /\ Len(plan) = m + k
        /\ \A i \in 1 .. m + k : plan[i] = IF i <= m THEN flat[i] ELSE zeros[i - m]
    <3>1. /\ flat \o zeros \in Seq(R) /\ Len(flat \o zeros) = Len(flat) + Len(zeros)
          /\ \A i \in 1 .. Len(flat) + Len(zeros) :
               (flat \o zeros)[i] = IF i <= Len(flat) THEN flat[i] ELSE zeros[i - Len(flat)]
      BY <2>5, <2>7, ConcatProperties, Zenon
    <3>2. Len(flat) = m
      BY <1>12
    <3> QED BY <1>15, <2>8, <3>1, <3>2, Zenon
  <2>10. m + k = n
    BY <2>1
  <2>11. plan = [t \in 1 .. n |-> plan[t]]
    BY <2>9, <2>10, LenProperties
  <2>12. \A t \in 1 .. m : plan[t] = flat[t]
    BY <1>13, <2>9, <2>10
  <2>13. ASSUME NEW t \in m + 1 .. n PROVE plan[t] = [req |-> 1, len |-> 0]
    <3>1. t \in 1 .. m + k /\ ~ t <= m /\ t - m \in 1 .. k
      BY <2>10
    <3>2. zeros[t - m] = [req |-> 1, len |-> 0]
      BY <1>14, <2>1, <3>1
    <3> QED BY <2>9, <3>1, <3>2
  <2> QED BY <2>9, <2>10, <2>11, <2>12, <2>13
<1>18. ASSUME NEW b \in 1 .. d, NEW j \in 1 .. q[b]
       PROVE  Sum(q, b - 1) + j \in 1 .. m
  <2>1. b - 1 \in 0 .. d /\ b \in 0 .. d /\ d \in 0 .. d /\ b <= d /\ b \in 1 .. d
    BY <1>5
  <2>2. Sum(q, b) = Sum(q, b - 1) + q[b] /\ Sum(q, b - 1) \in Nat /\ Sum(q, b) \in Nat
    BY <1>5, <2>1, SumIs
  <2>3. Sum(q, b) <= Sum(q, d)
    BY <1>5, <2>1, SumMonotone
  <2>4. q[b] \in Nat
    BY <1>5
  <2> QED BY <1>11, <2>2, <2>3, <2>4
<1>19. \A b \in 1 .. d : \A j \in 1 .. q[b] : plan[Sum(q, b - 1) + j] = Item(b, j)
  BY <1>12, <1>17, <1>18
<1>20. ASSUME NEW t \in 1 .. n, t > m PROVE plan[t].req = 1 /\ plan[t].len = 0
  <2>1. t \in m + 1 .. n
    BY <1>20
  <2>2. plan[t] = [req |-> 1, len |-> 0]
    BY <1>17, <2>1
  <2> QED BY <2>2
<1>21. ASSUME NEW b \in 1 .. d, NEW j \in 1 .. q[b]
       PROVE  /\ Sum(q, b - 1) + j \in 1 .. Sum(q, d)
              /\ plan[Sum(q, b - 1) + j].req = b
              /\ plan[Sum(q, b - 1) + j].len = LenOf(b, j)
  BY <1>8, <1>11, <1>18, <1>19
<1>22. plan = [t \in 1 .. n |-> plan[t]] /\ Len(plan) = n
  BY <1>17
<1>23. \A t \in 1 .. n : t > Sum(q, d) => plan[t].req = 1 /\ plan[t].len = 0
  BY <1>11, <1>20
<1> QED BY <1>1, <1>2, <1>3, <1>16, <1>21, <1>22, <1>23, Zenon

\* The requests before the first d have their rows, at their places; the rows
\* behind the last place are empty.
Planned(rows, d, n) ==
  /\ rows = [t \in 1 .. n |-> rows[t]]
  /\ \A b \in 1 .. d : \A j \in 1 .. QLens[b] :
       Exact(rows[Sum(QLens, b - 1) + j], b, WindowStart(LenOf(b, j)), LenOf(b, j))
  /\ \A t \in 1 .. n : t > Sum(QLens, d) => rows[t] = {}

\* kvarn_verify_attention over the plan build() made.
LEMMA VerifyRows ==
  ASSUME Setup, NumDecodes \in 1 .. N + pad, NumDecodeTokens \in Nat,
         Sum(QLens, NumDecodes) <= NumDecodeTokens,
         pad # 0 => NumDecodes = N + 1 /\ NumDecodeTokens = Sum(QLens, N) + MaxQ,
         pad = 0 => NumDecodeTokens = Sum(QLens, NumDecodes),
         NEW p, NEW v, NEW m, NEW to \in NumDecodes .. N + pad,
         NEW reqs, reqs = Slice(1, to, p, v, m).reqs
  PROVE  Planned(VerifyAttention(reqs, Plan, UniformQLen), NumDecodes, NumDecodeTokens)
<1>1. PICK d \in 1 .. N + pad : d = NumDecodes
  OBVIOUS
<1>2. PICK n \in Nat : n = NumDecodeTokens
  OBVIOUS
<1>3. PICK plan : plan = Plan
  OBVIOUS
<1>4. PICK rows : rows = VerifyAttention(reqs, plan, UniformQLen)
  OBVIOUS
<1>5. N \in Nat \ {0} /\ N + pad \in Nat /\ cfg \in Config /\ d \in 0 .. N + pad
  BY BatchShape
<1>6. /\ plan = [t \in 1 .. n |-> plan[t]] /\ Len(plan) = n
      /\ \A b \in 1 .. d : \A j \in 1 .. QLens[b] :
           /\ Sum(QLens, b - 1) + j \in 1 .. Sum(QLens, d)
           /\ plan[Sum(QLens, b - 1) + j].req = b
           /\ plan[Sum(QLens, b - 1) + j].len = LenOf(b, j)
      /\ \A t \in 1 .. n : t > Sum(QLens, d) => plan[t].req = 1 /\ plan[t].len = 0
  BY <1>1, <1>2, <1>3, <1>5, PlanIs
<1>7. DOMAIN plan = 1 .. n
  BY <1>6
<1>8. \A i \in 1 .. d : reqs[i].id = i
  <2>1. 0 \in 0 .. N + pad /\ to \in 0 .. N + pad /\ 0 + 1 = 1
    BY <1>1, <1>5
  <2>2. \A i \in 1 .. to - 0 : reqs[i].id = 0 + i
    BY <2>1, PartIs
  <2>3. \A i \in 1 .. d : i \in 1 .. to - 0 /\ 0 + i = i
    BY <1>1, <1>5
  <2> QED BY <2>2, <2>3
<1>9. rows = [t \in 1 .. n |-> rows[t]]
  BY <1>4, <1>7, Zenon DEF VerifyAttention
<1>10. \A b \in 1 .. d : b \in 1 .. N + pad
  BY <1>5
<1>11. Sum(QLens, d) <= n
  BY <1>1, <1>2
<1>12. \A b \in 1 .. d : QLens[b] \in Nat
  BY <1>10, BatchShape
<1>13. Sum(QLens, d) \in Nat
  BY <1>5, SumsAre
<1>14. ASSUME ~ SharedVerify(plan, UniformQLen)
       PROVE  /\ \A b \in 1 .. d : \A j \in 1 .. QLens[b] :
                   Exact(rows[Sum(QLens, b - 1) + j], b, WindowStart(LenOf(b, j)), LenOf(b, j))
              /\ \A t \in 1 .. n : t > Sum(QLens, d) => rows[t] = {}
  <2>1. ASSUME NEW b \in 1 .. d, NEW j \in 1 .. QLens[b]
        PROVE  Exact(rows[Sum(QLens, b - 1) + j], b, WindowStart(LenOf(b, j)), LenOf(b, j))
    <3>1. PICK t : t = Sum(QLens, b - 1) + j
      OBVIOUS
    <3>2. t \in DOMAIN plan /\ plan[t].req = b /\ plan[t].len = LenOf(b, j)
      <4>1. t \in 1 .. Sum(QLens, d) /\ plan[t].req = b /\ plan[t].len = LenOf(b, j)
        BY <1>6, <3>1
      <4> QED BY <1>7, <1>11, <1>13, <4>1
    <3>3. LenOf(b, j) \in Nat
      BY <1>10, LenIsNat
    <3>4. Exact(rows[t], reqs[plan[t].req].id, WindowStart(plan[t].len), plan[t].len)
      BY <1>4, <1>5, <1>14, <3>2, <3>3, PlannedRows
    <3> QED BY <1>8, <3>1, <3>2, <3>4
  <2>2. ASSUME NEW t \in 1 .. n, t > Sum(QLens, d) PROVE rows[t] = {}
    <3>1. plan[t].req = 1 /\ plan[t].len = 0 /\ t \in DOMAIN plan
      BY <1>6, <1>7, <2>2
    <3>2. Exact(rows[t], reqs[plan[t].req].id, WindowStart(plan[t].len), plan[t].len)
      BY <1>4, <1>5, <1>14, <3>1, PlannedRows
    <3>3. WindowStart(0) \in Nat
      BY <1>5, WindowIsNat
    <3> QED BY <3>1, <3>2, <3>3, NothingIsEmpty
  <2> QED BY <2>1, <2>2
<1>15. ASSUME SharedVerify(plan, UniformQLen)
       PROVE  /\ \A b \in 1 .. d : \A j \in 1 .. QLens[b] :
                   Exact(rows[Sum(QLens, b - 1) + j], b, WindowStart(LenOf(b, j)), LenOf(b, j))
              /\ \A t \in 1 .. n : t > Sum(QLens, d) => rows[t] = {}
  <2>1. PICK u : u = UniformQLen
    OBVIOUS
  <2>2. u = QLens[1] /\ causal /\ u \in Nat /\ u >= 2
        /\ \A b \in 1 .. d : QLens[b] = u \/ (pad > 0 /\ QLens[b] = 0)
    <3>1. 1 \in 1 .. N + pad /\ QLens[1] \in Nat
      BY <1>5, BatchShape
    <3>2. u >= 2
      BY <1>15, <2>1 DEF SharedVerify
    <3>3. u # 0
      BY <3>2
    <3> QED BY <1>1, <2>1, <3>1, <3>2, <3>3 DEF UniformQLen
  \* The real requests of the decode portion all have u tokens.
  <2>3. PICK e \in 1 .. d : /\ e <= N /\ (pad = 0 => e = d) /\ (pad # 0 => e = N /\ d = N + 1)
    <3>1. CASE pad = 0
      BY <1>1, <1>5, <3>1
    <3>2. CASE pad # 0
      <4>1. d = N + 1 /\ N \in 1 .. d
        BY <1>1, <1>5, <3>2
      <4> QED BY <1>5, <3>2, <4>1
    <3> QED BY <3>1, <3>2
  <2>4. \A b \in 1 .. e : b \in 1 .. d /\ b \in 1 .. N /\ QLens[b] = u
    <3>1. \A b \in 1 .. e : b \in 1 .. d /\ b \in 1 .. N
      BY <2>3, <1>5
    <3>2. \A b \in 1 .. N : QLens[b] > 0
      BY BatchShape
    <3> QED BY <2>2, <3>1, <3>2
  <2>5. \A b \in 0 .. e : Sum(QLens, b) = b * u
    <3>1. PICK q : q = QLens
      OBVIOUS
    <3>2. e \in Nat /\ \A i \in 1 .. e : q[i] \in Nat /\ q[i] = u
      BY <1>5, <2>2, <2>4, <3>1
    <3>3. ASSUME NEW b \in 0 .. e PROVE Sum(q, b) = b * u
      <4>1. 0 \in 0 .. e /\ 0 <= b
        BY <3>2
      <4>2. \A i \in 0 + 1 .. b : u <= q[i] /\ q[i] <= u
        BY <2>2, <3>2
      <4>3. Sum(q, 0) + (b - 0) * u <= Sum(q, b) /\ Sum(q, b) <= Sum(q, 0) + (b - 0) * u
        BY <2>2, <3>2, <4>1, <4>2, SumBounds
      <4>4. Sum(q, 0) = 0 /\ Sum(q, b) \in Nat
        BY <3>2, SumIs
      <4>5. PICK x \in Nat : x = b * u
        BY <2>2, <3>2
      <4>6. (b - 0) * u = x
        BY <4>5
      <4> QED BY <4>3, <4>4, <4>5, <4>6
    <3> QED BY <3>1, <3>3
  <2>6. \A b \in 1 .. e : \A j \in 1 .. u : LenOf(b, j) = SeqLens[b] - u + j
    BY <2>2, <2>4 DEF LenOf
  \* A row of a real request.
  <2>7. ASSUME NEW b \in 1 .. e, NEW j \in 1 .. u
        PROVE  Exact(rows[Sum(QLens, b - 1) + j], b, WindowStart(LenOf(b, j)), LenOf(b, j))
    <3>1. PICK a \in 0 .. e : a = b - 1
      OBVIOUS
    <3>2. Sum(QLens, b - 1) = a * u /\ (b - 1) * u = a * u
      BY <2>5, <3>1
    <3>3. b * u = a * u + u /\ a * u \in Nat
      BY <2>2, <3>1
    <3>4. PICK x \in Nat : x = a * u
      BY <3>3
    <3>5. (b - 1) * u + j = x + j /\ Sum(QLens, b - 1) + j = x + j /\ b * u = x + u
      BY <3>2, <3>3, <3>4
    <3>6. x + j \in DOMAIN plan
      <4>1. x + j \in 1 .. Sum(QLens, d)
        BY <1>6, <2>4, <3>5
      <4> QED BY <1>7, <1>11, <1>13, <4>1
    <3>7. plan[x + u].len = SeqLens[b]
      <4>1. u \in 1 .. u /\ u \in 1 .. QLens[b] /\ b \in 1 .. d
        BY <2>2, <2>4
      <4>2. Sum(QLens, b - 1) + u = x + u
        BY <3>2, <3>4
      <4>3. plan[Sum(QLens, b - 1) + u].len = LenOf(b, u)
        BY <1>6, <4>1
      <4>4. LenOf(b, u) = SeqLens[b] - u + u
        BY <2>6, <4>1
      <4>5. SeqLens[b] \in Nat
        BY <2>4, <1>10, BatchShape
      <4>6. SeqLens[b] - u + u = SeqLens[b]
        BY <2>2, <4>5
      <4> QED BY <4>2, <4>3, <4>4, <4>6
    <3>8. SeqLens[b] \in Nat /\ u <= SeqLens[b]
      BY <2>4, <1>10, BatchShape
    <3>9. PICK len \in Nat : len = SeqLens[b]
      BY <3>8
    <3>10. len = plan[b * u].len /\ (b - 1) * u + j \in DOMAIN plan /\ b \in Nat \ {0}
      BY <3>5, <3>6, <3>7, <3>9
    <3>11. u <= len =>
             Exact(VerifyAttention(reqs, plan, u)[(b - 1) * u + j], reqs[b].id,
                   WindowStart(len - u + j), len - u + j)
      BY <1>5, <1>15, <2>1, <2>2, <3>10, SharedRows
    <3>12. Exact(rows[x + j], b, WindowStart(len - u + j), len - u + j)
      BY <1>4, <1>8, <2>1, <2>4, <3>5, <3>8, <3>9, <3>11
    <3> QED BY <2>6, <3>5, <3>9, <3>12
  \* The rows behind them.
  <2>8. ASSUME NEW t \in 1 .. n, t > Sum(QLens, d) PROVE rows[t] = {}
    <3>1. pad # 0
      BY <1>1, <1>2, <1>13, <2>8
    <3>2. e = N /\ d = N + 1 /\ MaxQ = u /\ n = Sum(QLens, N) + MaxQ
      <4>1. e = N /\ d = N + 1 /\ n = Sum(QLens, N) + MaxQ
        BY <1>1, <1>2, <2>3, <3>1
      <4>2. QLens[1] = MaxQ
        <5>1. 1 \in 1 .. N
          BY <1>5
        <5> QED BY <3>1, <5>1, PaddedStep
      <4> QED BY <2>2, <4>1, <4>2
    <3>3. Sum(QLens, N) = N * u /\ Sum(QLens, d) = N * u
      <4>1. N \in 0 .. e
        BY <1>5, <3>2
      <4>2. Sum(QLens, N + 1) = N * MaxQ
        BY <3>1, PaddedStep
      <4> QED BY <2>5, <3>2, <4>1, <4>2
    <3>4. PICK x \in Nat : x = N * u
      BY <1>5, <2>2
    <3>5. PICK j \in 1 .. u : t = x + j
      <4>1. t > x /\ t <= x + u
        BY <3>2, <3>3, <3>4, <2>8
      <4>2. t - x \in 1 .. u /\ t = x + (t - x)
        BY <2>2, <4>1
      <4> QED BY <4>2
    <3>6. (d - 1) * u + j = t /\ d * u = x + u
      <4>1. d - 1 = N
        BY <1>5, <3>2
      <4>2. (N + 1) * u = N * u + u
        BY <1>5, <2>2
      <4> QED BY <3>2, <3>4, <3>5, <4>1, <4>2
    <3>7. plan[d * u].len = 0
      <4>1. x + u \in 1 .. n /\ x + u > Sum(QLens, d)
        BY <2>2, <3>2, <3>3, <3>4
      <4> QED BY <1>6, <3>6, <4>1
    <3>8. t \in DOMAIN plan /\ d \in Nat \ {0}
      BY <1>5, <1>7
    <3>9. (d - 1) * u + j \in DOMAIN plan
      BY <3>6, <3>8
    <3>10. VerifyAttention(reqs, plan, u)[(d - 1) * u + j] = {}
      <4>1. PICK len \in Nat : len = 0
        OBVIOUS
      <4>2. len = plan[d * u].len
        BY <3>7, <4>1
      <4>3. SharedVerify(plan, u)
        BY <1>15, <2>1
      <4> QED BY <1>5, <2>2, <3>8, <3>9, <4>1, <4>2, <4>3, SharedRows
    <3> QED BY <1>4, <2>1, <3>6, <3>10
  <2>9. ASSUME NEW b \in 1 .. d, NEW j \in 1 .. QLens[b] PROVE b \in 1 .. e /\ j \in 1 .. u
    <3>1. CASE b \in 1 .. e
      BY <2>4, <3>1
    <3>2. CASE b \notin 1 .. e
      <4>1. pad # 0 /\ b = N + 1
        BY <1>5, <2>3, <3>2
      <4>2. QLens[b] = 0
        BY <4>1, PaddedStep
      <4> QED BY <4>2
    <3> QED BY <3>1, <3>2
  <2> QED BY <2>7, <2>8, <2>9
<1>16. Planned(rows, d, n)
  BY <1>9, <1>14, <1>15 DEF Planned
<1> QED BY <1>1, <1>2, <1>3, <1>4, <1>16

LEMMA ExactRowIsDue ==
  ASSUME Setup, NEW b \in 1 .. N, NEW j \in 1 .. QLens[b], NEW S,
         Exact(S, b, WindowStart(LenOf(b, j)), LenOf(b, j))
  PROVE  DueReads(S, b, j)
<1>1. b \in 1 .. N + pad /\ cfg \in Config
  BY BatchShape
<1>2. LenOf(b, j) \in Nat
  BY <1>1, LenIsNat
<1>3. WindowStart(LenOf(b, j)) \in Nat
  BY <1>1, <1>2, WindowIsNat
<1> QED BY <1>2, <1>3, DueIs, ExactIsDue

\* Windows are known to the kernels, and to FlashAttention not at all.
KnowsWindow == cfg.window = 0 \/ cfg.fused_decode

\* The rows of the first d requests, where the path knows the window and has
\* room for what it packs, and nothing behind them.
Portion(rows, d, n) ==
  /\ rows = [t \in 1 .. n |-> rows[t]]
  /\ KnowsWindow /\ ~ Overruns => \A b \in 1 .. d : b <= N =>
       \A j \in 1 .. QLens[b] : DueReads(rows[Sum(QLens, b - 1) + j], b, j)
  /\ \A t \in 1 .. n : t > Sum(QLens, d) => rows[t] = {}

LEMMA PlannedPortion ==
  ASSUME Setup, NEW rows, NEW d \in 0 .. N + pad, NEW n, Planned(rows, d, n)
  PROVE  Portion(rows, d, n)
<1>1. ASSUME NEW b \in 1 .. d, b <= N, NEW j \in 1 .. QLens[b]
      PROVE  DueReads(rows[Sum(QLens, b - 1) + j], b, j)
  <2>1. b \in 1 .. N
    BY <1>1, BatchShape
  <2>2. Exact(rows[Sum(QLens, b - 1) + j], b, WindowStart(LenOf(b, j)), LenOf(b, j))
    BY DEF Planned
  <2> QED BY <2>1, <2>2, ExactRowIsDue
<1> QED BY <1>1 DEF Planned, Portion

\* kvarn_decode_attention over requests of one token each.
LEMMA SingleRows ==
  ASSUME Setup, NEW d \in 0 .. N + pad, \A b \in 1 .. d : b <= N => QLens[b] = 1,
         NEW p, NEW v, NEW m, NEW reqs, reqs = Slice(1, d, p, v, m).reqs,
         md.plan = <<>>, reqs = Decodes.reqs
  PROVE  /\ Portion(DecodeAttention(reqs), d, d)
         /\ \A b \in 0 .. d : b <= N => Sum(QLens, b) = b
<1>1. PICK rows : rows = DecodeAttention(reqs)
  OBVIOUS
<1>2. cfg \in Config /\ N \in Nat \ {0} /\ N + pad \in Nat
  BY BatchShape
<1>3. /\ d \in Nat /\ IsSlice(reqs, d)
      /\ \A i \in 1 .. d : reqs[i].id = i /\ reqs[i].seq = SeqLens[i] /\ i \in 1 .. N + pad
  <2>1. 0 \in 0 .. N + pad /\ d \in 0 .. N + pad /\ 0 + 1 = 1 /\ d - 0 = d
        /\ \A i \in 1 .. d : 0 + i = i
    BY <1>2
  <2> QED BY <2>1, PartIs
<1>4. /\ rows = [b \in 1 .. d |-> rows[b]]
      /\ ~ Overruns => \A b \in 1 .. d :
           Exact(rows[b], b, IF cfg.fused_decode THEN WindowStart(SeqLens[b]) ELSE 0, SeqLens[b])
      /\ \A b \in 1 .. d : SeqLens[b] = 0 => rows[b] = {}
  <2>1. ~ Overruns => cfg.fused_decode \/ FitsScratch(reqs)
    BY DEF Overruns, FitsScratch
  <2> QED BY <1>1, <1>2, <1>3, <2>1, DecodeRows
<1>5. \A b \in 0 .. d : b <= N => Sum(QLens, b) = b
  <2>1. PICK q : q = QLens
    OBVIOUS
  <2>2. ASSUME NEW b \in 0 .. d, b <= N PROVE Sum(q, b) = b
    <3>1. b \in Nat /\ \A i \in 1 .. b : q[i] \in Nat /\ q[i] = 1
      BY <1>2, <2>1, <2>2
    <3>2. 0 \in 0 .. b /\ b \in 0 .. b /\ 0 <= b /\ 1 \in Nat
      BY <3>1
    <3>3. \A i \in 0 + 1 .. b : 1 <= q[i] /\ q[i] <= 1
      BY <3>1
    <3>4. Sum(q, 0) + (b - 0) * 1 <= Sum(q, b) /\ Sum(q, b) <= Sum(q, 0) + (b - 0) * 1
      BY <3>1, <3>2, <3>3, SumBounds
    <3>5. Sum(q, 0) = 0 /\ Sum(q, b) \in Nat
      BY <3>1, <3>2, SumIs
    <3> QED BY <3>1, <3>4, <3>5
  <2> QED BY <2>1, <2>2
<1>6. ASSUME KnowsWindow, ~ Overruns, NEW b \in 1 .. d, b <= N, NEW j \in 1 .. QLens[b]
      PROVE  DueReads(rows[Sum(QLens, b - 1) + j], b, j)
  <2>1. b \in 1 .. N /\ QLens[b] = 1 /\ j = 1 /\ b \in 1 .. N + pad
    BY <1>2, <1>6
  <2>2. b - 1 \in 0 .. d /\ b - 1 <= N
    BY <1>2, <1>6
  <2>3. PICK a : a = b - 1
    OBVIOUS
  <2>4. Sum(QLens, a) = a
    BY <1>5, <2>2, <2>3
  <2>5. Sum(QLens, b - 1) + j = b
    BY <2>1, <2>3, <2>4
  <2>6. SeqLens[b] \in Nat
    BY <2>1, BatchShape
  <2>7. LenOf(b, j) = SeqLens[b]
    BY <2>1, <2>6 DEF LenOf
  <2>8. cfg.window = 0 => WindowStart(SeqLens[b]) = 0
    BY DEF WindowStart
  <2>9. Exact(rows[b], b, WindowStart(SeqLens[b]), SeqLens[b])
    BY <1>4, <1>6, <2>8 DEF KnowsWindow
  <2> QED BY <2>1, <2>5, <2>7, <2>9, ExactRowIsDue
<1>7. ASSUME NEW t \in 1 .. d, t > Sum(QLens, d) PROVE rows[t] = {}
  <2>1. t > N
    <3>1. CASE d <= N
      <4>1. Sum(QLens, d) = d
        BY <1>3, <1>5, <3>1
      <4> QED BY <1>7, <4>1
    <3>2. CASE ~ d <= N
      <4>1. N \in 0 .. d /\ N <= N /\ N \in 0 .. N + pad /\ N <= d
        BY <1>2, <3>2
      <4>2. Sum(QLens, N) = N
        BY <1>5, <4>1
      <4>3. Sum(QLens, N) <= Sum(QLens, d) /\ Sum(QLens, d) \in Nat
        BY <4>1, SumsAre
      <4> QED BY <1>2, <1>7, <4>2, <4>3
    <3> QED BY <3>1, <3>2
  <2>2. SeqLens[t] = 0
    <3>1. t \in N + 1 .. N + pad
      BY <1>2, <2>1
    <3> QED BY <3>1, BatchShape
  <2> QED BY <1>4, <1>7, <2>2
<1>8. Portion(rows, d, d)
  BY <1>4, <1>6, <1>7 DEF Portion
<1> QED BY <1>1, <1>5, <1>8

-----------------------------------------------------------------------------
(* The prefill portion.                                                    *)

\* Its first request is long, so that none behind it continues with one token:
\* what is not cached at all attends to its own chunk.
LEMMA NothingCached ==
  ASSUME Setup, ~ MaxQ <= Threshold, ~ HasCachedMultiquery, NEW b \in NumDecodes + 1 .. N
  PROVE  batch[b].cached = 0
<1>1. PICK e : e = NumDecodes + 1
  OBVIOUS
<1>2. e \in 1 .. N /\ QLens[e] > Threshold /\ Threshold \in Nat \ {0}
  BY <1>1, LongStep, ThresholdIs, BatchShape
<1>3. b \in 1 .. N /\ e <= b
  BY <1>1, LongStep, BatchShape
<1>4. Requests = 1 .. N /\ QLens[e] = batch[e].qlen /\ QLens[b] = batch[b].qlen
      /\ QLens[e] \in Nat /\ QLens[b] \in Nat /\ QLens[b] > 0 /\ batch[b].cached \in Nat
  <2>1. b \in 1 .. N + pad /\ e \in 1 .. N + pad
    BY <1>2, <1>3, BatchShape
  <2> QED BY <1>2, <1>3, <2>1, BatchShape
<1>5. CASE batch[b].qlen > 1
  BY <1>3, <1>4, <1>5 DEF HasCachedMultiquery
<1>6. CASE ~ batch[b].qlen > 1
  <2>1. batch[b].qlen = 1 /\ batch[e].qlen # 1 /\ e # b
    BY <1>2, <1>4, <1>6
  <2>2. e < b
    BY <1>2, <1>3, <2>1
  <2>3. ~ (batch[b].qlen = 1 /\ batch[b].cached > 0)
    BY <1>2, <1>3, <1>4, <2>1, <2>2 DEF Setup, Ordered, Requests
  <2> QED BY <1>4, <2>1, <2>3
<1> QED BY <1>5, <1>6

\* The block a step writes last has its slot.
LEMMA LastBlockIsResident ==
  ASSUME Setup, NEW b \in 1 .. N
  PROVE  <<b, (SeqLens[b] - 1) \div G>> \in resident
<1>1. /\ batch[b].cached \in Nat /\ QLens[b] \in Nat /\ QLens[b] > 0 /\ QLens[b] = batch[b].qlen
      /\ SeqLens[b] = batch[b].cached + QLens[b] /\ Requests = 1 .. N
  BY BatchShape
<1>2. PICK len \in Nat : len = SeqLens[b] - 1 /\ batch[b].cached <= len
  <2>1. PICK c \in Nat, q \in Nat : c = batch[b].cached /\ q = QLens[b]
    BY <1>1
  <2>2. SeqLens[b] = c + q /\ q > 0
    BY <1>1, <2>1
  <2>3. c + q - 1 \in Nat /\ c <= c + q - 1
    BY <2>1, <2>2
  <2> QED BY <2>1, <2>2, <2>3
<1>3. PICK k \in Nat, o \in Nat : k = len \div G /\ o = batch[b].cached \div G
  BY <1>1, <1>2, DivIs, GroupsAreWhole
<1>4. o <= k
  BY <1>1, <1>2, <1>3, DivMonotone, GroupsAreWhole
<1>5. k \in batch[b].cached \div G .. (SeqLen(batch[b]) - 1) \div G
  BY <1>1, <1>2, <1>3, <1>4 DEF SeqLen
<1>6. <<b, k>> \in WrittenBlocks(batch)
  BY <1>1, <1>5 DEF WrittenBlocks, Requests
<1> QED BY <1>2, <1>3, <1>6 DEF Setup

\* _prefill_first_chunk.
LEMMA FirstChunkRows ==
  ASSUME NEW reqs, NEW n \in Nat, IsSlice(reqs, n)
  PROVE  /\ FirstChunk(reqs) = [t \in 1 .. Sum(QLenOf(reqs), n) |-> FirstChunk(reqs)[t]]
         /\ \A b \in 1 .. n : \A j \in 1 .. reqs[b].qlen :
              FirstChunk(reqs)[Sum(QLenOf(reqs), b - 1) + j] =
                OwnReads(reqs[b].id, IF causal THEN j ELSE reqs[b].qlen)
<1> DEFINE f == [b \in DOMAIN reqs |-> [j \in 1 .. reqs[b].qlen |->
                   OwnReads(reqs[b].id, IF causal THEN j ELSE reqs[b].qlen)]]
<1>1. FirstChunk(reqs) = FlattenSeq(f)
  BY DEF FirstChunk, PerToken, OwnReads
<1>2. \A b \in DOMAIN reqs : \A j \in 1 .. reqs[b].qlen :
        f[b][j] = OwnReads(reqs[b].id, IF causal THEN j ELSE reqs[b].qlen)
  OBVIOUS
<1>3. IsRows(f, reqs)
  BY <1>2 DEF IsRows
<1>4. \A b \in 1 .. n : b \in DOMAIN reqs
  BY DEF IsSlice
<1> HIDE DEF f
<1> QED BY <1>1, <1>2, <1>3, <1>4, SliceRows

\* The rows of the requests behind the first d, at their places behind those.
Rest(rows, d) ==
  /\ rows = [t \in 1 .. Sum(QLens, N) - Sum(QLens, d) |-> rows[t]]
  /\ \A b \in d + 1 .. N : \A j \in 1 .. QLens[b] :
       DueReads(rows[Sum(QLens, b - 1) - Sum(QLens, d) + j], b, j)

\* The rows of a slice of n requests, each with its due.
DueSlice(rows, reqs, n) ==
  /\ rows = [t \in 1 .. Sum(QLenOf(reqs), n) |-> rows[t]]
  /\ \A i \in 1 .. n : \A j \in 1 .. reqs[i].qlen :
       DueReads(rows[Sum(QLenOf(reqs), i - 1) + j], reqs[i].id, j)

\* From the rows of a slice to those of its requests.
LEMMA RestIs ==
  ASSUME Setup, pad = 0, NEW d \in 0 .. N, NEW p, NEW v, NEW m,
         NEW reqs, reqs = Slice(d + 1, N, p, v, m).reqs,
         NEW rows, DueSlice(rows, reqs, N - d)
  PROVE  Rest(rows, d)
<1>1. N \in Nat /\ N + pad = N /\ d \in 0 .. N + pad /\ N \in d .. N + pad
  BY BatchShape
<1>2. /\ N - d \in Nat
      /\ \A i \in 1 .. N - d : reqs[i].id = d + i /\ reqs[i].qlen = QLens[d + i]
      /\ \A k \in 0 .. N - d : Sum(QLenOf(reqs), k) = Sum(QLens, d + k) - Sum(QLens, d)
  BY <1>1, PartIs
<1>3. Sum(QLenOf(reqs), N - d) = Sum(QLens, N) - Sum(QLens, d)
  <2>1. N - d \in 0 .. N - d /\ d + (N - d) = N
    BY <1>1, <1>2
  <2> QED BY <1>2, <2>1
<1>4. ASSUME NEW b \in d + 1 .. N, NEW j \in 1 .. QLens[b]
      PROVE  DueReads(rows[Sum(QLens, b - 1) - Sum(QLens, d) + j], b, j)
  <2>1. PICK i \in 1 .. N - d : d + i = b
    <3>1. b - d \in 1 .. N - d /\ d + (b - d) = b
      BY <1>1
    <3> QED BY <3>1
  <2>2. i - 1 \in 0 .. N - d /\ d + (i - 1) = b - 1
    BY <1>1, <2>1
  <2>3. PICK a : a = i - 1
    OBVIOUS
  <2>4. Sum(QLenOf(reqs), a) = Sum(QLens, d + a) - Sum(QLens, d)
    BY <1>2, <2>2, <2>3
  <2>5. Sum(QLenOf(reqs), i - 1) = Sum(QLens, b - 1) - Sum(QLens, d)
    BY <2>2, <2>3, <2>4
  <2>6. reqs[i].id = b /\ j \in 1 .. reqs[i].qlen
    BY <1>2, <2>1
  <2>7. DueReads(rows[Sum(QLenOf(reqs), i - 1) + j], reqs[i].id, j)
    BY <2>6 DEF DueSlice
  <2> QED BY <2>5, <2>6, <2>7
<1>5. rows = [t \in 1 .. Sum(QLens, N) - Sum(QLens, d) |-> rows[t]]
  BY <1>3 DEF DueSlice
<1> QED BY <1>4, <1>5 DEF Rest

\* Whether the prefill portion is causal whatever the step says.
AlwaysCausal(s) == md.cached_multiquery /\ (TakesFused(s) \/ TakesSlow(s))

LEMMA PrefillLength ==
  ASSUME Setup, pad = 0, NEW s, NEW d \in 0 .. N, NEW p, NEW v, NEW m,
         s = Slice(d + 1, N, p, v, m)
  PROVE  PrefillPortion(s) =
           [t \in 1 .. Sum(QLens, N) - Sum(QLens, d) |-> PrefillPortion(s)[t]]
<1>1. N \in Nat /\ N + pad = N /\ d \in 0 .. N + pad /\ N \in d .. N + pad /\ cfg \in Config
      /\ causal \in BOOLEAN
  BY BatchShape DEF Setup
<1>2. PICK reqs : reqs = s.reqs
  OBVIOUS
<1>3. /\ N - d \in Nat /\ IsSlice(reqs, N - d)
      /\ \A i \in 1 .. N - d : reqs[i].id = d + i /\ reqs[i].seq = SeqLens[d + i]
      /\ \A k \in 0 .. N - d : Sum(QLenOf(reqs), k) = Sum(QLens, d + k) - Sum(QLens, d)
  BY <1>1, <1>2, PartIs
<1>4. PICK len : len = Sum(QLens, N) - Sum(QLens, d)
  OBVIOUS
<1>5. Sum(QLenOf(reqs), N - d) = len
  <2>1. N - d \in 0 .. N - d /\ d + (N - d) = N
    BY <1>1, <1>3
  <2> QED BY <1>3, <1>4, <2>1
<1>6. FusedVerify(reqs) = [t \in 1 .. len |-> FusedVerify(reqs)[t]]
  BY <1>1, <1>3, <1>5, FusedRows
<1>7. SlowPath(reqs) = [t \in 1 .. len |-> SlowPath(reqs)[t]]
  <2>1. ASSUME NEW i \in 1 .. N - d PROVE <<reqs[i].id, (reqs[i].seq - 1) \div G>> \in resident
    <3>1. PICK b \in 1 .. N : b = d + i
      BY <1>1
    <3> QED BY <1>3, <3>1, LastBlockIsResident
  <2> QED BY <1>1, <1>3, <1>5, <2>1, SlowRows
<1>8. FlashRows(reqs) = [t \in 1 .. len |-> FlashRows(reqs)[t]]
  BY <1>1, <1>3, <1>5, FlashRowsAre
<1>9. FirstChunk(reqs) = [t \in 1 .. len |-> FirstChunk(reqs)[t]]
  BY <1>3, <1>5, FirstChunkRows
<1>10. \/ PrefillPortion(s) = FusedVerify(reqs) \/ PrefillPortion(s) = SlowPath(reqs)
       \/ PrefillPortion(s) = FlashRows(reqs) \/ PrefillPortion(s) = FirstChunk(reqs)
  <2>1. CASE ~ md.cached_multiquery
    BY <1>2, <2>1 DEF PrefillPortion
  <2>2. CASE md.cached_multiquery /\ TakesFused(s)
    BY <1>2, <2>2 DEF PrefillPortion, CachedMultiquery
  <2>3. CASE md.cached_multiquery /\ ~ TakesFused(s) /\ TakesSlow(s)
    BY <1>2, <2>3 DEF PrefillPortion, CachedMultiquery
  <2>4. CASE md.cached_multiquery /\ ~ TakesFused(s) /\ ~ TakesSlow(s)
    BY <1>2, <2>4 DEF PrefillPortion, CachedMultiquery, FlashRows
  <2> QED BY <2>1, <2>2, <2>3, <2>4
<1> QED BY <1>4, <1>6, <1>7, <1>8, <1>9, <1>10

\* Without a window, and causal where the path is, each row gets its due.
LEMMA PrefillRows ==
  ASSUME Setup, ~ MaxQ <= Threshold, md.cached_multiquery = HasCachedMultiquery,
         cfg.window = 0, NEW s, NEW p, NEW v, NEW m, s = Slice(NumDecodes + 1, N, p, v, m),
         causal \/ ~ AlwaysCausal(s)
  PROVE  Rest(PrefillPortion(s), NumDecodes)
<1>1. PICK d \in 0 .. N : d = NumDecodes
  <2>1. NumDecodes \in 0 .. N
    BY LongStep, BatchShape
  <2> QED BY <2>1
<1>2. N \in Nat /\ N + pad = N /\ d \in 0 .. N + pad /\ N \in d .. N + pad /\ cfg \in Config
      /\ causal \in BOOLEAN /\ pad = 0
  BY LongStep, BatchShape DEF Setup
<1>3. PICK reqs : reqs = s.reqs
  OBVIOUS
<1>0. reqs = Slice(d + 1, N, p, v, m).reqs
  BY <1>1, <1>3
<1>4. /\ N - d \in Nat /\ IsSlice(reqs, N - d)
      /\ \A i \in 1 .. N - d : /\ reqs[i].id = d + i /\ reqs[i].qlen = QLens[d + i]
                               /\ reqs[i].seq = SeqLens[d + i]
  <2>1. PICK to \in d .. N + pad : to = N
    BY <1>2
  <2>2. reqs = Slice(d + 1, to, p, v, m).reqs
    BY <1>0, <2>1
  <2>3. /\ to - d \in Nat /\ IsSlice(reqs, to - d)
        /\ \A i \in 1 .. to - d : /\ reqs[i].id = d + i /\ reqs[i].qlen = QLens[d + i]
                                  /\ reqs[i].seq = SeqLens[d + i]
    BY <1>2, <2>2, PartIs
  <2> QED BY <2>1, <2>3
<1>5. \A i \in 1 .. N - d : d + i \in 1 .. N /\ d + i \in d + 1 .. N /\ d + i \in 1 .. N + pad
  BY <1>2
<1>6. \A len : WindowStart(len) = 0
  BY DEF WindowStart
<1>7. \A i \in 1 .. N - d : \A j \in 1 .. reqs[i].qlen :
        /\ j \in 1 .. QLens[d + i] /\ QLens[d + i] \in Nat /\ SeqLens[d + i] \in Nat
        /\ LenOf(d + i, j) = IF causal THEN reqs[i].seq - reqs[i].qlen + j ELSE reqs[i].seq
  <2>1. ASSUME NEW i \in 1 .. N - d, NEW j \in 1 .. reqs[i].qlen
        PROVE  /\ j \in 1 .. QLens[d + i] /\ QLens[d + i] \in Nat /\ SeqLens[d + i] \in Nat
               /\ LenOf(d + i, j) = IF causal THEN reqs[i].seq - reqs[i].qlen + j ELSE reqs[i].seq
    <3>1. QLens[d + i] \in Nat /\ SeqLens[d + i] \in Nat
      BY <1>5, BatchShape
    <3> QED BY <1>4, <3>1 DEF LenOf
  <2> QED BY <2>1
\* Rows that end at the row's limit are due ones.
<1>8. ASSUME NEW i \in 1 .. N - d, NEW j \in 1 .. reqs[i].qlen, NEW S,
             Exact(S, reqs[i].id, 0, LenOf(d + i, j))
      PROVE  DueReads(S, reqs[i].id, j)
  <2>1. Exact(S, d + i, WindowStart(LenOf(d + i, j)), LenOf(d + i, j))
    BY <1>4, <1>6, <1>8
  <2>2. PICK b \in 1 .. N : b = d + i
    BY <1>5
  <2>3. j \in 1 .. QLens[b] /\ Exact(S, b, WindowStart(LenOf(b, j)), LenOf(b, j))
    BY <1>7, <2>1, <2>2
  <2> QED BY <1>4, <2>2, <2>3, ExactRowIsDue
<1>9. CASE ~ md.cached_multiquery
  <2>1. PrefillPortion(s) = FirstChunk(reqs)
    BY <1>3, <1>9 DEF PrefillPortion
  <2>2. ASSUME NEW i \in 1 .. N - d, NEW j \in 1 .. reqs[i].qlen
        PROVE  DueReads(FirstChunk(reqs)[Sum(QLenOf(reqs), i - 1) + j], reqs[i].id, j)
    <3>1. PICK b \in 1 .. N : b = d + i /\ b \in NumDecodes + 1 .. N
      BY <1>1, <1>5
    <3>2. batch[b].cached = 0
      BY <1>9, <3>1, NothingCached
    <3>3. SeqLens[b] = batch[b].cached + QLens[b] /\ QLens[b] \in Nat
      BY <1>2, BatchShape
    <3>4. PICK to \in Nat : to = (IF causal THEN j ELSE reqs[i].qlen) /\ to = LenOf(b, j)
      BY <1>4, <1>7, <3>1, <3>2, <3>3
    <3>5. Due(b, j) = 0 .. to - 1
      <4>1. j \in 1 .. QLens[b]
        BY <1>7, <3>1
      <4> QED BY <1>6, <3>4, <4>1, DueIs
    <3>6. DueReads(OwnReads(b, to), b, j)
      BY <3>2, <3>5, OwnIsDue
    <3>7. FirstChunk(reqs)[Sum(QLenOf(reqs), i - 1) + j] = OwnReads(reqs[i].id, to)
      BY <1>4, <3>4, FirstChunkRows
    <3> QED BY <1>4, <3>1, <3>6, <3>7
  <2>3. FirstChunk(reqs) = [t \in 1 .. Sum(QLenOf(reqs), N - d) |-> FirstChunk(reqs)[t]]
    BY <1>4, FirstChunkRows
  <2>4. DueSlice(FirstChunk(reqs), reqs, N - d)
    BY <2>2, <2>3 DEF DueSlice
  <2>5. Rest(FirstChunk(reqs), d)
    BY <1>0, <1>2, <2>4, RestIs
  <2> QED BY <1>1, <2>1, <2>5
<1>10. CASE md.cached_multiquery /\ TakesFused(s)
  <2>1. PrefillPortion(s) = FusedVerify(reqs) /\ causal
    BY <1>3, <1>10 DEF PrefillPortion, CachedMultiquery, AlwaysCausal
  <2>2. ASSUME NEW i \in 1 .. N - d, NEW j \in 1 .. reqs[i].qlen
        PROVE  DueReads(FusedVerify(reqs)[Sum(QLenOf(reqs), i - 1) + j], reqs[i].id, j)
    <3>1. Exact(FusedVerify(reqs)[Sum(QLenOf(reqs), i - 1) + j], reqs[i].id,
                WindowStart(reqs[i].seq - reqs[i].qlen + j), reqs[i].seq - reqs[i].qlen + j)
      BY <1>2, <1>4, FusedRows
    <3> QED BY <1>6, <1>7, <1>8, <2>1, <3>1
  <2>3. FusedVerify(reqs) = [t \in 1 .. Sum(QLenOf(reqs), N - d) |-> FusedVerify(reqs)[t]]
    BY <1>2, <1>4, FusedRows
  <2>4. DueSlice(FusedVerify(reqs), reqs, N - d)
    BY <2>2, <2>3 DEF DueSlice
  <2>5. Rest(FusedVerify(reqs), d)
    BY <1>0, <1>2, <2>4, RestIs
  <2> QED BY <1>1, <2>1, <2>5
<1>11. CASE md.cached_multiquery /\ ~ TakesFused(s) /\ TakesSlow(s)
  <2>1. PrefillPortion(s) = SlowPath(reqs) /\ causal
    BY <1>3, <1>11 DEF PrefillPortion, CachedMultiquery, AlwaysCausal
  <2>2. /\ SlowPath(reqs) = [t \in 1 .. Sum(QLenOf(reqs), N - d) |-> SlowPath(reqs)[t]]
        /\ \A i \in 1 .. N - d : \A j \in 1 .. reqs[i].qlen :
             Exact(SlowPath(reqs)[Sum(QLenOf(reqs), i - 1) + j], reqs[i].id, 0,
                   reqs[i].seq - reqs[i].qlen + j)
    <3>1. ASSUME NEW i \in 1 .. N - d PROVE <<reqs[i].id, (reqs[i].seq - 1) \div G>> \in resident
      <4>1. PICK b \in 1 .. N : b = d + i
        BY <1>5
      <4> QED BY <1>4, <4>1, LastBlockIsResident
    <3> QED BY <1>2, <1>4, <3>1, SlowRows
  <2>3. PICK rows : rows = SlowPath(reqs)
    OBVIOUS
  <2>4. ASSUME NEW i \in 1 .. N - d, NEW j \in 1 .. reqs[i].qlen
        PROVE  DueReads(rows[Sum(QLenOf(reqs), i - 1) + j], reqs[i].id, j)
    BY <1>7, <1>8, <2>1, <2>2, <2>3
  <2>5. DueSlice(rows, reqs, N - d)
    BY <2>2, <2>3, <2>4 DEF DueSlice
  <2>6. Rest(rows, d)
    BY <1>0, <1>2, <2>5, RestIs
  <2> QED BY <1>1, <2>1, <2>3, <2>6
<1>12. CASE md.cached_multiquery /\ ~ TakesFused(s) /\ ~ TakesSlow(s)
  <2>1. PrefillPortion(s) = FlashRows(reqs)
    BY <1>3, <1>12 DEF PrefillPortion, CachedMultiquery, FlashRows
  <2>2. /\ FlashRows(reqs) = [t \in 1 .. Sum(QLenOf(reqs), N - d) |-> FlashRows(reqs)[t]]
        /\ \A i \in 1 .. N - d : \A j \in 1 .. reqs[i].qlen :
             Exact(FlashRows(reqs)[Sum(QLenOf(reqs), i - 1) + j], reqs[i].id, 0,
                   IF causal THEN reqs[i].seq - reqs[i].qlen + j ELSE reqs[i].seq)
    <3>1. FitsScratch(reqs)
      BY <1>3, <1>12 DEF TakesSlow, FitsScratch
    <3> QED BY <1>2, <1>4, <3>1, FlashRowsAre
  <2>3. PICK rows : rows = FlashRows(reqs)
    OBVIOUS
  <2>4. ASSUME NEW i \in 1 .. N - d, NEW j \in 1 .. reqs[i].qlen
        PROVE  DueReads(rows[Sum(QLenOf(reqs), i - 1) + j], reqs[i].id, j)
    BY <1>7, <1>8, <2>2, <2>3
  <2>5. DueSlice(rows, reqs, N - d)
    BY <2>2, <2>3, <2>4 DEF DueSlice
  <2>6. Rest(rows, d)
    BY <1>0, <1>2, <2>5, RestIs
  <2> QED BY <1>1, <2>1, <2>3, <2>6
<1> QED BY <1>9, <1>10, <1>11, <1>12

-----------------------------------------------------------------------------
(* The routes.                                                             *)

\* What Build writes, from then on.
MdInv ==
  md = <<>> \/ md = IF NumDecodes > 0 /\ NumDecodeTokens > NumDecodes
                    THEN Metadata(Plan, UniformQLen) ELSE Metadata(<<>>, 0)

HasPlan == NumDecodes > 0 /\ NumDecodeTokens > NumDecodes

LEMMA MdIs ==
  ASSUME MdInv, md # <<>>
  PROVE  /\ md.num_decodes = NumDecodes /\ md.decode_tokens = NumDecodeTokens
         /\ md.tokens = NumTokens /\ md.is_prefill = (MaxQ > 1)
         /\ md.cached_multiquery = HasCachedMultiquery
         /\ HasPlan => md.plan = Plan /\ md.vqlen = UniformQLen
         /\ ~ HasPlan => md.plan = <<>>
<1>1. md = IF HasPlan THEN Metadata(Plan, UniformQLen) ELSE Metadata(<<>>, 0)
  BY DEF MdInv, HasPlan
<1>2. CASE HasPlan
  <2>1. md = Metadata(Plan, UniformQLen)
    BY <1>1, <1>2
  <2> QED BY <1>2, <2>1 DEF Metadata
<1>3. CASE ~ HasPlan
  <2>1. md = Metadata(<<>>, 0)
    BY <1>1, <1>3
  <2> QED BY <1>3, <2>1 DEF Metadata
<1> QED BY <1>2, <1>3

\* Windowed and Diagonal, of a route about to be taken.
WindowedFor(name) ==
  cfg.window > 0 /\ (~cfg.fused_decode \/ name \in {"prefill", "mixed"})
DiagonalFor(name) ==
  ~causal /\ name \in {"prefill", "mixed"} /\ AlwaysCausal(Prefills)

\* Both properties, of the rows a route is about to write.
Serves(name, rows) ==
  /\ ~WindowedFor(name) /\ ~DiagonalFor(name) /\ ~Overruns =>
       \A b \in 1 .. N : \A j \in 1 .. QLens[b] :
         DueReads(rows[Sum(QLens, b - 1) + j], b, j)
  /\ \A t \in DOMAIN rows : t > Sum(QLens, N) => rows[t] = {}

LEMMA SumAll ==
  ASSUME Setup
  PROVE  Sum(QLens, N + pad) = Sum(QLens, N)
<1>1. N \in Nat
  BY BatchShape
<1>2. CASE pad = 0
  BY <1>1, <1>2
<1>3. CASE pad # 0
  <2>1. pad = 1 /\ Sum(QLens, N + 1) = N * MaxQ /\ N \in 0 .. N
        /\ \A b \in 0 .. N : Sum(QLens, b) = b * MaxQ
    BY <1>1, <1>3, PaddedStep
  <2> QED BY <2>1
<1> QED BY <1>2, <1>3

LEMMA PortionServes ==
  ASSUME Setup, NEW name, name \notin {"prefill", "mixed"}, NEW rows, NEW n,
         Portion(rows, N + pad, n)
  PROVE  Serves(name, rows)
<1>1. N \in Nat /\ \A b \in 1 .. N : b \in 1 .. N + pad /\ b <= N
  BY BatchShape
<1>2. ~WindowedFor(name) => KnowsWindow
  <2>1. cfg.window \in Nat
    BY BatchShape DEF Config
  <2> QED BY <2>1 DEF WindowedFor, KnowsWindow
<1>3. DOMAIN rows = 1 .. n
  BY DEF Portion
<1>4. \A t \in DOMAIN rows : t > Sum(QLens, N) => rows[t] = {}
  BY <1>3, SumAll DEF Portion
<1> QED BY <1>1, <1>2, <1>4 DEF Portion, Serves

\* Requests with as few tokens as there are of them have one each.
LEMMA AllOnes ==
  ASSUME Setup, NEW d \in 0 .. N, Sum(QLens, d) <= d, NEW b \in 1 .. d
  PROVE  QLens[b] = 1
<1>1. PICK q : q = QLens
  OBVIOUS
<1>2. N \in Nat /\ d \in Nat /\ \A i \in 1 .. d : q[i] \in Nat /\ 1 <= q[i]
  <2>1. \A i \in 1 .. N : i \in 1 .. N + pad /\ QLens[i] > 0
    BY BatchShape
  <2>2. \A i \in 1 .. N + pad : QLens[i] \in Nat
    BY BatchShape
  <2>3. N \in Nat
    BY BatchShape
  <2> QED BY <1>1, <2>1, <2>2, <2>3
<1>3. PICK a \in 0 .. d : a = b - 1
  BY <1>2
<1>4. 0 \in 0 .. d /\ 0 <= a /\ b \in 0 .. d /\ d \in 0 .. d /\ b <= d
  BY <1>2
<1>5. PICK hi \in Nat : \A i \in 1 .. d : q[i] <= hi
  <2>1. MaxQ \in Nat /\ \A i \in 1 .. N : q[i] <= MaxQ
    BY <1>1, MaxQIs
  <2> QED BY <1>2, <2>1
<1>6. Sum(q, 0) + (a - 0) * 1 <= Sum(q, a)
  <2>1. \A i \in 0 + 1 .. a : 1 <= q[i] /\ q[i] <= hi
    BY <1>2, <1>5
  <2> QED BY <1>2, <1>4, <2>1, SumBounds
<1>7. Sum(q, b) + (d - b) * 1 <= Sum(q, d)
  <2>1. \A i \in b + 1 .. d : 1 <= q[i] /\ q[i] <= hi
    BY <1>2, <1>5
  <2> QED BY <1>2, <1>4, <2>1, SumBounds
<1>8. /\ Sum(q, 0) = 0 /\ Sum(q, a) \in Nat /\ Sum(q, b) \in Nat /\ Sum(q, d) \in Nat
      /\ Sum(q, b) = Sum(q, b - 1) + q[b]
  BY <1>2, <1>4, SumIs
<1>9. Sum(q, b) = Sum(q, a) + q[b]
  BY <1>3, <1>8
<1>10. Sum(q, d) <= d
  BY <1>1
<1>11. q[b] \in Nat /\ 1 <= q[b]
  BY <1>2
<1>12. PICK x \in Nat, y \in Nat, z \in Nat, w \in Nat :
         x = Sum(q, a) /\ y = Sum(q, b) /\ z = Sum(q, d) /\ w = q[b]
  BY <1>8, <1>11
<1>13. a <= x /\ y + (d - b) <= z /\ y = x + w /\ z <= d /\ 1 <= w
  BY <1>2, <1>3, <1>6, <1>7, <1>8, <1>9, <1>10, <1>11, <1>12
<1>14. w = 1
  BY <1>2, <1>3, <1>12, <1>13
<1> QED BY <1>1, <1>12, <1>14

\* One sequence behind another.
IsList(s, n) == s = [t \in 1 .. n |-> s[t]]

Behind(x, s, u, m, k) ==
  /\ DOMAIN x = 1 .. m + k
  /\ \A t \in 1 .. m : x[t] = s[t]
  /\ \A t \in 1 .. k : x[m + t] = u[t]

LEMMA ConcatIs ==
  ASSUME NEW s, NEW u, NEW m \in Nat, NEW k \in Nat, IsList(s, m), IsList(u, k),
         NEW x, x = s \o u
  PROVE  Behind(x, s, u, m, k)
<1> DEFINE R == {s[t] : t \in 1 .. m} \cup {u[t] : t \in 1 .. k}
<1>1. (\A t \in 1 .. m : s[t] \in R) /\ (\A t \in 1 .. k : u[t] \in R)
  OBVIOUS
<1> HIDE DEF R
<1>2. s \in [1 .. m -> R] /\ u \in [1 .. k -> R]
  BY <1>1 DEF IsList
<1>3. s \in Seq(R) /\ u \in Seq(R) /\ DOMAIN s = 1 .. m /\ DOMAIN u = 1 .. k
  BY <1>2
<1>4. Len(s) = m /\ Len(u) = k
  BY <1>3, LenProperties
<1>6. /\ x \in Seq(R) /\ Len(x) = m + k
      /\ \A i \in 1 .. m + k : x[i] = IF i <= m THEN s[i] ELSE u[i - m]
  BY <1>3, <1>4, ConcatProperties, Zenon
<1>7. DOMAIN x = 1 .. m + k
  BY <1>6, LenProperties
<1>8. \A t \in 1 .. m : x[t] = s[t]
  BY <1>6
<1>9. ASSUME NEW t \in 1 .. k PROVE x[m + t] = u[t]
  <2>1. PICK i : i = m + t
    OBVIOUS
  <2>2. i \in 1 .. m + k /\ ~ i <= m /\ i - m = t
    BY <2>1
  <2>3. x[i] = u[i - m]
    BY <1>6, <2>2
  <2> QED BY <2>1, <2>2, <2>3
<1> QED BY <1>7, <1>8, <1>9 DEF Behind

\* A step of one token per request is all decode, and has no verify plan.
LEMMA NoPlanForOnes ==
  ASSUME Setup, ~ MaxQ > 1
  PROVE  NumDecodes = N + pad /\ ~ HasPlan
<1>1. N \in Nat \ {0} /\ N + pad \in Nat /\ Len(QLens) = N + pad
  BY BatchShape
<1>2. MaxQ \in Nat /\ MaxQ <= 1 /\ MaxQ <= Threshold
  BY MaxQIs, ThresholdIs
<1>3. NumDecodes = N + pad
  BY <1>1, <1>2 DEF NumDecodes
<1>4. \A b \in 1 .. N : QLens[b] = 1
  <2>1. ASSUME NEW b \in 1 .. N PROVE QLens[b] = 1
    <3>1. b \in 1 .. N + pad
      BY <1>1, BatchShape
    <3>2. QLens[b] <= MaxQ /\ QLens[b] > 0 /\ QLens[b] \in Nat
      BY <3>1, MaxQIs, BatchShape
    <3> QED BY <1>2, <3>2
  <2> QED BY <2>1
<1>5. NumDecodeTokens = N + pad
  <2>1. CASE pad = 0
    <3>1. NumDecodeTokens = Sum(QLens, N)
      BY <1>2, <2>1, ShortStep
    <3>2. PICK q : q = QLens
      OBVIOUS
    <3>3. \A i \in 1 .. N : q[i] \in Nat /\ 1 <= q[i] /\ q[i] <= 1
      BY <1>4, <3>2
    <3>4. 0 \in 0 .. N /\ N \in 0 .. N /\ 0 <= N /\ 1 \in Nat /\ N \in Nat
          /\ 0 + 1 .. N = 1 .. N
      BY <1>1
    <3>5. Sum(q, 0) + (N - 0) * 1 <= Sum(q, N) /\ Sum(q, N) <= Sum(q, 0) + (N - 0) * 1
      BY <3>3, <3>4, SumBounds
    <3>6. Sum(q, 0) = 0 /\ Sum(q, N) \in Nat
      BY <3>3, <3>4, SumIs
    <3> QED BY <1>1, <2>1, <3>1, <3>2, <3>5, <3>6
  <2>2. CASE pad # 0
    <3>1. pad = 1 /\ NumDecodeTokens = (N + 1) * MaxQ /\ \A b \in 1 .. N : QLens[b] = MaxQ
      BY <2>2, PaddedStep
    <3>2. 1 \in 1 .. N
      BY <1>1
    <3>3. MaxQ = 1
      BY <1>4, <3>1, <3>2
    <3> QED BY <1>1, <3>1, <3>3
  <2> QED BY <2>1, <2>2
<1> QED BY <1>1, <1>3, <1>5 DEF HasPlan

LEMMA DecodeServes ==
  ASSUME Setup, MdInv, md # <<>>, ~ md.is_prefill
  PROVE  Serves("decode", DecodeAttention(All.reqs))
<1>1. N \in Nat \ {0} /\ N + pad \in Nat /\ Len(QLens) = N + pad
  BY BatchShape
<1>2. ~ MaxQ > 1 /\ MaxQ \in Nat
  BY MdIs, MaxQIs
<1>3. ASSUME NEW b \in 1 .. N + pad, b <= N PROVE QLens[b] = 1
  <2>1. b \in 1 .. N
    BY <1>1, <1>3
  <2>2. QLens[b] <= MaxQ /\ QLens[b] > 0 /\ QLens[b] \in Nat
    BY <2>1, MaxQIs, BatchShape
  <2> QED BY <1>2, <2>2
<1>4. PICK reqs : reqs = Slice(1, N + pad, md.plan, md.vqlen, MaxQ).reqs
  OBVIOUS
<1>5. All.reqs = reqs
  BY <1>1, <1>4 DEF All
<1>6. N + pad \in 0 .. N + pad
  BY <1>1
<1>7. Portion(DecodeAttention(reqs), N + pad, N + pad)
  <2>1. md.plan = <<>> /\ md.num_decodes = N + pad
    BY <1>2, NoPlanForOnes, MdIs
  <2>2. reqs = Decodes.reqs
    BY <1>4, <2>1 DEF Decodes, Slice
  <2> QED BY <1>3, <1>4, <1>6, <2>1, <2>2, SingleRows
<1>8. "decode" \notin {"prefill", "mixed"}
  OBVIOUS
<1> QED BY <1>5, <1>7, <1>8, PortionServes

\* A plan that covers the step is one of short queries.
LEMMA VerifyServes ==
  ASSUME Setup, MdInv, md # <<>>, PureVerify
  PROVE  Serves("verify", VerifyAttention(All.reqs, md.plan, md.vqlen))
<1>1. N \in Nat \ {0} /\ N + pad \in Nat /\ Len(QLens) = N + pad
  BY BatchShape
<1>2. HasPlan /\ md.plan = Plan /\ md.vqlen = UniformQLen
  BY MdIs DEF PureVerify
<1>3. NumDecodeTokens = NumTokens
  BY MdIs DEF PureVerify
<1>4. Sum(QLens, N) \in Nat /\ MaxQ \in Nat
  <2>1. N \in 0 .. N + pad
    BY <1>1, BatchShape
  <2> QED BY <2>1, SumsAre, MaxQIs
<1>5. MaxQ <= Threshold
  <2>1. SUFFICES ASSUME ~ MaxQ <= Threshold PROVE FALSE
    OBVIOUS
  <2>2. NumDecodeTokens < NumTokens /\ NumTokens \in Nat
    BY <1>4, <2>1, LongStep
  <2> QED BY <1>3, <2>2
<1>6. NumDecodes = N + pad
  BY <1>1, <1>5 DEF NumDecodes
<1>7. /\ pad = 0 => NumDecodeTokens = Sum(QLens, NumDecodes)
      /\ pad # 0 => NumDecodes = N + 1 /\ NumDecodeTokens = Sum(QLens, N) + MaxQ
      /\ NumDecodeTokens \in Nat /\ Sum(QLens, NumDecodes) <= NumDecodeTokens
  <2>1. CASE pad = 0
    <3>1. NumDecodeTokens = Sum(QLens, N) /\ NumDecodes = N
      BY <1>5, <2>1, ShortStep
    <3> QED BY <1>4, <2>1, <3>1
  <2>2. CASE pad # 0
    <3>1. /\ NumDecodes = N + 1 /\ NumDecodeTokens = (N + 1) * MaxQ
          /\ (N + 1) * MaxQ = N * MaxQ + MaxQ /\ Sum(QLens, N + 1) = N * MaxQ
          /\ N * MaxQ \in Nat
      BY <2>2, PaddedStep
    <3>2. Sum(QLens, N) = N * MaxQ
      <4>1. N \in 0 .. N
        BY <1>1
      <4> QED BY <2>2, <4>1, PaddedStep
    <3>3. PICK x \in Nat : x = N * MaxQ
      BY <3>1
    <3> QED BY <1>4, <2>2, <3>1, <3>2, <3>3
  <2> QED BY <2>1, <2>2
<1>8. PICK reqs : reqs = Slice(1, N + pad, md.plan, md.vqlen, MaxQ).reqs
  OBVIOUS
<1>9. All.reqs = reqs
  BY <1>1, <1>8 DEF All
<1>10. NumDecodes \in 1 .. N + pad /\ N + pad \in NumDecodes .. N + pad
       /\ NumDecodes \in 0 .. N + pad
  <2>1. pad \in {0, 1}
    BY DEF Setup
  <2> QED BY <1>1, <1>6, <2>1
<1>11. Planned(VerifyAttention(reqs, Plan, UniformQLen), NumDecodes, NumDecodeTokens)
  BY <1>7, <1>8, <1>10, VerifyRows
<1>12. Portion(VerifyAttention(reqs, Plan, UniformQLen), N + pad, NumDecodeTokens)
  BY <1>6, <1>10, <1>11, PlannedPortion
<1>13. "verify" \notin {"prefill", "mixed"}
  OBVIOUS
<1> QED BY <1>2, <1>9, <1>12, <1>13, PortionServes

\* Only a step with a long query reaches the prefill route,
LEMMA PrefillServes ==
  ASSUME Setup, MdInv, md # <<>>, md.num_decodes = 0
  PROVE  Serves("prefill", PrefillPortion(All))
<1>1. N \in Nat \ {0} /\ N + pad \in Nat /\ Len(QLens) = N + pad
  BY BatchShape
<1>2. NumDecodes = 0 /\ md.cached_multiquery = HasCachedMultiquery
  BY MdIs
<1>3. ~ MaxQ <= Threshold
  <2>1. SUFFICES ASSUME MaxQ <= Threshold PROVE FALSE
    OBVIOUS
  <2>2. NumDecodes = N + pad /\ pad \in {0, 1}
    BY <1>1, <2>1 DEF NumDecodes, Setup
  <2> QED BY <1>1, <1>2, <2>2
<1>4. pad = 0 /\ N + pad = N
  BY <1>1, <1>3, LongStep
<1>5. PICK s : s = Slice(NumDecodes + 1, N, md.plan, md.vqlen, MaxQ)
  OBVIOUS
<1>6. All = s
  BY <1>1, <1>2, <1>4, <1>5 DEF All
<1>7. s = Slice(0 + 1, N, md.plan, md.vqlen, MaxQ)
  BY <1>2, <1>5
<1>8. Sum(QLens, 0) = 0 /\ Sum(QLens, N) \in Nat /\ \A b \in 0 .. N : Sum(QLens, b) \in Nat
  <2>1. N \in 0 .. N
    BY <1>1
  <2> QED BY <1>4, <2>1, SumsAre
<1>9. PrefillPortion(s) = [t \in 1 .. Sum(QLens, N) - Sum(QLens, 0) |-> PrefillPortion(s)[t]]
  <2>1. 0 \in 0 .. N
    BY <1>1
  <2> QED BY <1>4, <1>7, <2>1, PrefillLength
<1>10. DOMAIN PrefillPortion(s) = 1 .. Sum(QLens, N)
  BY <1>8, <1>9
<1>11. \A t \in DOMAIN PrefillPortion(s) : ~ t > Sum(QLens, N)
  BY <1>8, <1>10
<1>12. ASSUME ~ WindowedFor("prefill"), ~ DiagonalFor("prefill"), ~ Overruns,
              NEW b \in 1 .. N, NEW j \in 1 .. QLens[b]
       PROVE  DueReads(PrefillPortion(s)[Sum(QLens, b - 1) + j], b, j)
  <2>1. cfg.window = 0
    <3>1. cfg.window \in Nat
      BY BatchShape DEF Config
    <3> QED BY <1>12, <3>1 DEF WindowedFor
  <2>2. causal \/ ~ AlwaysCausal(s)
    <3>1. Prefills.reqs = s.reqs /\ Prefills.maxq = s.maxq
      BY <1>1, <1>2, <1>4, <1>5, MdIs DEF Prefills, Slice
    <3>2. AlwaysCausal(Prefills) <=> AlwaysCausal(s)
      BY <3>1 DEF AlwaysCausal, TakesFused, TakesSlow
    <3> QED BY <1>12, <3>2 DEF DiagonalFor
  <2>3. Rest(PrefillPortion(s), NumDecodes)
    BY <1>2, <1>3, <1>5, <2>1, <2>2, PrefillRows
  <2>4. b \in NumDecodes + 1 .. N
    BY <1>1, <1>2
  <2>5. DueReads(PrefillPortion(s)[Sum(QLens, b - 1) - Sum(QLens, NumDecodes) + j], b, j)
    BY <2>3, <2>4 DEF Rest
  <2>6. PICK a \in 0 .. N : a = b - 1
    BY <1>1
  <2>7. Sum(QLens, b - 1) - Sum(QLens, NumDecodes) + j = Sum(QLens, b - 1) + j
    <3>1. Sum(QLens, a) - 0 + j = Sum(QLens, a) + j
      BY <1>8
    <3> QED BY <1>2, <1>8, <2>6, <3>1
  <2> QED BY <2>5, <2>7
<1>13. Serves("prefill", PrefillPortion(s))
  BY <1>11, <1>12 DEF Serves
<1> QED BY <1>6, <1>13

\* or the mixed one, whose decode portion ends before it.
LEMMA MixedIsLong ==
  ASSUME Setup, MdInv, md # <<>>, md.is_prefill, ~ PureVerify
  PROVE  ~ MaxQ <= Threshold
<1>1. SUFFICES ASSUME MaxQ <= Threshold PROVE FALSE
  OBVIOUS
<1>2. N \in Nat \ {0} /\ N + pad \in Nat /\ MaxQ \in Nat /\ MaxQ > 1
  BY BatchShape, MaxQIs, MdIs
<1>3. NumDecodes > 0 /\ NumDecodes \in 0 .. N + pad /\ NumDecodeTokens > NumDecodes
      /\ NumDecodeTokens = NumTokens /\ NumDecodeTokens \in Nat
      /\ Sum(QLens, NumDecodes) <= NumDecodeTokens
  <2>1. CASE pad = 0
    <3>1. NumDecodes = N /\ NumTokens = Sum(QLens, N) /\ NumDecodeTokens = Sum(QLens, N)
      BY <1>1, <2>1, ShortStep
    <3>2. N \in 0 .. N /\ N \in 0 .. N + pad
      BY <1>2, <2>1
    <3>3. Sum(QLens, N) \in Nat
      BY <3>2, SumsAre
    <3>4. ~ Sum(QLens, N) <= N
      <4>1. SUFFICES ASSUME Sum(QLens, N) <= N PROVE FALSE
        OBVIOUS
      <4>2. \A b \in 1 .. N : QLens[b] = 1
        BY <3>2, <4>1, AllOnes
      <4>3. \E b \in 1 .. N : QLens[b] = MaxQ
        BY MaxQIs
      <4> QED BY <1>2, <4>2, <4>3
    <3> QED BY <1>2, <3>1, <3>2, <3>3, <3>4
  <2>2. CASE pad # 0
    <3>1. /\ pad = 1 /\ NumDecodes = N + 1 /\ NumTokens = (N + 1) * MaxQ
          /\ NumDecodeTokens = (N + 1) * MaxQ /\ (N + 1) * MaxQ = N * MaxQ + MaxQ
          /\ Sum(QLens, N + 1) = N * MaxQ /\ N * MaxQ \in Nat
      BY <2>2, PaddedStep
    <3>2. N <= N * MaxQ
      BY <1>2
    <3>3. PICK x \in Nat : x = N * MaxQ
      BY <3>1
    <3> QED BY <1>2, <3>1, <3>2, <3>3
  <2> QED BY <2>1, <2>2
<1>4. Len(Plan) = NumDecodeTokens
  BY <1>3, PlanIs
<1>5. Plan # <<>>
  <2>1. Plan = <<>> => Len(Plan) = 0
    OBVIOUS
  <2> QED BY <1>3, <1>4, <2>1
<1>6. md.plan = Plan /\ md.decode_tokens = md.tokens
  BY <1>3, MdIs DEF HasPlan
<1> QED BY <1>5, <1>6 DEF PureVerify

LEMMA DecodePortionIs ==
  ASSUME Setup, MdInv, md # <<>>, ~ MaxQ <= Threshold, md.num_decodes > 0
  PROVE  Portion(DecodePortion(Decodes), NumDecodes, Sum(QLens, NumDecodes))
<1>1. N \in Nat \ {0} /\ pad = 0 /\ N + pad = N /\ NumDecodes \in 0 .. N - 1
      /\ NumDecodeTokens = Sum(QLens, NumDecodes)
  BY BatchShape, LongStep
<1>2. NumDecodes \in 1 .. N + pad /\ N + pad \in NumDecodes .. N + pad
      /\ NumDecodes \in 0 .. N + pad /\ NumDecodes \in 0 .. N
      /\ NumDecodes \in NumDecodes .. N + pad
  BY <1>1, MdIs
<1>3. Sum(QLens, NumDecodes) \in Nat
  BY <1>2, SumsAre
<1>4. PICK reqs : reqs = Slice(1, NumDecodes, md.plan, md.vqlen, 1).reqs
  OBVIOUS
<1>5. Decodes.reqs = reqs /\ Decodes.plan = md.plan /\ Decodes.vqlen = md.vqlen
  BY <1>4, MdIs DEF Decodes, Slice
<1>6. CASE HasPlan
  <2>1. md.plan = Plan /\ md.vqlen = UniformQLen
    BY <1>6, MdIs
  <2>2. Len(Plan) = NumDecodeTokens
    BY <1>1, <1>2, <1>3, PlanIs
  <2>3. Plan # <<>>
    <3>1. Plan = <<>> => Len(Plan) = 0
      OBVIOUS
    <3> QED BY <1>1, <1>2, <1>3, <1>6, <2>2, <3>1 DEF HasPlan
  <2>4. DecodePortion(Decodes) = VerifyAttention(reqs, Plan, UniformQLen)
    BY <1>5, <2>1, <2>3 DEF DecodePortion
  <2>5. Planned(VerifyAttention(reqs, Plan, UniformQLen), NumDecodes, NumDecodeTokens)
    <3>1. NumDecodeTokens \in Nat /\ Sum(QLens, NumDecodes) <= NumDecodeTokens
      BY <1>1, <1>3
    <3> QED BY <1>1, <1>2, <1>4, <3>1, VerifyRows
  <2> QED BY <1>1, <1>2, <2>4, <2>5, PlannedPortion
<1>7. CASE ~ HasPlan
  <2>1. Sum(QLens, NumDecodes) <= NumDecodes
    BY <1>1, <1>2, <1>3, <1>7 DEF HasPlan
  <2>2. \A b \in 1 .. NumDecodes : b <= N => QLens[b] = 1
    BY <1>2, <2>1, AllOnes
  <2>3. md.plan = <<>>
    BY <1>7, MdIs
  <2>4. DecodePortion(Decodes) = DecodeAttention(reqs)
    BY <1>5, <2>3 DEF DecodePortion
  <2>5. /\ Portion(DecodeAttention(reqs), NumDecodes, NumDecodes)
        /\ \A b \in 0 .. NumDecodes : b <= N => Sum(QLens, b) = b
    BY <1>2, <1>4, <1>5, <2>2, <2>3, SingleRows
  <2>6. Sum(QLens, NumDecodes) = NumDecodes
    <3>1. NumDecodes \in 0 .. NumDecodes /\ NumDecodes <= N
      BY <1>1
    <3> QED BY <2>5, <3>1
  <2> QED BY <2>4, <2>5, <2>6
<1> QED BY <1>6, <1>7

LEMMA MixedServes ==
  ASSUME Setup, MdInv, md # <<>>, md.is_prefill, ~ PureVerify, md.num_decodes > 0
  PROVE  Serves("mixed", DecodePortion(Decodes) \o PrefillPortion(Prefills))
<1>1. ~ MaxQ <= Threshold
  BY MixedIsLong
<1>2. /\ N \in Nat \ {0} /\ pad = 0 /\ N + pad = N /\ Len(QLens) = N
      /\ NumDecodes \in 0 .. N - 1 /\ NumDecodes \in 0 .. N
  BY <1>1, BatchShape, LongStep
<1>3. /\ \A b \in 0 .. N : Sum(QLens, b) \in Nat
      /\ \A a, b \in 0 .. N : a <= b => Sum(QLens, a) <= Sum(QLens, b)
      /\ \A b \in 1 .. N : Sum(QLens, b) = Sum(QLens, b - 1) + QLens[b]
  BY <1>2, SumsAre
<1>4. PICK m \in Nat, k \in Nat : /\ m = Sum(QLens, NumDecodes)
                                  /\ k = Sum(QLens, N) - Sum(QLens, NumDecodes)
                                  /\ m + k = Sum(QLens, N)
  <2>1. N \in 0 .. N /\ NumDecodes \in 0 .. N /\ NumDecodes <= N
    BY <1>2
  <2>2. PICK x \in Nat, y \in Nat : x = Sum(QLens, NumDecodes) /\ y = Sum(QLens, N) /\ x <= y
    BY <1>3, <2>1
  <2>3. y - x \in Nat /\ x + (y - x) = y
    BY <2>2
  <2> QED BY <2>2, <2>3
<1>5. PICK one : one = DecodePortion(Decodes)
  OBVIOUS
<1>6. PICK two : two = PrefillPortion(Prefills)
  OBVIOUS
<1>7. PICK rows : rows = one \o two
  OBVIOUS
<1>8. Portion(one, NumDecodes, m)
  BY <1>1, <1>4, <1>5, DecodePortionIs
<1>9. PICK s : s = Slice(NumDecodes + 1, N, <<>>, 0, MaxQ)
  OBVIOUS
<1>10. Prefills = s
  BY <1>2, <1>9, MdIs DEF Prefills
<1>11. two = [t \in 1 .. Sum(QLens, N) - Sum(QLens, NumDecodes) |-> two[t]]
  BY <1>2, <1>6, <1>9, <1>10, PrefillLength
<1>12. IsList(one, m) /\ IsList(two, k)
  BY <1>4, <1>8, <1>11 DEF Portion, IsList
<1>13. /\ DOMAIN rows = 1 .. m + k
       /\ \A t \in 1 .. m : rows[t] = one[t]
       /\ \A t \in 1 .. k : rows[m + t] = two[t]
  <2>1. m \in Nat /\ k \in Nat
    BY <1>4
  <2>2. Behind(rows, one, two, m, k)
    BY <1>7, <1>12, <2>1, ConcatIs
  <2> QED BY <2>2 DEF Behind
<1>14. \A t \in DOMAIN rows : ~ t > Sum(QLens, N)
  BY <1>4, <1>13
<1>15. ASSUME ~ WindowedFor("mixed"), ~ DiagonalFor("mixed"), ~ Overruns,
              NEW b \in 1 .. N, NEW j \in 1 .. QLens[b]
       PROVE  DueReads(rows[Sum(QLens, b - 1) + j], b, j)
  <2>1. cfg.window = 0
    <3>1. cfg.window \in Nat
      BY BatchShape DEF Config
    <3> QED BY <1>15, <3>1 DEF WindowedFor
  <2>2. QLens[b] \in Nat /\ b - 1 \in 0 .. N /\ b \in 0 .. N /\ N \in 0 .. N
    <3>1. b \in 1 .. N + pad
      BY <1>2
    <3> QED BY <1>2, <3>1, BatchShape
  <2>3. PICK x \in Nat, y \in Nat : x = Sum(QLens, b - 1) /\ y = Sum(QLens, b) /\ y = x + QLens[b]
    BY <1>3, <2>2
  <2>4. CASE b <= NumDecodes
    <3>1. b \in 1 .. NumDecodes /\ b <= N
      BY <1>2, <2>4
    <3>2. DueReads(one[x + j], b, j)
      BY <1>8, <1>15, <2>1, <2>3, <3>1 DEF Portion, KnowsWindow
    <3>3. y <= m
      BY <1>2, <1>3, <1>4, <2>2, <2>3, <2>4
    <3>4. x + j \in 1 .. m
      BY <2>2, <2>3, <3>3
    <3> QED BY <1>13, <2>3, <3>2, <3>4
  <2>5. CASE ~ b <= NumDecodes
    <3>1. b \in NumDecodes + 1 .. N
      BY <1>2, <2>5
    <3>2. causal \/ ~ AlwaysCausal(s)
      BY <1>10, <1>15 DEF DiagonalFor
    <3>3. md.cached_multiquery = HasCachedMultiquery
      BY MdIs
    <3>4. Rest(two, NumDecodes)
      BY <1>1, <1>6, <1>9, <1>10, <2>1, <3>2, <3>3, PrefillRows
    <3>5. DueReads(two[x - m + j], b, j)
      BY <1>4, <2>3, <3>1, <3>4 DEF Rest
    <3>6. m <= x
      <4>1. NumDecodes <= b - 1
        BY <1>2, <3>1
      <4> QED BY <1>2, <1>3, <1>4, <2>2, <2>3, <4>1
    <3>7. y <= m + k
      <4>1. b <= N
        BY <1>2
      <4> QED BY <1>3, <1>4, <2>2, <2>3, <4>1
    <3>8. x - m + j \in 1 .. k /\ m + (x - m + j) = x + j
      <4>1. PICK e \in Nat : e = QLens[b] /\ y = x + e /\ j \in 1 .. e
        BY <2>2, <2>3
      <4> QED BY <3>6, <3>7, <4>1
    <3>9. rows[x + j] = two[x - m + j]
      BY <1>13, <3>8
    <3> QED BY <2>3, <3>5, <3>9
  <2> QED BY <2>4, <2>5
<1>16. Serves("mixed", rows)
  BY <1>14, <1>15 DEF Serves
<1> QED BY <1>5, <1>6, <1>7, <1>16

-----------------------------------------------------------------------------
(* The invariant.                                                          *)

Inv ==
  /\ Setup /\ MdInv
  /\ md = <<>> => route = ""
  /\ route # "" => Serves(route, out)

LEMMA RowsOfIs ==
  ASSUME Setup
  PROVE  /\ DOMAIN RowsOf = 1 .. Sum(QLens, N) /\ Len(RowsOf) = Sum(QLens, N)
         /\ \A b \in 1 .. N : \A j \in 1 .. QLens[b] : RowsOf[Sum(QLens, b - 1) + j] = <<b, j>>
<1>1. PICK q : q = QLens
  OBVIOUS
<1>2. N \in Nat /\ Requests = 1 .. N /\ \A b \in 1 .. N : q[b] = batch[b].qlen /\ q[b] \in Nat
  <2>1. \A b \in 1 .. N : b \in 1 .. N + pad
    BY BatchShape
  <2> QED BY <1>1, <2>1, BatchShape
<1> DEFINE f == [b \in 1 .. N |-> [j \in 1 .. q[b] |-> <<b, j>>]]
<1>3. RowsOf = FlattenSeq(f)
  BY <1>2 DEF RowsOf
<1>4. \A b \in 1 .. N : \A j \in 1 .. q[b] : f[b][j] = <<b, j>>
  OBVIOUS
<1>5. Lists(f, q, N)
  BY <1>2, <1>4 DEF Lists
<1> HIDE DEF f
<1>6. PICK rows : rows = FlattenSeq(f)
  OBVIOUS
<1>7. /\ rows = [t \in 1 .. Sum(q, N) |-> rows[t]] /\ Len(rows) = Sum(q, N)
      /\ \A b \in 1 .. N : \A j \in 1 .. q[b] : rows[Sum(q, b - 1) + j] = <<b, j>>
  BY <1>2, <1>4, <1>5, <1>6, FlattenIs
<1>8. DOMAIN rows = 1 .. Sum(q, N)
  BY <1>7
<1> QED BY <1>1, <1>3, <1>6, <1>7, <1>8

\* What the invariant says of the rows is what the properties say.
LEMMA InvServes ==
  ASSUME Inv
  PROVE  RowsAttendTheirDue /\ PaddedRowsReadNothing
<1>1. SUFFICES ASSUME route # "" PROVE RowsAttendTheirDue /\ PaddedRowsReadNothing
  BY DEF RowsAttendTheirDue, PaddedRowsReadNothing
<1>2. Setup /\ Serves(route, out)
  BY <1>1 DEF Inv
<1>3. PaddedRowsReadNothing
  BY <1>2, RowsOfIs DEF PaddedRowsReadNothing, Serves
<1>4. ASSUME ~ Windowed, ~ Diagonal, ~ Overruns, NEW t \in DOMAIN RowsOf PROVE AttendsDue(t)
  <2>1. ~ WindowedFor(route) /\ ~ DiagonalFor(route)
    BY <1>4 DEF Windowed, Diagonal, WindowedFor, DiagonalFor, AlwaysCausal
  <2>2. PICK b \in 1 .. N : \E j \in 1 .. QLens[b] : t = Sum(QLens, b - 1) + j
    <3>1. PICK q : q = QLens
      OBVIOUS
    <3>2. N \in Nat /\ \A b \in 1 .. N : q[b] \in Nat
      <4>1. N \in Nat /\ \A b \in 1 .. N : b \in 1 .. N + pad
        BY <1>2, BatchShape
      <4> QED BY <1>2, <3>1, <4>1, BatchShape
    <3>3. t \in 1 .. Sum(q, N)
      BY <1>2, <3>1, RowsOfIs
    <3>4. \E b \in 1 .. N : \E j \in 1 .. q[b] : t = Sum(q, b - 1) + j
      BY <3>2, <3>3, SumFinds
    <3> QED BY <3>1, <3>4
  <2>3. PICK j \in 1 .. QLens[b] : t = Sum(QLens, b - 1) + j
    BY <2>2
  <2>4. RowsOf[t] = <<b, j>>
    BY <1>2, <2>3, RowsOfIs
  <2>5. DueReads(out[t], b, j)
    BY <1>2, <1>4, <2>1, <2>3 DEF Serves
  <2> QED BY <2>4, <2>5 DEF AttendsDue, DueReads
<1>5. RowsAttendTheirDue
  BY <1>4 DEF RowsAttendTheirDue
<1> QED BY <1>3, <1>5

LEMMA InvInit == Init => Inv
<1>1. SUFFICES ASSUME Init PROVE Inv
  OBVIOUS
<1>2. /\ cfg \in Configs /\ batch \in Batches /\ Ordered(batch)
      /\ \A b \in DOMAIN batch : SeqLen(batch[b]) <= cfg.max_blocks * G
      /\ md = <<>> /\ route = ""
  BY <1>1 DEF Init
<1>3. pad \in {0, 1} /\ (pad = 1 => Uniform(batch, Threshold))
  <2>1. pad \in IF Uniform(batch, Threshold) THEN {0, 1} ELSE {0}
    BY <1>1 DEF Init
  <2>2. CASE Uniform(batch, Threshold)
    BY <2>1, <2>2
  <2>3. CASE ~ Uniform(batch, Threshold)
    BY <2>1, <2>3
  <2> QED BY <2>2, <2>3
<1>4. causal \in BOOLEAN
  BY <1>1 DEF Init
<1>5. WrittenBlocks(batch) \subseteq resident
  BY <1>1 DEF Init
<1>6. Setup
  BY <1>2, <1>3, <1>4, <1>5 DEF Setup
<1> QED BY <1>2, <1>6 DEF Inv, MdInv

\* What the step does not change.
Frozen == UNCHANGED <<cfg, batch, pad, causal, resident>>

LEMMA SetupFrozen ==
  ASSUME Frozen, Setup
  PROVE  Setup'
BY DEF Frozen, Setup, Ordered, SeqLen, Uniform, Threshold, WrittenBlocks

LEMMA BatchFrozen ==
  ASSUME Frozen
  PROVE  /\ QLens' = QLens /\ SeqLens' = SeqLens /\ N' = N /\ MaxQ' = MaxQ
         /\ Threshold' = Threshold
         /\ \A b, j : Due(b, j)' = Due(b, j)
         /\ \A b, i, c : Holds(b, i, c)' = Holds(b, i, c)
<1>1. /\ cfg' = cfg /\ batch' = batch /\ pad' = pad /\ causal' = causal /\ resident' = resident
  BY DEF Frozen
<1>2. QLens' = QLens /\ SeqLens' = SeqLens /\ N' = N
  BY <1>1 DEF QLens, SeqLens, SeqLen, N, Requests
<1>3. MaxQ' = MaxQ /\ Threshold' = Threshold
  BY <1>1 DEF MaxQ, Threshold, Requests
<1>4. ASSUME NEW b, NEW j PROVE Due(b, j)' = Due(b, j)
  BY <1>1 DEF Due, WindowStart, SeqLen
<1>5. ASSUME NEW b, NEW i, NEW c PROVE Holds(b, i, c)' = Holds(b, i, c)
  BY <1>1 DEF Holds, Copy
<1> QED BY <1>2, <1>3, <1>4, <1>5

LEMMA ServesFrozen ==
  ASSUME Frozen, md' = md, NEW name, NEW rows, Serves(name, rows)
  PROVE  Serves(name, rows)'
<1>1. /\ cfg' = cfg /\ batch' = batch /\ pad' = pad /\ causal' = causal /\ resident' = resident
  BY DEF Frozen
<1>2. WindowedFor(name)' = WindowedFor(name)
  BY <1>1 DEF WindowedFor
<1>3. Prefills' = Prefills
  BY <1>1, BatchFrozen DEF Prefills, Slice
<1>4. AlwaysCausal(Prefills)' = AlwaysCausal(Prefills)
  BY <1>1, <1>3 DEF AlwaysCausal, TakesFused, TakesSlow
<1>5. DiagonalFor(name)' = DiagonalFor(name)
  BY <1>1, <1>4 DEF DiagonalFor
<1>6. \A S, b, j : DueReads(S, b, j)' = DueReads(S, b, j)
  BY BatchFrozen DEF DueReads
<1>7. Overruns' = Overruns
  <2>1. Decodes' = Decodes
    BY <1>1, BatchFrozen DEF Decodes, Slice
  <2> QED BY <1>1, <2>1 DEF Overruns, PackedRows
<1>8. \A b : Sum(QLens, b)' = Sum(QLens, b)
  BY BatchFrozen
<1> QED BY <1>2, <1>5, <1>6, <1>7, <1>8, BatchFrozen DEF Serves

\* What build() makes of the step does not change either.
LEMMA MetadataFrozen ==
  ASSUME Frozen
  PROVE  /\ NumDecodes' = NumDecodes /\ NumDecodeTokens' = NumDecodeTokens
         /\ Metadata(Plan, UniformQLen)' = Metadata(Plan, UniformQLen)
         /\ Metadata(<<>>, 0)' = Metadata(<<>>, 0)
<1>1. /\ cfg' = cfg /\ batch' = batch /\ pad' = pad /\ causal' = causal /\ resident' = resident
  BY DEF Frozen
<1>2. Requests' = Requests
  BY <1>1 DEF Requests
<1>3. NumDecodes' = NumDecodes /\ NumTokens' = NumTokens
  BY <1>1, <1>2, BatchFrozen DEF NumDecodes, NumTokens
<1>4. NumDecodeTokens' = NumDecodeTokens
  BY <1>3, BatchFrozen DEF NumDecodeTokens
<1>5. FlatPlan' = FlatPlan
  BY <1>1, <1>3, BatchFrozen DEF FlatPlan, PlanOf
<1>6. Plan' = Plan /\ UniformQLen' = UniformQLen
  BY <1>1, <1>3, <1>4, <1>5, BatchFrozen DEF Plan, UniformQLen
<1>7. HasCachedMultiquery' = HasCachedMultiquery /\ MaxSeq' = MaxSeq
  BY <1>1, <1>2 DEF HasCachedMultiquery, MaxSeq, SeqLen
<1>8. /\ Metadata(Plan, UniformQLen)' = Metadata(Plan, UniformQLen)
      /\ Metadata(<<>>, 0)' = Metadata(<<>>, 0)
  BY <1>3, <1>4, <1>6, <1>7, BatchFrozen DEF Metadata
<1> QED BY <1>3, <1>4, <1>8

LEMMA PlanFrozen ==
  ASSUME Frozen, MdInv, md' = md
  PROVE  MdInv'
BY MetadataFrozen DEF MdInv

\* Taking a route that serves its rows.
LEMMA TakeKeeps ==
  ASSUME Inv, NEW name, NEW rows, Take(name, rows), Serves(name, rows)
  PROVE  Inv'
<1>1. Frozen /\ md' = md /\ md # <<>> /\ route' = name /\ out' = rows
  BY DEF Take, Frozen
<1>2. Setup' /\ MdInv'
  BY <1>1, SetupFrozen, PlanFrozen DEF Inv
<1>3. Serves(name, rows)'
  BY <1>1, ServesFrozen
<1>4. Serves(route, out)'
  BY <1>1, <1>3 DEF Serves, WindowedFor, DiagonalFor
<1> QED BY <1>1, <1>2, <1>4 DEF Inv

LEMMA InvNext == Inv /\ [Next]_vars => Inv'
<1>1. SUFFICES ASSUME Inv, [Next]_vars PROVE Inv'
  OBVIOUS
<1>2. CASE Build
  <2>1. /\ Frozen /\ md = <<>> /\ route' = route
        /\ md' = IF NumDecodes > 0 /\ NumDecodeTokens > NumDecodes
                 THEN Metadata(Plan, UniformQLen) ELSE Metadata(<<>>, 0)
    BY <1>2 DEF Build, Frozen
  <2>2. Setup' /\ route' = ""
    BY <1>1, <2>1, SetupFrozen DEF Inv
  <2>3. MdInv'
    BY <2>1, MetadataFrozen DEF MdInv
  <2> QED BY <2>2, <2>3 DEF Inv
<1>3. CASE Decode
  <2>1. Serves("decode", DecodeAttention(All.reqs))
    BY <1>1, <1>3, DecodeServes DEF Decode, Inv
  <2> QED BY <1>1, <1>3, <2>1, TakeKeeps DEF Decode
<1>4. CASE Verify
  <2>1. Serves("verify", VerifyAttention(All.reqs, md.plan, md.vqlen))
    BY <1>1, <1>4, VerifyServes DEF Verify, Inv
  <2> QED BY <1>1, <1>4, <2>1, TakeKeeps DEF Verify
<1>5. CASE Prefill
  <2>1. Serves("prefill", PrefillPortion(All))
    BY <1>1, <1>5, PrefillServes DEF Prefill, Inv
  <2> QED BY <1>1, <1>5, <2>1, TakeKeeps DEF Prefill
<1>6. CASE Mixed
  <2>1. Serves("mixed", DecodePortion(Decodes) \o PrefillPortion(Prefills))
    BY <1>1, <1>6, MixedServes DEF Mixed, Inv
  <2> QED BY <1>1, <1>6, <2>1, TakeKeeps DEF Mixed
<1>7. CASE UNCHANGED vars
  <2>1. Frozen /\ md' = md /\ route' = route /\ out' = out
    BY <1>7 DEF vars, Frozen
  <2>2. Setup' /\ MdInv'
    BY <1>1, <2>1, SetupFrozen, PlanFrozen DEF Inv
  <2>3. route # "" => Serves(route, out)'
    <3>1. SUFFICES ASSUME route # "" PROVE Serves(route, out)'
      OBVIOUS
    <3>2. PICK name, rows : name = route /\ rows = out
      OBVIOUS
    <3>3. Serves(name, rows)
      BY <1>1, <3>1, <3>2 DEF Inv
    <3>4. Serves(name, rows)'
      BY <2>1, <3>3, ServesFrozen
    <3> QED BY <2>1, <3>2, <3>4 DEF Serves, WindowedFor, DiagonalFor
  <2> QED BY <1>1, <2>1, <2>2, <2>3 DEF Inv
<1> QED BY <1>1, <1>2, <1>3, <1>4, <1>5, <1>6, <1>7 DEF Next

LEMMA InvHolds == Spec => []Inv
BY InvInit, InvNext, PTL DEF Spec

\* Each query row of a step attends exactly what it is due, once, in its own
\* request and from the copy that holds it, whichever route, kernel, split and
\* padding the step runs with, for every deployment and batch.
THEOREM RowsAreServed == Spec => []RowsAttendTheirDue
<1>1. Inv => RowsAttendTheirDue
  BY InvServes
<1> QED BY <1>1, InvHolds, PTL

\* A padded row of a replayed graph reads nothing, for every deployment and batch.
THEOREM PaddingIsQuiet == Spec => []PaddedRowsReadNothing
<1>1. Inv => PaddedRowsReadNothing
  BY InvServes
<1> QED BY <1>1, InvHolds, PTL

=============================================================================
