-------------------------- MODULE KVarNStore_proofs --------------------------
(***************************************************************************)
(* Proofs about where KVarN keeps a block: that the pool holds a slot for  *)
(* every block a step may demand and fits its budget, for every tile       *)
(* group, token budget, number of drafts and of requests; and that the     *)
(* fields of a record follow one another, none overlapping another or the  *)
(* end, for every head size, group and bit width.                          *)
(***************************************************************************)
EXTENDS KVarNBudget, KVarNTile, WellFoundedInduction, SequenceTheorems, TLAPS

-----------------------------------------------------------------------------
(* The pool.                                                               *)

LEMMA CeilBounds ==
  ASSUME NEW x \in Nat
  PROVE  /\ (x + G - 1) \div G \in Nat
         /\ x <= G * ((x + G - 1) \div G)
         /\ G * ((x + G - 1) \div G) <= x + G - 1
<1> G \in Nat \ {0}
  BY ConstantsOK
<1> QED BY Z3

\* n tokens from offset o fill at most one block less than they touch.
LEMMA TouchedBound ==
  ASSUME NEW o \in 0 .. G - 1, NEW n \in Nat \ {0}
  PROVE  Touched(o, n) \in Nat /\ G * Touched(o, n) <= o + n + G - 1
<1> DEFINE t == (o + n - 1) \div G
<1>1. G \in Nat \ {0} /\ o + n - 1 \in Nat /\ o \in Nat
  BY ConstantsOK
<1>2. t \in Nat /\ G * t <= o + n - 1
  BY <1>1, Z3
<1>3. Touched(o, n) = t + 1
  BY DEF Touched
<1> HIDE DEF t
<1>4. G * (t + 1) = G * t + G /\ G * t \in Nat
  BY <1>1, <1>2, Z3
<1> QED BY <1>1, <1>2, <1>3, <1>4

\* What the batch may cost, in tokens: three blocks a request and its tokens, or
\* two when nothing is drafted, the one continued chunk apart.
CapOK     == \E s \in Requested : cap = MinOf(s, SupportedSeqs(budget))
DraftCost == G * demand <= 3 * (G * seqs) + tokens
PlainCost == G * demand <= 2 * (G * seqs) + tokens
ChunkCost == G * demand <= 2 * (G * seqs) + tokens + G

PoolInv ==
  /\ TypeOK /\ CapOK /\ DraftCost
  /\ MaxDraft = 0 => ChunkCost /\ (~ chunked => PlainCost)

LEMMA JoinCost ==
  ASSUME PoolInv, NEW o \in 0 .. G - 1, NEW n \in Nat \ {0}, NEW deep \in BOOLEAN,
         Join(o, n, deep), chunked' \in BOOLEAN
  PROVE  /\ TypeOK' /\ CapOK' /\ DraftCost'
         /\ o = 0 \/ n = 1 => (PlainCost => PlainCost') /\ (ChunkCost => ChunkCost')
         /\ PlainCost => ChunkCost'
<1> DEFINE c == Demand(o, n, deep)
<1>1. /\ G \in Nat \ {0} /\ o \in Nat /\ o <= G - 1 /\ MaxTokens \in Nat
      /\ seqs \in Nat /\ cap \in Nat /\ tokens \in Nat /\ demand \in Nat
  BY ConstantsOK DEF PoolInv, TypeOK
<1>2. c \in Nat /\ G * c <= o + n + G - 1 + G
  <2>1. /\ Touched(o, n) \in Nat /\ G * Touched(o, n) <= o + n + G - 1
        /\ c = Touched(o, n) \/ c = Touched(o, n) + 1
    BY TouchedBound DEF Demand
  <2>2. G * (Touched(o, n) + 1) = G * Touched(o, n) + G
    BY <1>1, <2>1, Z3
  <2> QED BY <1>1, <2>1, <2>2
<1>3. /\ seqs' = seqs + 1 /\ tokens' = tokens + n /\ demand' = demand + c
      /\ cap' = cap /\ budget' = budget /\ seqs < cap /\ tokens + n <= MaxTokens
  BY DEF Join
<1> HIDE DEF c
<1>4. /\ G * demand' = G * demand + G * c /\ G * seqs' = G * seqs + G
      /\ G * demand \in Nat /\ G * c \in Nat /\ G * seqs \in Nat
  BY <1>1, <1>2, <1>3, Z3
<1>5. TypeOK'
  BY <1>1, <1>2, <1>3 DEF TypeOK, PoolInv
<1>6. CapOK'
  BY <1>3 DEF PoolInv, CapOK, MinOf, SupportedSeqs, MaxOf, PrefillBlocks
<1>7. DraftCost'
  BY <1>1, <1>2, <1>3, <1>4 DEF PoolInv, DraftCost
<1>8. ASSUME PlainCost PROVE ChunkCost'
  BY <1>8, <1>1, <1>2, <1>3, <1>4 DEF PlainCost, ChunkCost
<1>9. ASSUME o = 0 \/ n = 1
      PROVE  (PlainCost => PlainCost') /\ (ChunkCost => ChunkCost')
  <2>1. G * c <= 2 * G + n
    <3>1. CASE o = 0
      BY <3>1, <1>1, <1>2, <1>4
    <3>2. CASE n = 1
      <4>1. o + n - 1 = o /\ o \div G = 0
        BY <3>2, <1>1, Z3
      <4>2. Touched(o, n) = 1
        BY <4>1 DEF Touched
      <4>3. c = 1 \/ c = 2
        BY <4>2 DEF Demand, c
      <4>4. G * c <= 2 * G
        BY <4>3, <1>1, Z3
      <4> QED BY <4>4, <1>1, <1>4
    <3> QED BY <1>9, <3>1, <3>2
  <2> QED BY <2>1, <1>1, <1>2, <1>3, <1>4 DEF PlainCost, ChunkCost
<1> QED BY <1>5, <1>6, <1>7, <1>8, <1>9

LEMMA PoolInvInit == PoolInit => PoolInv
<1> SUFFICES ASSUME PoolInit PROVE PoolInv
  OBVIOUS
<1>1. PrefillBlocks \in Nat
  BY ConstantsOK, CeilBounds DEF PrefillBlocks
<1>2. budget \in Nat /\ Requested \subseteq Nat \ {0}
  BY ConstantsOK DEF PoolInit
<1>3. PICK s \in Requested : cap = MinOf(s, SupportedSeqs(budget))
  BY DEF PoolInit
<1>4. SupportedSeqs(budget) \in Nat \ {0}
  BY <1>1, <1>2, Z3 DEF SupportedSeqs, MaxOf
<1>5. cap \in Nat \ {0}
  BY <1>2, <1>3, <1>4 DEF MinOf
<1>6. G * 0 = 0
  BY ConstantsOK
<1>7. TypeOK
  <2>1. chunked \in BOOLEAN
    BY Zenon DEF PoolInit
  <2>2. seqs = 0 /\ tokens = 0 /\ demand = 0
    BY DEF PoolInit
  <2> QED BY <1>2, <1>5, <2>1, <2>2, ConstantsOK DEF TypeOK
<1>8. DraftCost /\ PlainCost /\ ChunkCost
  BY <1>6, ConstantsOK DEF PoolInit, DraftCost, PlainCost, ChunkCost
<1> QED BY <1>3, <1>7, <1>8 DEF PoolInv, CapOK

LEMMA PoolInvInductive == PoolInv /\ [PoolNext]_poolVars => PoolInv'
<1> SUFFICES ASSUME PoolInv, [PoolNext]_poolVars PROVE PoolInv'
  OBVIOUS
<1>1. G \in Nat \ {0} /\ MaxTokens \in Nat /\ MaxDraft \in Nat /\ chunked \in BOOLEAN
  BY ConstantsOK DEF PoolInv, TypeOK
<1>2. ASSUME NEW o \in 0 .. G - 1, NEW n \in Nat \ {0}, NEW deep \in BOOLEAN,
             Join(o, n, deep), chunked' = chunked, o = 0 \/ n = 1 \/ MaxDraft # 0
      PROVE  PoolInv'
  <2>1. /\ TypeOK' /\ CapOK' /\ DraftCost'
        /\ o = 0 \/ n = 1 => (PlainCost => PlainCost') /\ (ChunkCost => ChunkCost')
    BY <1>1, <1>2, JoinCost
  <2> QED BY <1>2, <2>1 DEF PoolInv
<1>3. CASE Decode
  <2>1. PICK o \in 0 .. G - 1, d \in 0 .. MaxDraft, deep \in BOOLEAN :
          Join(o, 1 + d, deep) /\ UNCHANGED chunked
    BY <1>3 DEF Decode
  <2>2. 1 + d \in Nat \ {0} /\ (1 + d = 1 \/ MaxDraft # 0)
    BY <1>1
  <2> QED BY <1>2, <2>1, <2>2
<1>4. CASE FirstChunk
  <2>1. PICK n \in 1 .. MaxTokens, hit \in BOOLEAN : Join(0, n, hit) /\ UNCHANGED chunked
    BY <1>4 DEF FirstChunk
  <2>2. n \in Nat \ {0} /\ 0 \in 0 .. G - 1
    BY <1>1
  <2> QED BY <1>2, <2>1, <2>2
<1>5. CASE NextChunk
  <2>1. PICK o \in 0 .. G - 1, n \in 1 .. MaxTokens, deep \in BOOLEAN :
          ~ chunked /\ Join(o, n, deep) /\ chunked' = TRUE
    BY <1>5 DEF NextChunk
  <2>2. n \in Nat \ {0}
    BY <1>1
  <2>3. TypeOK' /\ CapOK' /\ DraftCost' /\ (PlainCost => ChunkCost')
    BY <1>1, <2>1, <2>2, JoinCost
  <2> QED BY <2>1, <2>3 DEF PoolInv
<1>6. CASE Step
  <2>1. G * 0 = 0 /\ cap \in Nat \ {0}
    BY ConstantsOK DEF PoolInv, TypeOK
  <2>2. CapOK'
    BY <1>6 DEF Step, PoolInv, CapOK, MinOf, SupportedSeqs, MaxOf, PrefillBlocks
  <2>3. TypeOK'
    <3>1. chunked' \in BOOLEAN
      BY <1>6, Zenon DEF Step
    <3>2. budget' = budget /\ cap' = cap /\ seqs' = 0 /\ tokens' = 0 /\ demand' = 0
      BY <1>6 DEF Step
    <3> QED BY <1>1, <2>1, <3>1, <3>2 DEF PoolInv, TypeOK
  <2>4. DraftCost' /\ PlainCost' /\ ChunkCost'
    BY <1>1, <1>6, <2>1 DEF Step, DraftCost, PlainCost, ChunkCost
  <2> QED BY <2>2, <2>3, <2>4 DEF PoolInv
<1>7. CASE UNCHANGED poolVars
  BY <1>7 DEF poolVars, PoolInv, TypeOK, CapOK, DraftCost, PlainCost, ChunkCost,
              MinOf, SupportedSeqs, MaxOf, PrefillBlocks
<1> QED BY <1>3, <1>4, <1>5, <1>6, <1>7 DEF PoolNext

\* No step can exhaust a pool sized by pool_slots as long as nothing is drafted
\* or at most eight requests run, whatever their lengths and chunks.
THEOREM PoolSuffices == PoolSpec => []ExhaustionSafeWithin
<1>1. PoolInv => ExhaustionSafeWithin
  <2> SUFFICES ASSUME PoolInv, PinnedSlots = 0, MaxDraft = 0 \/ cap <= 8
               PROVE  demand <= PoolSize
    BY DEF ExhaustionSafeWithin, ExhaustionSafe
  <2> DEFINE pb == PrefillBlocks
  <2>1. /\ G \in Nat \ {0} /\ pb \in Nat /\ MaxTokens <= G * pb /\ MaxTokens \in Nat
        /\ seqs \in Nat /\ cap \in Nat /\ seqs <= cap /\ demand \in Nat
        /\ tokens \in Nat /\ tokens <= MaxTokens
    <3>1. MaxTokens \in Nat /\ G \in Nat \ {0}
      BY ConstantsOK
    <3>2. pb \in Nat /\ MaxTokens <= G * pb
      BY <3>1, CeilBounds DEF PrefillBlocks
    <3> HIDE DEF pb
    <3> QED BY <3>1, <3>2 DEF PoolInv, TypeOK
  <2>2. PoolSize >= 2 * cap + pb + 8 /\ PoolSize \in Nat
    BY <2>1 DEF PoolSize, PoolSlots, MaxOf
  <2> HIDE DEF pb
  <2>3. CASE MaxDraft = 0
    <3>1. G * demand <= 2 * (G * seqs) + tokens + G
      BY <2>1, <2>3 DEF PoolInv, ChunkCost
    <3>2. G * demand <= G * (2 * cap + pb + 1)
      BY <2>1, <3>1, Z3
    <3>3. demand <= 2 * cap + pb + 1
      BY <2>1, <3>2, Z3
    <3> QED BY <2>1, <2>2, <3>3
  <2>4. CASE cap <= 8
    <3>1. G * demand <= 3 * (G * seqs) + tokens
      BY DEF PoolInv, DraftCost
    <3>2. G * demand <= G * (3 * cap + pb)
      BY <2>1, <3>1, Z3
    <3>3. demand <= 3 * cap + pb
      BY <2>1, <3>2, Z3
    <3> QED BY <2>1, <2>2, <2>4, <3>3
  <2> QED BY <2>3, <2>4
<1> QED BY <1>1, PoolInvInit, PoolInvInductive, PTL DEF PoolSpec

LEMMA PoolFits == PoolInv => BudgetSafeAboveOne
<1>1. PoolInv => BudgetSafeAboveOne
  <2> SUFFICES ASSUME PoolInv, PinnedSlots = 0, budget >= PoolSlots(1)
               PROVE  PoolSize <= budget
    BY DEF BudgetSafeAboveOne, BudgetSafe
  <2> DEFINE pb == PrefillBlocks
  <2>1. pb \in Nat /\ budget \in Nat /\ cap \in Nat \ {0}
    BY ConstantsOK, CeilBounds DEF PoolInv, TypeOK, PrefillBlocks
  <2>2. budget >= pb + 10
    BY <2>1 DEF PoolSlots, MaxOf
  <2>3. PICK s \in Requested : cap = MinOf(s, SupportedSeqs(budget))
    BY DEF PoolInv, CapOK
  <2>4. s \in Nat
    BY ConstantsOK
  <2>5. PoolSize = MaxOf(2 * cap + pb + 8, 8)
    BY DEF PoolSize, PoolSlots
  <2>6. SupportedSeqs(budget) = MaxOf(1, (budget - pb - 8) \div 2)
    BY DEF SupportedSeqs
  <2> HIDE DEF pb
  <2>7. /\ (budget - pb - 8) \div 2 \in Nat \ {0}
        /\ 2 * ((budget - pb - 8) \div 2) <= budget - pb - 8
    BY <2>1, <2>2, Z3
  <2>8. cap <= (budget - pb - 8) \div 2
    BY <2>3, <2>4, <2>6, <2>7 DEF MinOf, MaxOf
  <2> QED BY <2>1, <2>2, <2>5, <2>7, <2>8 DEF MaxOf
<1> QED BY <1>1

\* The capped pool fits every memory budget that holds one request's pool:
\* max_supported_seqs inverts pool_slots.
THEOREM PoolFitsBudget == PoolSpec => []BudgetSafeAboveOne
BY PoolFits, PoolInvInit, PoolInvInductive, PTL DEF PoolSpec

-----------------------------------------------------------------------------

\* What the estimate has to be right about: it never reads less than the loader
\* takes. The manifest, the canonical file and the sum of the shards are each a
\* way to be right; an interrupted download that left no index is not.
EstimateCovers(c) ==
  EstimateWeightBytes(c) # Unknown =>
    /\ EstimateWeightBytes(c) \in Nat
    /\ c.loaded \div Ranks <= EstimateWeightBytes(c)

LEMMA SlotBytesPositive == SlotBytes \in Nat \ {0}
<1>1. /\ G \in Nat \ {0} /\ KVHeads \in Nat \ {0} /\ HeadDim \in Nat \ {0}
      /\ AttentionLayers \in Nat /\ AllLayers \in Nat \ {0}
  BY ConstantsOK, BudgetOK
<1>2. PICK n \in Nat \ {0} : n = MaxOf(NumKVarNLayers, 1)
  BY <1>1 DEF NumKVarNLayers, MaxOf
<1>3. PICK k \in Nat \ {0} : k = G * KVHeads
  BY <1>1, Z3
<1>4. PICK d \in Nat \ {0} : d = k * HeadDim
  BY <1>1, <1>3, Z3
<1>5. PICK e \in Nat \ {0} : e = d * 4
  BY <1>4
<1>6. SlotBytes = e * n
  BY <1>2, <1>3, <1>4, <1>5 DEF SlotBytes
<1> QED BY <1>2, <1>5, <1>6, Z3

\* A share of what is left never exceeds it.
LEMMA ShareFits ==
  ASSUME NEW share \in 0 .. 100, NEW left \in Int,
         (share * left) \div 10000 > 0
  PROVE  100 * ((share * left) \div 10000) <= left
<1>1. PICK x \in Int : x = share * left
  BY Z3
<1>2. x \div 10000 \in Int /\ 10000 * (x \div 10000) <= x /\ x > 0
  BY <1>1, Z3
<1>3. left > 0
  BY <1>1, <1>2, Z3
<1>4. share * left <= 100 * left
  BY <1>3, Z3
<1> QED BY <1>1, <1>2, <1>4, Z3

\* Weights and pool together stay within the memory the server may use, for
\* every checkpoint whose estimate covers what is loaded, every size of the
\* model and the card, and every share of at most the whole.
THEOREM WeightsAndPoolFitHolds ==
  ASSUME \A c \in Checkpoints : EstimateCovers(c), PoolFrac <= 100
  PROVE  PoolSpec => []WeightsAndPoolFit
<1>1. PoolInv => WeightsAndPoolFit
  <2> SUFFICES ASSUME PoolInv, NEW c \in Checkpoints, budget = MaxSlots(c),
                      EstimateWeightBytes(c) # Unknown,
                      budget >= PoolSlots(1), PinnedSlots = 0
               PROVE  100 * (c.loaded \div Ranks + PoolBytes(cap)) <= Utilization * TotalBytes
    BY DEF WeightsAndPoolFit
  <2>1. PICK w \in Nat : w = EstimateWeightBytes(c) /\ c.loaded \div Ranks <= w
    BY DEF EstimateCovers
  <2>2. PICK l \in Nat : l = c.loaded \div Ranks
    <3>1. c.loaded \in Nat /\ Ranks \in Nat \ {0}
      BY BudgetOK DEF IsCheckpoint
    <3> QED BY <3>1, Z3
  <2>3. PICK b \in Nat \ {0} : b = SlotBytes
    BY SlotBytesPositive
  <2>4. PICK u \in Nat : u = Utilization * TotalBytes
    <3>1. Utilization \in Nat /\ TotalBytes \in Nat
      BY BudgetOK
    <3> QED BY <3>1, Z3
  <2>5. PICK share \in 0 .. 100 : share = IF PoolFrac > 0 THEN PoolFrac ELSE 50
    BY BudgetOK
  <2>6. PoolBudgetBytes(c) = MaxOf(0, (share * (u - 100 * w)) \div 10000)
    BY <2>1, <2>4, <2>5 DEF PoolBudgetBytes
  <2>7. PICK p \in Int : p = (share * (u - 100 * w)) \div 10000
    BY <2>1, <2>4, <2>5, Z3
  <2>8. budget = MaxOf(0, p) \div b
    BY <2>3, <2>6, <2>7 DEF MaxSlots
  <2>9. PICK n \in Nat : n = PoolSlots(cap) /\ n <= budget
    <3>1. PoolSize = PoolSlots(cap) /\ PoolSize <= budget
      BY PoolFits DEF BudgetSafeAboveOne, BudgetSafe, PoolSize
    <3>2. PrefillBlocks \in Nat /\ cap \in Nat
      BY ConstantsOK, CeilBounds DEF PoolInv, TypeOK, PrefillBlocks
    <3> QED BY <3>1, <3>2 DEF PoolSlots, MaxOf
  <2>10. n >= 8
    <3>1. PrefillBlocks \in Nat /\ cap \in Nat
      BY ConstantsOK, CeilBounds DEF PoolInv, TypeOK, PrefillBlocks
    <3> QED BY <2>9, <3>1 DEF PoolSlots, MaxOf
  <2>11. budget \in Nat
    BY DEF PoolInv, TypeOK
  <2>12. p > 0 /\ n * b <= p
    <3>1. PICK q \in Nat : q = MaxOf(0, p) /\ (q = 0 \/ q = p)
      BY <2>7 DEF MaxOf
    <3>2. PICK m \in Nat : m = q \div b /\ m * b <= q
      BY <2>3, <3>1, Z3
    <3>3. n <= m
      BY <2>8, <2>9, <3>1, <3>2
    <3>4. n * b <= m * b /\ n * b > 0
      BY <2>3, <2>9, <2>10, <3>2, <3>3, Z3
    <3>5. n * b <= q /\ q > 0
      BY <3>1, <3>2, <3>4, Z3
    <3> QED BY <3>1, <3>5
  <2>13. 100 * p <= u - 100 * w
    <3>1. PICK left \in Int : left = u - 100 * w
      BY <2>1, <2>4
    <3>2. p = (share * left) \div 10000
      BY <2>7, <3>1
    <3> QED BY <2>5, <2>12, <3>1, <3>2, ShareFits
  <2>14. PICK k \in Nat : k = n * b /\ k = PoolBytes(cap)
    BY <2>3, <2>9, Z3 DEF PoolBytes
  <2>15. 100 * (l + k) <= u
    BY <2>1, <2>2, <2>4, <2>12, <2>13, <2>14
  <2> QED BY <2>2, <2>4, <2>14, <2>15
<1> QED BY <1>1, PoolInvInit, PoolInvInductive, PTL DEF PoolSpec

-----------------------------------------------------------------------------
(* The records.                                                            *)

Config == [D : Nat \ {0}, G : Nat \ {0}, kb : {2, 4}, vb : {2, 4}, pow2 : BOOLEAN]

\* The fields in the order of their offsets.
Order == <<"kq", "kc", "kz", "kr", "vq", "vc", "vr", "vz">>

\* A multiple of the unit leaves no rest.
LEMMA MultipleHasNoRest ==
  ASSUME NEW q \in Nat, NEW unit \in Nat \ {0}
  PROVE  (q * unit) % unit = 0
<1>1. q * unit \in Nat
  BY SMT
<1> DEFINE n == q * unit
<1>2. n \in Nat
  BY <1>1
<1> HIDE DEF n
<1>3. (n \div unit) \in Int /\ n = unit * (n \div unit) + (n % unit)
      /\ (n % unit) \in 0 .. unit - 1
  BY <1>2, SMT
<1>4. PICK z \in Int : z = n \div unit
  BY <1>3
<1>5. PICK k \in 0 .. unit - 1 : k = n % unit
  BY <1>3
<1>6. q * unit = unit * z + k
  BY <1>3, <1>4, <1>5 DEF n
<1>7. PICK d \in Int : d = q - z
  OBVIOUS
<1>8. d * unit = k
  BY <1>6, <1>7, SMT
<1>9. d = 0
  <2>1. ~ d >= 1
    BY <1>8, SMT
  <2>2. ~ d <= -1
    BY <1>8, SMT
  <2> QED BY <2>1, <2>2
<1> QED BY <1>5, <1>8, <1>9 DEF n

\* Rounding up gives a multiple of the unit, no less than the number.
LEMMA RoundUpFits ==
  ASSUME NEW n \in Nat, NEW unit \in Nat \ {0}
  PROVE  /\ RoundUp(n, unit) \in Nat /\ n <= RoundUp(n, unit)
         /\ RoundUp(n, unit) % unit = 0
<1> DEFINE q == (n + unit - 1) \div unit
<1>1. q \in Nat /\ n + unit - 1 = unit * q + ((n + unit - 1) % unit)
      /\ (n + unit - 1) % unit \in 0 .. unit - 1
  BY SMT
<1> HIDE DEF q
<1>2. n <= q * unit /\ q * unit \in Nat
  BY <1>1, SMT
<1>3. (q * unit) % unit = 0
  BY <1>1, MultipleHasNoRest
<1> QED BY <1>2, <1>3 DEF RoundUp, q

\* The unit of the padding is a multiple of the group.
LEMMA UnitOfGroup ==
  ASSUME NEW g \in Nat \ {0}
  PROVE  /\ Lcm8(g) \in Nat \ {0}
         /\ \E k \in Nat \ {0} : Lcm8(g) = k * g
<1>1. CASE g % 8 = 0
  <2>1. Lcm8(g) = 1 * g
    BY <1>1 DEF Lcm8
  <2> QED BY <2>1
<1>2. CASE g % 8 # 0 /\ g % 4 = 0
  <2>1. Lcm8(g) = 2 * g
    BY <1>2 DEF Lcm8
  <2> QED BY <2>1
<1>3. CASE g % 8 # 0 /\ g % 4 # 0 /\ g % 2 = 0
  <2>1. Lcm8(g) = 4 * g
    BY <1>3 DEF Lcm8
  <2> QED BY <2>1
<1>4. CASE g % 8 # 0 /\ g % 4 # 0 /\ g % 2 # 0
  <2>1. Lcm8(g) = 8 * g
    BY <1>4 DEF Lcm8
  <2> QED BY <2>1
<1> QED BY <1>1, <1>2, <1>3, <1>4

-----------------------------------------------------------------------------
(* Inductions over a set of naturals, and powers of two.                   *)

LEMMA LeastNat ==
  ASSUME NEW S, S \subseteq Nat, S # {}
  PROVE  \E m \in S : \A n \in S : m <= n
<1> DEFINE R == {ss \in Nat \X Nat : ss[1] < ss[2]}
<1>1. IsWellFoundedOn(R, Nat)
  BY NatLessThanWellFounded DEF OpToRel
<1>2. PICK m \in S : \A n \in S : ~(<<n, m>> \in R)
  BY <1>1, WFMin
<1>3. ASSUME NEW n \in S PROVE m <= n
  <2>1. m \in Nat /\ n \in Nat /\ <<n, m>> \in Nat \X Nat /\ <<n, m>> \notin R
    BY <1>2
  <2> QED BY <2>1
<1> QED BY <1>3

LEMMA Induction ==
  ASSUME NEW S, 0 \in S, \A n \in Nat : n \in S => n + 1 \in S
  PROVE  Nat \subseteq S
<1> SUFFICES ASSUME Nat \ S # {} PROVE FALSE
  OBVIOUS
<1>1. PICK m \in Nat \ S : \A n \in Nat \ S : m <= n
  BY LeastNat
<1>2. m - 1 \in Nat
  BY <1>1
<1> QED BY <1>1, <1>2

\* f is the recursive function of Pow2, up to n.
Shifted(f, n) == f = [i \in 0 .. n |-> IF i = 0 THEN 1 ELSE 2 * f[i - 1]]

LEMMA ShiftedExists ==
  ASSUME NEW n \in Nat
  PROVE  \E f : Shifted(f, n)
<1> DEFINE Made == {m \in Nat : \E f : Shifted(f, m)}
<1>1. 0 \in Made
  <2>1. Shifted([i \in 0 .. 0 |-> 1], 0)
    BY DEF Shifted
  <2> QED BY <2>1
<1>2. ASSUME NEW m \in Nat, m \in Made PROVE m + 1 \in Made
  <2>1. PICK f : Shifted(f, m)
    BY <1>2
  <2> DEFINE h == [i \in 0 .. m + 1 |-> IF i = m + 1 THEN 2 * f[m] ELSE f[i]]
  <2>2. ASSUME NEW i \in 0 .. m + 1
        PROVE  h[i] = IF i = 0 THEN 1 ELSE 2 * h[i - 1]
    <3>1. CASE i = m + 1
      <4>1. i # 0 /\ i - 1 = m /\ i - 1 \in 0 .. m + 1 /\ i - 1 # m + 1
        BY <3>1
      <4> QED BY <3>1, <4>1
    <3>2. CASE i # m + 1
      <4>1. i \in 0 .. m /\ h[i] = f[i] /\ (i # 0 => h[i - 1] = f[i - 1])
        BY <3>2
      <4>2. f[i] = IF i = 0 THEN 1 ELSE 2 * f[i - 1]
        BY <2>1, <4>1 DEF Shifted
      <4> QED BY <4>1, <4>2
    <3> QED BY <3>1, <3>2
  <2>3. Shifted(h, m + 1)
    <3> DEFINE k == [i \in 0 .. m + 1 |-> IF i = 0 THEN 1 ELSE 2 * h[i - 1]]
    <3>1. \A i \in 0 .. m + 1 : h[i] = k[i]
      BY <2>2
    <3>2. h = k
      BY <3>1
    <3> QED BY <3>2 DEF Shifted
  <2> HIDE DEF h
  <2> QED BY <2>3
<1>3. Nat \subseteq Made
  <2> HIDE DEF Made
  <2> QED BY <1>1, <1>2, Induction
<1> QED BY <1>3

\* Doubling 1 reaches every number, and the first power to do so is taken.
LEMMA Pow2Fits ==
  ASSUME NEW n \in Nat
  PROVE  Pow2(n) \in Nat \ {0} /\ n <= Pow2(n)
<1> DEFINE f == CHOOSE f : Shifted(f, n)
           P == {f[i] : i \in 0 .. n}
<1>1. Shifted(f, n)
  BY ShiftedExists
<1>2. Pow2(n) = CHOOSE p \in P : n <= p /\ (p = 1 \/ p < 2 * n)
  BY DEF Pow2, Shifted
<1> HIDE DEF f
<1>3. f[0] = 1 /\ \A i \in 1 .. n : f[i] = 2 * f[i - 1]
  BY <1>1 DEF Shifted
<1>4. \A i \in 0 .. n : f[i] \in Nat /\ i < f[i]
  <2> DEFINE T == {i \in Nat : i <= n => f[i] \in Nat /\ i < f[i]}
  <2>1. 0 \in T
    BY <1>3
  <2>2. ASSUME NEW i \in Nat, i \in T PROVE i + 1 \in T
    <3> SUFFICES ASSUME i + 1 <= n PROVE f[i + 1] \in Nat /\ i + 1 < f[i + 1]
      OBVIOUS
    <3>1. f[i] \in Nat /\ i < f[i]
      BY <2>2
    <3>2. f[i + 1] = 2 * f[i]
      <4>1. i + 1 \in 1 .. n /\ i + 1 - 1 = i
        OBVIOUS
      <4> QED BY <1>3, <4>1
    <3> QED BY <3>1, <3>2
  <2>3. Nat \subseteq T
    <3> HIDE DEF T
    <3> QED BY <2>1, <2>2, Induction
  <2> QED BY <2>3
<1> DEFINE R == {i \in 0 .. n : n <= f[i]}
<1>5. n \in R
  BY <1>4
<1>6. PICK i \in R : \A j \in R : i <= j
  <2>1. R \subseteq Nat /\ R # {}
    BY <1>5
  <2> HIDE DEF R
  <2> QED BY <2>1, LeastNat
<1>7. f[i] = 1 \/ f[i] < 2 * n
  <2>1. CASE i = 0
    BY <1>3, <2>1
  <2>2. CASE i # 0
    <3>1. i - 1 \in 0 .. n /\ i - 1 \notin R /\ i \in 1 .. n
      BY <1>6, <2>2
    <3>2. f[i - 1] < n /\ f[i - 1] \in Nat /\ f[i] = 2 * f[i - 1]
      BY <1>3, <1>4, <3>1
    <3> QED BY <3>2
  <2> QED BY <2>1, <2>2
<1>8. \E p \in P : n <= p /\ (p = 1 \/ p < 2 * n)
  BY <1>6, <1>7
<1>9. \A p \in P : p \in Nat \ {0}
  BY <1>4
<1> HIDE DEF P
<1> QED BY <1>2, <1>8, <1>9

-----------------------------------------------------------------------------
(* The layout.                                                             *)

\* The sizes are natural numbers.
LEMMA SizesAreNat ==
  ASSUME NEW c \in Config
  PROVE  /\ c.D \in Nat \ {0} /\ c.G \in Nat \ {0} /\ c.kb \in {2, 4} /\ c.vb \in {2, 4}
         /\ KPackedBytes(c) \in Nat /\ VPackedBytes(c) \in Nat /\ TileBytes(c) \in Nat
<1>1. c.D \in Nat \ {0} /\ c.G \in Nat \ {0} /\ c.kb \in {2, 4} /\ c.vb \in {2, 4}
  BY DEF Config
<1>2. c.D * c.G * c.kb \in Nat /\ c.G * c.D * c.vb \in Nat
  BY <1>1, SMT
<1> DEFINE k == c.D * c.G * c.kb
           v == c.G * c.D * c.vb
<1>3. k \in Nat /\ v \in Nat
  BY <1>2
<1> HIDE DEF k, v
<1>4. (k + 7) \div 8 \in Nat /\ (v + 7) \div 8 \in Nat
  BY <1>3, SMT
<1>5. KPackedBytes(c) \in Nat /\ VPackedBytes(c) \in Nat
  BY <1>4 DEF KPackedBytes, VPackedBytes, k, v
<1> QED BY <1>1, <1>5 DEF TileBytes

\* Every field starts where the one before it ends, from 0 to the last byte
\* of tile_bytes: no two share a byte, and no byte of the record is skipped.
THEOREM FieldsInOrder ==
  ASSUME NEW c \in Config
  PROVE  /\ Offset(c).kq = 0
         /\ \A i \in 1 .. 7 :
              Offset(c)[Order[i]] + Size(c)[Order[i]] = Offset(c)[Order[i + 1]]
         /\ Offset(c).vz + Size(c).vz = TileBytes(c)
<1>1. Offset(c).kq + Size(c).kq = Offset(c).kc
  BY SizesAreNat DEF Offset, Size
<1>2. Offset(c).kc + Size(c).kc = Offset(c).kz /\ Offset(c).kz + Size(c).kz = Offset(c).kr
  BY SizesAreNat DEF Offset, Size
<1>3. Offset(c).kr + Size(c).kr = Offset(c).vq /\ Offset(c).vq + Size(c).vq = Offset(c).vc
  BY SizesAreNat DEF Offset, Size
<1>4. Offset(c).vc + Size(c).vc = Offset(c).vr /\ Offset(c).vr + Size(c).vr = Offset(c).vz
  BY SizesAreNat DEF Offset, Size
<1>5. Offset(c).kq = 0 /\ Offset(c).vz + Size(c).vz = TileBytes(c)
  BY SizesAreNat DEF Offset, Size, TileBytes
<1>6. ASSUME NEW i \in 1 .. 7
      PROVE  Offset(c)[Order[i]] + Size(c)[Order[i]] = Offset(c)[Order[i + 1]]
  <2>1. CASE i = 1
    BY <1>1, <2>1 DEF Order
  <2>2. CASE i = 2
    BY <1>2, <2>2 DEF Order
  <2>3. CASE i = 3
    BY <1>2, <2>3 DEF Order
  <2>4. CASE i = 4
    BY <1>3, <2>4 DEF Order
  <2>5. CASE i = 5
    BY <1>3, <2>5 DEF Order
  <2>6. CASE i = 6
    BY <1>4, <2>6 DEF Order
  <2>7. CASE i = 7
    BY <1>4, <2>7 DEF Order
  <2> QED BY <2>1, <2>2, <2>3, <2>4, <2>5, <2>6, <2>7
<1> QED BY <1>5, <1>6

\* The padded record holds the fields and is a whole number of slots, the
\* slot rounded to a power of two or not.
THEOREM RecordIsWholeSlots ==
  ASSUME NEW c \in Config
  PROVE  /\ Aligned(c) \in Nat /\ TileBytes(c) <= Aligned(c)
         /\ c.G * (Aligned(c) \div c.G) = Aligned(c)
<1>0. Lcm8(c.G) \in Nat \ {0} /\ c.G \in Nat \ {0} /\ TileBytes(c) \in Nat
  BY SizesAreNat, UnitOfGroup
<1> DEFINE x == Aligned(c)
           g == c.G
<1>1. ASSUME c.D >= BigHead /\ c.pow2
      PROVE  Aligned(c) \in Nat /\ Aligned(c) % g = 0 /\ TileBytes(c) <= Aligned(c)
  <2> DEFINE b == TileBytes(c)
             n == (b + g - 1) \div g
             p == Pow2(n)
  <2>1. Aligned(c) = p * g
    BY <1>1 DEF Aligned
  <2>2. b \in Nat /\ g \in Nat \ {0}
    BY <1>0
  <2> HIDE DEF b, g
  <2>3. n \in Nat /\ b + g - 1 = g * n + ((b + g - 1) % g)
        /\ (b + g - 1) % g \in 0 .. g - 1
    BY <2>2, SMT
  <2>4. p \in Nat /\ n <= p
    BY <2>3, Pow2Fits
  <2> HIDE DEF n, p
  <2>5. n * g \in Nat /\ b <= n * g
    BY <2>2, <2>3, SMT
  <2>6. n * g <= p * g /\ p * g \in Nat
    BY <2>2, <2>3, <2>4, SMT
  <2> QED BY <2>1, <2>2, <2>4, <2>5, <2>6, MultipleHasNoRest DEF b
<1>2. ASSUME ~(c.D >= BigHead /\ c.pow2)
      PROVE  Aligned(c) \in Nat /\ Aligned(c) % g = 0 /\ TileBytes(c) <= Aligned(c)
  <2>1. PICK k \in Nat \ {0} : Lcm8(c.G) = k * c.G
    BY SizesAreNat, UnitOfGroup
  <2>2. Aligned(c) = RoundUp(TileBytes(c), Lcm8(c.G))
    BY <1>2 DEF Aligned
  <2>3. Aligned(c) \in Nat /\ TileBytes(c) <= Aligned(c)
    BY <1>0, <2>2, RoundUpFits
  <2> DEFINE m == (TileBytes(c) + Lcm8(c.G) - 1) \div Lcm8(c.G)
  <2>4. m \in Nat
    <3> DEFINE n == TileBytes(c) + Lcm8(c.G) - 1
               u == Lcm8(c.G)
    <3>1. n \in Nat /\ u \in Nat \ {0}
      BY <1>0
    <3> HIDE DEF n, u
    <3>2. n \div u \in Nat
      BY <3>1, SMT
    <3> QED BY <3>2 DEF n, u
  <2>5. Aligned(c) = m * (k * c.G)
    BY <2>1, <2>2 DEF RoundUp
  <2> HIDE DEF m
  <2>6. m * k \in Nat /\ Aligned(c) = (m * k) * c.G
    BY <1>0, <2>1, <2>4, <2>5, SMT
  <2> QED BY <1>0, <2>3, <2>6, MultipleHasNoRest
<1>3. x \in Nat /\ g \in Nat \ {0} /\ x % g = 0 /\ TileBytes(c) <= x
  BY <1>0, <1>1, <1>2
<1> HIDE DEF x, g
<1>4. g * (x \div g) = x
  BY <1>3, SMT
<1>5. c.G * (Aligned(c) \div c.G) = Aligned(c)
  BY <1>4, Zenon DEF x, g
<1>6. Aligned(c) \in Nat /\ TileBytes(c) <= Aligned(c)
  BY <1>3, Zenon DEF x
<1> QED BY <1>5, <1>6

-----------------------------------------------------------------------------
(* The codes.                                                              *)

\* Two places of a row-major matrix of width w are different numbers.
LEMMA RowMajor ==
  ASSUME NEW w \in Nat \ {0}, NEW d \in Nat, NEW e \in Nat,
         NEW i \in 0 .. w - 1, NEW j \in 0 .. w - 1, d * w + i = e * w + j
  PROVE  d = e /\ i = j
<1>1. PICK x \in Int : x = d - e
  OBVIOUS
<1>2. x * w = j - i
  BY <1>1, SMT
<1>3. ~ x >= 1 /\ ~ x <= -1
  BY <1>2, SMT
<1> QED BY <1>1, <1>2, <1>3

\* A place of a matrix of n rows of width w lies below n * w.
LEMMA RowMajorFits ==
  ASSUME NEW w \in Nat \ {0}, NEW n \in Nat, NEW d \in 0 .. n - 1, NEW i \in 0 .. w - 1
  PROVE  d * w + i \in Nat /\ d * w + i < n * w
<1>1. PICK x \in Nat : n = d + 1 + x
  <2>1. n - d - 1 \in Nat /\ n = d + 1 + (n - d - 1)
    OBVIOUS
  <2> QED BY <2>1
<1>2. n * w = d * w + w + x * w
  BY <1>1, SMT
<1>3. x * w \in Nat /\ d * w \in Nat
  BY SMT
<1> QED BY <1>2, <1>3, SMT

\* The codes a kernel takes for K, for any two elements of a tile: they lie in
\* the field of the K codes, and no two elements share one.
THEOREM KeyCodesDistinct ==
  ASSUME cfg \in Config, cfg.G % (8 \div cfg.kb) = 0,
         NEW g \in 0 .. cfg.G - 1, NEW d \in 0 .. cfg.D - 1,
         NEW f \in 0 .. cfg.G - 1, NEW e \in 0 .. cfg.D - 1
  PROVE  /\ KAddress(Offset(cfg), g, d) \in 0 .. KPackedBytes(cfg) - 1
         /\ (/\ KAddress(Offset(cfg), g, d) = KAddress(Offset(cfg), f, e)
             /\ g % (8 \div cfg.kb) = f % (8 \div cfg.kb)) => g = f /\ d = e
<1> DEFINE p == 8 \div cfg.kb
           w == cfg.G \div p
<1>1. cfg.G \in Nat \ {0} /\ cfg.D \in Nat \ {0} /\ cfg.kb \in {2, 4}
  BY SizesAreNat
<1>2. p \in {2, 4} /\ p * cfg.kb = 8
  BY <1>1
<1>3. w \in Nat \ {0} /\ cfg.G = p * w
  BY <1>1, <1>2
<1>4. Offset(cfg).kq = 0
  BY FieldsInOrder
<1>5. KAddress(Offset(cfg), g, d) = d * w + g \div p
      /\ KAddress(Offset(cfg), f, e) = e * w + f \div p
  <2>1. d * w \in Nat /\ e * w \in Nat /\ g \div p \in Nat /\ f \div p \in Nat
    <3>1. d \in Nat /\ e \in Nat /\ g \in Nat /\ f \in Nat
      BY <1>1
    <3> HIDE DEF p, w
    <3>2. d * w \in Nat /\ e * w \in Nat
      BY <1>3, <3>1, SMT
    <3>3. g \div p \in Nat /\ f \div p \in Nat
      BY <1>2, <3>1
    <3> QED BY <3>2, <3>3
  <2> QED BY <1>4, <2>1 DEF KAddress
<1>6. g \div p \in 0 .. w - 1 /\ f \div p \in 0 .. w - 1
      /\ g = p * (g \div p) + (g % p) /\ f = p * (f \div p) + (f % p)
  <2> HIDE DEF w
  <2> HIDE DEF p
  <2>1. CASE p = 2
    BY <1>1, <1>3, <2>1
  <2>2. CASE p = 4
    BY <1>1, <1>3, <2>2
  <2> QED BY <1>2, <2>1, <2>2
<1>7. KPackedBytes(cfg) = cfg.D * w
  <2> HIDE DEF w
  <2>1. PICK x \in Nat : x = cfg.D * w
    BY <1>1, <1>3, SMT
  <2>2. cfg.D * cfg.G * cfg.kb = 8 * x
    <3>1. cfg.G * cfg.kb = 8 * w
      BY <1>1, <1>2, <1>3
    <3> DEFINE a == cfg.D
               b == cfg.G
               k == cfg.kb
    <3>2. a \in Nat /\ b \in Nat /\ k \in Nat /\ w \in Nat /\ b * k = 8 * w /\ x = a * w
      BY <1>1, <1>3, <2>1, <3>1
    <3> HIDE DEF a, b, k
    <3>3. a * b * k = 8 * x
      <4>1. a * b * k = a * (b * k)
        BY <3>2, SMT
      <4>2. a * (8 * w) = 8 * (a * w)
        BY <3>2, SMT
      <4> QED BY <3>2, <4>1, <4>2
    <3> QED BY <3>3 DEF a, b, k
  <2>3. (8 * x + 7) \div 8 = x
    BY <2>1
  <2> QED BY <2>1, <2>2, <2>3 DEF KPackedBytes
<1>8. KAddress(Offset(cfg), g, d) \in 0 .. KPackedBytes(cfg) - 1
  <2> HIDE DEF p, w
  <2>1. d * w + g \div p \in Nat /\ d * w + g \div p < cfg.D * w
    BY <1>1, <1>3, <1>6, RowMajorFits
  <2> QED BY <1>5, <1>7, <2>1, SizesAreNat
<1>9. ASSUME KAddress(Offset(cfg), g, d) = KAddress(Offset(cfg), f, e), g % p = f % p
      PROVE  g = f /\ d = e
  <2> HIDE DEF p, w
  <2>1. d \in Nat /\ e \in Nat /\ d * w + g \div p = e * w + f \div p
    BY <1>1, <1>5, <1>9
  <2>2. d = e /\ g \div p = f \div p
    BY <1>3, <1>6, <2>1, RowMajor
  <2> QED BY <1>6, <1>9, <2>2
<1> QED BY <1>8, <1>9

-----------------------------------------------------------------------------
(* The pages.                                                              *)

ConfigOK == cfg \in Config /\ batch \in (Nat \ {0}) \X (Nat \ {0})

\* The configuration and the batch of a flush are as Init picks them.
LEMMA ConfigInvariant == Spec => []ConfigOK
<1>1. Init => ConfigOK
  <2> SUFFICES ASSUME Init PROVE ConfigOK
    OBVIOUS
  <2>1. PICK p \in Presets, d \in HeadDims, pow2 \in BOOLEAN :
          cfg = [D |-> d, G |-> p.group, kb |-> p.key_bits, vb |-> p.value_bits,
                 pow2 |-> pow2]
    BY DEF Init, KVarNConfig
  <2>2. p.key_bits \in {2, 4} /\ p.value_bits \in {2, 4} /\ p.group \in Nat \ {0}
        /\ d \in Nat \ {0}
    BY TileOK DEF TileOK
  <2>3. cfg \in Config
    BY <2>1, <2>2 DEF Config
  <2>4. batch \in (Nat \ {0}) \X (Nat \ {0})
    BY TileOK DEF Init, TileOK, KVarNConfig
  <2> QED BY <2>3, <2>4 DEF ConfigOK
<1>2. ConfigOK /\ [Next]_vars => ConfigOK'
  BY DEF ConfigOK, Next, Balance, FlushFast, FlushLegacy, vars
<1> QED BY <1>1, <1>2, PTL DEF Spec

\* PagesAreTiles for every preset and head size, with either slot.
THEOREM Pages == Spec => []PagesAreTiles
<1>1. ConfigOK => PagesAreTiles
  <2> SUFFICES ASSUME ConfigOK
               PROVE  cfg.G * batch[2] * (Aligned(cfg) \div cfg.G) = batch[2] * Aligned(cfg)
    BY DEF PagesAreTiles
  <2>1. cfg \in Config /\ batch[2] \in Nat
    BY DEF ConfigOK
  <2>2. cfg.G * (Aligned(cfg) \div cfg.G) = Aligned(cfg) /\ Aligned(cfg) \in Nat
        /\ cfg.G \in Nat \ {0}
    BY <2>1, RecordIsWholeSlots, SizesAreNat
  <2> DEFINE h == batch[2]
             g == cfg.G
             q == Aligned(cfg) \div cfg.G
             a == Aligned(cfg)
  <2>3. h \in Nat /\ g \in Nat /\ q \in Int /\ g * q = a
    BY <2>1, <2>2
  <2> HIDE DEF h, g, q, a
  <2>4. g * h * q = h * (g * q)
    BY <2>3, SMT
  <2> QED BY <2>3, <2>4 DEF h, g, q, a
<1> QED BY <1>1, ConfigInvariant, PTL

-----------------------------------------------------------------------------
(* The launches of a flush.                                                *)

IsList(s, n) == s = [i \in 1 .. n |-> s[i]]

\* w is s, of length a, and t, of length b, behind it.
IsJoin(w, s, t, a, b) ==
  /\ Len(s) = a /\ Len(t) = b /\ IsList(w, a + b)
  /\ \A i \in 1 .. a : w[i] = s[i]
  /\ \A i \in 1 .. b : w[a + i] = t[i]

\* A concatenation has the elements of its parts, one behind the other.
LEMMA Joined ==
  ASSUME NEW a \in Nat, NEW b \in Nat, NEW s, NEW t, IsList(s, a), IsList(t, b)
  PROVE  IsJoin(s \o t, s, t, a, b)
<1> DEFINE S == {s[i] : i \in 1 .. a} \cup {t[i] : i \in 1 .. b}
<1>1. s \in Seq(S) /\ Len(s) = a
  <2>1. \A i \in 1 .. a : s[i] \in S
    OBVIOUS
  <2> HIDE DEF S
  <2>2. s \in [1 .. a -> S]
    BY <2>1 DEF IsList
  <2> QED BY <2>2
<1>2. t \in Seq(S) /\ Len(t) = b
  <2>1. \A i \in 1 .. b : t[i] \in S
    OBVIOUS
  <2> HIDE DEF S
  <2>2. t \in [1 .. b -> S]
    BY <2>1 DEF IsList
  <2> QED BY <2>2
<1> HIDE DEF S
<1>3. /\ s \o t \in Seq(S) /\ Len(s \o t) = a + b
      /\ \A i \in 1 .. a + b : (s \o t)[i] = IF i <= a THEN s[i] ELSE t[i - a]
  <2>1. /\ s \o t \in Seq(S) /\ Len(s \o t) = Len(s) + Len(t)
        /\ \A i \in 1 .. Len(s) + Len(t) :
             (s \o t)[i] = IF i <= Len(s) THEN s[i] ELSE t[i - Len(s)]
    BY <1>1, <1>2, ConcatProperties, Zenon
  <2> QED BY <1>1, <1>2, <2>1, Zenon
<1>4. IsList(s \o t, a + b)
  BY <1>3, LenProperties DEF IsList
<1>5. ASSUME NEW i \in 1 .. a PROVE (s \o t)[i] = s[i]
  <2>1. i \in 1 .. a + b /\ i <= a
    OBVIOUS
  <2> QED BY <1>3, <2>1
<1>6. ASSUME NEW i \in 1 .. b PROVE (s \o t)[a + i] = t[i]
  <2>1. PICK k \in 1 .. a + b : k = a + i /\ ~ k <= a /\ k - a = i
    OBVIOUS
  <2>2. (s \o t)[k] = t[k - a]
    BY <1>3, <2>1
  <2> QED BY <2>1, <2>2
<1> QED BY <1>1, <1>2, <1>4, <1>5, <1>6 DEF IsJoin

\* f cuts the sequence F into n pieces that end at e[1], ..., e[n].
Cuts(f, e, F, n) ==
  /\ e[0] = 0 /\ f = [c \in 1 .. n |-> f[c]]
  /\ \A c \in 1 .. n : /\ e[c] \in Nat /\ e[c - 1] \in Nat /\ e[c - 1] <= e[c]
                       /\ f[c] = [j \in 1 .. e[c] - e[c - 1] |-> F[e[c - 1] + j]]

\* g is the recursive function of FlattenSeq, up to n.
Flattening(g, f, n) == g = [i \in 1 .. n |-> IF i = 1 THEN f[i] ELSE g[i - 1] \o f[i]]

LEMMA FlatteningExists ==
  ASSUME NEW f, NEW n \in Nat
  PROVE  \E g : Flattening(g, f, n)
<1> DEFINE Made == {m \in Nat : \E g : Flattening(g, f, m)}
<1>1. 0 \in Made
  <2>1. Flattening([i \in 1 .. 0 |-> 0], f, 0)
    BY DEF Flattening
  <2> QED BY <2>1
<1>2. ASSUME NEW m \in Nat, m \in Made PROVE m + 1 \in Made
  <2>1. PICK g : Flattening(g, f, m)
    BY <1>2
  <2> DEFINE h == [i \in 1 .. m + 1 |-> IF i <= m THEN g[i] ELSE
                                        IF i = 1 THEN f[i] ELSE g[m] \o f[i]]
  <2>2. ASSUME NEW i \in 1 .. m + 1
        PROVE  h[i] = IF i = 1 THEN f[i] ELSE h[i - 1] \o f[i]
    <3>1. CASE i <= m
      <4>1. i \in 1 .. m /\ h[i] = g[i] /\ (i # 1 => h[i - 1] = g[i - 1])
        BY <3>1
      <4>2. g[i] = IF i = 1 THEN f[i] ELSE g[i - 1] \o f[i]
        BY <2>1, <4>1 DEF Flattening
      <4> QED BY <4>1, <4>2
    <3>2. CASE ~ i <= m
      <4>1. i = m + 1 /\ (i # 1 => h[i - 1] = g[m] /\ i - 1 = m)
        BY <3>2
      <4> QED BY <3>2, <4>1
    <3> QED BY <3>1, <3>2
  <2>3. Flattening(h, f, m + 1)
    <3> DEFINE k == [i \in 1 .. m + 1 |-> IF i = 1 THEN f[i] ELSE h[i - 1] \o f[i]]
    <3>1. \A i \in 1 .. m + 1 : h[i] = k[i]
      BY <2>2
    <3>2. h = k
      BY <3>1
    <3> QED BY <3>2 DEF Flattening
  <2> HIDE DEF h
  <2> QED BY <2>3
<1>3. Nat \subseteq Made
  <2> HIDE DEF Made
  <2> QED BY <1>1, <1>2, Induction
<1> QED BY <1>3

\* The first a elements of a sequence and the d behind them are the first a + d.
LEMMA CutsJoin ==
  ASSUME NEW F, NEW a \in Nat, NEW d \in Nat
  PROVE  [t \in 1 .. a |-> F[t]] \o [j \in 1 .. d |-> F[a + j]] = [t \in 1 .. a + d |-> F[t]]
<1>s. PICK s : s = [t \in 1 .. a |-> F[t]]
  OBVIOUS
<1>u. PICK u : u = [j \in 1 .. d |-> F[a + j]]
  OBVIOUS
<1>1. IsList(s, a) /\ IsList(u, d)
  BY <1>s, <1>u DEF IsList
<1>2. /\ \A t \in 1 .. a : s[t] = F[t]
      /\ \A i \in 1 .. d : u[i] = F[a + i]
  BY <1>s, <1>u
<1>3. /\ IsList(s \o u, a + d)
      /\ \A i \in 1 .. a : (s \o u)[i] = s[i]
      /\ \A i \in 1 .. d : (s \o u)[a + i] = u[i]
  <2>1. IsJoin(s \o u, s, u, a, d)
    BY <1>1, Joined, Zenon
  <2> QED BY <2>1 DEF IsJoin
<1>4. ASSUME NEW t \in 1 .. a + d PROVE (s \o u)[t] = F[t]
  <2>1. CASE t <= a
    <3>1. t \in 1 .. a
      BY <2>1
    <3> QED BY <1>2, <1>3, <3>1
  <2>2. CASE ~ t <= a
    <3>1. PICK i \in 1 .. d : a + i = t
      <4>1. t - a \in 1 .. d /\ a + (t - a) = t
        BY <2>2
      <4> QED BY <4>1
    <3> QED BY <1>2, <1>3, <3>1
  <2> QED BY <2>1, <2>2
<1>5. s \o u = [t \in 1 .. a + d |-> (s \o u)[t]]
  BY <1>3 DEF IsList
<1> DEFINE w == s \o u
<1>6. w = [t \in 1 .. a + d |-> w[t]] /\ \A t \in 1 .. a + d : w[t] = F[t]
  BY <1>4, <1>5
<1> HIDE DEF w
<1>7. w = [t \in 1 .. a + d |-> F[t]]
  BY <1>6
<1> QED BY <1>7, <1>s, <1>u DEF w

\* Flattening the pieces gives the sequence.
LEMMA FlattenCuts ==
  ASSUME NEW n \in Nat \ {0}, NEW f, NEW e, NEW F, Cuts(f, e, F, n)
  PROVE  FlattenSeq(f) = [t \in 1 .. e[n] |-> F[t]]
<1>1. e[0] = 0 /\ f = [c \in 1 .. n |-> f[c]]
  BY Zenon DEF Cuts
<1>2. \A c \in 1 .. n : /\ e[c] \in Nat /\ e[c - 1] \in Nat /\ e[c - 1] <= e[c]
                        /\ f[c] = [j \in 1 .. e[c] - e[c - 1] |-> F[e[c - 1] + j]]
  BY Zenon DEF Cuts
<1>3. Len(f) = n
  <2> DEFINE R == {f[b] : b \in 1 .. n}
  <2>1. \A b \in 1 .. n : f[b] \in R
    OBVIOUS
  <2> HIDE DEF R
  <2>2. f \in [1 .. n -> R]
    BY <1>1, <2>1
  <2>3. f \in Seq(R) /\ DOMAIN f = 1 .. n
    BY <2>2
  <2>4. DOMAIN f = 1 .. Len(f) /\ Len(f) \in Nat
    BY <2>3, LenProperties
  <2> QED BY <2>3, <2>4
<1> DEFINE g == CHOOSE g : Flattening(g, f, n)
<1>4. Flattening(g, f, n)
  BY FlatteningExists
<1>5. FlattenSeq(f) = g[n]
  BY <1>3 DEF FlattenSeq, Flattening
<1> HIDE DEF g
<1> DEFINE T == {m \in Nat : m + 1 <= n => g[m + 1] = [t \in 1 .. e[m + 1] |-> F[t]]}
<1>6. 0 \in T
  <2> SUFFICES ASSUME 1 <= n PROVE g[1] = [t \in 1 .. e[1] |-> F[t]]
    OBVIOUS
  <2>1. g[1] = f[1]
    BY <1>4 DEF Flattening
  <2>2. e[1] \in Nat /\ f[1] = [j \in 1 .. e[1] - e[0] |-> F[e[0] + j]]
    <3>1. 1 \in 1 .. n /\ 1 - 1 = 0
      OBVIOUS
    <3> QED BY <1>2, <3>1
  <2>3. [j \in 1 .. e[1] - 0 |-> F[0 + j]] = [t \in 1 .. e[1] |-> F[t]]
    BY <2>2
  <2> QED BY <1>1, <2>1, <2>2, <2>3
<1>7. ASSUME NEW i \in Nat, i \in T PROVE i + 1 \in T
  <2> SUFFICES ASSUME i + 1 + 1 <= n PROVE g[i + 1 + 1] = [t \in 1 .. e[i + 1 + 1] |-> F[t]]
    OBVIOUS
  <2>1. PICK a \in 1 .. n : a = i + 1 + 1 /\ a # 1 /\ a - 1 = i + 1
    OBVIOUS
  <2>2. g[a - 1] = [t \in 1 .. e[a - 1] |-> F[t]]
    BY <1>7, <2>1
  <2>3. g[a] = g[a - 1] \o f[a]
    <3>1. \A c \in 1 .. n : c # 1 => g[c] = g[c - 1] \o f[c]
      BY <1>4, Zenon DEF Flattening
    <3> QED BY <2>1, <3>1, Zenon
  <2>4. /\ e[a] \in Nat /\ e[a - 1] \in Nat /\ e[a - 1] <= e[a]
        /\ f[a] = [j \in 1 .. e[a] - e[a - 1] |-> F[e[a - 1] + j]]
    BY <1>2, <2>1, Zenon
  <2>5. PICK q \in Nat : q = e[a - 1]
    BY <2>4
  <2>6. PICK d \in Nat : d = e[a] - e[a - 1] /\ e[a] = q + d
    BY <2>4, <2>5
  <2>7. f[a] = [j \in 1 .. d |-> F[q + j]] /\ g[a - 1] = [t \in 1 .. q |-> F[t]]
    BY <2>2, <2>4, <2>5, <2>6, Zenon
  <2>8. g[a] = [t \in 1 .. e[a] |-> F[t]]
    <3>1. [t \in 1 .. q |-> F[t]] \o [j \in 1 .. d |-> F[q + j]] = [t \in 1 .. q + d |-> F[t]]
      BY CutsJoin
    <3>2. g[a] = [t \in 1 .. q + d |-> F[t]]
      BY <2>3, <2>7, <3>1
    <3> QED BY <2>6, <3>2
  <2> QED BY <2>1, <2>8
<1>8. Nat \subseteq T
  <2> HIDE DEF T
  <2> QED BY <1>6, <1>7, Induction
<1>9. n - 1 \in Nat /\ n - 1 + 1 = n
  OBVIOUS
<1> QED BY <1>5, <1>8, <1>9

\* Where the chunks of n tiles end.
Ends(n, size) == [c \in 0 .. (n + size - 1) \div size |-> IF c * size > n THEN n ELSE c * size]

\* h is k chunks of the tiles 1 .. n, which end at e[1], ..., e[k].
Chunked(k, e, h, n) ==
  /\ k \in Nat \ {0} /\ e[0] = 0 /\ e[k] = n /\ DOMAIN h = 1 .. k
  /\ \A c \in 1 .. k :
       /\ e[c] \in Nat /\ e[c - 1] \in Nat /\ e[c - 1] <= e[c]
       /\ h[c] = [i \in 1 .. e[c] - e[c - 1] |-> e[c - 1] + i]

LEMMA ChunkIs ==
  ASSUME NEW n \in Nat \ {0}, NEW size \in Nat \ {0}, NEW k, k = (n + size - 1) \div size
  PROVE  Chunked(k, Ends(n, size), Chunk(n, size), n)
<1>1. k \in Nat /\ n + size - 1 = size * k + ((n + size - 1) % size)
      /\ (n + size - 1) % size \in 0 .. size - 1
  BY SMT
<1>2. PICK r \in 0 .. size - 1 : n + size - 1 = size * k + r
  BY <1>1
<1>3. size * k \in Nat /\ n <= size * k /\ size * k < n + size
  BY <1>1, <1>2, SMT
<1>4. k # 0
  <2>1. k = 0 => size * k = 0
    BY SMT
  <2> QED BY <1>3, <2>1
<1>5. \A c \in 0 .. k : Ends(n, size)[c] = IF c * size > n THEN n ELSE c * size
  BY DEF Ends
<1>6. DOMAIN Chunk(n, size) = 1 .. k
  BY DEF Chunk
<1>7. ASSUME NEW c \in 0 .. k - 1
      PROVE  c * size \in Nat /\ c * size < n /\ (c + 1) * size = c * size + size
  <2>1. PICK x \in Nat : k = c + 1 + x
    <3>1. k - c - 1 \in Nat /\ k = c + 1 + (k - c - 1)
      BY <1>1
    <3> QED BY <3>1
  <2>2. size * k = c * size + size + x * size
    BY <2>1, SMT
  <2>3. x * size \in Nat /\ c * size \in Nat /\ (c + 1) * size = c * size + size
    BY <2>1, SMT
  <2> QED BY <1>3, <2>2, <2>3
<1>8. Ends(n, size)[0] = 0
  <2>1. 0 * size = 0 /\ 0 \in 0 .. k
    BY <1>1, SMT
  <2> QED BY <1>5, <2>1
<1>9. Ends(n, size)[k] = n
  <2>1. k * size = size * k /\ k \in 0 .. k
    BY <1>1, SMT
  <2> QED BY <1>3, <1>5, <2>1
<1>10. ASSUME NEW c \in 1 .. k
       PROVE  /\ Ends(n, size)[c] \in Nat /\ Ends(n, size)[c - 1] \in Nat
              /\ Ends(n, size)[c - 1] <= Ends(n, size)[c]
              /\ Chunk(n, size)[c] = [i \in 1 .. Ends(n, size)[c] - Ends(n, size)[c - 1] |->
                                        Ends(n, size)[c - 1] + i]
  <2>1. PICK b \in 0 .. k - 1 : b = c - 1 /\ b + 1 = c
    BY <1>1
  <2>2. PICK x \in Nat : x = b * size /\ x < n /\ c * size = x + size
    BY <1>7, <2>1
  <2>3. c \in 0 .. k /\ b \in 0 .. k
    BY <1>1, <2>1
  <2>4. PICK y \in Nat : y = Ends(n, size)[c] /\ y = IF x + size > n THEN n ELSE x + size
    BY <1>5, <2>2, <2>3
  <2>5. Ends(n, size)[b] = x
    BY <1>5, <2>2, <2>3
  <2>6. (c - 1) * size = x
    BY <2>1, <2>2
  <2>7. Chunk(n, size)[c] = [i \in 1 .. IF x + size > n THEN n - x ELSE size |-> x + i]
    BY <2>2, <2>6, <1>6, Zenon DEF Chunk
  <2>8. y - x = IF x + size > n THEN n - x ELSE size
    BY <2>4
  <2>9. Chunk(n, size)[c] = [i \in 1 .. y - x |-> x + i]
    BY <2>7, <2>8
  <2>10. x <= y
    BY <2>2, <2>4
  <2> QED BY <2>1, <2>4, <2>5, <2>9, <2>10
<1> QED BY <1>1, <1>4, <1>6, <1>8, <1>9, <1>10 DEF Chunked

\* One launch for K and V, or two: the outputs are those of the tiles given.
LEMMA LaunchIs ==
  ASSUME NEW ts, NEW m \in Nat, IsList(ts, m)
  PROVE  /\ Launch(ts).K = [i \in 1 .. m |-> <<"K", ts[i]>>]
         /\ Launch(ts).V = [i \in 1 .. m |-> <<"V", ts[i]>>]
<1>1. Len(ts) = m
  <2>1. IsList(<<>>, 0)
    BY DEF IsList
  <2>2. IsJoin(ts \o <<>>, ts, <<>>, m, 0)
    BY <2>1, Joined, Zenon
  <2> QED BY <2>2 DEF IsJoin
<1>k. PICK k : k = [i \in 1 .. m |-> <<"K", ts[i]>>]
  OBVIOUS
<1>v. PICK v : v = [i \in 1 .. m |-> <<"V", ts[i]>>]
  OBVIOUS
<1>2. Launch(ts) = IF cfg.D = cfg.G THEN Cut(k \o v) ELSE [K |-> k, V |-> v]
  BY <1>1, <1>k, <1>v DEF Launch
<1>3. CASE cfg.D # cfg.G
  BY <1>2, <1>3, <1>k, <1>v
<1>4. CASE cfg.D = cfg.G
  <2>1. IsList(k, m) /\ IsList(v, m)
    BY <1>k, <1>v DEF IsList
  <2>2. IsJoin(k \o v, k, v, m, m)
    BY <2>1, Joined, Zenon
  <2>3. IsList(k \o v, m + m)
    BY <2>2 DEF IsJoin
  <2>4. PICK w : w = k \o v
    OBVIOUS
  <2>5. Len(w) = m + m
    <3>1. IsList(<<>>, 0)
      BY DEF IsList
    <3>2. PICK l \in Nat : l = m + m
      OBVIOUS
    <3>3. IsList(w, l)
      BY <2>3, <2>4, <3>2
    <3>4. IsJoin(w \o <<>>, w, <<>>, l, 0)
      BY <3>1, <3>3, Joined, Zenon
    <3> QED BY <3>2, <3>4 DEF IsJoin
  <2>6. Len(w) \div 2 = m
    BY <2>5
  <2>7. Launch(ts).K = SubSeq(w, 1, m) /\ Launch(ts).V = SubSeq(w, m + 1, m + m)
    BY <1>2, <1>4, <2>4, <2>5, <2>6 DEF Cut
  <2>8. SubSeq(w, 1, m) = [i \in 1 .. m |-> w[i]]
    BY SMT
  <2>9. SubSeq(w, m + 1, m + m) = [i \in 1 .. m |-> w[m + i]]
    BY SMT
  <2>10. \A i \in 1 .. m : w[i] = <<"K", ts[i]>> /\ w[m + i] = <<"V", ts[i]>>
    BY <2>2, <2>4, <1>k, <1>v DEF IsJoin
  <2> QED BY <2>7, <2>8, <2>9, <2>10
<1> QED BY <1>3, <1>4

\* However the tiles are cut into launches, each tile comes back in its place.
LEMMA OutputsAre ==
  ASSUME NTiles \in Nat \ {0}, NEW size \in Nat \ {0}
  PROVE  /\ Outputs(size).K = [t \in 1 .. NTiles |-> <<"K", t>>]
         /\ Outputs(size).V = [t \in 1 .. NTiles |-> <<"V", t>>]
<1> DEFINE n == NTiles
           e == Ends(n, size)
           h == Chunk(n, size)
<1>1. PICK k : k = (n + size - 1) \div size
  OBVIOUS
<1>2. /\ k \in Nat \ {0} /\ e[0] = 0 /\ e[k] = n /\ DOMAIN h = 1 .. k
      /\ \A c \in 1 .. k :
           /\ e[c] \in Nat /\ e[c - 1] \in Nat /\ e[c - 1] <= e[c]
           /\ h[c] = [i \in 1 .. e[c] - e[c - 1] |-> e[c - 1] + i]
  <2>1. Chunked(k, e, h, n)
    BY <1>1, ChunkIs, Zenon
  <2> HIDE DEF e, h, n
  <2> QED BY <2>1, Zenon DEF Chunked
<1> HIDE DEF e
<1>o. PICK outs : outs = [c \in 1 .. k |-> Launch(h[c])]
  OBVIOUS
<1>3. Outputs(size) = [K |-> FlattenSeq([c \in 1 .. k |-> outs[c].K]),
                       V |-> FlattenSeq([c \in 1 .. k |-> outs[c].V])]
  <2>1. outs = [c \in DOMAIN h |-> Launch(h[c])] /\ DOMAIN outs = 1 .. k
    BY <1>2, <1>o
  <2> QED BY <2>1 DEF Outputs
<1> HIDE DEF h, n
<1>4. ASSUME NEW c \in 1 .. k
      PROVE  \E m \in Nat : m = e[c] - e[c - 1] /\ IsList(h[c], m)
                            /\ \A i \in 1 .. m : h[c][i] = e[c - 1] + i
  <2>1. PICK m \in Nat : m = e[c] - e[c - 1]
    BY <1>2
  <2>2. h[c] = [i \in 1 .. m |-> e[c - 1] + i]
    BY <1>2, <2>1, Zenon
  <2>3. IsList(h[c], m) /\ \A i \in 1 .. m : h[c][i] = e[c - 1] + i
    BY <2>2 DEF IsList
  <2> QED BY <2>1, <2>3
<1> DEFINE Pieces(f, side) ==
             /\ f = [c \in 1 .. k |-> f[c]]
             /\ \A c \in 1 .. k : f[c] = [i \in 1 .. e[c] - e[c - 1] |-> <<side, h[c][i]>>]
<1>5. ASSUME NEW side, NEW f, Pieces(f, side)
      PROVE  FlattenSeq(f) = [t \in 1 .. n |-> <<side, t>>]
  <2> DEFINE F == [t \in 1 .. n |-> <<side, t>>]
  <2>1. ASSUME NEW c \in 1 .. k, NEW i \in 1 .. e[c] - e[c - 1]
        PROVE  <<side, h[c][i]>> = F[e[c - 1] + i]
    <3>1. e[c] <= n
      <4> DEFINE T == {j \in Nat : j <= k => e[k - j] <= n}
      <4>1. 0 \in T
        <5>1. k - 0 = k /\ e[k] <= n
          <6>1. k - 0 = k
            BY <1>2
          <6>2. e[k] = n /\ n \in Nat
            BY <1>2 DEF n
          <6> QED BY <6>1, <6>2
        <5> QED BY <5>1
      <4>2. ASSUME NEW j \in Nat, j \in T PROVE j + 1 \in T
        <5> SUFFICES ASSUME j + 1 <= k PROVE e[k - (j + 1)] <= n
          OBVIOUS
        <5>1. PICK b \in 1 .. k : b = k - j /\ b - 1 = k - (j + 1)
          BY <1>2
        <5>2. e[b] <= n /\ e[b - 1] <= e[b] /\ e[b] \in Nat /\ e[b - 1] \in Nat
          BY <1>2, <4>2, <5>1
        <5>3. n \in Nat
          BY DEF n
        <5>4. e[b - 1] <= n
          BY <5>2, <5>3
        <5> QED BY <5>1, <5>4
      <4>3. Nat \subseteq T
        <5> HIDE DEF T
        <5> QED BY <4>1, <4>2, Induction
      <4>4. PICK j \in Nat : j = k - c /\ k - j = c /\ j <= k
        <5>1. k - c \in Nat /\ k - (k - c) = c /\ k - c <= k
          BY <1>2
        <5> QED BY <5>1
      <4> QED BY <4>3, <4>4
    <3>2. e[c - 1] \in Nat /\ e[c] \in Nat /\ n \in Nat
      BY <1>2 DEF n
    <3>3. e[c - 1] + i \in 1 .. n
      BY <3>1, <3>2
    <3>4. h[c][i] = e[c - 1] + i
      BY <1>4
    <3> QED BY <1>5, <3>3, <3>4
  <2>2. \A c \in 1 .. k : f[c] = [i \in 1 .. e[c] - e[c - 1] |-> F[e[c - 1] + i]]
    <3> TAKE c \in 1 .. k
    <3>1. [i \in 1 .. e[c] - e[c - 1] |-> <<side, h[c][i]>>]
            = [i \in 1 .. e[c] - e[c - 1] |-> F[e[c - 1] + i]]
      BY <2>1, Zenon
    <3> QED BY <1>5, <3>1, Zenon
  <2>3. Cuts(f, e, F, k)
    BY <1>2, <1>5, <2>2 DEF Cuts
  <2>4. F = [t \in 1 .. n |-> F[t]]
    OBVIOUS
  <2>5. FlattenSeq(f) = F
    <3> HIDE DEF F
    <3>1. FlattenSeq(f) = [t \in 1 .. e[k] |-> F[t]]
      BY <1>2, <2>3, FlattenCuts
    <3> QED BY <1>2, <2>4, <3>1
  <2> QED BY <2>5
<1>6. ASSUME NEW c \in 1 .. k
      PROVE  /\ outs[c].K = [i \in 1 .. e[c] - e[c - 1] |-> <<"K", h[c][i]>>]
             /\ outs[c].V = [i \in 1 .. e[c] - e[c - 1] |-> <<"V", h[c][i]>>]
  <2>1. PICK m \in Nat : m = e[c] - e[c - 1] /\ IsList(h[c], m)
    BY <1>4
  <2>2. outs[c] = Launch(h[c])
    BY <1>o
  <2>3. /\ Launch(h[c]).K = [i \in 1 .. m |-> <<"K", h[c][i]>>]
        /\ Launch(h[c]).V = [i \in 1 .. m |-> <<"V", h[c][i]>>]
    BY <2>1, LaunchIs, Zenon
  <2> QED BY <2>1, <2>2, <2>3
<1>7. PICK fk : fk = [c \in 1 .. k |-> outs[c].K]
  OBVIOUS
<1>8. PICK fv : fv = [c \in 1 .. k |-> outs[c].V]
  OBVIOUS
<1>9. Pieces(fk, "K")
  BY <1>6, <1>7
<1>10. Pieces(fv, "V")
  BY <1>6, <1>8
<1>11. /\ FlattenSeq(fk) = [t \in 1 .. n |-> <<"K", t>>]
       /\ FlattenSeq(fv) = [t \in 1 .. n |-> <<"V", t>>]
  <2> HIDE DEF Pieces
  <2> QED BY <1>5, <1>9, <1>10
<1> QED BY <1>3, <1>7, <1>8, <1>11 DEF n

-----------------------------------------------------------------------------
(* The fields of a tile.                                                   *)

\* Groups and heads in fours: codes fill their bytes, and their fields whole
\* half words.
InFours(c) == c.G % 4 = 0 /\ c.D % 4 = 0

Even(n) == \E h \in Nat : n = 2 * h

\* n rows of m codes of so many bits fill an even number of whole bytes.
CodesFill(n, m, bits) ==
  /\ 8 \div bits \in {2, 4} /\ m \div (8 \div bits) \in Nat \ {0}
  /\ m = (8 \div bits) * (m \div (8 \div bits))
  /\ (n * m * bits + 7) \div 8 = n * (m \div (8 \div bits))
  /\ Even(n * (m \div (8 \div bits)))

LEMMA CodeBytes ==
  ASSUME NEW n \in Nat \ {0}, NEW m \in Nat \ {0}, n % 4 = 0, m % 4 = 0, NEW bits \in {2, 4}
  PROVE  CodesFill(n, m, bits)
<1>1. PICK a \in Nat \ {0}, b \in Nat \ {0} : n = 4 * a /\ m = 4 * b
  <2>1. n \div 4 \in Nat \ {0} /\ n = 4 * (n \div 4) /\ m \div 4 \in Nat \ {0}
        /\ m = 4 * (m \div 4)
    OBVIOUS
  <2> QED BY <2>1
<1>2. PICK x \in Nat : x = a * b
  BY SMT
<1>3. CASE bits = 2
  <2>1. 8 \div bits = 4 /\ m \div 4 = b
    BY <1>1, <1>3
  <2>2. n * b = 4 * x
    BY <1>1, <1>2, SMT
  <2>3. n * m * bits = 32 * x
    <3>1. n * m = 16 * x
      BY <1>1, <1>2, SMT
    <3> QED BY <1>3, <3>1
  <2>4. (32 * x + 7) \div 8 = 4 * x /\ 4 * x = 2 * (2 * x) /\ 2 * x \in Nat
    OBVIOUS
  <2>5. Even(n * (m \div (8 \div bits)))
    BY <2>1, <2>2, <2>4 DEF Even
  <2> QED BY <1>1, <2>1, <2>2, <2>3, <2>4, <2>5 DEF CodesFill
<1>4. CASE bits = 4
  <2>1. 8 \div bits = 2 /\ m \div 2 = 2 * b
    BY <1>1, <1>4
  <2>2. n * (2 * b) = 8 * x
    BY <1>1, <1>2, SMT
  <2>3. n * m * bits = 64 * x
    <3>1. n * m = 16 * x
      BY <1>1, <1>2, SMT
    <3> QED BY <1>4, <3>1
  <2>4. (64 * x + 7) \div 8 = 8 * x /\ 8 * x = 2 * (4 * x) /\ 4 * x \in Nat
    OBVIOUS
  <2>5. Even(n * (m \div (8 \div bits)))
    BY <2>1, <2>2, <2>4 DEF Even
  <2> QED BY <1>1, <2>1, <2>2, <2>3, <2>4, <2>5 DEF CodesFill
<1> QED BY <1>3, <1>4

\* Element and rest of a row-major number.
LEMMA RowAndColumn ==
  ASSUME NEW w \in Nat \ {0}, NEW r \in Nat, NEW i \in 0 .. w - 1
  PROVE  r * w + i \in Nat /\ (r * w + i) \div w = r /\ (r * w + i) % w = i
<1>1. PICK x \in Nat : x = r * w + i
  <2>1. r * w \in Nat
    BY SMT
  <2> QED BY <2>1
<1>2. PICK q \in Int : q = x \div w
  BY <1>1, SMT
<1>3. PICK k \in 0 .. w - 1 : k = x % w
  BY <1>1, SMT
<1>4. x = w * q + k
  BY <1>1, <1>2, <1>3, SMT
<1>5. q \in Nat
  BY <1>1, <1>2, SMT
<1>6. q * w + k = r * w + i
  <2>1. w * q = q * w
    BY <1>2, SMT
  <2> QED BY <1>1, <1>4, <2>1
<1>7. q = r /\ k = i
  BY <1>5, <1>6, RowMajor
<1> QED BY <1>1, <1>2, <1>3, <1>7

\* What both readers compute: byte and place in it of the code of row r,
\* column c.
LEMMA PackedHas ==
  ASSUME NEW s \in Sides, NEW t, cfg \in Config, InFours(cfg),
         NEW r \in 0 .. Rows(s) - 1, NEW c \in 0 .. Cols(s) - 1
  PROVE  /\ r * (Cols(s) \div (8 \div Bits(s))) + c \div (8 \div Bits(s)) + 1
              \in 1 .. Rows(s) * (Cols(s) \div (8 \div Bits(s)))
         /\ Packed(s, t)[r * (Cols(s) \div (8 \div Bits(s))) + c \div (8 \div Bits(s)) + 1]
                        [c % (8 \div Bits(s))] = Code(s, t, r, c)
<1> DEFINE n == Rows(s)
           m == Cols(s)
           p == 8 \div Bits(s)
           w == Cols(s) \div (8 \div Bits(s))
<1>1. n \in Nat \ {0} /\ m \in Nat \ {0} /\ n % 4 = 0 /\ m % 4 = 0 /\ Bits(s) \in {2, 4}
  BY SizesAreNat DEF InFours, Rows, Cols, Bits, Sides
<1>2. p \in {2, 4} /\ w \in Nat \ {0} /\ m = p * w
  BY <1>1, CodeBytes, Zenon DEF CodesFill
<1>3. Packed(s, t) = [i \in 1 .. n * w |-> [j \in 0 .. p - 1 |->
                        Code(s, t, (i - 1) \div w, ((i - 1) % w) * p + j)]]
  BY Zenon DEF Packed
<1>4. r \in 0 .. n - 1 /\ c \in 0 .. m - 1
  OBVIOUS
<1> HIDE DEF n, m, p, w
<1>5. PICK b \in 0 .. w - 1, j \in 0 .. p - 1 :
        b = c \div p /\ j = c % p /\ c = p * b + j
  <2>1. CASE p = 2
    BY <1>1, <1>2, <1>4, <2>1
  <2>2. CASE p = 4
    BY <1>1, <1>2, <1>4, <2>2
  <2> QED BY <1>2, <2>1, <2>2
<1>6. r * w + b \in Nat /\ r * w + b < n * w /\ n * w \in Nat
  <2>1. n * w \in Nat
    BY <1>1, <1>2, SMT
  <2> QED BY <1>1, <1>2, <1>4, <2>1, RowMajorFits
<1>7. (r * w + b) \div w = r /\ (r * w + b) % w = b
  <2>1. r \in Nat
    BY <1>1, <1>4
  <2> QED BY <1>2, <2>1, RowAndColumn
<1>8. PICK i \in 1 .. n * w : i - 1 = r * w + b /\ i = r * w + b + 1
  <2>1. PICK x \in Nat : x = r * w + b
    BY <1>6
  <2>2. x + 1 \in 1 .. n * w /\ x + 1 - 1 = x
    BY <1>6, <2>1
  <2> QED BY <2>1, <2>2
<1>9. Packed(s, t)[i][j] = Code(s, t, (i - 1) \div w, ((i - 1) % w) * p + j)
  <2>1. Packed(s, t)[i] = [l \in 0 .. p - 1 |-> Code(s, t, (i - 1) \div w, ((i - 1) % w) * p + l)]
    BY <1>3, <1>8, Zenon
  <2> QED BY <1>5, <2>1, Zenon
<1>10. ((i - 1) % w) * p + j = c
  <2>1. b * p + j = c
    <3>1. b * p = p * b
      BY <1>2, <1>5, SMT
    <3> QED BY <1>5, <3>1
  <2> QED BY <1>7, <1>8, <2>1
<1>11. Packed(s, t)[i][j] = Code(s, t, r, c)
  BY <1>7, <1>8, <1>9, <1>10
<1> QED BY <1>5, <1>8, <1>11 DEF n, m, p, w

\* Half word i of a field of half words, byte by byte.
LEMMA HalvesHave ==
  ASSUME NEW v, NEW n \in Nat, NEW i \in 0 .. n - 1
  PROVE  /\ 2 * i + 1 \in 1 .. 2 * n /\ 2 * i + 2 \in 1 .. 2 * n
         /\ Halves(v, n)[2 * i + 1] = <<v[i], 0>> /\ Halves(v, n)[2 * i + 2] = <<v[i], 1>>
<1>1. 2 * i + 1 \in 1 .. 2 * n /\ 2 * i + 2 \in 1 .. 2 * n
  OBVIOUS
<1>2. PICK k \in 1 .. 2 * n : k = 2 * i + 1 /\ (k - 1) \div 2 = i /\ (k - 1) % 2 = 0
  OBVIOUS
<1>3. PICK l \in 1 .. 2 * n : l = 2 * i + 2 /\ (l - 1) \div 2 = i /\ (l - 1) % 2 = 1
  OBVIOUS
<1>4. Halves(v, n) = [x \in 1 .. 2 * n |-> <<v[(x - 1) \div 2], (x - 1) % 2>>]
  BY Zenon DEF Halves
<1>5. Halves(v, n)[k] = <<v[(k - 1) \div 2], (k - 1) % 2>>
  BY <1>4, Zenon
<1>6. Halves(v, n)[l] = <<v[(l - 1) \div 2], (l - 1) % 2>>
  BY <1>4, Zenon
<1>7. Halves(v, n)[k] = <<v[i], 0>> /\ Halves(v, n)[l] = <<v[i], 1>>
  BY <1>2, <1>3, <1>5, <1>6, Zenon
<1> QED BY <1>1, <1>2, <1>3, <1>7

-----------------------------------------------------------------------------
(* The two writers.                                                        *)

\* The fields of tile t, by name.
TileFields(t) ==
  [kq |-> Packed("K", t), kc |-> RowHalves("K", t, "scale"),
   kz |-> RowHalves("K", t, "zero"), kr |-> ColHalves("K", t),
   vq |-> Packed("V", t), vc |-> ColHalves("V", t),
   vr |-> RowHalves("V", t, "scale"), vz |-> RowHalves("V", t, "zero")]

Begin(j) == Offset(cfg)[Order[j]]
Bytes(j) == Size(cfg)[Order[j]]
Field(t, j) == TileFields(t)[Order[j]]

LEMMA HalvesAreList ==
  ASSUME NEW v, NEW n
  PROVE  IsList(Halves(v, n), 2 * n)
<1>1. PICK h : h = [i \in 1 .. 2 * n |-> <<v[(i - 1) \div 2], (i - 1) % 2>>]
  OBVIOUS
<1>2. h = [i \in 1 .. 2 * n |-> h[i]]
  BY <1>1
<1> QED BY <1>1, <1>2, Zenon DEF IsList, Halves

\* Offsets and sizes in order, and the fields as long as their sizes.
LEMMA FieldsFit ==
  ASSUME cfg \in Config, InFours(cfg), NEW t
  PROVE  /\ Begin(1) = 0
         /\ \A j \in 1 .. 8 : Begin(j) \in Nat /\ Bytes(j) \in Nat
                              /\ IsList(Field(t, j), Bytes(j))
         /\ \A j \in 1 .. 7 : Begin(j) + Bytes(j) = Begin(j + 1)
         /\ Begin(8) + Bytes(8) = TileBytes(cfg)
<1> DEFINE D == cfg.D
           G1 == cfg.G
<1>1. /\ D \in Nat \ {0} /\ G1 \in Nat \ {0} /\ cfg.kb \in {2, 4} /\ cfg.vb \in {2, 4}
      /\ KPackedBytes(cfg) \in Nat /\ VPackedBytes(cfg) \in Nat
  BY SizesAreNat
<1>2. Begin(1) = 0 /\ Begin(8) + Bytes(8) = TileBytes(cfg)
  BY FieldsInOrder DEF Begin, Bytes, Order
<1>3. \A j \in 1 .. 7 : Begin(j) + Bytes(j) = Begin(j + 1)
  BY FieldsInOrder DEF Begin, Bytes
<1>4. /\ Bytes(1) = KPackedBytes(cfg) /\ Bytes(2) = D * 2 /\ Bytes(3) = D * 2
      /\ Bytes(4) = G1 * 2 /\ Bytes(5) = VPackedBytes(cfg) /\ Bytes(6) = D * 2
      /\ Bytes(7) = G1 * 2 /\ Bytes(8) = G1 * 2
  BY DEF Bytes, Order, Size
<1>5. \A j \in 1 .. 8 : Bytes(j) \in Nat
  <2>1. D * 2 \in Nat /\ G1 * 2 \in Nat
    BY <1>1
  <2> QED BY <1>1, <1>4, <2>1
<1>6. \A j \in 1 .. 8 : Begin(j) \in Nat
  <2>1. Begin(1) \in Nat
    BY <1>2
  <2>2. \A j \in 1 .. 7 : Begin(j) \in Nat => Begin(j + 1) \in Nat
    BY <1>3, <1>5
  <2>3. Begin(2) \in Nat /\ Begin(3) \in Nat
    BY <2>1, <2>2
  <2>4. Begin(4) \in Nat /\ Begin(5) \in Nat
    BY <2>2, <2>3
  <2>5. Begin(6) \in Nat /\ Begin(7) \in Nat
    BY <2>2, <2>4
  <2>6. Begin(8) \in Nat
    BY <2>2, <2>5
  <2> QED BY <2>1, <2>3, <2>4, <2>5, <2>6
<1>7. KPackedBytes(cfg) = D * (G1 \div (8 \div cfg.kb))
      /\ VPackedBytes(cfg) = G1 * (D \div (8 \div cfg.vb))
  <2>1. D % 4 = 0 /\ G1 % 4 = 0
    BY DEF InFours
  <2>2. KPackedBytes(cfg) = D * (G1 \div (8 \div cfg.kb))
    <3>1. PICK d, g, k : d = D /\ g = G1 /\ k = cfg.kb
      OBVIOUS
    <3>2. d \in Nat \ {0} /\ g \in Nat \ {0} /\ k \in {2, 4} /\ d % 4 = 0 /\ g % 4 = 0
      BY <1>1, <2>1, <3>1
    <3>c. CodesFill(d, g, k)
      BY <3>2, CodeBytes, Zenon
    <3>3. (d * g * k + 7) \div 8 = d * (g \div (8 \div k))
      BY <3>c, Zenon DEF CodesFill
    <3> QED BY <3>1, <3>3, Zenon DEF KPackedBytes
  <2>3. VPackedBytes(cfg) = G1 * (D \div (8 \div cfg.vb))
    BY <1>1, <2>1, CodeBytes, Zenon DEF CodesFill, VPackedBytes
  <2> QED BY <2>2, <2>3
<1>8. /\ Rows("K") = D /\ Cols("K") = G1 /\ Bits("K") = cfg.kb
      /\ Rows("V") = G1 /\ Cols("V") = D /\ Bits("V") = cfg.vb
  BY DEF Rows, Cols, Bits
<1>9. D * 2 = 2 * D /\ G1 * 2 = 2 * G1
  BY <1>1
<1>10. IsList(Packed("K", t), KPackedBytes(cfg)) /\ IsList(Packed("V", t), VPackedBytes(cfg))
  <2> HIDE DEF D, G1
  <2>1. \A s, n : n = Rows(s) * (Cols(s) \div (8 \div Bits(s))) => IsList(Packed(s, t), n)
    BY Zenon DEF Packed, IsList
  <2> QED BY <1>7, <1>8, <2>1
<1>11. \A s, kind : IsList(RowHalves(s, t, kind), 2 * Rows(s))
  BY HalvesAreList, Zenon DEF RowHalves
<1>12. \A s : IsList(ColHalves(s, t), 2 * Cols(s))
  BY HalvesAreList, Zenon DEF ColHalves
<1>13. /\ Field(t, 1) = Packed("K", t) /\ Field(t, 2) = RowHalves("K", t, "scale")
       /\ Field(t, 3) = RowHalves("K", t, "zero") /\ Field(t, 4) = ColHalves("K", t)
       /\ Field(t, 5) = Packed("V", t) /\ Field(t, 6) = ColHalves("V", t)
       /\ Field(t, 7) = RowHalves("V", t, "scale") /\ Field(t, 8) = RowHalves("V", t, "zero")
  BY DEF Field, TileFields, Order
<1>14. \A j \in 1 .. 8 : IsList(Field(t, j), Bytes(j))
  <2> HIDE DEF D, G1
  <2>1. IsList(Field(t, 1), Bytes(1)) /\ IsList(Field(t, 5), Bytes(5))
    BY <1>4, <1>10, <1>13
  <2>2. IsList(Field(t, 2), Bytes(2)) /\ IsList(Field(t, 3), Bytes(3))
        /\ IsList(Field(t, 7), Bytes(7)) /\ IsList(Field(t, 8), Bytes(8))
    BY <1>4, <1>8, <1>9, <1>11, <1>13
  <2>3. IsList(Field(t, 4), Bytes(4)) /\ IsList(Field(t, 6), Bytes(6))
    BY <1>4, <1>8, <1>9, <1>12, <1>13
  <2> QED BY <2>1, <2>2, <2>3
<1> QED BY <1>2, <1>3, <1>5, <1>6, <1>14

\* A record that holds the first k fields of tile t at their offsets.
HoldsFields(rec, t, k) ==
  \A j \in 1 .. k : \A i \in 1 .. Bytes(j) : rec[Begin(j) + i] = Field(t, j)[i]

\* A field ends before a later one begins.
LEMMA FieldsApart ==
  ASSUME cfg \in Config, InFours(cfg), NEW i \in 1 .. 8, NEW j \in 1 .. 8, i < j
  PROVE  Begin(i) + Bytes(i) <= Begin(j)
<1>1. /\ \A k \in 1 .. 8 : Begin(k) \in Nat /\ Bytes(k) \in Nat
      /\ \A k \in 1 .. 7 : Begin(k) + Bytes(k) = Begin(k + 1)
  BY FieldsFit
<1> DEFINE T == {d \in Nat : i + 1 + d <= 8 => Begin(i) + Bytes(i) <= Begin(i + 1 + d)}
<1>2. 0 \in T
  <2> SUFFICES ASSUME i + 1 + 0 <= 8 PROVE Begin(i) + Bytes(i) <= Begin(i + 1 + 0)
    OBVIOUS
  <2>1. i \in 1 .. 7 /\ i + 1 + 0 = i + 1 /\ i + 1 \in 1 .. 8
    OBVIOUS
  <2> QED BY <1>1, <2>1
<1>3. ASSUME NEW d \in Nat, d \in T PROVE d + 1 \in T
  <2> SUFFICES ASSUME i + 1 + (d + 1) <= 8
               PROVE  Begin(i) + Bytes(i) <= Begin(i + 1 + (d + 1))
    OBVIOUS
  <2>1. PICK k \in 1 .. 7 : k = i + 1 + d /\ k + 1 = i + 1 + (d + 1)
    OBVIOUS
  <2>2. Begin(i) + Bytes(i) <= Begin(k)
    BY <1>3, <2>1
  <2>3. Begin(k) + Bytes(k) = Begin(k + 1) /\ Begin(k) \in Nat /\ Bytes(k) \in Nat
        /\ Begin(i) \in Nat /\ Bytes(i) \in Nat
    BY <1>1
  <2>4. Begin(i) + Bytes(i) <= Begin(k + 1)
    BY <2>2, <2>3
  <2> QED BY <2>1, <2>4
<1>4. Nat \subseteq T
  <2> HIDE DEF T
  <2> QED BY <1>2, <1>3, Induction
<1>5. PICK d \in Nat : d = j - i - 1 /\ i + 1 + d = j
  <2>1. j - i - 1 \in Nat /\ i + 1 + (j - i - 1) = j
    OBVIOUS
  <2> QED BY <2>1
<1> QED BY <1>4, <1>5

\* One field more.
LEMMA NextField ==
  ASSUME cfg \in Config, InFours(cfg), NEW t, NEW k \in 1 .. 7, NEW rec,
         IsList(rec, Begin(k) + Bytes(k)), HoldsFields(rec, t, k)
  PROVE  /\ IsList(rec \o Field(t, k + 1), Begin(k + 1) + Bytes(k + 1))
         /\ HoldsFields(rec \o Field(t, k + 1), t, k + 1)
<1>1. /\ \A j \in 1 .. 8 : Begin(j) \in Nat /\ Bytes(j) \in Nat
                           /\ IsList(Field(t, j), Bytes(j))
      /\ Begin(k) + Bytes(k) = Begin(k + 1) /\ k + 1 \in 1 .. 8
  BY FieldsFit
<1>2. PICK a \in Nat : a = Begin(k + 1)
  BY <1>1
<1>3. PICK b \in Nat : b = Bytes(k + 1)
  BY <1>1
<1>4. PICK f : f = Field(t, k + 1)
  OBVIOUS
<1>5. IsList(rec, a) /\ IsList(f, b)
  BY <1>1, <1>2, <1>3, <1>4
<1>6. IsJoin(rec \o f, rec, f, a, b)
  BY <1>5, Joined, Zenon
<1>7. ASSUME NEW j \in 1 .. k + 1, NEW i \in 1 .. Bytes(j)
      PROVE  (rec \o f)[Begin(j) + i] = Field(t, j)[i]
  <2>1. CASE j = k + 1
    BY <1>2, <1>3, <1>4, <1>6, <2>1 DEF IsJoin
  <2>2. CASE j # k + 1
    <3>1. j \in 1 .. k /\ j \in 1 .. 8 /\ j < k + 1
      BY <2>2
    <3>2. Begin(j) \in Nat /\ Bytes(j) \in Nat /\ Begin(j) + Bytes(j) <= a
      BY <1>1, <1>2, <3>1, FieldsApart
    <3>3. Begin(j) + i \in 1 .. a
      BY <3>2
    <3>4. (rec \o f)[Begin(j) + i] = rec[Begin(j) + i]
      BY <1>6, <3>3, Zenon DEF IsJoin
    <3> QED BY <3>1, <3>4 DEF HoldsFields
  <2> QED BY <2>1, <2>2
<1> QED BY <1>2, <1>3, <1>4, <1>6, <1>7 DEF IsJoin, HoldsFields

\* _batched_flush writes every field at its offset.
LEMMA ConcatenatedHolds ==
  ASSUME cfg \in Config, InFours(cfg), NEW t
  PROVE  HoldsFields(Concatenated(KFields(<<"K", t>>), VFields(<<"V", t>>)), t, 8)
<1> DEFINE F(j) == Field(t, j)
           Good(rec, k) == IsList(rec, Begin(k) + Bytes(k)) /\ HoldsFields(rec, t, k)
<1>1. ASSUME NEW k \in 1 .. 7, NEW rec, Good(rec, k) PROVE Good(rec \o F(k + 1), k + 1)
  BY <1>1, NextField
<1>2. Good(F(1), 1)
  BY FieldsFit DEF HoldsFields
<1> HIDE DEF Good
<1>3. Good(F(1) \o F(2), 2)
  BY <1>1, <1>2
<1>4. Good(F(1) \o F(2) \o F(3), 3)
  BY <1>1, <1>3
<1>5. Good(F(1) \o F(2) \o F(3) \o F(4), 4)
  BY <1>1, <1>4
<1>6. Good(F(1) \o F(2) \o F(3) \o F(4) \o F(5), 5)
  BY <1>1, <1>5
<1>7. Good(F(1) \o F(2) \o F(3) \o F(4) \o F(5) \o F(6), 6)
  BY <1>1, <1>6
<1>8. Good(F(1) \o F(2) \o F(3) \o F(4) \o F(5) \o F(6) \o F(7), 7)
  BY <1>1, <1>7
<1>9. PICK rec : rec = F(1) \o F(2) \o F(3) \o F(4) \o F(5) \o F(6) \o F(7) \o F(8)
  OBVIOUS
<1>10. Good(rec, 8)
  BY <1>1, <1>8, <1>9
<1>11. PICK end \in Nat : end = Begin(8) + Bytes(8)
  BY FieldsFit
<1>12. IsList(rec, end) /\ HoldsFields(rec, t, 8)
  BY <1>10, <1>11 DEF Good
<1>13. PICK pad : pad = [i \in 1 .. Aligned(cfg) - Len(rec) |-> <<>>]
  OBVIOUS
<1>14. Len(rec) = end
  <2>1. IsList(<<>>, 0)
    BY DEF IsList
  <2>2. IsJoin(rec \o <<>>, rec, <<>>, end, 0)
    BY <1>12, <2>1, Joined, Zenon
  <2> QED BY <2>2 DEF IsJoin
<1>15. Aligned(cfg) - Len(rec) \in Nat
  <2>1. end = TileBytes(cfg)
    BY <1>11, FieldsFit
  <2>2. Aligned(cfg) \in Nat /\ TileBytes(cfg) <= Aligned(cfg)
    BY RecordIsWholeSlots
  <2> QED BY <1>11, <1>14, <2>1, <2>2
<1>16. PICK n \in Nat : n = Aligned(cfg) - Len(rec)
  BY <1>15
<1>17. IsList(pad, n)
  BY <1>13, <1>16 DEF IsList
<1>18. IsJoin(rec \o pad, rec, pad, end, n)
  BY <1>12, <1>17, Joined, Zenon
<1>19. HoldsFields(rec \o pad, t, 8)
  <2> SUFFICES ASSUME NEW j \in 1 .. 8, NEW i \in 1 .. Bytes(j)
               PROVE  (rec \o pad)[Begin(j) + i] = Field(t, j)[i]
    BY DEF HoldsFields
  <2>1. Begin(j) \in Nat /\ Bytes(j) \in Nat /\ Begin(8) \in Nat /\ Bytes(8) \in Nat
    BY FieldsFit
  <2>2. Begin(j) + Bytes(j) <= end
    <3>1. CASE j = 8
      BY <1>11, <2>1, <3>1
    <3>2. CASE j # 8
      <4>1. j < 8
        BY <3>2
      <4>2. Begin(j) + Bytes(j) <= Begin(8)
        BY <4>1, FieldsApart
      <4> QED BY <1>11, <2>1, <4>2
    <3> QED BY <3>1, <3>2
  <2>3. Begin(j) + i \in 1 .. end
    BY <2>1, <2>2
  <2>4. (rec \o pad)[Begin(j) + i] = rec[Begin(j) + i]
    BY <1>18, <2>3, Zenon DEF IsJoin
  <2> QED BY <1>12, <2>4 DEF HoldsFields
<1>20. Concatenated(KFields(<<"K", t>>), VFields(<<"V", t>>)) = rec \o pad
  <2>1. PICK k : k = KFields(<<"K", t>>)
    OBVIOUS
  <2>2. PICK v : v = VFields(<<"V", t>>)
    OBVIOUS
  <2>3. /\ F(1) = k.kq /\ F(2) = k.kc /\ F(3) = k.kz /\ F(4) = k.kr
        /\ F(5) = v.vq /\ F(6) = v.vc /\ F(7) = v.vr /\ F(8) = v.vz
    BY <2>1, <2>2 DEF KFields, VFields, Field, TileFields, Order
  <2>4. rec = k.kq \o k.kc \o k.kz \o k.kr \o v.vq \o v.vc \o v.vr \o v.vz
    BY <1>9, <2>3, Zenon
  <2> QED BY <1>13, <2>1, <2>2, <2>4, Zenon DEF Concatenated
<1> QED BY <1>19, <1>20

Merged(k, v) == [f \in DOMAIN k \cup DOMAIN v |-> IF f \in DOMAIN k THEN k[f] ELSE v[f]]

\* Merging the two records of fields.
LEMMA MergedFields ==
  ASSUME NEW t, NEW all, all = Merged(KFields(<<"K", t>>), VFields(<<"V", t>>))
  PROVE  DOMAIN all = {Order[j] : j \in 1 .. 8} /\ \A j \in 1 .. 8 : all[Order[j]] = Field(t, j)
<1>1. PICK k : k = KFields(<<"K", t>>)
  OBVIOUS
<1>2. PICK v : v = VFields(<<"V", t>>)
  OBVIOUS
<1>3. DOMAIN k = {"kq", "kc", "kz", "kr"} /\ DOMAIN v = {"vq", "vc", "vr", "vz"}
  BY <1>1, <1>2 DEF KFields, VFields
<1>4. all = [x \in {"kq", "kc", "kz", "kr"} \cup {"vq", "vc", "vr", "vz"} |->
               IF x \in {"kq", "kc", "kz", "kr"} THEN k[x] ELSE v[x]]
  <2>1. all = [x \in DOMAIN k \cup DOMAIN v |-> IF x \in DOMAIN k THEN k[x] ELSE v[x]]
    BY <1>1, <1>2, Zenon DEF Merged
  <2> QED BY <1>1, <1>2, <1>3, <2>1
<1>5. /\ all["kq"] = k["kq"] /\ all["kc"] = k["kc"] /\ all["kz"] = k["kz"] /\ all["kr"] = k["kr"]
      /\ all["vq"] = v["vq"] /\ all["vc"] = v["vc"] /\ all["vr"] = v["vr"] /\ all["vz"] = v["vz"]
  BY <1>4
<1>6. /\ Field(t, 1) = k["kq"] /\ Field(t, 2) = k["kc"] /\ Field(t, 3) = k["kz"]
      /\ Field(t, 4) = k["kr"] /\ Field(t, 5) = v["vq"] /\ Field(t, 6) = v["vc"]
      /\ Field(t, 7) = v["vr"] /\ Field(t, 8) = v["vz"]
  BY <1>1, <1>2 DEF KFields, VFields, Field, TileFields, Order
<1>7. /\ Order[1] = "kq" /\ Order[2] = "kc" /\ Order[3] = "kz" /\ Order[4] = "kr"
      /\ Order[5] = "vq" /\ Order[6] = "vc" /\ Order[7] = "vr" /\ Order[8] = "vz"
  BY DEF Order
<1>8. \A j \in 1 .. 8 : all[Order[j]] = Field(t, j)
  <2> TAKE j \in 1 .. 8
  <2>1. j \in {1, 2, 3, 4} \/ j \in {5, 6, 7, 8}
    OBVIOUS
  <2>2. CASE j \in {1, 2, 3, 4}
    BY <1>5, <1>6, <1>7, <2>2
  <2>3. CASE j \in {5, 6, 7, 8}
    BY <1>5, <1>6, <1>7, <2>3
  <2> QED BY <2>1, <2>2, <2>3
<1>9. {Order[j] : j \in 1 .. 8} = {"kq", "kc", "kz", "kr"} \cup {"vq", "vc", "vr", "vz"}
  <2>1. 1 .. 8 = {1, 2, 3, 4, 5, 6, 7, 8}
    OBVIOUS
  <2> QED BY <1>7, <2>1
<1> QED BY <1>4, <1>8, <1>9

\* _write_packed does too.
LEMMA PlacedHolds ==
  ASSUME cfg \in Config, InFours(cfg), NEW t
  PROVE  HoldsFields(Placed(KFields(<<"K", t>>), VFields(<<"V", t>>)), t, 8)
<1> SUFFICES ASSUME NEW j \in 1 .. 8, NEW i \in 1 .. Bytes(j)
             PROVE  Placed(KFields(<<"K", t>>), VFields(<<"V", t>>))[Begin(j) + i]
                      = Field(t, j)[i]
  BY DEF HoldsFields
<1> DEFINE all == Merged(KFields(<<"K", t>>), VFields(<<"V", t>>))
<1>2. DOMAIN all = {Order[k] : k \in 1 .. 8} /\ \A k \in 1 .. 8 : all[Order[k]] = Field(t, k)
  BY MergedFields, Zenon
<1> DEFINE Of(x) == {f \in DOMAIN all : Offset(cfg)[f] <= x /\ x < Offset(cfg)[f] + Size(cfg)[f]}
<1>3. Placed(KFields(<<"K", t>>), VFields(<<"V", t>>))
        = [x \in 1 .. Aligned(cfg) |->
             IF Of(x - 1) = {} THEN <<>>
             ELSE LET f == CHOOSE f \in Of(x - 1) : TRUE IN all[f][x - Offset(cfg)[f]]]
  BY Zenon DEF Placed, Merged
<1> HIDE DEF all
<1>4. \A k \in 1 .. 8 : Begin(k) \in Nat /\ Bytes(k) \in Nat
  BY FieldsFit
<1>x. PICK x : x = Begin(j) + i
  OBVIOUS
<1>5. x \in 1 .. Aligned(cfg) /\ x = Begin(j) + i /\ x - Begin(j) = i /\ x - 1 \in Nat
  <2>1. Begin(j) + Bytes(j) <= TileBytes(cfg)
    <3>1. Begin(8) + Bytes(8) = TileBytes(cfg) /\ (j # 8 => Begin(j) + Bytes(j) <= Begin(8))
      BY FieldsFit, FieldsApart
    <3> QED BY <1>4, <3>1
  <2>2. Aligned(cfg) \in Nat /\ TileBytes(cfg) <= Aligned(cfg) /\ TileBytes(cfg) \in Nat
    BY RecordIsWholeSlots, SizesAreNat
  <2>3. Begin(j) \in Nat /\ Bytes(j) \in Nat
    BY <1>4
  <2>4. Begin(j) + i \in 1 .. Aligned(cfg) /\ Begin(j) + i - Begin(j) = i
        /\ Begin(j) + i - 1 \in Nat
    BY <2>1, <2>2, <2>3
  <2>5. x \in 1 .. Aligned(cfg)
    BY <1>x, <2>4, Zenon
  <2>6. x - Begin(j) = i
    BY <1>x, <2>3
  <2>7. x - 1 \in Nat
    BY <1>x, <2>4
  <2> QED BY <1>x, <2>5, <2>6, <2>7
<1>6. Of(x - 1) = {Order[j]}
  <2>1. ASSUME NEW k \in 1 .. 8
        PROVE  (Begin(k) <= x - 1 /\ x - 1 < Begin(k) + Bytes(k)) <=> k = j
    <3>1. Begin(k) \in Nat /\ Bytes(k) \in Nat /\ Begin(j) \in Nat /\ Bytes(j) \in Nat
      BY <1>4
    <3>2. CASE k = j
      BY <1>5, <3>1, <3>2
    <3>3. CASE k < j
      <4>1. Begin(k) + Bytes(k) <= Begin(j)
        BY <3>3, FieldsApart
      <4> QED BY <1>5, <3>1, <3>3, <4>1
    <3>4. CASE j < k
      <4>1. Begin(j) + Bytes(j) <= Begin(k)
        BY <3>4, FieldsApart
      <4> QED BY <1>5, <3>1, <3>4, <4>1
    <3> QED BY <3>2, <3>3, <3>4
  <2>2. \A k \in 1 .. 8 : Order[k] \in Of(x - 1) <=> k = j
    BY <1>2, <2>1 DEF Begin, Bytes
  <2>3. \A f \in Of(x - 1) : \E k \in 1 .. 8 : f = Order[k]
    BY <1>2
  <2> HIDE DEF Of
  <2>4. Order[j] \in Of(x - 1)
    BY <2>2, Zenon
  <2>5. \A f \in Of(x - 1) : f = Order[j]
    BY <2>2, <2>3, Zenon
  <2> QED BY <2>4, <2>5, Zenon
<1>7. (CHOOSE f \in Of(x - 1) : TRUE) = Order[j]
  <2> HIDE DEF Of
  <2> QED BY <1>6
<1>8. Placed(KFields(<<"K", t>>), VFields(<<"V", t>>))[x]
        = all[Order[j]][x - Offset(cfg)[Order[j]]]
  <2> HIDE DEF Of
  <2>1. Of(x - 1) # {}
    BY <1>6
  <2>2. PICK P : P = Placed(KFields(<<"K", t>>), VFields(<<"V", t>>))
    OBVIOUS
  <2>3. P[x] = IF Of(x - 1) = {} THEN <<>>
               ELSE LET f == CHOOSE f \in Of(x - 1) : TRUE IN all[f][x - Offset(cfg)[f]]
    BY <1>3, <1>5, <2>2, Zenon
  <2>4. P[x] = LET f == CHOOSE f \in Of(x - 1) : TRUE IN all[f][x - Offset(cfg)[f]]
    BY <2>1, <2>3, Zenon
  <2> QED BY <1>7, <2>2, <2>4, Zenon
<1> QED BY <1>2, <1>5, <1>8 DEF Begin

-----------------------------------------------------------------------------
(* The two readers.                                                        *)

\* Every field begins at a half word.
LEMMA FieldsAreEven ==
  ASSUME cfg \in Config, InFours(cfg), NEW j \in 1 .. 8
  PROVE  Even(Begin(j))
<1>1. \A k \in 1 .. 8 : Even(Bytes(k))
  <2>1. cfg.D \in Nat \ {0} /\ cfg.G \in Nat \ {0} /\ cfg.kb \in {2, 4} /\ cfg.vb \in {2, 4}
        /\ cfg.D % 4 = 0 /\ cfg.G % 4 = 0
    BY SizesAreNat DEF InFours
  <2>2. Even(KPackedBytes(cfg))
    <3>1. PICK d, g, k : d = cfg.D /\ g = cfg.G /\ k = cfg.kb
      OBVIOUS
    <3>2. d \in Nat \ {0} /\ g \in Nat \ {0} /\ k \in {2, 4} /\ d % 4 = 0 /\ g % 4 = 0
      BY <2>1, <3>1
    <3>c. CodesFill(d, g, k)
      BY <3>2, CodeBytes, Zenon
    <3>3. (d * g * k + 7) \div 8 = d * (g \div (8 \div k))
      BY <3>c, Zenon DEF CodesFill
    <3>4. Even(d * (g \div (8 \div k)))
      BY <3>c, Zenon DEF CodesFill
    <3> QED BY <3>1, <3>3, <3>4, Zenon DEF KPackedBytes
  <2>3. Even(VPackedBytes(cfg))
    <3>1. PICK d, g, k : d = cfg.D /\ g = cfg.G /\ k = cfg.vb
      OBVIOUS
    <3>2. d \in Nat \ {0} /\ g \in Nat \ {0} /\ k \in {2, 4} /\ d % 4 = 0 /\ g % 4 = 0
      BY <2>1, <3>1
    <3>c. CodesFill(g, d, k)
      BY <3>2, CodeBytes, Zenon
    <3>3. (g * d * k + 7) \div 8 = g * (d \div (8 \div k))
      BY <3>c, Zenon DEF CodesFill
    <3>4. Even(g * (d \div (8 \div k)))
      BY <3>c, Zenon DEF CodesFill
    <3> QED BY <3>1, <3>3, <3>4, Zenon DEF VPackedBytes
  <2>4. Even(cfg.D * 2) /\ Even(cfg.G * 2)
    <3>1. cfg.D * 2 = 2 * cfg.D /\ cfg.G * 2 = 2 * cfg.G /\ cfg.D \in Nat /\ cfg.G \in Nat
      BY <2>1
    <3> QED BY <3>1 DEF Even
  <2>5. /\ Bytes(1) = KPackedBytes(cfg) /\ Bytes(2) = cfg.D * 2 /\ Bytes(3) = cfg.D * 2
        /\ Bytes(4) = cfg.G * 2 /\ Bytes(5) = VPackedBytes(cfg) /\ Bytes(6) = cfg.D * 2
        /\ Bytes(7) = cfg.G * 2 /\ Bytes(8) = cfg.G * 2
    BY DEF Bytes, Order, Size
  <2>6. \A k \in 1 .. 8 : k = 1 \/ k = 2 \/ k = 3 \/ k = 4 \/ k = 5 \/ k = 6 \/ k = 7 \/ k = 8
    OBVIOUS
  <2> QED BY <2>2, <2>3, <2>4, <2>5, <2>6
<1>2. Begin(1) = 0 /\ \A k \in 1 .. 7 : Begin(k) + Bytes(k) = Begin(k + 1)
  BY FieldsFit
<1>3. ASSUME NEW k \in 1 .. 7, Even(Begin(k)) PROVE Even(Begin(k + 1))
  <2>1. PICK a \in Nat : Begin(k) = 2 * a
    BY <1>3 DEF Even
  <2>2. PICK b \in Nat : Bytes(k) = 2 * b
    BY <1>1 DEF Even
  <2>3. Begin(k + 1) = 2 * (a + b) /\ a + b \in Nat
    BY <1>2, <2>1, <2>2
  <2> QED BY <2>3 DEF Even
<1> DEFINE T == {d \in Nat : d + 1 <= 8 => Even(Begin(d + 1))}
<1>4. 0 \in T
  BY <1>2 DEF Even
<1>5. ASSUME NEW d \in Nat, d \in T PROVE d + 1 \in T
  <2> SUFFICES ASSUME d + 1 + 1 <= 8 PROVE Even(Begin(d + 1 + 1))
    OBVIOUS
  <2>1. d + 1 \in 1 .. 7 /\ Even(Begin(d + 1))
    BY <1>5
  <2> QED BY <1>3, <2>1
<1>6. Nat \subseteq T
  <2> HIDE DEF T
  <2> QED BY <1>4, <1>5, Induction
<1>7. j - 1 \in Nat /\ j - 1 + 1 = j /\ j <= 8
  OBVIOUS
<1> QED BY <1>6, <1>7

\* A view of a field has the field's bytes.
LEMMA ViewHas ==
  ASSUME cfg \in Config, InFours(cfg), NEW t, NEW rec, HoldsFields(rec, t, 8),
         NEW j \in 1 .. 8, NEW i \in 1 .. Bytes(j)
  PROVE  View(rec, Order[j])[i] = Field(t, j)[i]
<1>1. Begin(j) \in Nat /\ Bytes(j) \in Nat
  BY FieldsFit
<1>2. PICK a \in Nat : a = Begin(j)
  BY <1>1
<1>3. PICK b \in Nat : b = Bytes(j)
  BY <1>1
<1>4. View(rec, Order[j]) = SubSeq(rec, a + 1, a + b)
  BY <1>2, <1>3 DEF View, Begin, Bytes
<1>5. SubSeq(rec, a + 1, a + b) = [k \in 1 .. b |-> rec[a + k]]
  BY SMT
<1> QED BY <1>2, <1>3, <1>4, <1>5 DEF HoldsFields

\* Scale i of a field of half words, as the kernels and the gather path load it.
LEMMA ScaleRead ==
  ASSUME cfg \in Config, InFours(cfg), NEW t, NEW rec, HoldsFields(rec, t, 8),
         NEW j \in 1 .. 8, NEW v, NEW n \in Nat, Field(t, j) = Halves(v, n), Bytes(j) = 2 * n,
         NEW i \in 0 .. n - 1
  PROVE  Load16(rec, Begin(j), i) = v[i] /\ Half(View(rec, Order[j]), 2 * i) = v[i]
<1>1. PICK h \in Nat : Begin(j) = 2 * h
  BY FieldsAreEven DEF Even
<1>2. /\ 2 * i + 1 \in 1 .. Bytes(j) /\ 2 * i + 2 \in 1 .. Bytes(j)
      /\ Field(t, j)[2 * i + 1] = <<v[i], 0>> /\ Field(t, j)[2 * i + 2] = <<v[i], 1>>
  BY HalvesHave
<1>3. \A r, o : Byte(r, o) = <<v[i], 0>> /\ Byte(r, o + 1) = <<v[i], 1>> => Half(r, o) = v[i]
  BY DEF Half
<1>4. Load16(rec, Begin(j), i) = v[i]
  <2>1. 2 * (Begin(j) \div 2 + i) = 2 * h + 2 * i
    BY <1>1
  <2>2. rec[Begin(j) + (2 * i + 1)] = <<v[i], 0>> /\ rec[Begin(j) + (2 * i + 2)] = <<v[i], 1>>
    BY <1>2 DEF HoldsFields
  <2>3. Begin(j) + (2 * i + 1) = 2 * h + 2 * i + 1
        /\ Begin(j) + (2 * i + 2) = 2 * h + 2 * i + 1 + 1
    BY <1>1
  <2>4. Byte(rec, 2 * h + 2 * i) = <<v[i], 0>> /\ Byte(rec, 2 * h + 2 * i + 1) = <<v[i], 1>>
    BY <2>2, <2>3 DEF Byte
  <2> QED BY <1>3, <2>1, <2>4 DEF Load16
<1>5. Half(View(rec, Order[j]), 2 * i) = v[i]
  <2>1. View(rec, Order[j])[2 * i + 1] = <<v[i], 0>> /\ View(rec, Order[j])[2 * i + 2] = <<v[i], 1>>
    BY <1>2, ViewHas
  <2>2. 2 * i + 2 = 2 * i + 1 + 1
    OBVIOUS
  <2>3. Byte(View(rec, Order[j]), 2 * i) = <<v[i], 0>>
        /\ Byte(View(rec, Order[j]), 2 * i + 1) = <<v[i], 1>>
    BY <2>1, <2>2 DEF Byte
  <2> QED BY <1>3, <2>3
<1> QED BY <1>4, <1>5

\* A code, as the kernels and the gather path take it from its byte.
LEMMA CodeRead ==
  ASSUME cfg \in Config, InFours(cfg), NEW t, NEW rec, HoldsFields(rec, t, 8),
         NEW j \in 1 .. 8, NEW s \in Sides, Field(t, j) = Packed(s, t),
         Bytes(j) = Rows(s) * (Cols(s) \div (8 \div Bits(s))),
         NEW r \in 0 .. Rows(s) - 1, NEW c \in 0 .. Cols(s) - 1
  PROVE  /\ Byte(rec, Begin(j) + r * (Cols(s) \div (8 \div Bits(s))) + c \div (8 \div Bits(s)))
                [c % (8 \div Bits(s))] = Code(s, t, r, c)
         /\ Unpacked(View(rec, Order[j]), Bits(s), Cols(s), r, c) = Code(s, t, r, c)
<1> DEFINE p == 8 \div Bits(s)
           w == Cols(s) \div (8 \div Bits(s))
           k == r * w + c \div p + 1
<1>1. k \in 1 .. Bytes(j) /\ Packed(s, t)[k][c % p] = Code(s, t, r, c)
  BY PackedHas
<1>2. Rows(s) \in Nat \ {0} /\ Cols(s) \in Nat \ {0} /\ p \in {2, 4} /\ w \in Nat
  <2>1. Rows(s) \in Nat \ {0} /\ Cols(s) \in Nat \ {0} /\ Rows(s) % 4 = 0 /\ Cols(s) % 4 = 0
        /\ Bits(s) \in {2, 4}
    BY SizesAreNat DEF InFours, Rows, Cols, Bits, Sides
  <2>2. CodesFill(Rows(s), Cols(s), Bits(s))
    BY <2>1, CodeBytes, Zenon
  <2> QED BY <2>1, <2>2 DEF CodesFill
<1>3. r * w \in Nat /\ c \div p \in Nat
  <2>1. r \in Nat /\ c \in Nat
    BY <1>2
  <2> HIDE DEF p, w
  <2> QED BY <1>2, <2>1, SMT
<1>4. rec[Begin(j) + k] = Packed(s, t)[k] /\ View(rec, Order[j])[k] = Packed(s, t)[k]
  <2> HIDE DEF k
  <2>1. PICK i \in 1 .. Bytes(j) : i = k
    BY <1>1
  <2>2. rec[Begin(j) + i] = Field(t, j)[i]
    BY Zenon DEF HoldsFields
  <2>3. View(rec, Order[j])[i] = Field(t, j)[i]
    BY ViewHas
  <2> QED BY <2>1, <2>2, <2>3, Zenon
<1>5. Begin(j) + k = Begin(j) + r * w + c \div p + 1
  <2>1. Begin(j) \in Nat
    BY FieldsFit
  <2>2. PICK x \in Nat : x = r * w
    BY <1>3
  <2>3. PICK y \in Nat : y = c \div p
    BY <1>3
  <2> QED BY <2>1, <2>2, <2>3
<1>6. Byte(rec, Begin(j) + r * w + c \div p) = rec[Begin(j) + r * w + c \div p + 1]
  BY Zenon DEF Byte
<1>7. Byte(rec, Begin(j) + r * w + c \div p)[c % p] = Code(s, t, r, c)
  <2> HIDE DEF k, p, w
  <2> QED BY <1>1, <1>4, <1>5, <1>6, Zenon
<1>8. Unpacked(View(rec, Order[j]), Bits(s), Cols(s), r, c) = View(rec, Order[j])[k][c % p]
  BY Zenon DEF Unpacked
<1> QED BY <1>1, <1>4, <1>7, <1>8, Zenon

\* What the fields of a tile are.
LEMMA FieldsAre ==
  ASSUME cfg \in Config, InFours(cfg), NEW t
  PROVE  /\ Field(t, 1) = Packed("K", t) /\ Field(t, 2) = RowHalves("K", t, "scale")
         /\ Field(t, 3) = RowHalves("K", t, "zero") /\ Field(t, 4) = ColHalves("K", t)
         /\ Field(t, 5) = Packed("V", t) /\ Field(t, 6) = ColHalves("V", t)
         /\ Field(t, 7) = RowHalves("V", t, "scale") /\ Field(t, 8) = RowHalves("V", t, "zero")
         /\ Bytes(1) = cfg.D * (cfg.G \div (8 \div cfg.kb)) /\ Bytes(2) = 2 * cfg.D
         /\ Bytes(3) = 2 * cfg.D /\ Bytes(4) = 2 * cfg.G
         /\ Bytes(5) = cfg.G * (cfg.D \div (8 \div cfg.vb)) /\ Bytes(6) = 2 * cfg.D
         /\ Bytes(7) = 2 * cfg.G /\ Bytes(8) = 2 * cfg.G
<1>1. /\ Field(t, 1) = Packed("K", t) /\ Field(t, 2) = RowHalves("K", t, "scale")
      /\ Field(t, 3) = RowHalves("K", t, "zero") /\ Field(t, 4) = ColHalves("K", t)
      /\ Field(t, 5) = Packed("V", t) /\ Field(t, 6) = ColHalves("V", t)
      /\ Field(t, 7) = RowHalves("V", t, "scale") /\ Field(t, 8) = RowHalves("V", t, "zero")
  BY DEF Field, TileFields, Order
<1>2. PICK d, g, k, v : d = cfg.D /\ g = cfg.G /\ k = cfg.kb /\ v = cfg.vb
  OBVIOUS
<1>3. d \in Nat \ {0} /\ g \in Nat \ {0} /\ k \in {2, 4} /\ v \in {2, 4} /\ d % 4 = 0 /\ g % 4 = 0
  BY <1>2, SizesAreNat DEF InFours
<1>4. CodesFill(d, g, k) /\ CodesFill(g, d, v)
  BY <1>3, CodeBytes, Zenon
<1>5. (d * g * k + 7) \div 8 = d * (g \div (8 \div k))
      /\ (g * d * v + 7) \div 8 = g * (d \div (8 \div v))
  BY <1>4, Zenon DEF CodesFill
<1>6. /\ Bytes(1) = KPackedBytes(cfg) /\ Bytes(2) = cfg.D * 2 /\ Bytes(3) = cfg.D * 2
      /\ Bytes(4) = cfg.G * 2 /\ Bytes(5) = VPackedBytes(cfg) /\ Bytes(6) = cfg.D * 2
      /\ Bytes(7) = cfg.G * 2 /\ Bytes(8) = cfg.G * 2
  BY DEF Bytes, Order, Size
<1>7. KPackedBytes(cfg) = cfg.D * (cfg.G \div (8 \div cfg.kb))
      /\ VPackedBytes(cfg) = cfg.G * (cfg.D \div (8 \div cfg.vb))
  BY <1>2, <1>5, Zenon DEF KPackedBytes, VPackedBytes
<1>8. cfg.D * 2 = 2 * cfg.D /\ cfg.G * 2 = 2 * cfg.G
  BY <1>2, <1>3
<1> QED BY <1>1, <1>6, <1>7, <1>8, Zenon

\* The two scales of a tile are from one iteration.
ScalesAgree(t) == \A s \in Sides : best[s][t].row = best[s][t].col

\* Both readers get every element of the tile that a record holds.
LEMMA ReadersGet ==
  ASSUME cfg \in Config, InFours(cfg), NEW t, NEW rec, HoldsFields(rec, t, 8),
         ScalesAgree(t),
         NEW g \in 0 .. cfg.G - 1, NEW d \in 0 .. cfg.D - 1
  PROVE  /\ Kernel(rec, g, d) = [s \in Sides |-> Due(s, t, g, d)]
         /\ Gather(rec, g, d) = [s \in Sides |-> Due(s, t, g, d)]
<1>1. /\ Rows("K") = cfg.D /\ Cols("K") = cfg.G /\ Bits("K") = cfg.kb
      /\ Rows("V") = cfg.G /\ Cols("V") = cfg.D /\ Bits("V") = cfg.vb
      /\ "K" \in Sides /\ "V" \in Sides /\ cfg.D \in Nat /\ cfg.G \in Nat
  BY SizesAreNat DEF Rows, Cols, Bits, Sides
<1>2. /\ Offset(cfg).kq = Begin(1) /\ Offset(cfg).kc = Begin(2) /\ Offset(cfg).kz = Begin(3)
      /\ Offset(cfg).kr = Begin(4) /\ Offset(cfg).vq = Begin(5) /\ Offset(cfg).vc = Begin(6)
      /\ Offset(cfg).vr = Begin(7) /\ Offset(cfg).vz = Begin(8)
      /\ Order[1] = "kq" /\ Order[2] = "kc" /\ Order[3] = "kz" /\ Order[4] = "kr"
      /\ Order[5] = "vq" /\ Order[6] = "vc" /\ Order[7] = "vr" /\ Order[8] = "vz"
  BY DEF Begin, Order
<1>3. /\ Byte(rec, KAddress(Offset(cfg), g, d))[g % (8 \div cfg.kb)] = Code("K", t, d, g)
      /\ Unpacked(View(rec, "kq"), cfg.kb, cfg.G, d, g) = Code("K", t, d, g)
  <2>0. Field(t, 1) = Packed("K", t)
        /\ Bytes(1) = Rows("K") * (Cols("K") \div (8 \div Bits("K")))
    BY <1>1, FieldsAre, Zenon
  <2>1. Field(t, 1) = Packed("K", t) /\ 1 \in 1 .. 8
        /\ Bytes(1) = Rows("K") * (Cols("K") \div (8 \div Bits("K")))
        /\ d \in 0 .. Rows("K") - 1 /\ g \in 0 .. Cols("K") - 1
    BY <1>1, <2>0
  <2>2. /\ Byte(rec, Begin(1) + d * (Cols("K") \div (8 \div Bits("K"))) + g \div (8 \div Bits("K")))
                [g % (8 \div Bits("K"))] = Code("K", t, d, g)
        /\ Unpacked(View(rec, Order[1]), Bits("K"), Cols("K"), d, g) = Code("K", t, d, g)
    BY <1>1, <2>1, CodeRead, Zenon
  <2> QED BY <1>1, <1>2, <2>2, Zenon DEF KAddress
<1>4. /\ Byte(rec, VAddress(Offset(cfg), g, d))[d % (8 \div cfg.vb)] = Code("V", t, g, d)
      /\ Unpacked(View(rec, "vq"), cfg.vb, cfg.D, g, d) = Code("V", t, g, d)
  <2>0. Field(t, 5) = Packed("V", t)
        /\ Bytes(5) = Rows("V") * (Cols("V") \div (8 \div Bits("V")))
    BY <1>1, FieldsAre, Zenon
  <2>1. Field(t, 5) = Packed("V", t) /\ 5 \in 1 .. 8
        /\ Bytes(5) = Rows("V") * (Cols("V") \div (8 \div Bits("V")))
        /\ g \in 0 .. Rows("V") - 1 /\ d \in 0 .. Cols("V") - 1
    BY <1>1, <2>0
  <2>2. /\ Byte(rec, Begin(5) + g * (Cols("V") \div (8 \div Bits("V"))) + d \div (8 \div Bits("V")))
                [d % (8 \div Bits("V"))] = Code("V", t, g, d)
        /\ Unpacked(View(rec, Order[5]), Bits("V"), Cols("V"), g, d) = Code("V", t, g, d)
    BY <1>1, <2>1, CodeRead, Zenon
  <2> QED BY <1>1, <1>2, <2>2, Zenon DEF VAddress
<1>5. ASSUME NEW s \in Sides, NEW kind, NEW j \in 1 .. 8, Field(t, j) = RowHalves(s, t, kind),
             Bytes(j) = 2 * Rows(s), NEW i \in 0 .. Rows(s) - 1
      PROVE  Load16(rec, Begin(j), i) = RowScale(s, t, i, kind)
             /\ Half(View(rec, Order[j]), 2 * i) = RowScale(s, t, i, kind)
  <2>1. PICK v : v = [r \in 0 .. Rows(s) - 1 |-> RowScale(s, t, r, kind)]
    OBVIOUS
  <2>2. Field(t, j) = Halves(v, Rows(s)) /\ v[i] = RowScale(s, t, i, kind)
    BY <1>5, <2>1 DEF RowHalves
  <2>3. Rows(s) \in Nat
    BY <1>1 DEF Sides
  <2> QED BY <1>5, <2>2, <2>3, ScaleRead
<1>6. ASSUME NEW s \in Sides, NEW j \in 1 .. 8, Field(t, j) = ColHalves(s, t),
             Bytes(j) = 2 * Cols(s), NEW i \in 0 .. Cols(s) - 1
      PROVE  Load16(rec, Begin(j), i) = ColScale(s, t, i)
             /\ Half(View(rec, Order[j]), 2 * i) = ColScale(s, t, i)
  <2>1. PICK v : v = [c \in 0 .. Cols(s) - 1 |-> ColScale(s, t, c)]
    OBVIOUS
  <2>2. Field(t, j) = Halves(v, Cols(s)) /\ v[i] = ColScale(s, t, i)
    BY <1>6, <2>1 DEF ColHalves
  <2>3. Cols(s) \in Nat
    BY <1>1 DEF Sides
  <2> QED BY <1>6, <2>2, <2>3, ScaleRead
<1>7. /\ Load16(rec, Offset(cfg).kc, d) = RowScale("K", t, d, "scale")
      /\ Half(View(rec, "kc"), 2 * d) = RowScale("K", t, d, "scale")
  <2>1. 2 \in 1 .. 8 /\ Field(t, 2) = RowHalves("K", t, "scale") /\ Bytes(2) = 2 * Rows("K")
        /\ d \in 0 .. Rows("K") - 1
    BY <1>1, FieldsAre
  <2> QED BY <1>1, <1>2, <1>5, <2>1
<1>8. /\ Load16(rec, Offset(cfg).kz, d) = RowScale("K", t, d, "zero")
      /\ Half(View(rec, "kz"), 2 * d) = RowScale("K", t, d, "zero")
  <2>1. 3 \in 1 .. 8 /\ Field(t, 3) = RowHalves("K", t, "zero") /\ Bytes(3) = 2 * Rows("K")
        /\ d \in 0 .. Rows("K") - 1
    BY <1>1, FieldsAre
  <2> QED BY <1>1, <1>2, <1>5, <2>1
<1>9. /\ Load16(rec, Offset(cfg).kr, g) = ColScale("K", t, g)
      /\ Half(View(rec, "kr"), 2 * g) = ColScale("K", t, g)
  <2>1. 4 \in 1 .. 8 /\ Field(t, 4) = ColHalves("K", t) /\ Bytes(4) = 2 * Cols("K")
        /\ g \in 0 .. Cols("K") - 1
    BY <1>1, FieldsAre
  <2> QED BY <1>1, <1>2, <1>6, <2>1
<1>10. /\ Load16(rec, Offset(cfg).vr, g) = RowScale("V", t, g, "scale")
       /\ Half(View(rec, "vr"), 2 * g) = RowScale("V", t, g, "scale")
  <2>1. 7 \in 1 .. 8 /\ Field(t, 7) = RowHalves("V", t, "scale") /\ Bytes(7) = 2 * Rows("V")
        /\ g \in 0 .. Rows("V") - 1
    BY <1>1, FieldsAre
  <2> QED BY <1>1, <1>2, <1>5, <2>1
<1>11. /\ Load16(rec, Offset(cfg).vz, g) = RowScale("V", t, g, "zero")
       /\ Half(View(rec, "vz"), 2 * g) = RowScale("V", t, g, "zero")
  <2>1. 8 \in 1 .. 8 /\ Field(t, 8) = RowHalves("V", t, "zero") /\ Bytes(8) = 2 * Rows("V")
        /\ g \in 0 .. Rows("V") - 1
    BY <1>1, FieldsAre
  <2> QED BY <1>1, <1>2, <1>5, <2>1
<1>12. /\ Load16(rec, Offset(cfg).vc, d) = ColScale("V", t, d)
       /\ Half(View(rec, "vc"), 2 * d) = ColScale("V", t, d)
  <2>1. 6 \in 1 .. 8 /\ Field(t, 6) = ColHalves("V", t) /\ Bytes(6) = 2 * Cols("V")
        /\ d \in 0 .. Cols("V") - 1
    BY <1>1, FieldsAre
  <2> QED BY <1>1, <1>2, <1>6, <2>1
<1>13. Due("K", t, g, d) = <<Code("K", t, d, g), RowScale("K", t, d, "scale"),
                             RowScale("K", t, d, "zero"), ColScale("K", t, g)>>
  BY <1>1 DEF Due, Code, RowScale, ColScale, At, ScalesAgree
<1>14. Due("V", t, g, d) = <<Code("V", t, g, d), RowScale("V", t, g, "scale"),
                             RowScale("V", t, g, "zero"), ColScale("V", t, d)>>
  BY <1>1 DEF Due, Code, RowScale, ColScale, At, ScalesAgree
<1>15. [s \in Sides |-> Due(s, t, g, d)] = [K |-> Due("K", t, g, d), V |-> Due("V", t, g, d)]
  <2>1. PICK a, b : a = Due("K", t, g, d) /\ b = Due("V", t, g, d)
    OBVIOUS
  <2>2. PICK f : f = [s \in Sides |-> Due(s, t, g, d)]
    OBVIOUS
  <2>3. f = [s \in {"K", "V"} |-> f[s]] /\ f["K"] = a /\ f["V"] = b
    BY <2>1, <2>2 DEF Sides
  <2>4. f = [K |-> a, V |-> b]
    BY <2>3
  <2> QED BY <2>1, <2>2, <2>4
<1>16. Kernel(rec, g, d) = [K |-> Due("K", t, g, d), V |-> Due("V", t, g, d)]
  BY <1>3, <1>4, <1>7, <1>8, <1>9, <1>10, <1>11, <1>12, <1>13, <1>14, Zenon DEF Kernel
<1>17. Gather(rec, g, d) = [K |-> Due("K", t, g, d), V |-> Due("V", t, g, d)]
  BY <1>3, <1>4, <1>7, <1>8, <1>9, <1>10, <1>11, <1>12, <1>13, <1>14, Zenon DEF Gather
<1> QED BY <1>15, <1>16, <1>17, Zenon

-----------------------------------------------------------------------------
(* Flushes and their readers.                                              *)

\* The scales kept are from one iteration, and there is no record before the
\* balancing is done.
BestOK == \A t \in Tiles : ScalesAgree(t)
TileInv ==
  /\ ConfigOK /\ BestOK /\ (it >= 0 => cache = <<>>)
  /\ InFours(cfg) => ReadersGetTheirDue

\* The tile of a block and head is one of the batch.
LEMMA TileOfIs ==
  ASSUME ConfigOK, NEW b \in 1 .. batch[1], NEW h \in 1 .. batch[2]
  PROVE  NTiles \in Nat \ {0} /\ TileOf(b, h) \in 1 .. NTiles
<1>1. PICK n, m \in Nat \ {0} : n = batch[1] /\ m = batch[2]
  BY DEF ConfigOK
<1>2. n \in Nat \ {0}
  BY <1>1 DEF ConfigOK
<1>3. n * m \in Nat \ {0}
  BY <1>1, <1>2, SMT
<1>4. b - 1 \in 0 .. n - 1 /\ h - 1 \in 0 .. m - 1
  BY <1>1, <1>2
<1>5. (b - 1) * m + (h - 1) \in Nat /\ (b - 1) * m + (h - 1) < n * m
  BY <1>1, <1>2, <1>4, RowMajorFits
<1>6. PICK x \in Nat : x = (b - 1) * m
  <2>1. b - 1 \in Nat
    BY <1>2, <1>4
  <2> QED BY <1>1, <2>1, SMT
<1>7. x + h \in 1 .. n * m
  BY <1>1, <1>2, <1>3, <1>5, <1>6
<1> QED BY <1>1, <1>3, <1>6, <1>7 DEF NTiles, TileOf

\* A step that leaves configuration and scales alone leaves what a reader of
\* some record gets, and what it is due.
LEMMA ReadersFrozen ==
  ASSUME cfg' = cfg, best' = best, batch' = batch, NEW rec, NEW s, NEW t, NEW g, NEW d
  PROVE  /\ Kernel(rec, g, d)' = Kernel(rec, g, d) /\ Gather(rec, g, d)' = Gather(rec, g, d)
         /\ Due(s, t, g, d)' = Due(s, t, g, d)
<1>1. Kernel(rec, g, d)' = Kernel(rec, g, d)
  BY DEF Kernel, KAddress, VAddress
<1>2. Gather(rec, g, d)' = Gather(rec, g, d)
  BY DEF Gather, View
<1>3. Due(s, t, g, d)' = Due(s, t, g, d)
  BY DEF Due, Cols, Rows
<1> QED BY <1>1, <1>2, <1>3

\* A flush whose records hold the fields of their tiles serves the readers.
FlushOf(c) ==
  /\ DOMAIN c = (1 .. batch[1]) \X (1 .. batch[2])
  /\ \A bh \in DOMAIN c : HoldsFields(c[bh], TileOf(bh[1], bh[2]), 8)

LEMMA FlushServes ==
  ASSUME ConfigOK, BestOK, InFours(cfg), cfg' = cfg, best' = best, batch' = batch,
         NEW c, cache' = c, FlushOf(c)
  PROVE  ReadersGetTheirDue'
<1> SUFFICES ASSUME NEW bh \in DOMAIN c, NEW g \in 0 .. cfg.G - 1, NEW d \in 0 .. cfg.D - 1,
                    NEW t, t = TileOf(bh[1], bh[2])
             PROVE  /\ Kernel(c[bh], g, d)' = [s \in Sides |-> Due(s, t, g, d)']
                    /\ Gather(c[bh], g, d)' = [s \in Sides |-> Due(s, t, g, d)']
  BY DEF ReadersGetTheirDue, TileOf
<1>1. bh[1] \in 1 .. batch[1] /\ bh[2] \in 1 .. batch[2]
  BY DEF FlushOf
<1>2. t = TileOf(bh[1], bh[2])
  OBVIOUS
<1>3. t \in Tiles
  BY <1>1, <1>2, TileOfIs DEF Tiles
<1>4. PICK rec : rec = c[bh]
  OBVIOUS
<1>5. HoldsFields(rec, t, 8)
  BY <1>2, <1>4, Zenon DEF FlushOf
<1>6. ScalesAgree(t)
  BY <1>3 DEF BestOK
<1>7. cfg \in Config
  BY DEF ConfigOK
<1>8. /\ Kernel(rec, g, d) = [s \in Sides |-> Due(s, t, g, d)]
      /\ Gather(rec, g, d) = [s \in Sides |-> Due(s, t, g, d)]
  BY <1>5, <1>6, <1>7, ReadersGet
<1>9. /\ Kernel(rec, g, d)' = Kernel(rec, g, d) /\ Gather(rec, g, d)' = Gather(rec, g, d)
      /\ \A s : Due(s, t, g, d)' = Due(s, t, g, d)
  BY ReadersFrozen
<1>10. [s \in Sides |-> Due(s, t, g, d)'] = [s \in Sides |-> Due(s, t, g, d)]
  BY <1>9
<1>11. /\ Kernel(rec, g, d)' = [s \in Sides |-> Due(s, t, g, d)']
       /\ Gather(rec, g, d)' = [s \in Sides |-> Due(s, t, g, d)']
  BY <1>8, <1>9, <1>10, Zenon
<1> QED BY <1>4, <1>11, Zenon

LEMMA TileInvInit == Init => TileInv
<1> SUFFICES ASSUME Init PROVE TileInv
  OBVIOUS
<1>1. ConfigOK
  <2>1. PICK p \in Presets, d \in HeadDims, pow2 \in BOOLEAN :
          cfg = [D |-> d, G |-> p.group, kb |-> p.key_bits, vb |-> p.value_bits,
                 pow2 |-> pow2]
    BY DEF Init, KVarNConfig
  <2>2. p.key_bits \in {2, 4} /\ p.value_bits \in {2, 4} /\ p.group \in Nat \ {0}
        /\ d \in Nat \ {0}
    BY TileOK DEF TileOK
  <2>3. cfg \in Config
    BY <2>1, <2>2 DEF Config
  <2>4. batch \in (Nat \ {0}) \X (Nat \ {0})
    BY TileOK DEF Init, TileOK, KVarNConfig
  <2> QED BY <2>3, <2>4 DEF ConfigOK
<1>2. BestOK
  BY DEF Init, BestOK, ScalesAgree
<1>3. cache = <<>>
  BY DEF Init
<1>4. ReadersGetTheirDue
  BY <1>3 DEF ReadersGetTheirDue
<1> QED BY <1>1, <1>2, <1>3, <1>4 DEF TileInv

LEMMA WholeQuotient ==
  ASSUME NEW a \in Nat, NEW m \in Nat \ {0}, m <= a
  PROVE  a \div m \in Nat \ {0}
<1>1. a = m * (a \div m) + (a % m) /\ a % m \in 0 .. m - 1 /\ a \div m \in Nat
  BY SMT
<1>2. PICK q \in Nat : q = a \div m
  BY <1>1
<1>3. q = 0 => m * q = 0
  BY SMT
<1> QED BY <1>1, <1>2, <1>3

LEMMA TileInvNext == TileInv /\ [Next]_vars => TileInv'
<1> SUFFICES ASSUME TileInv, [Next]_vars PROVE TileInv'
  OBVIOUS
<1>1. ConfigOK /\ BestOK /\ (it >= 0 => cache = <<>>) /\ (InFours(cfg) => ReadersGetTheirDue)
  BY DEF TileInv
<1>2. ConfigOK' /\ cfg' = cfg /\ batch' = batch
  BY <1>1 DEF ConfigOK, Next, Balance, FlushFast, FlushLegacy, vars
<1>3. ASSUME cfg' = cfg, best' = best, batch' = batch PROVE BestOK'
  BY <1>1, <1>3 DEF BestOK, ScalesAgree, Tiles, NTiles
<1>4. CASE Balance
  <2>1. it >= 0 /\ cache' = cache
    BY <1>4 DEF Balance
  <2>2. cache' = <<>>
    BY <1>1, <2>1
  <2>3. ReadersGetTheirDue'
    BY <2>2 DEF ReadersGetTheirDue
  <2>4. BestOK'
    <3> SUFFICES ASSUME NEW s \in Sides, NEW t \in Tiles
                 PROVE  best'[s][t].row = best'[s][t].col
      BY <1>2 DEF BestOK, ScalesAgree, Tiles, NTiles
    <3>1. PICK imb : best' = [x \in Sides |-> [y \in Tiles |-> Keep(best[x][y], imb[x][y])]]
      BY <1>4 DEF Balance
    <3>2. best'[s][t] = Keep(best[s][t], imb[s][t])
      BY <3>1
    <3>3. best[s][t].row = best[s][t].col
      BY <1>1 DEF BestOK, ScalesAgree
    <3> QED BY <3>2, <3>3 DEF Keep
  <2> QED BY <1>2, <2>2, <2>3, <2>4 DEF TileInv
<1> DEFINE Flushed(c, out) ==
             \/ c = [bh \in (1 .. batch[1]) \X (1 .. batch[2]) |->
                       Concatenated(KFields(out.K[TileOf(bh[1], bh[2])]),
                                    VFields(out.V[TileOf(bh[1], bh[2])]))]
             \/ c = [bh \in (1 .. batch[1]) \X (1 .. batch[2]) |->
                       Placed(KFields(out.K[TileOf(bh[1], bh[2])]),
                              VFields(out.V[TileOf(bh[1], bh[2])]))]
<1>5. ASSUME NEW size \in Nat \ {0}, cfg' = cfg, best' = best, batch' = batch, it' = -1,
             NEW c, cache' = c, NEW out, out = Outputs(size),
             Flushed(c, out)
      PROVE  TileInv'
  <2>1. ASSUME InFours(cfg) PROVE ReadersGetTheirDue'
    <3>1. DOMAIN c = (1 .. batch[1]) \X (1 .. batch[2])
      BY <1>5
    <3>2. ASSUME NEW bh \in DOMAIN c PROVE HoldsFields(c[bh], TileOf(bh[1], bh[2]), 8)
      <4>1. bh[1] \in 1 .. batch[1] /\ bh[2] \in 1 .. batch[2]
        BY <3>1
      <4>2. PICK t : t = TileOf(bh[1], bh[2])
        OBVIOUS
      <4>3. NTiles \in Nat \ {0} /\ t \in 1 .. NTiles
        BY <1>1, <4>1, <4>2, TileOfIs
      <4>4. out.K = [x \in 1 .. NTiles |-> <<"K", x>>] /\ out.V = [x \in 1 .. NTiles |-> <<"V", x>>]
        BY <1>5, <4>3, OutputsAre, Zenon
      <4>5. out.K[t] = <<"K", t>> /\ out.V[t] = <<"V", t>>
        BY <4>3, <4>4
      <4>6. c[bh] = Concatenated(KFields(out.K[t]), VFields(out.V[t]))
            \/ c[bh] = Placed(KFields(out.K[t]), VFields(out.V[t]))
        BY <1>5, <3>1, <4>2
      <4>7. cfg \in Config
        BY <1>1 DEF ConfigOK
      <4>8. HoldsFields(Concatenated(KFields(<<"K", t>>), VFields(<<"V", t>>)), t, 8)
            /\ HoldsFields(Placed(KFields(<<"K", t>>), VFields(<<"V", t>>)), t, 8)
        BY <2>1, <4>7, ConcatenatedHolds, PlacedHolds
      <4> QED BY <4>2, <4>5, <4>6, <4>8
    <3>3. FlushOf(c)
      BY <3>1, <3>2 DEF FlushOf
    <3> QED BY <1>1, <1>5, <2>1, <3>3, FlushServes
  <2>2. ~(it' >= 0)
    BY <1>5
  <2>3. InFours(cfg') <=> InFours(cfg)
    BY <1>5
  <2> QED BY <1>2, <1>3, <1>5, <2>1, <2>2, <2>3 DEF TileInv
<1>6. batch[2] \in Nat \ {0} /\ ChunkTiles \in Nat \ {0}
  BY <1>1, TileOK DEF ConfigOK, TileOK
<1>7. CASE FlushFast
  <2>1. WholeBlocks(ChunkTiles) \in Nat \ {0}
    <3> DEFINE k == IF ChunkTiles < batch[2] THEN 1 ELSE ChunkTiles \div batch[2]
    <3>1. k \in Nat \ {0}
      <4>1. CASE ChunkTiles < batch[2]
        BY <4>1
      <4>2. CASE ~ ChunkTiles < batch[2]
        <5>1. PICK a \in Nat, m \in Nat \ {0} : a = ChunkTiles /\ m = batch[2] /\ m <= a
          BY <1>6, <4>2
        <5> QED BY <4>2, <5>1, WholeQuotient
      <4> QED BY <4>1, <4>2
    <3>2. WholeBlocks(ChunkTiles) = batch[2] * k
      BY DEF WholeBlocks
    <3> HIDE DEF k
    <3> QED BY <1>6, <3>1, <3>2, SMT
  <2>2. PICK c : c = cache'
    OBVIOUS
  <2>3. PICK out : out = Outputs(WholeBlocks(ChunkTiles))
    OBVIOUS
  <2>4. /\ cfg' = cfg /\ best' = best /\ batch' = batch /\ it' = -1
        /\ c = [bh \in (1 .. batch[1]) \X (1 .. batch[2]) |->
                       Concatenated(KFields(out.K[TileOf(bh[1], bh[2])]),
                                    VFields(out.V[TileOf(bh[1], bh[2])]))]
    BY <1>7, <2>2, <2>3 DEF FlushFast
  <2>5. Flushed(c, out)
    BY <2>4, Zenon
  <2> HIDE DEF Flushed
  <2> QED BY <1>5, <2>1, <2>2, <2>3, <2>4, <2>5, Zenon
<1>8. CASE FlushLegacy
  <2>1. batch[2] * ChunkTiles \in Nat \ {0}
    BY <1>6, SMT
  <2>2. PICK c : c = cache'
    OBVIOUS
  <2>3. PICK out : out = Outputs(batch[2] * ChunkTiles)
    OBVIOUS
  <2>4. /\ cfg' = cfg /\ best' = best /\ batch' = batch /\ it' = -1
        /\ c = [bh \in (1 .. batch[1]) \X (1 .. batch[2]) |->
                       Placed(KFields(out.K[TileOf(bh[1], bh[2])]),
                              VFields(out.V[TileOf(bh[1], bh[2])]))]
    BY <1>8, <2>2, <2>3 DEF FlushLegacy
  <2>5. Flushed(c, out)
    BY <2>4, Zenon
  <2> HIDE DEF Flushed
  <2> QED BY <1>5, <2>1, <2>2, <2>3, <2>4, <2>5, Zenon
<1>9. CASE UNCHANGED vars
  <2>1. cfg' = cfg /\ best' = best /\ batch' = batch /\ it' = it /\ cache' = cache
    BY <1>9 DEF vars
  <2>2. ASSUME ReadersGetTheirDue PROVE ReadersGetTheirDue'
    <3>1. PICK c : c = cache
      OBVIOUS
    <3>2. c = cache'
      BY <2>1, <3>1
    <3> SUFFICES ASSUME NEW bh \in DOMAIN c,
                        NEW g \in 0 .. cfg.G - 1, NEW d \in 0 .. cfg.D - 1,
                        NEW t, t = TileOf(bh[1], bh[2])
                 PROVE  /\ Kernel(c[bh], g, d)' = [s \in Sides |-> Due(s, t, g, d)']
                        /\ Gather(c[bh], g, d)' = [s \in Sides |-> Due(s, t, g, d)']
      BY <2>1, <3>2 DEF ReadersGetTheirDue, TileOf
    <3>3. PICK rec : rec = c[bh]
      OBVIOUS
    <3>4. /\ Kernel(rec, g, d) = [s \in Sides |-> Due(s, t, g, d)]
          /\ Gather(rec, g, d) = [s \in Sides |-> Due(s, t, g, d)]
      BY <2>2, <3>1, <3>3 DEF ReadersGetTheirDue
    <3>5. /\ Kernel(rec, g, d)' = Kernel(rec, g, d) /\ Gather(rec, g, d)' = Gather(rec, g, d)
          /\ \A s : Due(s, t, g, d)' = Due(s, t, g, d)
      BY <2>1, ReadersFrozen
    <3>6. [s \in Sides |-> Due(s, t, g, d)'] = [s \in Sides |-> Due(s, t, g, d)]
      BY <3>5
    <3>7. /\ Kernel(rec, g, d)' = [s \in Sides |-> Due(s, t, g, d)']
          /\ Gather(rec, g, d)' = [s \in Sides |-> Due(s, t, g, d)']
      BY <3>4, <3>5, <3>6, Zenon
    <3> QED BY <3>3, <3>7, Zenon
  <2> QED BY <1>1, <1>2, <1>3, <2>1, <2>2 DEF TileInv
<1> QED BY <1>4, <1>7, <1>8, <1>9 DEF Next

\* ReadersGetTheirDue for every preset, head size, batch, launch size and
\* course of the balancing, where groups and heads come in fours.
THEOREM ReadersServed == Spec => [](InFours(cfg) => ReadersGetTheirDue)
<1>1. TileInv => (InFours(cfg) => ReadersGetTheirDue)
  BY DEF TileInv
<1> QED BY <1>1, TileInvInit, TileInvNext, PTL DEF Spec

=============================================================================
