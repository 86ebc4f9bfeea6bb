--------------------------- MODULE Pthfa_proofs ----------------------------
(***************************************************************************)
(* The pthfa plan for every layer, batch and size: what is planned fits    *)
(* what was reserved, every query row is given the keys it is due, and the *)
(* slab workspace's streams are ordered for every number of them.          *)
(***************************************************************************)
EXTENDS Pthfa, FiniteSetTheorems, WellFoundedInduction, TLAPS

\* Division, as the provers need it.
LEMMA DivIs ==
  ASSUME NEW a \in Nat, NEW b \in Nat \ {0}
  PROVE  /\ a \div b \in Nat
         /\ b * (a \div b) <= a /\ a < b * (a \div b) + b
<1>1. a = b * (a \div b) + (a % b) /\ a % b \in 0 .. b - 1 /\ a \div b \in Int
  BY SMT
<1>2. a \div b \in Nat
  BY SMT
<1>3. PICK q \in Nat : q = a \div b
  BY <1>2
<1>4. b * q \in Nat
  BY <1>3, SMT
<1> QED BY <1>1, <1>3, <1>4

\* A quotient is the only number between its bounds.
LEMMA DivBounds ==
  ASSUME NEW a \in Nat, NEW b \in Nat \ {0}, NEW c \in Nat
  PROVE  /\ b * c <= a => c <= a \div b
         /\ a < b * c => a \div b < c
<1>1. PICK q \in Nat : q = a \div b
  BY DivIs
<1>2. b * q <= a /\ a < b * q + b
  BY <1>1, DivIs
<1>3. PICK d \in Int : d = c - q
  OBVIOUS
<1>4. b * c = b * q + b * d /\ b * q \in Nat /\ b * c \in Nat /\ b * d \in Int
  BY <1>1, <1>3, SMT
<1>5. ~ d <= 0 => b * d >= b
  BY <1>3, SMT
<1>6. d <= 0 => b * d <= 0
  BY <1>3, SMT
<1> QED BY <1>1, <1>2, <1>3, <1>4, <1>5, <1>6

LEMMA DivMonotone ==
  ASSUME NEW a \in Nat, NEW c \in Nat, a <= c, NEW b \in Nat \ {0}
  PROVE  a \div b <= c \div b
<1>1. b * (a \div b) <= a /\ a \div b \in Nat
  BY DivIs
<1>2. PICK q \in Nat : q = a \div b
  BY <1>1
<1>3. b * q <= c /\ b * q \in Nat
  BY <1>1, <1>2, SMT
<1> QED BY <1>2, <1>3, DivBounds

-----------------------------------------------------------------------------
(* KV splits.                                                              *)

\* The n splits of a row tile's KV tiles take every tile, and none twice
\* (planner.split_tile_range, cache_geometry.cuh split_tile_range).
THEOREM SplitsPartition ==
  ASSUME NEW n \in Nat \ {0}, NEW tiles \in Nat
  PROVE  /\ \A t \in 0 .. tiles - 1 : \E s \in 0 .. n - 1 : t \in SplitRange(s, n, tiles)
         /\ \A s, u \in 0 .. n - 1 :
              s # u => SplitRange(s, n, tiles) \cap SplitRange(u, n, tiles) = {}
<1>1. ASSUME NEW t \in 0 .. tiles - 1
      PROVE  \E s \in 0 .. n - 1 : t \in SplitRange(s, n, tiles)
  <2> DEFINE m == (t + 1) * n - 1
             s == m \div tiles
  <2>1. t \in Nat /\ tiles \in Nat \ {0}
    BY <1>1
  <2>2. m \in Nat /\ m + 1 = (t + 1) * n /\ m < tiles * n
    <3>1. PICK d \in Nat : tiles = t + 1 + d
      <4>1. tiles - t - 1 \in Nat /\ tiles = t + 1 + (tiles - t - 1)
        BY <1>1
      <4> QED BY <4>1
    <3>2. tiles * n = (t + 1) * n + d * n /\ d * n \in Nat /\ t * n \in Nat
          /\ (t + 1) * n = t * n + n
      BY <2>1, <3>1, SMT
    <3> QED BY <3>2
  <2> HIDE DEF m
  <2>3. s \in Nat /\ tiles * s <= m /\ m < tiles * s + tiles
    BY <2>1, <2>2, DivIs
  <2>4. s < n
    BY <2>1, <2>2, DivBounds
  <2> HIDE DEF s
  <2>5. s * tiles \in Nat /\ (s + 1) * tiles \in Nat
        /\ s * tiles <= m /\ m + 1 <= (s + 1) * tiles
    BY <2>1, <2>2, <2>3, SMT
  <2>6. (s * tiles) \div n <= t
    <3>1. n * (t + 1) = m + 1
      BY <2>1, <2>2, SMT
    <3>2. (s * tiles) \div n < t + 1
      BY <2>1, <2>2, <2>5, <3>1, DivBounds
    <3>3. (s * tiles) \div n \in Nat
      BY <2>5, DivIs
    <3> QED BY <2>1, <3>2, <3>3
  <2>7. t + 1 <= ((s + 1) * tiles) \div n
    <3>1. n * (t + 1) = m + 1
      BY <2>1, <2>2, SMT
    <3>2. n * (t + 1) <= (s + 1) * tiles
      BY <2>5, <3>1
    <3> QED BY <2>1, <2>5, <3>2, DivBounds
  <2>8. (s * tiles) \div n \in Nat /\ ((s + 1) * tiles) \div n \in Nat
    BY <2>5, DivIs
  <2>9. \A a, b \in Nat : a <= t /\ t + 1 <= b => t \in a .. b - 1
    BY <2>1
  <2>10. t \in SplitRange(s, n, tiles)
    <3> DEFINE a == (s * tiles) \div n
               b == ((s + 1) * tiles) \div n
    <3>1. a \in Nat /\ b \in Nat /\ a <= t /\ t + 1 <= b
      BY <2>6, <2>7, <2>8
    <3>2. SplitRange(s, n, tiles) = a .. b - 1
      BY DEF SplitRange
    <3> HIDE DEF a, b
    <3> QED BY <2>9, <3>1, <3>2
  <2>11. s \in 0 .. n - 1
    BY <2>3, <2>4
  <2> QED BY <2>10, <2>11
<1>2. ASSUME NEW s \in 0 .. n - 1, NEW u \in 0 .. n - 1, s < u
      PROVE  SplitRange(s, n, tiles) \cap SplitRange(u, n, tiles) = {}
  <2>1. s \in Nat /\ u \in Nat /\ s + 1 <= u
    BY <1>2
  <2>2. s * tiles \in Nat /\ (s + 1) * tiles \in Nat /\ u * tiles \in Nat
        /\ (u + 1) * tiles \in Nat /\ (s + 1) * tiles <= u * tiles
    <3>1. PICK d \in Nat : u = s + 1 + d
      <4>1. u - s - 1 \in Nat /\ u = s + 1 + (u - s - 1)
        BY <2>1
      <4> QED BY <4>1
    <3>2. u * tiles = (s + 1) * tiles + d * tiles /\ d * tiles \in Nat
      BY <2>1, <3>1, SMT
    <3>3. s * tiles \in Nat /\ (s + 1) * tiles \in Nat /\ (u + 1) * tiles \in Nat
      BY <2>1, SMT
    <3> QED BY <3>2, <3>3
  <2>3. ((s + 1) * tiles) \div n <= (u * tiles) \div n
    BY <2>2, DivMonotone
  <2>4. /\ (s * tiles) \div n \in Nat /\ ((s + 1) * tiles) \div n \in Nat
        /\ (u * tiles) \div n \in Nat /\ ((u + 1) * tiles) \div n \in Nat
    BY <2>2, DivIs
  <2> DEFINE a == (s * tiles) \div n
             b == ((s + 1) * tiles) \div n
             c == (u * tiles) \div n
             d == ((u + 1) * tiles) \div n
  <2>5. SplitRange(s, n, tiles) = a .. b - 1 /\ SplitRange(u, n, tiles) = c .. d - 1
    BY DEF SplitRange
  <2>6. a \in Nat /\ b \in Nat /\ c \in Nat /\ d \in Nat /\ b <= c
    BY <2>3, <2>4
  <2> HIDE DEF a, b, c, d
  <2> QED BY <2>5, <2>6
<1>3. ASSUME NEW s \in 0 .. n - 1, NEW u \in 0 .. n - 1, s # u
      PROVE  SplitRange(s, n, tiles) \cap SplitRange(u, n, tiles) = {}
  <2>1. CASE s < u
    BY <1>2, <2>1
  <2>2. CASE u < s
    BY <1>2, <2>2
  <2> QED BY <1>3, <2>1, <2>2
<1> QED BY <1>1, <1>3

-----------------------------------------------------------------------------
(* Row tiles.                                                              *)

\* Offsets that start at zero, never fall, and end within the launch.
Offsets(dev, reqs, tokens) ==
  /\ dev.qsl \in [1 .. reqs + 1 -> 0 .. tokens]
  /\ \A r \in 1 .. reqs : dev.qsl[r] <= dev.qsl[r + 1]

\* Token i of request r is in the tile i \div b after the request's first one:
\* that tile is r's, it holds the token, and the grid has it, whatever lengths
\* the device holds when a captured graph is replayed.
THEOREM TokenHasItsTile ==
  ASSUME NEW l, l.reqs \in Nat \ {0}, l.tokens \in Nat, NEW b \in Nat \ {0}, NEW dev,
         Offsets(dev, l.reqs, l.tokens),
         NEW r \in 1 .. l.reqs, NEW i \in 0 .. QueryLen(dev, r) - 1
  PROVE  LET x == FirstTile(dev, b, r) + i \div b
         IN /\ x \in 0 .. GridTiles(l, b) - 1
            /\ OwnsTile(dev, b, l.reqs, r, x)
            /\ i \in TileRows(dev, b, r, x)
<1> DEFINE p == dev.qsl[r]
           e == dev.qsl[r + 1]
           q == i \div b
           x == FirstTile(dev, b, r) + q
<1>1. p \in Nat /\ e \in Nat /\ e <= l.tokens /\ i \in Nat /\ i < e - p /\ r + 1 \in 1 .. l.reqs + 1
  <2>1. r \in 1 .. l.reqs + 1 /\ r + 1 \in 1 .. l.reqs + 1
    OBVIOUS
  <2>2. p \in 0 .. l.tokens /\ e \in 0 .. l.tokens
    BY <2>1 DEF Offsets
  <2>3. QueryLen(dev, r) = e - p
    BY DEF QueryLen
  <2> HIDE DEF p, e
  <2> QED BY <2>1, <2>2, <2>3
<1>2. q \in Nat /\ b * q <= i /\ i < b * q + b
  BY <1>1, DivIs
<1>3. p \div b \in Nat /\ b * (p \div b) <= p
  BY <1>1, DivIs
<1> HIDE DEF q, p, e
<1>4. p \div b + q <= e \div b
  <2>1. PICK a \in Nat : a = p \div b
    BY <1>3
  <2>2. b * (a + q) = b * a + b * q /\ b * a \in Nat /\ b * q \in Nat
    BY <1>2, <2>1, SMT
  <2>3. b * a <= p
    BY <1>3, <2>1
  <2>4. b * (a + q) <= e
    BY <1>1, <1>2, <2>2, <2>3
  <2>5. a + q \in Nat
    BY <1>2, <2>1
  <2> QED BY <1>1, <2>1, <2>4, <2>5, DivBounds
<1>5. e \div b \in Nat /\ e \div b <= l.tokens \div b /\ l.tokens \div b \in Nat
  BY <1>1, DivIs, DivMonotone
<1>6. x = p \div b + (r - 1) + q /\ r \in Nat \ {0} /\ r <= l.reqs
  BY <1>1, <1>2, <1>3 DEF FirstTile, p
<1>7. x \in 0 .. GridTiles(l, b) - 1
  BY <1>2, <1>3, <1>4, <1>5, <1>6 DEF GridTiles
<1>8. OwnsTile(dev, b, l.reqs, r, x)
  <2>1. FirstTile(dev, b, r) <= x
    BY <1>2, <1>3, <1>6 DEF FirstTile, p
  <2>2. r < l.reqs => x < FirstTile(dev, b, r + 1)
    <3>1. FirstTile(dev, b, r + 1) = e \div b + r
      BY <1>5, <1>6 DEF FirstTile, e
    <3> QED BY <1>2, <1>3, <1>4, <1>5, <1>6, <3>1
  <2> QED BY <2>1, <2>2 DEF OwnsTile
<1>9. i \in TileRows(dev, b, r, x)
  <2>1. x - FirstTile(dev, b, r) = q
    BY <1>2, <1>3, <1>6 DEF FirstTile, p
  <2>2. q * b \in Nat /\ q * b = b * q
    BY <1>2, SMT
  <2>3. QueryLen(dev, r) = e - p
    BY DEF QueryLen, e, p
  <2> HIDE DEF x
  <2>4. TileRows(dev, b, r, x) = q * b .. Least(q * b + b, e - p) - 1
    BY <2>1, <2>3 DEF TileRows
  <2> QED BY <1>1, <1>2, <2>2, <2>4 DEF Least
<1> QED BY <1>7, <1>8, <1>9 DEF x, q

-----------------------------------------------------------------------------
(* Slabs.                                                                  *)

\* The share and the remainder of slabs(): divmod(sequence_len, count).
LEMMA Shares ==
  ASSUME NEW seq \in Nat \ {0}
  PROVE  LET n == SlabCount(seq)
             size == seq \div n
             extra == seq % n
         IN /\ n \in Nat \ {0} /\ size \in Nat /\ extra \in 0 .. n - 1
            /\ seq = n * size + extra
            /\ seq <= n * SlabTokens /\ (n - 1) * SlabTokens < seq
<1> DEFINE n == SlabCount(seq)
<1>1. SlabTokens \in Nat \ {0} /\ seq + SlabTokens - 1 \in Nat
  BY PlanOK
<1>2. n \in Nat /\ SlabTokens * n <= seq + SlabTokens - 1
      /\ seq + SlabTokens - 1 < SlabTokens * n + SlabTokens
  BY <1>1, DivIs DEF SlabCount, CeilDivide
<1> HIDE DEF n
<1>3. n * SlabTokens = SlabTokens * n /\ n * SlabTokens \in Nat
      /\ (n - 1) * SlabTokens = n * SlabTokens - SlabTokens
  BY <1>1, <1>2, SMT
<1>4. seq <= n * SlabTokens /\ (n - 1) * SlabTokens < seq
  BY <1>1, <1>2, <1>3
<1>5. n # 0
  BY <1>1, <1>4, SMT
<1>6. seq \div n \in Nat /\ seq % n \in 0 .. n - 1 /\ seq = n * (seq \div n) + (seq % n)
  BY <1>2, <1>5, SMT
<1> QED BY <1>2, <1>4, <1>5, <1>6 DEF n

\* The slabs follow one another from the first key to the last, each fits the
\* workspace, and the last one holds as many keys as there are queries, so
\* every key of an earlier slab is before every query (fa2_slab_plan.py:18-22).
THEOREM SlabsPartition ==
  ASSUME NEW seq \in Nat \ {0}, NEW q \in 1 .. QueryCapacity, q <= seq
  PROVE  LET n == SlabCount(seq)
         IN /\ SlabEnd(seq, 0) = 0 /\ SlabEnd(seq, n) = seq
            /\ \A i \in 1 .. n : /\ SlabEnd(seq, i - 1) <= SlabEnd(seq, i)
                                 /\ SlabEnd(seq, i) <= SlabEnd(seq, i - 1) + SlabTokens
            /\ SlabEnd(seq, n - 1) <= seq - q
<1> DEFINE n == SlabCount(seq)
           size == seq \div n
           extra == seq % n
<1>1. /\ n \in Nat \ {0} /\ size \in Nat /\ extra \in 0 .. n - 1
      /\ seq = n * size + extra
      /\ seq <= n * SlabTokens /\ (n - 1) * SlabTokens < seq
  BY Shares
<1>2. \A i : SlabEnd(seq, i) = i * size + Least(i, extra)
  BY DEF SlabEnd
<1> HIDE DEF n, size, extra
<1>3. SlabTokens \in Nat \ {0} /\ QueryCapacity \in Nat \ {0} /\ 2 * QueryCapacity <= SlabTokens
  BY PlanOK
<1>4. SlabEnd(seq, 0) = 0
  <2>1. 0 * size = 0
    BY <1>1, SMT
  <2> QED BY <1>1, <1>2, <2>1 DEF Least
<1>5. SlabEnd(seq, n) = seq
  BY <1>1, <1>2 DEF Least
<1>6. size <= SlabTokens /\ (extra > 0 => size < SlabTokens)
  <2>1. PICK d \in Int : d = size - SlabTokens
    BY <1>1, <1>3
  <2>2. n * size = n * SlabTokens + n * d /\ n * size \in Nat /\ n * SlabTokens \in Nat
    BY <1>1, <1>3, <2>1, SMT
  <2>3. n * d + extra <= 0
    BY <1>1, <2>2, SMT
  <2>4. d > 0 => n * d > 0
    BY <1>1, <2>1, SMT
  <2>5. d = 0 => n * d = 0
    BY <1>1, SMT
  <2>6. n * d \in Int
    BY <1>1, <2>1, SMT
  <2> QED BY <1>1, <1>3, <2>1, <2>3, <2>4, <2>5, <2>6
<1>7. ASSUME NEW i \in 1 .. n
      PROVE  /\ SlabEnd(seq, i - 1) <= SlabEnd(seq, i)
             /\ SlabEnd(seq, i) <= SlabEnd(seq, i - 1) + SlabTokens
  <2>1. (i - 1) * size \in Nat /\ i * size = (i - 1) * size + size
    <3>1. i - 1 \in Nat /\ i \in Nat
      BY <1>1
    <3>2. (i - 1) * size \in Nat /\ i * size = (i - 1) * size + size
      BY <1>1, <3>1, SMT
    <3> QED BY <3>2
  <2>2. SlabEnd(seq, i) = (i - 1) * size + size + Least(i, extra)
        /\ SlabEnd(seq, i - 1) = (i - 1) * size + Least(i - 1, extra)
    BY <1>2, <2>1
  <2>3. Least(i, extra) \in Nat /\ Least(i - 1, extra) \in Nat
        /\ Least(i - 1, extra) <= Least(i, extra)
        /\ Least(i, extra) <= Least(i - 1, extra) + 1
        /\ (extra = 0 => Least(i, extra) = Least(i - 1, extra))
    BY <1>1 DEF Least
  <2> QED BY <1>1, <1>3, <1>6, <2>1, <2>2, <2>3
<1>8. SlabEnd(seq, n - 1) <= seq - q
  <2>1. (n - 1) * size = n * size - size /\ n * size \in Nat
    BY <1>1, SMT
  <2>2. SlabEnd(seq, n - 1) = seq - size
    BY <1>1, <1>2, <2>1 DEF Least
  <2>3. q <= size
    <3>1. CASE n = 1
      BY <1>1, <3>1
    <3>2. CASE n # 1
      <4>1. (n - 1) * SlabTokens >= (n - 1) * (2 * QueryCapacity)
            /\ (n - 1) * (2 * QueryCapacity) >= n * QueryCapacity
        <5>1. PICK d \in Nat : SlabTokens = 2 * QueryCapacity + d
          <6>1. SlabTokens - 2 * QueryCapacity \in Nat
                /\ SlabTokens = 2 * QueryCapacity + (SlabTokens - 2 * QueryCapacity)
            BY <1>3
          <6> QED BY <6>1
        <5>2. PICK m \in Nat : n = m + 2
          <6>1. n - 2 \in Nat /\ n = (n - 2) + 2
            BY <1>1, <3>2
          <6> QED BY <6>1
        <5>3. (m + 1) * SlabTokens = (m + 1) * (2 * QueryCapacity) + (m + 1) * d
              /\ (m + 1) * d \in Nat
          BY <1>3, <5>1, <5>2, SMT
        <5>4. (m + 1) * (2 * QueryCapacity) = (m + 2) * QueryCapacity + m * QueryCapacity
              /\ m * QueryCapacity \in Nat /\ (m + 2) * QueryCapacity \in Nat
          BY <1>3, <5>2, SMT
        <5>5. n - 1 = m + 1
          BY <5>2
        <5> QED BY <5>2, <5>3, <5>4, <5>5
      <4>2. n * QueryCapacity < seq
        <5>1. n * QueryCapacity \in Nat /\ (n - 1) * SlabTokens \in Nat
              /\ (n - 1) * (2 * QueryCapacity) \in Nat
          BY <1>1, <1>3, SMT
        <5> QED BY <1>1, <4>1, <5>1
      <4>3. QueryCapacity <= size
        <5>1. QueryCapacity <= seq \div n
          <6>1. n * QueryCapacity <= seq
            <7>1. n * QueryCapacity \in Nat
              BY <1>1, <1>3, SMT
            <7> QED BY <4>2, <7>1
          <6> QED BY <1>1, <1>3, <6>1, DivBounds
        <5> QED BY <5>1 DEF size
      <4> QED BY <1>1, <1>3, <4>3
    <3> QED BY <3>1, <3>2
  <2> QED BY <1>1, <2>2, <2>3
<1> QED BY <1>4, <1>5, <1>7, <1>8 DEF n

-----------------------------------------------------------------------------
(* Streams.                                                                *)

\* The owner is the last user, and before there is one only the loader has
\* used the workspace: what makes waiting for the owner alone enough.
StreamInv ==
  /\ after \in [Streams -> SUBSET Streams]
  /\ user \in Streams /\ used \subseteq Streams
  /\ owner = None => user = Loader /\ used = {Loader}
  /\ owner # None => owner = user
  /\ SlabOrdered

LEMMA StreamsInit == Init => StreamInv
  BY PthOK DEF Init, NewWorkspace, StreamInv, SlabOrdered

LEMMA StreamsStep == StreamInv /\ [Next]_vars => StreamInv'
<1> SUFFICES ASSUME StreamInv, [Next]_vars PROVE StreamInv'
  OBVIOUS
<1>1. CASE UNCHANGED <<owner, after, used, user>>
  BY <1>1 DEF StreamInv, SlabOrdered
<1>2. ASSUME NEW batch \in Batches(1), NEW s \in Streams, SlabPrefill(batch, s)
      PROVE  StreamInv'
  <2> DEFINE waits == WaitsFor(s) \ {s}
             behind == (after[s] \cup waits \cup UNION {after[t] : t \in waits}) \ {s}
  <2>1. /\ owner' = s /\ user' = s /\ used' = used \cup {s}
        /\ after' = [t \in Streams |-> IF t = s THEN behind ELSE after[t] \ {s}]
    BY <1>2 DEF SlabPrefill
  <2>2. waits \subseteq Streams
    BY PthOK DEF WaitsFor, StreamInv
  <2>3. behind \subseteq Streams
    BY <2>2 DEF StreamInv
  <2>4. after' \in [Streams -> SUBSET Streams]
    <3> HIDE DEF behind
    <3> QED BY <2>1, <2>3 DEF StreamInv
  <2>5. used \ {s} \subseteq behind
    <3>1. used \subseteq {user} \cup after[user]
      BY DEF StreamInv, SlabOrdered
    <3>2. CASE owner = s /\ owner # None
      BY <3>1, <3>2 DEF StreamInv
    <3>3. CASE ~(owner = s /\ owner # None)
      <4>1. user = s \/ user \in waits
        BY <3>3 DEF WaitsFor, StreamInv
      <4> QED BY <3>1, <4>1
    <3> QED BY <3>2, <3>3
  <2>6. s # None
    BY PthOK
  <2>7. (user \in Streams /\ used \subseteq Streams)'
    BY <2>1 DEF StreamInv
  <2>8. SlabOrdered'
    <3>1. after'[s] = behind
      BY <2>1
    <3> QED BY <2>1, <2>5, <3>1 DEF SlabOrdered
  <2> QED BY <2>1, <2>4, <2>6, <2>7, <2>8 DEF StreamInv
<1> QED BY <1>1, <1>2 DEF Next, Capture, Native, Replay, Finish, vars

\* SlabOrdered for every number of streams and every order of their claims.
THEOREM Ordered == Spec => []SlabOrdered
<1>1. StreamInv => SlabOrdered
  BY DEF StreamInv
<1> QED BY <1>1, StreamsInit, StreamsStep, PTL DEF Spec
-----------------------------------------------------------------------------
(* Sums of query lengths, and the largest of finitely many numbers.        *)

LEMMA LeastNat ==
  ASSUME NEW S, S \subseteq Nat, S # {}
  PROVE  \E m \in S : \A n \in S : m <= n
<1> DEFINE R == {ss \in Nat \X Nat : ss[1] < ss[2]}
<1>1. IsWellFoundedOn(R, Nat)
  BY NatLessThanWellFounded DEF OpToRel
<1>2. PICK m \in S : \A n \in S : ~(<<n, m>> \in R)
  BY <1>1, WFMin
<1>3. ASSUME NEW n \in S PROVE m <= n
  <2>1. m \in Nat /\ n \in Nat /\ <<n, m>> \in Nat \X Nat /\ <<n, m>> \notin R
    BY <1>2
  <2> QED BY <2>1
<1> QED BY <1>3

LEMMA Induction ==
  ASSUME NEW S, 0 \in S, \A n \in Nat : n \in S => n + 1 \in S
  PROVE  Nat \subseteq S
<1> SUFFICES ASSUME Nat \ S # {} PROVE FALSE
  OBVIOUS
<1>1. PICK m \in Nat \ S : \A n \in Nat \ S : m <= n
  BY LeastNat
<1>2. m - 1 \in Nat
  BY <1>1
<1> QED BY <1>1, <1>2

LEMMA GreatestIs ==
  ASSUME NEW S, S \subseteq Nat, S # {}, NEW n \in Nat, \A y \in S : y <= n
  PROVE  Greatest(S) \in S /\ \A y \in S : y <= Greatest(S)
<1> DEFINE D == {n - y : y \in S}
<1>1. D \subseteq Nat /\ D # {}
  <2>1. \A y \in S : y \in Nat /\ n - y \in Nat
    OBVIOUS
  <2> QED BY <2>1
<1>2. PICK d \in D : \A e \in D : d <= e
  BY <1>1, LeastNat
<1>3. PICK x \in S : d = n - x
  BY <1>2
<1>4. \A y \in S : y <= x
  <2> TAKE y \in S
  <2>1. n - x <= n - y
    BY <1>2, <1>3
  <2> QED BY <2>1
<1> QED BY <1>3, <1>4 DEF Greatest

\* f is the recursive function of Sum, up to n.
RunningSum(f, q, n) == f = [i \in 0 .. n |-> IF i = 0 THEN 0 ELSE f[i - 1] + q[i]]

LEMMA RunningSumExists ==
  ASSUME NEW q, NEW n \in Nat
  PROVE  \E f : RunningSum(f, q, n)
<1> DEFINE Good == {m \in Nat : \E f : RunningSum(f, q, m)}
<1>1. 0 \in Good
  <2>1. RunningSum([i \in 0 .. 0 |-> 0], q, 0)
    BY DEF RunningSum
  <2> QED BY <2>1
<1>2. ASSUME NEW m \in Nat, m \in Good PROVE m + 1 \in Good
  <2>1. PICK f : RunningSum(f, q, m)
    BY <1>2
  <2> DEFINE g == [i \in 0 .. m + 1 |-> IF i <= m THEN f[i] ELSE f[m] + q[m + 1]]
  <2>2. ASSUME NEW i \in 0 .. m + 1
        PROVE  g[i] = IF i = 0 THEN 0 ELSE g[i - 1] + q[i]
    <3>1. CASE i = 0
      BY <2>1, <3>1 DEF RunningSum
    <3>2. CASE i \in 1 .. m
      <4>1. g[i] = f[i] /\ g[i - 1] = f[i - 1] /\ i \in 0 .. m /\ i # 0
        BY <3>2
      <4>2. f[i] = f[i - 1] + q[i]
        BY <2>1, <4>1 DEF RunningSum
      <4> QED BY <4>1, <4>2
    <3>3. CASE i = m + 1
      BY <3>3
    <3> QED BY <3>1, <3>2, <3>3
  <2>3. g = [i \in 0 .. m + 1 |-> IF i = 0 THEN 0 ELSE g[i - 1] + q[i]]
    <3> DEFINE h == [i \in 0 .. m + 1 |-> IF i = 0 THEN 0 ELSE g[i - 1] + q[i]]
    <3>1. \A i \in 0 .. m + 1 : g[i] = h[i]
      BY <2>2
    <3> QED BY <3>1
  <2> HIDE DEF g
  <2> QED BY <2>3 DEF RunningSum
<1>3. Nat \subseteq Good
  <2> HIDE DEF Good
  <2> QED BY <1>1, <1>2, Induction
<1> QED BY <1>3

LEMMA SumIs ==
  ASSUME NEW q, NEW n \in Nat, \A i \in 1 .. n : q[i] \in Nat
  PROVE  /\ Sum(q, 0) = 0
         /\ \A i \in 0 .. n : Sum(q, i) \in Nat
         /\ \A i \in 1 .. n : Sum(q, i) = Sum(q, i - 1) + q[i]
<1>1. ASSUME NEW m \in Nat PROVE \E f : RunningSum(f, q, m) /\ Sum(q, m) = f[m]
  <2>1. PICK f : RunningSum(f, q, m)
    BY RunningSumExists
  <2> DEFINE g == CHOOSE g : RunningSum(g, q, m)
  <2>2. RunningSum(g, q, m)
    BY <2>1
  <2>3. Sum(q, m) = g[m]
    BY DEF Sum, RunningSum
  <2> QED BY <2>2, <2>3
\* Two of them agree where both are defined.
<1>2. ASSUME NEW f, NEW g, NEW k \in Nat, NEW m \in Nat, k <= m,
             RunningSum(f, q, k), RunningSum(g, q, m)
      PROVE  f[k] = g[k]
  <2> DEFINE Same == {i \in Nat : i <= k => f[i] = g[i]}
  <2>1. 0 \in Same
    <3>1. 0 \in 0 .. k /\ 0 \in 0 .. m
      BY <1>2
    <3>2. f[0] = 0 /\ g[0] = 0
      BY <1>2, <3>1 DEF RunningSum
    <3> QED BY <3>2
  <2>2. ASSUME NEW i \in Nat, i \in Same PROVE i + 1 \in Same
    <3> SUFFICES ASSUME i + 1 <= k PROVE f[i + 1] = g[i + 1]
      OBVIOUS
    <3>1. i + 1 \in 0 .. k /\ i + 1 \in 0 .. m /\ i + 1 # 0 /\ i + 1 - 1 = i /\ f[i] = g[i]
      BY <1>2, <2>2
    <3>2. f[i + 1] = f[i] + q[i + 1]
      BY <1>2, <3>1 DEF RunningSum
    <3>3. g[i + 1] = g[i] + q[i + 1]
      BY <1>2, <3>1 DEF RunningSum
    <3> QED BY <3>1, <3>2, <3>3
  <2>3. Nat \subseteq Same
    <3> HIDE DEF Same
    <3> QED BY <2>1, <2>2, Induction
  <2> QED BY <2>3
<1>3. Sum(q, 0) = 0
  <2>1. PICK f : RunningSum(f, q, 0) /\ Sum(q, 0) = f[0]
    BY <1>1
  <2> QED BY <2>1 DEF RunningSum
<1>4. ASSUME NEW i \in 1 .. n PROVE Sum(q, i) = Sum(q, i - 1) + q[i]
  <2>1. i \in Nat /\ i - 1 \in Nat /\ i - 1 <= i /\ i # 0 /\ i \in 0 .. i
    OBVIOUS
  <2>2. PICK f : RunningSum(f, q, i - 1) /\ Sum(q, i - 1) = f[i - 1]
    BY <1>1, <2>1
  <2>3. PICK g : RunningSum(g, q, i) /\ Sum(q, i) = g[i]
    BY <1>1, <2>1
  <2>4. f[i - 1] = g[i - 1]
    BY <1>2, <2>1, <2>2, <2>3
  <2>5. g[i] = g[i - 1] + q[i]
    BY <2>1, <2>3 DEF RunningSum
  <2> QED BY <2>2, <2>3, <2>4, <2>5
<1>5. \A i \in 0 .. n : Sum(q, i) \in Nat
  <2> DEFINE T == {i \in Nat : i <= n => Sum(q, i) \in Nat}
  <2>1. 0 \in T
    BY <1>3
  <2>2. ASSUME NEW i \in Nat, i \in T PROVE i + 1 \in T
    <3> SUFFICES ASSUME i + 1 <= n PROVE Sum(q, i + 1) \in Nat
      OBVIOUS
    <3>1. i + 1 \in 1 .. n /\ i + 1 - 1 = i /\ Sum(q, i) \in Nat
      BY <2>2
    <3>2. Sum(q, i + 1) = Sum(q, i) + q[i + 1]
      BY <1>4, <3>1
    <3> QED BY <3>1, <3>2
  <2>3. Nat \subseteq T
    <3> HIDE DEF T
    <3> QED BY <2>1, <2>2, Induction
  <2> QED BY <2>3
<1> QED BY <1>3, <1>4, <1>5

\* Between two offsets lie as many tokens as the requests there allow.
LEMMA SumBounds ==
  ASSUME NEW q, NEW n \in Nat, NEW lo \in Nat, NEW hi \in Nat,
         NEW i \in 0 .. n, NEW j \in 0 .. n, i <= j,
         \A r \in 1 .. n : q[r] \in Nat,
         \A r \in i + 1 .. j : lo <= q[r] /\ q[r] <= hi
  PROVE  /\ Sum(q, i) + (j - i) * lo <= Sum(q, j)
         /\ Sum(q, j) <= Sum(q, i) + (j - i) * hi
<1> DEFINE T == {d \in Nat : i + d <= j => /\ Sum(q, i) + d * lo <= Sum(q, i + d)
                                          /\ Sum(q, i + d) <= Sum(q, i) + d * hi}
<1>1. \A k \in 0 .. n : Sum(q, k) \in Nat
  BY SumIs
<1>2. 0 \in T
  <2>1. i + 0 = i /\ 0 * lo = 0 /\ 0 * hi = 0 /\ Sum(q, i) \in Nat
    BY <1>1, SMT
  <2> QED BY <2>1
<1>3. ASSUME NEW d \in Nat, d \in T PROVE d + 1 \in T
  <2> SUFFICES ASSUME i + d + 1 <= j
               PROVE  /\ Sum(q, i) + (d + 1) * lo <= Sum(q, i + d + 1)
                      /\ Sum(q, i + d + 1) <= Sum(q, i) + (d + 1) * hi
    BY SMT
  <2>1. /\ i + d + 1 \in 1 .. n /\ i + d + 1 \in i + 1 .. j /\ i + d \in 0 .. n
        /\ i + d + 1 - 1 = i + d
    OBVIOUS
  <2>2. Sum(q, i + d + 1) = Sum(q, i + d) + q[i + d + 1]
    BY <2>1, SumIs
  <2>3. lo <= q[i + d + 1] /\ q[i + d + 1] <= hi /\ q[i + d + 1] \in Nat
    BY <2>1
  <2>4. Sum(q, i) + d * lo <= Sum(q, i + d) /\ Sum(q, i + d) <= Sum(q, i) + d * hi
    BY <1>3
  <2>5. (d + 1) * lo = d * lo + lo /\ (d + 1) * hi = d * hi + hi /\ d * lo \in Nat /\ d * hi \in Nat
    BY SMT
  <2>6. Sum(q, i) \in Nat /\ Sum(q, i + d) \in Nat
    BY <1>1, <2>1
  <2> QED BY <2>2, <2>3, <2>4, <2>5, <2>6
<1>4. Nat \subseteq T
  <2> HIDE DEF T
  <2> QED BY <1>2, <1>3, Induction
<1>5. j - i \in Nat /\ i + (j - i) = j
  OBVIOUS
<1> QED BY <1>4, <1>5

-----------------------------------------------------------------------------
(* The planner.                                                            *)

LEMMA CeilIs ==
  ASSUME NEW a \in Nat, NEW b \in Nat \ {0}
  PROVE  /\ CeilDivide(a, b) \in Nat /\ a <= b * CeilDivide(a, b)
         /\ \A c \in Nat : a <= b * c => CeilDivide(a, b) <= c
         /\ a > 0 => CeilDivide(a, b) > 0
<1>1. a + b - 1 \in Nat
  OBVIOUS
<1>2. PICK c \in Nat : c = (a + b - 1) \div b
  BY <1>1, DivIs
<1>3. b * c <= a + b - 1 /\ a + b - 1 < b * c + b
  BY <1>1, <1>2, DivIs
<1>4. b * c \in Nat
  BY <1>2, SMT
<1>5. a <= b * c
  BY <1>3, <1>4
<1>6. ASSUME NEW d \in Nat, a <= b * d PROVE c <= d
  <2>1. b * (d + 1) = b * d + b /\ b * d \in Nat
    BY SMT
  <2>2. a + b - 1 < b * (d + 1)
    BY <1>6, <2>1
  <2>3. c < d + 1
    BY <1>1, <1>2, <2>2, DivBounds
  <2> QED BY <1>2, <2>3
<1>7. a > 0 => c > 0
  <2>1. c = 0 => b * c = 0
    BY SMT
  <2> QED BY <1>2, <1>5, <2>1
<1>8. CeilDivide(a, b) = c
  BY <1>2 DEF CeilDivide
<1> QED BY <1>2, <1>5, <1>6, <1>7, <1>8

LEMMA WarpsHold ==
  ASSUME NEW rows \in Nat, rows <= MaxRows
  PROVE  WmForRows(rows) \in WarpChoices /\ rows <= RowsPerWarp * WmForRows(rows)
<1> DEFINE P(wm) == /\ rows <= RowsPerWarp * wm
                    /\ \A v \in WarpChoices : rows <= RowsPerWarp * v => wm <= v
<1>1. RowsPerWarp \in Nat /\ rows <= RowsPerWarp * 4
  BY PlanOK DEF MaxRows
<1>2. \E wm \in WarpChoices : P(wm)
  <2>1. CASE rows <= RowsPerWarp * 1
    BY <2>1 DEF WarpChoices
  <2>2. CASE ~(rows <= RowsPerWarp * 1) /\ rows <= RowsPerWarp * 2
    BY <2>2 DEF WarpChoices
  <2>3. CASE ~(rows <= RowsPerWarp * 1) /\ ~(rows <= RowsPerWarp * 2)
    BY <1>1, <2>3 DEF WarpChoices
  <2> QED BY <2>1, <2>2, <2>3
<1>3. WmForRows(rows) = CHOOSE wm \in WarpChoices : P(wm)
  BY DEF WmForRows
<1> HIDE DEF P
<1>4. WmForRows(rows) \in WarpChoices /\ P(WmForRows(rows))
  BY <1>2, <1>3
<1> QED BY <1>4 DEF P

\* What every plan is: within the workspace, and with room for a row.
ReservedFor(ly) == TokenSplits(ly.seqs, QDec, ly.target, Hkv)
PlanGood(l, ly) ==
  /\ l.g = ly.g /\ l.window = ly.window /\ l.causal = ly.causal
  /\ l.tokens \in Nat \ {0} /\ l.reqs \in Nat \ {0} /\ l.qmax \in Nat \ {0}
  /\ l.splits \in Nat \ {0} /\ l.wm \in WarpChoices /\ l.g <= RowsPerWarp * l.wm
  /\ ~ Refused(l, ReservedFor(ly))

LEMMA ReserveIsNat ==
  ASSUME NEW ly \in Served
  PROVE  ReservedFor(ly) \in Nat
<1>1. Hkv \in Nat \ {0} /\ QDec \in Nat
  BY PthOK
<1>2. ly.target \in Nat /\ ly.seqs \in Nat
  BY DEF Served
<1>3. Alone(ly.target, Hkv) \in Nat
  BY <1>1, <1>2, CeilIs DEF Alone
<1>4. Least(ly.seqs, Alone(ly.target, Hkv)) \in Nat
  BY <1>2, <1>3 DEF Least
<1> QED BY <1>1, <1>3, <1>4, SMT DEF ReservedFor, TokenSplits

\* The planner never reserves more than there is, nor plans a tile too small
\* for one token.
LEMMA PlanIsGood ==
  ASSUME NEW ly \in Served, NEW prefill \in BOOLEAN,
         NEW tokens \in Nat \ {0}, NEW reqs \in Nat \ {0}, NEW qmax \in Nat \ {0},
         qmax <= tokens, tokens <= reqs * qmax
  PROVE  LET l == PlanLaunch(tokens, reqs, qmax, ly, prefill, ly.target, Hkv, ReservedFor(ly))
         IN PlanGood(l, ly) /\ l.tokens = tokens /\ l.reqs = reqs /\ l.qmax = qmax
<1> DEFINE reserve == ReservedFor(ly)
           l == PlanLaunch(tokens, reqs, qmax, ly, prefill, ly.target, Hkv, reserve)
           bmax == MaxTokensPerTile(ly.g)
           tiles == CeilDivide(IF prefill THEN tokens ELSE qmax, bmax)
           rows == CeilDivide(qmax, tiles) * ly.g
           wm == IF prefill THEN 4 ELSE WmForRows(rows)
           want == CeilDivide(ly.target, Hkv * tiles)
           fill == NumSplits(want, reserve, tokens)
           splits == IF ly.window > 0 THEN Least(fill, WindowCap(ly.window, qmax)) ELSE fill
<1>1. /\ RowsPerWarp \in Nat \ {0} /\ MaxRows = RowsPerWarp * 4 /\ MaxRows \in Nat
      /\ ly.g \in Nat \ {0} /\ ly.g <= MaxRows /\ ly.window \in Nat
      /\ ly.target \in Nat \ {0} /\ Hkv \in Nat \ {0} /\ TileTokens \in Nat \ {0}
  BY PlanOK, PthOK DEF Served, MaxRows
<1>2. reserve \in Nat
  BY ReserveIsNat
<1>3. bmax \in Nat \ {0} /\ ly.g * bmax <= MaxRows
  <2>1. bmax = MaxRows \div ly.g
    BY DEF MaxTokensPerTile
  <2>2. bmax \in Nat /\ ly.g * bmax <= MaxRows
    BY <1>1, <2>1, DivIs
  <2>3. 1 <= bmax
    <3>1. ly.g * 1 <= MaxRows
      BY <1>1
    <3> QED BY <1>1, <2>1, <3>1, DivBounds
  <2> QED BY <2>2, <2>3
<1> HIDE DEF bmax
<1>4. tiles \in Nat \ {0} /\ (~prefill => qmax <= bmax * tiles)
  <2>1. CASE prefill
    <3>1. tiles = CeilDivide(tokens, bmax)
      BY <2>1
    <3> HIDE DEF tiles
    <3> QED BY <1>3, <2>1, <3>1, CeilIs
  <2>2. CASE ~prefill
    <3>1. tiles = CeilDivide(qmax, bmax)
      BY <2>2
    <3> HIDE DEF tiles
    <3> QED BY <1>3, <2>2, <3>1, CeilIs
  <2> QED BY <2>1, <2>2
<1> HIDE DEF tiles
<1>5. wm \in WarpChoices /\ ly.g <= RowsPerWarp * wm
  <2>1. CASE prefill
    BY <1>1, <2>1 DEF WarpChoices
  <2>2. CASE ~prefill
    <3> DEFINE h == CeilDivide(qmax, tiles)
    <3>1. h \in Nat /\ h > 0
      BY <1>4, CeilIs
    <3>2. h <= bmax
      <4>1. tiles * bmax = bmax * tiles
        BY <1>3, <1>4, SMT
      <4> QED BY <1>3, <1>4, <2>2, <4>1, CeilIs
    <3> HIDE DEF h
    <3>3. PICK d \in Nat : bmax = h + d
      <4>1. bmax - h \in Nat /\ bmax = h + (bmax - h)
        BY <1>3, <3>1, <3>2
      <4> QED BY <4>1
    <3>4. PICK d1 \in Nat : h = 1 + d1
      <4>1. h - 1 \in Nat /\ h = 1 + (h - 1)
        BY <3>1
      <4> QED BY <4>1
    <3>5. h * ly.g \in Nat /\ ly.g * bmax = h * ly.g + d * ly.g /\ d * ly.g \in Nat
          /\ h * ly.g = ly.g + d1 * ly.g /\ d1 * ly.g \in Nat
      BY <1>1, <3>1, <3>3, <3>4, SMT
    <3>6. rows \in Nat /\ rows <= MaxRows /\ ly.g <= rows
      BY <1>1, <1>3, <3>5 DEF h
    <3> HIDE DEF rows
    <3>7. WmForRows(rows) \in WarpChoices /\ rows <= RowsPerWarp * WmForRows(rows)
      BY <3>6, WarpsHold
    <3>8. RowsPerWarp * WmForRows(rows) \in Nat
      BY <1>1, <3>7 DEF WarpChoices
    <3> QED BY <1>1, <2>2, <3>6, <3>7, <3>8
  <2> QED BY <2>1, <2>2
<1>6. want \in Nat
  <2>1. Hkv * tiles \in Nat \ {0}
    BY <1>1, <1>4, SMT
  <2> QED BY <1>1, <2>1, CeilIs
<1> HIDE DEF want, wm
<1>7. fill \in Nat \ {0} /\ (fill > 1 => fill <= reserve \div tokens)
  <2>1. reserve \div tokens \in Nat
    BY <1>2, DivIs
  <2> QED BY <1>6, <2>1 DEF NumSplits, Most, Least
<1> HIDE DEF fill
<1>8. splits \in Nat \ {0} /\ splits <= fill
  <2>1. ly.window > 0 => WindowCap(ly.window, qmax) \in Nat \ {0}
    <3> SUFFICES ASSUME ly.window > 0 PROVE WindowCap(ly.window, qmax) \in Nat \ {0}
      OBVIOUS
    <3>1. ly.window + qmax - 2 \in Nat
      BY <1>1
    <3>2. PICK c \in Nat : c = CeilDivide(ly.window + qmax - 2, TileTokens)
      BY <1>1, <3>1, CeilIs
    <3>3. WindowCap(ly.window, qmax) = c + 1
      BY <3>2 DEF WindowCap
    <3> QED BY <3>3
  <2> QED BY <1>7, <2>1 DEF Least
<1> HIDE DEF splits
<1>9. splits > 1 => splits * tokens <= reserve
  <2> SUFFICES ASSUME splits > 1 PROVE splits * tokens <= reserve
    OBVIOUS
  <2>1. PICK m \in Nat : m = reserve \div tokens
    BY <1>2, DivIs
  <2>2. tokens * m <= reserve /\ splits <= m
    BY <1>2, <1>7, <1>8, <2>1, DivIs
  <2>3. PICK d \in Nat : m = splits + d
    <3>1. m - splits \in Nat /\ m = splits + (m - splits)
      BY <1>8, <2>1, <2>2
    <3> QED BY <3>1
  <2>4. tokens * m = splits * tokens + d * tokens /\ splits * tokens \in Nat /\ d * tokens \in Nat
    BY <1>8, <2>3, SMT
  <2> QED BY <1>2, <2>2, <2>4
<1>10. /\ l.tokens = tokens /\ l.reqs = reqs /\ l.qmax = qmax /\ l.g = ly.g
       /\ l.window = ly.window /\ l.causal = ly.causal /\ l.wm = wm /\ l.splits = splits
  BY DEF PlanLaunch, bmax, tiles, wm, want, fill, splits
<1> HIDE DEF l, reserve
<1>11. ~ Refused(l, reserve)
  <2>1. ~ (l.qmax > l.tokens) /\ ~ (l.splits < 1)
    BY <1>8, <1>10
  <2>2. l.reqs * l.qmax = reqs * qmax /\ reqs * qmax \in Nat
    BY <1>10, SMT
  <2>3. ~ (l.tokens > l.reqs * l.qmax)
    BY <1>10, <2>2
  <2>4. l.splits * l.tokens = splits * tokens /\ splits * tokens \in Nat
    BY <1>8, <1>10, SMT
  <2>5. ~ (l.splits > 1 /\ l.splits * l.tokens > reserve)
    BY <1>2, <1>9, <1>10, <2>4
  <2>6. ~ (l.g > RowsPerWarp * l.wm)
    <3>1. RowsPerWarp * wm \in Nat
      BY <1>1, <1>5 DEF WarpChoices
    <3> QED BY <1>1, <1>5, <1>10, <3>1
  <2> QED BY <2>1, <2>3, <2>5, <2>6 DEF Refused
<1> QED BY <1>5, <1>8, <1>10, <1>11 DEF PlanGood, l, reserve

\* The height of its row tiles.
LEMMA TileHasHeight ==
  ASSUME NEW ly \in Served, NEW l, PlanGood(l, ly)
  PROVE  TileHeight(l) \in Nat \ {0}
<1> DEFINE c == (RowsPerWarp * l.wm) \div l.g
<1>1. l.g \in Nat \ {0} /\ RowsPerWarp * l.wm \in Nat /\ l.g * 1 <= RowsPerWarp * l.wm
  BY PlanOK DEF PlanGood, Served, WarpChoices
<1>2. c \in Nat /\ 1 <= c
  BY <1>1, DivIs, DivBounds
<1>3. TileHeight(l) \in {c, l.qmax}
  BY DEF TileHeight
<1> HIDE DEF c
<1> QED BY <1>2, <1>3 DEF PlanGood

-----------------------------------------------------------------------------
(* The builder's slices.                                                   *)

LEMMA LongestIs ==
  ASSUME NEW n \in Nat \ {0}, NEW q, \A r \in 1 .. n : q[r] \in Nat
  PROVE  /\ \E r \in 1 .. n : q[r] = Greatest({q[x] : x \in 1 .. n})
         /\ \A r \in 1 .. n : q[r] <= Greatest({q[x] : x \in 1 .. n})
<1> DEFINE T == {m \in Nat : m <= n => \E b \in Nat : \A r \in 1 .. m : q[r] <= b}
           S == {q[x] : x \in 1 .. n}
<1>1. 0 \in T
  OBVIOUS
<1>2. ASSUME NEW m \in Nat, m \in T PROVE m + 1 \in T
  <2> SUFFICES ASSUME m + 1 <= n PROVE \E b \in Nat : \A r \in 1 .. m + 1 : q[r] <= b
    OBVIOUS
  <2>1. PICK b \in Nat : \A r \in 1 .. m : q[r] <= b
    BY <1>2
  <2>2. q[m + 1] \in Nat
    OBVIOUS
  <2> DEFINE c == b + q[m + 1]
  <2>3. c \in Nat
    BY <2>2
  <2>4. ASSUME NEW r \in 1 .. m + 1 PROVE q[r] <= c
    <3>1. CASE r = m + 1
      BY <2>2, <3>1
    <3>2. CASE r \in 1 .. m
      <4>1. q[r] <= b /\ q[r] \in Nat
        BY <2>1, <3>2
      <4> QED BY <2>2, <4>1
    <3> QED BY <3>1, <3>2
  <2> QED BY <2>3, <2>4
<1>3. Nat \subseteq T
  <2> HIDE DEF T
  <2> QED BY <1>1, <1>2, Induction
<1>4. PICK b \in Nat : \A r \in 1 .. n : q[r] <= b
  <2>1. n \in T
    BY <1>3
  <2> QED BY <2>1
<1>5. S \subseteq Nat /\ q[1] \in S /\ \A y \in S : y <= b
  <2>1. 1 \in 1 .. n
    OBVIOUS
  <2> QED BY <1>4, <2>1
<1>6. S # {}
  BY <1>5
<1> HIDE DEF S
<1>7. Greatest(S) \in S /\ \A y \in S : y <= Greatest(S)
  BY <1>5, <1>6, GreatestIs
<1> QED BY <1>7 DEF S

\* A launch over its slice of the step's lengths.
LaunchGood(c, q, seq, n, ly) ==
  /\ PlanGood(c.plan, ly)
  /\ c.from \in Nat \ {0} /\ c.from + c.plan.reqs - 1 <= n
  /\ Offsets(c.dev, c.plan.reqs, c.plan.tokens)
  /\ \A m \in 1 .. c.plan.reqs :
       /\ QueryLen(c.dev, m) = q[c.from + m - 1]
       /\ q[c.from + m - 1] <= c.plan.qmax
       /\ c.dev.seq[m] = seq[c.from + m - 1]

\* The lengths rebased to a slice are its requests' own.
LEMMA RebasedIs ==
  ASSUME NEW n \in Nat, NEW q \in [1 .. n -> Nat], NEW from \in 1 .. n, NEW to \in from .. n
  PROVE  /\ Rebased(SubSeq(StartLoc(q), from, to + 1)) =
              [m \in 1 .. to - from + 2 |-> Sum(q, from + m - 2) - Sum(q, from - 1)]
         /\ \A i \in 0 .. n : Sum(q, i) \in Nat
         /\ \A i \in 0 .. n : \A j \in i .. n : Sum(q, i) <= Sum(q, j)
<1>1. q \in Seq(Nat) /\ Len(q) = n
  OBVIOUS
<1>2. StartLoc(q) = [r \in 1 .. n + 1 |-> Sum(q, r - 1)]
  BY <1>1 DEF StartLoc
<1>3. \A i \in 0 .. n : Sum(q, i) \in Nat
  BY SumIs
<1>4. StartLoc(q) \in Seq(Nat) /\ Len(StartLoc(q)) = n + 1
  <2>1. \A r \in 1 .. n + 1 : Sum(q, r - 1) \in Nat
    BY <1>3
  <2>2. StartLoc(q) \in [1 .. n + 1 -> Nat]
    BY <1>2, <2>1
  <2> QED BY <2>2
<1> DEFINE s == SubSeq(StartLoc(q), from, to + 1)
<1>5. s = [m \in 1 .. to - from + 2 |-> Sum(q, from + m - 2)]
  <2> DEFINE p == StartLoc(q)
  <2>1. s = [m \in 1 .. (1 + (to + 1) - from) |-> p[m + from - 1]]
    OBVIOUS
  <2>2. 1 + (to + 1) - from = to - from + 2
    OBVIOUS
  <2>3. \A m \in 1 .. to - from + 2 : p[m + from - 1] = Sum(q, from + m - 2)
    <3> TAKE m \in 1 .. to - from + 2
    <3>1. m + from - 1 \in 1 .. n + 1 /\ m + from - 1 - 1 = from + m - 2
      OBVIOUS
    <3> QED BY <1>2, <3>1
  <2> HIDE DEF s, p
  <2> QED BY <2>1, <2>2, <2>3
<1> HIDE DEF s
<1>6. s[1] = Sum(q, from - 1) /\ DOMAIN s = 1 .. to - from + 2
  <2>1. 1 \in 1 .. to - from + 2 /\ from + 1 - 2 = from - 1
    OBVIOUS
  <2> QED BY <1>5, <2>1
<1>7. Rebased(s) = [m \in 1 .. to - from + 2 |-> Sum(q, from + m - 2) - Sum(q, from - 1)]
  BY <1>5, <1>6 DEF Rebased
<1>8. ASSUME NEW i \in 0 .. n, NEW j \in i .. n PROVE Sum(q, i) <= Sum(q, j)
  <2> DEFINE T == {d \in Nat : i + d <= n => Sum(q, i) <= Sum(q, i + d)}
  <2>1. 0 \in T
    BY <1>3
  <2>2. ASSUME NEW d \in Nat, d \in T PROVE d + 1 \in T
    <3> SUFFICES ASSUME i + d + 1 <= n PROVE Sum(q, i) <= Sum(q, i + (d + 1))
      OBVIOUS
    <3>1. i + d + 1 \in 1 .. n /\ i + d + 1 - 1 = i + d /\ i + d \in 0 .. n
          /\ i + (d + 1) = i + d + 1
      OBVIOUS
    <3>2. Sum(q, i + d + 1) = Sum(q, i + d) + q[i + d + 1]
      BY <3>1, SumIs
    <3>3. Sum(q, i) <= Sum(q, i + d) /\ q[i + d + 1] \in Nat
      BY <2>2, <3>1
    <3> QED BY <1>3, <3>1, <3>2, <3>3
  <2>3. Nat \subseteq T
    <3> HIDE DEF T
    <3> QED BY <2>1, <2>2, Induction
  <2>4. PICK d \in Nat : j = i + d
    <3>1. j - i \in Nat /\ j = i + (j - i)
      OBVIOUS
    <3> QED BY <3>1
  <2>5. d \in T
    BY <2>3
  <2> QED BY <2>4, <2>5
<1> QED BY <1>3, <1>7, <1>8 DEF s

\* Slice c computes requests from .. to, the longest of which is longest.
SliceGood(c, q, seq, n, from, to, longest, ly) ==
  /\ LaunchGood(c, q, seq, n, ly)
  /\ c.from = from /\ c.plan.reqs = to - from + 1 /\ c.plan.qmax = q[longest]
  /\ c.plan.tokens = Sum(q, to) - Sum(q, from - 1)

\* A slice bounded by its longest request plans a launch over its own lengths.
LEMMA SliceIsGood ==
  ASSUME layer \in Served, NEW n \in Nat,
         NEW q \in [1 .. n -> Nat \ {0}], NEW seq \in [1 .. n -> Nat],
         NEW from \in 1 .. n, NEW to \in from .. n, NEW longest \in from .. to,
         NEW prefill \in BOOLEAN, \A r \in from .. to : q[r] <= q[longest]
  PROVE  SliceGood(Slice(q, seq, from, to, q[longest], prefill),
                   q, seq, n, from, to, longest, layer)
<1> DEFINE tokens == Sum(q, to) - Sum(q, from - 1)
           reqs == to - from + 1
           qmax == q[longest]
           plan == PlanLaunch(tokens, reqs, qmax, layer, prefill, layer.target, Hkv,
                              ReservedFor(layer))
           qsl == [m \in 1 .. reqs + 1 |-> Sum(q, from + m - 2) - Sum(q, from - 1)]
           dev == [qsl |-> qsl, seq |-> SubSeq(seq, from, to)]
           c == [plan |-> plan, start |-> Sum(q, from - 1), from |-> from, dev |-> dev]
<1>1. q \in [1 .. n -> Nat] /\ qmax \in Nat \ {0} /\ reqs \in Nat \ {0}
  OBVIOUS
<1>2. /\ Rebased(SubSeq(StartLoc(q), from, to + 1)) =
           [m \in 1 .. to - from + 2 |-> Sum(q, from + m - 2) - Sum(q, from - 1)]
      /\ \A i \in 0 .. n : Sum(q, i) \in Nat
      /\ \A i \in 0 .. n : \A j \in i .. n : Sum(q, i) <= Sum(q, j)
  BY <1>1, RebasedIs
<1>3. to - from + 2 = reqs + 1
  OBVIOUS
<1>4. Slice(q, seq, from, to, q[longest], prefill) = c
  BY <1>2, <1>3 DEF Slice, BuilderReserve, ReservedFor
<1>5. tokens \in Nat \ {0} /\ qmax <= tokens
  <2>1. longest \in 1 .. n /\ longest - 1 \in 0 .. n /\ from - 1 \in 0 .. n
        /\ longest - 1 \in from - 1 .. n /\ to \in longest .. n /\ longest \in 0 .. n /\ to \in 0 .. n
    OBVIOUS
  <2>2. Sum(q, longest) = Sum(q, longest - 1) + q[longest]
    BY <1>1, <2>1, SumIs
  <2>3. Sum(q, from - 1) <= Sum(q, longest - 1) /\ Sum(q, longest) <= Sum(q, to)
    BY <1>2, <2>1
  <2>4. Sum(q, from - 1) \in Nat /\ Sum(q, longest - 1) \in Nat /\ Sum(q, longest) \in Nat
        /\ Sum(q, to) \in Nat
    BY <1>2, <2>1
  <2>5. \A a, b, e, d, y \in Nat : /\ a <= b /\ e = b + y /\ e <= d /\ y > 0
                                   => d - a \in Nat \ {0} /\ y <= d - a
    OBVIOUS
  <2>6. q[longest] \in Nat /\ q[longest] > 0
    BY <1>1
  <2> QED BY <2>2, <2>3, <2>4, <2>5, <2>6
<1>6. tokens <= reqs * qmax
  <2>1. from - 1 \in 0 .. n /\ to \in 0 .. n /\ from - 1 <= to /\ to - (from - 1) = reqs
    OBVIOUS
  <2>2. \A r \in 1 .. n : q[r] \in Nat
    OBVIOUS
  <2>3. \A r \in (from - 1) + 1 .. to : 0 <= q[r] /\ q[r] <= qmax
    <3> TAKE r \in (from - 1) + 1 .. to
    <3>1. r \in from .. to /\ r \in 1 .. n
      OBVIOUS
    <3> QED BY <2>2, <3>1
  <2>4. Sum(q, to) <= Sum(q, from - 1) + (to - (from - 1)) * qmax
    <3> HIDE DEF qmax
    <3> QED BY <1>1, <2>1, <2>2, <2>3, SumBounds
  <2>5. Sum(q, to) \in Nat /\ Sum(q, from - 1) \in Nat
    BY <1>2, <2>1
  <2>6. reqs * qmax \in Nat
    <3> HIDE DEF reqs, qmax
    <3> QED BY <1>1, SMT
  <2> HIDE DEF reqs, qmax
  <2> QED BY <2>1, <2>4, <2>5, <2>6
<1>7. PlanGood(plan, layer) /\ plan.tokens = tokens /\ plan.reqs = reqs /\ plan.qmax = qmax
  <2> HIDE DEF tokens, reqs, qmax
  <2> QED BY <1>1, <1>5, <1>6, PlanIsGood
<1>8. Offsets(dev, reqs, tokens)
  <2>1. ASSUME NEW m \in 1 .. reqs + 1
        PROVE  Sum(q, from + m - 2) - Sum(q, from - 1) \in 0 .. tokens
    <3>1. from + m - 2 \in 0 .. n /\ from - 1 \in 0 .. n /\ from + m - 2 \in from - 1 .. n
          /\ to \in from + m - 2 .. n /\ to \in 0 .. n
      BY <2>1
    <3>2. Sum(q, from - 1) <= Sum(q, from + m - 2) /\ Sum(q, from + m - 2) <= Sum(q, to)
          /\ Sum(q, from - 1) \in Nat /\ Sum(q, from + m - 2) \in Nat /\ Sum(q, to) \in Nat
      BY <1>2, <3>1
    <3> QED BY <3>2
  <2>2. ASSUME NEW m \in 1 .. reqs
        PROVE  Sum(q, from + m - 2) - Sum(q, from - 1)
                 <= Sum(q, from + (m + 1) - 2) - Sum(q, from - 1)
    <3>1. from + m - 2 \in 0 .. n /\ from + (m + 1) - 2 \in from + m - 2 .. n
          /\ from - 1 \in 0 .. n /\ from + (m + 1) - 2 \in 0 .. n
      BY <2>2
    <3>2. Sum(q, from + m - 2) <= Sum(q, from + (m + 1) - 2)
          /\ Sum(q, from - 1) \in Nat /\ Sum(q, from + m - 2) \in Nat
          /\ Sum(q, from + (m + 1) - 2) \in Nat
      BY <1>2, <3>1
    <3> QED BY <3>2
  <2>3. dev.qsl \in [1 .. reqs + 1 -> 0 .. tokens]
    <3> HIDE DEF tokens, reqs
    <3> QED BY <2>1
  <2>4. \A m \in 1 .. reqs : dev.qsl[m] <= dev.qsl[m + 1]
    <3> TAKE m \in 1 .. reqs
    <3>1. m \in 1 .. reqs + 1 /\ m + 1 \in 1 .. reqs + 1
      OBVIOUS
    <3> HIDE DEF reqs
    <3> QED BY <2>2, <3>1
  <2> QED BY <2>3, <2>4 DEF Offsets
<1>9. ASSUME NEW m \in 1 .. reqs
      PROVE  /\ QueryLen(dev, m) = q[from + m - 1]
             /\ q[from + m - 1] <= qmax
             /\ dev.seq[m] = seq[from + m - 1]
  <2>1. m \in 1 .. reqs + 1 /\ m + 1 \in 1 .. reqs + 1 /\ from + m - 1 \in 1 .. n
        /\ from + m - 1 \in from .. to /\ from + m - 1 - 1 = from + m - 2
        /\ from + (m + 1) - 2 = from + m - 1
        /\ from + m - 2 \in 0 .. n /\ from + m - 1 \in 0 .. n /\ from - 1 \in 0 .. n
    BY <1>9
  <2>2. qsl[m] = Sum(q, from + m - 2) - Sum(q, from - 1)
        /\ qsl[m + 1] = Sum(q, from + m - 1) - Sum(q, from - 1)
    <3> HIDE DEF reqs
    <3> QED BY <2>1
  <2>3. Sum(q, from + m - 1) = Sum(q, from + m - 2) + q[from + m - 1]
    <3>1. \A k \in 1 .. n : Sum(q, k) = Sum(q, k - 1) + q[k]
      BY <1>1, SumIs
    <3> QED BY <2>1, <3>1
  <2>4. Sum(q, from + m - 1) \in Nat /\ Sum(q, from + m - 2) \in Nat /\ Sum(q, from - 1) \in Nat
        /\ q[from + m - 1] \in Nat
    BY <1>2, <2>1
  <2>5. QueryLen(dev, m) = q[from + m - 1]
    <3>1. QueryLen(dev, m) = qsl[m + 1] - qsl[m]
      BY DEF QueryLen
    <3> HIDE DEF dev, qsl
    <3>2. (Sum(q, from + m - 1) - Sum(q, from - 1)) - (Sum(q, from + m - 2) - Sum(q, from - 1))
            = q[from + m - 1]
      <4>1. PICK a \in Nat : a = Sum(q, from + m - 2)
        BY <2>4
      <4>2. PICK b \in Nat : b = Sum(q, from + m - 1)
        BY <2>4
      <4>3. PICK x \in Nat : x = Sum(q, from - 1)
        BY <2>4
      <4>4. PICK y \in Nat : y = q[from + m - 1]
        BY <2>4
      <4>5. b = a + y
        BY <2>3, <4>1, <4>2, <4>4
      <4>6. (b - x) - (a - x) = y
        BY <4>5
      <4> QED BY <4>1, <4>2, <4>3, <4>4, <4>6
    <3> QED BY <2>2, <3>1, <3>2
  <2>6. SubSeq(seq, from, to)[m] = seq[from + m - 1]
    <3>1. SubSeq(seq, from, to) = [i \in 1 .. (1 + to - from) |-> seq[i + from - 1]]
      OBVIOUS
    <3>2. m \in 1 .. (1 + to - from) /\ m + from - 1 = from + m - 1
      BY <1>9
    <3> QED BY <3>1, <3>2
  <2> QED BY <2>1, <2>5, <2>6
<1>10. from \in Nat \ {0} /\ from + reqs - 1 <= n
  OBVIOUS
<1> HIDE DEF plan, dev, reqs, qmax, tokens
<1>11. LaunchGood(c, q, seq, n, layer)
  BY <1>7, <1>8, <1>9, <1>10 DEF LaunchGood
<1> QED BY <1>4, <1>7, <1>11 DEF SliceGood, tokens, reqs, qmax

-----------------------------------------------------------------------------
(* The steps.                                                              *)

\* The launch computes request r.
InLaunch(c, r) == r - c.from + 1 \in 1 .. c.plan.reqs

\* The launches take each of the n requests once.
LaunchesGood(launches, q, seq, n, ly) ==
  /\ \A c \in launches : LaunchGood(c, q, seq, n, ly)
  /\ \A r \in 1 .. n : \E c \in launches :
       InLaunch(c, r) /\ \A d \in launches : InLaunch(d, r) => d = c

LEMMA ThresholdIsNat ==
  ASSUME layer \in Served
  PROVE  Threshold \in Nat
<1>1. layer.g \in Nat \ {0} /\ MaxRows \in Nat /\ QDec \in Nat
  BY PlanOK, PthOK DEF Served, MaxRows
<1>2. PICK m \in Nat : m = MaxTokensPerTile(layer.g)
  BY <1>1, DivIs DEF MaxTokensPerTile
<1> QED BY <1>1, <1>2 DEF Threshold, Most

\* The requests before the first one above the threshold.
LEMMA NumDecodesIs ==
  ASSUME layer \in Served, NEW n \in Nat, NEW q \in [1 .. n -> Nat]
  PROVE  /\ NumDecodes(q) \in 0 .. n
         /\ \A r \in 1 .. NumDecodes(q) : q[r] <= Threshold
         /\ NumDecodes(q) < n => q[NumDecodes(q) + 1] > Threshold
<1> DEFINE S == {m \in 0 .. n : \A r \in 1 .. m : q[r] <= Threshold}
<1>1. Len(q) = n
  OBVIOUS
<1>2. 0 \in S /\ S \subseteq Nat /\ \A y \in S : y <= n
  OBVIOUS
<1>3. PICK d : d = Greatest(S)
  OBVIOUS
<1>4. d \in S /\ \A y \in S : y <= d
  <2> HIDE DEF S
  <2> QED BY <1>2, <1>3, GreatestIs
<1>5. d < n => q[d + 1] > Threshold
  <2> SUFFICES ASSUME d < n, ~ (q[d + 1] > Threshold) PROVE FALSE
    OBVIOUS
  <2>1. d \in 0 .. n /\ \A r \in 1 .. d : q[r] <= Threshold
    BY <1>4
  <2>2. q[d + 1] <= Threshold
    <3>1. q[d + 1] \in Nat /\ Threshold \in Nat
      BY <2>1, ThresholdIsNat
    <3> QED BY <3>1
  <2>3. \A r \in 1 .. d + 1 : q[r] <= Threshold
    <3> TAKE r \in 1 .. d + 1
    <3>1. r = d + 1 \/ r \in 1 .. d
      BY <2>1
    <3> QED BY <2>1, <2>2, <3>1
  <2>4. d + 1 \in S
    BY <2>1, <2>3
  <2> HIDE DEF S
  <2> QED BY <1>4, <2>1, <2>4
<1>6. NumDecodes(q) = d
  BY <1>1, <1>3 DEF NumDecodes
<1> QED BY <1>4, <1>5, <1>6

\* The builder's one or two launches.
LEMMA BuildIsGood ==
  ASSUME layer \in Served, NEW n \in Nat \ {0},
         NEW q \in [1 .. n -> Nat \ {0}], NEW seq \in [1 .. n -> Nat]
  PROVE  LaunchesGood(Build(q, seq), q, seq, n, layer)
<1>1. q \in [1 .. n -> Nat] /\ Len(q) = n /\ DOMAIN q = 1 .. n
  OBVIOUS
<1>2. PICK d : d = NumDecodes(q)
  OBVIOUS
<1>3. /\ d \in 0 .. n /\ \A r \in 1 .. d : q[r] <= Threshold
      /\ d < n => q[d + 1] > Threshold
  BY <1>1, <1>2, NumDecodesIs
<1> DEFINE Decode(c) == /\ LaunchGood(c, q, seq, n, layer)
                        /\ c.from = 1 /\ c.plan.reqs = d
           Prefill(c) == /\ LaunchGood(c, q, seq, n, layer)
                         /\ c.from = d + 1 /\ c.plan.reqs = n - d
           decode == Slice(q, seq, 1, d, Greatest({q[r] : r \in 1 .. d}), FALSE)
           prefill == Slice(q, seq, d + 1, n, Greatest({q[r] : r \in 1 .. n}), TRUE)
<1>4. Build(q, seq) = (IF d = 0 THEN {} ELSE {decode}) \cup (IF d = n THEN {} ELSE {prefill})
  BY <1>1, <1>2 DEF Build
<1>5. d # 0 => Decode(decode)
  <2> SUFFICES ASSUME d # 0 PROVE Decode(decode)
    OBVIOUS
  <2>1. d \in Nat \ {0} /\ d \in 1 .. n /\ \A r \in 1 .. d : q[r] \in Nat
    BY <1>3
  <2> DEFINE g == Greatest({q[x] : x \in 1 .. d})
  <2>1a. (\E x \in 1 .. d : q[x] = g) /\ \A x \in 1 .. d : q[x] <= g
    BY <2>1, LongestIs
  <2> HIDE DEF g
  <2>2. PICK r \in 1 .. d : q[r] = g
    BY <2>1a
  <2>3. \A x \in 1 .. d : q[x] <= q[r]
    BY <2>1a, <2>2
  <2>4. 1 \in 1 .. n /\ d - 1 + 1 = d
    BY <2>1
  <2>5. SliceGood(Slice(q, seq, 1, d, q[r], FALSE), q, seq, n, 1, d, r, layer)
    <3> HIDE DEF Decode, decode
    <3> QED BY <2>1, <2>3, <2>4, SliceIsGood
  <2>6. decode = Slice(q, seq, 1, d, q[r], FALSE)
    BY <2>2 DEF g
  <2> HIDE DEF decode
  <2> QED BY <2>4, <2>5, <2>6 DEF SliceGood
<1>6. d # n => Prefill(prefill)
  <2> SUFFICES ASSUME d # n PROVE Prefill(prefill)
    OBVIOUS
  <2>1. \A r \in 1 .. n : q[r] \in Nat
    OBVIOUS
  <2> DEFINE g == Greatest({q[x] : x \in 1 .. n})
  <2>1a. (\E x \in 1 .. n : q[x] = g) /\ \A x \in 1 .. n : q[x] <= g
    BY <2>1, LongestIs
  <2> HIDE DEF g
  <2>2. PICK r \in 1 .. n : q[r] = g
    BY <2>1a
  <2>3. \A x \in 1 .. n : q[x] <= q[r]
    BY <2>1a, <2>2
\* The longest request is not a decode.
  <2>4. r \in d + 1 .. n
    <3> SUFFICES ASSUME r \in 1 .. d PROVE FALSE
      BY <1>3
    <3>1. d + 1 \in 1 .. n /\ q[d + 1] > Threshold /\ q[r] <= Threshold /\ q[d + 1] <= q[r]
      BY <1>3, <2>3
    <3>2. q[d + 1] \in Nat /\ q[r] \in Nat /\ Threshold \in Nat
      BY <2>1, <3>1, ThresholdIsNat
    <3> QED BY <3>1, <3>2
  <2>5. d + 1 \in 1 .. n /\ n \in d + 1 .. n /\ n - (d + 1) + 1 = n - d
        /\ \A x \in d + 1 .. n : q[x] <= q[r]
    BY <1>3, <2>3
  <2>6. SliceGood(Slice(q, seq, d + 1, n, q[r], TRUE), q, seq, n, d + 1, n, r, layer)
    <3>1. \A from \in 1 .. n : from = d + 1 =>
            SliceGood(Slice(q, seq, from, n, q[r], TRUE), q, seq, n, from, n, r, layer)
      <4> TAKE from \in 1 .. n
      <4> HAVE from = d + 1
      <4>1. n \in from .. n /\ r \in from .. n /\ \A x \in from .. n : q[x] <= q[r]
        BY <2>4, <2>5
      <4> HIDE DEF Prefill, prefill
      <4> QED BY <4>1, SliceIsGood
    <3> QED BY <2>5, <3>1
  <2>7. prefill = Slice(q, seq, d + 1, n, q[r], TRUE)
    BY <2>2 DEF g
  <2> HIDE DEF prefill
  <2> QED BY <2>5, <2>6, <2>7 DEF SliceGood
<1> HIDE DEF decode, prefill
<1>7. \A c \in Build(q, seq) : LaunchGood(c, q, seq, n, layer)
  BY <1>4, <1>5, <1>6
<1>8. ASSUME NEW r \in 1 .. n
      PROVE  \E c \in Build(q, seq) :
               InLaunch(c, r) /\ \A e \in Build(q, seq) : InLaunch(e, r) => e = c
  <2>1. CASE r <= d
    <3>1. d # 0 /\ r - 1 + 1 \in 1 .. d /\ r - (d + 1) + 1 \notin 1 .. n - d
      BY <1>3, <2>1
    <3>2. InLaunch(decode, r)
      BY <1>5, <3>1 DEF InLaunch
    <3>3. d # n => ~ InLaunch(prefill, r)
      BY <1>6, <3>1 DEF InLaunch
    <3> QED BY <1>4, <3>1, <3>2, <3>3
  <2>2. CASE ~ (r <= d)
    <3>1. d # n /\ r - 1 + 1 \notin 1 .. d /\ r - (d + 1) + 1 \in 1 .. n - d
      BY <1>3, <2>2
    <3>2. InLaunch(prefill, r)
      BY <1>6, <3>1 DEF InLaunch
    <3>3. d # 0 => ~ InLaunch(decode, r)
      BY <1>5, <3>1 DEF InLaunch
    <3> QED BY <1>4, <3>1, <3>2, <3>3
  <2> QED BY <2>1, <2>2
<1> QED BY <1>7, <1>8 DEF LaunchesGood

\* The launches of a step, and the lengths they read: each launch is planned
\* within the workspace, reads the lengths of its own requests, and no request
\* is in two of them; the slab path has a causal layer and one short request.
StepGood(s, n, ly) ==
  /\ s.q \in [1 .. n -> Nat] /\ s.seq \in [1 .. n -> Nat]
  /\ \A r \in 1 .. n : s.q[r] <= s.seq[r]
  /\ s.path # "slab" => LaunchesGood(s.launches, s.q, s.seq, n, ly)
  /\ s.path = "slab" =>
       /\ s.launches = {} /\ n = 1 /\ s.q[1] \in 1 .. QueryCapacity
       /\ ly.causal /\ ly.window = 0

\* The captured launch has room for its padded requests.
GraphGood(l, ly) == PlanGood(l, ly) /\ l.reqs * l.qmax <= l.tokens

\* What makes a replay safe: the captured plan depends on nothing that a later
\* step changes, and bounds every length the device may hold.
PlanInv ==
  /\ layer \in Layers
  /\ graph # None => GraphGood(graph, layer)
  /\ step # None => \E n \in Nat : StepGood(step, n, layer)

LEMMA PlansInit == Init => PlanInv
  BY DEF Init, PlanInv

LEMMA CaptureIsGood ==
  ASSUME layer \in Served, NEW n \in Nat \ {0}, NEW len \in Nat \ {0}, len <= Threshold,
         NEW q, q = [r \in 1 .. n |-> len]
  PROVE  GraphGood((CHOOSE s \in Build(q, q) : TRUE).plan, layer)
<1>1. /\ q \in [1 .. n -> Nat \ {0}] /\ q \in [1 .. n -> Nat] /\ Len(q) = n
      /\ \A r \in 1 .. n : q[r] = len
  OBVIOUS
<1>2. NumDecodes(q) = n
  <2>1. PICK d : d = NumDecodes(q)
    OBVIOUS
  <2>2. d \in 0 .. n /\ (d < n => q[d + 1] > Threshold)
    BY <1>1, <2>1, NumDecodesIs
  <2>3. d < n => FALSE
    <3> SUFFICES ASSUME d < n PROVE FALSE
      OBVIOUS
    <3>1. d + 1 \in 1 .. n
      BY <2>2
    <3> QED BY <1>1, <2>2, <3>1, ThresholdIsNat
  <2> QED BY <2>1, <2>2, <2>3
<1> DEFINE g == Greatest({q[r] : r \in 1 .. n})
           c == Slice(q, q, 1, n, g, FALSE)
<1>3. Build(q, q) = {c}
  BY <1>1, <1>2 DEF Build
<1>4. g = q[1]
  <2>1. \A x \in 1 .. n : q[x] \in Nat
    BY <1>1
  <2>2. (\E x \in 1 .. n : q[x] = g) /\ \A x \in 1 .. n : q[x] <= g
    <3> SUFFICES ASSUME NEW p, \A x \in 1 .. n : p[x] \in Nat
                 PROVE  /\ \E x \in 1 .. n : p[x] = Greatest({p[r] : r \in 1 .. n})
                        /\ \A x \in 1 .. n : p[x] <= Greatest({p[r] : r \in 1 .. n})
      BY <2>1
    <3> QED BY LongestIs
  <2> HIDE DEF g
  <2>3. 1 \in 1 .. n
    OBVIOUS
  <2> QED BY <1>1, <2>2, <2>3
<1>5. SliceGood(Slice(q, q, 1, n, q[1], FALSE), q, q, n, 1, n, 1, layer)
  <2>1. 1 \in 1 .. n /\ n \in 1 .. n /\ \A r \in 1 .. n : q[r] <= q[1]
    BY <1>1
  <2> HIDE DEF c, g
  <2> QED BY <1>1, <2>1, SliceIsGood
<1>6. (CHOOSE s \in Build(q, q) : TRUE) = c
  <2> HIDE DEF c
  <2> QED BY <1>3
<1>7. c = Slice(q, q, 1, n, q[1], FALSE)
  BY <1>4
<1> HIDE DEF c, g
<1>8. /\ PlanGood(c.plan, layer) /\ c.plan.reqs = n /\ c.plan.qmax = len
      /\ c.plan.tokens = Sum(q, n) - Sum(q, 0)
  <2>1. n - 1 + 1 = n /\ 1 - 1 = 0 /\ q[1] = len
    BY <1>1
  <2>2. PlanGood(c.plan, layer)
    BY <1>5, <1>7 DEF SliceGood, LaunchGood
  <2>3. c.plan.reqs = n - 1 + 1 /\ c.plan.qmax = q[1]
        /\ c.plan.tokens = Sum(q, n) - Sum(q, 1 - 1)
    BY <1>5, <1>7 DEF SliceGood
  <2> QED BY <2>1, <2>2, <2>3
<1>9. n * len <= Sum(q, n)
  <2>1. /\ 0 \in 0 .. n /\ n \in 0 .. n /\ 0 <= n
        /\ \A r \in 1 .. n : q[r] \in Nat
        /\ \A r \in 0 + 1 .. n : len <= q[r] /\ q[r] <= len
    BY <1>1
  <2>2. Sum(q, 0) + (n - 0) * len <= Sum(q, n)
    BY <2>1, SumBounds
  <2>3. Sum(q, 0) = 0
    BY <2>1, SumIs
  <2>4. n - 0 = n /\ n * len \in Nat
    BY SMT
  <2> QED BY <2>2, <2>4, <2>3
<1>10. Sum(q, 0) = 0 /\ Sum(q, n) \in Nat
  <2>1. \A r \in 1 .. n : q[r] \in Nat
    BY <1>1
  <2>2. n \in 0 .. n
    OBVIOUS
  <2> QED BY <2>1, <2>2, SumIs
<1>11. c.plan.reqs * c.plan.qmax = n * len
  BY <1>8
<1>12. c.plan.reqs * c.plan.qmax <= c.plan.tokens
  <2>1. n * len \in Nat
    BY SMT
  <2> QED BY <1>8, <1>9, <1>10, <1>11, <2>1
<1>13. GraphGood(c.plan, layer)
  BY <1>8, <1>12 DEF GraphGood
<1> QED BY <1>6, <1>13

\* A captured launch over any lengths it was planned for.
LEMMA ReplayIsGood ==
  ASSUME NEW ly, NEW l, GraphGood(l, ly), NEW n \in Nat, n = l.reqs,
         NEW q \in [1 .. n -> Nat], NEW seq \in [1 .. n -> Nat],
         \A r \in 1 .. n : q[r] <= l.qmax
  PROVE  LaunchesGood({[plan |-> l, start |-> 0, from |-> 1,
                        dev |-> [qsl |-> StartLoc(q), seq |-> seq]]}, q, seq, n, ly)
<1> DEFINE dev == [qsl |-> StartLoc(q), seq |-> seq]
           c == [plan |-> l, start |-> 0, from |-> 1, dev |-> dev]
<1>1. /\ l.tokens \in Nat /\ l.qmax \in Nat /\ n \in Nat \ {0} /\ PlanGood(l, ly)
      /\ l.reqs * l.qmax <= l.tokens
  BY DEF GraphGood, PlanGood
<1>2. Len(q) = n /\ StartLoc(q) = [m \in 1 .. n + 1 |-> Sum(q, m - 1)]
  BY DEF StartLoc
<1>3. \A i \in 0 .. n : Sum(q, i) \in Nat
  BY SumIs
<1>4. \A i \in 1 .. n : Sum(q, i) = Sum(q, i - 1) + q[i]
  BY SumIs
<1>5. \A i \in 0 .. n : Sum(q, i) <= Sum(q, n)
  <2> TAKE i \in 0 .. n
  <2>1. 1 \in 1 .. n /\ n \in 1 .. n /\ n \in i .. n
    BY <1>1
  <2> QED BY <2>1, RebasedIs
<1>6. Sum(q, n) <= l.tokens
  <2>1. /\ 0 \in 0 .. n /\ n \in 0 .. n /\ 0 <= n
        /\ \A r \in 1 .. n : q[r] \in Nat
        /\ \A r \in 0 + 1 .. n : 0 <= q[r] /\ q[r] <= l.qmax
    <3>1. \A r \in 1 .. n : q[r] \in Nat
      OBVIOUS
    <3>2. 0 + 1 = 1 /\ 0 \in 0 .. n /\ n \in 0 .. n /\ 0 <= n
      OBVIOUS
    <3> QED BY <3>1, <3>2
  <2>2. PICK hi \in Nat : hi = l.qmax
    BY <1>1
  <2>3. Sum(q, n) <= Sum(q, 0) + (n - 0) * hi
    BY <2>1, <2>2, SumBounds
  <2>4. Sum(q, 0) = 0 /\ n - 0 = n
    BY <2>1, SumIs
  <2>5. n * hi \in Nat /\ n * hi <= l.tokens
    <3>1. n * hi = l.reqs * l.qmax
      BY <2>2
    <3>2. n * hi \in Nat
      BY SMT
    <3> QED BY <1>1, <3>1, <3>2
  <2>6. Sum(q, n) \in Nat
    BY <1>3, <2>1
  <2> QED BY <1>1, <2>3, <2>4, <2>5, <2>6
<1>7. Offsets(dev, n, l.tokens)
  <2>1. ASSUME NEW m \in 1 .. n + 1 PROVE Sum(q, m - 1) \in 0 .. l.tokens
    <3>1. m - 1 \in 0 .. n /\ n \in 0 .. n
      BY <2>1
    <3>2. Sum(q, m - 1) \in Nat /\ Sum(q, m - 1) <= Sum(q, n) /\ Sum(q, n) \in Nat
      BY <1>3, <1>5, <3>1
    <3> QED BY <1>1, <1>6, <3>2
  <2>2. dev.qsl = [m \in 1 .. n + 1 |-> Sum(q, m - 1)]
    BY <1>2
  <2>3. \A m \in 1 .. n : dev.qsl[m] <= dev.qsl[m + 1]
    <3> TAKE m \in 1 .. n
    <3>1. m \in 1 .. n + 1 /\ m + 1 \in 1 .. n + 1 /\ m + 1 - 1 = m /\ m - 1 \in 0 .. n
          /\ q[m] \in Nat
      OBVIOUS
    <3>2. dev.qsl[m] = Sum(q, m - 1) /\ dev.qsl[m + 1] = Sum(q, m)
      BY <2>2, <3>1
    <3>3. Sum(q, m) = Sum(q, m - 1) + q[m] /\ Sum(q, m - 1) \in Nat
      BY <1>3, <1>4, <3>1
    <3> QED BY <3>1, <3>2, <3>3
  <2> HIDE DEF dev
  <2> QED BY <2>1, <2>2, <2>3 DEF Offsets
<1>8. ASSUME NEW m \in 1 .. n PROVE QueryLen(dev, m) = q[m] /\ dev.seq[m] = seq[m]
  <2>1. m \in 1 .. n + 1 /\ m + 1 \in 1 .. n + 1 /\ m + 1 - 1 = m /\ m - 1 \in 0 .. n
        /\ q[m] \in Nat
    OBVIOUS
  <2>2. dev.qsl[m] = Sum(q, m - 1) /\ dev.qsl[m + 1] = Sum(q, m)
    BY <1>2, <2>1
  <2>3. Sum(q, m) = Sum(q, m - 1) + q[m] /\ Sum(q, m - 1) \in Nat
    BY <1>3, <1>4, <2>1
  <2>4. QueryLen(dev, m) = dev.qsl[m + 1] - dev.qsl[m] /\ dev.seq = seq
    BY DEF QueryLen
  <2> HIDE DEF dev
  <2> QED BY <2>1, <2>2, <2>3, <2>4
<1>9. c.plan = l /\ c.from = 1 /\ c.dev = dev
  OBVIOUS
<1> HIDE DEF c, dev
<1>10. LaunchGood(c, q, seq, n, ly)
  <2>1. \A m \in 1 .. n : 1 + m - 1 = m
    OBVIOUS
  <2>2. 1 \in Nat \ {0} /\ 1 + n - 1 <= n
    OBVIOUS
  <2> QED BY <1>1, <1>7, <1>8, <1>9, <2>1, <2>2 DEF LaunchGood
<1>11. \A r \in 1 .. n : InLaunch(c, r)
  <2>1. \A r \in 1 .. n : r - 1 + 1 \in 1 .. n
    OBVIOUS
  <2> QED BY <1>9, <2>1 DEF InLaunch
<1>12. LaunchesGood({c}, q, seq, n, ly)
  BY <1>10, <1>11 DEF LaunchesGood
<1> QED BY <1>12 DEF c, dev

LEMMA PlansStep == PlanInv /\ [Next]_vars => PlanInv'
<1> SUFFICES ASSUME PlanInv, [Next]_vars PROVE PlanInv'
  OBVIOUS
<1>1. layer \in Layers /\ layer \in Served /\ QLens \subseteq Nat \ {0} /\ SeqLens \subseteq Nat \ {0}
  BY PthOK DEF PlanInv
<1>2. CASE UNCHANGED <<layer, graph, step>>
  BY <1>2 DEF PlanInv
<1>3. ASSUME NEW n \in 1 .. layer.seqs, NEW len \in QLens, Capture(n, len)
      PROVE  PlanInv'
  <2>1. PICK q : q = [r \in 1 .. n |-> len]
    OBVIOUS
  <2>2. graph' = (CHOOSE s \in Build(q, q) : TRUE).plan /\ len <= Threshold
        /\ UNCHANGED <<layer, step>>
    BY <1>3, <2>1 DEF Capture
  <2>3. n \in Nat \ {0} /\ len \in Nat \ {0}
    BY <1>1
  <2>4. PICK l : l = (CHOOSE s \in Build(q, q) : TRUE).plan
    OBVIOUS
  <2>5. GraphGood(l, layer)
    BY <1>1, <2>1, <2>2, <2>3, <2>4, CaptureIsGood
  <2> QED BY <1>1, <2>2, <2>4, <2>5 DEF PlanInv
<1>4. ASSUME NEW n \in 1 .. layer.seqs, NEW batch \in Batches(n), Native(batch)
      PROVE  PlanInv'
  <2>1. PICK q : q = [r \in DOMAIN batch |-> batch[r][1]]
    OBVIOUS
  <2>2. PICK seq : seq = [r \in DOMAIN batch |-> batch[r][2]]
    OBVIOUS
  <2>3. step' = Metadata("native", q, seq, Build(q, seq)) /\ UNCHANGED <<layer, graph>>
    BY <1>4, <2>1, <2>2 DEF Native
  <2>4. /\ batch \in [1 .. n -> QLens \X SeqLens]
        /\ \A r \in 1 .. n : batch[r][1] <= batch[r][2]
    BY DEF Batches
  <2>5. /\ n \in Nat \ {0} /\ n \in Nat
        /\ q \in [1 .. n -> Nat \ {0}] /\ q \in [1 .. n -> Nat] /\ seq \in [1 .. n -> Nat]
        /\ \A r \in 1 .. n : q[r] <= seq[r]
    <3>1. \A r \in 1 .. n : batch[r] \in QLens \X SeqLens
      BY <2>4
    <3>2. \A r \in 1 .. n : batch[r][1] \in Nat \ {0} /\ batch[r][2] \in Nat
      BY <1>1, <3>1
    <3>3. DOMAIN batch = 1 .. n
      BY <2>4
    <3>4. n \in Nat \ {0}
      BY <1>1 DEF Served
    <3> QED BY <2>1, <2>2, <2>4, <3>2, <3>3, <3>4
  <2>6. LaunchesGood(Build(q, seq), q, seq, n, layer)
    BY <1>1, <2>5, BuildIsGood
  <2>7. PICK s : s = Metadata("native", q, seq, Build(q, seq))
    OBVIOUS
  <2>8. s.path = "native" /\ s.q = q /\ s.seq = seq /\ s.launches = Build(q, seq)
    BY <2>7 DEF Metadata
  <2>9. StepGood(s, n, layer)
    BY <2>5, <2>6, <2>8 DEF StepGood
  <2> QED BY <1>1, <2>3, <2>5, <2>7, <2>9 DEF PlanInv
<1>5. ASSUME graph # None,
             NEW q \in [1 .. graph.reqs -> QLens \cup {0}],
             NEW seq \in [1 .. graph.reqs -> SeqLens], Replay(q, seq)
      PROVE  PlanInv'
  <2>1. PICK n : n = graph.reqs
    OBVIOUS
  <2>2. GraphGood(graph, layer) /\ n \in Nat
    BY <1>5, <2>1 DEF PlanInv, GraphGood, PlanGood
  <2>3. q \in [1 .. n -> Nat] /\ seq \in [1 .. n -> Nat]
    <3>1. q \in [1 .. n -> QLens \cup {0}] /\ seq \in [1 .. n -> SeqLens]
      BY <2>1
    <3>2. QLens \cup {0} \subseteq Nat /\ SeqLens \subseteq Nat
      BY <1>1
    <3>3. \A S, T, D : S \subseteq T => [D -> S] \subseteq [D -> T]
      OBVIOUS
    <3> QED BY <3>1, <3>2, <3>3
  <2>4. /\ \A r \in 1 .. n : q[r] <= graph.qmax /\ q[r] <= seq[r]
        /\ step' = Metadata("replay", q, seq,
                     {[plan |-> graph, start |-> 0, from |-> 1,
                       dev |-> [qsl |-> StartLoc(q), seq |-> seq]]})
        /\ UNCHANGED <<layer, graph>>
    BY <1>5, <2>3 DEF Replay
  <2>5. PICK launches : launches = {[plan |-> graph, start |-> 0, from |-> 1,
                                     dev |-> [qsl |-> StartLoc(q), seq |-> seq]]}
    OBVIOUS
  <2>6. LaunchesGood(launches, q, seq, n, layer)
    BY <2>1, <2>2, <2>3, <2>4, <2>5, ReplayIsGood
  <2>7. PICK s : s = Metadata("replay", q, seq, launches)
    OBVIOUS
  <2>8. s.path = "replay" /\ s.q = q /\ s.seq = seq /\ s.launches = launches
    BY <2>7 DEF Metadata
  <2>9. StepGood(s, n, layer)
    BY <2>3, <2>4, <2>6, <2>8 DEF StepGood
  <2> QED BY <1>1, <2>2, <2>4, <2>5, <2>7, <2>9 DEF PlanInv
<1>6. ASSUME NEW batch \in Batches(1), NEW strm \in Streams, SlabPrefill(batch, strm)
      PROVE  PlanInv'
  <2>1. PICK a : a = batch[1][1]
    OBVIOUS
  <2>2. PICK b : b = batch[1][2]
    OBVIOUS
  <2>3. SlabEligible(<<a>>) /\ step' = Metadata("slab", <<a>>, <<b>>, {})
        /\ UNCHANGED <<layer, graph>>
    BY <1>6, <2>1, <2>2 DEF SlabPrefill
  <2>4. a \in Nat \ {0} /\ b \in Nat /\ a <= b
    <3>1. batch \in [1 .. 1 -> QLens \X SeqLens] /\ \A r \in 1 .. 1 : batch[r][1] <= batch[r][2]
      BY DEF Batches
    <3>2. 1 \in 1 .. 1
      OBVIOUS
    <3>3. batch[1] \in QLens \X SeqLens /\ batch[1][1] <= batch[1][2]
      BY <3>1, <3>2
    <3> QED BY <1>1, <2>1, <2>2, <3>3
  <2>5. layer.causal /\ a <= QueryCapacity /\ layer.slab
    BY <2>3 DEF SlabEligible
  <2>6. layer.window = 0
    BY <1>1, <2>5, PthOK
  <2>7. PICK s : s = Metadata("slab", <<a>>, <<b>>, {})
    OBVIOUS
  <2>8. s.path = "slab" /\ s.q = <<a>> /\ s.seq = <<b>> /\ s.launches = {}
    BY <2>7 DEF Metadata
  <2>9. StepGood(s, 1, layer)
    <3>1. <<a>> \in [1 .. 1 -> Nat] /\ <<b>> \in [1 .. 1 -> Nat]
          /\ <<a>>[1] = a /\ <<b>>[1] = b
      BY <2>4
    <3>2. \A r \in 1 .. 1 : r = 1
      OBVIOUS
    <3>3. a \in 1 .. QueryCapacity
      BY <2>4, <2>5, PlanOK
    <3> QED BY <2>4, <2>5, <2>6, <2>8, <3>1, <3>2, <3>3 DEF StepGood
  <2> QED BY <1>1, <2>3, <2>7, <2>9 DEF PlanInv
<1>7. ASSUME Finish PROVE PlanInv'
  BY <1>7 DEF Finish, PlanInv
<1> QED BY <1>2, <1>3, <1>4, <1>5, <1>6, <1>7 DEF Next, vars

LEMMA PlansHold == Spec => []PlanInv
  BY PlansInit, PlansStep, PTL DEF Spec

\* Every launch and every captured plan stays within what was reserved at load,
\* whatever the batch: the planner, the Impl and the op refuse none.
THEOREM NeverRefusedHolds == Spec => []NeverRefused
<1>1. PlanInv => NeverRefused
  <2> SUFFICES ASSUME PlanInv PROVE NeverRefused
    OBVIOUS
  <2>1. Reserved = ReservedFor(layer)
    BY DEF Reserved, ReservedFor
  <2>2. graph # None => ~ Refused(graph, Reserved)
    BY <2>1 DEF PlanInv, GraphGood, PlanGood
  <2>3. ASSUME step # None, NEW l \in step.launches PROVE ~ Refused(l.plan, Reserved)
    <3>1. PICK n \in Nat : StepGood(step, n, layer)
      BY <2>3 DEF PlanInv
    <3>2. PlanGood(l.plan, layer)
      BY <2>3, <3>1 DEF StepGood, LaunchesGood, LaunchGood
    <3> QED BY <2>1, <3>2 DEF PlanGood
  <2> QED BY <2>2, <2>3 DEF NeverRefused
<1> QED BY <1>1, PlansHold, PTL

-----------------------------------------------------------------------------
(* The keys of a row.                                                      *)

\* No other tile of the request holds the token.
LEMMA TokenHasOneTile ==
  ASSUME NEW b \in Nat \ {0}, NEW dev, NEW reqs, NEW r, NEW x \in Int, NEW i \in Nat,
         FirstTile(dev, b, r) \in Nat,
         OwnsTile(dev, b, reqs, r, x), i \in TileRows(dev, b, r, x), QueryLen(dev, r) \in Nat
  PROVE  x = FirstTile(dev, b, r) + i \div b
<1>1. PICK f \in Nat : f = FirstTile(dev, b, r)
  OBVIOUS
<1>2. PICK d \in Nat : d = x - f
  <2>1. f <= x
    BY <1>1 DEF OwnsTile
  <2>2. x - f \in Nat
    BY <2>1
  <2> QED BY <2>2
<1>3. d * b \in Nat /\ b * d = d * b /\ b * (d + 1) = d * b + b
  BY <1>2, SMT
<1>4. TileRows(dev, b, r, x) = d * b .. Least(d * b + b, QueryLen(dev, r)) - 1
  BY <1>1, <1>2 DEF TileRows
<1>5. d * b <= i /\ i < d * b + b
  <2>1. PICK e \in Nat : e = d * b
    BY <1>3
  <2>2. i \in e .. Least(e + b, QueryLen(dev, r)) - 1
    BY <1>4, <2>1
  <2>3. e <= i /\ i < e + b
    BY <2>2 DEF Least
  <2> QED BY <2>1, <2>3
<1>6. d <= i \div b
  BY <1>2, <1>3, <1>5, DivBounds
<1>7. i \div b < d + 1
  <2>1. i < b * (d + 1) /\ d + 1 \in Nat
    BY <1>2, <1>3, <1>5
  <2> QED BY <2>1, DivBounds
<1>8. i \div b \in Nat
  BY DivIs
<1> QED BY <1>1, <1>2, <1>6, <1>7, <1>8

\* Launch c computes token i of request r in tile x, whose rows are lo .. hi.
RowAt(c, x, r, i, lo, hi, q) ==
  LET m == r - c.from + 1
      b == TileHeight(c.plan)
  IN /\ InLaunch(c, r)
     /\ TileRows(c.dev, b, m, x) = lo .. hi
     /\ lo \in Nat /\ hi \in Nat /\ lo <= i /\ i <= hi /\ hi < q[r]

\* One row tile computes the token.
LEMMA ComputingIs ==
  ASSUME layer \in Served, NEW n \in Nat, StepGood(step, n, layer), step.path # "slab",
         NEW r \in 1 .. n, NEW i \in 0 .. step.q[r] - 1
  PROVE  \E c \in step.launches, x \in Nat, lo \in Nat, hi \in Nat :
           /\ Computing(r, i) = {<<c, x>>}
           /\ RowAt(c, x, r, i, lo, hi, step.q)
<1>1. /\ LaunchesGood(step.launches, step.q, step.seq, n, layer)
      /\ step.q \in [1 .. n -> Nat]
  BY DEF StepGood
<1>2. PICK c \in step.launches : InLaunch(c, r) /\ \A d \in step.launches : InLaunch(d, r) => d = c
  BY <1>1 DEF LaunchesGood
<1>3. LaunchGood(c, step.q, step.seq, n, layer)
  BY <1>1, <1>2 DEF LaunchesGood
<1>4. PICK l : l = c.plan
  OBVIOUS
<1>5. PICK dev : dev = c.dev
  OBVIOUS
<1>6. PICK m : m = r - c.from + 1
  OBVIOUS
<1>7. m \in 1 .. l.reqs /\ c.from + m - 1 = r /\ c.from \in Nat /\ m \in Nat
  <2>1. m \in 1 .. l.reqs /\ c.from \in Nat
    BY <1>2, <1>3, <1>4, <1>6 DEF InLaunch, LaunchGood
  <2> QED BY <1>6, <2>1
<1>8. /\ PlanGood(l, layer) /\ Offsets(dev, l.reqs, l.tokens)
      /\ QueryLen(dev, m) = step.q[r]
  BY <1>3, <1>4, <1>5, <1>7 DEF LaunchGood
<1>9. PICK b \in Nat \ {0} : b = TileHeight(l)
  BY <1>8, TileHasHeight
<1>10. /\ l.reqs \in Nat \ {0} /\ l.tokens \in Nat /\ i \in Nat
       /\ step.q[r] \in Nat /\ i \in 0 .. QueryLen(dev, m) - 1
  BY <1>1, <1>8 DEF PlanGood
<1>11. FirstTile(dev, b, m) \in Nat
  <2>1. dev.qsl \in [1 .. l.reqs + 1 -> 0 .. l.tokens] /\ m \in 1 .. l.reqs + 1
    BY <1>7, <1>8, <1>10 DEF Offsets
  <2>2. dev.qsl[m] \in 0 .. l.tokens
    BY <2>1
  <2>3. dev.qsl[m] \in Nat
    BY <2>2
  <2>4. dev.qsl[m] \div b \in Nat
    BY <2>3, DivIs
  <2>5. m - 1 \in Nat
    BY <1>7
  <2> QED BY <2>4, <2>5 DEF FirstTile
<1>12. PICK x : x = FirstTile(dev, b, m) + i \div b
  OBVIOUS
<1>13. /\ x \in 0 .. GridTiles(l, b) - 1
       /\ OwnsTile(dev, b, l.reqs, m, x)
       /\ i \in TileRows(dev, b, m, x)
  BY <1>7, <1>8, <1>10, <1>12, TokenHasItsTile
<1>14. x \in Nat
  BY <1>10, <1>11, <1>12, DivIs
<1>15. \A y \in Int : OwnsTile(dev, b, l.reqs, m, y) /\ i \in TileRows(dev, b, m, y) => y = x
  <2> SUFFICES ASSUME NEW y \in Int, OwnsTile(dev, b, l.reqs, m, y), i \in TileRows(dev, b, m, y)
               PROVE  y = x
    OBVIOUS
  <2>1. QueryLen(dev, m) \in Nat
    BY <1>8, <1>10
  <2>2. y = FirstTile(dev, b, m) + i \div b
    BY <1>10, <1>11, <2>1, TokenHasOneTile
  <2> QED BY <1>12, <2>2
<1> DEFINE Tiles(d) == LET t == TileHeight(d.plan)
                           mine == r - d.from + 1
                       IN {<<d, z>> : z \in {y \in 0 .. GridTiles(d.plan, t) - 1 :
                            /\ mine \in 1 .. d.plan.reqs
                            /\ OwnsTile(d.dev, t, d.plan.reqs, mine, y)
                            /\ i \in TileRows(d.dev, t, mine, y)}}
<1>16. Computing(r, i) = UNION {Tiles(d) : d \in step.launches}
  BY DEF Computing
<1>17. \A d \in step.launches : d # c => Tiles(d) = {}
  BY <1>2 DEF InLaunch
<1>18. Tiles(c) = {<<c, x>>}
  <2> DEFINE Z == {y \in 0 .. GridTiles(l, b) - 1 :
                    /\ m \in 1 .. l.reqs
                    /\ OwnsTile(dev, b, l.reqs, m, y)
                    /\ i \in TileRows(dev, b, m, y)}
  <2>1. Z = {x}
    BY <1>7, <1>13, <1>15
  <2>2. Tiles(c) = {<<c, z>> : z \in Z}
    BY <1>4, <1>5, <1>6, <1>9
  <2> HIDE DEF Z, Tiles
  <2> QED BY <2>1, <2>2
<1>19. Computing(r, i) = {<<c, x>>}
  <2> HIDE DEF Tiles
  <2> QED BY <1>2, <1>16, <1>17, <1>18
<1>20. PICK d \in Nat : d = x - FirstTile(dev, b, m) /\ d = i \div b
  <2>1. PICK f \in Nat : f = FirstTile(dev, b, m)
    BY <1>11
  <2>2. PICK z \in Nat : z = i \div b
    BY <1>10, DivIs
  <2> QED BY <1>12, <2>1, <2>2
<1>21. PICK lo \in Nat : lo = d * b
  BY <1>20, SMT
<1>22. PICK hi \in Int : hi = Least(lo + b, QueryLen(dev, m)) - 1
  <2>1. PICK k \in Nat : k = QueryLen(dev, m)
    BY <1>8, <1>10
  <2>2. Least(lo + b, k) - 1 \in Int
    BY DEF Least
  <2> QED BY <2>1, <2>2
<1>23. TileRows(dev, b, m, x) = lo .. hi
  BY <1>20, <1>21, <1>22 DEF TileRows
<1>24. lo <= i /\ i <= hi /\ hi < step.q[r] /\ hi \in Nat
  BY <1>8, <1>10, <1>13, <1>21, <1>22, <1>23 DEF Least
<1>25. RowAt(c, x, r, i, lo, hi, step.q)
  BY <1>2, <1>4, <1>5, <1>6, <1>9, <1>23, <1>24 DEF RowAt
<1> QED BY <1>2, <1>14, <1>19, <1>21, <1>24, <1>25

\* Where the keys of token i lie, for a request of q new tokens and s keys.
LEMMA WindowIs ==
  ASSUME NEW l, l.window \in Nat, l.causal \in BOOLEAN, NEW dev, NEW m,
         NEW q \in Nat, q = QueryLen(dev, m), NEW s \in Nat, s = dev.seq[m], q <= s,
         NEW i \in 0 .. q - 1
  PROVE  /\ WindowLo(l, dev, m, i) \in Nat /\ WindowHi(l, dev, m, i) \in Nat
         /\ WindowLo(l, dev, m, i) <= WindowHi(l, dev, m, i)
         /\ WindowHi(l, dev, m, i) <= s - 1
         /\ l.causal => WindowHi(l, dev, m, i) = s - q + i
         /\ l.window > 0 => s - q + i - l.window + 1 <= WindowLo(l, dev, m, i)
         /\ WindowLo(l, dev, m, i) .. WindowHi(l, dev, m, i) =
              {k \in 0 .. s - 1 :
                 /\ l.causal => k <= s - q + i
                 /\ l.window > 0 => s - q + i - k < l.window /\ k - (s - q + i) < l.window}
         /\ \A j \in i .. q - 1 : /\ WindowLo(l, dev, m, i) <= WindowLo(l, dev, m, j)
                                  /\ WindowHi(l, dev, m, i) <= WindowHi(l, dev, m, j)
<1>1. PICK w \in Nat : w = l.window
  OBVIOUS
<1> DEFINE Lo(j) == IF w > 0 THEN Most(0, s - q + j - w + 1) ELSE 0
           Hi(j) == IF l.causal THEN s - q + j
                    ELSE IF w > 0 THEN Least(s - 1, s - q + j + w - 1) ELSE s - 1
           p == s - q + i
<1>2. \A j \in 0 .. q - 1 : KvLimit(dev, m, j) = s - q + j
  BY DEF KvLimit
<1>3. \A j \in 0 .. q - 1 : WindowLo(l, dev, m, j) = Lo(j)
  BY <1>1, <1>2 DEF WindowLo
<1>4. \A j \in 0 .. q - 1 : WindowHi(l, dev, m, j) = Hi(j)
  BY <1>1, <1>2 DEF WindowHi
<1>5. p \in Nat /\ p <= s - 1
  OBVIOUS
<1>6. Lo(i) \in Nat /\ Lo(i) <= p /\ (w > 0 => p - w + 1 <= Lo(i)) /\ (w = 0 => Lo(i) = 0)
      /\ (w > 0 => Lo(i) = 0 \/ Lo(i) = p - w + 1)
  BY <1>1, <1>5 DEF Most
<1>7. Hi(i) \in Nat /\ p <= Hi(i) /\ Hi(i) <= s - 1
      /\ (l.causal => Hi(i) = p)
      /\ (~ l.causal /\ w > 0 => Hi(i) <= p + w - 1 /\ (Hi(i) = s - 1 \/ Hi(i) = p + w - 1))
      /\ (~ l.causal /\ w = 0 => Hi(i) = s - 1)
  <2>1. CASE l.causal
    BY <1>5, <2>1
  <2>2. CASE ~ l.causal /\ w > 0
    BY <1>1, <1>5, <2>2 DEF Least
  <2>3. CASE ~ l.causal /\ w = 0
    BY <1>1, <1>5, <2>3
  <2> QED BY <1>1, <2>1, <2>2, <2>3
<1>8. \A j \in i .. q - 1 : Lo(i) <= Lo(j) /\ Hi(i) <= Hi(j)
  <2> TAKE j \in i .. q - 1
  <2>1. Lo(i) <= Lo(j)
    BY <1>1 DEF Most
  <2>2. Hi(i) <= Hi(j)
    <3>1. CASE l.causal
      BY <3>1
    <3>2. CASE ~ l.causal
      BY <1>1, <3>2 DEF Least
    <3> QED BY <3>1, <3>2
  <2> QED BY <2>1, <2>2
<1>9. Lo(i) .. Hi(i) = {k \in 0 .. s - 1 :
                          /\ l.causal => k <= p
                          /\ w > 0 => p - k < w /\ k - p < w}
  <2>1. PICK a \in Nat : a = Lo(i)
    BY <1>6
  <2>2. PICK z \in Nat : z = Hi(i)
    BY <1>7
  <2> HIDE DEF Lo, Hi, p
  <2>3. CASE l.causal
    BY <1>1, <1>5, <1>6, <1>7, <2>1, <2>2, <2>3
  <2>4. CASE ~ l.causal
    BY <1>1, <1>5, <1>6, <1>7, <2>1, <2>2, <2>4
  <2> QED BY <2>3, <2>4
<1>10. WindowLo(l, dev, m, i) .. WindowHi(l, dev, m, i) =
         {k \in 0 .. s - 1 :
            /\ l.causal => k <= s - q + i
            /\ l.window > 0 => s - q + i - k < l.window /\ k - (s - q + i) < l.window}
  <2>1. WindowLo(l, dev, m, i) = Lo(i) /\ WindowHi(l, dev, m, i) = Hi(i)
    BY <1>3, <1>4
  <2> HIDE DEF Lo, Hi
  <2> QED BY <1>1, <1>9, <2>1
<1>11. \A j \in i .. q - 1 : /\ WindowLo(l, dev, m, i) <= WindowLo(l, dev, m, j)
                             /\ WindowHi(l, dev, m, i) <= WindowHi(l, dev, m, j)
  <2> TAKE j \in i .. q - 1
  <2>1. j \in 0 .. q - 1
    OBVIOUS
  <2> HIDE DEF Lo, Hi
  <2> QED BY <1>3, <1>4, <1>8, <2>1
<1>12. /\ WindowLo(l, dev, m, i) \in Nat /\ WindowHi(l, dev, m, i) \in Nat
       /\ WindowLo(l, dev, m, i) <= WindowHi(l, dev, m, i)
       /\ WindowHi(l, dev, m, i) <= s - 1
       /\ l.causal => WindowHi(l, dev, m, i) = s - q + i
       /\ l.window > 0 => s - q + i - l.window + 1 <= WindowLo(l, dev, m, i)
  <2>1. WindowLo(l, dev, m, i) = Lo(i) /\ WindowHi(l, dev, m, i) = Hi(i)
    BY <1>3, <1>4
  <2> HIDE DEF Lo, Hi
  <2> QED BY <1>1, <1>5, <1>6, <1>7, <2>1
<1> HIDE DEF Lo, Hi, p
<1> QED BY <1>10, <1>11, <1>12

\* A walk of the KV tiles from first to last, over the keys of rows lo .. hi.
Walk(l, dev, m, lo, hi, first, last) ==
  /\ first \in Nat /\ last \in Nat /\ first <= last
  /\ KvTiles(l, dev, m, lo .. hi) = first .. last
  /\ first = WindowLo(l, dev, m, lo) \div TileTokens
  /\ last = CeilDivide(WindowHi(l, dev, m, hi) + 1, TileTokens) - 1
  /\ \A i \in lo .. hi : \A k \in WindowLo(l, dev, m, i) .. WindowHi(l, dev, m, i) :
       k \div TileTokens \in first .. last

LEMMA WalkExists ==
  ASSUME NEW l, l.window \in Nat, l.causal \in BOOLEAN, NEW dev, NEW m,
         NEW q \in Nat, q = QueryLen(dev, m), NEW s \in Nat, s = dev.seq[m], q <= s,
         NEW lo \in Nat, NEW hi \in lo .. q - 1
  PROVE  \E first \in Nat, last \in Nat : Walk(l, dev, m, lo, hi, first, last)
<1>1. TileTokens \in Nat \ {0}
  BY PlanOK
<1>2. lo \in 0 .. q - 1 /\ hi \in 0 .. q - 1 /\ lo <= hi
  OBVIOUS
<1>3. PICK a \in Nat : a = WindowLo(l, dev, m, lo)
  BY <1>2, WindowIs
<1>4. PICK z \in Nat : z = WindowHi(l, dev, m, hi)
  BY <1>2, WindowIs
<1>5. PICK first \in Nat : first = a \div TileTokens
  BY <1>1, DivIs
<1>6. PICK e \in Nat : e = CeilDivide(z + 1, TileTokens)
  <2>1. z + 1 \in Nat
    OBVIOUS
  <2> QED BY <1>1, <2>1, CeilIs
<1>7. z + 1 <= TileTokens * e /\ e > 0
  BY <1>1, <1>6, CeilIs
<1>8. \A k \in Nat : k <= z => k \div TileTokens <= e - 1
  <2> SUFFICES ASSUME NEW k \in Nat, k <= z PROVE k \div TileTokens <= e - 1
    OBVIOUS
  <2>1. k < TileTokens * e
    <3>1. TileTokens * e \in Nat
      BY <1>1, SMT
    <3> QED BY <1>7, <3>1
  <2>2. k \div TileTokens < e /\ k \div TileTokens \in Nat
    BY <1>1, <2>1, DivBounds, DivIs
  <2> QED BY <2>2
<1>9. ASSUME NEW i \in lo .. hi, NEW k \in WindowLo(l, dev, m, i) .. WindowHi(l, dev, m, i)
      PROVE  k \div TileTokens \in first .. e - 1
  <2>1. i \in 0 .. q - 1 /\ i \in lo .. q - 1 /\ hi \in i .. q - 1
    BY <1>2
  <2>2. WindowLo(l, dev, m, i) \in Nat /\ WindowHi(l, dev, m, i) \in Nat
    BY <2>1, WindowIs
  <2>3. a <= WindowLo(l, dev, m, i)
    <3>1. \A j \in lo .. q - 1 : WindowLo(l, dev, m, lo) <= WindowLo(l, dev, m, j)
      BY <1>2, WindowIs
    <3> QED BY <1>3, <2>1, <3>1
  <2>4. WindowHi(l, dev, m, i) <= z
    <3>1. \A j \in i .. q - 1 : WindowHi(l, dev, m, i) <= WindowHi(l, dev, m, j)
      BY <2>1, WindowIs
    <3> QED BY <1>4, <2>1, <3>1
  <2>5. k \in Nat /\ a <= k /\ k <= z
    BY <2>2, <2>3, <2>4
  <2>6. first <= k \div TileTokens /\ k \div TileTokens \in Nat
    BY <1>1, <1>5, <2>5, DivMonotone, DivIs
  <2> QED BY <1>8, <2>5, <2>6
<1>10. first <= e - 1
  <2>1. WindowLo(l, dev, m, lo) \in Nat /\ WindowHi(l, dev, m, lo) \in Nat
        /\ WindowLo(l, dev, m, lo) <= WindowHi(l, dev, m, lo)
    BY <1>2, WindowIs
  <2>2. lo \in lo .. hi /\ a \in WindowLo(l, dev, m, lo) .. WindowHi(l, dev, m, lo)
    BY <1>2, <1>3, <2>1
  <2>3. a \div TileTokens \in first .. e - 1
    BY <1>9, <2>2
  <2> QED BY <1>5, <2>3
<1>11. KvTiles(l, dev, m, lo .. hi) = first .. e - 1
  <2>1. \A i : i \in lo .. hi /\ (\A j \in lo .. hi : i <= j) <=> i = lo
    BY <1>2
  <2>2. \A i : i \in lo .. hi /\ (\A j \in lo .. hi : j <= i) <=> i = hi
    BY <1>2
  <2>3. (CHOOSE i \in lo .. hi : \A j \in lo .. hi : i <= j) = lo
    BY <2>1
  <2>4. (CHOOSE i \in lo .. hi : \A j \in lo .. hi : j <= i) = hi
    BY <2>2
  <2> QED BY <1>3, <1>4, <1>5, <1>6, <2>3, <2>4 DEF KvTiles
<1>12. e - 1 \in Nat
  BY <1>7
<1>13. Walk(l, dev, m, lo, hi, first, e - 1)
  BY <1>3, <1>4, <1>5, <1>6, <1>9, <1>10, <1>11, <1>12 DEF Walk
<1> QED BY <1>12, <1>13

\* A window's walk is no longer than the cap of its launch.
LEMMA WalkWithinCap ==
  ASSUME NEW l, l.window \in Nat \ {0}, l.causal \in BOOLEAN, l.qmax \in Nat \ {0}, NEW dev, NEW m,
         NEW q \in Nat, q = QueryLen(dev, m), q <= l.qmax,
         NEW s \in Nat, s = dev.seq[m], q <= s,
         NEW lo \in Nat, NEW hi \in lo .. q - 1,
         NEW first \in Nat, NEW last \in Nat, Walk(l, dev, m, lo, hi, first, last)
  PROVE  Cardinality(KvTiles(l, dev, m, lo .. hi)) <= WindowCap(l.window, l.qmax)
<1>1. TileTokens \in Nat \ {0} /\ lo \in 0 .. q - 1 /\ hi \in 0 .. q - 1
  BY PlanOK
<1>2. PICK a \in Nat : a = WindowLo(l, dev, m, lo)
  BY <1>1, WindowIs
<1>3. PICK z \in Nat : z = WindowHi(l, dev, m, hi)
  BY <1>1, WindowIs
<1>4. z + 1 <= a + (l.window + l.qmax - 1)
  <2>1. s - q + lo - l.window + 1 <= a
    BY <1>1, <1>2, WindowIs
  <2>2. z <= s - 1
    BY <1>1, <1>3, WindowIs
  <2> QED BY <2>1, <2>2
<1>5. PICK span \in Nat : span = l.window + l.qmax - 2
  <2>1. l.window + l.qmax - 2 \in Nat
    OBVIOUS
  <2> QED BY <2>1
<1>6. PICK e \in Nat : e = CeilDivide(span, TileTokens)
  BY <1>1, CeilIs
<1>7. span <= TileTokens * e
  BY <1>1, <1>6, CeilIs
<1>8. first = a \div TileTokens /\ last = CeilDivide(z + 1, TileTokens) - 1 /\ first <= last
  BY <1>2, <1>3 DEF Walk
<1>9. a < TileTokens * first + TileTokens
  BY <1>1, <1>8, DivIs
<1>10. TileTokens * (first + 1 + e) = TileTokens * first + TileTokens + TileTokens * e
       /\ TileTokens * first \in Nat /\ TileTokens * e \in Nat
  BY <1>1, SMT
<1>11. z + 1 <= TileTokens * (first + 1 + e)
  BY <1>1, <1>4, <1>5, <1>7, <1>9, <1>10
<1>12. last + 1 <= first + 1 + e
  <2>1. z + 1 \in Nat /\ first + 1 + e \in Nat
    OBVIOUS
  <2>2. CeilDivide(z + 1, TileTokens) <= first + 1 + e
    BY <1>1, <1>11, <2>1, CeilIs
  <2>3. CeilDivide(z + 1, TileTokens) \in Nat
    BY <1>1, <2>1, CeilIs
  <2> QED BY <1>8, <2>2, <2>3
<1>13. Cardinality(first .. last) = last - first + 1
  BY <1>8, FS_Interval
<1>14. WindowCap(l.window, l.qmax) = e + 1
  BY <1>5, <1>6 DEF WindowCap
<1>15. KvTiles(l, dev, m, lo .. hi) = first .. last
  BY DEF Walk
<1> QED BY <1>12, <1>13, <1>14, <1>15

\* What is known of a row: its launch's plan, its request's lengths, and the
\* tiles its walk takes.
RowGood(c, x, r, i, lo, hi, first, last, s, ly) ==
  LET m == r - c.from + 1
  IN /\ RowAt(c, x, r, i, lo, hi, s.q)
     /\ PlanGood(c.plan, ly)
     /\ QueryLen(c.dev, m) = s.q[r] /\ c.dev.seq[m] = s.seq[r]
     /\ s.q[r] <= c.plan.qmax /\ s.q[r] <= s.seq[r]
     /\ s.q[r] \in Nat /\ s.seq[r] \in Nat
     /\ Walk(c.plan, c.dev, m, lo, hi, first, last)

LEMMA RowIsGood ==
  ASSUME layer \in Served, NEW n \in Nat, StepGood(step, n, layer), step.path # "slab",
         NEW r \in 1 .. n, NEW i \in 0 .. step.q[r] - 1
  PROVE  \E c \in step.launches, x \in Nat, lo \in Nat, hi \in Nat, first \in Nat, last \in Nat :
           /\ Computing(r, i) = {<<c, x>>}
           /\ RowGood(c, x, r, i, lo, hi, first, last, step, layer)
<1>1. PICK c \in step.launches, x \in Nat, lo \in Nat, hi \in Nat :
        /\ Computing(r, i) = {<<c, x>>}
        /\ RowAt(c, x, r, i, lo, hi, step.q)
  BY ComputingIs
<1>2. LaunchGood(c, step.q, step.seq, n, layer)
  BY <1>1 DEF StepGood, LaunchesGood
<1>3. PICK m : m = r - c.from + 1
  OBVIOUS
<1>4. m \in 1 .. c.plan.reqs /\ c.from + m - 1 = r
  <2>1. m \in 1 .. c.plan.reqs /\ c.from \in Nat
    BY <1>1, <1>2, <1>3 DEF RowAt, InLaunch, LaunchGood
  <2> QED BY <1>3, <2>1
<1>5. /\ PlanGood(c.plan, layer)
      /\ QueryLen(c.dev, m) = step.q[r] /\ c.dev.seq[m] = step.seq[r]
      /\ step.q[r] <= c.plan.qmax
  BY <1>2, <1>4 DEF LaunchGood
<1>6. step.q[r] \in Nat /\ step.seq[r] \in Nat /\ step.q[r] <= step.seq[r]
  BY DEF StepGood
<1>7. PICK l : l = c.plan
  OBVIOUS
<1>8. l.window \in Nat /\ l.causal \in BOOLEAN
  BY <1>5, <1>7 DEF PlanGood, Served
<1>9. hi \in lo .. step.q[r] - 1
  BY <1>1, <1>6 DEF RowAt
<1>10. PICK first \in Nat, last \in Nat : Walk(l, c.dev, m, lo, hi, first, last)
  BY <1>5, <1>6, <1>8, <1>9, WalkExists
<1>11. RowGood(c, x, r, i, lo, hi, first, last, step, layer)
  BY <1>1, <1>3, <1>5, <1>6, <1>7, <1>10 DEF RowGood
<1> QED BY <1>1, <1>10, <1>11

\* A window's cap never takes a split that has a tile: every row tile of every
\* launch, replayed ones too, walks at most as many KV tiles as the cap.
THEOREM CapLosesNothingHolds == Spec => []CapLosesNothing
<1>1. ASSUME PlanInv, step # None, layer.window > 0,
             NEW r \in DOMAIN step.q, NEW i \in 0 .. step.q[r] - 1, NEW d \in Computing(r, i)
      PROVE  LET mine == r - d[1].from + 1
                 rows == TileRows(d[1].dev, TileHeight(d[1].plan), mine, d[2])
             IN Cardinality(KvTiles(d[1].plan, d[1].dev, mine, rows))
                  <= WindowCap(layer.window, d[1].plan.qmax)
  <2>1. PICK n \in Nat : StepGood(step, n, layer)
    BY <1>1 DEF PlanInv
  <2>2. layer \in Served /\ r \in 1 .. n
    BY <1>1, <2>1, PthOK DEF PlanInv, StepGood
  <2>3. step.path # "slab"
    BY <1>1, <2>1 DEF StepGood
  <2>4. PICK c \in step.launches, x \in Nat, lo \in Nat, hi \in Nat, first \in Nat, last \in Nat :
          /\ Computing(r, i) = {<<c, x>>}
          /\ RowGood(c, x, r, i, lo, hi, first, last, step, layer)
    BY <2>1, <2>2, <2>3, RowIsGood
  <2>5. d[1] = c /\ d[2] = x
    BY <2>4
  <2>6. PICK l : l = c.plan
    OBVIOUS
  <2>7. PICK m : m = r - c.from + 1
    OBVIOUS
  <2>8. TileRows(c.dev, TileHeight(l), m, x) = lo .. hi /\ lo <= hi /\ hi < step.q[r]
        /\ step.q[r] \in Nat
    BY <2>4, <2>6, <2>7 DEF RowGood, RowAt
  <2>9. l.window = layer.window /\ l.window \in Nat \ {0} /\ l.causal \in BOOLEAN
        /\ l.qmax \in Nat \ {0}
    BY <1>1, <2>2, <2>4, <2>6 DEF RowGood, PlanGood, Served
  <2>10. hi \in lo .. step.q[r] - 1
    BY <2>8
  <2>11. Cardinality(KvTiles(l, c.dev, m, lo .. hi)) <= WindowCap(l.window, l.qmax)
    <3>1. /\ QueryLen(c.dev, m) = step.q[r] /\ c.dev.seq[m] = step.seq[r]
          /\ step.q[r] <= l.qmax /\ step.q[r] <= step.seq[r]
          /\ step.q[r] \in Nat /\ step.seq[r] \in Nat
          /\ Walk(l, c.dev, m, lo, hi, first, last)
      BY <2>4, <2>6, <2>7 DEF RowGood
    <3> QED BY <2>9, <2>10, <3>1, WalkWithinCap
  <2> QED BY <2>5, <2>6, <2>7, <2>8, <2>9, <2>11
<1>2. PlanInv => CapLosesNothing
  BY <1>1 DEF CapLosesNothing
<1> QED BY <1>2, PlansHold, PTL

-----------------------------------------------------------------------------
(* The parts of a row.                                                     *)

\* The parts hold every key of the set, and none twice.
PartsGive(parts, keys) ==
  /\ UNION {parts[s] : s \in DOMAIN parts} = keys
  /\ \A s, t \in DOMAIN parts : s # t => parts[s] \cap parts[t] = {}

LEMMA SplitsGive ==
  ASSUME NEW l, l.splits \in Nat \ {0}, NEW dev, NEW m, NEW lo \in Nat, NEW hi \in Nat,
         NEW first \in Nat, NEW last \in Nat, Walk(l, dev, m, lo, hi, first, last),
         NEW i \in lo .. hi
  PROVE  PartsGive([s \in 1 .. l.splits |-> SplitKeys(l, dev, m, lo .. hi, s - 1, i)],
                   WindowLo(l, dev, m, i) .. WindowHi(l, dev, m, i))
<1>1. PICK n \in Nat \ {0} : n = l.splits
  OBVIOUS
<1>2. PICK keys : keys = WindowLo(l, dev, m, i) .. WindowHi(l, dev, m, i)
  OBVIOUS
<1>3. PICK tiles \in Nat : tiles = last - first + 1 /\ last - first \in Nat
  <2>1. last - first \in Nat /\ last - first + 1 \in Nat
    BY DEF Walk
  <2> QED BY <2>1
<1> DEFINE Mine(s) == {first + t : t \in SplitRange(s, n, tiles)}
           Part(s) == {k \in keys : k \div TileTokens \in Mine(s)}
<1>4. \A s : SplitKeys(l, dev, m, lo .. hi, s, i) = Part(s)
  <2>1. KvTiles(l, dev, m, lo .. hi) = first .. last /\ first <= last
    BY DEF Walk
  <2>2. \A t : t \in first .. last /\ (\A u \in first .. last : t <= u) <=> t = first
    BY <2>1
  <2>3. (CHOOSE t \in first .. last : \A u \in first .. last : t <= u) = first
    BY <2>2
  <2>4. Cardinality(first .. last) = tiles
    BY <1>3, <2>1, FS_Interval
  <2> QED BY <1>1, <1>2, <2>1, <2>3, <2>4 DEF SplitKeys
<1>5. /\ \A t \in 0 .. tiles - 1 : \E s \in 0 .. n - 1 : t \in SplitRange(s, n, tiles)
      /\ \A s, u \in 0 .. n - 1 :
           s # u => SplitRange(s, n, tiles) \cap SplitRange(u, n, tiles) = {}
  BY SplitsPartition
<1>6. \A s : \A t \in SplitRange(s, n, tiles) : t \in Int
  BY DEF SplitRange
<1>7. ASSUME NEW k \in keys
      PROVE  \E s \in 0 .. n - 1 : k \in Part(s)
  <2>1. PICK t \in first .. last : t = k \div TileTokens
    BY <1>2 DEF Walk
  <2>2. t - first \in 0 .. tiles - 1 /\ first + (t - first) = t
    BY <1>3, <2>1
  <2>3. PICK s \in 0 .. n - 1 : t - first \in SplitRange(s, n, tiles)
    BY <1>5, <2>2
  <2>4. t \in Mine(s)
    BY <2>2, <2>3
  <2> HIDE DEF Mine
  <2> QED BY <2>1, <2>4
<1>8. ASSUME NEW s \in 0 .. n - 1, NEW u \in 0 .. n - 1, s # u
      PROVE  Part(s) \cap Part(u) = {}
  <2> SUFFICES ASSUME NEW k \in keys, k \div TileTokens \in Mine(s), k \div TileTokens \in Mine(u)
               PROVE  FALSE
    OBVIOUS
  <2>1. PICK t \in SplitRange(s, n, tiles) : k \div TileTokens = first + t
    OBVIOUS
  <2>2. PICK v \in SplitRange(u, n, tiles) : k \div TileTokens = first + v
    OBVIOUS
  <2>3. t \in Int /\ v \in Int
    BY <1>6
  <2>4. t = v
    <3>1. first + t = first + v
      BY <2>1, <2>2
    <3> QED BY <2>3, <3>1
  <2> QED BY <1>5, <1>8, <2>4
<1> HIDE DEF Mine, Part
<1> DEFINE parts == [s \in 1 .. n |-> Part(s - 1)]
<1>9. \A k \in keys : \E s \in 1 .. n : k \in parts[s]
  <2> TAKE k \in keys
  <2>1. PICK s \in 0 .. n - 1 : k \in Part(s)
    BY <1>7
  <2>2. s + 1 \in 1 .. n /\ s + 1 - 1 = s
    OBVIOUS
  <2> QED BY <2>1, <2>2
<1>10. \A s : Part(s) \subseteq keys
  BY DEF Part
<1>11. \A s, t \in 1 .. n : s # t => parts[s] \cap parts[t] = {}
  <2> TAKE s, t \in 1 .. n
  <2>1. s - 1 \in 0 .. n - 1 /\ t - 1 \in 0 .. n - 1 /\ (s # t => s - 1 # t - 1)
    OBVIOUS
  <2> QED BY <1>8, <2>1
<1>12. PartsGive(parts, keys)
  BY <1>9, <1>10, <1>11 DEF PartsGive
<1>13. parts = [s \in 1 .. l.splits |-> SplitKeys(l, dev, m, lo .. hi, s - 1, i)]
  BY <1>1, <1>4
<1> HIDE DEF parts
<1> QED BY <1>2, <1>12, <1>13

\* The slabs' ends never fall.
LEMMA SlabEndsRise ==
  ASSUME NEW seq \in Nat \ {0}
  PROVE  /\ SlabCount(seq) \in Nat \ {0}
         /\ \A i \in 0 .. SlabCount(seq) : SlabEnd(seq, i) \in Nat
         /\ \A i \in 0 .. SlabCount(seq) : \A j \in i .. SlabCount(seq) :
              SlabEnd(seq, i) <= SlabEnd(seq, j)
<1> DEFINE n == SlabCount(seq)
           size == seq \div n
           extra == seq % n
<1>1. n \in Nat \ {0} /\ size \in Nat /\ extra \in Nat
  BY Shares
<1>2. \A i : SlabEnd(seq, i) = i * size + Least(i, extra)
  BY DEF SlabEnd
<1> HIDE DEF n, size, extra
<1>3. ASSUME NEW i \in 0 .. n PROVE SlabEnd(seq, i) \in Nat
  <2>1. i * size \in Nat
    BY <1>1, SMT
  <2>2. Least(i, extra) \in Nat
    BY <1>1 DEF Least
  <2> QED BY <1>2, <2>1, <2>2
<1>4. ASSUME NEW i \in 0 .. n, NEW j \in i .. n PROVE SlabEnd(seq, i) <= SlabEnd(seq, j)
  <2>1. PICK d \in Nat : j = i + d
    <3>1. j - i \in Nat /\ j = i + (j - i)
      BY <1>1
    <3> QED BY <3>1
  <2>2. j * size = i * size + d * size /\ i * size \in Nat /\ d * size \in Nat
    BY <1>1, <2>1, SMT
  <2>3. Least(i, extra) <= Least(j, extra) /\ Least(i, extra) \in Nat /\ Least(j, extra) \in Nat
    BY <1>1, <2>1 DEF Least
  <2> QED BY <1>2, <2>2, <2>3
<1> QED BY <1>1, <1>3, <1>4 DEF n

LEMMA SlabsGive ==
  ASSUME NEW seq \in Nat \ {0}, NEW q \in 1 .. QueryCapacity, q <= seq, NEW i \in 0 .. q - 1
  PROVE  PartsGive([s \in 1 .. SlabCount(seq) |-> SlabRowKeys(seq, q, s, i)],
                   {k \in 0 .. seq - 1 : k <= seq - q + i})
<1>1. PICK n \in Nat \ {0} : n = SlabCount(seq)
  BY SlabEndsRise
<1>2. /\ \A j \in 0 .. n : SlabEnd(seq, j) \in Nat
      /\ \A j \in 0 .. n : \A h \in j .. n : SlabEnd(seq, j) <= SlabEnd(seq, h)
  BY <1>1, SlabEndsRise
<1>3. SlabEnd(seq, 0) = 0 /\ SlabEnd(seq, n) = seq /\ SlabEnd(seq, n - 1) <= seq - q
  BY <1>1, SlabsPartition
<1> DEFINE keys == {k \in 0 .. seq - 1 : k <= seq - q + i}
           parts == [s \in 1 .. n |-> SlabRowKeys(seq, q, s, i)]
<1>4. q \in Nat /\ i \in Nat /\ i < q
  BY PlanOK
<1>5. \A s \in 1 .. n : parts[s] \subseteq SlabEnd(seq, s - 1) .. SlabEnd(seq, s) - 1
  BY DEF SlabRowKeys, SlabKeys
<1>6. ASSUME NEW s \in 1 .. n, NEW k \in parts[s] PROVE k \in keys
  <2>1. /\ k \in SlabEnd(seq, s - 1) .. SlabEnd(seq, s) - 1
        /\ s \in 0 .. n /\ s - 1 \in 0 .. n /\ n \in s .. n /\ n \in 0 .. n
    BY <1>5, <1>6
  <2>2. /\ SlabEnd(seq, s - 1) \in Nat /\ SlabEnd(seq, s) \in Nat
        /\ SlabEnd(seq, s) <= seq
    BY <1>2, <1>3, <2>1
  <2>3. k \in 0 .. seq - 1
    BY <2>1, <2>2
  <2>4. CASE s = n
    <3>1. k - seq <= i - q
      BY <1>1, <1>3, <1>6, <2>4 DEF SlabRowKeys
    <3> QED BY <1>4, <2>3, <3>1
  <2>5. CASE s # n
    <3>1. n - 1 \in s .. n /\ n - 1 \in 0 .. n
      BY <2>5
    <3>2. SlabEnd(seq, s) <= SlabEnd(seq, n - 1) /\ SlabEnd(seq, n - 1) \in Nat
      BY <1>2, <2>1, <3>1
    <3> QED BY <1>3, <1>4, <2>1, <2>2, <2>3, <3>2
  <2> QED BY <2>4, <2>5
<1>7. ASSUME NEW k \in keys PROVE \E s \in 1 .. n : k \in parts[s]
  <2> DEFINE S == {j \in 0 .. n : k < SlabEnd(seq, j)}
  <2>1. n \in S /\ S \subseteq Nat
    BY <1>3
  <2>2. PICK s \in S : \A j \in S : s <= j
    <3>1. S # {}
      BY <2>1
    <3> HIDE DEF S
    <3> QED BY <2>1, <3>1, LeastNat
  <2>3. s # 0
    BY <1>3, <2>2
  <2>4. s \in 1 .. n /\ s - 1 \in 0 .. n /\ s \in 0 .. n /\ k < SlabEnd(seq, s) /\ k \in Nat
    BY <2>2, <2>3
  <2>5. s - 1 \notin S
    <3> HIDE DEF S
    <3> QED BY <2>2, <2>4
  <2>6. SlabEnd(seq, s - 1) <= k
    BY <1>2, <2>4, <2>5
  <2>7. k \in SlabKeys(seq, s)
    <3>1. SlabEnd(seq, s - 1) \in Nat /\ SlabEnd(seq, s) \in Nat
      BY <1>2, <2>4
    <3> QED BY <2>4, <2>6, <3>1 DEF SlabKeys
  <2>8. s = n => k - SlabEnd(seq, s) <= i - q
    BY <1>3, <1>4, <2>4
  <2>9. k \in SlabRowKeys(seq, q, s, i)
    BY <1>1, <2>7, <2>8 DEF SlabRowKeys
  <2> QED BY <2>4, <2>9
<1>8. ASSUME NEW s \in 1 .. n, NEW t \in 1 .. n, s < t PROVE parts[s] \cap parts[t] = {}
  <2>1. s \in 0 .. n /\ t - 1 \in s .. n /\ t - 1 \in 0 .. n /\ s - 1 \in 0 .. n /\ t \in 0 .. n
    BY <1>8
  <2>2. SlabEnd(seq, s) <= SlabEnd(seq, t - 1) /\ SlabEnd(seq, s) \in Nat
        /\ SlabEnd(seq, t - 1) \in Nat
    BY <1>2, <2>1
  <2>3. \A k \in parts[s] : k \in Int /\ k < SlabEnd(seq, s)
    <3> HIDE DEF parts
    <3> QED BY <1>2, <1>5, <2>1
  <2>4. \A k \in parts[t] : SlabEnd(seq, t - 1) <= k
    <3> HIDE DEF parts
    <3> QED BY <1>2, <1>5, <2>1
  <2> HIDE DEF parts
  <2> QED BY <2>2, <2>3, <2>4
<1>9. DOMAIN parts = 1 .. n
  OBVIOUS
<1> HIDE DEF parts, keys
<1>10. \A s, t \in 1 .. n : s # t => parts[s] \cap parts[t] = {}
  <2> TAKE s, t \in 1 .. n
  <2>1. CASE s < t
    BY <1>8, <2>1
  <2>2. CASE t < s
    BY <1>8, <2>2
  <2> QED BY <2>1, <2>2
<1>11. PartsGive(parts, keys)
  BY <1>6, <1>7, <1>9, <1>10 DEF PartsGive
<1> QED BY <1>1, <1>11 DEF parts, keys

\* Every query row of a step, eager, replayed or through the slabs, is computed
\* once and given each key it is due once and no other.
THEOREM RowsSeeTheirDueHolds == Spec => []RowsSeeTheirDue
<1>1. ASSUME PlanInv, step # None, NEW r \in DOMAIN step.q, NEW i \in 0 .. step.q[r] - 1
      PROVE  /\ step.path # "slab" => Cardinality(Computing(r, i)) = 1
             /\ PartsGive(Parts(r, i), Due(r, i))
  <2>1. PICK n \in Nat : StepGood(step, n, layer)
    BY <1>1 DEF PlanInv
  <2>2. layer \in Served /\ r \in 1 .. n
    BY <1>1, <2>1, PthOK DEF PlanInv, StepGood
  <2>3. PICK q \in Nat : q = step.q[r]
    BY <2>1, <2>2 DEF StepGood
  <2>4. PICK s \in Nat : s = step.seq[r]
    BY <2>1, <2>2 DEF StepGood
  <2>5. q <= s /\ i \in 0 .. q - 1
    BY <1>1, <2>1, <2>2, <2>3, <2>4 DEF StepGood
  <2>6. CASE step.path = "slab"
    <3>1. r = 1 /\ q \in 1 .. QueryCapacity /\ layer.causal /\ layer.window = 0
      BY <2>1, <2>2, <2>3, <2>6 DEF StepGood
    <3>2. s \in Nat \ {0}
      BY <2>5
    <3>3. Due(r, i) = {k \in 0 .. s - 1 : k <= s - q + i}
      BY <2>3, <2>4, <3>1 DEF Due
    <3>4. Parts(r, i) = [t \in 1 .. SlabCount(s) |-> SlabRowKeys(s, q, t, i)]
      BY <2>3, <2>4, <2>6, <3>1 DEF Parts
    <3>5. PartsGive([t \in 1 .. SlabCount(s) |-> SlabRowKeys(s, q, t, i)],
                    {k \in 0 .. s - 1 : k <= s - q + i})
      <4>1. q <= s /\ i \in 0 .. q - 1
        BY <2>5
      <4> QED BY <3>1, <3>2, <4>1, SlabsGive, SMTT(30)
    <3> QED BY <2>6, <3>3, <3>4, <3>5
  <2>7. CASE step.path # "slab"
    <3>1. PICK c \in step.launches, x \in Nat, lo \in Nat, hi \in Nat, first \in Nat, last \in Nat :
            /\ Computing(r, i) = {<<c, x>>}
            /\ RowGood(c, x, r, i, lo, hi, first, last, step, layer)
      BY <2>1, <2>2, <2>7, RowIsGood
    <3>2. Cardinality(Computing(r, i)) = 1
      BY <3>1, FS_Singleton
    <3>3. PICK l : l = c.plan
      OBVIOUS
    <3>4. PICK dev : dev = c.dev
      OBVIOUS
    <3>5. PICK m : m = r - c.from + 1
      OBVIOUS
    <3>6. /\ TileRows(dev, TileHeight(l), m, x) = lo .. hi
          /\ i \in lo .. hi
          /\ QueryLen(dev, m) = q /\ dev.seq[m] = s
          /\ Walk(l, dev, m, lo, hi, first, last)
      BY <2>3, <2>4, <2>5, <3>1, <3>3, <3>4, <3>5 DEF RowGood, RowAt
    <3>7. l.splits \in Nat \ {0} /\ l.window = layer.window /\ l.causal = layer.causal
      BY <3>1, <3>3 DEF RowGood, PlanGood
    <3>8. layer.window \in Nat /\ layer.causal \in BOOLEAN
      BY <2>2 DEF Served
    <3>9. Due(r, i) = WindowLo(l, dev, m, i) .. WindowHi(l, dev, m, i)
      <4>1. WindowLo(l, dev, m, i) .. WindowHi(l, dev, m, i) =
              {k \in 0 .. s - 1 :
                 /\ l.causal => k <= s - q + i
                 /\ l.window > 0 => s - q + i - k < l.window /\ k - (s - q + i) < l.window}
        <5>1. l.window \in Nat /\ l.causal \in BOOLEAN
          BY <3>7, <3>8
        <5> QED BY <2>5, <3>6, <5>1, WindowIs
      <4>2. Due(r, i) = {k \in 0 .. s - 1 :
                 /\ layer.causal => k <= s - q + i
                 /\ layer.window > 0 =>
                      s - q + i - k < layer.window /\ k - (s - q + i) < layer.window}
        BY <2>3, <2>4 DEF Due
      <4> QED BY <3>7, <4>1, <4>2
    <3>10. Parts(r, i) = [t \in 1 .. l.splits |-> SplitKeys(l, dev, m, lo .. hi, t - 1, i)]
      <4>1. PICK d : d = CHOOSE e \in Computing(r, i) : TRUE
        OBVIOUS
      <4>2. d[1] = c /\ d[2] = x
        <5>1. (CHOOSE e \in {<<c, x>>} : TRUE) = <<c, x>>
          OBVIOUS
        <5>2. d = <<c, x>>
          BY <3>1, <4>1, <5>1
        <5> QED BY <5>2
      <4>3. Parts(r, i) =
              [t \in 1 .. d[1].plan.splits |->
                 SplitKeys(d[1].plan, d[1].dev, r - d[1].from + 1,
                           TileRows(d[1].dev, TileHeight(d[1].plan), r - d[1].from + 1, d[2]),
                           t - 1, i)]
        BY <2>7, <4>1 DEF Parts
      <4> QED BY <3>3, <3>4, <3>5, <3>6, <4>2, <4>3
    <3>11. PartsGive(Parts(r, i), Due(r, i))
      BY <3>6, <3>7, <3>9, <3>10, SplitsGive
    <3> QED BY <3>2, <3>11
  <2> QED BY <2>6, <2>7
<1>2. PlanInv => RowsSeeTheirDue
  BY <1>1 DEF RowsSeeTheirDue, PartsGive
<1> QED BY <1>2, PlansHold, PTL

=============================================================================
