----------------------------- MODULE LsaSelect -----------------------------
(***************************************************************************)
(* The pure parts of D-LSA: the Ward buckets of a closed cluster block,    *)
(* the exact top-p of a score row, and the slot list of a query.           *)
(* An index key is an integer, a vector of one dimension, so that norms    *)
(* are exact; positions within a block, buckets and columns count from 0.  *)
(***************************************************************************)
EXTENDS Integers, Sequences, FiniteSets, FiniteSetsExt, SequencesExt

CONSTANTS
  Block,       \* CLUSTER_BLOCK, which is also WINDOW
  BucketSize,  \* BUCKET_SIZE: a bucket row per so many slots
  PoolSize,    \* POOL_SIZE
  BucketCap,   \* BUCKET_CAP: keys a bucket row has room for
  Sink,        \* design.sink
  TopK,        \* design.top_k
  TopP,        \* design.top_p
  Radix,       \* values of a digit of the radix select (256)
  Digits,      \* its passes (4)
  Parts,       \* programs a score row is split over
  Chunk,       \* CH: columns a program takes at a time
  NumSplits,   \* split-KV programs of the decode read
  BlockN       \* keys per iteration of a split

ASSUME SelectOK ==
  /\ {Block, BucketSize, PoolSize, BucketCap, TopK, TopP, Radix, Digits, Parts,
      Chunk, NumSplits, BlockN} \subseteq Nat \ {0}
  /\ Sink \in Nat
  /\ Block % BucketSize = 0 /\ Block % PoolSize = 0 /\ BucketCap % PoolSize = 0

Window == Block
Smaller(x, y) == IF x <= y THEN x ELSE y
Larger(x, y) == IF x >= y THEN x ELSE y
Ceiling(x, y) == (x + y - 1) \div y
Norm(x) == IF x < 0 THEN -x ELSE x
Floor(x) == (x \div Block) * Block

\* The members of a set, each in the place of as many as stand before it.
ByRank(S, before) ==
  [i \in 1 .. Cardinality(S) |->
     CHOOSE x \in S : Cardinality({y \in S : <<y, x>> \in before}) = i - 1]
Ascending(S) == ByRank(S, {p \in S \X S : p[1] < p[2]})

-----------------------------------------------------------------------------
(* Ward clustering of a block's pools.                                     *)

Pools == 0 .. Block \div PoolSize - 1
Buckets == Block \div BucketSize
CapPools == BucketCap \div PoolSize

\* One round: every pool's cheapest allowed partner; the mutual pairs merge,
\* the cheapest first, and no more of them than are left to merge.
MergesLeft(w) == Larger(Cardinality(w.alive) - Buckets, 0)
WardRound(w) ==
  LET cost(i, j) == Norm(w.sum[i]) + Norm(w.sum[j]) - Norm(w.sum[i] + w.sum[j])
      partners(i) == {j \in w.alive \ {i} : w.size[i] + w.size[j] <= CapPools}
      cheapest(i) == CHOOSE j \in partners(i) : \A k \in partners(i) :
                       cost(i, j) < cost(i, k) \/ (cost(i, j) = cost(i, k) /\ j <= k)
      best == {<<i, cheapest(i)>> : i \in {i \in w.alive : partners(i) # {}}}
      mutual == {p \in best : p[1] < p[2] /\ <<p[2], p[1]>> \in best}
      before(p, q) == \/ cost(p[1], p[2]) < cost(q[1], q[2])
                      \/ cost(p[1], p[2]) = cost(q[1], q[2]) /\ p[1] < q[1]
      merged == {p \in mutual : Cardinality({q \in mutual : before(q, p)}) < MergesLeft(w)}
      kept == {p[1] : p \in merged}
      absorbed == {p[2] : p \in merged}
      other(i) == CHOOSE j \in Pools : <<i, j>> \in merged \/ <<j, i>> \in merged
      joined(f) == [i \in Pools |-> IF i \in kept THEN f[i] + f[other(i)] ELSE f[i]]
  IN [sum |-> joined(w.sum),
      size |-> joined(w.size),
      alive |-> w.alive \ absorbed,
      parent |-> [i \in Pools |-> IF i \in absorbed THEN other(i) ELSE w.parent[i]]]

\* ward_labels: rounds until the count is reached (further ones change
\* nothing), then each pool's root.
Ward(sums) ==
  LET start == [sum |-> sums, size |-> [i \in Pools |-> 1], alive |-> Pools,
                parent |-> [i \in Pools |-> i]]
      after[n \in 0 .. Cardinality(Pools)] ==
        IF n = 0 THEN start
        ELSE LET w == after[n - 1] IN IF MergesLeft(w) = 0 THEN w ELSE WardRound(w)
      final == after[Cardinality(Pools)]
      root[i \in Pools] == IF final.parent[i] = i THEN i ELSE root[final.parent[i]]
  IN [i \in Pools |-> Cardinality({j \in final.alive : j < root[i]})]

\* bucket_tables: the members of bucket b, in position order, of a block with
\* the given keys; a row has room for BucketCap of them.
PoolSums(keys) ==
  [i \in Pools |->
     LET total[n \in 0 .. PoolSize] ==
           IF n = 0 THEN 0 ELSE total[n - 1] + keys[i * PoolSize + n - 1]
     IN total[PoolSize]]
BucketTables(keys) ==
  LET label == Ward(PoolSums(keys))
  IN [b \in 0 .. Buckets - 1 |->
        Ascending({p \in 0 .. Block - 1 : label[p \div PoolSize] = b})]

-----------------------------------------------------------------------------
(* Top-p of a row of ordered keys by radix select.                         *)

\* The columns of one program.
PartOf(vis, part) ==
  LET span == Ceiling(Ceiling(vis, Parts), Chunk) * Chunk
  IN part * span .. Smaller(part * span + span, vis) - 1

Power[n \in 0 .. Digits] == IF n = 0 THEN 1 ELSE Radix * Power[n - 1]
Shift(pass) == Power[Digits - 1 - pass]

\* A histogram pass and the digit it picks: the one that holds the k-th key.
RadixPass(score, vis, pass, before) ==
  LET match == {c \in 0 .. vis - 1 : score[c] \div (Shift(pass) * Radix) = before.prefix}
      digitOf(c) == (score[c] \div Shift(pass)) % Radix
      hist(d) == Cardinality({c \in match : digitOf(c) = d})
      above(d) == Cardinality({c \in match : digitOf(c) > d})
      fits == {d \in 0 .. Radix - 1 :
                 above(d) < before.rem /\ above(d) + hist(d) >= before.rem}
      digit == IF fits = {} THEN 0 ELSE Max(fits)
  IN [prefix |-> before.prefix * Radix + digit,
      rem |-> before.rem - (IF fits = {} THEN 0 ELSE above(digit))]

\* Which columns are taken: above the k-th key, and as many of its ties as
\* remain, counted over the parts before the column's own.
EarlierTies_None(score, vis, kth, part) == 0
EarlierTies(score, vis, kth, part) ==
  Cardinality({c \in 0 .. vis - 1 :
                 score[c] = kth /\ \E p \in 0 .. part - 1 : c \in PartOf(vis, p)})
Taken(score, vis) ==
  LET pass[n \in 0 .. Digits] ==
        IF n = 0 THEN [prefix |-> 0, rem |-> TopP]
        ELSE RadixPass(score, vis, n - 1, pass[n - 1])
      kth == IF vis <= TopP THEN -1 ELSE pass[Digits].prefix
      tierank(part, c) == EarlierTies(score, vis, kth, part)
                          + Cardinality({d \in PartOf(vis, part) : d <= c /\ score[d] = kth})
  IN {c \in 0 .. vis - 1 : \E part \in 0 .. Parts - 1 :
        /\ c \in PartOf(vis, part)
        /\ score[c] > kth \/ (score[c] = kth /\ tierank(part, c) <= pass[Digits].rem)}

\* PICK: the taken columns, best score first, the lower column on a tie.
Better(score, c, d) == score[c] > score[d] \/ (score[c] = score[d] /\ c < d)
BestFirst(score, columns) ==
  ByRank(columns, {p \in columns \X columns : Better(score, p[1], p[2])})
Picked(score, vis) == BestFirst(score, Taken(score, vis))

-----------------------------------------------------------------------------
(* The slot list of a query at pos, by position.                           *)

\* tail_starts and visible_buckets.
TailStart(pos, clustered) == Larger(Smaller(pos + 1 - Window, clustered), 0)
Visible(pos, clustered) == Smaller(Floor(pos), clustered) \div BucketSize

\* The picked buckets' keys between the sinks and the tail, cut at top_k.
Counted_AnyTail(p, tail) == p >= Sink
Counted(p, tail) == p >= Sink /\ p < tail
Expanded(picks, members, tail) ==
  LET found == FlattenSeq([i \in DOMAIN picks |-> members[picks[i]]])
      valid == {j \in DOMAIN found : Counted(found[j], tail)}
      place == Ascending(valid)
  IN [i \in 1 .. Smaller(Cardinality(valid), TopK) |-> found[place[i]]]

SlotList(pos, clustered, picks, members) ==
  LET tail == TailStart(pos, clustered)
  IN [i \in 1 .. Smaller(Sink, tail) |-> i - 1]
     \o Expanded(picks, members, tail)
     \o [i \in 1 .. pos - tail + 1 |-> tail + i - 1]

\* The keys one program of a query reads.
SplitOf(list, splits, s) ==
  LET per == Ceiling(Ceiling(Len(list), splits), BlockN) * BlockN
  IN SubSeq(list, (s - 1) * per + 1, Smaller(s * per, Len(list)))

\* The merge of their partial softmaxes: every split's keys count once.
SplitReads(list, splits) == FlattenSeq([s \in 1 .. splits |-> SplitOf(list, splits, s)])

\* The list's room, and the context whose every key it has room for.
Width == Sink + TopK + Window + Block
Budget == Sink + TopK + Window
=============================================================================
