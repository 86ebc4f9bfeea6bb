------------------------- MODULE KVarNBuffers_proofs -------------------------
(***************************************************************************)
(* Proofs about the buffers of the KVarN backend, for every number of      *)
(* layers, blocks, slots and rows, and any order of steps, captures and    *)
(* GPU work from model load to serving.                                    *)
(*                                                                         *)
(* Nothing may move while a captured graph holds its address.  That rests  *)
(* on sizes: what was grown once is grown for the largest request there    *)
(* will be, and HeapInv and UseInv say from when on.                       *)
(***************************************************************************)
EXTENDS KVarNBuffers, SequenceTheorems, WellFoundedInduction, TLAPS

Keys == Kinds \cup {"proxy"}
SlotMap == SUBSET (Nat \X (1 .. Slots))

HeapType ==
  [key     : [Layers -> Keys],
   map     : [Keys -> SlotMap],
   born    : [Keys -> 0 .. 2],
   known   : [Keys -> Nat],
   mirror  : [Keys -> [id : Nat, size : Nat, map : SlotMap]],
   scratch : [id : Nat, rows : Nat],
   ptr     : [Layers -> [mirror : Nat, scratch : Nat, rows : Nat]],
   warmed  : SUBSET (Nat \X Nat),
   next    : Nat \ {0}]

Types ==
  /\ stage \in {"load", "profiled", "half", "cache", "serve"}
  /\ gen \in 0 .. 2 /\ lookup \in Bounds
  /\ owner \in [Layers -> {<<>>} \cup (Kinds \X (0 .. 2))]
  /\ claimed \in [Kinds -> SUBSET Layers]
  /\ heap \in HeapType
  /\ ref \in [Layers -> 0 .. 2]
  /\ plan \in [Kinds -> [id : Nat, cap : Nat, age : 0 .. 2]]
  /\ warm \in [Kinds -> 0 .. MaxBatch]
  /\ pending = <<>> \/ pending \in [kind : Kinds, rows : 1 .. MaxBatch]

-----------------------------------------------------------------------------
(* From load to serving.                                                   *)

StageInv ==
  /\ stage = "load" => gen = 0
  /\ stage = "profiled" => gen \in 0 .. 1
  /\ stage = "half" =>
       /\ gen \in 1 .. 2 /\ Draft # <<>> /\ \A k \in Kinds : warm[k] = 0
       /\ heap.born["target"] = 0 /\ \A l \in ToSet(Target) : ref[l] = 0
  /\ stage = "cache" => gen \in 1 .. 2
  /\ stage = "serve" => gen = 2
  /\ ~InUse => pending = <<>> /\ queue = <<>> /\ graphs = {}

\* The builder of the pass that runs a layer has it; while only the target's
\* is made, the layers of the drafter may have either.
Drives(k, l) == owner[l] = <<k, gen>> /\ heap.key[l] = k /\ l \in claimed[k]
OwnerInv ==
  /\ gen = 0 => \A l \in Layers : owner[l] = <<>> /\ heap.key[l] = "proxy"
  /\ gen # 0 /\ stage # "half" => \A k \in Kinds : \A l \in ToSet(Runs(k)) : Drives(k, l)
  /\ stage = "half" =>
       /\ \A l \in ToSet(Target) : Drives("target", l)
       /\ \A l \in ToSet(Draft) : owner[l] = <<"target", gen>> \/ owner[l] = <<"draft", gen - 1>>
  /\ \A l \in Layers : heap.key[l] = "draft" => l \in ToSet(Draft)

-----------------------------------------------------------------------------
(* The class-level state.                                                  *)

\* The size every lookup has when a bound was derived.
Bounded == MaxOf({Floor, lookup})

MapInv(h) == \A k \in Keys :
  /\ \A b \in Blocks(h.map[k]) : b <= h.known[k]
  /\ h.born[k] = 0 => h.map[k] = {} /\ h.known[k] = 0
  /\ h.born[k] # 0 => h.known[k] < NumBlocks[h.born[k]]

MirrorInv(h) == \A k \in Keys : h.mirror[k].id # 0 =>
  /\ h.mirror[k].map = h.map[k]
  /\ h.mirror[k].size >= Floor /\ h.mirror[k].size >= lookup
  /\ h.mirror[k].size > h.known[k]
  /\ lookup > 0 => h.mirror[k].size = Bounded

\* After the profiling pass the scratch is large enough for every layer, and
\* every kernel there is compiled for the bounded size.
Profiled(h) ==
  /\ h.scratch.id # 0 /\ \A l \in Layers : h.scratch.rows >= Rows[l]
  /\ lookup > 0 => \A l \in Layers : <<Rows[l], Bounded>> \in h.warmed

HeapInv ==
  /\ MapInv(heap) /\ MirrorInv(heap)
  /\ stage # "load" => Profiled(heap)
  /\ Draft = <<>> => heap.born["draft"] = 0
  /\ gen = 0 => \A k \in Keys : heap.born[k] = 0

-----------------------------------------------------------------------------
(* While a KV cache is in use.                                             *)

\* The mirror fits the cache, and each layer of the pass points at what is
\* current: nothing will move any more.
Settled(h, k) ==
  /\ h.mirror[k].id # 0 /\ h.mirror[k].size >= NumBlocks[gen]
  /\ \A l \in ToSet(Runs(k)) : h.ptr[l] =
       [mirror |-> h.mirror[k].id, scratch |-> h.scratch.id, rows |-> h.scratch.rows]

\* The step of k has been built and not launched.
Waiting(k) == pending # <<>> /\ pending.kind = k
RefsSet(k) == \A l \in ToSet(Runs(k)) : ref[l] = gen

GraphOK(g) ==
  /\ g.kind \in Kinds /\ warm[g.kind] # 0
  /\ g.plan = plan[g.kind].id /\ plan[g.kind].cap >= Headroom
  /\ DOMAIN g.ptr = ToSet(Runs(g.kind))
  /\ \A l \in DOMAIN g.ptr : g.ptr[l] = heap.ptr[l]
  /\ RefsSet(g.kind)

UseInv == InUse =>
  /\ \A k \in Kinds : heap.born[k] \in {0, gen}
  /\ \A l \in Layers : ref[l] \in {0, gen}
  /\ \A k \in Kinds : warm[k] # 0 => Settled(heap, k)
  /\ \A k \in Kinds : heap.map[k] # {} /\ ~Waiting(k) => RefsSet(k)
  /\ \A g \in graphs : GraphOK(g)
  /\ pending # <<>> => plan[pending.kind].cap >= Headroom /\ Runs(pending.kind) # <<>>

\* The GPU's queue: the copy of one plan, then the step that reads it.
CopyOf(k) == [op |-> "copy", kind |-> k]
RunOf(k) == RunItem(k, plan[k].id)
QueueInv ==
  /\ \A k \in Kinds : plan[k].cap = 0 \/ plan[k].cap >= Headroom
  /\ \/ queue = <<>>
     \/ \E k \in Kinds : queue = <<CopyOf(k)>> \/ queue = <<CopyOf(k), RunOf(k)>>
     \/ \E k \in Kinds : queue = <<RunOf(k)>> /\ plan[k].age = 0
  /\ pending # <<>> =>
       \/ queue = <<>> /\ plan[pending.kind].age = 0
       \/ queue = <<CopyOf(pending.kind)>>

IInv == Types /\ StageInv /\ OwnerInv /\ HeapInv /\ UseInv /\ QueueInv

-----------------------------------------------------------------------------
(* The constants, and the largest of a few numbers.                        *)

LEMMA LayerFacts ==
  /\ AllLayers \in Seq(Layers) /\ AllLayers # <<>>
  /\ ToSet(Target) \cup ToSet(Draft) = Layers
  /\ ToSet(Target) \cap ToSet(Draft) = {}
  /\ ToSet(AllLayers) = Layers
<1>1. Target \in Seq(Layers) /\ Draft \in Seq(Layers) /\ AllLayers # <<>>
  BY BuffersOK
<1>2. /\ AllLayers \in Seq(Layers) /\ Len(AllLayers) = Len(Target) + Len(Draft)
      /\ DOMAIN AllLayers = 1 .. Len(Target) + Len(Draft)
      /\ \A i \in 1 .. Len(Target) : AllLayers[i] = Target[i]
      /\ \A i \in 1 .. Len(Draft) : AllLayers[Len(Target) + i] = Draft[i]
  BY <1>1 DEF AllLayers
<1>3. DOMAIN Target = 1 .. Len(Target) /\ DOMAIN Draft = 1 .. Len(Draft)
      /\ Len(Target) \in Nat /\ Len(Draft) \in Nat
  BY <1>1
<1>4. ToSet(Target) \cap ToSet(Draft) = {}
  <2> SUFFICES ASSUME NEW i \in 1 .. Len(Target), NEW j \in 1 .. Len(Draft),
                      Target[i] = Draft[j]
               PROVE  FALSE
    BY <1>3 DEF ToSet
  <2>1. i \in DOMAIN AllLayers /\ Len(Target) + j \in DOMAIN AllLayers
        /\ AllLayers[i] = AllLayers[Len(Target) + j] /\ i # Len(Target) + j
    BY <1>2, <1>3
  <2> QED BY <2>1, BuffersOK DEF IsInjective
<1>5. ASSUME NEW i \in DOMAIN AllLayers
      PROVE  AllLayers[i] \in ToSet(Target) \cup ToSet(Draft)
  <2>1. i \in 1 .. Len(Target) \/ i - Len(Target) \in 1 .. Len(Draft)
    BY <1>2, <1>3
  <2>2. CASE i \in 1 .. Len(Target)
    BY <1>2, <1>3, <2>2 DEF ToSet
  <2>3. CASE i - Len(Target) \in 1 .. Len(Draft)
    <3>1. AllLayers[Len(Target) + (i - Len(Target))] = Draft[i - Len(Target)]
      BY <1>2, <2>3
    <3>2. Len(Target) + (i - Len(Target)) = i
      BY <1>2, <1>3
    <3> QED BY <1>3, <2>3, <3>1, <3>2 DEF ToSet
  <2> QED BY <2>1, <2>2, <2>3
<1>6. ToSet(Target) \subseteq Layers /\ ToSet(Draft) \subseteq Layers
  BY <1>1, <1>3 DEF ToSet
<1>7. Layers \subseteq ToSet(Target) \cup ToSet(Draft)
  BY <1>5 DEF Layers, ToSet
<1> QED BY <1>1, <1>2, <1>4, <1>6, <1>7 DEF Layers

LEMMA KindFacts ==
  ASSUME NEW k \in Kinds
  PROVE  /\ Runs(k) \in Seq(Layers) /\ LayersOf(k) \in Seq(Layers)
         /\ ToSet(Runs(k)) \subseteq ToSet(LayersOf(k)) /\ ToSet(LayersOf(k)) \subseteq Layers
         /\ \A i \in DOMAIN Runs(k) : Runs(k)[i] \in ToSet(Runs(k))
<1>1. Target \in Seq(Layers) /\ Draft \in Seq(Layers)
  BY BuffersOK
<1>2. Runs(k) \in Seq(Layers) /\ LayersOf(k) \in Seq(Layers)
  BY <1>1, LayerFacts DEF Runs, LayersOf
<1>3. ToSet(Runs(k)) \subseteq ToSet(LayersOf(k)) /\ ToSet(LayersOf(k)) \subseteq Layers
  BY LayerFacts DEF Runs, LayersOf
<1> QED BY <1>2, <1>3 DEF ToSet

LEMMA OneKind ==
  ASSUME NEW k \in Kinds, NEW j \in Kinds, NEW l \in ToSet(Runs(k)), l \in ToSet(Runs(j))
  PROVE  k = j
BY LayerFacts DEF Kinds, Runs

LEMMA LeastNat ==
  ASSUME NEW S, S \subseteq Nat, S # {}
  PROVE  \E m \in S : \A n \in S : m <= n
<1> DEFINE R == {ss \in Nat \X Nat : ss[1] < ss[2]}
<1>1. IsWellFoundedOn(R, Nat)
  BY NatLessThanWellFounded DEF OpToRel
<1>2. PICK m \in S : \A n \in S : ~(<<n, m>> \in R)
  BY <1>1, WFMin
<1>3. ASSUME NEW n \in S PROVE m <= n
  <2>1. m \in Nat /\ n \in Nat /\ <<n, m>> \in Nat \X Nat /\ <<n, m>> \notin R
    BY <1>2
  <2> QED BY <2>1
<1> QED BY <1>3

LEMMA MaxOfIs ==
  ASSUME NEW S, S \subseteq Nat, S # {}, NEW n \in Nat, \A y \in S : y <= n
  PROVE  MaxOf(S) \in S /\ \A y \in S : y <= MaxOf(S)
<1> DEFINE D == {n - y : y \in S}
<1>1. D \subseteq Nat /\ D # {}
  <2>1. \A y \in S : y \in Nat /\ n - y \in Nat
    OBVIOUS
  <2> QED BY <2>1
<1>2. PICK d \in D : \A e \in D : d <= e
  BY <1>1, LeastNat
<1>3. PICK x \in S : d = n - x
  BY <1>2
<1>4. \A y \in S : y <= x
  <2> TAKE y \in S
  <2>1. n - x <= n - y
    BY <1>2, <1>3
  <2> QED BY <2>1
<1> QED BY <1>3, <1>4 DEF MaxOf

LEMMA MaxOfTwo ==
  ASSUME NEW a \in Nat, NEW b \in Nat
  PROVE  MaxOf({a, b}) = IF a >= b THEN a ELSE b
<1> DEFINE S == {a, b}
<1>1. S \subseteq Nat /\ S # {} /\ a + b \in Nat /\ \A y \in S : y <= a + b
  OBVIOUS
<1>2. MaxOf(S) \in S /\ \A y \in S : y <= MaxOf(S)
  BY <1>1, MaxOfIs
<1> QED BY <1>2

LEMMA MaxOfFour ==
  ASSUME NEW a \in Nat, NEW b \in Nat, NEW c \in Nat, NEW d \in Nat
  PROVE  LET m == MaxOf({a, b, c, d})
         IN m \in {a, b, c, d} /\ m \in Nat /\ a <= m /\ b <= m /\ c <= m /\ d <= m
<1> DEFINE S == {a, b, c, d}
<1>1. S \subseteq Nat /\ S # {} /\ a + b + c + d \in Nat /\ \A y \in S : y <= a + b + c + d
  OBVIOUS
<1>2. MaxOf(S) \in S /\ \A y \in S : y <= MaxOf(S)
  BY <1>1, MaxOfIs
<1> QED BY <1>2

LEMMA ConstantFacts ==
  /\ Rows \in [Layers -> Nat] /\ Floor \in Nat
  /\ MaxBatch \in Nat \ {0} /\ Headroom \in Nat /\ MaxBatch <= Headroom
  /\ \A i \in 1 .. 2 : NumBlocks[i] \in Nat \ {0}
  /\ \A b \in Bounds : b \in Nat /\ (b = 0 \/ \A i \in 1 .. 2 : NumBlocks[i] <= b)
BY BuffersOK

LEMMA BoundedFacts ==
  ASSUME lookup \in Nat
  PROVE  Bounded \in Nat /\ Floor <= Bounded /\ lookup <= Bounded /\ Bounded \in {Floor, lookup}
BY ConstantFacts, MaxOfTwo DEF Bounded

LEMMA LookupFacts ==
  ASSUME lookup \in Nat, NEW h \in HeapType, NEW k \in Keys, NEW hint \in Nat
  PROVE  LET z == LookupSize(h, k, hint)
         IN /\ z \in Nat /\ hint <= z /\ h.known[k] < z /\ Floor <= z /\ lookup <= z
            /\ lookup > 0 /\ hint <= lookup /\ h.known[k] < lookup => z = Bounded
            /\ \A s \in Nat : hint <= s /\ h.known[k] < s /\ Floor <= s /\ lookup <= s => z <= s
<1> DEFINE z == LookupSize(h, k, hint)
           n == h.known[k]
<1>1. n \in Nat /\ Floor \in Nat
  BY ConstantFacts DEF HeapType
<1> HIDE DEF n
<1>2. z \in {hint, n + 1, Floor, lookup} /\ z \in Nat
      /\ hint <= z /\ n + 1 <= z /\ Floor <= z /\ lookup <= z
  BY <1>1, MaxOfFour, SMTT(30) DEF LookupSize, n
<1> HIDE DEF z
<1>3. ASSUME lookup > 0, hint <= lookup, n < lookup PROVE z = Bounded
  BY <1>1, <1>2, <1>3, BoundedFacts
<1> QED BY <1>1, <1>2, <1>3 DEF n, z

-----------------------------------------------------------------------------
(* What _ensure_pool leaves alone, and what it guarantees.                 *)

LEMMA KnownFits ==
  ASSUME NEW h \in HeapType, MapInv(h), NEW k \in Keys, lookup \in Bounds, lookup > 0
  PROVE  h.known[k] < lookup
<1>1. /\ h.born[k] \in 0 .. 2 /\ h.known[k] \in Nat /\ lookup \in Nat
      /\ \A i \in 1 .. 2 : NumBlocks[i] \in Nat /\ NumBlocks[i] <= lookup
  BY ConstantFacts DEF HeapType
<1>2. CASE h.born[k] = 0
  BY <1>1, <1>2 DEF MapInv
<1>3. CASE h.born[k] # 0
  <2>1. h.born[k] \in 1 .. 2 /\ h.known[k] < NumBlocks[h.born[k]]
    BY <1>1, <1>3 DEF MapInv
  <2> QED BY <1>1, <2>1
<1> QED BY <1>2, <1>3

LEMMA FittingAll ==
  ASSUME NEW map \in SlotMap, NEW size \in Nat, NEW n \in Nat,
         \A b \in Blocks(map) : b <= n, n < size
  PROVE  Fitting(map, size) = map
<1>1. ASSUME NEW m \in map PROVE m[1] < size
  <2>1. m[1] \in Blocks(map) /\ m[1] \in Nat
    BY DEF Blocks, SlotMap
  <2> QED BY <2>1
<1> QED BY <1>1 DEF Fitting

LEMMA GrowMirrorFacts ==
  ASSUME lookup \in Bounds, NEW h \in HeapType, MapInv(h), MirrorInv(h),
         NEW k \in Keys, NEW hint \in Nat, lookup > 0 => hint <= lookup
  PROVE  LET e == GrowMirror(h, k, hint)
         IN /\ e \in HeapType /\ MirrorInv(e)
            /\ e.key = h.key /\ e.map = h.map /\ e.known = h.known /\ e.born = h.born
            /\ e.scratch = h.scratch /\ e.ptr = h.ptr /\ e.warmed = h.warmed
            /\ \A j \in Keys \ {k} : e.mirror[j] = h.mirror[j]
            /\ e.mirror[k].id # 0 /\ e.mirror[k].size >= hint
            /\ h.mirror[k].id # 0 /\ h.mirror[k].size >= hint => e.mirror[k] = h.mirror[k]
<1> DEFINE z == LookupSize(h, k, hint)
           e == GrowMirror(h, k, hint)
<1>1. lookup \in Nat /\ h.mirror[k] \in [id : Nat, size : Nat, map : SlotMap]
      /\ h.known[k] \in Nat /\ h.map[k] \in SlotMap /\ h.next \in Nat \ {0}
  BY ConstantFacts DEF HeapType
<1>2. /\ z \in Nat /\ hint <= z /\ h.known[k] < z /\ Floor <= z /\ lookup <= z
      /\ lookup > 0 => z = Bounded
      /\ \A s \in Nat : hint <= s /\ h.known[k] < s /\ Floor <= s /\ lookup <= s => z <= s
  BY <1>1, LookupFacts, KnownFits
<1>3. e = IF h.mirror[k].id # 0 /\ h.mirror[k].size >= z THEN h
          ELSE [h EXCEPT !.mirror[k] = [id |-> h.next, size |-> z, map |-> Fitting(h.map[k], z)],
                         !.next = h.next + 1]
  BY DEF GrowMirror
<1>4. Fitting(h.map[k], z) = h.map[k]
  BY <1>1, <1>2, FittingAll DEF MapInv
<1> HIDE DEF z, e
<1>5. CASE h.mirror[k].id # 0 /\ h.mirror[k].size >= z
  BY <1>1, <1>2, <1>3, <1>5 DEF e
<1>6. CASE ~(h.mirror[k].id # 0 /\ h.mirror[k].size >= z)
  <2> DEFINE m == [id |-> h.next, size |-> z, map |-> h.map[k]]
  <2>1. e = [h EXCEPT !.mirror[k] = m, !.next = h.next + 1]
    BY <1>3, <1>4, <1>6
  <2>2. m \in [id : Nat, size : Nat, map : SlotMap] /\ m.id # 0 /\ m.size = z /\ m.map = h.map[k]
    BY <1>1, <1>2
  <2> HIDE DEF m
  <2>3. e \in HeapType
    <3> DEFINE ms == [h.mirror EXCEPT ![k] = m]
    <3>1. ms \in [Keys -> [id : Nat, size : Nat, map : SlotMap]] /\ h.next + 1 \in Nat \ {0}
      BY <1>1, <2>2 DEF HeapType
    <3>2. e = [key |-> h.key, map |-> h.map, born |-> h.born, known |-> h.known,
               mirror |-> ms, scratch |-> h.scratch, ptr |-> h.ptr,
               warmed |-> h.warmed, next |-> h.next + 1]
      BY <2>1 DEF HeapType
    <3> HIDE DEF ms
    <3> QED BY <3>1, <3>2 DEF HeapType
  <2>4. /\ e.key = h.key /\ e.map = h.map /\ e.known = h.known /\ e.born = h.born
        /\ e.scratch = h.scratch /\ e.ptr = h.ptr /\ e.warmed = h.warmed
        /\ \A j \in Keys \ {k} : e.mirror[j] = h.mirror[j]
        /\ e.mirror[k] = m
    BY <2>1 DEF HeapType
  <2>5. MirrorInv(e)
    BY <1>1, <1>2, <2>2, <2>4 DEF MirrorInv
  <2>6. h.mirror[k].id # 0 /\ h.mirror[k].size >= hint => FALSE
    BY <1>1, <1>2, <1>6, ConstantFacts DEF MirrorInv
  <2> QED BY <1>2, <2>2, <2>3, <2>4, <2>5, <2>6 DEF e
<1> QED BY <1>5, <1>6 DEF e

LEMMA GrowScratchFacts ==
  ASSUME NEW h \in HeapType, NEW l \in Layers
  PROVE  LET e == GrowScratch(h, l)
         IN /\ e \in HeapType
            /\ e.key = h.key /\ e.map = h.map /\ e.known = h.known /\ e.born = h.born
            /\ e.mirror = h.mirror /\ e.ptr = h.ptr /\ e.warmed = h.warmed
            /\ e.scratch.id # 0 /\ e.scratch.rows >= Rows[l]
            /\ h.scratch.id # 0 => e.scratch.rows >= h.scratch.rows
            /\ h.scratch.id # 0 /\ h.scratch.rows >= Rows[l] => e.scratch = h.scratch
<1>1. h.scratch \in [id : Nat, rows : Nat] /\ h.next \in Nat \ {0} /\ Rows[l] \in Nat
  BY ConstantFacts DEF HeapType
<1>2. CASE h.scratch.id # 0 /\ h.scratch.rows >= Rows[l]
  BY <1>1, <1>2 DEF GrowScratch
<1>3. CASE ~(h.scratch.id # 0 /\ h.scratch.rows >= Rows[l])
  <2> DEFINE s == [id |-> h.next, rows |-> Rows[l]]
             e == GrowScratch(h, l)
  <2>1. e = [h EXCEPT !.scratch = s, !.next = h.next + 1]
    BY <1>3 DEF GrowScratch
  <2>2. s \in [id : Nat, rows : Nat] /\ s.id # 0 /\ s.rows = Rows[l]
    BY <1>1
  <2> HIDE DEF s, e
  <2>3. /\ e \in HeapType /\ e.scratch = s
        /\ e.key = h.key /\ e.map = h.map /\ e.known = h.known /\ e.born = h.born
        /\ e.mirror = h.mirror /\ e.ptr = h.ptr /\ e.warmed = h.warmed
    <3>1. e = [key |-> h.key, map |-> h.map, born |-> h.born, known |-> h.known,
               mirror |-> h.mirror, scratch |-> s, ptr |-> h.ptr,
               warmed |-> h.warmed, next |-> h.next + 1]
      BY <2>1 DEF HeapType
    <3> QED BY <1>1, <2>2, <3>1 DEF HeapType
  <2>4. h.scratch.id # 0 => s.rows >= h.scratch.rows
    BY <1>1, <1>3, <2>2
  <2> QED BY <1>1, <1>3, <2>2, <2>3, <2>4 DEF e
<1> QED BY <1>2, <1>3

LEMMA BindFacts ==
  ASSUME NEW h \in HeapType, NEW l \in Layers
  PROVE  LET e == Bind(h, l)
         IN /\ e \in HeapType
            /\ e.key = h.key /\ e.map = h.map /\ e.known = h.known /\ e.born = h.born
            /\ e.mirror = h.mirror /\ e.scratch = h.scratch /\ e.warmed = h.warmed
            /\ e.ptr[l] = [mirror |-> h.mirror[h.key[l]].id, scratch |-> h.scratch.id,
                           rows |-> h.scratch.rows]
            /\ \A j \in Layers \ {l} : e.ptr[j] = h.ptr[j]
<1> DEFINE p == [mirror |-> h.mirror[h.key[l]].id, scratch |-> h.scratch.id,
                 rows |-> h.scratch.rows]
           ps == [h.ptr EXCEPT ![l] = p]
           e == Bind(h, l)
<1>1. p \in [mirror : Nat, scratch : Nat, rows : Nat]
  BY DEF HeapType
<1>2. e = [h EXCEPT !.ptr[l] = p]
  BY DEF Bind
<1> HIDE DEF p, e
<1>3. /\ ps \in [Layers -> [mirror : Nat, scratch : Nat, rows : Nat]]
      /\ ps[l] = p /\ \A j \in Layers \ {l} : ps[j] = h.ptr[j]
  BY <1>1 DEF HeapType
<1>4. e = [key |-> h.key, map |-> h.map, born |-> h.born, known |-> h.known,
           mirror |-> h.mirror, scratch |-> h.scratch, ptr |-> ps,
           warmed |-> h.warmed, next |-> h.next]
  BY <1>2 DEF HeapType
<1> HIDE DEF ps
<1>5. e \in HeapType
  BY <1>3, <1>4 DEF HeapType
<1> QED BY <1>3, <1>4, <1>5 DEF p, e

LEMMA WarmFacts ==
  ASSUME NEW h \in HeapType, NEW l \in Layers
  PROVE  LET e == Warm(h, l)
         IN /\ e \in HeapType
            /\ e.key = h.key /\ e.map = h.map /\ e.known = h.known /\ e.born = h.born
            /\ e.mirror = h.mirror /\ e.scratch = h.scratch /\ e.ptr = h.ptr
            /\ e.warmed = h.warmed \cup {<<Rows[l], h.mirror[h.key[l]].size>>}
<1> DEFINE w == h.warmed \cup {<<Rows[l], h.mirror[h.key[l]].size>>}
           e == Warm(h, l)
<1>1. w \in SUBSET (Nat \X Nat)
  BY ConstantFacts DEF HeapType
<1>2. e = [h EXCEPT !.warmed = w]
  BY DEF Warm
<1> HIDE DEF e
<1>3. e = [key |-> h.key, map |-> h.map, born |-> h.born, known |-> h.known,
           mirror |-> h.mirror, scratch |-> h.scratch, ptr |-> h.ptr,
           warmed |-> w, next |-> h.next]
  BY <1>2 DEF HeapType
<1> HIDE DEF w
<1>4. e \in HeapType
  BY <1>1, <1>3 DEF HeapType
<1> QED BY <1>3, <1>4 DEF w, e

LEMMA BornFacts ==
  ASSUME NEW h \in HeapType, NEW k \in Keys, gen \in 0 .. 2, MapInv(h)
  PROVE  LET e == [h EXCEPT !.born[k] = IF @ = 0 THEN gen ELSE @]
         IN /\ e \in HeapType /\ MapInv(e)
            /\ e.key = h.key /\ e.map = h.map /\ e.known = h.known
            /\ e.mirror = h.mirror /\ e.scratch = h.scratch /\ e.ptr = h.ptr
            /\ e.warmed = h.warmed
            /\ e.born[k] = (IF h.born[k] = 0 THEN gen ELSE h.born[k])
            /\ \A j \in Keys \ {k} : e.born[j] = h.born[j]
<1> DEFINE b == IF h.born[k] = 0 THEN gen ELSE h.born[k]
           bs == [h.born EXCEPT ![k] = b]
           e == [h EXCEPT !.born[k] = IF @ = 0 THEN gen ELSE @]
<1>1. b \in 0 .. 2
  BY DEF HeapType
<1>2. /\ bs \in [Keys -> 0 .. 2] /\ bs[k] = b /\ \A j \in Keys \ {k} : bs[j] = h.born[j]
  BY <1>1 DEF HeapType
<1>3. e = [key |-> h.key, map |-> h.map, born |-> bs, known |-> h.known,
           mirror |-> h.mirror, scratch |-> h.scratch, ptr |-> h.ptr,
           warmed |-> h.warmed, next |-> h.next]
  <2>1. e = [h EXCEPT !.born[k] = b]
    OBVIOUS
  <2> HIDE DEF b, e
  <2> QED BY <2>1 DEF HeapType
<1> HIDE DEF bs, e
<1>4. e \in HeapType
  BY <1>2, <1>3 DEF HeapType
<1>5. MapInv(e)
  <2> SUFFICES ASSUME NEW j \in Keys
               PROVE  /\ \A x \in Blocks(e.map[j]) : x <= e.known[j]
                      /\ e.born[j] = 0 => e.map[j] = {} /\ e.known[j] = 0
                      /\ e.born[j] # 0 => e.known[j] < NumBlocks[e.born[j]]
    BY DEF MapInv
  <2>1. CASE j # k
    BY <1>2, <1>3, <2>1 DEF MapInv
  <2>2. CASE j = k
    <3>1. h.born[k] = 0 /\ b # 0 => h.known[k] < NumBlocks[b]
      BY <1>1, ConstantFacts DEF MapInv
    <3> QED BY <1>2, <1>3, <2>2, <3>1 DEF MapInv
  <2> QED BY <2>1, <2>2
<1> QED BY <1>2, <1>3, <1>4, <1>5 DEF e

\* One call of _ensure_pool.
Ensured(h, e, l, hint) ==
  LET k == h.key[l]
  IN /\ e \in HeapType /\ MapInv(e) /\ MirrorInv(e)
     /\ e.key = h.key /\ e.map = h.map /\ e.known = h.known
     /\ e.born[k] = (IF h.born[k] = 0 THEN gen ELSE h.born[k])
     /\ \A j \in Keys \ {k} : e.born[j] = h.born[j] /\ e.mirror[j] = h.mirror[j]
     /\ e.mirror[k].id # 0 /\ e.mirror[k].size >= hint
     /\ h.mirror[k].id # 0 /\ h.mirror[k].size >= hint => e.mirror[k] = h.mirror[k]
     /\ e.scratch.id # 0 /\ e.scratch.rows >= Rows[l]
     /\ h.scratch.id # 0 => e.scratch.rows >= h.scratch.rows
     /\ h.scratch.id # 0 /\ h.scratch.rows >= Rows[l] => e.scratch = h.scratch
     /\ e.ptr[l] = [mirror |-> e.mirror[k].id, scratch |-> e.scratch.id,
                    rows |-> e.scratch.rows]
     /\ \A j \in Layers \ {l} : e.ptr[j] = h.ptr[j]
     /\ e.warmed = h.warmed \cup {<<Rows[l], e.mirror[k].size>>}

LEMMA EnsureFacts ==
  ASSUME lookup \in Bounds, gen \in 0 .. 2, NEW h \in HeapType, MapInv(h), MirrorInv(h),
         NEW l \in Layers, NEW hint \in Nat, lookup > 0 => hint <= lookup
  PROVE  Ensured(h, Ensure(h, l, hint), l, hint)
<1> DEFINE k == h.key[l]
           b == [h EXCEPT !.born[k] = IF @ = 0 THEN gen ELSE @]
           g == GrowMirror(b, k, hint)
           w == Warm(g, l)
           s == GrowScratch(w, l)
           e == Bind(s, l)
<1>1. k \in Keys
  BY DEF HeapType
<1>2. Ensure(h, l, hint) = e
  BY DEF Ensure
<1> HIDE DEF k
<1>3. /\ b \in HeapType /\ MapInv(b)
      /\ b.key = h.key /\ b.map = h.map /\ b.known = h.known
      /\ b.mirror = h.mirror /\ b.scratch = h.scratch /\ b.ptr = h.ptr
      /\ b.warmed = h.warmed
      /\ b.born[k] = (IF h.born[k] = 0 THEN gen ELSE h.born[k])
      /\ \A j \in Keys \ {k} : b.born[j] = h.born[j]
  BY <1>1, BornFacts
<1> HIDE DEF b
<1>4. MirrorInv(b)
  BY <1>3 DEF MirrorInv
<1>5. /\ g \in HeapType /\ MirrorInv(g)
      /\ g.key = b.key /\ g.map = b.map /\ g.known = b.known /\ g.born = b.born
      /\ g.scratch = b.scratch /\ g.ptr = b.ptr /\ g.warmed = b.warmed
      /\ \A j \in Keys \ {k} : g.mirror[j] = b.mirror[j]
      /\ g.mirror[k].id # 0 /\ g.mirror[k].size >= hint
      /\ b.mirror[k].id # 0 /\ b.mirror[k].size >= hint => g.mirror[k] = b.mirror[k]
  BY <1>1, <1>3, <1>4, GrowMirrorFacts
<1> HIDE DEF g
<1>6. /\ w \in HeapType
      /\ w.key = g.key /\ w.map = g.map /\ w.known = g.known /\ w.born = g.born
      /\ w.mirror = g.mirror /\ w.scratch = g.scratch /\ w.ptr = g.ptr
      /\ w.warmed = g.warmed \cup {<<Rows[l], g.mirror[g.key[l]].size>>}
  BY <1>5, WarmFacts
<1> HIDE DEF w
<1>7. /\ s \in HeapType
      /\ s.key = w.key /\ s.map = w.map /\ s.known = w.known /\ s.born = w.born
      /\ s.mirror = w.mirror /\ s.ptr = w.ptr /\ s.warmed = w.warmed
      /\ s.scratch.id # 0 /\ s.scratch.rows >= Rows[l]
      /\ w.scratch.id # 0 => s.scratch.rows >= w.scratch.rows
      /\ w.scratch.id # 0 /\ w.scratch.rows >= Rows[l] => s.scratch = w.scratch
  BY <1>6, GrowScratchFacts
<1> HIDE DEF s
<1>8. /\ e \in HeapType
      /\ e.key = s.key /\ e.map = s.map /\ e.known = s.known /\ e.born = s.born
      /\ e.mirror = s.mirror /\ e.scratch = s.scratch /\ e.warmed = s.warmed
      /\ e.ptr[l] = [mirror |-> s.mirror[s.key[l]].id, scratch |-> s.scratch.id,
                     rows |-> s.scratch.rows]
      /\ \A j \in Layers \ {l} : e.ptr[j] = s.ptr[j]
  BY <1>7, BindFacts
<1> HIDE DEF e
<1>9. MapInv(e) /\ MirrorInv(e)
  <2>1. e.map = g.map /\ e.known = g.known /\ e.born = b.born /\ e.mirror = g.mirror
        /\ g.map = b.map /\ g.known = b.known
    BY <1>5, <1>6, <1>7, <1>8
  <2> QED BY <1>3, <1>5, <2>1 DEF MapInv, MirrorInv
<1>10. e.mirror = g.mirror /\ e.key = h.key /\ h.key[l] = k
  BY <1>3, <1>5, <1>6, <1>7, <1>8 DEF k
<1>11. Ensured(h, e, l, hint)
  BY <1>3, <1>5, <1>6, <1>7, <1>8, <1>9, <1>10 DEF Ensured
<1> QED BY <1>2, <1>11

-----------------------------------------------------------------------------
(* _ensure_pool for one layer after another.                               *)

LEMMA Induction ==
  ASSUME NEW S, 0 \in S, \A n \in Nat : n \in S => n + 1 \in S
  PROVE  Nat \subseteq S
<1> SUFFICES ASSUME Nat \ S # {} PROVE FALSE
  OBVIOUS
<1>1. PICK m \in Nat \ S : \A n \in Nat \ S : m <= n
  BY LeastNat
<1>2. m - 1 \in Nat
  BY <1>1
<1> QED BY <1>1, <1>2

AfterEach(f, h, ls, hint) ==
  f = [i \in 0 .. Len(ls) |-> IF i = 0 THEN h ELSE Ensure(f[i - 1], ls[i], hint)]

LEMMA EnsureAllRecursion ==
  ASSUME NEW h, NEW ls, Len(ls) \in Nat, NEW hint
  PROVE  \E f : AfterEach(f, h, ls, hint) /\ EnsureAll(h, ls, hint) = f[Len(ls)]
<1> DEFINE B(f, i) == IF i = 0 THEN h ELSE Ensure(f[i - 1], ls[i], hint)
           Fixed(f, n) == f = [i \in 0 .. n |-> B(f, i)]
           Good == {n \in Nat : \E f : Fixed(f, n)}
<1>1. 0 \in Good
  <2>1. Fixed([i \in 0 .. 0 |-> h], 0)
    OBVIOUS
  <2> QED BY <2>1
<1>2. ASSUME NEW n \in Nat, n \in Good PROVE n + 1 \in Good
  <2>1. PICK f : Fixed(f, n)
    BY <1>2
  <2> DEFINE g == [i \in 0 .. n + 1 |-> IF i <= n THEN f[i] ELSE B(f, i)]
  <2>2. ASSUME NEW i \in 0 .. n + 1 PROVE g[i] = B(g, i)
    <3>1. i = 0 \/ (i - 1 \in 0 .. n /\ g[i - 1] = f[i - 1])
      OBVIOUS
    <3>2. B(g, i) = B(f, i)
      BY <3>1
    <3>3. i <= n => f[i] = B(f, i)
      <4> HIDE DEF B, g
      <4>1. f = [j \in 0 .. n |-> B(f, j)]
        BY <2>1
      <4>2. i <= n => i \in 0 .. n
        OBVIOUS
      <4> QED BY <4>1, <4>2, Zenon
    <3> QED BY <3>2, <3>3
  <2> HIDE DEF g
  <2>3. g = [i \in 0 .. n + 1 |-> B(g, i)]
    BY <2>2 DEF g
  <2>4. \E f1 : Fixed(f1, n + 1)
    BY <2>3
  <2> QED BY <2>4
<1>3. PICK g : Fixed(g, Len(ls))
  <2> HIDE DEF Good
  <2>1. Nat \subseteq Good
    BY <1>1, <1>2, Induction
  <2> QED BY <2>1 DEF Good
<1> DEFINE F == CHOOSE f : Fixed(f, Len(ls))
<1>4. EnsureAll(h, ls, hint) = F[Len(ls)]
  BY DEF EnsureAll
<1>5. Fixed(F, Len(ls))
  BY <1>3
<1> HIDE DEF F
<1>6. AfterEach(F, h, ls, hint) /\ EnsureAll(h, ls, hint) = F[Len(ls)]
  BY <1>4, <1>5 DEF AfterEach
<1> QED BY <1>6

\* What holds of the heap after each layer holds at the end: S[i] is the set of
\* the heaps it may be after i layers.
LEMMA EnsureAllIn ==
  ASSUME NEW h, NEW ls \in Seq(Layers), NEW hint, NEW S, h \in S[0],
         \A i \in 1 .. Len(ls) : \A x \in S[i - 1] : Ensure(x, ls[i], hint) \in S[i]
  PROVE  EnsureAll(h, ls, hint) \in S[Len(ls)]
<1>1. Len(ls) \in Nat
  OBVIOUS
<1>2. PICK f : AfterEach(f, h, ls, hint) /\ EnsureAll(h, ls, hint) = f[Len(ls)]
  BY <1>1, EnsureAllRecursion
<1> DEFINE Good == {n \in Nat : n <= Len(ls) => f[n] \in S[n]}
<1>3. ASSUME NEW n \in 0 .. Len(ls)
      PROVE  f[n] = IF n = 0 THEN h ELSE Ensure(f[n - 1], ls[n], hint)
  <2> DEFINE B(i) == IF i = 0 THEN h ELSE Ensure(f[i - 1], ls[i], hint)
  <2>1. f = [i \in 0 .. Len(ls) |-> B(i)]
    BY <1>2 DEF AfterEach
  <2> HIDE DEF B
  <2>2. f[n] = B(n)
    BY <2>1, Zenon
  <2> QED BY <2>2 DEF B
<1>4. 0 \in Good
  BY <1>1, <1>3
<1>5. ASSUME NEW n \in Nat, n \in Good PROVE n + 1 \in Good
  <2> SUFFICES ASSUME n + 1 <= Len(ls) PROVE f[n + 1] \in S[n + 1]
    OBVIOUS
  <2>1. n + 1 \in 1 .. Len(ls) /\ n + 1 \in 0 .. Len(ls) /\ n + 1 # 0 /\ (n + 1) - 1 = n
        /\ f[n] \in S[n]
    BY <1>1, <1>5
  <2>2. f[n + 1] = Ensure(f[n], ls[n + 1], hint)
    BY <1>3, <2>1
  <2> QED BY <2>1, <2>2
<1> HIDE DEF Good
<1>6. Nat \subseteq Good
  BY <1>4, <1>5, Induction
<1>7. f[Len(ls)] \in S[Len(ls)]
  <2>1. Len(ls) \in Good
    BY <1>1, <1>6
  <2> QED BY <1>1, <2>1 DEF Good
<1> QED BY <1>2, <1>7, Zenon

\* The profiling pass: one scratch for all, every kernel compiled.
LEMMA ProfileHeap ==
  ASSUME Types, StageInv, OwnerInv, HeapInv, stage = "load",
         NEW e, e = EnsureAll(heap, AllLayers, 0)
  PROVE  /\ e \in HeapType /\ MapInv(e) /\ MirrorInv(e) /\ Profiled(e)
         /\ e.key = heap.key /\ e.map = heap.map /\ \A k \in Keys : e.born[k] = 0
<1> DEFINE n == Len(AllLayers)
           P(i, x) == /\ MapInv(x) /\ MirrorInv(x)
                      /\ x.key = heap.key /\ x.map = heap.map
                      /\ \A k \in Keys : x.born[k] = 0
                      /\ i > 0 => x.scratch.id # 0
                      /\ \A j \in 1 .. i : x.scratch.rows >= Rows[AllLayers[j]]
                      /\ lookup > 0 =>
                           \A j \in 1 .. i : <<Rows[AllLayers[j]], Bounded>> \in x.warmed
           S == [i \in 0 .. n |-> {x \in HeapType : P(i, x)}]
<1>1. gen = 0 /\ lookup \in Bounds /\ lookup \in Nat /\ heap \in HeapType
      /\ MapInv(heap) /\ MirrorInv(heap) /\ \A k \in Keys : heap.born[k] = 0
  BY ConstantFacts DEF Types, StageInv, HeapInv
<1>2. n \in Nat /\ DOMAIN AllLayers = 1 .. n /\ n # 0
      /\ \A i \in 1 .. n : AllLayers[i] \in Layers
  BY LayerFacts
<1>3. heap \in S[0]
  <2>1. P(0, heap)
    BY <1>1
  <2> QED BY <1>1, <1>2, <2>1
<1>4. ASSUME NEW i \in 1 .. n, NEW x \in S[i - 1]
      PROVE  Ensure(x, AllLayers[i], 0) \in S[i]
  <2> DEFINE l == AllLayers[i]
             k == x.key[l]
             y == Ensure(x, l, 0)
  <2>1. i - 1 \in 0 .. n /\ i \in 0 .. n /\ l \in Layers
    BY <1>2
  <2>2. x \in HeapType /\ P(i - 1, x)
    BY <2>1
  <2>3. k \in Keys
    BY <2>1, <2>2 DEF HeapType
  <2> HIDE DEF l, y, P
  <2>4. Ensured(x, y, l, 0)
    <3>1. MapInv(x) /\ MirrorInv(x)
      BY <2>2 DEF P
    <3> QED BY <1>1, <2>1, <2>2, <3>1, EnsureFacts DEF y
  <2>5. \A j \in Keys : y.born[j] = 0
    BY <1>1, <2>2, <2>3, <2>4 DEF Ensured, P
  <2>6. /\ y.mirror[k].id # 0
        /\ lookup > 0 => y.mirror[k].size = Bounded
    BY <2>3, <2>4 DEF Ensured, MirrorInv
  <2>7. ASSUME NEW j \in 1 .. i PROVE y.scratch.rows >= Rows[AllLayers[j]]
    <3>1. CASE j = i
      BY <2>4, <3>1 DEF Ensured, l
    <3>2. CASE j # i
      <4>1. j \in 1 .. i - 1 /\ i - 1 > 0 /\ AllLayers[j] \in Layers
        BY <1>2, <3>2
      <4>2. x.scratch.rows >= Rows[AllLayers[j]] /\ x.scratch.id # 0
        BY <2>2, <4>1 DEF P
      <4>3. y.scratch.rows >= x.scratch.rows
        BY <2>4, <4>2 DEF Ensured
      <4>4. y.scratch.rows \in Nat /\ x.scratch.rows \in Nat /\ Rows[AllLayers[j]] \in Nat
        BY <2>2, <2>4, <4>1, ConstantFacts DEF Ensured, HeapType
      <4> QED BY <4>2, <4>3, <4>4
    <3> QED BY <3>1, <3>2
  <2>8. ASSUME lookup > 0, NEW j \in 1 .. i
        PROVE  <<Rows[AllLayers[j]], Bounded>> \in y.warmed
    <3>1. y.warmed = x.warmed \cup {<<Rows[l], Bounded>>}
      BY <2>4, <2>6, <2>8 DEF Ensured
    <3>2. CASE j = i
      BY <3>1, <3>2 DEF l
    <3>3. CASE j # i
      <4>1. j \in 1 .. i - 1
        BY <1>2, <3>3
      <4> QED BY <2>2, <2>8, <3>1, <4>1 DEF P
    <3> QED BY <3>2, <3>3
  <2>9. P(i, y) /\ y \in HeapType
    BY <2>2, <2>4, <2>5, <2>7, <2>8 DEF P, Ensured
  <2> QED BY <2>1, <2>9 DEF y, l
<1>5. e \in S[n]
  <2> HIDE DEF S, n
  <2> QED BY <1>3, <1>4, LayerFacts, EnsureAllIn DEF n
<1>6. e \in HeapType /\ P(n, e)
  BY <1>2, <1>5
<1>7. \A l \in Layers : \E j \in 1 .. n : l = AllLayers[j]
  BY <1>2 DEF Layers, ToSet
<1>8. Profiled(e)
  BY <1>2, <1>6, <1>7 DEF Profiled
<1> QED BY <1>6, <1>8

\* A forward pass of k: its layers end bound to a mirror that fits the cache.
LEMMA ForwardHeap ==
  ASSUME Types, StageInv, OwnerInv, HeapInv, InUse, NEW k \in Kinds,
         NEW e, e = EnsureAll(heap, Runs(k), NumBlocks[gen])
  PROVE  /\ e \in HeapType /\ MapInv(e) /\ MirrorInv(e)
         /\ e.key = heap.key /\ e.map = heap.map /\ e.scratch = heap.scratch
         /\ \A j \in Keys \ {k} : e.born[j] = heap.born[j] /\ e.mirror[j] = heap.mirror[j]
         /\ e.born[k] \in {heap.born[k], gen}
         /\ \A l \in Layers \ ToSet(Runs(k)) : e.ptr[l] = heap.ptr[l]
         /\ lookup > 0 => e.warmed = heap.warmed
         /\ Runs(k) # <<>> => Settled(e, k)
         /\ Runs(k) = <<>> => e = heap
         /\ Settled(heap, k) => e.ptr = heap.ptr /\ e.mirror = heap.mirror
<1> DEFINE ls == Runs(k)
           n == Len(ls)
           hint == NumBlocks[gen]
           Old(x) == x.mirror[k].id = heap.mirror[k].id /\ x.mirror[k].size = heap.mirror[k].size
           P(i, x) == /\ MapInv(x) /\ MirrorInv(x)
                      /\ x.key = heap.key /\ x.map = heap.map /\ x.scratch = heap.scratch
                      /\ \A j \in Keys \ {k} : /\ x.born[j] = heap.born[j]
                                               /\ x.mirror[j] = heap.mirror[j]
                      /\ x.born[k] \in {heap.born[k], gen}
                      /\ \A l \in Layers : (\A j \in 1 .. i : l # ls[j]) => x.ptr[l] = heap.ptr[l]
                      /\ lookup > 0 => x.warmed = heap.warmed
                      /\ i > 0 => x.mirror[k].id # 0 /\ x.mirror[k].size >= hint
                      /\ \A j \in 1 .. i : x.ptr[ls[j]] =
                           [mirror |-> x.mirror[k].id, scratch |-> x.scratch.id,
                            rows |-> x.scratch.rows]
                      /\ i = 0 => x = heap
                      /\ heap.mirror[k].id # 0 /\ heap.mirror[k].size >= hint =>
                           x.mirror[k] = heap.mirror[k]
           S == [i \in 0 .. n |-> {x \in HeapType : P(i, x)}]
<1>1. /\ gen \in 1 .. 2 /\ gen \in 0 .. 2 /\ lookup \in Bounds /\ lookup \in Nat
      /\ stage # "load" /\ stage # "half" /\ heap \in HeapType
      /\ MapInv(heap) /\ MirrorInv(heap) /\ Profiled(heap)
      /\ k \in Keys /\ Kinds \subseteq Keys
  BY ConstantFacts DEF Types, StageInv, HeapInv, InUse, Keys
<1>2. /\ n \in Nat /\ DOMAIN ls = 1 .. n /\ ls \in Seq(Layers)
      /\ \A i \in 1 .. n : ls[i] \in Layers /\ ls[i] \in ToSet(Runs(k))
  BY KindFacts
<1>3. hint \in Nat /\ (lookup > 0 => hint <= lookup)
  BY <1>1, ConstantFacts
<1>4. \A i \in 1 .. n : heap.key[ls[i]] = k
  BY <1>1, <1>2 DEF OwnerInv, Drives
<1> HIDE DEF ls, n, hint
<1>5. heap \in S[0]
  <2>1. P(0, heap)
    BY <1>1
  <2> QED BY <1>1, <1>2, <2>1
<1>6. ASSUME NEW i \in 1 .. n, NEW x \in S[i - 1]
      PROVE  Ensure(x, ls[i], hint) \in S[i]
  <2> DEFINE l == ls[i]
             y == Ensure(x, l, hint)
  <2>1. i - 1 \in 0 .. n /\ i \in 0 .. n /\ l \in Layers
    BY <1>2
  <2>2. x \in HeapType /\ P(i - 1, x)
    BY <2>1
  <2> HIDE DEF P
  <2>3. x.key[l] = k /\ x.scratch.id # 0 /\ x.scratch.rows >= Rows[l]
    BY <1>1, <1>4, <2>1, <2>2 DEF P, Profiled
  <2> HIDE DEF y
  <2>4. Ensured(x, y, l, hint)
    <3>1. MapInv(x) /\ MirrorInv(x)
      BY <2>2 DEF P
    <3> QED BY <1>1, <1>3, <2>1, <2>2, <3>1, EnsureFacts DEF y
  <2>5. /\ y.key = heap.key /\ y.map = heap.map /\ y.scratch = heap.scratch
        /\ \A j \in Keys \ {k} : y.born[j] = heap.born[j] /\ y.mirror[j] = heap.mirror[j]
        /\ y.born[k] \in {heap.born[k], gen}
        /\ y.mirror[k].id # 0 /\ y.mirror[k].size >= hint
        /\ y.ptr[l] = [mirror |-> y.mirror[k].id, scratch |-> y.scratch.id,
                       rows |-> y.scratch.rows]
        /\ \A j \in Layers \ {l} : y.ptr[j] = x.ptr[j]
        /\ heap.mirror[k].id # 0 /\ heap.mirror[k].size >= hint =>
             y.mirror[k] = heap.mirror[k]
        /\ x.mirror[k].id # 0 /\ x.mirror[k].size >= hint => y.mirror[k] = x.mirror[k]
    BY <2>2, <2>3, <2>4 DEF P, Ensured
  <2>6. lookup > 0 => y.warmed = heap.warmed
    <3> SUFFICES ASSUME lookup > 0 PROVE y.warmed = heap.warmed
      OBVIOUS
    <3>1. y.mirror[k].size = Bounded
      BY <1>1, <2>4, <2>5 DEF Ensured, MirrorInv
    <3>2. <<Rows[l], Bounded>> \in x.warmed /\ x.warmed = heap.warmed
      BY <1>1, <2>1, <2>2 DEF P, Profiled
    <3>3. y.warmed = x.warmed \cup {<<Rows[l], Bounded>>}
      BY <2>3, <2>4, <3>1 DEF Ensured
    <3> QED BY <3>2, <3>3
  <2>7. ASSUME NEW j \in 1 .. i
        PROVE  y.ptr[ls[j]] = [mirror |-> y.mirror[k].id, scratch |-> y.scratch.id,
                               rows |-> y.scratch.rows]
    <3>1. CASE ls[j] = l
      BY <2>5, <3>1
    <3>2. CASE ls[j] # l
      <4>1. j \in 1 .. i - 1 /\ i - 1 > 0 /\ ls[j] \in Layers \ {l}
        BY <1>2, <3>2 DEF l
      <4>2. /\ x.ptr[ls[j]] = [mirror |-> x.mirror[k].id, scratch |-> x.scratch.id,
                               rows |-> x.scratch.rows]
            /\ x.mirror[k].id # 0 /\ x.mirror[k].size >= hint /\ x.scratch = heap.scratch
        BY <2>2, <4>1 DEF P
      <4> QED BY <2>5, <4>1, <4>2
    <3> QED BY <3>1, <3>2
  <2>8. ASSUME NEW m \in Layers, \A j \in 1 .. i : m # ls[j]
        PROVE  y.ptr[m] = heap.ptr[m]
    <3>1. m # l /\ \A j \in 1 .. i - 1 : m # ls[j]
      BY <1>2, <2>8 DEF l
    <3> QED BY <2>2, <2>5, <3>1 DEF P
  <2>9. P(i, y) /\ y \in HeapType
    <3>1. i # 0
      BY <1>2
    <3>2. y \in HeapType /\ MapInv(y) /\ MirrorInv(y)
      BY <2>4 DEF Ensured
    <3> HIDE DEF l
    <3> QED BY <2>5, <2>6, <2>7, <2>8, <3>1, <3>2 DEF P
  <2> QED BY <2>1, <2>9 DEF y, l
<1>7. e \in S[n]
  <2>1. e = EnsureAll(heap, ls, hint)
    BY DEF ls, hint
  <2> HIDE DEF S
  <2> QED BY <1>2, <1>5, <1>6, <2>1, EnsureAllIn DEF n
<1>8. e \in HeapType /\ P(n, e)
  BY <1>2, <1>7
<1> HIDE DEF S
<1>9. ToSet(Runs(k)) = {ls[j] : j \in 1 .. n}
  BY <1>2 DEF ToSet, ls
<1>10. Runs(k) # <<>> => Settled(e, k)
  <2>1. Runs(k) # <<>> => n > 0
    BY <1>2 DEF ls, n
  <2> QED BY <1>2, <1>8, <1>9, <2>1 DEF Settled, hint
<1>11. Runs(k) = <<>> => e = heap
  <2>1. Runs(k) = <<>> => n = 0
    BY DEF ls, n
  <2> QED BY <1>8, <2>1
<1>12. \A l \in Layers \ ToSet(Runs(k)) : e.ptr[l] = heap.ptr[l]
  BY <1>8, <1>9
<1>13. Settled(heap, k) => e.ptr = heap.ptr /\ e.mirror = heap.mirror
  <2> SUFFICES ASSUME Settled(heap, k) PROVE e.ptr = heap.ptr /\ e.mirror = heap.mirror
    OBVIOUS
  <2>1. e.mirror[k] = heap.mirror[k]
    BY <1>8 DEF Settled, hint
  <2>2. \A j \in Keys : e.mirror[j] = heap.mirror[j]
    BY <1>8, <2>1
  <2>3. \A l \in Layers : e.ptr[l] = heap.ptr[l]
    BY <1>8, <1>9, <1>12, <2>1 DEF Settled
  <2> QED BY <1>1, <1>8, <2>2, <2>3 DEF HeapType
<1> QED BY <1>8, <1>10, <1>11, <1>12, <1>13

-----------------------------------------------------------------------------
(* A step's build.                                                         *)

LEMMA Drivers == StageInv /\ OwnerInv => OneDriver
<1> SUFFICES ASSUME StageInv, OwnerInv, InUse, NEW k \in Kinds
             PROVE  /\ Owned(k) = ToSet(Runs(k))
                    /\ \A l \in ToSet(Runs(k)) : heap.key[l] = k
  BY DEF OneDriver
<1>1. \A j \in Kinds : \A l \in ToSet(Runs(j)) : Drives(j, l)
  BY DEF StageInv, OwnerInv, InUse
<1>2. ToSet(Runs(k)) \subseteq Owned(k)
  BY <1>1, KindFacts DEF Owned, Drives, Newest
<1>3. ASSUME NEW l \in Owned(k) PROVE l \in ToSet(Runs(k))
  <2>1. l \in Layers /\ owner[l] = <<k, gen>>
    BY <1>3, KindFacts DEF Owned, Newest
  <2>2. CASE k = "draft"
    BY <1>3, <2>2 DEF Owned, LayersOf, Runs
  <2>3. CASE k = "target"
    <3>1. l \notin ToSet(Draft)
      <4>1. l \in ToSet(Draft) => owner[l] = <<"draft", gen>>
        BY <1>1 DEF Drives, Runs, Kinds
      <4> QED BY <2>1, <2>3, <4>1
    <3> QED BY <2>1, <2>3, <3>1, LayerFacts DEF Runs
  <2> QED BY <2>2, <2>3 DEF Kinds
<1> QED BY <1>1, <1>2, <1>3 DEF Drives

LEMMA FirstIsOwned ==
  ASSUME NEW k \in Kinds, Owned(k) # {}
  PROVE  FirstOwned(k) \in Owned(k)
<1> DEFINE s == LayersOf(k)
           I == {i \in DOMAIN s : s[i] \in Owned(k)}
           C(i) == s[i] \in Owned(k) /\ \A j \in 1 .. i - 1 : s[j] \notin Owned(k)
<1>1. DOMAIN s = 1 .. Len(s) /\ Len(s) \in Nat
  BY KindFacts
<1>2. I \subseteq Nat /\ I # {}
  BY <1>1 DEF Owned, ToSet
<1>3. PICK m \in I : \A n \in I : m <= n
  BY <1>2, LeastNat
<1>4. m \in DOMAIN s /\ C(m)
  <2>1. \A j \in 1 .. m - 1 : j \in DOMAIN s /\ ~(m <= j)
    BY <1>1, <1>3
  <2> QED BY <1>3, <2>1
<1>5. FirstOwned(k) = s[CHOOSE i \in DOMAIN s : C(i)]
  BY DEF FirstOwned
<1> HIDE DEF s
<1> QED BY <1>4, <1>5

\* The blocks a step adds.
LEMMA NewBlocks ==
  ASSUME NEW k \in Kinds, NEW blocks \in SUBSET Nat, NEW kept,
         NEW new, new \in Assignments(k, blocks, kept)
  PROVE  new \in SlotMap /\ Blocks(new) = blocks \ kept
<1> DEFINE free == (1 .. Slots) \ {m[2] : m \in {e \in heap.map[k] : e[1] \in kept}}
<1>1. PICK f \in Injection(blocks \ kept, free) : new = {<<b, f[b]>> : b \in blocks \ kept}
  BY DEF Assignments
<1>2. f \in [blocks \ kept -> free] /\ free \subseteq 1 .. Slots
  BY <1>1 DEF Injection
<1> HIDE DEF free
<1>3. ASSUME NEW b \in blocks \ kept PROVE <<b, f[b]>> \in Nat \X (1 .. Slots)
  <2>1. b \in Nat
    OBVIOUS
  <2>2. f[b] \in 1 .. Slots
    BY <1>2
  <2> QED BY <2>1, <2>2
<1>4. new \in SlotMap
  BY <1>1, <1>3 DEF SlotMap
<1>5. Blocks(new) = blocks \ kept
  <2>1. ASSUME NEW m \in new PROVE m[1] \in blocks \ kept
    BY <1>1
  <2>2. ASSUME NEW b \in blocks \ kept PROVE <<b, f[b]>> \in new /\ <<b, f[b]>>[1] = b
    BY <1>1
  <2> QED BY <2>1, <2>2 DEF Blocks
<1> QED BY <1>4, <1>5

\* What the build of k leaves alone, and what it guarantees.
Built(k, e) ==
  /\ e \in HeapType /\ MapInv(e) /\ MirrorInv(e)
  /\ e.key = heap.key /\ e.scratch = heap.scratch
  /\ \A j \in Keys \ {k} : /\ e.born[j] = heap.born[j] /\ e.mirror[j] = heap.mirror[j]
                           /\ e.map[j] = heap.map[j]
  /\ e.born[k] = gen
  /\ \A l \in Layers \ ToSet(Runs(k)) : e.ptr[l] = heap.ptr[l]
  /\ lookup > 0 => e.warmed = heap.warmed
  /\ Settled(heap, k) => /\ e.ptr = heap.ptr /\ e.mirror[k].id = heap.mirror[k].id
                         /\ e.mirror[k].size = heap.mirror[k].size

LEMMA BuildHeapFacts ==
  ASSUME Types, StageInv, OwnerInv, HeapInv, UseInv, InUse,
         NEW k \in Kinds, Owned(k) # {}, NEW blocks, blocks # {},
         blocks \in SUBSET (0 .. NumBlocks[gen] - 1),
         NEW kept, kept \in SUBSET Blocks(heap.map[k]),
         NEW new, new \in Assignments(k, blocks, kept),
         NEW e, e = BuildHeap(k, blocks, kept, new)
  PROVE  Built(k, e)
<1>1. new \in SlotMap /\ Blocks(new) = blocks \ kept
  <2>1. blocks \in SUBSET Nat
    BY SMT
  <2>2. new \in Assignments(k, blocks, kept)
    OBVIOUS
  <2> QED BY <2>1, <2>2, NewBlocks
<1> DEFINE l == FirstOwned(k)
           n == NumBlocks[gen] - 1
           hint == BuildHint(blocks)
           h == Ensure(Tagged(k), l, hint)
           gone == Blocks(h.map[k]) \ kept
           map == {m \in h.map[k] : m[1] \notin gone} \cup new
           known == MaxOf({h.known[k]} \cup Blocks(new))
           mmap == {m \in h.mirror[k].map : m[1] \notin gone \cup Blocks(new)}
                     \cup Fitting(new, h.mirror[k].size)
<1>2. /\ gen \in 1 .. 2 /\ gen \in 0 .. 2 /\ lookup \in Bounds /\ lookup \in Nat
      /\ heap \in HeapType /\ MapInv(heap) /\ MirrorInv(heap) /\ Profiled(heap)
      /\ k \in Keys /\ heap.born[k] \in {0, gen}
      /\ n \in Nat /\ n + 1 = NumBlocks[gen] /\ (lookup > 0 => n < lookup)
      /\ blocks \subseteq 0 .. n
  <2>1. gen \in 1 .. 2 /\ gen \in 0 .. 2 /\ lookup \in Bounds
    BY DEF Types, StageInv, InUse
  <2>2. lookup \in Nat /\ NumBlocks[gen] \in Nat \ {0} /\ (lookup > 0 => NumBlocks[gen] <= lookup)
    BY <2>1, ConstantFacts
  <2>3. stage # "load" /\ heap \in HeapType
    BY DEF Types, InUse
  <2>4. k \in Keys /\ heap.born[k] \in {0, gen}
    BY DEF UseInv, Keys
  <2>5. MapInv(heap) /\ MirrorInv(heap) /\ Profiled(heap)
    BY <2>3 DEF HeapInv
  <2> QED BY <2>1, <2>2, <2>3, <2>4, <2>5
<1>3. Owned(k) = ToSet(Runs(k)) /\ \A j \in Owned(k) : heap.key[j] = k
  BY Drivers DEF OneDriver
<1>4. Tagged(k) = heap
  <2>1. [j \in Layers |-> IF j \in Owned(k) THEN k ELSE heap.key[j]] = heap.key
    BY <1>2, <1>3 DEF HeapType
  <2> QED BY <1>2, <2>1 DEF Tagged, HeapType
<1>5. l \in Layers /\ l \in ToSet(Runs(k)) /\ heap.key[l] = k
  BY <1>3, FirstIsOwned, KindFacts
<1>6. hint \in 1 .. n + 1 /\ \A b \in blocks : b \in Nat /\ b <= n /\ b < hint
  <2> DEFINE x == MaxOf(blocks)
  <2> HIDE DEF n
  <2>1. blocks \subseteq Nat /\ \A b \in blocks : b \in Nat /\ b <= n
    BY <1>2
  <2>2. x \in blocks /\ \A b \in blocks : b <= x
    BY <1>2, <2>1, MaxOfIs
  <2>3. hint = x + 1
    BY DEF BuildHint
  <2> HIDE DEF x, hint
  <2> QED BY <1>2, <2>1, <2>2, <2>3
<1> HIDE DEF l, n, hint
<1>7. Ensured(heap, h, l, hint)
  BY <1>2, <1>4, <1>5, <1>6, EnsureFacts
<1>8. e = [h EXCEPT !.map[k] = map, !.known[k] = known, !.mirror[k].map = mmap]
  BY DEF BuildHeap, hint, l
<1> HIDE DEF h
<1>9. /\ h \in HeapType /\ MapInv(h) /\ MirrorInv(h) /\ h.map = heap.map
      /\ h.mirror[k].id # 0 /\ h.mirror[k].size \in Nat /\ h.mirror[k].size >= hint
      /\ h.mirror[k].size > h.known[k] /\ h.known[k] \in Nat /\ h.mirror[k].map = h.map[k]
      /\ h.born[k] = gen /\ h.known[k] <= n /\ h.map[k] \in SlotMap
  <2>1. /\ h \in HeapType /\ MapInv(h) /\ MirrorInv(h) /\ h.map = heap.map
        /\ h.mirror[k].id # 0 /\ h.mirror[k].size >= hint /\ h.born[k] = gen
    BY <1>2, <1>5, <1>7 DEF Ensured
  <2>2. /\ h.mirror[k].size \in Nat /\ h.known[k] \in Nat /\ h.map[k] \in SlotMap
    BY <1>2, <2>1 DEF HeapType
  <2>3. h.mirror[k].size > h.known[k] /\ h.mirror[k].map = h.map[k]
    BY <1>2, <2>1 DEF MirrorInv
  <2>4. h.known[k] < NumBlocks[gen]
    BY <1>2, <2>1 DEF MapInv
  <2> QED BY <1>2, <2>1, <2>2, <2>3, <2>4

<1>10. /\ known \in Nat /\ h.known[k] <= known /\ known <= n /\ known < h.mirror[k].size
       /\ \A b \in Blocks(new) : b <= known
  <2> DEFINE S == {h.known[k]} \cup Blocks(new)
  <2>1. S \subseteq Nat /\ S # {} /\ \A y \in S : y <= n /\ y < h.mirror[k].size
    <3>1. \A b \in Blocks(new) : b \in Nat /\ b <= n /\ b < hint
      BY <1>6, <1>1
    <3>2. \A b \in Blocks(new) : b < h.mirror[k].size
      BY <1>6, <1>9, <3>1
    <3> QED BY <1>2, <1>9, <3>1, <3>2
  <2>2. MaxOf(S) \in S /\ \A y \in S : y <= MaxOf(S)
    <3> HIDE DEF S
    <3> QED BY <1>2, <2>1, MaxOfIs
  <2> QED BY <2>1, <2>2
<1>11. \A m \in h.map[k] : m[1] \in Blocks(h.map[k])
  BY DEF Blocks
<1>12. map \in SlotMap /\ \A b \in Blocks(map) : b <= known
  <2>1. map \in SlotMap
    BY <1>1, <1>9 DEF SlotMap
  <2>2. ASSUME NEW m \in map PROVE m[1] <= known
    <3>1. CASE m \in new
      BY <1>10, <3>1 DEF Blocks
    <3>2. CASE m \in h.map[k]
      <4>1. m[1] \in Nat /\ m[1] <= h.known[k]
        BY <1>2, <1>9, <1>11, <3>2 DEF MapInv, SlotMap
      <4> QED BY <1>9, <1>10, <4>1
    <3> QED BY <3>1, <3>2
  <2> HIDE DEF map
  <2> QED BY <2>1, <2>2 DEF Blocks
\* The mirror follows the dict.
<1>13. mmap = map
  <2>1. Fitting(new, h.mirror[k].size) = new
    <3>1. n \in Nat /\ \A b \in Blocks(new) : b <= known
      BY <1>2, <1>10
    <3> QED BY <1>1, <1>9, <1>10, <3>1, FittingAll
  <2>2. \A m \in h.map[k] : m[1] \notin gone => m[1] \notin Blocks(new)
    BY <1>1, <1>11
  <2> QED BY <1>9, <2>1, <2>2
<1> HIDE DEF map, known, mmap
<1> DEFINE mk == [h.mirror[k] EXCEPT !.map = map]
           maps == [h.map EXCEPT ![k] = map]
           knowns == [h.known EXCEPT ![k] = known]
           mirrors == [h.mirror EXCEPT ![k] = mk]
<1>14. /\ mk \in [id : Nat, size : Nat, map : SlotMap]
       /\ mk.id = h.mirror[k].id /\ mk.size = h.mirror[k].size /\ mk.map = map
  <2>1. h.mirror[k] \in [id : Nat, size : Nat, map : SlotMap]
    BY <1>2, <1>9 DEF HeapType
  <2> QED BY <1>12, <2>1
<1>15. /\ maps \in [Keys -> SlotMap] /\ knowns \in [Keys -> Nat]
       /\ maps[k] = map /\ knowns[k] = known
       /\ \A j \in Keys \ {k} : maps[j] = h.map[j] /\ knowns[j] = h.known[j]
  BY <1>2, <1>9, <1>10, <1>12 DEF HeapType
<1>16. e = [key |-> h.key, map |-> maps, born |-> h.born, known |-> knowns,
            mirror |-> mirrors, scratch |-> h.scratch, ptr |-> h.ptr,
            warmed |-> h.warmed, next |-> h.next]
  BY <1>8, <1>9, <1>13 DEF HeapType
<1> HIDE DEF mk
<1>17. /\ mirrors \in [Keys -> [id : Nat, size : Nat, map : SlotMap]] /\ mirrors[k] = mk
       /\ \A j \in Keys \ {k} : mirrors[j] = h.mirror[j]
  BY <1>2, <1>9, <1>14 DEF HeapType
<1> HIDE DEF maps, knowns, mirrors
<1>18. e \in HeapType
  BY <1>9, <1>15, <1>16, <1>17 DEF HeapType
<1>19. MapInv(e)
  <2> SUFFICES ASSUME NEW j \in Keys
               PROVE  /\ \A x \in Blocks(e.map[j]) : x <= e.known[j]
                      /\ e.born[j] = 0 => e.map[j] = {} /\ e.known[j] = 0
                      /\ e.born[j] # 0 => e.known[j] < NumBlocks[e.born[j]]
    BY DEF MapInv
  <2>1. CASE j # k
    BY <1>9, <1>15, <1>16, <2>1 DEF MapInv
  <2>2. CASE j = k
    BY <1>2, <1>9, <1>10, <1>12, <1>15, <1>16, <2>2
  <2> QED BY <2>1, <2>2
<1>20. MirrorInv(e)
  <2> SUFFICES ASSUME NEW j \in Keys, e.mirror[j].id # 0
               PROVE  /\ e.mirror[j].map = e.map[j]
                      /\ e.mirror[j].size >= Floor /\ e.mirror[j].size >= lookup
                      /\ e.mirror[j].size > e.known[j]
                      /\ lookup > 0 => e.mirror[j].size = Bounded
    BY DEF MirrorInv
  <2>1. CASE j # k
    BY <1>9, <1>15, <1>16, <1>17, <2>1 DEF MirrorInv
  <2>2. CASE j = k
    <3>1. /\ h.mirror[k].size >= Floor /\ h.mirror[k].size >= lookup
          /\ lookup > 0 => h.mirror[k].size = Bounded
      BY <1>2, <1>9 DEF MirrorInv
    <3> QED BY <1>10, <1>14, <1>15, <1>16, <1>17, <2>2, <3>1
  <2> QED BY <2>1, <2>2
<1>21. /\ h.scratch = heap.scratch /\ e.key = heap.key
       /\ \A j \in Keys \ {k} : h.born[j] = heap.born[j] /\ h.mirror[j] = heap.mirror[j]
       /\ \A j \in Layers \ {l} : h.ptr[j] = heap.ptr[j]
       /\ h.ptr[l] = [mirror |-> h.mirror[k].id, scratch |-> h.scratch.id,
                      rows |-> h.scratch.rows]
       /\ h.warmed = heap.warmed \cup {<<Rows[l], h.mirror[k].size>>}
       /\ heap.mirror[k].id # 0 /\ heap.mirror[k].size >= hint => h.mirror[k] = heap.mirror[k]
  <2>1. heap.scratch.id # 0 /\ heap.scratch.rows >= Rows[l]
    BY <1>2, <1>5 DEF Profiled
  <2> QED BY <1>5, <1>7, <1>16, <2>1 DEF Ensured
<1>22. lookup > 0 => e.warmed = heap.warmed
  <2> SUFFICES ASSUME lookup > 0 PROVE e.warmed = heap.warmed
    OBVIOUS
  <2>1. h.mirror[k].size = Bounded
    BY <1>2, <1>9 DEF MirrorInv
  <2>2. <<Rows[l], Bounded>> \in heap.warmed
    BY <1>2, <1>5 DEF Profiled
  <2> QED BY <1>16, <1>21, <2>1, <2>2
<1>23. ASSUME Settled(heap, k)
       PROVE  /\ e.ptr = heap.ptr /\ e.mirror[k].id = heap.mirror[k].id
              /\ e.mirror[k].size = heap.mirror[k].size
  <2>1. heap.mirror[k].id # 0 /\ heap.mirror[k].size >= n + 1 /\ heap.mirror[k].size \in Nat
    BY <1>2, <1>23 DEF Settled, HeapType
  <2>2. h.mirror[k] = heap.mirror[k]
    BY <1>2, <1>6, <1>21, <2>1
  <2>3. heap.ptr[l] = [mirror |-> heap.mirror[k].id, scratch |-> heap.scratch.id,
                       rows |-> heap.scratch.rows]
    BY <1>5, <1>23 DEF Settled
  <2>4. \A j \in Layers : h.ptr[j] = heap.ptr[j]
    BY <1>21, <2>2, <2>3
  <2>5. h.ptr = heap.ptr
    BY <1>2, <1>9, <2>4 DEF HeapType
  <2> QED BY <1>14, <1>16, <1>17, <2>2, <2>5
<1>24. \A j \in Keys \ {k} : /\ e.born[j] = heap.born[j] /\ e.mirror[j] = heap.mirror[j]
                             /\ e.map[j] = heap.map[j]
  BY <1>9, <1>15, <1>16, <1>17, <1>21
<1>25. \A j \in Layers \ ToSet(Runs(k)) : e.ptr[j] = heap.ptr[j]
  BY <1>5, <1>16, <1>21
<1> QED BY <1>9, <1>16, <1>18, <1>19, <1>20, <1>21, <1>22, <1>23, <1>24, <1>25 DEF Built

-----------------------------------------------------------------------------
(* Parts of the invariant that a step leaves alone.                        *)

LEMMA HeapKept ==
  ASSUME HeapInv, UNCHANGED <<heap, lookup, gen>>, stage # "load"
  PROVE  HeapInv'
<1>1. MapInv(heap)'
  BY DEF HeapInv, MapInv
<1>2. MirrorInv(heap)'
  BY DEF HeapInv, MirrorInv, Bounded
<1>3. Profiled(heap)'
  BY DEF HeapInv, Profiled, Bounded
<1> QED BY <1>1, <1>2, <1>3 DEF HeapInv

LEMMA HeapNext ==
  ASSUME HeapInv, UNCHANGED lookup, gen' # 0, NEW e, heap' = e,
         MapInv(e), MirrorInv(e), Profiled(e),
         Draft = <<>> => e.born["draft"] = 0
  PROVE  HeapInv'
<1>1. MapInv(heap)'
  BY DEF MapInv
<1>2. MirrorInv(heap)'
  BY DEF MirrorInv, Bounded
<1>3. Profiled(heap)'
  BY DEF Profiled, Bounded
<1> QED BY <1>1, <1>2, <1>3 DEF HeapInv

LEMMA OwnerKept ==
  ASSUME OwnerInv, UNCHANGED <<owner, claimed, gen>>, heap'.key = heap.key,
         stage # "half", stage' # "half"
  PROVE  OwnerInv'
<1>1. \A k \in Kinds : \A l \in ToSet(Runs(k)) : Drives(k, l) => Drives(k, l)'
  BY DEF Drives
<1> QED BY <1>1 DEF OwnerInv

-----------------------------------------------------------------------------
(* The invariant holds at the start, and of every step.                    *)

LEMMA Initially == Init => IInv
<1> SUFFICES ASSUME Init PROVE IInv
  OBVIOUS
<1>1. Types
  <2>1. \A k \in Kinds : NewPlan(0) \in [id : Nat, cap : Nat, age : 0 .. 2]
    BY DEF NewPlan
  <2>2. EmptyHeap \in HeapType
    BY DEF EmptyHeap, HeapType, Keys, SlotMap, None
  <2> QED BY <2>1, <2>2, ConstantFacts DEF Init, Types, Unowned
<1>2. StageInv
  BY DEF Init, StageInv, InUse
<1>3. OwnerInv
  BY DEF Init, OwnerInv, Unowned, EmptyHeap
<1>4. HeapInv
  <2>1. /\ \A k \in Keys : heap.map[k] = {} /\ heap.born[k] = 0 /\ heap.known[k] = 0
                           /\ heap.mirror[k].id = 0
        /\ stage = "load" /\ "draft" \in Keys
    BY DEF Init, EmptyHeap, Keys, Kinds, None
  <2>2. MapInv(heap)
    BY <2>1 DEF MapInv, Blocks
  <2>3. MirrorInv(heap)
    BY <2>1 DEF MirrorInv
  <2> QED BY <2>1, <2>2, <2>3 DEF HeapInv
<1>5. UseInv
  BY DEF Init, UseInv, InUse
<1>6. QueueInv
  BY DEF Init, QueueInv, NewPlan
<1> QED BY <1>1, <1>2, <1>3, <1>4, <1>5, <1>6 DEF IInv

LEMMA Stutters == ASSUME IInv, UNCHANGED vars PROVE IInv'
<1> USE DEF vars, IInv
<1>1. Types'
  BY DEF Types
<1>2. StageInv'
  BY DEF StageInv, InUse
<1>3. OwnerInv'
  BY DEF OwnerInv, Drives
<1>4. HeapInv'
  BY DEF HeapInv, MapInv, MirrorInv, Profiled, Bounded
<1>5. UseInv'
  BY DEF UseInv, InUse, Settled, Waiting, RefsSet, GraphOK
<1>6. QueueInv'
  BY DEF QueueInv, RunOf
<1> QED BY <1>1, <1>2, <1>3, <1>4, <1>5, <1>6

LEMMA StartsServing == ASSUME IInv, StartServing PROVE IInv'
<1> USE DEF IInv, StartServing
<1>1. Types'
  BY DEF Types
<1>2. StageInv'
  BY DEF StageInv, InUse
<1>3. OwnerInv'
  BY OwnerKept
<1>4. HeapInv'
  BY HeapKept
<1>5. UseInv'
  BY DEF UseInv, InUse, Settled, Waiting, RefsSet, GraphOK
<1>6. QueueInv'
  BY DEF QueueInv, RunOf
<1> QED BY <1>1, <1>2, <1>3, <1>4, <1>5, <1>6

LEMMA Cleans == ASSUME IInv, Cleanup PROVE IInv'
<1> USE DEF IInv, Cleanup
<1>1. Types'
  BY DEF Types
<1>2. StageInv'
  BY DEF StageInv, InUse
<1>3. OwnerInv'
  BY OwnerKept
<1>4. HeapInv'
  BY HeapKept
<1>5. UseInv'
  BY DEF UseInv, InUse
<1>6. QueueInv'
  BY DEF QueueInv, RunOf
<1> QED BY <1>1, <1>2, <1>3, <1>4, <1>5, <1>6

LEMMA Profiles == ASSUME IInv, ProfileRun PROVE IInv'
<1> USE DEF IInv, ProfileRun
<1> DEFINE e == EnsureAll(heap, AllLayers, 0)
<1>1. heap' = e
  OBVIOUS
<1>2. /\ e \in HeapType /\ MapInv(e) /\ MirrorInv(e) /\ Profiled(e)
      /\ e.key = heap.key /\ \A k \in Keys : e.born[k] = 0
  BY ProfileHeap
<1> HIDE DEF e
<1>3. gen = 0 /\ gen' = 0 /\ stage = "load" /\ stage' = "profiled"
  BY DEF StageInv
<1>4. Types'
  BY <1>1, <1>2 DEF Types
<1>5. StageInv'
  BY <1>3 DEF StageInv, InUse
<1>6. OwnerInv'
  BY <1>1, <1>2, <1>3 DEF OwnerInv
<1>7. HeapInv'
  <2>1. MapInv(heap)'
    BY <1>1, <1>2 DEF MapInv
  <2>2. MirrorInv(heap)'
    BY <1>1, <1>2 DEF MirrorInv, Bounded
  <2>3. Profiled(heap)'
    BY <1>1, <1>2 DEF Profiled, Bounded
  <2> QED BY <1>1, <1>2, <2>1, <2>2, <2>3 DEF HeapInv, Keys, Kinds
<1>8. UseInv'
  BY <1>3 DEF UseInv, InUse
<1>9. QueueInv'
  BY DEF QueueInv, RunOf
<1> QED BY <1>4, <1>5, <1>6, <1>7, <1>8, <1>9

LEMMA Captures == ASSUME IInv, Capture PROVE IInv'
<1> USE DEF IInv, Capture
<1>1. PICK k \in Kinds : k = pending.kind
  BY DEF Types
<1>2. PICK new : new = [kind |-> k, rows |-> pending.rows, plan |-> plan[k].id,
                        ptr |-> [l \in ToSet(Runs(k)) |-> heap.ptr[l]]]
  OBVIOUS
<1> USE <1>1
<1>3. /\ pending.rows \in 1 .. MaxBatch /\ warm[k] # 0
      /\ gen \in 1 .. 2 /\ InUse /\ InUse' /\ stage = "cache" /\ stage' = "cache"
  BY ConstantFacts DEF Types, StageInv, InUse
<1>4. /\ graphs' = graphs \cup {new} /\ ref' = CachedRef(ToSet(Runs(k)))
      /\ heap' = heap /\ plan' = plan /\ warm' = warm /\ gen' = gen /\ pending' = <<>>
  BY <1>2
<1>5. /\ ref' \in [Layers -> 0 .. 2] /\ \A l \in Layers : ref'[l] \in {ref[l], gen}
      /\ \A l \in ToSet(Runs(k)) : ref'[l] = gen
  BY <1>3, <1>4, KindFacts DEF CachedRef, Types
<1>6. \A j \in Kinds : RefsSet(j) => RefsSet(j)'
  BY <1>4, <1>5, KindFacts DEF RefsSet
<1>7. RefsSet(k)'
  BY <1>4, <1>5 DEF RefsSet
<1>8. Types'
  BY <1>3, <1>5 DEF Types
<1>9. StageInv'
  BY <1>3 DEF StageInv
<1>10. OwnerInv'
  BY OwnerKept
<1>11. HeapInv'
  BY HeapKept
<1>12. UseInv'
  <2>1. \A g \in graphs : GraphOK(g)'
    BY <1>3, <1>4, <1>6 DEF UseInv, GraphOK
  <2>2. GraphOK(new)'
    <3>1. /\ new.kind = k /\ new.plan = plan[k].id /\ DOMAIN new.ptr = ToSet(Runs(k))
          /\ \A l \in DOMAIN new.ptr : new.ptr[l] = heap.ptr[l]
      BY <1>2
    <3>2. plan[k].cap >= Headroom
      BY <1>3 DEF UseInv
    <3> QED BY <1>3, <1>4, <1>7, <3>1, <3>2 DEF GraphOK
  <2>3. \A j \in Kinds : Settled(heap, j) => Settled(heap, j)'
    BY <1>4 DEF Settled
  <2>4. \A j \in Kinds : heap.map[j] # {} => RefsSet(j)'
    BY <1>3, <1>6, <1>7 DEF UseInv, Waiting
  <2> QED BY <1>3, <1>4, <1>5, <2>1, <2>2, <2>3, <2>4 DEF UseInv
<1>13. QueueInv'
  BY <1>3 DEF QueueInv, RunOf
<1> QED BY <1>8, <1>9, <1>10, <1>11, <1>12, <1>13

\* A launch puts the step behind its copy.
LEMMA Launched ==
  ASSUME QueueInv, pending # <<>>, NEW k \in Kinds, k = pending.kind, UNCHANGED plan,
         queue' = Append(queue, RunItem(k, plan[k].id)), pending' = <<>>
  PROVE  QueueInv'
<1>1. CASE queue = <<>> /\ plan[k].age = 0
  <2>1. queue' = <<RunItem(k, plan'[k].id)>> /\ plan'[k].age = 0
    BY <1>1
  <2> QED BY <2>1 DEF QueueInv, RunOf
<1>2. CASE queue = <<CopyOf(k)>>
  <2>1. ASSUME NEW a, NEW b PROVE Append(<<a>>, b) = <<a, b>>
    <3> DEFINE s == Append(<<a>>, b)
    <3>1. <<a>> \in Seq({a, b}) /\ <<a, b>> \in Seq({a, b}) /\ Len(<<a>>) = 1 /\ <<a>>[1] = a
      OBVIOUS
    <3>2. s \in Seq({a, b}) /\ Len(s) = 2 /\ s[1] = a /\ s[2] = b
      BY <3>1
    <3>3. Len(<<a, b>>) = 2 /\ <<a, b>>[1] = a /\ <<a, b>>[2] = b
      OBVIOUS
    <3> HIDE DEF s
    <3>4. \A i \in 1 .. Len(s) : s[i] = <<a, b>>[i]
      BY <3>2, <3>3
    <3> QED BY <3>1, <3>2, <3>3, <3>4, SeqEqual DEF s
  <2>2. queue' = <<CopyOf(k), RunItem(k, plan'[k].id)>>
    BY <1>2, <2>1
  <2> QED BY <2>2 DEF QueueInv, RunOf
<1> QED BY <1>1, <1>2 DEF QueueInv

LEMMA Replays == ASSUME IInv, Replay PROVE IInv'
<1>1. PICK k \in Kinds : k = pending.kind
  BY DEF Replay, IInv, Types
<1>2. PICK g \in graphs : g.kind = k /\ queue' = Append(queue, RunItem(k, g.plan))
  BY <1>1 DEF Replay
<1>3. /\ stage = "serve" /\ stage' = "serve" /\ pending # <<>> /\ pending' = <<>>
      /\ UNCHANGED <<gen, lookup, owner, claimed, heap, ref, plan, graphs, warm>>
      /\ InUse /\ InUse'
  BY DEF Replay, InUse
<1>4. GraphOK(g) /\ g.plan = plan[k].id
  BY <1>2, <1>3 DEF IInv, UseInv, GraphOK
<1>5. Types'
  BY <1>3 DEF IInv, Types
<1>6. StageInv'
  BY <1>3 DEF IInv, StageInv
<1>7. OwnerInv'
  BY <1>3, OwnerKept DEF IInv
<1>8. HeapInv'
  BY <1>3, HeapKept DEF IInv
<1>9. UseInv'
  <2>1. \A j \in graphs : GraphOK(j)'
    BY <1>3 DEF IInv, UseInv, GraphOK, RefsSet
  <2>2. \A j \in Kinds : Settled(heap, j) => Settled(heap, j)'
    BY <1>3 DEF Settled
  <2>3. \A j \in Kinds : heap.map[j] # {} => RefsSet(j)'
    <3>1. \A j \in Kinds : RefsSet(j) => RefsSet(j)'
      BY <1>3 DEF RefsSet
    <3>2. RefsSet(k)
      BY <1>2, <1>4 DEF GraphOK
    <3> QED BY <1>1, <1>3, <3>1, <3>2 DEF IInv, UseInv, Waiting
  <2> QED BY <1>3, <2>1, <2>2, <2>3 DEF IInv, UseInv
<1>10. QueueInv'
  BY <1>1, <1>2, <1>3, <1>4, Launched DEF IInv
<1> QED BY <1>5, <1>6, <1>7, <1>8, <1>9, <1>10 DEF IInv

LEMMA Executes == ASSUME IInv, Gpu PROVE IInv'
<1>1. PICK k \in Kinds : \/ queue = <<CopyOf(k)>>
                         \/ queue = <<CopyOf(k), RunOf(k)>>
                         \/ queue = <<RunOf(k)>> /\ plan[k].age = 0
  BY DEF Gpu, IInv, QueueInv
<1>2. InUse /\ InUse'
  BY <1>1 DEF Gpu, IInv, StageInv, InUse
<1>3. UNCHANGED <<stage, gen, lookup, owner, claimed, heap, ref, graphs, warm, pending>>
  BY DEF Gpu
<1>4. /\ plan' \in [Kinds -> [id : Nat, cap : Nat, age : 0 .. 2]]
      /\ \A j \in Kinds : plan'[j].id = plan[j].id /\ plan'[j].cap = plan[j].cap
      /\ \A j \in Kinds : plan[j].age = 0 => plan'[j].age = 0
  <2> DEFINE head == Head(queue).kind
  <2>1. plan \in [Kinds -> [id : Nat, cap : Nat, age : 0 .. 2]]
    BY DEF IInv, Types
  <2>2. plan' = plan \/ plan' = [plan EXCEPT ![head].age = 0]
    BY DEF Gpu
  <2> HIDE DEF head
  <2>3. ASSUME NEW j \in Kinds
        PROVE  [plan EXCEPT ![head].age = 0][j] \in {plan[j], [plan[j] EXCEPT !.age = 0]}
    BY <2>1
  <2>4. [plan EXCEPT ![head].age = 0] \in [Kinds -> [id : Nat, cap : Nat, age : 0 .. 2]]
    <3>1. head \in Kinds => [plan[head] EXCEPT !.age = 0] \in [id : Nat, cap : Nat, age : 0 .. 2]
      BY <2>1
    <3> QED BY <2>1, <3>1
  <2> QED BY <2>1, <2>2, <2>3, <2>4
<1>5. Types'
  BY <1>3, <1>4 DEF IInv, Types
<1>6. StageInv'
  BY <1>2, <1>3 DEF IInv, StageInv
<1>7. OwnerInv'
  BY <1>2, <1>3, OwnerKept DEF IInv, InUse
<1>8. HeapInv'
  BY <1>2, <1>3, HeapKept DEF IInv, InUse
<1>9. UseInv'
  <2>1. \A j \in graphs : GraphOK(j)'
    BY <1>2, <1>3, <1>4 DEF IInv, UseInv, GraphOK, RefsSet
  <2>2. \A j \in Kinds : Settled(heap, j) => Settled(heap, j)'
    BY <1>3 DEF Settled
  <2>3. \A j \in Kinds : (RefsSet(j) => RefsSet(j)') /\ (Waiting(j) = Waiting(j)')
    BY <1>3 DEF RefsSet, Waiting
  <2>4. pending' # <<>> => plan'[pending'.kind].cap >= Headroom /\ Runs(pending'.kind) # <<>>
    BY <1>2, <1>3, <1>4 DEF IInv, Types, UseInv
  <2> QED BY <1>2, <1>3, <2>1, <2>2, <2>3, <2>4 DEF IInv, UseInv
<1>10. QueueInv'
  <2>1. \A j \in Kinds : plan'[j].cap = 0 \/ plan'[j].cap >= Headroom
    BY <1>4 DEF IInv, QueueInv
  <2>2. CASE queue = <<CopyOf(k)>>
    <3>1. Head(queue) = CopyOf(k) /\ Tail(queue) = <<>>
      BY <2>2
    <3>2. queue' = <<>> /\ plan'[k].age = 0
      BY <3>1 DEF Gpu, CopyOf, IInv, Types
    <3>3. pending # <<>> => pending.kind = k
      BY <2>2 DEF IInv, QueueInv, CopyOf
    <3> QED BY <1>3, <2>1, <3>2, <3>3 DEF QueueInv
  <2>3. CASE queue = <<CopyOf(k), RunOf(k)>>
    <3>1. Head(queue) = CopyOf(k) /\ Tail(queue) = <<RunOf(k)>>
      BY <2>3
    <3>2. queue' = <<RunOf(k)>> /\ plan'[k].age = 0
      BY <3>1 DEF Gpu, CopyOf, IInv, Types
    <3>3. pending' = <<>>
      BY <1>3, <2>3 DEF IInv, QueueInv
    <3>4. queue' = <<RunItem(k, plan'[k].id)>>
      BY <1>4, <3>2 DEF RunOf
    <3> QED BY <2>1, <3>2, <3>3, <3>4 DEF QueueInv, RunOf
  <2>4. CASE queue = <<RunOf(k)>> /\ plan[k].age = 0
    <3>1. queue' = <<>>
      BY <2>4 DEF Gpu
    <3>2. pending' = <<>>
      BY <1>3, <2>4 DEF IInv, QueueInv, RunOf, RunItem, CopyOf
    <3> QED BY <2>1, <3>1, <3>2 DEF QueueInv
  <2> QED BY <1>1, <2>2, <2>3, <2>4
<1> QED BY <1>5, <1>6, <1>7, <1>8, <1>9, <1>10 DEF IInv

LEMMA Forwards == ASSUME IInv, Eager PROVE IInv'
<1>1. PICK k \in Kinds : k = pending.kind
  BY DEF Eager, IInv, Types
<1>2. PICK e : e = EnsureAll(heap, Runs(k), NumBlocks[gen])
  OBVIOUS
<1>3. /\ pending # <<>> /\ pending' = <<>>
      /\ heap' = e /\ ref' = CachedRef(ToSet(Runs(k)))
      /\ warm' = IF stage = "cache" THEN [warm EXCEPT ![k] = pending.rows] ELSE warm
      /\ queue' = Append(queue, RunItem(k, plan[k].id))
      /\ UNCHANGED <<stage, gen, lookup, owner, claimed, plan, graphs>>
  BY <1>1, <1>2 DEF Eager, ForwardHint
<1>4. /\ InUse /\ InUse' /\ gen \in 1 .. 2 /\ stage # "half" /\ stage # "load"
      /\ Runs(k) # <<>> /\ pending.rows \in 1 .. MaxBatch
  BY <1>1, <1>3 DEF IInv, Types, StageInv, UseInv, InUse
<1>5. /\ e \in HeapType /\ MapInv(e) /\ MirrorInv(e)
      /\ e.key = heap.key /\ e.map = heap.map /\ e.scratch = heap.scratch
      /\ \A j \in Keys \ {k} : e.born[j] = heap.born[j] /\ e.mirror[j] = heap.mirror[j]
      /\ e.born[k] \in {heap.born[k], gen}
      /\ \A l \in Layers \ ToSet(Runs(k)) : e.ptr[l] = heap.ptr[l]
      /\ lookup > 0 => e.warmed = heap.warmed
      /\ Settled(e, k)
      /\ Settled(heap, k) => e.ptr = heap.ptr /\ e.mirror = heap.mirror
  BY <1>2, <1>4, ForwardHeap DEF IInv
<1>6. /\ ref' \in [Layers -> 0 .. 2] /\ \A l \in Layers : ref'[l] \in {ref[l], gen}
      /\ \A l \in ToSet(Runs(k)) : ref'[l] = gen
  BY <1>3, <1>4, KindFacts DEF CachedRef, IInv, Types
<1>7. /\ warm' \in [Kinds -> 0 .. MaxBatch]
      /\ \A j \in Kinds \ {k} : warm'[j] = warm[j]
      /\ warm[k] # 0 => warm'[k] # 0
  BY <1>3, <1>4, ConstantFacts DEF IInv, Types
<1>8. \A j \in Kinds : RefsSet(j) => RefsSet(j)'
  BY <1>3, <1>6, KindFacts DEF RefsSet
<1>9. RefsSet(k)'
  BY <1>3, <1>6 DEF RefsSet
\* Nobody else's layers are touched.
<1>10. ASSUME NEW j \in Kinds \ {k}, NEW l \in ToSet(Runs(j))
       PROVE  e.ptr[l] = heap.ptr[l]
  BY <1>5, KindFacts, OneKind
<1>11. Types'
  BY <1>3, <1>5, <1>6, <1>7 DEF IInv, Types
<1>12. StageInv'
  BY <1>3, <1>4 DEF IInv, StageInv
<1>13. OwnerInv'
  BY <1>3, <1>4, <1>5, OwnerKept DEF IInv
<1>14. HeapInv'
  <2>1. Profiled(e)
    BY <1>4, <1>5 DEF IInv, HeapInv, Profiled
  <2>2. Draft = <<>> => e.born["draft"] = 0
    BY <1>4, <1>5 DEF IInv, HeapInv, Runs, Keys, Kinds
  <2> QED BY <1>3, <1>4, <1>5, <2>1, <2>2, HeapNext DEF IInv
<1>15. UseInv'
  <2>1. \A j \in Kinds : warm'[j] # 0 => Settled(heap, j)'
    <3>1. ASSUME NEW j \in Kinds \ {k}, Settled(heap, j) PROVE Settled(heap, j)'
      BY <1>3, <1>5, <1>10, <3>1 DEF Settled, Keys
    <3>2. Settled(heap, k)'
      BY <1>3, <1>5 DEF Settled
    <3> QED BY <1>4, <1>7, <3>1, <3>2 DEF IInv, UseInv
  <2>2. ASSUME NEW g \in graphs PROVE GraphOK(g)'
    <3>1. GraphOK(g) /\ g.kind \in Kinds
      BY <1>4 DEF IInv, UseInv, GraphOK
    <3>2. \A l \in DOMAIN g.ptr : e.ptr[l] = heap.ptr[l]
      <4>1. CASE g.kind = k
        BY <1>4, <1>5, <3>1, <4>1 DEF IInv, UseInv, GraphOK
      <4>2. CASE g.kind # k
        BY <1>10, <3>1, <4>2 DEF GraphOK
      <4> QED BY <4>1, <4>2
    <3>3. warm'[g.kind] # 0
      BY <1>7, <3>1 DEF GraphOK
    <3>4. RefsSet(g.kind)'
      BY <1>3, <1>8, <3>1 DEF GraphOK, RefsSet
    <3> QED BY <1>3, <3>1, <3>2, <3>3, <3>4 DEF GraphOK
  <2>3. \A j \in Kinds : e.map[j] # {} => RefsSet(j)'
    BY <1>1, <1>4, <1>5, <1>8, <1>9 DEF IInv, UseInv, Waiting
  <2>4. \A j \in Kinds : e.born[j] \in {0, gen}
    BY <1>4, <1>5 DEF IInv, UseInv, Keys
  <2>5. \A l \in Layers : ref'[l] \in {0, gen}
    BY <1>4, <1>6 DEF IInv, UseInv
  <2> QED BY <1>3, <2>1, <2>2, <2>3, <2>4, <2>5 DEF UseInv
<1>16. QueueInv'
  BY <1>1, <1>3, Launched DEF IInv
<1> QED BY <1>11, <1>12, <1>13, <1>14, <1>15, <1>16 DEF IInv

\* A plan's buffers are replaced once: what comes first holds the largest batch.
LEMMA PlanFacts ==
  ASSUME Types, QueueInv, NEW k \in Kinds, NEW rows \in 1 .. MaxBatch,
         NEW p, p = FillPlan(k, rows)
  PROVE  /\ p \in [id : Nat, cap : Nat, age : 0 .. 2] /\ p.cap >= Headroom
         /\ plan[k].cap >= Headroom => p.id = plan[k].id
<1>1. /\ plan[k] \in [id : Nat, cap : Nat, age : 0 .. 2]
      /\ plan[k].cap = 0 \/ plan[k].cap >= Headroom
      /\ Headroom \in Nat /\ rows \in Nat /\ rows > 0 /\ rows <= Headroom
  BY ConstantFacts DEF Types, QueueInv
<1>2. CASE plan[k].cap >= rows
  <2>1. p = [plan[k] EXCEPT !.age = Older(@)]
    BY <1>2 DEF FillPlan
  <2>2. Older(plan[k].age) \in 0 .. 2
    BY <1>1 DEF Older
  <2>3. p \in [id : Nat, cap : Nat, age : 0 .. 2] /\ p.cap = plan[k].cap /\ p.id = plan[k].id
    BY <1>1, <2>1, <2>2
  <2> QED BY <1>1, <1>2, <2>3
<1>3. CASE ~(plan[k].cap >= rows)
  <2>1. MaxOf({rows, Headroom}) = Headroom
    BY <1>1, MaxOfTwo
  <2>2. p = [id |-> plan[k].id + 1, cap |-> Headroom, age |-> 2]
    BY <1>3, <2>1 DEF FillPlan
  <2> QED BY <1>1, <1>3, <2>2
<1> QED BY <1>2, <1>3

LEMMA Builds ==
  ASSUME IInv, InUse, NEW k \in Kinds, NEW rows \in 1 .. MaxBatch,
         NEW blocks, blocks \in SUBSET (0 .. NumBlocks[gen] - 1), blocks # {},
         NEW kept, Build(k, rows, blocks, kept)
  PROVE  /\ IInv'
         /\ \A j \in Kinds : ~(heap.map[j] \subseteq heap'.map[j]) => j = k
         /\ lookup > 0 => heap'.warmed = heap.warmed
<1>1. PICK new \in Assignments(k, blocks, kept) : heap' = BuildHeap(k, blocks, kept, new)
  BY DEF Build
<1>2. PICK e : e = BuildHeap(k, blocks, kept, new)
  OBVIOUS
<1>3. PICK p : p = FillPlan(k, rows)
  OBVIOUS
<1>4. /\ stage \in {"cache", "serve"} /\ pending = <<>> /\ Owned(k) # {} /\ queue = <<>>
      /\ kept \in SUBSET Blocks(heap.map[k]) /\ heap' = e
      /\ plan' = [plan EXCEPT ![k] = p] /\ pending' = [kind |-> k, rows |-> rows]
      /\ queue' = Append(Overtaken(k), CopyOf(k))
      /\ UNCHANGED <<stage, gen, lookup, owner, claimed, ref, graphs, warm>>
  BY <1>1, <1>2, <1>3 DEF Build, Synced, CopyOf
<1>5. /\ gen \in 1 .. 2 /\ InUse' /\ stage # "half" /\ stage # "load" /\ stage' # "half"
      /\ pending' # <<>> /\ pending'.kind = k
  BY <1>4 DEF IInv, StageInv, InUse
<1>6. Built(k, e)
  <2>1. new \in Assignments(k, blocks, kept)
    OBVIOUS
  <2> QED BY <1>2, <1>4, <2>1, BuildHeapFacts DEF IInv
<1>7. /\ p \in [id : Nat, cap : Nat, age : 0 .. 2] /\ p.cap >= Headroom
      /\ plan[k].cap >= Headroom => p.id = plan[k].id
  BY <1>3, PlanFacts DEF IInv
<1>8. /\ plan' \in [Kinds -> [id : Nat, cap : Nat, age : 0 .. 2]] /\ plan'[k] = p
      /\ \A j \in Kinds \ {k} : plan'[j] = plan[j]
  BY <1>4, <1>7 DEF IInv, Types
<1>9. Runs(k) # <<>>
  <2>1. Owned(k) = ToSet(Runs(k))
    BY Drivers DEF IInv, OneDriver
  <2> QED BY <1>4, <2>1 DEF ToSet
<1>10. queue' = <<CopyOf(k)>>
  <2>1. Overtaken(k) = <<>>
    BY <1>4 DEF Overtaken
  <2> QED BY <1>4, <2>1
<1>11. ASSUME NEW j \in Kinds \ {k}, NEW l \in ToSet(Runs(j))
       PROVE  e.ptr[l] = heap.ptr[l]
  BY <1>6, KindFacts, OneKind DEF Built
<1>12. Types'
  <2>1. pending' \in [kind : Kinds, rows : 1 .. MaxBatch]
    BY <1>4
  <2> QED BY <1>4, <1>6, <1>8, <2>1 DEF IInv, Types, Built
<1>13. StageInv'
  BY <1>4, <1>5 DEF IInv, StageInv
<1>14. OwnerInv'
  BY <1>4, <1>5, <1>6, OwnerKept DEF IInv, Built
<1>15. HeapInv'
  <2>1. Profiled(e)
    BY <1>5, <1>6 DEF IInv, HeapInv, Profiled, Built
  <2>2. Draft = <<>> => e.born["draft"] = 0
    BY <1>5, <1>6, <1>9 DEF IInv, HeapInv, Runs, Keys, Kinds, Built
  <2> QED BY <1>4, <1>5, <1>6, <2>1, <2>2, HeapNext DEF IInv, Built
<1>16. UseInv'
  <2>1. \A j \in Kinds : warm'[j] # 0 => Settled(heap, j)'
    <3>1. ASSUME NEW j \in Kinds \ {k}, Settled(heap, j) PROVE Settled(heap, j)'
      BY <1>4, <1>6, <1>11, <3>1 DEF Settled, Keys, Built
    <3>2. Settled(heap, k) => Settled(heap, k)'
      BY <1>4, <1>6 DEF Settled, Built
    <3> QED BY <1>4, <3>1, <3>2 DEF IInv, UseInv
  <2>2. ASSUME NEW g \in graphs PROVE GraphOK(g)'
    <3>1. GraphOK(g) /\ g.kind \in Kinds
      BY DEF IInv, UseInv, GraphOK
    <3>2. \A l \in DOMAIN g.ptr : e.ptr[l] = heap.ptr[l]
      <4>1. CASE g.kind = k
        BY <1>6, <3>1, <4>1 DEF IInv, UseInv, GraphOK, Built
      <4>2. CASE g.kind # k
        BY <1>11, <3>1, <4>2 DEF GraphOK
      <4> QED BY <4>1, <4>2
    <3>3. plan'[g.kind].id = plan[g.kind].id /\ plan'[g.kind].cap >= Headroom
      BY <1>7, <1>8, <3>1 DEF GraphOK
    <3> QED BY <1>4, <3>1, <3>2, <3>3 DEF GraphOK, RefsSet
  <2>3. \A j \in Kinds : e.map[j] # {} /\ ~Waiting(j)' => RefsSet(j)'
    <3>1. Waiting(k)'
      BY <1>5 DEF Waiting
    <3>2. \A j \in Kinds : RefsSet(j) => RefsSet(j)'
      BY <1>4 DEF RefsSet
    <3>3. \A j \in Kinds : ~Waiting(j)
      BY <1>4 DEF Waiting
    <3> QED BY <1>6, <3>1, <3>2, <3>3 DEF IInv, UseInv, Keys, Built
  <2>4. \A j \in Kinds : e.born[j] \in {0, gen}
    BY <1>6 DEF IInv, UseInv, Keys, Built
  <2>5. \A l \in Layers : ref'[l] \in {0, gen}
    BY <1>4 DEF IInv, UseInv
  <2>6. plan'[pending'.kind].cap >= Headroom /\ Runs(pending'.kind) # <<>>
    BY <1>5, <1>7, <1>8, <1>9
  <2> QED BY <1>4, <2>1, <2>2, <2>3, <2>4, <2>5, <2>6 DEF UseInv
<1>17. QueueInv'
  BY <1>5, <1>7, <1>8, <1>10 DEF IInv, QueueInv
<1>18. \A j \in Kinds : ~(heap.map[j] \subseteq heap'.map[j]) => j = k
  BY <1>4, <1>6 DEF Keys, Built
<1> QED BY <1>4, <1>6, <1>12, <1>13, <1>14, <1>15, <1>16, <1>17, <1>18 DEF IInv, Built

-----------------------------------------------------------------------------
(* The builders of a new cache.                                            *)

LEMMA ResetFacts ==
  ASSUME NEW h \in HeapType, MapInv(h), MirrorInv(h), NEW k \in Kinds, NEW ls, NEW e,
         e = ResetHeap(h, k, ls)
  PROVE  /\ e \in HeapType /\ MapInv(e) /\ MirrorInv(e)
         /\ e.scratch = h.scratch /\ e.warmed = h.warmed
         /\ e.born[k] = 0 /\ e.map[k] = {}
         /\ \A j \in Keys \ {k} : e.born[j] = h.born[j] /\ e.map[j] = h.map[j]
         /\ \A l \in Layers : e.key[l] = IF l \in ls THEN k ELSE h.key[l]
<1> DEFINE maps == [h.map EXCEPT ![k] = {}]
           borns == [h.born EXCEPT ![k] = 0]
           knowns == [h.known EXCEPT ![k] = 0]
           mirrors == [h.mirror EXCEPT ![k] = None]
           keys == [l \in Layers |-> IF l \in ls THEN k ELSE h.key[l]]
           ptrs == [l \in Layers |-> IF l \in ls THEN [h.ptr[l] EXCEPT !.mirror = 0]
                                                 ELSE h.ptr[l]]
<1>1. k \in Keys
  BY DEF Keys
<1>2. maps \in [Keys -> SlotMap] /\ borns \in [Keys -> 0 .. 2] /\ knowns \in [Keys -> Nat]
  <2>1. {} \in SlotMap
    BY DEF SlotMap
  <2>2. maps \in [Keys -> SlotMap]
    BY <2>1 DEF HeapType
  <2>3. h.born \in [Keys -> 0 .. 2] /\ h.known \in [Keys -> Nat] /\ 0 \in 0 .. 2
    BY DEF HeapType
  <2>4. borns \in [Keys -> 0 .. 2]
    BY <2>3
  <2>5. knowns \in [Keys -> Nat]
    BY <2>3
  <2> QED BY <2>2, <2>4, <2>5
<1>3. mirrors \in [Keys -> [id : Nat, size : Nat, map : SlotMap]]
  <2>1. None \in [id : Nat, size : Nat, map : SlotMap]
    BY DEF None, SlotMap
  <2> QED BY <2>1 DEF HeapType
<1>4. keys \in [Layers -> Keys]
  BY <1>1 DEF HeapType
<1>5. ptrs \in [Layers -> [mirror : Nat, scratch : Nat, rows : Nat]]
  <2>1. \A l \in Layers : /\ h.ptr[l] \in [mirror : Nat, scratch : Nat, rows : Nat]
                          /\ [h.ptr[l] EXCEPT !.mirror = 0]
                               \in [mirror : Nat, scratch : Nat, rows : Nat]
    BY DEF HeapType
  <2> QED BY <2>1
<1>6. e = [key |-> keys, map |-> maps, born |-> borns, known |-> knowns,
           mirror |-> mirrors, scratch |-> h.scratch, ptr |-> ptrs,
           warmed |-> h.warmed, next |-> h.next]
  BY DEF ResetHeap, HeapType
<1>7. /\ maps[k] = {} /\ borns[k] = 0 /\ knowns[k] = 0 /\ mirrors[k].id = 0
      /\ \A j \in Keys \ {k} : /\ maps[j] = h.map[j] /\ borns[j] = h.born[j]
                               /\ knowns[j] = h.known[j] /\ mirrors[j] = h.mirror[j]
  BY <1>1 DEF HeapType, None
<1>8. \A l \in Layers : keys[l] = IF l \in ls THEN k ELSE h.key[l]
  OBVIOUS
<1> HIDE DEF maps, borns, knowns, mirrors, keys, ptrs
<1>9. e \in HeapType
  BY <1>2, <1>3, <1>4, <1>5, <1>6 DEF HeapType
<1>10. MapInv(e)
  <2> SUFFICES ASSUME NEW j \in Keys
               PROVE  /\ \A b \in Blocks(e.map[j]) : b <= e.known[j]
                      /\ e.born[j] = 0 => e.map[j] = {} /\ e.known[j] = 0
                      /\ e.born[j] # 0 => e.known[j] < NumBlocks[e.born[j]]
    BY DEF MapInv
  <2>1. CASE j = k
    BY <1>6, <1>7, <2>1 DEF Blocks
  <2>2. CASE j # k
    BY <1>6, <1>7, <2>2 DEF MapInv
  <2> QED BY <2>1, <2>2
<1>11. MirrorInv(e)
  BY <1>6, <1>7 DEF MirrorInv
<1> QED BY <1>6, <1>7, <1>8, <1>9, <1>10, <1>11

\* The target's builder takes every layer it runs, and the drafter's, being no
\* larger, takes its own back.
LEMMA TargetClaims ==
  ASSUME Types, StageInv, OwnerInv, stage = "profiled", NEW mine,
         mine = Claims("target", gen + 1)
  PROVE  /\ mine \subseteq Layers /\ ToSet(Target) \subseteq mine
         /\ \A l \in Layers \ mine : l \in ToSet(Draft) /\ owner[l] = <<"draft", gen>>
<1>1. mine = {l \in Layers : owner[l] = <<>> \/ Len(AllLayers) <= Len(LayersOf(owner[l][1]))}
  BY LayerFacts DEF Claims, LayersOf
<1>2. Len(AllLayers) \in Nat
  BY LayerFacts
<1>3. ASSUME NEW l \in ToSet(Target) PROVE l \in mine
  <2>1. l \in Layers
    BY LayerFacts
  <2>2. CASE gen = 0
    BY <1>1, <2>1, <2>2 DEF OwnerInv
  <2>3. CASE gen # 0
    <3>1. owner[l] = <<"target", gen>>
      BY <2>3 DEF OwnerInv, Drives, Runs, Kinds
    <3>2. LayersOf(owner[l][1]) = AllLayers
      BY <3>1 DEF LayersOf
    <3> QED BY <1>1, <1>2, <2>1, <3>2
  <2> QED BY <2>2, <2>3
<1>4. ASSUME NEW l \in Layers \ mine PROVE l \in ToSet(Draft) /\ owner[l] = <<"draft", gen>>
  <2>1. l \in ToSet(Draft)
    BY <1>3, LayerFacts
  <2>2. gen # 0
    BY <1>1 DEF OwnerInv
  <2> QED BY <2>1, <2>2 DEF OwnerInv, Drives, Runs, Kinds
<1> QED BY <1>1, <1>3, <1>4

LEMMA DraftClaims ==
  ASSUME Types, StageInv, OwnerInv, stage = "half"
  PROVE  Claims("draft", gen) = ToSet(Draft)
<1>1. /\ Len(AllLayers) \in Nat /\ Len(Draft) \in Nat /\ Len(Draft) <= Len(AllLayers)
  BY BuffersOK DEF AllLayers
<1>2. ASSUME NEW l \in ToSet(Draft)
      PROVE  Len(Draft) <= Len(LayersOf(owner[l][1]))
  <2>1. owner[l] = <<"target", gen>> \/ owner[l] = <<"draft", gen - 1>>
    BY DEF OwnerInv
  <2> QED BY <1>1, <2>1 DEF LayersOf
<1>3. LayersOf("draft") = Draft
  BY DEF LayersOf
<1> QED BY <1>2, <1>3 DEF Claims

LEMMA BuildsTarget == ASSUME IInv, InitTarget PROVE IInv'
<1>1. PICK mine : mine = Claims("target", gen + 1)
  OBVIOUS
<1>2. PICK e : e = ResetHeap(heap, "target", mine)
  OBVIOUS
<1>3. /\ stage = "profiled" /\ gen \in 0 .. 1 /\ gen' = gen + 1 /\ gen' \in 1 .. 2 /\ gen' # 0
      /\ stage' = IF Draft = <<>> THEN "cache" ELSE "half"
      /\ warm' = [k \in Kinds |-> 0]
      /\ owner' = [l \in Layers |-> IF l \in mine THEN <<"target", gen'>> ELSE owner[l]]
      /\ claimed' = [claimed EXCEPT !["target"] = mine]
      /\ heap' = e /\ ref' = ResetRef(mine)
      /\ plan' = [plan EXCEPT !["target"] = NewPlan(@.id)]
      /\ UNCHANGED <<lookup, graphs, pending, queue>>
      /\ pending = <<>> /\ queue = <<>> /\ graphs = {}
  BY <1>1, <1>2 DEF InitTarget, NewBuilder, IInv, StageInv, InUse
<1>4. /\ mine \subseteq Layers /\ ToSet(Target) \subseteq mine
      /\ \A l \in Layers \ mine : l \in ToSet(Draft) /\ owner[l] = <<"draft", gen>>
  BY <1>1, <1>3, TargetClaims DEF IInv
<1>5. "target" \in Kinds /\ "draft" \in Keys \ {"target"}
  BY DEF Keys, Kinds
<1>6. /\ e \in HeapType /\ MapInv(e) /\ MirrorInv(e)
      /\ e.scratch = heap.scratch /\ e.warmed = heap.warmed
      /\ e.born["target"] = 0 /\ e.map["target"] = {}
      /\ e.born["draft"] = heap.born["draft"] /\ e.map["draft"] = heap.map["draft"]
      /\ \A l \in Layers : e.key[l] = IF l \in mine THEN "target" ELSE heap.key[l]
  <2>1. heap \in HeapType /\ MapInv(heap) /\ MirrorInv(heap)
    BY DEF IInv, Types, HeapInv
  <2> QED BY <1>2, <1>5, <2>1, ResetFacts
<1>7. /\ ref' \in [Layers -> 0 .. 2] /\ \A l \in mine : ref'[l] = 0
  BY <1>3, <1>4 DEF ResetRef, IInv, Types
<1>8. /\ plan' \in [Kinds -> [id : Nat, cap : Nat, age : 0 .. 2]]
      /\ \A k \in Kinds : plan'[k].cap \in {0, plan[k].cap}
  BY <1>3, <1>5 DEF NewPlan, IInv, Types
<1>9. Types'
  <2>1. owner' \in [Layers -> {<<>>} \cup (Kinds \X (0 .. 2))]
    BY <1>3, <1>5 DEF IInv, Types
  <2>2. claimed' \in [Kinds -> SUBSET Layers]
    BY <1>3, <1>4 DEF IInv, Types
  <2>3. warm' \in [Kinds -> 0 .. MaxBatch]
    BY <1>3, ConstantFacts
  <2> QED BY <1>3, <1>6, <1>7, <1>8, <2>1, <2>2, <2>3 DEF IInv, Types
<1>10. StageInv'
  BY <1>3, <1>4, <1>6, <1>7 DEF StageInv
<1>11. OwnerInv'
  <2>1. ASSUME NEW l \in ToSet(Target) PROVE Drives("target", l)'
    BY <1>3, <1>4, <1>5, <1>6, LayerFacts DEF Drives, IInv, Types
  <2>2. ASSUME NEW l \in ToSet(Draft)
        PROVE  owner'[l] = <<"target", gen'>> \/ owner'[l] = <<"draft", gen' - 1>>
    BY <1>3, <1>4, LayerFacts
  <2>3. ASSUME NEW l \in Layers, heap'.key[l] = "draft" PROVE l \in ToSet(Draft)
    BY <1>3, <1>6, <2>3 DEF IInv, OwnerInv
  <2>4. stage' # "half" => ToSet(Draft) = {}
    BY <1>3 DEF ToSet
  <2> QED BY <1>3, <2>1, <2>2, <2>3, <2>4 DEF OwnerInv, Kinds, Runs
<1>12. HeapInv'
  <2>1. Profiled(e)
    BY <1>3, <1>6 DEF IInv, HeapInv, Profiled
  <2>2. Draft = <<>> => e.born["draft"] = 0
    BY <1>6 DEF IInv, HeapInv
  <2> QED BY <1>3, <1>6, <2>1, <2>2, HeapNext DEF IInv
<1>13. UseInv'
  <2> SUFFICES ASSUME InUse' PROVE UseInv'
    BY DEF UseInv
  <2>1. Draft = <<>> /\ Layers = ToSet(Target)
    BY <1>3, LayerFacts DEF InUse, ToSet
  <2>2. \A k \in Kinds : e.born[k] = 0 /\ e.map[k] = {}
    BY <1>6, <2>1 DEF IInv, HeapInv, MapInv, Keys, Kinds
  <2>3. \A l \in Layers : ref'[l] = 0
    BY <1>4, <1>7, <2>1
  <2> QED BY <1>3, <2>2, <2>3 DEF UseInv
<1>14. QueueInv'
  BY <1>3, <1>8 DEF IInv, QueueInv
<1> QED BY <1>9, <1>10, <1>11, <1>12, <1>13, <1>14 DEF IInv

LEMMA BuildsDraft == ASSUME IInv, InitDraft PROVE IInv'
<1>1. PICK mine : mine = ToSet(Draft)
  OBVIOUS
<1>2. PICK e : e = ResetHeap(heap, "draft", mine)
  OBVIOUS
<1>3. /\ stage = "half" /\ stage' = "cache" /\ gen \in 1 .. 2 /\ Draft # <<>> /\ InUse'
      /\ \A k \in Kinds : warm[k] = 0
      /\ heap.born["target"] = 0 /\ \A l \in ToSet(Target) : ref[l] = 0
      /\ pending = <<>> /\ queue = <<>> /\ graphs = {}
  BY DEF InitDraft, IInv, StageInv, InUse
<1>4. /\ owner' = [l \in Layers |-> IF l \in mine THEN <<"draft", gen>> ELSE owner[l]]
      /\ claimed' = [claimed EXCEPT !["draft"] = mine]
      /\ heap' = e /\ ref' = ResetRef(mine)
      /\ plan' = [plan EXCEPT !["draft"] = NewPlan(@.id)]
      /\ UNCHANGED <<lookup, graphs, pending, queue, gen, warm>>
  <2>1. Claims("draft", gen) = mine
    BY <1>1, <1>3, DraftClaims DEF IInv
  <2> QED BY <1>2, <2>1 DEF InitDraft, NewBuilder
<1>5. mine \subseteq Layers /\ mine \cap ToSet(Target) = {} /\ Layers = mine \cup ToSet(Target)
  BY <1>1, LayerFacts
<1>6. "draft" \in Kinds /\ "target" \in Keys \ {"draft"}
  BY DEF Keys, Kinds
<1>7. /\ e \in HeapType /\ MapInv(e) /\ MirrorInv(e)
      /\ e.scratch = heap.scratch /\ e.warmed = heap.warmed
      /\ e.born["draft"] = 0 /\ e.map["draft"] = {} /\ e.born["target"] = 0
      /\ \A l \in Layers : e.key[l] = IF l \in mine THEN "draft" ELSE heap.key[l]
  <2>1. heap \in HeapType /\ MapInv(heap) /\ MirrorInv(heap)
    BY DEF IInv, Types, HeapInv
  <2> QED BY <1>2, <1>3, <1>6, <2>1, ResetFacts
<1>8. ref' \in [Layers -> 0 .. 2] /\ \A l \in Layers : ref'[l] = 0
  BY <1>3, <1>4, <1>5 DEF ResetRef, IInv, Types
<1>9. /\ plan' \in [Kinds -> [id : Nat, cap : Nat, age : 0 .. 2]]
      /\ \A k \in Kinds : plan'[k].cap \in {0, plan[k].cap}
  BY <1>4, <1>6 DEF NewPlan, IInv, Types
<1>10. Types'
  <2>1. owner' \in [Layers -> {<<>>} \cup (Kinds \X (0 .. 2))]
    BY <1>3, <1>4, <1>6 DEF IInv, Types
  <2>2. claimed' \in [Kinds -> SUBSET Layers]
    BY <1>4, <1>5 DEF IInv, Types
  <2> QED BY <1>3, <1>4, <1>7, <1>8, <1>9, <2>1, <2>2 DEF IInv, Types
<1>11. StageInv'
  BY <1>3, <1>4 DEF StageInv, InUse
<1>12. OwnerInv'
  <2>1. ASSUME NEW l \in ToSet(Target) PROVE Drives("target", l)'
    <3>1. Drives("target", l) /\ l \in Layers \ mine
      BY <1>3, <1>5 DEF IInv, OwnerInv
    <3> QED BY <1>4, <1>6, <1>7, <3>1 DEF Drives, Keys, Kinds, IInv, Types
  <2>2. ASSUME NEW l \in ToSet(Draft) PROVE Drives("draft", l)'
    BY <1>1, <1>4, <1>5, <1>6, <1>7 DEF Drives, IInv, Types
  <2>3. ASSUME NEW l \in Layers, heap'.key[l] = "draft" PROVE l \in ToSet(Draft)
    BY <1>1, <1>4, <1>7, <2>3 DEF IInv, OwnerInv
  <2> QED BY <1>3, <1>4, <2>1, <2>2, <2>3 DEF OwnerInv, Kinds, Runs
<1>13. HeapInv'
  <2>1. Profiled(e)
    BY <1>3, <1>7 DEF IInv, HeapInv, Profiled
  <2> QED BY <1>3, <1>4, <1>7, <2>1, HeapNext DEF IInv
<1>14. UseInv'
  <2>1. \A k \in Kinds : e.born[k] = 0 /\ e.map[k] = {}
    BY <1>7 DEF MapInv, Keys, Kinds
  <2> QED BY <1>3, <1>4, <1>8, <2>1 DEF UseInv
<1>15. QueueInv'
  BY <1>3, <1>4, <1>9 DEF IInv, QueueInv
<1> QED BY <1>10, <1>11, <1>12, <1>13, <1>14, <1>15 DEF IInv

-----------------------------------------------------------------------------
(* The theorems.                                                           *)

\* The blocks of a dummy step are among the blocks of the cache.
LEMMA StepIsBuild ==
  ASSUME IInv, InUse, Step
  PROVE  \E k \in Kinds, rows \in 1 .. MaxBatch :
           \E blocks \in SUBSET (0 .. NumBlocks[gen] - 1) :
             \E kept : blocks # {} /\ Build(k, rows, blocks, kept)
<1>1. gen \in 1 .. 2 /\ NumBlocks[gen] \in Nat \ {0}
  BY ConstantFacts DEF IInv, StageInv, InUse
<1>2. {0} \subseteq 0 .. NumBlocks[gen] - 1
  BY <1>1
<1> QED BY <1>2 DEF Step

LEMMA Steps == ASSUME IInv, [Next]_vars PROVE IInv'
<1>1. CASE ProfileRun
  BY <1>1, Profiles
<1>2. CASE InitTarget
  BY <1>2, BuildsTarget
<1>3. CASE InitDraft
  BY <1>3, BuildsDraft
<1>4. CASE Cleanup
  BY <1>4, Cleans
<1>5. CASE StartServing
  BY <1>5, StartsServing
<1>6. CASE stage \in {"cache", "serve"} /\ Step
  <2>1. InUse
    BY <1>6 DEF InUse
  <2> QED BY <1>6, <2>1, StepIsBuild, Builds
<1>7. CASE Eager
  BY <1>7, Forwards
<1>8. CASE Capture
  BY <1>8, Captures
<1>9. CASE Replay
  BY <1>9, Replays
<1>10. CASE Gpu
  BY <1>10, Executes
<1>11. CASE UNCHANGED vars
  BY <1>11, Stutters
<1> QED BY <1>1, <1>2, <1>3, <1>4, <1>5, <1>6, <1>7, <1>8, <1>9, <1>10, <1>11 DEF Next

LEMMA Invariant == Spec => []IInv
<1>1. Init => IInv
  BY Initially
<1>2. IInv /\ [Next]_vars => IInv'
  BY Steps
<1> QED BY <1>1, <1>2, PTL DEF Spec

\* The allocator, its mirror, the references and the plans are well formed in
\* every state from model load to serving.
THEOREM TypesHold == Spec => []Types
<1>1. IInv => Types
  BY DEF IInv
<1> QED BY <1>1, Invariant, PTL

\* The builder of the pass that runs a layer owns it alone, whichever of the two
\* caches is in use: the claims of __init__ leave no layer to two builders.
THEOREM OneDriverHolds == Spec => []OneDriver
<1>1. IInv => OneDriver
  BY Drivers DEF IInv
<1> QED BY <1>1, Invariant, PTL

\* The GPU's copy of a slot map is the slot map, over every growth of the mirror,
\* every reset and every build.
THEOREM MirrorAgreesHolds == Spec => []MirrorAgrees
<1>1. IInv => MirrorAgrees
  BY DEF IInv, HeapInv, MirrorInv, MirrorAgrees, Keys
<1> QED BY <1>1, Invariant, PTL

\* No slot entry and no cache reference outlives the cache it was made for.
THEOREM NothingStaleHolds == Spec => []NothingStale
<1>1. IInv => NothingStale
  BY DEF IInv, UseInv, NothingStale
<1> QED BY <1>1, Invariant, PTL

\* No address baked into a captured graph is freed or replaced while the graph
\* may be replayed.
THEOREM GraphsReadLiveHolds == Spec => []GraphsReadLive
<1>1. ASSUME IInv, NEW g \in graphs, NEW l \in DOMAIN g.ptr
      PROVE  /\ g.plan = plan[g.kind].id /\ g.ptr[l].mirror = heap.mirror[g.kind].id
             /\ g.ptr[l].scratch = heap.ptr[l].scratch /\ g.ptr[l].rows >= Rows[l]
  <2>1. InUse /\ stage # "load"
    BY <1>1 DEF IInv, StageInv, InUse
  <2>2. GraphOK(g)
    BY <1>1, <2>1 DEF IInv, UseInv
  <2>3. Settled(heap, g.kind) /\ g.kind \in Kinds
    BY <1>1, <2>1, <2>2 DEF IInv, UseInv, GraphOK
  <2>4. l \in ToSet(Runs(g.kind)) /\ l \in Layers
    BY <2>2, <2>3, KindFacts DEF GraphOK
  <2>5. heap.scratch.rows >= Rows[l]
    BY <1>1, <2>1, <2>4 DEF IInv, HeapInv, Profiled
  <2>6. g.ptr[l] = heap.ptr[l]
    BY <2>2 DEF GraphOK
  <2>7. heap.ptr[l] = [mirror |-> heap.mirror[g.kind].id, scratch |-> heap.scratch.id,
                       rows |-> heap.scratch.rows]
    BY <2>3, <2>4 DEF Settled
  <2> QED BY <2>2, <2>5, <2>6, <2>7 DEF GraphOK
<1>2. ASSUME IInv, NEW g \in graphs PROVE g.plan = plan[g.kind].id
  BY <1>2 DEF IInv, StageInv, UseInv, GraphOK
<1>3. IInv => GraphsReadLive
  BY <1>1, <1>2 DEF GraphsReadLive
<1> QED BY <1>3, Invariant, PTL

\* What the GPU runs reads the plan built for it: when its turn comes, the copy
\* of that plan is done, and no later build has filled the buffers.
THEOREM OwnPlanHolds == Spec => OwnPlan
<1>1. ASSUME IInv, queue # <<>>, Head(queue).op = "run"
      PROVE  /\ Head(queue).plan = plan[Head(queue).kind].id
             /\ Head(queue).age = plan[Head(queue).kind].age
  <2>1. PICK k \in Kinds : \/ queue = <<CopyOf(k)>>
                           \/ queue = <<CopyOf(k), RunOf(k)>>
                           \/ queue = <<RunOf(k)>> /\ plan[k].age = 0
    BY <1>1 DEF IInv, QueueInv
  <2>2. queue = <<RunOf(k)>> /\ plan[k].age = 0
    BY <1>1, <2>1 DEF CopyOf
  <2>3. Head(queue) = RunOf(k)
    BY <2>2
  <2> QED BY <2>2, <2>3 DEF RunOf, RunItem
<1> DEFINE Done == queue # <<>> /\ queue' = Tail(queue) /\ Head(queue).op = "run" =>
                     /\ Head(queue).plan = plan[Head(queue).kind].id
                     /\ Head(queue).age = plan[Head(queue).kind].age
<1>2. IInv /\ [Next]_vars => [Done]_vars
  BY <1>1
<1> HIDE DEF Done
<1>3. [][Done]_vars => OwnPlan
  BY DEF OwnPlan, Done
<1> QED BY <1>2, <1>3, Invariant, PTL DEF Spec

\* With a bound derived for the lookup, the profiling pass has compiled every
\* decode kernel: no later build, forward or reset asks for another size.
THEOREM NothingCompiledLateHolds == Spec => NothingCompiledLate
<1> DEFINE Compiled == stage # "load" /\ lookup > 0 => heap'.warmed = heap.warmed
<1>1. ASSUME IInv, [Next]_vars, stage # "load", lookup > 0 PROVE heap'.warmed = heap.warmed
  <2>1. CASE InitTarget
    <3>1. heap' = ResetHeap(heap, "target", Claims("target", gen + 1))
      BY <2>1 DEF InitTarget, NewBuilder
    <3> QED BY <1>1, <3>1 DEF ResetHeap, IInv, Types, HeapType
  <2>2. CASE InitDraft
    <3>1. heap' = ResetHeap(heap, "draft", Claims("draft", gen))
      BY <2>2 DEF InitDraft, NewBuilder
    <3> QED BY <1>1, <3>1 DEF ResetHeap, IInv, Types, HeapType
  <2>3. CASE stage \in {"cache", "serve"} /\ Step
    <3>1. InUse
      BY <2>3 DEF InUse
    <3> QED BY <1>1, <2>3, <3>1, StepIsBuild, Builds
  <2>4. CASE Eager
    <3>1. PICK k \in Kinds : k = pending.kind
      BY <1>1, <2>4 DEF Eager, IInv, Types
    <3>2. heap' = EnsureAll(heap, Runs(k), NumBlocks[gen])
      BY <2>4, <3>1 DEF Eager, ForwardHint
    <3>3. InUse
      BY <1>1, <2>4 DEF Eager, IInv, StageInv
    <3>4. \A e : e = EnsureAll(heap, Runs(k), NumBlocks[gen]) => e.warmed = heap.warmed
      BY <1>1, <3>3, ForwardHeap DEF IInv
    <3> QED BY <3>2, <3>4
  <2>5. CASE UNCHANGED heap
    BY <2>5
  <2> QED BY <1>1, <2>1, <2>2, <2>3, <2>4, <2>5
          DEF Next, vars, ProfileRun, Cleanup, StartServing, Capture, Replay, Gpu
<1>2. IInv /\ [Next]_vars => [Compiled]_vars
  BY <1>1
<1> HIDE DEF Compiled
<1>3. [][Compiled]_vars => NothingCompiledLate
  BY DEF NothingCompiledLate, Compiled
<1> QED BY <1>2, <1>3, Invariant, PTL DEF Spec

\* A build that takes slots away finds the cache of every layer of its pass set,
\* and of this generation: each of them was written before its slot went.
THEOREM FlushReachesAllHolds == Spec => FlushReachesAll
<1> DEFINE Flushed == \A k \in Kinds :
             pending = <<>> /\ pending' # <<>> /\ ~(heap.map[k] \subseteq heap'.map[k])
               => \A l \in ToSet(Runs(k)) : ref[l] = gen
<1>1. ASSUME IInv, [Next]_vars, NEW k \in Kinds, pending = <<>>, pending' # <<>>,
             ~(heap.map[k] \subseteq heap'.map[k])
      PROVE  \A l \in ToSet(Runs(k)) : ref[l] = gen
  <2>1. stage \in {"cache", "serve"}
    BY <1>1 DEF Next, vars, ProfileRun, InitTarget, InitDraft, NewBuilder, Cleanup,
                StartServing, Eager, Capture, Replay, Gpu
  <2>2. heap.map[k] # {}
    BY <1>1
  <2> QED BY <1>1, <2>1, <2>2 DEF IInv, UseInv, InUse, Waiting, RefsSet
<1>2. IInv /\ [Next]_vars => [Flushed]_vars
  BY <1>1
<1> HIDE DEF Flushed
<1>3. [][Flushed]_vars => FlushReachesAll
  BY DEF FlushReachesAll, Flushed
<1> QED BY <1>2, <1>3, Invariant, PTL DEF Spec

=============================================================================
