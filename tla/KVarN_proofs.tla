--------------------------- MODULE KVarN_proofs ---------------------------
(***************************************************************************)
(* Proofs about the KVarN slot pool and the data it guards, for every      *)
(* number of requests, pages, slots, kernel blocks per page and tokens per *)
(* block: first under the steps of KVarN alone, then, from the same        *)
(* invariants, with the drafter's passes of KVarNDraft between them.       *)
(***************************************************************************)
EXTENDS KVarNDraft, FiniteSetTheorems, TLAPS

(* Arithmetic of blocks and pages. *)

LEMMA DivBound ==
  ASSUME NEW a \in Nat, NEW b \in Nat \ {0}, NEW c \in Nat, a < c * b
  PROVE  a \div b \in Nat /\ a \div b < c
<1> DEFINE d == a \div b
<1>1. d \in Nat /\ d * b <= a
  BY Z3
<1>2. SUFFICES ASSUME d >= c PROVE FALSE
  BY <1>1
<1>3. d * b >= c * b
  BY <1>1, <1>2, Z3
<1> QED BY <1>1, <1>3

LEMMA PagesForBound ==
  ASSUME NEW x \in Nat
  PROVE  PagesFor(x) \in Nat /\ x <= PagesFor(x) * PageTok
<1>1. PageTok \in Nat \ {0}
  BY ConstantsOK DEF PageTok
<1> QED BY <1>1, Z3 DEF PagesFor

-----------------------------------------------------------------------------
(* What the pool invariants rest on: the rows of the block table.          *)

Types ==
  /\ row \in [Req -> Seq(Pages)]
  /\ computed \in [Req -> Nat] /\ q \in [Req -> Nat] /\ acc \in [Req -> Nat]
  /\ resident \subseteq Blocks
  /\ foreign \subseteq Pages /\ recycled \subseteq Pages

\* A request's pages are never held by another group, and cover its step.
RowsLocal == \A r \in Req : PagesOf(r) \cap foreign = {}
RowsCover == \A r \in Req :
  q[r] > 0 => computed[r] + q[r] <= Len(row[r]) * PageTok

RowInv == Types /\ RowsLocal /\ RowsCover

\* Every block a request writes or has computed is on one of its own pages.
LEMMA BlkInRow ==
  ASSUME RowInv, NEW r \in Batch, NEW k \in 0 .. High(r)
  PROVE  /\ Blk(r, k) \in Blocks
         /\ PageOf(Blk(r, k)) \in PagesOf(r)
         /\ PageOf(Blk(r, k)) \notin foreign
<1> USE DEF RowInv, Types, Batch
<1>1. G \in Nat \ {0} /\ PerPage \in Nat \ {0} /\ PageTok = PerPage * G
  BY ConstantsOK DEF PageTok
<1> DEFINE x == computed[r] + q[r]
           n == Len(row[r])
<1>2. x \in Nat \ {0} /\ n \in Nat /\ x <= n * PageTok
  BY DEF RowsCover
<1>3. x - 1 < (n * PerPage) * G /\ n * PerPage \in Nat /\ x - 1 \in Nat
  BY <1>1, <1>2, Z3
<1>4. High(r) \in Nat /\ High(r) < n * PerPage
  <2>1. (x - 1) \div G \in Nat /\ (x - 1) \div G < n * PerPage
    BY <1>1, <1>3, DivBound
  <2> QED BY <2>1 DEF High
<1>5. k \in Nat /\ k < n * PerPage
  BY <1>3, <1>4
<1>6. k \div PerPage \in Nat /\ k \div PerPage < n
  BY <1>1, <1>2, <1>5, DivBound
<1>7. k \div PerPage + 1 \in DOMAIN row[r]
  BY <1>2, <1>6
<1>8. row[r][k \div PerPage + 1] \in Pages \cap PagesOf(r)
  BY <1>7 DEF PagesOf
<1>9. k % PerPage \in 0 .. PerPage - 1
  BY <1>1, <1>5
<1> QED BY <1>8, <1>9 DEF Blk, Blocks, PageOf, RowsLocal

LEMMA NeededInRows ==
  ASSUME RowInv
  PROVE  \A b \in Needed : b \in Blocks /\ PageOf(b) \notin foreign
<1>1. \A r \in Batch : Low(r) \in Nat /\ High(r) \in Nat
  <2> SUFFICES ASSUME NEW r \in Batch PROVE Low(r) \in Nat /\ High(r) \in Nat
    OBVIOUS
  <2>1. /\ computed[r] \in Nat /\ q[r] \in Nat \ {0} /\ G \in Nat \ {0}
        /\ computed[r] + q[r] - 1 \in Nat
    BY ConstantsOK DEF RowInv, Types, Batch
  <2>2. computed[r] \div G \in Nat /\ (computed[r] + q[r] - 1) \div G \in Nat
    BY <2>1
  <2> QED BY <2>2 DEF Low, High
<1>2. \A b \in Written : b \in Blocks /\ PageOf(b) \notin foreign
  BY <1>1, BlkInRow DEF Written, Writes
<1>3. \A b \in FirstBlocks : b \in Blocks /\ PageOf(b) \notin foreign
  BY <1>1, BlkInRow DEF FirstBlocks
<1> QED BY <1>2, <1>3 DEF Needed

\* The blocks that keep their slots are those neither flushed nor discarded.
LEMMA StayingKept == Staying = Kept \ (Flushed \cup Discarded)
  BY DEF Staying, Flushed, Discarded, Retiring, Complete, Unneeded

\* What the allocator keeps, flushes and discards was resident.
LEMMA Parts ==
  /\ Staying \subseteq Kept /\ Kept \subseteq resident
  /\ Flushed \subseteq Kept /\ Discarded \subseteq Kept
  /\ Flushed \cap Discarded = {} /\ Dropped \cap Kept = {}
  /\ resident = Staying \cup (Dropped \cup Flushed \cup Discarded)
  /\ Staying \cap (Dropped \cup Flushed \cup Discarded) = {}
  /\ Dropped \subseteq resident
<1>1. Walked \subseteq Kept /\ Walked \cap MarkedSinks = {}
  <2> SUFFICES ASSUME NEW r \in Batch, NEW b \in Walk(r)
               PROVE  b \in Kept \ MarkedSinks
    BY DEF Walked
  <2>1. PICK k \in 1 .. Low(r) - 1 : b = Blk(r, k)
               /\ \A j \in k .. Low(r) - 1 : Blk(r, j) \in Kept \ MarkedSinks
    BY DEF Walk
  <2>2. k \in k .. Low(r) - 1
    BY <2>1
  <2> QED BY <2>1, <2>2
<1> QED
  BY <1>1, StayingKept DEF Kept, Dropped, Flushed, Discarded, Complete, Unneeded

-----------------------------------------------------------------------------
(* The pages of another group.                                             *)

\* Once a page is foreign, whatever slot the builder still holds for it is
\* announced: the next build will hear of it before it flushes anything.
Announced == \A b \in resident : PageOf(b) \in foreign => PageOf(b) \in recycled

PageInv == RowInv /\ (phase # "exhausted" => Announced) /\ ForeignPagesIntact

\* Granting pages of its own group to a request keeps the rows in order.
LEMMA GrantRows ==
  ASSUME RowInv, NEW r \in Req,
         NEW base \in Seq(Pages), \A i \in DOMAIN base : base[i] \notin foreign,
         NEW m \in Nat, NEW new \in [1 .. m -> FreePages],
         NEW start \in Nat, NEW n \in Nat \ {0}, NEW d \in Nat, NEW a \in Nat,
         Grant(r, base, start, n, d, a, new)
  PROVE  RowInv'
<1> DEFINE pages == base \o new
<1>1. new \in Seq(Pages) /\ \A i \in DOMAIN new : new[i] \notin foreign
  BY DEF FreePages
<1>2. pages \in Seq(Pages) /\ \A i \in DOMAIN pages : pages[i] \notin foreign
  BY <1>1
<1>3. /\ row' = [row EXCEPT ![r] = pages] /\ computed' = [computed EXCEPT ![r] = start]
      /\ q' = [q EXCEPT ![r] = n + d] /\ acc' = [acc EXCEPT ![r] = a]
      /\ foreign' = foreign /\ resident' = resident /\ recycled' = recycled
      /\ Len(pages) = PagesFor(start + n + d + Lookahead)
  BY DEF Grant, allocVars
<1> HIDE DEF pages
<1>4. Types'
  BY <1>2, <1>3, SMTT(30) DEF RowInv, Types
<1>5. RowsLocal'
  BY <1>2, <1>3 DEF RowInv, Types, RowsLocal, PagesOf
<1>6. RowsCover'
  <2>1. start + n + d <= Len(pages) * PageTok
    <3> DEFINE x == start + n + d + Lookahead
    <3>1. x \in Nat /\ start + n + d \in Nat /\ start + n + d <= x
      BY ConstantsOK
    <3> HIDE DEF x
    <3>2. x <= PagesFor(x) * PageTok /\ PagesFor(x) \in Nat
      BY <3>1, PagesForBound
    <3>3. PagesFor(x) * PageTok \in Nat
      <4>1. PageTok \in Nat \ {0}
        BY ConstantsOK DEF PageTok
      <4> QED BY <3>2, <4>1
    <3>4. Len(pages) = PagesFor(x)
      BY <1>3 DEF x
    <3> QED BY <3>1, <3>2, <3>3, <3>4
  <2>2. start + n + d = start + (n + d)
    OBVIOUS
  <2> SUFFICES ASSUME NEW s \in Req, q'[s] > 0
               PROVE computed'[s] + q'[s] <= Len(row'[s]) * PageTok
    BY DEF RowsCover, PageTok
  <2>3. CASE s = r
    BY <2>1, <2>2, <2>3, <1>3 DEF RowInv, Types
  <2>4. CASE s # r
    BY <2>4, <1>3 DEF RowInv, Types, RowsCover
  <2> QED BY <2>3, <2>4
<1> QED BY <1>4, <1>5, <1>6 DEF RowInv

\* Neither what stays resident nor what is flushed lies on a foreign page.
LEMMA KeptIsOurs ==
  ASSUME RowInv, Announced
  PROVE  \A b \in Kept : PageOf(b) \notin foreign
<1> SUFFICES ASSUME NEW b \in Kept, PageOf(b) \in foreign PROVE FALSE
  OBVIOUS
<1>1. b \in resident /\ b \notin Dropped
  BY DEF Kept
<1>2. b \in Written
  BY <1>1 DEF Announced, Dropped
<1> QED BY <1>2, NeededInRows DEF Needed

LEMMA PageInvInductive == PageInv /\ [Next]_vars => PageInv'
<1> SUFFICES ASSUME PageInv, [Next]_vars PROVE PageInv'
  OBVIOUS
<1> USE DEF PageInv, ForeignPagesIntact
<1>1. ASSUME NEW r \in Req, Admit(r) PROVE PageInv'
  <2>1. PICK h \in 0 .. MaxPages - 1 :
          \E hit \in {s \in [1 .. h -> Pages \ (foreign \cup BeingWritten)] :
                        \A k \in 1 .. h : hash[s[k]] = k} :
            \E n \in 1 .. MaxChunk, m \in 0 .. MaxPages :
              \E new \in NewPages(m) : Grant(r, hit, h * PageTok, n, 0, n, new)
    BY <1>1 DEF Admit
  <2>2. PICK hit \in [1 .. h -> Pages \ (foreign \cup BeingWritten)],
             n \in 1 .. MaxChunk, m \in 0 .. MaxPages :
          \E new \in NewPages(m) : Grant(r, hit, h * PageTok, n, 0, n, new)
    BY <2>1
  <2>3. PICK new \in NewPages(m) : Grant(r, hit, h * PageTok, n, 0, n, new)
    BY <2>2
  <2>4. /\ hit \in Seq(Pages) /\ \A i \in DOMAIN hit : hit[i] \notin foreign
        /\ new \in [1 .. m -> FreePages] /\ n \in Nat \ {0} /\ m \in Nat
    BY ConstantsOK DEF NewPages
  <2>5. h * PageTok \in Nat
    BY ConstantsOK DEF PageTok
  <2>6. RowInv'
    BY <2>3, <2>4, <2>5, GrantRows
  <2> QED BY <2>3, <2>6 DEF Grant, allocVars, Announced
<1>2. ASSUME NEW r \in Req, Schedule(r) PROVE PageInv'
  <2>1. PICK n \in 1 .. MaxChunk, d \in 0 .. MaxDraft, m \in 0 .. MaxPages :
          \E a \in n .. n + d, new \in NewPages(m) :
            Grant(r, row[r], computed[r], n, d, a, new)
    BY <1>2 DEF Schedule
  <2>2. PICK a \in n .. n + d, new \in NewPages(m) :
          Grant(r, row[r], computed[r], n, d, a, new)
    BY <2>1
  <2>3. /\ row[r] \in Seq(Pages) /\ \A i \in DOMAIN row[r] : row[r][i] \notin foreign
        /\ new \in [1 .. m -> FreePages] /\ computed[r] \in Nat
        /\ n \in Nat \ {0} /\ d \in Nat /\ a \in Nat /\ m \in Nat
    BY ConstantsOK DEF NewPages, RowInv, Types, RowsLocal, PagesOf
  <2>4. RowInv'
    BY <2>2, <2>3, GrantRows
  <2> QED BY <2>2, <2>4 DEF Grant, allocVars, Announced
<1>3. ASSUME NEW r \in Req, Leave(r) PROVE PageInv'
  <2>1. RowInv'
    BY <1>3 DEF Leave, RowInv, Types, RowsLocal, RowsCover, PagesOf, allocVars, PageTok
  <2> QED BY <2>1, <1>3 DEF Leave, allocVars, Announced
<1>4. ASSUME NEW p \in Pages, ForeignAlloc(p) PROVE PageInv'
  <2>1. \A r \in Req : p \notin PagesOf(r)
    BY <1>4 DEF ForeignAlloc, FreePages
  <2>2. RowInv'
    BY <2>1, <1>4
    DEF ForeignAlloc, RowInv, Types, RowsLocal, RowsCover, PagesOf, allocVars, PageTok
  <2> QED BY <2>2, <1>4 DEF ForeignAlloc, allocVars, Announced
<1>5. ASSUME NEW p \in Pages, ForeignFree(p) PROVE PageInv'
  <2>1. RowInv'
    BY <1>5
    DEF ForeignFree, RowInv, Types, RowsLocal, RowsCover, PagesOf, allocVars, PageTok
  <2> QED BY <2>1, <1>5 DEF ForeignFree, allocVars, dataVars, Announced
<1>6. ASSUME Build PROVE PageInv'
  <2>1. Announced /\ phase = "schedule"
    BY <1>6 DEF Build
  <2>2. \A b \in Kept : PageOf(b) \notin foreign
    BY <2>1, KeptIsOurs
  <2>3. /\ row' = row /\ computed' = computed /\ q' = q /\ acc' = acc
        /\ foreign' = foreign /\ recycled' = {}
    BY <1>6 DEF Build, envVars
  <2>4. ASSUME NEW evicted \in Evictions(Short, Spare), Allocate(evicted, Short)
        PROVE  PageInv'
    <3>1. /\ resident' = (Staying \ evicted) \cup Wanting
          /\ clobbered' = clobbered
               \cup ({PageOf(b) : b \in Flushed \cup evicted} \cap foreign)
      BY <2>4 DEF Allocate, Tiles
    <3>2. evicted \subseteq Kept /\ Staying \subseteq Kept /\ Flushed \subseteq Kept
      BY <2>4, Parts DEF Evictions, Spare
    <3>3. clobbered' = {}
      BY <2>2, <3>1, <3>2
    <3>4. \A b \in resident' : b \in Blocks /\ PageOf(b) \notin foreign
      BY <2>2, <3>1, <3>2, NeededInRows, Parts DEF Wanting, RowInv, Types
    <3>5. RowInv'
      BY <2>3, <3>4 DEF RowInv, Types, RowsLocal, RowsCover, PagesOf, PageTok
    <3> QED BY <2>3, <3>3, <3>4, <3>5 DEF Announced
  <2>5. CASE phase' = "exhausted" /\ UNCHANGED <<allocVars, dataVars>>
    <3>1. RowInv'
      BY <2>3, <2>5
      DEF RowInv, Types, RowsLocal, RowsCover, PagesOf, allocVars, PageTok
    <3> QED BY <3>1, <2>5 DEF dataVars
  <2> QED BY <1>6, <2>4, <2>5 DEF Build
<1>7. CASE Forward
  <2>1. RowInv'
    BY <1>7 DEF Forward, RowInv, Types, RowsLocal, RowsCover, PagesOf, allocVars, PageTok
  <2> QED BY <2>1, <1>7 DEF Forward, allocVars, Announced
<1>8. CASE UNCHANGED vars
  BY <1>8 DEF vars, envVars, allocVars, dataVars, RowInv, Types, RowsLocal, RowsCover,
              PagesOf, PageTok, Announced
<1> QED BY <1>1, <1>2, <1>3, <1>4, <1>5, <1>6, <1>7, <1>8 DEF Next

\* The builder never writes an int4 tile over a page another KV-cache group
\* holds, whatever order the scheduler hands pages over in (issue #208):
\* _drop_recycled_pages hears of every such page before the flush of build.
THEOREM ForeignPagesSafe == Spec => []ForeignPagesIntact
<1>1. Init => PageInv
  BY DEF Init, PageInv, RowInv, Types, RowsLocal, RowsCover, PagesOf, Announced,
         ForeignPagesIntact
<1>2. PageInv => ForeignPagesIntact
  BY DEF PageInv
<1> QED BY <1>1, <1>2, PageInvInductive, PTL DEF Spec

-----------------------------------------------------------------------------
(* Retired sinks.                                                          *)

\* A retired sink is whole, so a build that does not need it finds it complete
\* again and keeps it.
RetiredInv == RetiredAreResidentSinks /\ \A b \in retired : fill[b] >= G

LEMMA RetiredInvInductive == RowInv /\ RetiredInv /\ [Next]_vars => RetiredInv'
<1> SUFFICES ASSUME RowInv, RetiredInv, [Next]_vars PROVE RetiredInv'
  OBVIOUS
<1>1. ASSUME UNCHANGED allocVars PROVE RetiredInv'
  BY <1>1 DEF allocVars, RetiredInv, RetiredAreResidentSinks
<1>2. ASSUME NEW evicted \in Evictions(Short, Spare), Allocate(evicted, Short)
      PROVE  RetiredInv'
  <2>1. ASSUME NEW b \in LiveRetired
        PROVE  b \in Kept /\ b \in MarkedSinks /\ b \notin Needed /\ FillNow(b) >= G
    <3>1. /\ b \in retired /\ b \notin Dropped /\ b \notin Needed
          /\ b \in resident /\ b \in sinks /\ fill[b] >= G
      BY DEF LiveRetired, OldRetired, RetiredInv, RetiredAreResidentSinks
    <3>2. FillNow(b) = fill[b]
      BY <3>1 DEF FillNow, Needed
    <3> QED BY <3>1, <3>2 DEF Kept, MarkedSinks, OldSinks, Shed
  <2>2. ASSUME NEW b \in AllRetired
        PROVE  /\ b \in Kept /\ b \in MarkedSinks /\ FillNow(b) >= G
               /\ b \notin Flushed \cup Discarded
    <3>1. b \in Kept /\ b \in MarkedSinks /\ FillNow(b) >= G /\ b \notin Needed
      BY <2>1 DEF AllRetired, Retiring, Complete, Unneeded
    <3>2. b \notin Walked
      BY <3>1 DEF Walked, Walk
    <3> QED BY <3>1, <3>2 DEF Flushed, Discarded, Complete, Unneeded
  <2>3. ASSUME NEW b \in retired'
        PROVE  b \in resident' /\ b \in sinks' /\ fill'[b] >= G
    <3>1. b \in AllRetired /\ b \notin evicted
      BY <1>2 DEF Allocate
    <3>2. b \in Staying /\ b \notin Dropped \cup Flushed \cup Discarded \cup evicted
      BY <2>2, <3>1, StayingKept DEF Kept
    <3>3. b \in Blocks
      BY <3>2, StayingKept DEF Kept, RowInv, Types
    <3> QED BY <1>2, <2>2, <3>1, <3>2, <3>3 DEF Allocate
  <2> QED BY <2>3 DEF RetiredInv, RetiredAreResidentSinks
<1>3. CASE Build
  BY <1>1, <1>2, <1>3 DEF Build
<1>4. CASE ~ Build
  <2>1. UNCHANGED allocVars
    BY <1>4 DEF Next, Admit, Schedule, Grant, Leave, ForeignAlloc, ForeignFree, Forward,
                vars
  <2> QED BY <1>1, <2>1
<1> QED BY <1>3, <1>4

\* A retired sink is a resident sink: the eviction of build, which trusts
\* _retired_sinks, always yields a slot and never a block already gone.
THEOREM RetiredSinksResident == Spec => []RetiredAreResidentSinks
<1>1. Init => PageInv /\ RetiredInv
  BY DEF Init, PageInv, RowInv, Types, RowsLocal, RowsCover, PagesOf, Announced,
         ForeignPagesIntact, RetiredInv, RetiredAreResidentSinks
<1>2. PageInv /\ RetiredInv /\ [Next]_vars => PageInv' /\ RetiredInv'
  BY PageInvInductive, RetiredInvInductive DEF PageInv
<1>3. RetiredInv => RetiredAreResidentSinks
  BY DEF RetiredInv
<1> QED BY <1>1, <1>2, <1>3, PTL DEF Spec

-----------------------------------------------------------------------------
(* Slots.                                                                  *)

SlotInv == free_slots \in 0 .. PoolSize /\ NoSlotLeak

LEMMA BlocksFinite == IsFiniteSet(Blocks)
<1>1. IsFiniteSet(0 .. PerPage - 1)
  BY FS_Interval, ConstantsOK
<1> QED BY <1>1, FS_Product, ConstantsOK DEF Blocks

LEMMA CardinalityDisjoint ==
  ASSUME NEW S, NEW T, IsFiniteSet(S), IsFiniteSet(T), S \cap T = {}
  PROVE  Cardinality(S \cup T) = Cardinality(S) + Cardinality(T)
<1>1. Cardinality(S \cup T) = Cardinality(S) + Cardinality(T) - Cardinality(S \cap T)
  BY FS_Union
<1>2. Cardinality(S \cap T) = 0
  BY FS_EmptySet
<1>3. Cardinality(S) \in Nat /\ Cardinality(T) \in Nat
  BY FS_CardinalityType
<1> QED BY <1>1, <1>2, <1>3

LEMMA SlotInvInductive == RowInv /\ SlotInv /\ [Next]_vars => SlotInv'
<1> SUFFICES ASSUME RowInv, SlotInv, [Next]_vars PROVE SlotInv'
  OBVIOUS
<1>1. ASSUME UNCHANGED allocVars PROVE SlotInv'
  BY <1>1 DEF allocVars, SlotInv, NoSlotLeak
<1>2. ASSUME NEW evicted \in Evictions(Short, Spare), Allocate(evicted, Short)
      PROVE  SlotInv'
  <2> DEFINE Gone == Dropped \cup Flushed \cup Discarded
  <2>1. /\ IsFiniteSet(Staying) /\ IsFiniteSet(Gone) /\ IsFiniteSet(Wanting)
        /\ IsFiniteSet(evicted) /\ IsFiniteSet(Staying \ evicted)
    <3>1. /\ Staying \subseteq Blocks /\ Gone \subseteq Blocks /\ Wanting \subseteq Blocks
          /\ evicted \subseteq Blocks
      BY <1>2, Parts, NeededInRows DEF RowInv, Types, Wanting, Evictions, Spare
    <3> QED BY <3>1, BlocksFinite, FS_Subset
  <2>2. /\ Cardinality(Staying) \in Nat /\ Cardinality(Gone) \in Nat
        /\ Cardinality(Wanting) \in Nat /\ Cardinality(evicted) \in Nat
        /\ Cardinality(Staying \ evicted) \in Nat
    BY <2>1, FS_CardinalityType
  <2>3. Cardinality(resident) = Cardinality(Staying) + Cardinality(Gone)
    <3>1. resident = Staying \cup Gone /\ Staying \cap Gone = {}
      BY Parts
    <3> QED BY <3>1, <2>1, <2>2, CardinalityDisjoint
  <2>4. Cardinality(Staying \ evicted) = Cardinality(Staying) - Cardinality(evicted)
    <3>1. /\ Staying = (Staying \ evicted) \cup evicted
          /\ (Staying \ evicted) \cap evicted = {}
      BY <1>2 DEF Evictions, Spare
    <3>2. Cardinality(Staying) = Cardinality(Staying \ evicted) + Cardinality(evicted)
      BY <3>1, <2>1, CardinalityDisjoint
    <3> QED BY <3>2, <2>2
  <2>5. Cardinality(resident') = Cardinality(Staying \ evicted) + Cardinality(Wanting)
    <3>1. resident' = (Staying \ evicted) \cup Wanting
      BY <1>2 DEF Allocate
    <3>2. (Staying \ evicted) \cap Wanting = {}
      BY DEF Wanting
    <3> QED BY <3>1, <3>2, <2>1, CardinalityDisjoint
  <2>6. free_slots \in Nat /\ PoolSize \in Nat
        /\ Cardinality(resident) + free_slots = PoolSize
    BY ConstantsOK DEF SlotInv, NoSlotLeak
  <2>7. /\ FreeNow = free_slots + Cardinality(Gone)
        /\ free_slots' = FreeNow + Cardinality(evicted) - Cardinality(Wanting)
        /\ \/ Cardinality(Wanting) <= FreeNow /\ evicted = {}
           \/ Cardinality(evicted) = Cardinality(Wanting) - FreeNow
    <3>1. FreeNow = free_slots + Cardinality(Gone)
      BY DEF FreeNow
    <3>2. Short = Cardinality(Wanting) - FreeNow
      BY DEF Short
    <3>3. free_slots' = Cardinality(evicted) - Short
      BY <1>2 DEF Allocate
    <3>4. IF Short <= 0 THEN evicted = {} ELSE Cardinality(evicted) = Short
      BY <1>2 DEF Evictions
    <3> HIDE DEF Gone
    <3> QED BY <3>1, <3>2, <3>3, <3>4, <2>2, <2>6
  <2> HIDE DEF Gone
  <2>8. Cardinality(resident') + free_slots' = PoolSize
    BY <2>2, <2>3, <2>4, <2>5, <2>6, <2>7
  <2>9. Cardinality(resident') \in Nat
    BY <2>2, <2>5
  <2>10. free_slots' \in 0 .. PoolSize
    <3>1. CASE evicted = {} /\ Cardinality(Wanting) <= FreeNow
      BY <3>1, <2>2, <2>6, <2>7, <2>8, <2>9
    <3>2. CASE Cardinality(evicted) = Cardinality(Wanting) - FreeNow
      BY <3>2, <2>2, <2>6, <2>7, <2>8, <2>9
    <3> QED BY <3>1, <3>2, <2>7
  <2> QED BY <2>8, <2>10 DEF SlotInv, NoSlotLeak
<1>3. CASE Build
  BY <1>1, <1>2, <1>3 DEF Build
<1>4. CASE ~ Build
  <2>1. UNCHANGED allocVars
    BY <1>4 DEF Next, Admit, Schedule, Grant, Leave, ForeignAlloc, ForeignFree, Forward,
                vars
  <2> QED BY <1>1, <2>1
<1> QED BY <1>3, <1>4

\* The builder neither loses a slot nor frees one twice, over any sequence of
\* drops, flushes, discards, evictions and allocations.
THEOREM SlotsConserved == Spec => []NoSlotLeak
<1>1. Init => PageInv /\ SlotInv
  BY ConstantsOK, FS_EmptySet
  DEF Init, PageInv, RowInv, Types, RowsLocal, RowsCover, PagesOf, Announced,
      ForeignPagesIntact, SlotInv, NoSlotLeak
<1>2. PageInv /\ SlotInv /\ [Next]_vars => PageInv' /\ SlotInv'
  BY PageInvInductive, SlotInvInductive DEF PageInv
<1>3. SlotInv => NoSlotLeak
  BY DEF SlotInv
<1> QED BY <1>1, <1>2, <1>3, PTL DEF Spec

-----------------------------------------------------------------------------
(* Types.                                                                  *)

MaxTokens == MaxPages * PageTok

TypeInv ==
  /\ TypeOK
  /\ \A r \in Req : acc[r] <= q[r] /\ computed[r] + q[r] <= MaxTokens

\* A step's tokens fit the pages a request may hold.
LEMMA PagesForUpper ==
  ASSUME NEW x \in Nat, x <= MaxTokens
  PROVE  PagesFor(x) \in 0 .. MaxPages
<1>1. PageTok \in Nat \ {0} /\ MaxPages \in Nat /\ MaxTokens = MaxPages * PageTok
  BY ConstantsOK DEF PageTok, MaxTokens
<1> HIDE DEF MaxTokens
<1>2. x + PageTok - 1 \in Nat /\ MaxPages + 1 \in Nat
      /\ x + PageTok - 1 < (MaxPages + 1) * PageTok
  BY <1>1, Z3
<1>3. (x + PageTok - 1) \div PageTok \in Nat
      /\ (x + PageTok - 1) \div PageTok < MaxPages + 1
  BY <1>1, <1>2, DivBound
<1> QED BY <1>1, <1>3 DEF PagesFor

LEMMA GrantTypes ==
  ASSUME TypeInv, NEW r \in Req, NEW base \in Seq(Pages),
         NEW m \in Nat, NEW new \in [1 .. m -> FreePages],
         NEW start \in Nat, NEW n \in Nat \ {0}, NEW d \in Nat, NEW a \in n .. n + d,
         Grant(r, base, start, n, d, a, new)
  PROVE  TypeInv'
<1> DEFINE pages == base \o new
           Cached(p) == {k \in DOMAIN pages : pages[k] = p /\ k * PageTok <= start + n}
<1>1. pages \in Seq(Pages)
  <2>1. new \in Seq(Pages)
    BY DEF FreePages
  <2> QED BY <2>1
<1>2. MaxTokens \in Nat /\ start + n + d \in Nat /\ Lookahead \in Nat
  BY ConstantsOK DEF PageTok, MaxTokens
<1>3. /\ start + n + d + Lookahead <= MaxTokens /\ start + n + d <= MaxTokens
      /\ Len(pages) = PagesFor(start + n + d + Lookahead)
  BY <1>2 DEF Grant, MaxTokens
<1>4. Len(pages) <= MaxPages
  BY <1>2, <1>3, PagesForUpper, ConstantsOK
<1>5. row' = [row EXCEPT ![r] = pages] /\ computed' = [computed EXCEPT ![r] = start]
      /\ q' = [q EXCEPT ![r] = n + d] /\ acc' = [acc EXCEPT ![r] = a]
  BY DEF Grant
<1>6. row' \in [Req -> Seq(Pages)] /\ \A s \in Req : Len(row'[s]) <= MaxPages
  BY <1>1, <1>4, <1>5 DEF TypeInv, TypeOK
<1>7. /\ computed' \in [Req -> 0 .. MaxTokens] /\ q' \in [Req -> 0 .. MaxTokens]
      /\ acc' \in [Req -> 0 .. MaxTokens]
      /\ \A s \in Req : acc'[s] <= q'[s] /\ computed'[s] + q'[s] <= MaxTokens
  <2>1. computed \in [Req -> 0 .. MaxTokens] /\ q \in [Req -> 0 .. MaxTokens]
        /\ acc \in [Req -> 0 .. MaxTokens]
    BY DEF TypeInv, TypeOK, MaxTokens
  <2>2. \A s \in Req : acc[s] <= q[s] /\ computed[s] + q[s] <= MaxTokens
    BY DEF TypeInv
  <2> HIDE DEF MaxTokens
  <2> QED BY <2>1, <2>2, <1>2, <1>3, <1>5
<1>8. hash' \in [Pages -> 0 .. MaxPages]
  <2>1. hash' = [p \in Pages |-> IF \E k \in Cached(p) : TRUE
                                 THEN CHOOSE k \in Cached(p) : TRUE
                                 ELSE IF p \in {new[i] : i \in DOMAIN new}
                                      THEN 0 ELSE hash[p]]
    BY DEF Grant
  <2>2. \A p \in Pages : Cached(p) \subseteq 0 .. MaxPages
    BY <1>1, <1>4, ConstantsOK
  <2> HIDE DEF Cached
  <2>3. \A p \in Pages : (\E k \in Cached(p) : TRUE)
                            => (CHOOSE k \in Cached(p) : TRUE) \in 0 .. MaxPages
    BY <2>2
  <2> QED BY <2>1, <2>3, ConstantsOK DEF TypeInv, TypeOK
<1>9. pool' \in [Blocks -> SUBSET Positions] /\ tile' \in [Blocks -> SUBSET Positions]
  BY DEF Grant, TypeInv, TypeOK
<1>10. UNCHANGED <<foreign, phase, allocVars, recycled, clobbered>>
  BY DEF Grant
<1> QED
  BY <1>6, <1>7, <1>8, <1>9, <1>10
  DEF TypeInv, TypeOK, allocVars, MaxTokens, Blocks, Positions, PageTok

\* The fill level build records for a written block counts tokens of the block.
LEMMA FillBounds ==
  ASSUME TypeInv, NEW b \in Blocks
  PROVE  FillNow(b) \in 0 .. G
<1>1. CASE b \notin Written
  BY <1>1 DEF FillNow, TypeInv, TypeOK
<1>2. CASE b \in Written
  <2> PICK r \in Batch : \E k \in Low(r) .. High(r) : b = Blk(r, k)
    BY <1>2 DEF Written, Writes
  <2>1. PICK k \in Low(r) .. High(r) : b = Blk(r, k)
    OBVIOUS
  <2> DEFINE x == computed[r] + q[r]
             n == MinOf(x, (k + 1) * G) - k * G
  <2>2. x \in Nat \ {0} /\ computed[r] \in Nat /\ q[r] \in Nat /\ G \in Nat \ {0}
    BY ConstantsOK DEF TypeInv, TypeOK, Batch
  <2>3. k \in Nat /\ k * G <= x - 1
    <3> DEFINE lo == computed[r] \div G
               hi == (x - 1) \div G
    <3>1. lo \in Nat /\ hi \in Nat /\ hi * G <= x - 1
      BY <2>2, Z3
    <3>2. Low(r) = lo /\ High(r) = hi
      BY <2>2 DEF Low, High
    <3> HIDE DEF lo, hi
    <3>3. k \in Nat /\ k <= hi
      BY <2>1, <3>1, <3>2
    <3>4. k * G <= hi * G
      BY <3>1, <3>3, <2>2, Z3
    <3>5. k * G \in Nat /\ hi * G \in Nat /\ x - 1 \in Nat
      BY <3>1, <3>3, <2>2
    <3> QED BY <3>1, <3>3, <3>4, <3>5
  <2>4. n \in 0 .. G
    <3>1. k * G \in Nat /\ (k + 1) * G = k * G + G
      BY <2>2, <2>3, Z3
    <3> QED BY <3>1, <2>2, <2>3 DEF MinOf
  <2>5. \E f \in 0 .. G : \E s \in Batch : \E j \in Low(s) .. High(s) :
          b = Blk(s, j) /\ f = MinOf(computed[s] + q[s], (j + 1) * G) - j * G
    BY <2>1, <2>4
  <2> QED BY <1>2, <2>5 DEF FillNow
<1> QED BY <1>1, <1>2

LEMMA TypeInvInductive ==
  RowInv /\ SlotInv /\ TypeInv /\ [Next]_vars => TypeInv'
<1> SUFFICES ASSUME RowInv, SlotInv, TypeInv, [Next]_vars PROVE TypeInv'
  OBVIOUS
<1>1. ASSUME NEW r \in Req, Admit(r) PROVE TypeInv'
  <2>1. PICK h \in 0 .. MaxPages - 1 :
          \E hit \in {s \in [1 .. h -> Pages \ (foreign \cup BeingWritten)] :
                        \A k \in 1 .. h : hash[s[k]] = k} :
            \E n \in 1 .. MaxChunk, m \in 0 .. MaxPages :
              \E new \in NewPages(m) : Grant(r, hit, h * PageTok, n, 0, n, new)
    BY <1>1 DEF Admit
  <2>2. PICK hit \in [1 .. h -> Pages \ (foreign \cup BeingWritten)],
             n \in 1 .. MaxChunk, m \in 0 .. MaxPages :
          \E new \in NewPages(m) : Grant(r, hit, h * PageTok, n, 0, n, new)
    BY <2>1
  <2>3. PICK new \in NewPages(m) : Grant(r, hit, h * PageTok, n, 0, n, new)
    BY <2>2
  <2>4. /\ hit \in Seq(Pages) /\ new \in [1 .. m -> FreePages]
        /\ n \in Nat \ {0} /\ n \in n .. n + 0 /\ m \in Nat
    BY ConstantsOK DEF NewPages
  <2>5. h * PageTok \in Nat
    BY ConstantsOK DEF PageTok
  <2> QED BY <2>3, <2>4, <2>5, GrantTypes
<1>2. ASSUME NEW r \in Req, Schedule(r) PROVE TypeInv'
  <2>1. PICK n \in 1 .. MaxChunk, d \in 0 .. MaxDraft, m \in 0 .. MaxPages :
          \E a \in n .. n + d, new \in NewPages(m) :
            Grant(r, row[r], computed[r], n, d, a, new)
    BY <1>2 DEF Schedule
  <2>2. PICK a \in n .. n + d, new \in NewPages(m) :
          Grant(r, row[r], computed[r], n, d, a, new)
    BY <2>1
  <2>3. /\ row[r] \in Seq(Pages) /\ new \in [1 .. m -> FreePages]
        /\ computed[r] \in Nat /\ n \in Nat \ {0} /\ d \in Nat /\ m \in Nat
    BY ConstantsOK DEF NewPages, RowInv, Types
  <2> QED BY <2>2, <2>3, GrantTypes
<1>3. ASSUME NEW r \in Req, Leave(r) PROVE TypeInv'
  BY <1>3, ConstantsOK, SMTT(30)
  DEF Leave, TypeInv, TypeOK, allocVars, MaxTokens, PageTok, Blocks, Positions
<1>4. ASSUME NEW p \in Pages, ForeignAlloc(p) \/ ForeignFree(p) PROVE TypeInv'
  <2>1. /\ UNCHANGED <<row, computed, q, acc, phase, allocVars, clobbered>>
        /\ foreign' \subseteq Pages /\ recycled' \subseteq Pages
    BY <1>4 DEF ForeignAlloc, ForeignFree, TypeInv, TypeOK, allocVars, dataVars
  <2>2. hash' \in [Pages -> 0 .. MaxPages]
    <3>1. hash' = [hash EXCEPT ![p] = 0] \/ hash' = hash
      BY <1>4 DEF ForeignAlloc, ForeignFree
    <3>2. hash \in [Pages -> 0 .. MaxPages] /\ 0 \in 0 .. MaxPages
      BY ConstantsOK DEF TypeInv, TypeOK
    <3> QED BY <3>1, <3>2
  <2>3. pool' \in [Blocks -> SUBSET Positions] /\ tile' \in [Blocks -> SUBSET Positions]
    <3>1. CASE ForeignAlloc(p)
      BY <3>1 DEF ForeignAlloc, TypeInv, TypeOK
    <3>2. CASE ForeignFree(p)
      BY <3>2 DEF ForeignFree, TypeInv, TypeOK, dataVars
    <3> QED BY <1>4, <3>1, <3>2
  <2> QED
    BY <2>1, <2>2, <2>3
    DEF TypeInv, TypeOK, allocVars, MaxTokens, PageTok, Blocks, Positions
<1>5. CASE Build
  <2>1. SlotInv'
    BY <1>5, SlotInvInductive
  <2>2. ASSUME NEW evicted \in Evictions(Short, Spare), Allocate(evicted, Short)
        PROVE  /\ resident' \subseteq Blocks /\ sinks' \subseteq Blocks
               /\ retired' \subseteq Blocks /\ fill' \in [Blocks -> 0 .. G]
               /\ pool' \in [Blocks -> SUBSET Positions]
               /\ tile' \in [Blocks -> SUBSET Positions]
               /\ clobbered' \subseteq Pages
    <3>1. Staying \subseteq Blocks /\ Needed \subseteq Blocks /\ Kept \subseteq Blocks
      BY Parts, NeededInRows DEF RowInv, Types
    <3>2. resident' \subseteq Blocks
      BY <2>2, <3>1 DEF Allocate, Wanting
    <3>3. sinks' \subseteq Blocks
      BY <2>2, <3>1 DEF Allocate, MarkedSinks, OldSinks, Needed, TypeInv, TypeOK
    <3>4. retired' \subseteq Blocks
      BY <2>2, <3>1
      DEF Allocate, AllRetired, LiveRetired, OldRetired, Retiring, Complete, Unneeded,
          TypeInv, TypeOK
    <3>5. fill' \in [Blocks -> 0 .. G]
      BY <2>2, FillBounds, ConstantsOK DEF Allocate
    <3>6. /\ pool' \in [Blocks -> SUBSET Positions]
          /\ tile' \in [Blocks -> SUBSET Positions]
      BY <2>2 DEF Allocate, TypeInv, TypeOK
    <3>7. clobbered' \subseteq Pages
      BY <2>2 DEF Allocate, TypeInv, TypeOK
    <3> QED BY <3>2, <3>3, <3>4, <3>5, <3>6, <3>7
  <2>3. /\ UNCHANGED envVars /\ recycled' = {}
        /\ phase' \in {"schedule", "forward", "exhausted"}
    BY <1>5 DEF Build
  <2>4. /\ resident' \subseteq Blocks /\ sinks' \subseteq Blocks
        /\ retired' \subseteq Blocks /\ fill' \in [Blocks -> 0 .. G]
        /\ pool' \in [Blocks -> SUBSET Positions]
        /\ tile' \in [Blocks -> SUBSET Positions]
        /\ clobbered' \subseteq Pages
    BY <1>5, <2>2 DEF Build, TypeInv, TypeOK, allocVars, dataVars
  <2> QED
    BY <2>1, <2>3, <2>4
    DEF TypeInv, TypeOK, SlotInv, envVars, MaxTokens, PageTok, Blocks, Positions
<1>6. CASE Forward
  <2>1. /\ computed' \in [Req -> 0 .. MaxTokens] /\ q' = [r \in Req |-> 0]
        /\ acc' = [r \in Req |-> 0] /\ \A r \in Req : computed'[r] <= MaxTokens
    <3>1. computed \in [Req -> 0 .. MaxTokens] /\ q \in [Req -> 0 .. MaxTokens]
          /\ acc \in [Req -> 0 .. MaxTokens]
          /\ \A r \in Req : acc[r] <= q[r] /\ computed[r] + q[r] <= MaxTokens
      BY DEF TypeInv, TypeOK, MaxTokens
    <3>2. MaxTokens \in Nat
      BY ConstantsOK DEF MaxTokens, PageTok
    <3> HIDE DEF MaxTokens
    <3> QED BY <1>6, <3>1, <3>2 DEF Forward
  <2>2. pool' \in [Blocks -> SUBSET Positions]
    BY <1>6 DEF Forward, TypeInv, TypeOK, StoredAt, AcceptedAt
  <2> QED
    BY <1>6, <2>1, <2>2, ConstantsOK
    DEF Forward, TypeInv, TypeOK, allocVars, MaxTokens, PageTok, Blocks, Positions
<1>7. CASE UNCHANGED vars
  BY <1>7
  DEF vars, envVars, allocVars, dataVars, TypeInv, TypeOK, MaxTokens, PageTok, Blocks,
      Positions
<1> QED BY <1>1, <1>2, <1>3, <1>4, <1>5, <1>6, <1>7 DEF Next

\* Every variable keeps its type; in particular no block's fill level passes G
\* and the free list never holds more slots than the pool has.
THEOREM TypesCorrect == Spec => []TypeOK
<1>1. Init => PageInv /\ SlotInv /\ TypeInv
  <2>1. Init => PageInv /\ SlotInv
    BY ConstantsOK, FS_EmptySet
    DEF Init, PageInv, RowInv, Types, RowsLocal, RowsCover, PagesOf, Announced,
        ForeignPagesIntact, SlotInv, NoSlotLeak
  <2>2. MaxTokens \in Nat
    BY ConstantsOK DEF MaxTokens, PageTok
  <2>3. Init => TypeInv
    BY <2>2, ConstantsOK DEF Init, TypeInv, TypeOK, MaxTokens
  <2> QED BY <2>1, <2>3
<1>2. PageInv /\ SlotInv /\ TypeInv /\ [Next]_vars => PageInv' /\ SlotInv' /\ TypeInv'
  BY PageInvInductive, SlotInvInductive, TypeInvInductive DEF PageInv
<1>3. TypeInv => TypeOK
  BY DEF TypeInv
<1> QED BY <1>1, <1>2, <1>3, PTL DEF Spec

-----------------------------------------------------------------------------
(* Exhaustion.                                                             *)

\* A block that keeps its slot through build is needed, or can be evicted.
LEMMA StayingParts ==
  /\ Staying \subseteq Needed \cup (AllRetired \cap Staying)
  /\ Needed \cap AllRetired = {}
<1>1. Needed \cap AllRetired = {}
  BY DEF AllRetired, LiveRetired, Retiring, Complete, Unneeded
<1>2. ASSUME NEW b \in Staying, b \notin Needed PROVE b \in AllRetired
  <2>1. b \in Kept /\ b \notin Flushed /\ b \notin Discarded
    BY <1>2, StayingKept
  <2>2. b \in Unneeded
    BY <1>2, <2>1 DEF Flushed, Unneeded
  <2> QED BY <2>1, <2>2 DEF Flushed, Discarded, Retiring, AllRetired
<1> QED BY <1>1, <1>2

\* When every block that is not needed is evicted and the step's blocks still
\* do not fit, they outnumber the slots.
LEMMA ExhaustedDemand ==
  ASSUME RowInv, SlotInv, Short > Cardinality(Spare)
  PROVE  Cardinality(Needed) > PoolSize
<1> DEFINE Gone == Dropped \cup Flushed \cup Discarded
           Held == Needed \cap Staying
<1>1. /\ IsFiniteSet(Held) /\ IsFiniteSet(Spare) /\ IsFiniteSet(Wanting)
      /\ IsFiniteSet(Staying) /\ IsFiniteSet(Gone)
  <2>1. /\ Held \subseteq Blocks /\ Spare \subseteq Blocks /\ Wanting \subseteq Blocks
        /\ Staying \subseteq Blocks /\ Gone \subseteq Blocks
    BY Parts, NeededInRows DEF RowInv, Types, Wanting, Spare
  <2> QED BY <2>1, BlocksFinite, FS_Subset
<1>2. Cardinality(resident) = Cardinality(Staying) + Cardinality(Gone)
  <2>1. resident = Staying \cup Gone /\ Staying \cap Gone = {}
    BY Parts
  <2> QED BY <2>1, <1>1, CardinalityDisjoint
<1>3. Cardinality(Staying) = Cardinality(Held) + Cardinality(Spare)
  <2>1. Staying = Held \cup Spare /\ Held \cap Spare = {}
    BY StayingParts DEF Spare
  <2> QED BY <2>1, <1>1, CardinalityDisjoint
<1>4. Cardinality(Needed) = Cardinality(Held) + Cardinality(Wanting)
  <2>1. Needed = Held \cup Wanting /\ Held \cap Wanting = {}
    BY DEF Wanting
  <2> QED BY <2>1, <1>1, CardinalityDisjoint
<1>5. FreeNow = free_slots + Cardinality(Gone)
  BY DEF FreeNow
<1>6. /\ Cardinality(Held) \in Nat /\ Cardinality(Spare) \in Nat
      /\ Cardinality(Wanting) \in Nat /\ Cardinality(Gone) \in Nat
  BY <1>1, FS_CardinalityType
<1>7. /\ free_slots \in Nat /\ Cardinality(resident) + free_slots = PoolSize
      /\ Cardinality(Wanting) - FreeNow > Cardinality(Spare)
  BY DEF SlotInv, NoSlotLeak, Short
<1> HIDE DEF Gone, Held
<1> QED BY <1>2, <1>3, <1>4, <1>5, <1>6, <1>7

\* build raises "pool exhausted" only for a step whose own sinks and written
\* blocks outnumber the slots: sizing the pool for one step's demand is enough.
THEOREM ExhaustionIsDemand == Spec => ExhaustedByDemandOnly
<1> DEFINE A == phase # "exhausted" /\ phase' = "exhausted"
                  => Cardinality(Needed) > PoolSize
<1>1. Init => PageInv /\ SlotInv
  BY ConstantsOK, FS_EmptySet
  DEF Init, PageInv, RowInv, Types, RowsLocal, RowsCover, PagesOf, Announced,
      ForeignPagesIntact, SlotInv, NoSlotLeak
<1>2. PageInv /\ SlotInv /\ [Next]_vars => PageInv' /\ SlotInv'
  BY PageInvInductive, SlotInvInductive DEF PageInv
<1>3. PageInv /\ SlotInv /\ [Next]_vars => [A]_vars
  <2> SUFFICES ASSUME PageInv, SlotInv, Next,
                      phase # "exhausted", phase' = "exhausted"
               PROVE  Cardinality(Needed) > PoolSize
    BY DEF vars
  <2>1. Build
    BY DEF Next, Admit, Schedule, Grant, Leave, ForeignAlloc, ForeignFree, Forward
  <2>2. Short > Cardinality(Spare)
    BY <2>1 DEF Build
  <2> QED BY <2>2, ExhaustedDemand DEF PageInv
<1> QED BY <1>1, <1>2, <1>3, PTL DEF Spec, ExhaustedByDemandOnly
-----------------------------------------------------------------------------
(***************************************************************************)
(* No committed token is lost: the bytes that the slot pool and the int4   *)
(* tiles hold.                                                             *)
(***************************************************************************)

(* Blocks, pages and tokens.                                               *)

\* The page of block k, and where the block begins and ends in it.
LEMMA BlockPage ==
  ASSUME NEW k \in Nat
  PROVE  /\ k \div PerPage \in Nat /\ k % PerPage \in 0 .. PerPage - 1
         /\ k = (k \div PerPage) * PerPage + (k % PerPage)
         /\ (k \div PerPage) * PageTok <= k * G
         /\ (k + 1) * G <= (k \div PerPage + 1) * PageTok
<1> DEFINE d == k \div PerPage
           m == k % PerPage
<1>1. PerPage \in Nat \ {0} /\ G \in Nat \ {0} /\ PageTok = PerPage * G
  BY ConstantsOK DEF PageTok
<1>2. d \in Nat /\ m \in 0 .. PerPage - 1 /\ k = d * PerPage + m
  BY <1>1, Z3
<1> HIDE DEF d, m
<1>3. k * G = d * (PerPage * G) + m * G /\ m * G >= 0
  <2>1. (d * PerPage + m) * G = d * (PerPage * G) + m * G
    BY <1>1, <1>2, Z3
  <2>2. m * G >= 0
    BY <1>1, <1>2, Z3
  <2> QED BY <1>2, <2>1, <2>2
<1>4. (m + 1) * G <= PerPage * G
  BY <1>1, <1>2, Z3
<1>5. (k + 1) * G <= (d + 1) * (PerPage * G)
  <2>1. (k + 1) * G = k * G + G /\ (m + 1) * G = m * G + G
    BY <1>1, <1>2, Z3
  <2>2. (d + 1) * (PerPage * G) = d * (PerPage * G) + PerPage * G
    BY <1>1, <1>2, Z3
  <2> QED BY <1>1, <1>2, <1>3, <1>4, <2>1, <2>2, Z3
<1>6. d * PageTok <= k * G /\ (k + 1) * G <= (d + 1) * PageTok
  BY <1>1, <1>2, <1>3, <1>5, Z3
<1> QED BY <1>2, <1>6 DEF d, m

\* The o-th block of page i + 1 of a row.
LEMMA PageBlock ==
  ASSUME NEW i \in Nat, NEW o \in 0 .. PerPage - 1
  PROVE  LET k == i * PerPage + o
         IN k \in Nat /\ k \div PerPage = i /\ k % PerPage = o
<1>1. PerPage \in Nat \ {0}
  BY ConstantsOK
<1> QED BY <1>1, Z3

\* Each block of a page is a block of the request that has the page.
LEMMA BlockOfPage ==
  ASSUME NEW b \in Blocks, NEW d \in Nat \ {0}
  PROVE  \E k \in Nat : /\ k \div PerPage + 1 = d /\ <<PageOf(b), k % PerPage>> = b
                        /\ (k + 1) * G <= d * PageTok
<1> DEFINE k == (d - 1) * PerPage + b[2]
<1>1. b[2] \in 0 .. PerPage - 1 /\ d - 1 \in Nat /\ b = <<PageOf(b), b[2]>>
  BY DEF Blocks, PageOf
<1>2. k \in Nat /\ k \div PerPage = d - 1 /\ k % PerPage = b[2]
  BY <1>1, PageBlock
<1> HIDE DEF k
<1>3. (k + 1) * G <= (k \div PerPage + 1) * PageTok
  BY <1>2, BlockPage
<1>4. k \div PerPage + 1 = d
  BY <1>1, <1>2
<1> QED BY <1>1, <1>2, <1>3, <1>4

\* Blocks in the order of their first tokens.
LEMMA BlockOrder ==
  ASSUME NEW j \in Nat, NEW k \in Nat, j < k
  PROVE  (j + 1) * G <= k * G /\ j * G < k * G
<1>1. G \in Nat \ {0}
  BY ConstantsOK
<1> QED BY <1>1, Z3

LEMMA PageOrder ==
  ASSUME NEW j \in Nat, NEW k \in Nat, NEW x \in Nat, x < k * PageTok, j * PageTok <= x
  PROVE  j < k
<1>1. PageTok \in Nat \ {0}
  BY ConstantsOK DEF PageTok
<1>2. SUFFICES ASSUME j >= k PROVE FALSE
  OBVIOUS
<1>3. j * PageTok >= k * PageTok
  BY <1>1, <1>2, Z3
<1>4. j * PageTok \in Nat /\ k * PageTok \in Nat
  BY <1>1
<1> QED BY <1>3, <1>4

-----------------------------------------------------------------------------
(* The invariant.                                                          *)

\* A page two requests have is a prefix-cache page at the same place of both,
\* behind what either still writes.
Shared == \A r, s \in Req : \A i \in DOMAIN row[r], j \in DOMAIN row[s] :
  row[r][i] = row[s][j] =>
    i = j /\ (r = s \/ (hash[row[r][i]] # 0 /\ i * PageTok <= computed[r]))

\* A page is cached for its place, once its last token is or will be accepted.
Hashed == \A r \in Req : \A i \in DOMAIN row[r] : hash[row[r][i]] # 0 =>
  hash[row[r][i]] = i /\ i * PageTok <= computed[r] + acc[r]

Covered == \A r \in Req : computed[r] <= Len(row[r]) * PageTok

\* What another group took is no prefix-cache page, and what the builder hears
\* of is another group's.
Ours == recycled \subseteq foreign /\ \A p \in foreign : hash[p] = 0

SinksHeld == sinks \subseteq resident

\* The block a request is in the middle of has a slot.
TailHeld == \A r \in Req, k \in Nat :
  k * G < computed[r] /\ computed[r] < (k + 1) * G => Blk(r, k) \in resident

\* After build the step's blocks have slots, and fill levels past its tokens.
StepHeld == phase = "forward" =>
  /\ Written \subseteq resident
  /\ \A r \in Batch, i \in Positions : \A k \in Low(r) .. High(r) :
       k * G + i < computed[r] + q[r] => i < fill[Blk(r, k)]

\* Position i of block b is due to a reader: a committed token of a request, or
\* a cached page nobody is writing.
DueTo(r, b, i) == \E k \in Nat : b = Blk(r, k) /\ k * G + i < computed[r]
Settled(p) == hash[p] # 0 /\ p \notin BeingWritten
Due(b, i) == (\E r \in Req : DueTo(r, b, i)) \/ Settled(PageOf(b))

\* What is due is there, and a slot that holds it has counted it.
DueReadable == \A b \in Blocks, i \in Positions :
  Due(b, i) => Readable(b, i) /\ (b \in resident => i < fill[b])

\* What the blocks' users rely on, and what the allocator keeps.
Sharing == Shared /\ Hashed /\ Covered /\ Ours
Holding == SinksHeld /\ TailHeld /\ StepHeld /\ DueReadable

DataInv == RowInv /\ TypeInv /\ Sharing /\ (phase # "exhausted" => Holding)

-----------------------------------------------------------------------------
(* Who uses a block.                                                       *)

LEMMA InRow ==
  ASSUME RowInv, NEW r \in Req, NEW k \in Nat, k * G < Len(row[r]) * PageTok
  PROVE  /\ k \div PerPage + 1 \in DOMAIN row[r]
         /\ PageOf(Blk(r, k)) = row[r][k \div PerPage + 1]
         /\ Blk(r, k) \in Blocks /\ PageOf(Blk(r, k)) \in PagesOf(r)
         /\ PageOf(Blk(r, k)) \notin foreign
<1> DEFINE d == k \div PerPage
<1>1. row[r] \in Seq(Pages) /\ Len(row[r]) \in Nat /\ PagesOf(r) \cap foreign = {}
  BY DEF RowInv, Types, RowsLocal
<1>2. d \in Nat /\ k % PerPage \in 0 .. PerPage - 1 /\ d * PageTok <= k * G
  BY BlockPage
<1>3. k * G \in Nat
  BY ConstantsOK
<1> HIDE DEF d
<1>4. d < Len(row[r])
  BY <1>1, <1>2, <1>3, PageOrder
<1>5. d + 1 \in DOMAIN row[r] /\ row[r][d + 1] \in Pages
  BY <1>1, <1>2, <1>4
<1>6. Blk(r, k) = <<row[r][d + 1], k % PerPage>>
  BY DEF Blk, d
<1>7. PageOf(Blk(r, k)) = row[r][d + 1] /\ Blk(r, k) \in Blocks
  BY <1>2, <1>5, <1>6 DEF PageOf, Blocks
<1>8. row[r][d + 1] \in PagesOf(r)
  BY <1>5 DEF PagesOf
<1> QED BY <1>1, <1>5, <1>7, <1>8 DEF d

\* A block of two requests is the same one of both, and complete in both.
LEMMA SameBlock ==
  ASSUME RowInv, Shared, NEW r \in Req, NEW s \in Req, NEW j \in Nat, NEW k \in Nat,
         j * G < Len(row[r]) * PageTok, k * G < Len(row[s]) * PageTok,
         Blk(r, j) = Blk(s, k)
  PROVE  /\ j = k
         /\ r = s \/ (/\ (j + 1) * G <= (j \div PerPage + 1) * PageTok
                      /\ (j \div PerPage + 1) * PageTok <= computed[r])
<1> DEFINE dj == j \div PerPage
           dk == k \div PerPage
<1>1. /\ dj \in Nat /\ dk \in Nat /\ j = dj * PerPage + (j % PerPage)
      /\ k = dk * PerPage + (k % PerPage) /\ (j + 1) * G <= (dj + 1) * PageTok
  BY BlockPage
<1>2. /\ dj + 1 \in DOMAIN row[r] /\ dk + 1 \in DOMAIN row[s]
      /\ row[r][dj + 1] = row[s][dk + 1]
  BY InRow
<1>3. j % PerPage = k % PerPage
  BY DEF Blk
<1> HIDE DEF dj, dk
<1>4. /\ dj + 1 = dk + 1
      /\ r = s \/ (dj + 1) * PageTok <= computed[r]
  BY <1>2 DEF Shared
<1>5. dj = dk
  BY <1>1, <1>4
<1>6. j = k
  BY <1>1, <1>3, <1>5
<1> QED BY <1>1, <1>4, <1>6 DEF dj

\* Where the blocks of a step begin and end.
LEMMA StepBlock ==
  ASSUME RowInv, NEW r \in Batch, NEW k \in Low(r) .. High(r)
  PROVE  /\ r \in Req /\ k \in Nat /\ k * G < Len(row[r]) * PageTok
         /\ computed[r] < (k + 1) * G /\ k * G < computed[r] + q[r]
<1> DEFINE c == computed[r]
           x == computed[r] + q[r]
           n == Len(row[r]) * PageTok
<1>1. /\ r \in Req /\ c \in Nat /\ q[r] \in Nat \ {0} /\ G \in Nat \ {0}
      /\ x \in Nat \ {0} /\ n \in Nat /\ x <= n
  BY ConstantsOK DEF RowInv, Types, RowsCover, Batch, PageTok
<1>2. Low(r) = c \div G /\ High(r) = (x - 1) \div G
  BY <1>1, SMTT(30) DEF Low, High
<1> HIDE DEF c, x, n
<1>3. /\ c \div G \in Nat /\ (x - 1) \div G \in Nat
      /\ c < (c \div G + 1) * G /\ ((x - 1) \div G) * G <= x - 1
  BY <1>1, Z3
<1>4. k \in Nat /\ c \div G <= k /\ k <= (x - 1) \div G
  BY <1>2, <1>3
<1>5. (c \div G + 1) * G <= (k + 1) * G /\ k * G <= ((x - 1) \div G) * G
  BY <1>1, <1>3, <1>4, Z3
<1>6. k * G \in Nat /\ (k + 1) * G \in Nat
  BY <1>1, <1>4
<1>7. ((x - 1) \div G) * G \in Nat /\ (c \div G + 1) * G \in Nat
  BY <1>1, <1>3
<1>8. c < (k + 1) * G /\ k * G < x
  BY <1>1, <1>3, <1>5, <1>6, <1>7
<1> QED BY <1>1, <1>4, <1>6, <1>8 DEF c, x, n

\* Conversely, a block that holds one of the step's tokens is one of its blocks.
LEMMA InStep ==
  ASSUME RowInv, NEW r \in Batch, NEW k \in Nat,
         computed[r] < (k + 1) * G, k * G < computed[r] + q[r]
  PROVE  k \in Low(r) .. High(r)
<1> DEFINE c == computed[r]
           x == computed[r] + q[r]
<1>1. /\ c \in Nat /\ q[r] \in Nat \ {0} /\ x \in Nat /\ x - 1 \in Nat
      /\ G \in Nat \ {0} /\ c < (k + 1) * G /\ k * G <= x - 1
  BY ConstantsOK DEF RowInv, Types, Batch
<1>2. Low(r) = c \div G /\ High(r) = (x - 1) \div G
  BY <1>1 DEF Low, High
<1> HIDE DEF c, x
<1>3. c \div G <= k /\ c \div G \in Nat
  <2>1. k + 1 \in Nat
    OBVIOUS
  <2>2. c \div G \in Nat /\ c \div G < k + 1
    BY <1>1, <2>1, DivBound
  <2> QED BY <2>2
<1>4. k <= (x - 1) \div G
  <2>1. x - 1 < ((x - 1) \div G + 1) * G /\ (x - 1) \div G \in Nat
    BY <1>1, Z3
  <2>2. SUFFICES ASSUME (x - 1) \div G < k PROVE FALSE
    BY <2>1
  <2>3. ((x - 1) \div G + 1) * G <= k * G
    BY <1>1, <2>1, <2>2, BlockOrder
  <2> QED BY <1>1, <2>1, <2>3
<1>5. (x - 1) \div G \in Nat
  BY <1>1
<1> QED BY <1>2, <1>3, <1>4, <1>5

\* A block a step writes is no other request's.
LEMMA OnlyWriter ==
  ASSUME RowInv, Shared, NEW r \in Batch, NEW k \in Low(r) .. High(r),
         NEW s \in Req, NEW j \in Nat, j * G < Len(row[s]) * PageTok, Blk(r, k) = Blk(s, j)
  PROVE  r = s /\ k = j
<1> DEFINE x == (k + 1) * G
           y == (k \div PerPage + 1) * PageTok
<1>1. /\ r \in Req /\ k \in Nat /\ k * G < Len(row[r]) * PageTok
      /\ computed[r] < x
  BY StepBlock
<1>2. k = j /\ (r = s \/ (x <= y /\ y <= computed[r]))
  BY <1>1, SameBlock
<1>3. computed[r] \in Nat /\ G \in Nat /\ PageTok \in Nat
  BY <1>1, ConstantsOK DEF RowInv, Types, PageTok
<1>5. k \div PerPage \in Nat
  BY <1>1, BlockPage
<1>4. x \in Nat /\ y \in Nat
  BY <1>1, <1>3, <1>5
<1> HIDE DEF x, y
<1> QED BY <1>1, <1>2, <1>3, <1>4

\* What a step is about to write is due to nobody.
LEMMA NotDue ==
  ASSUME RowInv, Shared, Covered, NEW r \in Batch, NEW k \in Low(r) .. High(r),
         NEW i \in Positions, computed[r] <= k * G + i
  PROVE  ~Due(Blk(r, k), i)
<1>1. /\ r \in Req /\ k \in Nat /\ k * G < Len(row[r]) * PageTok
      /\ computed[r] < (k + 1) * G
  BY StepBlock
<1>2. G \in Nat \ {0} /\ i \in 0 .. G - 1 /\ \A s \in Req : computed[s] \in Nat
  BY ConstantsOK DEF Positions, RowInv, Types
<1>3. ASSUME NEW s \in Req, NEW j \in Nat, Blk(r, k) = Blk(s, j), j * G + i < computed[s]
      PROVE  FALSE
  <2>1. j * G < Len(row[s]) * PageTok
    <3>1. j * G \in Nat /\ Len(row[s]) * PageTok \in Nat
      BY ConstantsOK DEF RowInv, Types, PageTok
    <3> QED BY <1>2, <1>3, <3>1 DEF Covered
  <2>2. r = s /\ k = j
    BY <1>3, <2>1, OnlyWriter
  <2>3. k * G \in Nat
    BY <1>1, <1>2
  <2> QED BY <1>2, <1>3, <2>2, <2>3
<1>4. PageOf(Blk(r, k)) \in BeingWritten
  <2> DEFINE d == k \div PerPage
  <2>1. /\ d + 1 \in DOMAIN row[r] /\ PageOf(Blk(r, k)) = row[r][d + 1]
        /\ (k + 1) * G <= (d + 1) * PageTok /\ d \in Nat
    BY <1>1, InRow, BlockPage
  <2>2. (d + 1) * PageTok > computed[r]
    <3>1. (k + 1) * G \in Nat /\ (d + 1) * PageTok \in Nat
      <4>1. PICK e \in Nat, g \in Nat, t \in Nat : e = d + 1 /\ g = G /\ t = PerPage
        BY <1>2, <2>1, ConstantsOK
      <4>2. PICK n \in Nat : n = k + 1
        BY <1>1
      <4>3. n * g \in Nat /\ e * (t * g) \in Nat
        BY Z3
      <4> QED BY <4>1, <4>2, <4>3 DEF PageTok
    <3>2. (k + 1) * G <= (d + 1) * PageTok
      BY <2>1
    <3> HIDE DEF d
    <3>3. PICK a \in Nat, b \in Nat : a = (k + 1) * G /\ b = (d + 1) * PageTok
      BY <3>1
    <3> QED BY <1>1, <1>2, <3>2, <3>3
  <2> HIDE DEF d
  <2> QED BY <2>1, <2>2 DEF BeingWritten
<1> QED BY <1>3, <1>4 DEF Due, DueTo, Settled

LEMMA DueOurs ==
  ASSUME RowInv, Covered, Ours, NEW b \in Blocks, NEW i \in Positions, Due(b, i)
  PROVE  PageOf(b) \notin foreign
<1>1. ASSUME NEW r \in Req, DueTo(r, b, i) PROVE PageOf(b) \notin foreign
  <2>1. PICK k \in Nat : b = Blk(r, k) /\ k * G + i < computed[r]
    BY <1>1 DEF DueTo
  <2>2. k * G < Len(row[r]) * PageTok
    <3>1. /\ k * G \in Nat /\ Len(row[r]) * PageTok \in Nat /\ computed[r] \in Nat /\ i \in Nat
      BY ConstantsOK DEF RowInv, Types, PageTok, Positions
    <3> QED BY <2>1, <3>1 DEF Covered
  <2> QED BY <2>1, <2>2, InRow
<1>2. Settled(PageOf(b)) => PageOf(b) \notin foreign
  BY DEF Settled, Ours
<1> QED BY <1>1, <1>2 DEF Due

\* A request that sits a step out is not in the middle of a block.
LEMMA IdleWhole ==
  ASSUME RowInv, Covered, \A r \in Running \ Batch : MayIdle(r),
         NEW r \in Req, r \notin Batch, NEW k \in Nat, k * G < computed[r]
  PROVE  ~(computed[r] < (k + 1) * G)
<1> SUFFICES ASSUME computed[r] < (k + 1) * G PROVE FALSE
  OBVIOUS
<1> DEFINE c == computed[r] \div PageTok
           d == k \div PerPage
<1>1. /\ G \in Nat \ {0} /\ PageTok \in Nat \ {0} /\ computed[r] \in Nat
      /\ Len(row[r]) \in Nat /\ k * G \in Nat /\ (k + 1) * G \in Nat
  BY ConstantsOK DEF PageTok, RowInv, Types
<1>2. r \in Running
  <2>1. Len(row[r]) # 0
    BY <1>1 DEF Covered
  <2> QED BY <2>1 DEF Running
<1>3. computed[r] % PageTok = 0
  BY <1>2 DEF MayIdle
<1>4. c \in Nat /\ computed[r] = c * PageTok
  BY <1>1, <1>3, Z3
<1>5. d \in Nat /\ d * PageTok <= k * G /\ (k + 1) * G <= (d + 1) * PageTok
  BY BlockPage
<1> HIDE DEF c, d
<1>6. d * PageTok \in Nat /\ (d + 1) * PageTok \in Nat
  BY <1>1, <1>5
<1>7. d * PageTok < c * PageTok /\ computed[r] < (d + 1) * PageTok
  BY <1>1, <1>4, <1>5, <1>6
<1>8. d < c
  BY <1>4, <1>5, <1>6, <1>7, PageOrder
<1>9. c < d + 1
  <2>1. d + 1 \in Nat /\ c * PageTok <= computed[r]
    BY <1>1, <1>4, <1>5
  <2> QED BY <1>1, <1>4, <1>7, <2>1, PageOrder
<1> QED BY <1>4, <1>5, <1>8, <1>9

\* A block due in part that the step does not write is due as a whole.
LEMMA DueWhole ==
  ASSUME RowInv, Covered, NEW b \in Blocks, NEW i \in Positions, Due(b, i), b \notin Written,
         \A r \in Running \ Batch : MayIdle(r)
  PROVE  \A j \in Positions : Due(b, j)
<1>1. G \in Nat \ {0} /\ PageTok \in Nat \ {0} /\ i \in Nat /\ Positions = 0 .. G - 1
  BY ConstantsOK DEF Positions, PageTok
<1>2. CASE Settled(PageOf(b))
  BY <1>2 DEF Due
<1>3. ASSUME NEW r \in Req, DueTo(r, b, i) PROVE \A j \in Positions : Due(b, j)
  <2>1. PICK k \in Nat : b = Blk(r, k) /\ k * G + i < computed[r]
    BY <1>3 DEF DueTo
  <2>2. /\ computed[r] \in Nat /\ k * G \in Nat /\ (k + 1) * G = k * G + G
    BY <1>1, Z3 DEF RowInv, Types
  <2>3. CASE (k + 1) * G <= computed[r]
    <3>1. \A j \in Positions : k * G + j < computed[r]
      BY <1>1, <2>2, <2>3
    <3> QED BY <2>1, <3>1 DEF Due, DueTo
  <2>4. CASE computed[r] < (k + 1) * G
    <3>1. CASE r \in Batch
      <4>1. k * G < computed[r] + q[r]
        BY <1>1, <2>1, <2>2 DEF RowInv, Types
      <4>2. k \in Low(r) .. High(r)
        BY <2>4, <3>1, <4>1, InStep
      <4> QED BY <2>1, <3>1, <4>2 DEF Written, Writes
    <3>2. CASE r \notin Batch
      <4>1. k * G < computed[r]
        BY <1>1, <2>1, <2>2
      <4> QED BY <2>2, <2>4, <3>2, <4>1, IdleWhole
    <3> QED BY <3>1, <3>2
  <2> QED BY <1>1, <2>2, <2>3, <2>4
<1> QED BY <1>2, <1>3 DEF Due

\* The fill level build records for a block it writes reaches the step's tokens.
LEMMA FillReaches ==
  ASSUME RowInv, TypeInv, Shared, NEW r \in Batch, NEW k \in Low(r) .. High(r)
  PROVE  FillNow(Blk(r, k)) = MinOf(computed[r] + q[r], (k + 1) * G) - k * G
<1> DEFINE b == Blk(r, k)
           n == MinOf(computed[r] + q[r], (k + 1) * G) - k * G
           P(f) == \E s \in Batch : \E j \in Low(s) .. High(s) :
                     b = Blk(s, j) /\ f = MinOf(computed[s] + q[s], (j + 1) * G) - j * G
<1>1. /\ r \in Req /\ k \in Nat /\ k * G < Len(row[r]) * PageTok
      /\ computed[r] < (k + 1) * G /\ k * G < computed[r] + q[r]
  BY StepBlock
<1>2. n \in 0 .. G
  <2>1. /\ G \in Nat \ {0} /\ computed[r] + q[r] \in Nat /\ k * G \in Nat
        /\ (k + 1) * G = k * G + G
    BY <1>1, ConstantsOK, Z3 DEF RowInv, Types
  <2> QED BY <1>1, <2>1 DEF MinOf
<1>3. P(n)
  OBVIOUS
<1>4. ASSUME NEW f, P(f) PROVE f = n
  <2> PICK s \in Batch : \E j \in Low(s) .. High(s) :
          b = Blk(s, j) /\ f = MinOf(computed[s] + q[s], (j + 1) * G) - j * G
    BY <1>4
  <2>1. PICK j \in Low(s) .. High(s) :
          b = Blk(s, j) /\ f = MinOf(computed[s] + q[s], (j + 1) * G) - j * G
    OBVIOUS
  <2>2. s \in Req /\ j \in Nat /\ j * G < Len(row[s]) * PageTok
    BY <2>1, StepBlock
  <2>3. r = s /\ k = j
    BY <2>1, <2>2, OnlyWriter
  <2> QED BY <2>1, <2>3
<1>5. b \in Written
  BY DEF Written, Writes
<1>6. FillNow(b) = CHOOSE f \in 0 .. G : P(f)
  BY <1>5 DEF FillNow
<1> HIDE DEF n, b, P
<1>7. (CHOOSE f \in 0 .. G : P(f)) = n
  BY <1>2, <1>3, <1>4
<1> QED BY <1>6, <1>7 DEF n, b

LEMMA FillCounts ==
  ASSUME RowInv, TypeInv, Shared, NEW r \in Batch, NEW k \in Low(r) .. High(r),
         NEW i \in Positions, k * G + i < computed[r] + q[r]
  PROVE  i < FillNow(Blk(r, k))
<1>1. r \in Req /\ k \in Nat
  BY StepBlock
<1>2. /\ G \in Nat \ {0} /\ computed[r] + q[r] \in Nat /\ k * G \in Nat
      /\ (k + 1) * G = k * G + G /\ i \in 0 .. G - 1
  BY <1>1, ConstantsOK, Z3 DEF RowInv, Types, Positions
<1>3. FillNow(Blk(r, k)) = MinOf(computed[r] + q[r], (k + 1) * G) - k * G
  BY FillReaches
<1> QED BY <1>2, <1>3 DEF MinOf

\* The blocks build walks back over are complete and due, and not written.
LEMMA WalkedDue ==
  ASSUME RowInv, Sharing, NEW b \in Walked
  PROVE  b \notin Written /\ \A i \in Positions : Due(b, i)
<1>1. PICK r \in Batch : b \in Walk(r)
  BY DEF Walked
<1>2. PICK k \in 1 .. Low(r) - 1 : b = Blk(r, k)
  BY <1>1 DEF Walk
<1>3. /\ r \in Req /\ computed[r] \in Nat /\ G \in Nat \ {0} /\ Positions = 0 .. G - 1
      /\ Low(r) = computed[r] \div G
  BY ConstantsOK DEF Batch, RowInv, Types, Positions, Low
<1>4. Low(r) \in Nat /\ Low(r) * G <= computed[r]
  BY <1>3, Z3
<1>5. k \in Nat /\ k < Low(r)
  BY <1>4
<1>6. (k + 1) * G <= Low(r) * G
  BY <1>4, <1>5, BlockOrder
<1>7. (k + 1) * G = k * G + G /\ k * G \in Nat /\ Low(r) * G \in Nat
  BY <1>3, <1>4, <1>5, Z3
<1>8. \A i \in Positions : k * G + i < computed[r]
  BY <1>3, <1>4, <1>6, <1>7
<1>9. \A i \in Positions : Due(b, i)
  BY <1>2, <1>3, <1>5, <1>8 DEF Due, DueTo
<1>10. SUFFICES ASSUME b \in Written PROVE FALSE
  BY <1>9
<1>11. PICK s \in Batch : \E j \in Low(s) .. High(s) : b = Blk(s, j)
  BY <1>10 DEF Written, Writes
<1>12. PICK j \in Low(s) .. High(s) : b = Blk(s, j)
  BY <1>11
<1>13. j \in Nat /\ computed[s] < (j + 1) * G /\ computed[s] \in Nat
  BY StepBlock DEF RowInv, Types
<1>14. G - 1 \in Positions /\ computed[s] <= j * G + (G - 1)
  <2>1. (j + 1) * G = j * G + G /\ j * G \in Nat
    BY <1>3, <1>13, Z3
  <2> QED BY <1>3, <1>13, <2>1
<1>15. ~Due(b, G - 1)
  BY <1>12, <1>14, NotDue DEF Sharing
<1> QED BY <1>9, <1>14, <1>15

-----------------------------------------------------------------------------
(* build loses nothing that is due.                                        *)

\* A sink whose request takes part keeps its slot.
LEMMA SinkStays ==
  ASSUME SinksHeld, NEW b \in FirstBlocks \cap OldSinks
  PROVE  b \in Staying /\ b \in MarkedSinks /\ b \in Needed
<1>1. b \in resident /\ b \notin Dropped /\ b \in Needed
  BY DEF SinksHeld, OldSinks, Needed
<1>2. b \in Kept /\ b \in MarkedSinks
  BY <1>1 DEF Kept, MarkedSinks, Shed
<1>3. b \notin Walked
  BY <1>2 DEF Walked, Walk
<1> QED BY <1>1, <1>2, <1>3 DEF Staying, Unneeded

LEMMA SinksStayHeld ==
  ASSUME SinksHeld, NEW evicted \in Evictions(Short, Spare), Allocate(evicted, Short)
  PROVE  SinksHeld'
<1>1. /\ sinks' = MarkedSinks \ (Discarded \cup evicted)
      /\ resident' = (Staying \ evicted) \cup Wanting
  BY DEF Allocate
<1>2. ASSUME NEW b \in MarkedSinks, b \notin Discarded \cup evicted
      PROVE  b \in resident'
  <2>1. CASE b \in OldSinks
    <3>1. b \in Kept
      BY <2>1 DEF OldSinks, SinksHeld, Kept
    <3>2. b \notin Flushed
      BY <1>2 DEF Flushed, Walked, Walk
    <3> QED BY <1>1, <1>2, <3>1, <3>2, StayingKept
  <2>2. CASE b \in FirstBlocks \cap Written
    BY <1>1, <1>2, <2>2 DEF Wanting, Needed
  <2> QED BY <2>1, <2>2 DEF MarkedSinks
<1> QED BY <1>1, <1>2 DEF SinksHeld

\* The blocks the step writes have slots, and those that had one keep it.
LEMMA NeededHeld ==
  ASSUME NEW evicted \in Evictions(Short, Spare), Allocate(evicted, Short)
  PROVE  /\ Needed \subseteq resident' /\ evicted \cap Needed = {}
         /\ evicted \subseteq Staying /\ evicted \subseteq AllRetired
<1>1. evicted \subseteq AllRetired \cap Staying
  BY DEF Evictions, Spare
<1> QED BY <1>1, StayingParts DEF Allocate, Wanting

\* A block that is due and written keeps its slot and what it holds.
LEMMA WrittenKept ==
  ASSUME RowInv, TypeInv, Sharing, TailHeld, NEW b \in Written, NEW i \in Positions, Due(b, i)
  PROVE  b \in resident /\ b \in Staying /\ i < FillNow(b)
<1>1. PICK r \in Batch : \E k \in Low(r) .. High(r) : b = Blk(r, k)
  BY DEF Written, Writes
<1>2. PICK k \in Low(r) .. High(r) : b = Blk(r, k)
  BY <1>1
<1>3. /\ r \in Req /\ k \in Nat /\ computed[r] < (k + 1) * G /\ computed[r] \in Nat
      /\ q[r] \in Nat /\ G \in Nat /\ i \in 0 .. G - 1
  BY StepBlock, ConstantsOK DEF RowInv, Types, Positions
<1>4. k * G \in Nat
  BY <1>3
<1>5. k * G + i < computed[r]
  <2>1. ~(computed[r] <= k * G + i)
    BY <1>2, NotDue DEF Sharing
  <2> QED BY <1>3, <1>4, <2>1
<1>6. b \in resident
  BY <1>2, <1>3, <1>4, <1>5 DEF TailHeld
<1>7. b \in Staying
  BY <1>6, WalkedDue DEF Staying, Kept, Dropped, Unneeded, Needed
<1>8. i < FillNow(b)
  BY <1>2, <1>3, <1>4, <1>5, FillCounts DEF Sharing
<1> QED BY <1>6, <1>7, <1>8

\* A block that is due and not written is whole, and stays in its slot or goes
\* to its tile as it is.
LEMMA UnwrittenKept ==
  ASSUME RowInv, TypeInv, Sharing, SinksHeld, DueReadable,
         \A r \in Running \ Batch : MayIdle(r),
         NEW evicted \in Evictions(Short, Spare), Allocate(evicted, Short),
         NEW b \in Blocks \ Written, NEW i \in Positions, Due(b, i)
  PROVE  Readable(b, i)' /\ (b \in resident' => i < fill'[b])
<1>1. /\ resident' = (Staying \ evicted) \cup Wanting
      /\ fill'[b] = IF b \in Dropped \cup Flushed \cup Discarded \cup evicted
                    THEN 0 ELSE FillNow(b)
      /\ tile'[b] = IF b \in Flushed \cup evicted THEN pool[b] ELSE tile[b]
      /\ pool'[b] = IF b \in Staying \ evicted THEN pool[b] ELSE {}
  BY DEF Allocate, Tiles
<1>2. \A j \in Positions : Due(b, j)
  BY DueWhole DEF Sharing
<1>3. FillNow(b) = fill[b]
  BY DEF FillNow
<1>4. b \in Needed => b \in Staying /\ b \notin evicted /\ b \in resident
  BY SinkStays, NeededHeld, Parts DEF Needed
<1>5. CASE b \notin resident
  <2>1. i \in tile[b]
    BY <1>5 DEF DueReadable, Readable
  <2>2. b \notin Flushed \cup evicted /\ b \notin resident'
    BY <1>1, <1>4, <1>5, Parts, NeededHeld DEF Wanting
  <2> QED BY <1>1, <2>1, <2>2 DEF Readable
<1>6. CASE b \in resident
  <2>1. /\ i \in pool[b] /\ i < fill[b]
        /\ G - 1 < fill[b] /\ fill[b] \in Nat /\ G \in Nat \ {0}
    <3>1. G \in Nat \ {0} /\ G - 1 \in Positions
      BY ConstantsOK DEF Positions
    <3> QED BY <1>2, <1>6, <3>1 DEF DueReadable, Readable, TypeInv, TypeOK
  <2>2. b \in Kept
    <3>1. PageOf(b) \notin foreign
      BY DueOurs DEF Sharing
    <3> QED BY <1>6, <3>1 DEF Kept, Dropped, Sharing, Ours
  <2>3. b \notin Discarded
    <3>1. ~(FillNow(b) < G)
      BY <1>3, <2>1
    <3>2. FillNow(b) >= G
      BY <1>3, <2>1
    <3> QED BY <3>2 DEF Discarded, Complete
  <2>4. CASE b \in Flushed \cup evicted
    <3>1. b \notin resident'
      BY <1>1, <1>4, <2>4, Parts, NeededHeld, StayingKept DEF Wanting
    <3> QED BY <1>1, <2>1, <2>4, <3>1 DEF Readable
  <2>5. CASE b \notin Flushed \cup evicted
    <3>1. b \in Staying /\ b \in resident'
      BY <1>1, <2>2, <2>3, <2>5, StayingKept
    <3>2. b \notin Dropped
      BY <2>2 DEF Kept
    <3> QED BY <1>1, <1>3, <2>1, <2>3, <2>5, <3>1, <3>2 DEF Readable
  <2> QED BY <2>4, <2>5
<1> QED BY <1>5, <1>6

LEMMA AllocateData ==
  ASSUME RowInv, TypeInv, Sharing, Holding,
         \A r \in Running \ Batch : MayIdle(r),
         NEW evicted \in Evictions(Short, Spare), Allocate(evicted, Short),
         UNCHANGED envVars
  PROVE  DueReadable'
<1>1. ASSUME NEW b \in Blocks, NEW i \in Positions PROVE Due(b, i)' = Due(b, i)
  BY DEF Due, DueTo, Settled, BeingWritten, Batch, envVars, Blk, PageOf, PageTok
<1> SUFFICES ASSUME NEW b \in Blocks, NEW i \in Positions, Due(b, i)
             PROVE  Readable(b, i)' /\ (b \in resident' => i < fill'[b])
  BY <1>1 DEF DueReadable, Blocks, Positions
<1>2. CASE b \notin Written
  BY <1>2, UnwrittenKept DEF Holding
<1>3. CASE b \in Written
  <2>1. b \in resident /\ b \in Staying /\ i < FillNow(b)
    BY <1>3, WrittenKept DEF Holding
  <2>2. b \notin evicted /\ b \in resident'
    BY <1>3, NeededHeld DEF Needed
  <2>3. b \notin Dropped \cup Flushed \cup Discarded
    BY <2>1, Parts
  <2>4. pool'[b] = pool[b] /\ fill'[b] = FillNow(b)
    BY <2>1, <2>2, <2>3 DEF Allocate
  <2> QED BY <2>1, <2>2, <2>4 DEF Holding, DueReadable, Readable
<1> QED BY <1>2, <1>3

LEMMA BuildData ==
  ASSUME DataInv, Build
  PROVE  Sharing' /\ (phase' # "exhausted" => Holding')
<1>1. /\ UNCHANGED envVars /\ recycled' = {} /\ phase = "schedule"
      /\ \A r \in Running \ Batch : MayIdle(r)
  BY DEF Build
<1>2. RowInv /\ TypeInv /\ Sharing /\ Holding
  BY <1>1 DEF DataInv
<1>3. Sharing'
  BY <1>1, <1>2 DEF Sharing, Shared, Hashed, Covered, Ours, envVars, PageTok
<1>4. ASSUME NEW evicted \in Evictions(Short, Spare), Allocate(evicted, Short)
      PROVE  Holding'
  <2>1. SinksHeld' /\ DueReadable'
    BY <1>1, <1>2, <1>4, SinksStayHeld, AllocateData DEF Holding
  <2>2. Written \subseteq resident'
    BY <1>4, NeededHeld DEF Needed
  <2>3. TailHeld'
    <3> SUFFICES ASSUME NEW r \in Req, NEW k \in Nat,
                        k * G < computed[r], computed[r] < (k + 1) * G
                 PROVE  Blk(r, k) \in resident'
      BY <1>1 DEF TailHeld, envVars, Blk
    <3>1. G \in Nat \ {0} /\ computed[r] \in Nat /\ q[r] \in Nat /\ k * G \in Nat
      BY <1>2, ConstantsOK DEF RowInv, Types
    <3>2. CASE r \in Batch
      <4>1. k * G < computed[r] + q[r]
        BY <3>1
      <4>2. k \in Low(r) .. High(r)
        BY <1>2, <3>2, <4>1, InStep
      <4> QED BY <2>2, <3>2, <4>2 DEF Written, Writes
    <3>3. CASE r \notin Batch
      BY <1>1, <1>2, <3>3, IdleWhole DEF Sharing
    <3> QED BY <3>2, <3>3
  <2>4. ASSUME NEW r \in Batch, NEW i \in Positions, NEW k \in Low(r) .. High(r),
               k * G + i < computed[r] + q[r]
        PROVE  i < fill'[Blk(r, k)]
    <3>1. Blk(r, k) \in Written /\ Blk(r, k) \in Blocks
      BY <1>2, StepBlock, InRow DEF Written, Writes
    <3>2. Blk(r, k) \notin Dropped \cup Flushed \cup Discarded \cup evicted
      <4>1. Blk(r, k) \notin Dropped \cup Discarded \cup evicted
        BY <1>4, <3>1, NeededHeld DEF Dropped, Discarded, Complete, Unneeded, Needed
      <4>2. Blk(r, k) \notin Flushed
        BY <1>2, <3>1, WalkedDue DEF Flushed, Complete, Unneeded, Needed
      <4> QED BY <4>1, <4>2
    <3>3. fill'[Blk(r, k)] = FillNow(Blk(r, k))
      BY <1>4, <3>1, <3>2 DEF Allocate
    <3> QED BY <1>2, <2>4, <3>3, FillCounts DEF Sharing
  <2>5. StepHeld'
    <3>1. /\ Written' = Written /\ Batch' = Batch
          /\ \A r \in Req : Low(r)' = Low(r) /\ High(r)' = High(r)
      BY <1>1 DEF envVars, Written, Writes, Batch, Low, High, Blk
    <3> QED BY <1>1, <2>2, <2>4, <3>1 DEF StepHeld, envVars, Blk, Positions, Batch
  <2> QED BY <2>1, <2>3, <2>5 DEF Holding
<1> QED BY <1>3, <1>4 DEF Build

-----------------------------------------------------------------------------
(* The forward pass stores the step's tokens over nothing that is due.     *)

LEMMA StoredNotDue ==
  ASSUME RowInv, Sharing, NEW b \in Blocks, NEW i \in Positions, Due(b, i)
  PROVE  i \notin StoredAt(b)
<1> SUFFICES ASSUME i \in StoredAt(b) PROVE FALSE
  OBVIOUS
<1>1. PICK r \in Batch : \E k \in Low(r) .. High(r) :
        b = Blk(r, k) /\ computed[r] <= k * G + i
  BY DEF StoredAt
<1>2. PICK k \in Low(r) .. High(r) : b = Blk(r, k) /\ computed[r] <= k * G + i
  BY <1>1
<1> QED BY <1>2, NotDue DEF Sharing

\* What a request's new committed tokens are: due before, or just accepted.
LEMMA AcceptedOrDue ==
  ASSUME RowInv, TypeInv, NEW r \in Req, NEW k \in Nat, NEW i \in Positions,
         k * G + i < computed[r] + acc[r]
  PROVE  \/ k * G + i < computed[r]
         \/ /\ r \in Batch /\ k \in Low(r) .. High(r) /\ i \in AcceptedAt(Blk(r, k))
            /\ k * G + i < computed[r] + q[r]
<1>1. /\ computed[r] \in Nat /\ q[r] \in Nat /\ acc[r] \in Nat /\ acc[r] <= q[r]
      /\ G \in Nat \ {0} /\ i \in 0 .. G - 1 /\ k * G \in Nat /\ (k + 1) * G = k * G + G
  <2>1. (k + 1) * G = k * G + G
    BY ConstantsOK, Z3
  <2> QED BY <2>1, ConstantsOK DEF RowInv, Types, TypeInv, TypeOK, Positions
<1>2. CASE computed[r] <= k * G + i
  <2>1. q[r] > 0 /\ k * G + i < computed[r] + q[r]
    BY <1>1, <1>2
  <2>2. r \in Batch
    BY <2>1 DEF Batch
  <2>3. computed[r] < (k + 1) * G /\ k * G < computed[r] + q[r]
    BY <1>1, <1>2, <2>1
  <2>4. k \in Low(r) .. High(r)
    BY <2>2, <2>3, InStep
  <2> QED BY <1>2, <2>1, <2>2, <2>4 DEF AcceptedAt
<1> QED BY <1>1, <1>2

LEMMA ForwardData ==
  ASSUME DataInv, Forward
  PROVE  Sharing' /\ Holding'
<1>1. RowInv /\ TypeInv /\ Sharing /\ Holding /\ phase = "forward"
  BY DEF DataInv, Forward
<1>2. /\ row' = row /\ hash' = hash /\ foreign' = foreign /\ recycled' = recycled
      /\ resident' = resident /\ sinks' = sinks /\ fill' = fill /\ tile' = tile
      /\ computed' = [r \in Req |-> computed[r] + acc[r]] /\ phase' = "schedule"
      /\ q' = [r \in Req |-> 0] /\ acc' = [r \in Req |-> 0]
  BY DEF Forward, allocVars
<1>3. /\ \A r \in Req : /\ computed[r] \in Nat /\ acc[r] \in Nat /\ q[r] \in Nat
                        /\ acc[r] <= q[r] /\ computed'[r] = computed[r] + acc[r]
                        /\ Len(row[r]) \in Nat
      /\ PageTok \in Nat \ {0} /\ G \in Nat \ {0}
  BY <1>1, <1>2, ConstantsOK DEF RowInv, Types, TypeInv, TypeOK, PageTok
<1>4. Batch' = {} /\ BeingWritten' = {}
  <2>1. Batch' = {}
    BY <1>2 DEF Batch
  <2> QED BY <2>1 DEF BeingWritten
<1>5. Covered'
  <2> SUFFICES ASSUME NEW r \in Req PROVE computed'[r] <= Len(row[r]) * PageTok
    BY <1>2 DEF Covered, PageTok
  <2>1. Len(row[r]) * PageTok \in Nat
    BY <1>3
  <2>2. q[r] > 0 => computed[r] + q[r] <= Len(row[r]) * PageTok
    BY <1>1 DEF RowInv, RowsCover
  <2>3. computed[r] <= Len(row[r]) * PageTok
    BY <1>1 DEF Sharing, Covered
  <2> QED BY <1>3, <2>1, <2>2, <2>3
<1>6. Shared' /\ Hashed' /\ Ours'
  <2>1. Ours'
    BY <1>1, <1>2 DEF Sharing, Ours
  <2>2. Shared'
    <3> SUFFICES ASSUME NEW r \in Req, NEW s \in Req, NEW i \in DOMAIN row[r],
                        NEW j \in DOMAIN row[s], row[r][i] = row[s][j]
                 PROVE  i = j /\ (r = s \/ (hash[row[r][i]] # 0 /\ i * PageTok <= computed'[r]))
      BY <1>2 DEF Shared, PageTok
    <3>1. i = j /\ (r = s \/ (hash[row[r][i]] # 0 /\ i * PageTok <= computed[r]))
      BY <1>1 DEF Sharing, Shared
    <3>2. i * PageTok \in Nat
      BY <1>1, <1>3 DEF RowInv, Types
    <3> QED BY <1>3, <3>1, <3>2
  <2>3. Hashed'
    <3> SUFFICES ASSUME NEW r \in Req, NEW i \in DOMAIN row[r], hash[row[r][i]] # 0
                 PROVE  hash[row[r][i]] = i /\ i * PageTok <= computed'[r] + acc'[r]
      BY <1>2 DEF Hashed, PageTok
    <3>1. hash[row[r][i]] = i /\ i * PageTok <= computed[r] + acc[r]
      BY <1>1 DEF Sharing, Hashed
    <3>2. acc'[r] = 0
      BY <1>2
    <3> QED BY <1>3, <3>1, <3>2
  <2> QED BY <2>1, <2>2, <2>3
<1>7. SinksHeld' /\ StepHeld'
  BY <1>1, <1>2 DEF Holding, SinksHeld, StepHeld
<1>8. TailHeld'
  <2> SUFFICES ASSUME NEW r \in Req, NEW k \in Nat,
                      k * G < computed'[r], computed'[r] < (k + 1) * G
               PROVE  Blk(r, k) \in resident
    BY <1>2 DEF TailHeld, Blk
  <2>1. k * G \in Nat /\ (k + 1) * G \in Nat
    BY <1>3
  <2>2. CASE acc[r] = 0
    BY <1>1, <1>3, <2>2 DEF Holding, TailHeld
  <2>3. CASE acc[r] # 0
    <3>1. r \in Batch
      BY <1>3, <2>3 DEF Batch
    <3>2. computed[r] < (k + 1) * G /\ k * G < computed[r] + q[r]
      BY <1>3, <2>1
    <3>3. k \in Low(r) .. High(r)
      BY <1>1, <3>1, <3>2, InStep
    <3> QED BY <1>1, <3>1, <3>3 DEF Holding, StepHeld, Written, Writes
  <2> QED BY <2>2, <2>3
<1>9. DueReadable'
  <2>1. ASSUME NEW b \in Blocks, NEW i \in Positions, NEW r \in Req, NEW k \in Nat,
               b = Blk(r, k), k * G + i < computed'[r]
        PROVE  Readable(b, i)' /\ (b \in resident => i < fill[b])
    <3>1. CASE k * G + i < computed[r]
      <4>1. Due(b, i)
        BY <2>1, <3>1 DEF Due, DueTo
      <4>2. i \notin StoredAt(b)
        BY <1>1, <4>1, StoredNotDue
      <4> QED BY <1>1, <1>2, <4>1, <4>2 DEF Forward, Holding, DueReadable, Readable
    <3>2. CASE /\ r \in Batch /\ k \in Low(r) .. High(r) /\ i \in AcceptedAt(Blk(r, k))
               /\ k * G + i < computed[r] + q[r]
      <4>1. b \in resident /\ i < fill[b]
        BY <1>1, <2>1, <3>2 DEF Holding, StepHeld, Written, Writes
      <4> QED BY <1>2, <2>1, <3>2, <4>1 DEF Forward, Readable
    <3> QED BY <1>1, <1>3, <2>1, <3>1, <3>2, AcceptedOrDue
  <2>2. ASSUME NEW b \in Blocks, NEW i \in Positions, hash[PageOf(b)] # 0
        PROVE  Readable(b, i)' /\ (b \in resident => i < fill[b])
    <3>1. CASE PageOf(b) \notin BeingWritten
      <4>1. Due(b, i)
        BY <2>2, <3>1 DEF Due, Settled
      <4>2. i \notin StoredAt(b)
        BY <1>1, <4>1, StoredNotDue
      <4> QED BY <1>1, <1>2, <4>1, <4>2 DEF Forward, Holding, DueReadable, Readable
    <3>2. CASE PageOf(b) \in BeingWritten
      <4>1. PICK r \in Batch, d \in Nat \ {0} : d \in DOMAIN row[r] /\ row[r][d] = PageOf(b)
        BY <1>1, <3>2 DEF BeingWritten, RowInv, Types, Batch
      <4>2. r \in Req /\ d * PageTok <= computed'[r]
        BY <1>1, <1>3, <2>2, <4>1 DEF Batch, Sharing, Hashed
      <4>3. PICK k \in Nat : b = Blk(r, k) /\ (k + 1) * G <= d * PageTok
        <5>1. PICK k \in Nat : /\ k \div PerPage + 1 = d /\ <<PageOf(b), k % PerPage>> = b
                                /\ (k + 1) * G <= d * PageTok
          BY BlockOfPage
        <5> QED BY <4>1, <5>1 DEF Blk
      <4>4. k * G + i < computed'[r]
        <5>1. k * G \in Nat /\ (k + 1) * G = k * G + G /\ d * PageTok \in Nat /\ i \in 0 .. G - 1
          BY <1>3, <4>1, Z3 DEF Positions
        <5>2. computed'[r] \in Nat
          BY <1>3, <4>2
        <5>3. k * G + i < (k + 1) * G /\ (k + 1) * G \in Nat
          BY <1>3, <5>1
        <5> DEFINE x == (k + 1) * G
        <5>4. x <= d * PageTok /\ k * G + i < x /\ x \in Nat
          BY <4>3, <5>3
        <5> HIDE DEF x
        <5> QED BY <4>2, <5>1, <5>2, <5>4
      <4> QED BY <2>1, <4>2, <4>3, <4>4
    <3> QED BY <3>1, <3>2
  <2>3. ASSUME NEW b \in Blocks, NEW i \in Positions
        PROVE  Due(b, i)' <=> \/ \E r \in Req, k \in Nat : b = Blk(r, k) /\ k * G + i < computed'[r]
                              \/ hash[PageOf(b)] # 0
    BY <1>2, <1>4 DEF Due, DueTo, Settled, Blk, PageOf
  <2> QED BY <1>2, <2>1, <2>2, <2>3 DEF DueReadable, Blocks, Positions
<1> QED BY <1>5, <1>6, <1>7, <1>8, <1>9 DEF Sharing, Holding

-----------------------------------------------------------------------------
(* The scheduler gives away no page with bytes that are due.               *)

LEMMA NothingNewDue ==
  ASSUME Holding, phase = "schedule", UNCHANGED <<allocVars, phase>>, TailHeld',
         \A b \in Blocks, i \in Positions :
           Due(b, i)' => Due(b, i) /\ pool'[b] = pool[b] /\ tile'[b] = tile[b]
  PROVE  Holding'
<1>1. DueReadable'
  BY DEF Holding, DueReadable, Readable, allocVars, Blocks, Positions
<1> QED BY <1>1 DEF Holding, SinksHeld, StepHeld, allocVars

LEMMA LeaveData ==
  ASSUME DataInv, NEW r \in Req, Leave(r)
  PROVE  Sharing' /\ Holding'
<1>1. RowInv /\ TypeInv /\ Sharing /\ Holding /\ phase = "schedule"
  BY DEF DataInv, Leave
<1>2. /\ row' = [row EXCEPT ![r] = <<>>] /\ computed' = [computed EXCEPT ![r] = 0]
      /\ UNCHANGED <<q, acc, hash, foreign, phase, allocVars, recycled>> /\ q[r] = 0
  BY DEF Leave
<1>3. /\ row'[r] = <<>> /\ computed'[r] = 0
      /\ \A s \in Req \ {r} : row'[s] = row[s] /\ computed'[s] = computed[s]
  BY <1>1, <1>2 DEF RowInv, Types
<1>4. \A s \in Batch : s # r
  BY <1>2 DEF Batch
<1>5. Batch' = Batch /\ BeingWritten' = BeingWritten
  <2>1. Batch' = Batch
    BY <1>2 DEF Batch
  <2>2. \A s \in Batch : s \in Req \ {r}
    BY <1>4 DEF Batch
  <2> QED BY <1>3, <2>1, <2>2 DEF BeingWritten, PageTok
<1>6. Sharing'
  <2>1. Shared' /\ Hashed'
    BY <1>1, <1>2, <1>3 DEF Sharing, Shared, Hashed, PageTok
  <2>2. Covered'
    <3>1. 0 <= Len(<<>>) * PageTok
      BY ConstantsOK DEF PageTok
    <3> QED BY <1>1, <1>3, <3>1 DEF Sharing, Covered, PageTok
  <2> QED BY <1>1, <1>2, <2>1, <2>2 DEF Sharing, Ours
<1>7. TailHeld'
  <2> SUFFICES ASSUME NEW s \in Req, NEW k \in Nat,
                      k * G < computed'[s], computed'[s] < (k + 1) * G
               PROVE  Blk(s, k)' \in resident'
    BY DEF TailHeld
  <2>1. s # r
    <3>1. k * G \in Nat
      BY ConstantsOK
    <3> QED BY <1>3, <3>1
  <2>2. Blk(s, k) \in resident
    BY <1>1, <1>3, <2>1 DEF Holding, TailHeld
  <2> QED BY <1>2, <1>3, <2>1, <2>2 DEF Blk, allocVars
<1>8. ASSUME NEW b \in Blocks, NEW i \in Positions, Due(b, i)'
      PROVE  Due(b, i) /\ pool'[b] = pool[b] /\ tile'[b] = tile[b]
  <2> DEFINE gone == {p \in PagesOf(r) : hash[p] = 0}
  <2>1. CASE Settled(PageOf(b))'
    <3>1. hash[PageOf(b)] # 0 /\ PageOf(b) \notin BeingWritten
      BY <1>2, <1>5, <2>1 DEF Settled, PageOf
    <3>2. b \notin BlocksOf(gone)
      BY <3>1 DEF BlocksOf
    <3> QED BY <3>1, <3>2 DEF Leave, Due, Settled
  <2>2. ASSUME NEW s \in Req, DueTo(s, b, i)'
        PROVE  Due(b, i) /\ b \notin BlocksOf(gone)
    <3>1. PICK k \in Nat : b = Blk(s, k)' /\ k * G + i < computed'[s]
      BY <2>2 DEF DueTo
    <3>2. s # r
      <4>1. k * G + i \in Nat
        BY ConstantsOK DEF Positions
      <4> QED BY <1>3, <3>1, <4>1
    <3>3. b = Blk(s, k) /\ k * G + i < computed[s]
      BY <1>3, <3>1, <3>2 DEF Blk
    <3>4. k * G < Len(row[s]) * PageTok
      <4>1. /\ k * G \in Nat /\ i \in Nat /\ Len(row[s]) * PageTok \in Nat
            /\ computed[s] \in Nat /\ computed[s] <= Len(row[s]) * PageTok
        BY <1>1, ConstantsOK DEF RowInv, Types, PageTok, Positions, Sharing, Covered
      <4> QED BY <3>3, <4>1
    <3> DEFINE d == k \div PerPage + 1
    <3>5. d \in DOMAIN row[s] /\ PageOf(b) = row[s][d]
      BY <1>1, <3>3, <3>4, InRow
    <3> HIDE DEF d
    <3>6. ASSUME PageOf(b) \in PagesOf(r) PROVE hash[PageOf(b)] # 0
      <4>1. PICK e \in DOMAIN row[r] : PageOf(b) = row[r][e]
        BY <3>6 DEF PagesOf
      <4> QED BY <1>1, <3>2, <3>5, <4>1, ZenonT(60) DEF Sharing, Shared
    <3> QED BY <3>3, <3>6 DEF Due, DueTo, BlocksOf
  <2>3. CASE \E s \in Req : DueTo(s, b, i)'
    BY <2>2, <2>3 DEF Leave
  <2> QED BY <1>8, <2>1, <2>3 DEF Due
<1>9. Holding'
  BY <1>1, <1>2, <1>7, <1>8, NothingNewDue
<1> QED BY <1>6, <1>9

LEMMA ForeignAllocData ==
  ASSUME DataInv, NEW p \in Pages, ForeignAlloc(p)
  PROVE  Sharing' /\ Holding'
<1>1. RowInv /\ TypeInv /\ Sharing /\ Holding /\ phase = "schedule"
  BY DEF DataInv, ForeignAlloc
<1>2. /\ foreign' = foreign \cup {p} /\ hash' = [hash EXCEPT ![p] = 0]
      /\ recycled' = recycled \cup {p} /\ p \in FreePages
      /\ UNCHANGED <<row, computed, q, acc, phase, allocVars>>
  BY DEF ForeignAlloc
<1>3. \A s \in Req : \A i \in DOMAIN row[s] : row[s][i] # p
  BY <1>2 DEF FreePages, PagesOf
<1>4. hash'[p] = 0 /\ \A x \in Pages \ {p} : hash'[x] = hash[x]
  BY <1>1, <1>2 DEF TypeInv, TypeOK
<1>5. BeingWritten' = BeingWritten
  BY <1>2 DEF BeingWritten, Batch, PageTok
<1>6. Sharing'
  <2>1. \A s \in Req : \A i \in DOMAIN row[s] : hash'[row[s][i]] = hash[row[s][i]]
    BY <1>1, <1>3, <1>4 DEF RowInv, Types
  <2>2. Shared' /\ Hashed' /\ Covered'
    BY <1>1, <1>2, <2>1 DEF Sharing, Shared, Hashed, Covered, PageTok
  <2>3. Ours'
    BY <1>1, <1>2, <1>4 DEF Sharing, Ours, RowInv, Types
  <2> QED BY <2>2, <2>3 DEF Sharing
<1>7. TailHeld'
  BY <1>1, <1>2 DEF Holding, TailHeld, Blk, allocVars
<1>8. ASSUME NEW b \in Blocks, NEW i \in Positions, Due(b, i)'
      PROVE  Due(b, i) /\ pool'[b] = pool[b] /\ tile'[b] = tile[b]
  <2>1. PageOf(b) # p => pool'[b] = pool[b] /\ tile'[b] = tile[b]
    BY DEF ForeignAlloc
  <2>2. CASE Settled(PageOf(b))'
    <3>1. PageOf(b) # p /\ PageOf(b) \in Pages
      BY <1>4, <2>2 DEF Settled, PageOf, Blocks
    <3> QED BY <1>4, <1>5, <2>1, <2>2, <3>1 DEF Due, Settled, PageOf
  <2>3. ASSUME NEW s \in Req, DueTo(s, b, i)' PROVE Due(b, i) /\ PageOf(b) # p
    <3>1. PICK k \in Nat : b = Blk(s, k) /\ k * G + i < computed[s]
      BY <1>2, <2>3 DEF DueTo, Blk
    <3>2. k * G < Len(row[s]) * PageTok
      <4>1. /\ k * G \in Nat /\ i \in Nat /\ Len(row[s]) * PageTok \in Nat
            /\ computed[s] \in Nat /\ computed[s] <= Len(row[s]) * PageTok
        BY <1>1, ConstantsOK DEF RowInv, Types, PageTok, Positions, Sharing, Covered
      <4> QED BY <3>1, <4>1
    <3>3. PageOf(b) \in PagesOf(s)
      BY <1>1, <3>1, <3>2, InRow
    <3> QED BY <1>2, <3>1, <3>3 DEF Due, DueTo, FreePages
  <2> QED BY <1>8, <2>1, <2>2, <2>3 DEF Due
<1>9. Holding'
  BY <1>1, <1>2, <1>7, <1>8, NothingNewDue
<1> QED BY <1>6, <1>9

LEMMA ForeignFreeData ==
  ASSUME DataInv, NEW p \in Pages, ForeignFree(p)
  PROVE  Sharing' /\ Holding'
<1>1. RowInv /\ TypeInv /\ Sharing /\ Holding /\ phase = "schedule"
  BY DEF DataInv, ForeignFree
<1>2. /\ foreign' = foreign \ {p} /\ recycled' = recycled \ {p}
      /\ UNCHANGED <<row, computed, q, acc, hash, phase, allocVars, dataVars>>
  BY DEF ForeignFree
<1>3. Sharing'
  BY <1>1, <1>2 DEF Sharing, Shared, Hashed, Covered, Ours, PageTok
<1>4. TailHeld'
  BY <1>1, <1>2 DEF Holding, TailHeld, Blk, allocVars
<1>5. ASSUME NEW b \in Blocks, NEW i \in Positions, Due(b, i)'
      PROVE  Due(b, i) /\ pool'[b] = pool[b] /\ tile'[b] = tile[b]
  BY <1>2, <1>5
  DEF Due, DueTo, Settled, BeingWritten, Batch, Blk, PageOf, PageTok, dataVars
<1> QED BY <1>1, <1>2, <1>3, <1>4, <1>5, NothingNewDue

-----------------------------------------------------------------------------
(* A request enters, or gets its next pages.                               *)

\* The pages a request starts its step with hold the tokens before `start`, and
\* those that others have too are cached and complete.
GrantBase(r, base, start) ==
  /\ start <= Len(base) * PageTok
  /\ Injective(base)
  /\ \A i \in DOMAIN base : base[i] \notin foreign
  /\ \A i \in DOMAIN base :
       hash[base[i]] # 0 => hash[base[i]] = i /\ i * PageTok <= start
  /\ \A s \in Req \ {r} : \A i \in DOMAIN base, j \in DOMAIN row[s] :
       base[i] = row[s][j] =>
         i = j /\ hash[base[i]] # 0 /\ i * PageTok <= start /\ j * PageTok <= computed[s]
  /\ \A k \in Nat : \A i \in Positions : k * G + i < start =>
       Due(<<base[k \div PerPage + 1], k % PerPage>>, i)
  /\ \A k \in Nat : k * G < start /\ start < (k + 1) * G =>
       <<base[k \div PerPage + 1], k % PerPage>> \in resident

\* The l + m pages of a request after Grant, and what they are cached for.
Granted(pages, base, l, m, fresh, start, n) ==
  /\ DOMAIN pages = 1 .. l + m /\ l \in Nat /\ Injective(pages)
  /\ \A i \in 1 .. l : i \in 1 .. l + m /\ pages[i] = base[i]
  /\ \A i \in 1 .. l + m : i > l =>
       pages[i] \in fresh /\ pages[i] \in FreePages /\ i * PageTok > start
  /\ \A p \in fresh : \E i \in 1 .. l + m : pages[i] = p
  /\ \A i \in 1 .. l + m : hash'[pages[i]] =
       IF i * PageTok <= start + n THEN i ELSE IF i > l THEN 0 ELSE hash[base[i]]
  /\ \A p \in Pages : (\A i \in 1 .. l + m : pages[i] # p) => hash'[p] = hash[p]

LEMMA GrantPages ==
  ASSUME RowInv, TypeInv, Sharing, NEW r \in Req, NEW base \in Seq(Pages),
         NEW m \in Nat, NEW new \in NewPages(m),
         \A i \in DOMAIN base, j \in 1 .. m : base[i] # new[j],
         NEW start \in Nat, NEW n \in Nat \ {0}, NEW d \in Nat, NEW a \in n .. n + d,
         GrantBase(r, base, start), Grant(r, base, start, n, d, a, new)
  PROVE  Granted(base \o new, base, Len(base), m, {new[j] : j \in 1 .. m}, start, n)
<1> DEFINE pages == base \o new
           l == Len(base)
           Cached(p) == {k \in DOMAIN pages : pages[k] = p /\ k * PageTok <= start + n}
<1>1. /\ new \in [1 .. m -> FreePages] /\ Injective(new) /\ l \in Nat
      /\ DOMAIN base = 1 .. l /\ PageTok \in Nat \ {0}
  BY ConstantsOK DEF NewPages, PageTok
<1>2. /\ DOMAIN pages = 1 .. l + m /\ \A i \in 1 .. l : pages[i] = base[i]
      /\ \A i \in 1 .. l + m : i > l => i - l \in 1 .. m /\ pages[i] = new[i - l]
      /\ pages \in Seq(Pages) /\ DOMAIN new = 1 .. m
  <2>1. new \in Seq(Pages) /\ Len(new) = m /\ DOMAIN new = 1 .. m
    BY <1>1 DEF FreePages
  <2> QED BY <1>1, <2>1
<1>3. hash' = [p \in Pages |-> IF \E k \in Cached(p) : TRUE
                               THEN CHOOSE k \in Cached(p) : TRUE
                               ELSE IF p \in {new[i] : i \in DOMAIN new}
                                    THEN 0 ELSE hash[p]]
  BY DEF Grant
<1> HIDE DEF pages, l
<1>11. Injective(base) /\ start <= l * PageTok
  BY DEF GrantBase, l
<1>12. \A i \in 1 .. l + m : pages[i] \in Pages
  <2>1. pages \in Seq(Pages)
    BY <1>2
  <2>2. \A i \in DOMAIN pages : pages[i] \in Pages
    BY <2>1
  <2> QED BY <1>2, <2>2, Zenon
<1>13. \A i \in 1 .. l, j \in 1 .. m : base[i] # new[j]
  BY <1>1
<1>4. \A k \in 1 .. l + m : k \in Nat /\ (k > l => k * PageTok > start)
  <2> SUFFICES ASSUME NEW k \in 1 .. l + m, k > l PROVE k * PageTok > start
    BY <1>1
  <2>1. k \in Nat /\ l < k
    BY <1>1
  <2>2. l * PageTok < k * PageTok
    BY <1>1, <2>1, Z3
  <2>3. l * PageTok \in Nat /\ k * PageTok \in Nat
    BY <1>1, <2>1
  <2> QED BY <1>11, <2>2, <2>3
<1>5. Injective(pages)
  <2> SUFFICES ASSUME NEW i \in 1 .. l + m, NEW j \in 1 .. l + m, pages[i] = pages[j]
               PROVE  i = j
    BY <1>2 DEF Injective
  <2>1. i \in 1 .. l \/ i > l
    BY <1>1
  <2>2. j \in 1 .. l \/ j > l
    BY <1>1
  <2>3. CASE i \in 1 .. l /\ j \in 1 .. l
    <3>1. base[i] = base[j] /\ i \in DOMAIN base /\ j \in DOMAIN base
      BY <1>1, <1>2, <2>3
    <3> QED BY <1>11, <3>1 DEF Injective
  <2>4. CASE i > l /\ j > l
    <3>1. i - l \in DOMAIN new /\ j - l \in DOMAIN new /\ new[i - l] = new[j - l]
      BY <1>2, <2>4
    <3>2. i - l = j - l
      BY <1>1, <3>1 DEF Injective
    <3> QED BY <1>1, <3>2
  <2>5. CASE i \in 1 .. l /\ j > l
    BY <1>2, <1>13, <2>5
  <2>6. CASE i > l /\ j \in 1 .. l
    BY <1>2, <1>13, <2>6
  <2> QED BY <2>1, <2>2, <2>3, <2>4, <2>5, <2>6
<1>6. ASSUME NEW i \in 1 .. l + m
      PROVE  Cached(pages[i]) = IF i * PageTok <= start + n THEN {i} ELSE {}
  BY <1>2, <1>5 DEF Injective
<1>7. ASSUME NEW i \in 1 .. l + m
      PROVE  hash'[pages[i]] =
               IF i * PageTok <= start + n THEN i ELSE IF i > l THEN 0 ELSE hash[base[i]]
  <2> HIDE DEF Cached
  <2>1. pages[i] \in Pages
    BY <1>12
  <2>2. CASE i * PageTok <= start + n
    BY <1>3, <1>6, <2>1, <2>2
  <2>3. CASE ~(i * PageTok <= start + n) /\ i > l
    BY <1>2, <1>3, <1>6, <2>1, <2>3
  <2>4. CASE ~(i * PageTok <= start + n) /\ ~(i > l)
    <3>1. i \in 1 .. l
      BY <1>1, <2>4
    <3>2. pages[i] \notin {new[j] : j \in DOMAIN new}
      BY <1>2, <1>13, <3>1
    <3> QED BY <1>2, <1>3, <1>6, <2>1, <2>4, <3>1, <3>2
  <2> QED BY <2>2, <2>3, <2>4
<1>8. ASSUME NEW p \in Pages, \A i \in 1 .. l + m : pages[i] # p
      PROVE  hash'[p] = hash[p]
  <2>1. Cached(p) = {}
    BY <1>2, <1>8
  <2>2. p \notin {new[i] : i \in DOMAIN new}
    <3> SUFFICES ASSUME NEW j \in 1 .. m, p = new[j] PROVE FALSE
      BY <1>2
    <3>1. l + j \in 1 .. l + m /\ l + j > l /\ (l + j) - l = j
      BY <1>1
    <3>2. pages[l + j] = new[j]
      BY <1>2, <3>1
    <3> QED BY <1>8, <3>1, <3>2
  <2> QED BY <1>3, <2>1, <2>2
<1>9. \A i \in 1 .. l : i \in 1 .. l + m
  BY <1>1
<1>10. \A i \in 1 .. l + m : i > l =>
         pages[i] \in {new[j] : j \in 1 .. m} /\ pages[i] \in FreePages
  BY <1>1, <1>2
<1> DEFINE fresh == {new[j] : j \in 1 .. m}
<1>14. \A i \in 1 .. l + m : i > l =>
         pages[i] \in fresh /\ pages[i] \in FreePages /\ i * PageTok > start
  BY <1>4, <1>10
<1>16. \A p \in fresh : \E i \in 1 .. l + m : pages[i] = p
  <2> SUFFICES ASSUME NEW j \in 1 .. m PROVE \E i \in 1 .. l + m : pages[i] = new[j]
    OBVIOUS
  <2>1. l + j \in 1 .. l + m /\ l + j > l /\ (l + j) - l = j
    BY <1>1
  <2> QED BY <1>2, <2>1
<1> HIDE DEF fresh
<1>15. Granted(pages, base, l, m, fresh, start, n)
  BY <1>1, <1>2, <1>5, <1>7, <1>8, <1>9, <1>14, <1>16 DEF Granted
<1> QED BY <1>15 DEF pages, l, fresh

LEMMA GrantData ==
  ASSUME RowInv, TypeInv, Sharing, Holding, phase = "schedule",
         NEW r \in Req, q[r] = 0, NEW base \in Seq(Pages),
         NEW m \in Nat, NEW new \in NewPages(m),
         \A i \in DOMAIN base, j \in 1 .. m : base[i] # new[j],
         NEW start \in Nat, NEW n \in Nat \ {0}, NEW d \in Nat, NEW a \in n .. n + d,
         GrantBase(r, base, start), Grant(r, base, start, n, d, a, new)
  PROVE  Sharing' /\ Holding'
<1> DEFINE pages == base \o new
           l == Len(base)
           Fresh == {new[j] : j \in 1 .. m}
<1>1. /\ DOMAIN pages = 1 .. l + m /\ l \in Nat /\ Injective(pages)
      /\ \A i \in 1 .. l : i \in 1 .. l + m /\ pages[i] = base[i]
      /\ \A i \in 1 .. l + m : i > l =>
           pages[i] \in Fresh /\ pages[i] \in FreePages /\ i * PageTok > start
      /\ \A p \in Fresh : \E i \in 1 .. l + m : pages[i] = p
      /\ \A i \in 1 .. l + m : hash'[pages[i]] =
           IF i * PageTok <= start + n THEN i ELSE IF i > l THEN 0 ELSE hash[base[i]]
      /\ \A p \in Pages : (\A i \in 1 .. l + m : pages[i] # p) => hash'[p] = hash[p]
  <2>1. Granted(pages, base, l, m, Fresh, start, n)
    BY GrantPages
  <2> QED BY <2>1 DEF Granted
<1>2. /\ row' = [row EXCEPT ![r] = pages] /\ computed' = [computed EXCEPT ![r] = start]
      /\ q' = [q EXCEPT ![r] = n + d] /\ acc' = [acc EXCEPT ![r] = a]
      /\ UNCHANGED <<foreign, phase, allocVars, recycled>>
  BY DEF Grant
<1>3. Len(pages) = l + m /\ DOMAIN base = 1 .. l /\ DOMAIN new = 1 .. m
  <2>1. new \in Seq(Pages) /\ Len(new) = m /\ DOMAIN new = 1 .. m
    BY DEF NewPages, FreePages
  <2>2. Len(base \o new) = Len(base) + Len(new)
    BY <2>1
  <2>3. DOMAIN base = 1 .. Len(base)
    OBVIOUS
  <2> QED BY <2>1, <2>2, <2>3
<1>4. ASSUME NEW b \in Blocks, PageOf(b) \notin Fresh
      PROVE  pool'[b] = pool[b] /\ tile'[b] = tile[b]
  <2>1. b \notin BlocksOf({new[i] : i \in DOMAIN new})
    BY <1>3, <1>4 DEF BlocksOf
  <2> QED BY <2>1 DEF Grant
<1>5. Fresh \subseteq FreePages /\ \A i \in 1 .. l : base[i] \notin Fresh
  <2>1. \A j \in 1 .. m : new[j] \in FreePages
    BY DEF NewPages
  <2>2. \A i \in 1 .. l, j \in 1 .. m : base[i] # new[j]
    BY <1>3
  <2> QED BY <2>1, <2>2
<1> HIDE DEF pages, l, Fresh
<1>6. /\ row'[r] = pages /\ computed'[r] = start /\ q'[r] = n + d /\ acc'[r] = a
      /\ \A s \in Req \ {r} : /\ row'[s] = row[s] /\ computed'[s] = computed[s]
                              /\ q'[s] = q[s] /\ acc'[s] = acc[s]
  BY <1>2 DEF RowInv, Types
<1>7. /\ start <= l * PageTok /\ \A i \in 1 .. l : base[i] \notin foreign
      /\ \A i \in 1 .. l : hash[base[i]] # 0 => hash[base[i]] = i /\ i * PageTok <= start
      /\ \A s \in Req \ {r} : \A i \in 1 .. l, j \in DOMAIN row[s] :
           base[i] = row[s][j] =>
             i = j /\ hash[base[i]] # 0 /\ i * PageTok <= start /\ j * PageTok <= computed[s]
      /\ \A k \in Nat : \A i \in Positions : k * G + i < start =>
           Due(<<base[k \div PerPage + 1], k % PerPage>>, i)
      /\ \A k \in Nat : k * G < start /\ start < (k + 1) * G =>
           <<base[k \div PerPage + 1], k % PerPage>> \in resident
  BY <1>3 DEF GrantBase, l
<1>8. /\ PageTok \in Nat \ {0} /\ G \in Nat \ {0} /\ a \in Nat /\ n <= a /\ n + d > 0
      /\ \A i \in 1 .. l + m : i \in Nat /\ i * PageTok \in Nat /\ (i \in 1 .. l \/ i > l)
  <2>1. PageTok \in Nat \ {0} /\ G \in Nat \ {0} /\ a \in Nat /\ n <= a /\ n + d > 0
    BY ConstantsOK DEF PageTok
  <2>2. \A i \in 1 .. l + m : i \in Nat /\ (i \in 1 .. l \/ i > l)
    BY <1>1
  <2>3. \A i \in Nat : i * PageTok \in Nat
    BY <2>1
  <2> QED BY <2>1, <2>2, <2>3
\* Another request's pages stay cached for what they were.
<1>9. ASSUME NEW s \in Req \ {r}, NEW j \in DOMAIN row[s]
      PROVE  /\ row[s][j] \in Pages /\ row[s][j] \notin Fresh
             /\ hash'[row[s][j]] = hash[row[s][j]]
  <2> DEFINE p == row[s][j]
  <2>1. p \in Pages /\ p \notin FreePages
    BY DEF RowInv, Types, FreePages, PagesOf
  <2>2. CASE \A i \in 1 .. l + m : pages[i] # p
    BY <1>1, <1>5, <2>1, <2>2
  <2>3. ASSUME NEW i \in 1 .. l + m, pages[i] = p
        PROVE  hash'[p] = hash[p]
    <3>1. i \in 1 .. l /\ base[i] = p
      BY <1>1, <1>8, <2>1, <2>3
    <3>2. hash[p] = i /\ i * PageTok <= start
      BY <1>7, <3>1
    <3>3. i * PageTok <= start + n
      BY <1>8, <3>2
    <3> QED BY <1>1, <2>3, <3>2, <3>3
  <2> QED BY <1>5, <2>1, <2>2, <2>3
<1>10. Shared'
  <2> SUFFICES ASSUME NEW s \in Req, NEW t \in Req, NEW i \in DOMAIN row'[s],
                      NEW j \in DOMAIN row'[t], row'[s][i] = row'[t][j]
               PROVE  /\ i = j
                      /\ s = t \/ (hash'[row'[s][i]] # 0 /\ i * PageTok <= computed'[s])
    BY DEF Shared, PageTok
  <2>1. CASE s = r /\ t = r
    BY <1>1, <1>6, <2>1 DEF Injective
  <2>2. CASE s # r /\ t # r
    BY <1>6, <1>9, <2>2 DEF Sharing, Shared
  <2>3. CASE s = r /\ t # r
    <3>1. i \in 1 .. l + m /\ pages[i] = row[t][j] /\ j \in DOMAIN row[t]
      BY <1>1, <1>6, <2>3
    <3>2. i \in 1 .. l /\ base[i] = row[t][j]
      <4>1. pages[i] \notin Fresh
        BY <1>9, <2>3, <3>1
      <4> QED BY <1>1, <1>8, <3>1, <4>1
    <3>3. i = j /\ hash[base[i]] # 0 /\ i * PageTok <= start
      BY <1>7, <2>3, <3>1, <3>2
    <3>4. hash'[row[t][j]] # 0
      BY <1>9, <2>3, <3>1, <3>2, <3>3
    <3> QED BY <1>6, <2>3, <3>1, <3>3, <3>4
  <2>4. CASE s # r /\ t = r
    <3>1. j \in 1 .. l + m /\ pages[j] = row[s][i] /\ i \in DOMAIN row[s]
      BY <1>1, <1>6, <2>4
    <3>2. j \in 1 .. l /\ base[j] = row[s][i]
      <4>1. pages[j] \notin Fresh
        BY <1>9, <2>4, <3>1
      <4> QED BY <1>1, <1>8, <3>1, <4>1
    <3>3. i = j /\ hash[base[j]] # 0 /\ i * PageTok <= computed[s]
      BY <1>7, <2>4, <3>1, <3>2
    <3>4. hash'[row[s][i]] # 0
      BY <1>9, <2>4, <3>1, <3>2, <3>3
    <3> QED BY <1>6, <2>4, <3>3, <3>4
  <2> QED BY <2>1, <2>2, <2>3, <2>4
<1>11. Hashed'
  <2> SUFFICES ASSUME NEW s \in Req, NEW i \in DOMAIN row'[s], hash'[row'[s][i]] # 0
               PROVE  hash'[row'[s][i]] = i /\ i * PageTok <= computed'[s] + acc'[s]
    BY DEF Hashed, PageTok
  <2>1. CASE s # r
    BY <1>6, <1>9, <2>1 DEF Sharing, Hashed
  <2>2. CASE s = r
    <3>1. i \in 1 .. l + m /\ row'[s][i] = pages[i] /\ computed'[s] + acc'[s] = start + a
      BY <1>1, <1>6, <2>2
    <3>2. CASE i * PageTok <= start + n
      BY <1>1, <1>8, <3>1, <3>2
    <3>3. CASE ~(i * PageTok <= start + n)
      <4>1. i \in 1 .. l /\ hash'[pages[i]] = hash[base[i]]
        BY <1>1, <1>8, <3>1, <3>3
      <4>2. i * PageTok <= start
        BY <1>7, <3>1, <4>1
      <4> QED BY <1>8, <3>1, <3>3, <4>2
    <3> QED BY <3>2, <3>3
  <2> QED BY <2>1, <2>2
<1>12. Covered'
  <2> SUFFICES ASSUME NEW s \in Req PROVE computed'[s] <= Len(row'[s]) * PageTok
    BY DEF Covered, PageTok
  <2>1. CASE s # r
    BY <1>6, <2>1 DEF Sharing, Covered
  <2>2. CASE s = r
    <3>1. l * PageTok <= (l + m) * PageTok
      BY <1>1, <1>8, Z3
    <3>2. l * PageTok \in Nat /\ (l + m) * PageTok \in Nat
      BY <1>1, <1>8
    <3> QED BY <1>3, <1>6, <1>7, <2>2, <3>1, <3>2
  <2> QED BY <2>1, <2>2
<1>13. Ours'
  <2> SUFFICES ASSUME NEW p \in foreign PROVE hash'[p] = 0
    BY <1>2 DEF Ours, Sharing
  <2>1. p \in Pages /\ hash[p] = 0
    BY DEF RowInv, Types, Sharing, Ours
  <2>2. ASSUME NEW i \in 1 .. l + m PROVE pages[i] \notin foreign
    <3>1. CASE i \in 1 .. l
      BY <1>1, <1>7, <3>1
    <3>2. CASE i > l
      BY <1>1, <3>2 DEF FreePages
    <3> QED BY <1>8, <3>1, <3>2
  <2> QED BY <1>1, <2>1, <2>2
\* The block of a token before `start` is on one of the pages in `base`.
<1>14. ASSUME NEW k \in Nat, k * G < start
       PROVE  /\ k \div PerPage + 1 \in 1 .. l
              /\ Blk(r, k)' = <<base[k \div PerPage + 1], k % PerPage>>
              /\ k % PerPage \in 0 .. PerPage - 1
  <2> DEFINE e == k \div PerPage
  <2>1. e \in Nat /\ e * PageTok <= k * G /\ k % PerPage \in 0 .. PerPage - 1
    BY BlockPage
  <2>2. k * G \in Nat /\ l * PageTok \in Nat /\ e * PageTok \in Nat
    BY <1>1, <1>8, <2>1
  <2> HIDE DEF e
  <2>3. k * G < l * PageTok
    BY <1>7, <1>14, <2>2
  <2>4. e < l
    BY <1>1, <2>1, <2>2, <2>3, PageOrder
  <2>5. e + 1 \in 1 .. l
    BY <1>1, <2>1, <2>4
  <2>6. Blk(r, k)' = <<base[e + 1], k % PerPage>>
    BY <1>1, <1>6, <2>5 DEF Blk, e
  <2> QED BY <2>1, <2>5, <2>6 DEF e
<1>15. TailHeld'
  <2> SUFFICES ASSUME NEW s \in Req, NEW k \in Nat,
                      k * G < computed'[s], computed'[s] < (k + 1) * G
               PROVE  Blk(s, k)' \in resident'
    BY DEF TailHeld
  <2>1. CASE s # r
    BY <1>2, <1>6, <2>1 DEF Holding, TailHeld, Blk, allocVars
  <2>2. CASE s = r
    BY <1>2, <1>6, <1>7, <1>14, <2>2 DEF allocVars
  <2> QED BY <2>1, <2>2
\* What r still writes is not settled; what others write is unchanged.
<1>16. /\ BeingWritten \subseteq BeingWritten'
       /\ \A i \in 1 .. l + m : i * PageTok > start => pages[i] \in BeingWritten'
  <2>1. r \notin Batch /\ Batch' = Batch \cup {r}
    <3>1. r \notin Batch /\ r \in Batch'
      BY <1>6, <1>8 DEF Batch
    <3>2. \A s \in Req \ {r} : s \in Batch' <=> s \in Batch
      BY <1>6 DEF Batch
    <3> QED BY <3>1, <3>2 DEF Batch
  <2>2. ASSUME NEW s \in Batch, NEW k \in DOMAIN row[s], k * PageTok > computed[s]
        PROVE  row[s][k] \in BeingWritten'
    <3>1. s \in Req \ {r}
      BY <2>1 DEF Batch
    <3> QED BY <1>6, <2>1, <2>2, <3>1 DEF BeingWritten, PageTok
  <2>3. ASSUME NEW i \in 1 .. l + m, i * PageTok > start
        PROVE  pages[i] \in BeingWritten'
    <3>1. /\ r \in Batch' /\ i \in DOMAIN row'[r] /\ i * PageTok > computed'[r]
          /\ row'[r][i] = pages[i]
      BY <1>1, <1>6, <2>1, <2>3
    <3> QED BY <3>1 DEF BeingWritten, PageTok
  <2> QED BY <2>2, <2>3 DEF BeingWritten
<1>17. ASSUME NEW b \in Blocks, NEW i \in Positions, Due(b, i)'
       PROVE  Due(b, i) /\ PageOf(b) \notin Fresh
  <2>1. ASSUME NEW s \in Req, DueTo(s, b, i)' PROVE Due(b, i) /\ PageOf(b) \notin Fresh
    <3>1. PICK k \in Nat : b = Blk(s, k)' /\ k * G + i < computed'[s]
      BY <2>1 DEF DueTo
    <3>2. k * G \in Nat /\ i \in Nat
      BY <1>8 DEF Positions
    <3>3. CASE s # r
      <4>1. b = Blk(s, k) /\ k * G + i < computed[s]
        BY <1>6, <3>1, <3>3 DEF Blk
      <4>2. k * G < Len(row[s]) * PageTok
        <5>1. /\ Len(row[s]) * PageTok \in Nat /\ computed[s] \in Nat
              /\ computed[s] <= Len(row[s]) * PageTok
          BY <1>8, SMTT(30) DEF RowInv, Types, Sharing, Covered
        <5> QED BY <3>2, <4>1, <5>1
      <4>3. PageOf(b) \in PagesOf(s)
        BY <4>1, <4>2, InRow
      <4> QED BY <1>5, <4>1, <4>3 DEF Due, DueTo, FreePages
    <3>4. CASE s = r
      <4>1. k * G + i < start /\ k * G < start
        BY <1>6, <3>1, <3>2, <3>4
      <4>2. b = <<base[k \div PerPage + 1], k % PerPage>>
        BY <1>14, <3>1, <3>4, <4>1
      <4>3. PageOf(b) \notin Fresh
        BY <1>5, <1>14, <4>1, <4>2 DEF PageOf
      <4> QED BY <1>7, <4>1, <4>2, <4>3
    <3> QED BY <3>3, <3>4
  <2>2. ASSUME Settled(PageOf(b))' PROVE Due(b, i) /\ PageOf(b) \notin Fresh
    <3> DEFINE p == PageOf(b)
    <3>1. p \in Pages /\ hash'[p] # 0 /\ p \notin BeingWritten' /\ p \notin BeingWritten
      BY <1>16, <2>2 DEF Settled, PageOf, Blocks
    <3>2. CASE \A e \in 1 .. l + m : pages[e] # p
      <4>1. hash[p] # 0
        BY <1>1, <3>1, <3>2
      <4>2. p \notin Fresh
        BY <1>1, <3>2
      <4> QED BY <3>1, <4>1, <4>2 DEF Due, Settled
    <3>3. ASSUME NEW e \in 1 .. l + m, pages[e] = p
          PROVE  Due(b, i) /\ p \notin Fresh
      <4>1. ~(e * PageTok > start)
        BY <1>16, <3>1, <3>3
      <4>2. e \in 1 .. l /\ base[e] = p /\ e \in Nat \ {0} /\ e * PageTok <= start
        BY <1>1, <1>8, <3>3, <4>1
      <4>3. PICK k \in Nat : /\ k \div PerPage + 1 = e /\ <<p, k % PerPage>> = b
                             /\ (k + 1) * G <= e * PageTok
        BY <4>2, BlockOfPage
      <4>4. k * G + i < start
        <5> DEFINE x == e * PageTok
                   y == (k + 1) * G
                   z == k * G
        <5>1. y = z + G /\ z \in Nat /\ i \in 0 .. G - 1
          BY <1>8, Z3 DEF Positions
        <5>2. x \in Nat /\ y \in Nat /\ y <= x /\ x <= start
          BY <1>8, <4>2, <4>3
        <5> HIDE DEF x, y
        <5>3. z + i < start
          <6> HIDE DEF z
          <6> QED BY <1>8, <5>1, <5>2
        <5> QED BY <5>3
      <4> QED BY <1>5, <1>7, <4>2, <4>3, <4>4
    <3> QED BY <3>2, <3>3
  <2> QED BY <1>17, <2>1, <2>2 DEF Due
<1>18. Holding'
  <2>1. UNCHANGED <<allocVars, phase>>
    BY <1>2
  <2> QED BY <1>4, <1>15, <1>17, <2>1, NothingNewDue
<1>19. Sharing'
  BY <1>10, <1>11, <1>12, <1>13 DEF Sharing
<1> QED BY <1>18, <1>19

\* A scheduler action that gives request r its step: it holds what it had.
Granting(r, base, m, new, start, n, d, a) ==
  /\ q[r] = 0 /\ \A i \in DOMAIN base, j \in 1 .. m : base[i] # new[j]
  /\ GrantBase(r, base, start)
  /\ \A k \in Nat : \A i \in Positions : k * G + i < computed[r] =>
       k * G + i < start /\ Blk(r, k) = <<base[k \div PerPage + 1], k % PerPage>>
  /\ Grant(r, base, start, n, d, a, new)

LEMMA AdmitGrants ==
  ASSUME DataInv, NEW r \in Req, Admit(r)
  PROVE  \E base \in Seq(Pages), m \in Nat, start \in Nat, n \in Nat \ {0}, d \in Nat :
           \E a \in n .. n + d, new \in NewPages(m) :
             Granting(r, base, m, new, start, n, d, a)
<1>1. RowInv /\ TypeInv /\ Sharing /\ Holding /\ phase = "schedule" /\ r \notin Running
  BY DEF DataInv, Admit
<1>2. PICK h \in 0 .. MaxPages - 1 :
        \E hit \in {s \in [1 .. h -> Pages \ (foreign \cup BeingWritten)] :
                      \A k \in 1 .. h : hash[s[k]] = k} :
          \E n \in 1 .. MaxChunk, m \in 0 .. MaxPages :
            \E new \in NewPages(m) :
              /\ \A i \in 1 .. m : new[i] \notin {hit[k] : k \in 1 .. h}
              /\ Grant(r, hit, h * PageTok, n, 0, n, new)
  BY DEF Admit
<1>3. PICK hit \in [1 .. h -> Pages \ (foreign \cup BeingWritten)],
           n \in 1 .. MaxChunk, m \in 0 .. MaxPages :
        /\ \A k \in 1 .. h : hash[hit[k]] = k
        /\ \E new \in NewPages(m) :
             /\ \A i \in 1 .. m : new[i] \notin {hit[k] : k \in 1 .. h}
             /\ Grant(r, hit, h * PageTok, n, 0, n, new)
  BY <1>2
<1>4. PICK new \in NewPages(m) : /\ \A i \in 1 .. m : new[i] \notin {hit[k] : k \in 1 .. h}
                                 /\ Grant(r, hit, h * PageTok, n, 0, n, new)
  BY <1>3
<1>5. /\ hit \in Seq(Pages) /\ Len(hit) = h /\ DOMAIN hit = 1 .. h /\ h \in Nat
      /\ n \in Nat \ {0} /\ m \in Nat /\ n \in n .. n + 0
      /\ PageTok \in Nat \ {0} /\ G \in Nat \ {0} /\ h * PageTok \in Nat
  <2>1. PageTok \in Nat \ {0} /\ G \in Nat \ {0}
    BY ConstantsOK DEF PageTok
  <2> QED BY <2>1, ConstantsOK
<1>6. q[r] = 0
  <2>1. Len(row[r]) = 0 /\ computed[r] \in Nat /\ q[r] \in Nat
    BY <1>1 DEF RowInv, Types, Running
  <2>2. Len(row[r]) * PageTok = 0
    BY <1>5, <2>1
  <2> QED BY <1>1, <2>1, <2>2 DEF RowInv, RowsCover
<1>7. GrantBase(r, hit, h * PageTok)
  <2>1. \A i \in 1 .. h : /\ hash[hit[i]] = i /\ hit[i] \in Pages
                          /\ hit[i] \notin foreign /\ hit[i] \notin BeingWritten
                          /\ i * PageTok <= h * PageTok
    <3>1. \A i \in 1 .. h : i * PageTok <= h * PageTok
      BY <1>5, Z3
    <3> QED BY <1>3, <3>1
  <2>2. Injective(hit)
    BY <1>5, <2>1 DEF Injective
  <2>3. ASSUME NEW s \in Req \ {r}, NEW i \in 1 .. h, NEW j \in DOMAIN row[s],
               hit[i] = row[s][j]
        PROVE  i = j /\ hash[hit[i]] # 0 /\ j * PageTok <= computed[s]
    <3>1. i = j /\ hash[hit[i]] # 0 /\ j * PageTok <= computed[s] + acc[s]
      BY <1>1, <2>1, <2>3 DEF Sharing, Hashed
    <3>2. /\ computed[s] \in Nat /\ q[s] \in Nat /\ acc[s] \in Nat /\ acc[s] <= q[s]
          /\ j * PageTok \in Nat
      BY <1>1, <1>5, <3>1 DEF RowInv, Types, TypeInv, TypeOK
    <3>3. CASE s \in Batch
      <4>1. ~(j * PageTok > computed[s])
        BY <2>1, <2>3, <3>3 DEF BeingWritten
      <4> QED BY <3>1, <3>2, <4>1
    <3>4. CASE s \notin Batch
      <4>1. q[s] = 0 /\ acc[s] = 0
        BY <3>2, <3>4 DEF Batch
      <4> QED BY <3>1, <3>2, <4>1
    <3> QED BY <3>3, <3>4
  <2>4. ASSUME NEW k \in Nat, k * G < h * PageTok
        PROVE  /\ k \div PerPage + 1 \in 1 .. h /\ k % PerPage \in 0 .. PerPage - 1
               /\ (k + 1) * G <= h * PageTok
    <3> DEFINE e == k \div PerPage
    <3>1. /\ e \in Nat /\ k % PerPage \in 0 .. PerPage - 1
          /\ e * PageTok <= k * G /\ (k + 1) * G <= (e + 1) * PageTok
      BY BlockPage
    <3> HIDE DEF e
    <3>2. e < h
      <4>1. k * G \in Nat
        BY <1>5
      <4> QED BY <1>5, <2>4, <3>1, <4>1, PageOrder
    <3>3. (e + 1) * PageTok <= h * PageTok
      BY <1>5, <3>1, <3>2, Z3
    <3>4. (k + 1) * G \in Nat /\ (e + 1) * PageTok \in Nat
      BY <1>5, <3>1
    <3>5. (k + 1) * G <= h * PageTok
      BY <1>5, <3>1, <3>3, <3>4
    <3>6. e + 1 \in 1 .. h
      BY <1>5, <3>1, <3>2
    <3> QED BY <3>1, <3>5, <3>6 DEF e
  <2>5. ASSUME NEW k \in Nat, NEW i \in Positions, k * G + i < h * PageTok
        PROVE  Due(<<hit[k \div PerPage + 1], k % PerPage>>, i)
    <3>1. k * G < h * PageTok
      <4>1. k * G \in Nat /\ i \in Nat
        BY <1>5 DEF Positions
      <4> QED BY <1>5, <2>5, <4>1
    <3> DEFINE e == k \div PerPage + 1
    <3>2. e \in 1 .. h
      BY <2>4, <3>1
    <3> HIDE DEF e
    <3>3. hash[hit[e]] # 0 /\ hit[e] \notin BeingWritten
      BY <2>1, <3>2
    <3>4. Due(<<hit[e], k % PerPage>>, i)
      BY <3>3 DEF Due, Settled, PageOf
    <3> QED BY <3>4 DEF e
  <2>6. \A k \in Nat : ~(k * G < h * PageTok /\ h * PageTok < (k + 1) * G)
    <3> SUFFICES ASSUME NEW k \in Nat, k * G < h * PageTok, h * PageTok < (k + 1) * G
                 PROVE  FALSE
      OBVIOUS
    <3>1. (k + 1) * G <= h * PageTok /\ (k + 1) * G \in Nat
      BY <1>5, <2>4
    <3> QED BY <1>5, <3>1
  <2>7. h * PageTok <= Len(hit) * PageTok
    BY <1>5
  <2>8. \A i \in DOMAIN hit : hit[i] \notin foreign
    BY <1>5, <2>1
  <2>9. \A i \in DOMAIN hit :
          hash[hit[i]] # 0 => hash[hit[i]] = i /\ i * PageTok <= h * PageTok
    BY <1>5, <2>1
  <2>10. \A s \in Req \ {r} : \A i \in DOMAIN hit, j \in DOMAIN row[s] : hit[i] = row[s][j] =>
           /\ i = j /\ hash[hit[i]] # 0
           /\ i * PageTok <= h * PageTok /\ j * PageTok <= computed[s]
    BY <1>5, <2>1, <2>3
  <2> QED BY <2>2, <2>5, <2>6, <2>7, <2>8, <2>9, <2>10 DEF GrantBase
<1>8. \A i \in DOMAIN hit, j \in 1 .. m : hit[i] # new[j]
  BY <1>4, <1>5
<1>9. ASSUME NEW k \in Nat, NEW i \in Positions PROVE ~(k * G + i < computed[r])
  <2>1. Len(row[r]) = 0 /\ Len(row[r]) * PageTok = 0
    BY <1>1, <1>5 DEF Running
  <2>2. computed[r] = 0
    BY <1>1, <2>1 DEF RowInv, Types, Sharing, Covered
  <2>3. k * G + i \in Nat
    BY <1>5 DEF Positions
  <2> QED BY <2>2, <2>3
<1>10. Granting(r, hit, m, new, h * PageTok, n, 0, n)
  BY <1>4, <1>6, <1>7, <1>8, <1>9 DEF Granting
<1> QED BY <1>5, <1>10

LEMMA ScheduleGrants ==
  ASSUME DataInv, NEW r \in Req, Schedule(r)
  PROVE  \E base \in Seq(Pages), m \in Nat, start \in Nat, n \in Nat \ {0}, d \in Nat :
           \E a \in n .. n + d, new \in NewPages(m) :
             Granting(r, base, m, new, start, n, d, a)
<1>1. RowInv /\ TypeInv /\ Sharing /\ Holding /\ phase = "schedule" /\ q[r] = 0
  BY DEF DataInv, Schedule
<1>2. PICK n \in 1 .. MaxChunk, d \in 0 .. MaxDraft, m \in 0 .. MaxPages :
        \E a \in n .. n + d, new \in NewPages(m) :
          Grant(r, row[r], computed[r], n, d, a, new)
  BY DEF Schedule
<1>3. PICK a \in n .. n + d, new \in NewPages(m) :
        Grant(r, row[r], computed[r], n, d, a, new)
  BY <1>2
<1>4. /\ row[r] \in Seq(Pages) /\ m \in Nat /\ computed[r] \in Nat
      /\ n \in Nat \ {0} /\ d \in Nat /\ acc[r] = 0
  BY <1>1, ConstantsOK DEF RowInv, Types, TypeInv, TypeOK
<1>5. GrantBase(r, row[r], computed[r])
  <2>1. computed[r] <= Len(row[r]) * PageTok
    BY <1>1 DEF Sharing, Covered
  <2>2. Injective(row[r])
    BY <1>1 DEF Sharing, Shared, Injective
  <2>3. \A i \in DOMAIN row[r] : row[r][i] \notin foreign
    BY <1>1 DEF RowInv, RowsLocal, PagesOf
  <2>4. \A i \in DOMAIN row[r] :
          hash[row[r][i]] # 0 => hash[row[r][i]] = i /\ i * PageTok <= computed[r]
    <3>1. computed[r] + acc[r] = computed[r]
      BY <1>4
    <3> QED BY <1>1, <3>1 DEF Sharing, Hashed
  <2>5. \A s \in Req \ {r} : \A i \in DOMAIN row[r], j \in DOMAIN row[s] :
          row[r][i] = row[s][j] => /\ i = j /\ hash[row[r][i]] # 0
                                   /\ i * PageTok <= computed[r] /\ j * PageTok <= computed[s]
    BY <1>1 DEF Sharing, Shared
  <2>6. \A k \in Nat : \A i \in Positions : k * G + i < computed[r] =>
          Due(<<row[r][k \div PerPage + 1], k % PerPage>>, i)
    BY DEF Due, DueTo, Blk
  <2>7. \A k \in Nat : k * G < computed[r] /\ computed[r] < (k + 1) * G =>
          <<row[r][k \div PerPage + 1], k % PerPage>> \in resident
    BY <1>1 DEF Holding, TailHeld, Blk
  <2> QED BY <2>1, <2>2, <2>3, <2>4, <2>5, <2>6, <2>7 DEF GrantBase
<1>6. \A i \in DOMAIN row[r], j \in 1 .. m : row[r][i] # new[j]
  BY DEF NewPages, FreePages, PagesOf
<1>7. Granting(r, row[r], m, new, computed[r], n, d, a)
  BY <1>1, <1>3, <1>5, <1>6 DEF Granting, Blk
<1> QED BY <1>4, <1>7

LEMMA AdmitScheduleData ==
  ASSUME DataInv, NEW r \in Req, Admit(r) \/ Schedule(r)
  PROVE  Sharing' /\ Holding'
<1>1. RowInv /\ TypeInv /\ Sharing /\ Holding /\ phase = "schedule"
  BY DEF DataInv, Admit, Schedule
<1>2. PICK base \in Seq(Pages), m \in Nat, start \in Nat, n \in Nat \ {0}, d \in Nat :
        \E a \in n .. n + d, new \in NewPages(m) : Granting(r, base, m, new, start, n, d, a)
  BY AdmitGrants, ScheduleGrants
<1>3. PICK a \in n .. n + d, new \in NewPages(m) : Granting(r, base, m, new, start, n, d, a)
  BY <1>2
<1> QED BY <1>1, <1>3, GrantData DEF Granting

-----------------------------------------------------------------------------
(* The theorems.                                                           *)

AllInv == PageInv /\ SlotInv /\ DataInv

LEMMA AllInvInit == Init => AllInv
<1> SUFFICES ASSUME Init PROVE AllInv
  OBVIOUS
<1>1. PageInv /\ SlotInv
  BY ConstantsOK, FS_EmptySet
  DEF Init, PageInv, RowInv, Types, RowsLocal, RowsCover, PagesOf, Announced,
      ForeignPagesIntact, SlotInv, NoSlotLeak
<1>2. MaxTokens \in Nat /\ PageTok \in Nat
  BY ConstantsOK DEF MaxTokens, PageTok
<1>3. TypeInv
  BY <1>2, ConstantsOK DEF Init, TypeInv, TypeOK, MaxTokens
<1>4. Batch = {} /\ BeingWritten = {}
  <2>1. Batch = {}
    BY DEF Init, Batch
  <2> QED BY <2>1 DEF BeingWritten
<1>5. Covered
  <2>1. 0 <= Len(<<>>) * PageTok
    BY <1>2
  <2> QED BY <2>1 DEF Init, Covered
<1>6. Sharing
  BY <1>5 DEF Init, Sharing, Shared, Hashed, Ours
<1>7. ASSUME NEW r \in Req, NEW k \in Nat, NEW i \in Nat
      PROVE  ~(k * G + i < computed[r]) /\ ~(k * G < computed[r])
  <2>1. k * G \in Nat
    BY ConstantsOK
  <2> QED BY <2>1 DEF Init
<1>8. TailHeld
  BY <1>7 DEF TailHeld
<1>9. DueReadable
  <2>1. ASSUME NEW b \in Blocks, NEW i \in Positions PROVE ~Due(b, i)
    <3>1. i \in Nat
      BY ConstantsOK DEF Positions
    <3>2. ~Settled(PageOf(b))
      BY DEF Init, Settled, PageOf, Blocks
    <3> QED BY <1>7, <3>1, <3>2 DEF Due, DueTo
  <2> QED BY <2>1 DEF DueReadable
<1> QED
  BY <1>1, <1>3, <1>6, <1>8, <1>9
  DEF Init, AllInv, DataInv, PageInv, Holding, SinksHeld, StepHeld

LEMMA AllInvInductive == AllInv /\ [Next]_vars => AllInv'
<1> SUFFICES ASSUME AllInv, [Next]_vars PROVE AllInv'
  OBVIOUS
<1>1. PageInv' /\ SlotInv' /\ RowInv' /\ TypeInv'
  BY PageInvInductive, SlotInvInductive, TypeInvInductive DEF AllInv, PageInv, DataInv
<1>2. Sharing' /\ (phase' # "exhausted" => Holding')
  <2>1. DataInv
    BY DEF AllInv
  <2>2. CASE UNCHANGED vars
    <3>1. UNCHANGED <<envVars, phase, allocVars, recycled, dataVars>>
      BY <2>2 DEF vars
    <3>2. UNCHANGED <<row, computed, q, acc, hash, foreign>>
      BY <3>1 DEF envVars
    <3>3. UNCHANGED <<resident, free_slots, sinks, retired, fill>>
      BY <3>1 DEF allocVars
    <3>4. UNCHANGED <<pool, tile, clobbered>>
      BY <3>1 DEF dataVars
    <3>5. Sharing'
      BY <2>1, <3>1, <3>2 DEF DataInv, Sharing, Shared, Hashed, Covered, Ours, PageTok
    <3>6. Batch' = Batch /\ BeingWritten' = BeingWritten /\ Written' = Written
      BY <3>2 DEF Batch, BeingWritten, Written, Writes, Low, High, Blk, PageTok
    <3>7. ASSUME phase # "exhausted" PROVE Holding'
      <4>1. Holding
        BY <2>1, <3>7 DEF DataInv
      <4>2. SinksHeld' /\ TailHeld' /\ StepHeld'
        BY <3>1, <3>2, <3>3, <3>6, <4>1
        DEF Holding, SinksHeld, TailHeld, StepHeld, Blk, Low, High, Positions
      <4>3. \A b \in Blocks, i \in Positions : Due(b, i)' <=> Due(b, i)
        BY <3>2, <3>6 DEF Due, DueTo, Settled, Blk, PageOf
      <4>4. DueReadable'
        BY <3>3, <3>4, <4>1, <4>3 DEF Holding, DueReadable, Readable, Blocks, Positions
      <4> QED BY <4>2, <4>4 DEF Holding
    <3> QED BY <3>1, <3>5, <3>7
  <2>3. CASE Next
    BY <2>1, <2>3, AdmitScheduleData, LeaveData, ForeignAllocData, ForeignFreeData,
       BuildData, ForwardData DEF Next
  <2> QED BY <2>2, <2>3
<1> QED BY <1>1, <1>2 DEF AllInv, DataInv

LEMMA AllInvAlways == Spec => []AllInv
  BY AllInvInit, AllInvInductive, PTL DEF Spec

LEMMA LiveFromInv == AllInv => LiveReadable
<1> SUFFICES ASSUME AllInv, AtBoundary, NEW r \in Running,
                    NEW t \in 0 .. computed[r] - 1
             PROVE  Readable(Blk(r, t \div G), t % G)
  BY DEF LiveReadable
<1>1. RowInv /\ Sharing /\ DueReadable /\ r \in Req
  BY DEF AllInv, DataInv, Holding, AtBoundary, Running
<1>2. G \in Nat \ {0} /\ computed[r] \in Nat /\ t \in Nat /\ t < computed[r]
  BY <1>1, ConstantsOK DEF RowInv, Types
<1>3. t \div G \in Nat /\ t % G \in 0 .. G - 1 /\ (t \div G) * G + (t % G) = t
  BY <1>2, Z3
<1>4. (t \div G) * G < Len(row[r]) * PageTok
  <2>1. /\ (t \div G) * G \in Nat /\ Len(row[r]) * PageTok \in Nat
        /\ computed[r] <= Len(row[r]) * PageTok
    BY <1>1, <1>2, <1>3, ConstantsOK DEF RowInv, Types, PageTok, Sharing, Covered
  <2> QED BY <1>2, <1>3, <2>1
<1>5. Blk(r, t \div G) \in Blocks
  BY <1>1, <1>3, <1>4, InRow
<1>6. Due(Blk(r, t \div G), t % G)
  BY <1>1, <1>2, <1>3 DEF Due, DueTo
<1> QED BY <1>1, <1>3, <1>5, <1>6 DEF DueReadable, Positions

LEMMA CachedFromInv == AllInv => CachedReadable
<1> SUFFICES ASSUME AllInv, AtBoundary, NEW p \in Pages, hash[p] # 0,
                    NEW b \in BlocksOf({p}), NEW i \in Positions
             PROVE  Readable(b, i)
  BY DEF CachedReadable
<1>1. DueReadable
  BY DEF AllInv, DataInv, Holding, AtBoundary
<1>2. BeingWritten = {}
  BY DEF BeingWritten, AtBoundary
<1> QED BY <1>1, <1>2 DEF BlocksOf, Due, Settled, DueReadable

\* Every committed token of a running request can be read back, whatever the
\* builder swept, flushed, evicted or discarded since it was stored.
THEOREM CommittedReadable == Spec => []LiveReadable
  BY LiveFromInv, AllInvAlways, PTL

\* Every page the prefix cache may hand to a new request reads back whole.
THEOREM CacheReadable == Spec => []CachedReadable
  BY CachedFromInv, AllInvAlways, PTL

LEMMA OnlyBuild ==
  ASSUME Next, phase = "schedule", phase' = "forward"
  PROVE  /\ \A r \in Running \ Batch : MayIdle(r)
         /\ \E evicted \in Evictions(Short, Spare) : Allocate(evicted, Short)
<1>1. Build
  BY DEF Next, Admit, Schedule, Grant, Leave, ForeignAlloc, ForeignFree, Forward
<1> QED BY <1>1 DEF Build

LEMMA TailStep ==
  ASSUME AllInv, [Next]_vars
  PROVE  \A r \in Running :
           LET tail == Blk(r, computed[r] \div G)
           IN phase' = "forward" /\ phase = "schedule" /\ computed[r] % G # 0
                => /\ tail \in resident /\ tail \in resident'
                   /\ pool[tail] \subseteq pool'[tail]
<1> SUFFICES ASSUME AllInv, Next, NEW r \in Running,
                    phase' = "forward", phase = "schedule", computed[r] % G # 0
             PROVE  LET tail == Blk(r, computed[r] \div G)
                    IN /\ tail \in resident /\ tail \in resident'
                       /\ pool[tail] \subseteq pool'[tail]
  BY DEF vars
<1> DEFINE k == computed[r] \div G
           b == Blk(r, k)
<1>1. RowInv /\ TypeInv /\ Sharing /\ Holding /\ r \in Req
  BY DEF AllInv, DataInv, Running
<1>2. G \in Nat \ {0} /\ computed[r] \in Nat /\ q[r] \in Nat
  BY <1>1, ConstantsOK DEF RowInv, Types
<1>3. k \in Nat /\ k * G < computed[r] /\ computed[r] < (k + 1) * G
  BY <1>2, Z3
<1> HIDE DEF k
<1>4. /\ \A s \in Running \ Batch : MayIdle(s)
      /\ \E evicted \in Evictions(Short, Spare) : Allocate(evicted, Short)
  BY OnlyBuild
<1>5. r \in Batch
  BY <1>1, <1>3, <1>4, IdleWhole DEF Sharing
<1>6. k \in Low(r) .. High(r)
  <2>1. k * G < computed[r] + q[r]
    <3>1. k * G \in Nat
      BY <1>2, <1>3
    <3> QED BY <1>2, <1>3, <3>1
  <2> QED BY <1>1, <1>3, <1>5, <2>1, InStep
<1>7. b \in Written /\ b \in Blocks
  BY <1>1, <1>5, <1>6, StepBlock, InRow DEF Written, Writes
<1>8. Due(b, 0) /\ 0 \in Positions
  <2>1. k * G + 0 < computed[r]
    BY <1>2, <1>3
  <2> QED BY <1>1, <1>2, <1>3, <2>1 DEF Due, DueTo, Positions
<1>9. b \in resident /\ b \in Staying
  BY <1>1, <1>7, <1>8, WrittenKept DEF Holding
<1>10. b \in resident' /\ pool'[b] = pool[b]
  <2>1. PICK evicted \in Evictions(Short, Spare) : Allocate(evicted, Short)
    BY <1>4
  <2>2. b \in resident' /\ b \notin evicted
    BY <1>7, <2>1, NeededHeld DEF Needed
  <2> QED BY <1>7, <1>9, <2>1, <2>2 DEF Allocate
<1> QED BY <1>9, <1>10 DEF k

\* No sweep, eviction or flush takes the slot of the block a request is in the
\* middle of.
THEOREM TailKept == Spec => TailKeepsSlot
<1> DEFINE A == \A r \in Running :
                  LET tail == Blk(r, computed[r] \div G)
                  IN phase' = "forward" /\ phase = "schedule" /\ computed[r] % G # 0
                       => /\ tail \in resident /\ tail \in resident'
                          /\ pool[tail] \subseteq pool'[tail]
<1>1. AllInv /\ [Next]_vars => [A]_vars
  BY TailStep
<1> QED BY <1>1, AllInvAlways, PTL DEF Spec, TailKeepsSlot

\* A sink stays fp16 while a request that begins with it takes part in steps.
THEOREM SinksKept == Spec => SinkStaysResident
<1> DEFINE A == \A r \in Batch :
                  phase = "schedule" /\ phase' = "forward" /\ Blk(r, 0) \in resident \cap sinks
                    => Blk(r, 0) \in resident' \cap sinks'
<1>1. AllInv /\ [Next]_vars => [A]_vars
  <2> SUFFICES ASSUME AllInv, Next, NEW r \in Batch, phase = "schedule",
                      phase' = "forward", Blk(r, 0) \in resident \cap sinks
               PROVE  Blk(r, 0) \in resident' \cap sinks'
    BY DEF vars
  <2> DEFINE b == Blk(r, 0)
  <2>1. RowInv /\ Sharing /\ Holding
    BY DEF AllInv, DataInv
  <2>2. b \notin Dropped
    <3>1. High(r) \in Nat
      <4>1. /\ computed[r] \in Nat /\ q[r] \in Nat \ {0} /\ G \in Nat \ {0}
            /\ computed[r] + q[r] - 1 \in Nat
        BY <2>1, ConstantsOK DEF RowInv, Types, Batch
      <4>2. (computed[r] + q[r] - 1) \div G \in Nat
        BY <4>1
      <4> QED BY <4>2 DEF High
    <3>2. PageOf(b) \notin foreign
      BY <2>1, <3>1, BlkInRow
    <3> QED BY <2>1, <3>2 DEF Dropped, Sharing, Ours
  <2>3. b \in FirstBlocks \cap OldSinks
    BY <2>2 DEF FirstBlocks, OldSinks
  <2>4. PICK evicted \in Evictions(Short, Spare) : Allocate(evicted, Short)
    BY OnlyBuild
  <2>5. b \in Staying /\ b \in MarkedSinks /\ b \in Needed
    BY <2>1, <2>3, SinkStays DEF Holding
  <2>6. b \in resident' /\ b \notin evicted
    BY <2>4, <2>5, NeededHeld
  <2>7. b \notin Discarded
    BY <2>5, Parts
  <2> QED BY <2>4, <2>5, <2>6, <2>7 DEF Allocate
<1> QED BY <1>1, AllInvAlways, PTL DEF Spec, SinkStaysResident
-----------------------------------------------------------------------------
(***************************************************************************)
(* The drafter's group.  Its passes interleave with the steps of KVarN, so *)
(* the invariants above must survive a builder that only allocates, and    *)
(* the passes must freeze no proposed token.                               *)
(***************************************************************************)

\* Right bytes are found only where they are due: whatever is dropped, given
\* away or rejected leaves nothing that a later flush could take for data.
OnlyDue == \A b \in Blocks, i \in Positions : i \in pool[b] \/ i \in tile[b] => Due(b, i)

\* The pages of a step reach past its tokens by what the drafter proposes.
PassAhead == \A r \in Batch : computed[r] + q[r] + Lookahead <= Len(row[r]) * PageTok

\* After build no block of the step is retired.
BuiltInv == phase = "forward" =>
  /\ recycled = {} /\ retired \cap Written = {}
  /\ \A r \in Running \ Batch : MayIdle(r)

\* The block a request is in the middle of is not retired, so no pass evicts it.
TailsLive == \A r \in Req, k \in Nat :
  k * G < computed[r] /\ computed[r] < (k + 1) * G => Blk(r, k) \notin retired

Later ==
  /\ Batch = {} /\ recycled = {} /\ TailsLive
  /\ \A r \in drafting : computed[r] + Lookahead <= Len(row[r]) * PageTok

DraftInv ==
  /\ pass \in Nat /\ pass < Passes /\ drafting \subseteq Req
  /\ PassAhead /\ BuiltInv /\ (pass > 0 => Later)

DraftAll == AllInv /\ RetiredInv /\ OnlyDue /\ DraftInv

(* Nothing that is not due is left behind.                                 *)

\* What stays due as long as its bytes are there.
LEMMA DueStays ==
  ASSUME OnlyDue,
         \A b \in Blocks, i \in Positions : i \in pool'[b] \/ i \in tile'[b] =>
           Due(b, i)' \/ ((i \in pool[b] \/ i \in tile[b]) /\ (Due(b, i) => Due(b, i)'))
  PROVE  OnlyDue'
  BY DEF OnlyDue, Blocks, Positions

LEMMA LeaveOnlyDue ==
  ASSUME DataInv, OnlyDue, NEW r \in Req, Leave(r)
  PROVE  OnlyDue'
<1>1. RowInv /\ TypeInv /\ Sharing /\ Holding /\ phase = "schedule"
  BY DEF DataInv, Leave
<1>2. /\ row' = [row EXCEPT ![r] = <<>>] /\ computed' = [computed EXCEPT ![r] = 0]
      /\ UNCHANGED <<q, acc, hash, foreign, phase, allocVars, recycled>> /\ q[r] = 0
  BY DEF Leave
<1>3. \A s \in Req \ {r} : row'[s] = row[s] /\ computed'[s] = computed[s]
  BY <1>1, <1>2 DEF RowInv, Types
<1>4. Batch' = Batch /\ \A s \in Batch : s \in Req \ {r}
  BY <1>2 DEF Batch
<1>5. BeingWritten' = BeingWritten
  BY <1>3, <1>4 DEF BeingWritten, PageTok
<1> DEFINE gone == {p \in PagesOf(r) : hash[p] = 0}
<1> SUFFICES ASSUME NEW b \in Blocks, NEW i \in Positions, i \in pool'[b] \/ i \in tile'[b]
             PROVE  (i \in pool[b] \/ i \in tile[b]) /\ (Due(b, i) => Due(b, i)')
  BY DueStays
<1>6. b \notin BlocksOf(gone) /\ (i \in pool[b] \/ i \in tile[b])
  BY DEF Leave
<1>7. Settled(PageOf(b)) => Settled(PageOf(b))'
  BY <1>2, <1>5 DEF Settled, PageOf
<1>8. ASSUME NEW s \in Req \ {r}, DueTo(s, b, i) PROVE DueTo(s, b, i)'
  BY <1>3, <1>8 DEF DueTo, Blk
<1>9. ASSUME DueTo(r, b, i) PROVE Settled(PageOf(b))
  <2>1. PICK k \in Nat : b = Blk(r, k) /\ k * G + i < computed[r]
    BY <1>9 DEF DueTo
  <2>2. k * G < Len(row[r]) * PageTok
    <3>1. /\ k * G \in Nat /\ i \in Nat /\ Len(row[r]) * PageTok \in Nat
          /\ computed[r] \in Nat /\ computed[r] <= Len(row[r]) * PageTok
      BY <1>1, ConstantsOK DEF RowInv, Types, PageTok, Positions, Sharing, Covered
    <3> QED BY <2>1, <3>1
  <2> DEFINE e == k \div PerPage + 1
  <2>3. e \in DOMAIN row[r] /\ PageOf(b) = row[r][e] /\ PageOf(b) \in PagesOf(r)
    BY <1>1, <2>1, <2>2, InRow
  <2> HIDE DEF e
  <2>4. hash[PageOf(b)] # 0
    BY <1>6, <2>3 DEF BlocksOf
  <2>5. ASSUME NEW s \in Batch, NEW j \in DOMAIN row[s], j * PageTok > computed[s],
               row[s][j] = PageOf(b)
        PROVE  FALSE
    <3>1. s \in Req /\ s # r
      BY <1>4
    <3>2. j * PageTok <= computed[s]
      BY <1>1, <2>3, <2>5, <3>1 DEF Sharing, Shared
    <3>3. j * PageTok \in Nat /\ computed[s] \in Nat
      BY <1>1, <3>1, ConstantsOK DEF RowInv, Types, PageTok
    <3> QED BY <2>5, <3>2, <3>3
  <2> QED BY <2>4, <2>5 DEF Settled, BeingWritten
<1> QED BY <1>6, <1>7, <1>8, <1>9 DEF Due

LEMMA ForeignOnlyDue ==
  ASSUME DataInv, OnlyDue, NEW p \in Pages, ForeignAlloc(p) \/ ForeignFree(p)
  PROVE  OnlyDue'
<1>1. RowInv /\ TypeInv
  BY DEF DataInv
<1>2. UNCHANGED <<row, computed, q>>
  BY DEF ForeignAlloc, ForeignFree
<1>3. BeingWritten' = BeingWritten
  BY <1>2 DEF BeingWritten, Batch, PageTok
<1> SUFFICES ASSUME NEW b \in Blocks, NEW i \in Positions, i \in pool'[b] \/ i \in tile'[b]
             PROVE  (i \in pool[b] \/ i \in tile[b]) /\ (Due(b, i) => Due(b, i)')
  BY DueStays
<1>4. /\ i \in pool[b] \/ i \in tile[b]
      /\ hash'[PageOf(b)] = hash[PageOf(b)]
  BY <1>1 DEF ForeignAlloc, ForeignFree, dataVars, TypeInv, TypeOK, PageOf, Blocks
<1>5. \A s \in Req : DueTo(s, b, i) => DueTo(s, b, i)'
  BY <1>2 DEF DueTo, Blk
<1>6. Settled(PageOf(b)) => Settled(PageOf(b))'
  BY <1>3, <1>4 DEF Settled, PageOf
<1> QED BY <1>4, <1>5, <1>6 DEF Due

\* Whatever a builder call flushes or clears, nothing new gets readable.
LEMMA AllocOnlyDue ==
  ASSUME OnlyDue, UNCHANGED envVars,
         \A b \in Blocks : /\ pool'[b] \subseteq pool[b]
                           /\ tile'[b] \subseteq tile[b] \cup pool[b]
  PROVE  OnlyDue'
<1>1. ASSUME NEW b \in Blocks, NEW i \in Positions PROVE Due(b, i)' = Due(b, i)
  BY DEF Due, DueTo, Settled, BeingWritten, Batch, envVars, Blk, PageOf, PageTok
<1> QED BY <1>1, DueStays

LEMMA ForwardOnlyDue ==
  ASSUME DataInv, OnlyDue, Forward
  PROVE  OnlyDue'
<1>1. RowInv /\ TypeInv
  BY DEF DataInv
<1>2. /\ row' = row /\ hash' = hash /\ tile' = tile
      /\ computed' = [r \in Req |-> computed[r] + acc[r]] /\ q' = [r \in Req |-> 0]
  BY DEF Forward
<1>3. BeingWritten' = {}
  <2>1. Batch' = {}
    BY <1>2 DEF Batch
  <2> QED BY <2>1 DEF BeingWritten
<1>4. \A r \in Req : /\ computed[r] \in Nat /\ acc[r] \in Nat
                     /\ computed'[r] = computed[r] + acc[r]
  BY <1>1, <1>2 DEF RowInv, Types
<1> SUFFICES ASSUME NEW b \in Blocks, NEW i \in Positions, i \in pool'[b] \/ i \in tile'[b]
             PROVE  \/ Due(b, i)'
                    \/ (i \in pool[b] \/ i \in tile[b]) /\ (Due(b, i) => Due(b, i)')
  BY DueStays
<1>5. (i \in pool[b] \/ i \in tile[b]) \/ i \in AcceptedAt(b)
  BY <1>2 DEF Forward
<1>6. CASE i \in AcceptedAt(b)
  <2>1. PICK r \in Batch : \E k \in Low(r) .. High(r) :
          b = Blk(r, k) /\ k * G + i < computed[r] + acc[r]
    BY <1>6 DEF AcceptedAt
  <2>2. PICK k \in Low(r) .. High(r) : b = Blk(r, k) /\ k * G + i < computed[r] + acc[r]
    BY <2>1
  <2>3. r \in Req /\ k \in Nat
    BY <1>1, StepBlock
  <2>4. DueTo(r, b, i)'
    BY <1>2, <1>4, <2>2, <2>3 DEF DueTo, Blk
  <2> QED BY <2>3, <2>4 DEF Due
<1>7. ASSUME NEW s \in Req, DueTo(s, b, i) PROVE DueTo(s, b, i)'
  <2>1. PICK k \in Nat : b = Blk(s, k) /\ k * G + i < computed[s]
    BY <1>7 DEF DueTo
  <2>2. k * G + i < computed'[s]
    <3>1. k * G + i \in Nat
      BY ConstantsOK DEF Positions
    <3> QED BY <1>4, <2>1, <3>1
  <2> QED BY <1>2, <2>1, <2>2 DEF DueTo, Blk
<1>8. Settled(PageOf(b)) => Settled(PageOf(b))'
  BY <1>2, <1>3 DEF Settled, PageOf
<1> QED BY <1>5, <1>6, <1>7, <1>8 DEF Due
LEMMA GrantOnlyDue ==
  ASSUME DataInv, OnlyDue, phase = "schedule", NEW r \in Req,
         NEW base \in Seq(Pages), NEW m \in Nat, NEW start \in Nat,
         NEW n \in Nat \ {0}, NEW d \in Nat, NEW a \in n .. n + d, NEW new \in NewPages(m),
         Granting(r, base, m, new, start, n, d, a)
  PROVE  OnlyDue'
<1> DEFINE pages == base \o new
           l == Len(base)
           Fresh == {new[j] : j \in 1 .. m}
<1>1. /\ RowInv /\ TypeInv /\ Sharing /\ GrantBase(r, base, start)
      /\ Grant(r, base, start, n, d, a, new) /\ q[r] = 0
      /\ \A k \in Nat : \A i \in Positions : k * G + i < computed[r] =>
           k * G + i < start /\ Blk(r, k) = <<base[k \div PerPage + 1], k % PerPage>>
  BY DEF DataInv, Granting
<1>2. Granted(pages, base, l, m, Fresh, start, n)
  BY <1>1, GrantPages DEF Granting
<1>3. /\ row' = [row EXCEPT ![r] = pages] /\ computed' = [computed EXCEPT ![r] = start]
      /\ q' = [q EXCEPT ![r] = n + d]
  BY <1>1 DEF Grant
<1>4. DOMAIN base = 1 .. l /\ DOMAIN new = 1 .. m /\ l \in Nat /\ PageTok \in Nat \ {0}
  <2>1. DOMAIN new = 1 .. m
    BY DEF NewPages
  <2> QED BY <2>1, ConstantsOK DEF PageTok
<1>5. ASSUME NEW b \in Blocks, NEW i \in Positions, i \in pool'[b] \/ i \in tile'[b]
      PROVE  (i \in pool[b] \/ i \in tile[b]) /\ PageOf(b) \notin Fresh
  <2>1. b \notin BlocksOf({new[j] : j \in DOMAIN new}) /\ (i \in pool[b] \/ i \in tile[b])
    BY <1>1, <1>5 DEF Grant
  <2> QED BY <1>4, <2>1 DEF BlocksOf
<1> HIDE DEF pages, l, Fresh
<1>6. /\ row'[r] = pages /\ computed'[r] = start
      /\ \A s \in Req \ {r} : row'[s] = row[s] /\ computed'[s] = computed[s] /\ q'[s] = q[s]
  BY <1>1, <1>3 DEF RowInv, Types
<1>7. /\ \A i \in 1 .. l : hash[base[i]] # 0 => hash[base[i]] = i /\ i * PageTok <= start
      /\ start <= l * PageTok
  BY <1>1, <1>4 DEF GrantBase, l
<1>8. \A i \in 1 .. l + m : i \in Nat \ {0} /\ i * PageTok \in Nat /\ (i \in 1 .. l \/ i > l)
  <2>1. \A i \in Nat : i * PageTok \in Nat
    BY <1>4
  <2> QED BY <1>4, <2>1
<1>9. /\ DOMAIN pages = 1 .. l + m
      /\ \A i \in 1 .. l : i \in 1 .. l + m /\ pages[i] = base[i]
      /\ \A i \in 1 .. l + m : i > l => pages[i] \in Fresh
      /\ \A i \in 1 .. l + m : hash'[pages[i]] =
           IF i * PageTok <= start + n THEN i ELSE IF i > l THEN 0 ELSE hash[base[i]]
      /\ \A p \in Pages : (\A i \in 1 .. l + m : pages[i] # p) => hash'[p] = hash[p]
  BY <1>2 DEF Granted
\* A page that is in the prefix cache stays there, unless it is given to r anew.
<1>10. ASSUME NEW p \in Pages, p \notin Fresh, Settled(p) PROVE Settled(p)'
  <2>1. hash[p] # 0 /\ p \notin BeingWritten
    BY <1>10 DEF Settled
  <2>2. ASSUME NEW e \in 1 .. l + m, pages[e] = p
        PROVE  e * PageTok <= start /\ hash'[p] # 0
    <3>1. e \in 1 .. l /\ base[e] = p
      BY <1>8, <1>9, <1>10, <2>2
    <3>2. hash[p] = e /\ e * PageTok <= start
      BY <1>7, <2>1, <3>1
    <3> QED BY <1>8, <1>9, <2>1, <2>2, <3>1, <3>2
  <2>3. hash'[p] # 0
    BY <1>9, <2>1, <2>2
  <2>4. ASSUME NEW s \in Batch', NEW j \in DOMAIN row'[s], j * PageTok > computed'[s],
               row'[s][j] = p
        PROVE  FALSE
    <3>1. s \in Req
      BY DEF Batch
    <3>2. CASE s = r
      <4>1. j \in 1 .. l + m /\ pages[j] = p /\ j * PageTok > start
        BY <1>6, <1>9, <2>4, <3>2
      <4> QED BY <1>8, <2>2, <4>1
    <3>3. CASE s # r
      <4>1. /\ s \in Batch /\ j \in DOMAIN row[s] /\ j * PageTok > computed[s]
            /\ row[s][j] = p
        BY <1>6, <2>4, <3>1, <3>3 DEF Batch
      <4> QED BY <2>1, <4>1 DEF BeingWritten
    <3> QED BY <3>2, <3>3
  <2>5. p \notin BeingWritten'
    BY <2>4 DEF BeingWritten, PageTok
  <2> QED BY <2>3, <2>5 DEF Settled
<1> SUFFICES ASSUME NEW b \in Blocks, NEW i \in Positions, i \in pool'[b] \/ i \in tile'[b]
             PROVE  (i \in pool[b] \/ i \in tile[b]) /\ (Due(b, i) => Due(b, i)')
  BY DueStays
<1>11. Settled(PageOf(b)) => Settled(PageOf(b))'
  BY <1>5, <1>10 DEF PageOf, Blocks
<1>12. ASSUME NEW s \in Req \ {r}, DueTo(s, b, i) PROVE DueTo(s, b, i)'
  BY <1>6, <1>12 DEF DueTo, Blk
<1>13. ASSUME DueTo(r, b, i) PROVE DueTo(r, b, i)'
  <2>1. PICK k \in Nat : b = Blk(r, k) /\ k * G + i < computed[r]
    BY <1>13 DEF DueTo
  <2> DEFINE e == k \div PerPage
  <2>2. k * G + i < start /\ b = <<base[e + 1], k % PerPage>>
    BY <1>1, <2>1
  <2>3. e \in Nat /\ e * PageTok <= k * G
    BY BlockPage
  <2> HIDE DEF e
  <2>4. e < l
    <3>1. k * G \in Nat /\ i \in Nat /\ l * PageTok \in Nat
      BY <1>4, ConstantsOK DEF Positions
    <3>2. k * G < l * PageTok
      BY <1>7, <2>2, <3>1
    <3> QED BY <1>4, <2>3, <3>1, <3>2, PageOrder
  <2>5. e + 1 \in 1 .. l
    BY <1>4, <2>3, <2>4
  <2>6. Blk(r, k)' = b
    BY <1>6, <1>9, <2>2, <2>5 DEF Blk, e
  <2> QED BY <1>6, <2>2, <2>6 DEF DueTo
<1> QED BY <1>5, <1>11, <1>12, <1>13 DEF Due

LEMMA NextOnlyDue ==
  ASSUME DataInv, OnlyDue, Next
  PROVE  OnlyDue'
<1>1. ASSUME NEW r \in Req, Admit(r) \/ Schedule(r) PROVE OnlyDue'
  <2>1. phase = "schedule"
    BY <1>1 DEF Admit, Schedule
  <2>2. PICK base \in Seq(Pages), m \in Nat, start \in Nat, n \in Nat \ {0}, d \in Nat :
          \E a \in n .. n + d, new \in NewPages(m) : Granting(r, base, m, new, start, n, d, a)
    BY <1>1, AdmitGrants, ScheduleGrants
  <2>3. PICK a \in n .. n + d, new \in NewPages(m) : Granting(r, base, m, new, start, n, d, a)
    BY <2>2
  <2> QED BY <2>1, <2>3, GrantOnlyDue
<1>2. CASE Build
  <2>1. CASE UNCHANGED dataVars
    <3>1. pool' = pool /\ tile' = tile
      BY <2>1 DEF dataVars
    <3> QED BY <1>2, <3>1, AllocOnlyDue DEF Build
  <2>2. ASSUME NEW evicted \in Evictions(Short, Spare), Allocate(evicted, Short)
        PROVE  OnlyDue'
    <3>1. \A b \in Blocks : /\ pool'[b] \subseteq pool[b]
                            /\ tile'[b] \subseteq tile[b] \cup pool[b]
      BY <2>2 DEF Allocate
    <3> QED BY <1>2, <3>1, AllocOnlyDue DEF Build
  <2> QED BY <1>2, <2>1, <2>2 DEF Build
<1> QED BY <1>1, <1>2, LeaveOnlyDue, ForeignOnlyDue, ForwardOnlyDue DEF Next

-----------------------------------------------------------------------------
(* The drafter's state in the steps of the engine.                         *)

LEMMA GrantAhead ==
  ASSUME DataInv, PassAhead, NEW r \in Req,
         NEW base \in Seq(Pages), NEW m \in Nat, NEW start \in Nat,
         NEW n \in Nat \ {0}, NEW d \in Nat, NEW a \in n .. n + d, NEW new \in NewPages(m),
         Granting(r, base, m, new, start, n, d, a)
  PROVE  PassAhead'
<1> DEFINE pages == base \o new
           x == start + n + d + Lookahead
<1>1. /\ row' = [row EXCEPT ![r] = pages] /\ computed' = [computed EXCEPT ![r] = start]
      /\ q' = [q EXCEPT ![r] = n + d] /\ Len(pages) = PagesFor(x)
  BY DEF Granting, Grant
<1>2. x \in Nat /\ PageTok \in Nat \ {0} /\ x = start + (n + d) + Lookahead
  BY ConstantsOK DEF PageTok
<1> HIDE DEF x, pages
<1>3. x <= PagesFor(x) * PageTok
  BY <1>2, PagesForBound
<1>4. /\ row'[r] = pages /\ computed'[r] = start /\ q'[r] = n + d
      /\ \A s \in Req \ {r} : row'[s] = row[s] /\ computed'[s] = computed[s] /\ q'[s] = q[s]
  BY <1>1 DEF DataInv, RowInv, Types
<1> SUFFICES ASSUME NEW s \in Req, q'[s] > 0
             PROVE  computed'[s] + q'[s] + Lookahead <= Len(row'[s]) * PageTok
  BY DEF PassAhead, Batch, PageTok
<1>5. CASE s = r
  BY <1>1, <1>2, <1>3, <1>4, <1>5
<1>6. CASE s # r
  BY <1>4, <1>6 DEF PassAhead, Batch
<1> QED BY <1>5, <1>6

\* What build retires, and what it leaves retired, the step does not write.
LEMMA BuildUnretires ==
  ASSUME NEW evicted \in Evictions(Short, Spare), Allocate(evicted, Short)
  PROVE  retired' \cap Written = {}
<1>1. retired' \subseteq AllRetired
  BY DEF Allocate
<1> QED BY <1>1 DEF AllRetired, LiveRetired, Retiring, Complete, Unneeded, Needed

LEMMA PlanDraft ==
  ASSUME DraftAll, Plan
  PROVE  DraftInv'
<1>1. /\ DataInv /\ RowInv /\ DraftInv /\ pass = 0 /\ pass' = 0 /\ drafting' = drafting
  BY DEF DraftAll, AllInv, DataInv, Plan
<1>2. \/ \E r \in Req : Admit(r) \/ Schedule(r) \/ Leave(r)
      \/ \E p \in Pages : ForeignAlloc(p) \/ ForeignFree(p)
      \/ Build
  BY DEF Plan
<1>3. PassAhead'
  <2>1. ASSUME NEW r \in Req, Admit(r) \/ Schedule(r) PROVE PassAhead'
    <3>1. PICK base \in Seq(Pages), m \in Nat, start \in Nat, n \in Nat \ {0}, d \in Nat :
            \E a \in n .. n + d, new \in NewPages(m) : Granting(r, base, m, new, start, n, d, a)
      BY <1>1, <2>1, AdmitGrants, ScheduleGrants
    <3>2. PICK a \in n .. n + d, new \in NewPages(m) : Granting(r, base, m, new, start, n, d, a)
      BY <3>1
    <3> QED BY <1>1, <3>2, GrantAhead DEF DraftInv
  <2>2. ASSUME NEW r \in Req, Leave(r) PROVE PassAhead'
    <3>1. /\ row' = [row EXCEPT ![r] = <<>>] /\ computed' = [computed EXCEPT ![r] = 0]
          /\ q' = q /\ q[r] = 0
      BY <2>2 DEF Leave
    <3>2. \A s \in Req \ {r} : row'[s] = row[s] /\ computed'[s] = computed[s]
      BY <1>1, <3>1 DEF RowInv, Types
    <3>3. Batch' = Batch /\ Batch \subseteq Req \ {r}
      BY <3>1 DEF Batch
    <3> QED BY <1>1, <3>1, <3>2, <3>3 DEF DraftInv, PassAhead, PageTok
  <2>3. CASE UNCHANGED <<row, computed, q>>
    BY <1>1, <2>3 DEF DraftInv, PassAhead, Batch, PageTok
  <2> QED BY <1>2, <2>1, <2>2, <2>3 DEF ForeignAlloc, ForeignFree, Build, envVars
<1>4. BuiltInv'
  <2> SUFFICES ASSUME phase' = "forward"
               PROVE  /\ recycled' = {} /\ (retired \cap Written)' = {}
                      /\ \A r \in (Running \ Batch)' : MayIdle(r)'
    BY DEF BuiltInv
  <2>1. Build
    BY <1>2 DEF Admit, Schedule, Grant, Leave, ForeignAlloc, ForeignFree
  <2>2. /\ UNCHANGED envVars /\ recycled' = {} /\ \A r \in Running \ Batch : MayIdle(r)
        /\ \E evicted \in Evictions(Short, Spare) : Allocate(evicted, Short)
    BY <2>1 DEF Build
  <2>3. /\ Written' = Written /\ Batch' = Batch /\ Running' = Running
        /\ \A r \in Req : MayIdle(r)' = MayIdle(r)
    BY <2>2
    DEF envVars, Written, Writes, Batch, Low, High, Blk, Running, MayIdle, PageTok
  <2> QED BY <2>2, <2>3, BuildUnretires DEF Running
<1> QED BY <1>1, <1>3, <1>4 DEF DraftInv

LEMMA FirstForwardDraft ==
  ASSUME DraftAll, FirstForward
  PROVE  DraftInv'
<1>1. /\ RowInv /\ TypeInv /\ Sharing /\ Holding /\ DraftInv /\ Forward /\ phase = "forward"
  BY DEF DraftAll, AllInv, DataInv, FirstForward, Forward
<1>2. /\ row' = row /\ recycled' = recycled /\ retired' = retired
      /\ computed' = [r \in Req |-> computed[r] + acc[r]] /\ phase' = "schedule"
      /\ q' = [r \in Req |-> 0]
  BY <1>1 DEF Forward, allocVars
<1>3. /\ recycled = {} /\ retired \cap Written = {} /\ PassAhead
      /\ \A r \in Running \ Batch : MayIdle(r)
  BY <1>1 DEF DraftInv, BuiltInv
<1>4. Batch' = {}
  BY <1>2 DEF Batch
<1>5. \A r \in Req : /\ computed[r] \in Nat /\ acc[r] \in Nat /\ q[r] \in Nat
                     /\ acc[r] <= q[r] /\ computed'[r] = computed[r] + acc[r]
                     /\ Len(row[r]) \in Nat
  BY <1>1, <1>2 DEF RowInv, Types, TypeInv, TypeOK
<1>6. pass' \in Nat /\ pass' < Passes /\ drafting' \subseteq Batch /\ drafting' \subseteq Req
  <2>1. 1 % Passes \in 0 .. Passes - 1
    BY PassesOK
  <2> QED BY <2>1, PassesOK DEF FirstForward, Batch
<1>7. TailsLive'
  <2> SUFFICES ASSUME NEW r \in Req, NEW k \in Nat,
                      k * G < computed'[r], computed'[r] < (k + 1) * G
               PROVE  Blk(r, k) \notin retired
    BY <1>2 DEF TailsLive, Blk
  <2>1. k * G \in Nat /\ (k + 1) * G \in Nat
    BY ConstantsOK
  <2>2. CASE r \in Batch
    <3>1. computed[r] < (k + 1) * G /\ k * G < computed[r] + q[r]
      BY <1>5, <2>1
    <3>2. k \in Low(r) .. High(r)
      BY <1>1, <2>2, <3>1, InStep
    <3> QED BY <1>3, <2>2, <3>2 DEF Written, Writes
  <2>3. CASE r \notin Batch
    <3>1. computed'[r] = computed[r]
      BY <1>5, <2>3 DEF Batch
    <3> QED BY <1>1, <1>3, <2>3, <3>1, IdleWhole DEF Sharing
  <2> QED BY <2>2, <2>3
<1>8. ASSUME NEW r \in drafting'
      PROVE  computed'[r] + Lookahead <= Len(row'[r]) * PageTok
  <2>1. r \in Req /\ computed[r] + q[r] + Lookahead <= Len(row[r]) * PageTok
    BY <1>3, <1>6, <1>8 DEF PassAhead
  <2>2. Len(row[r]) * PageTok \in Nat /\ Lookahead \in Nat
    <3>1. PageTok \in Nat /\ Lookahead \in Nat
      BY ConstantsOK DEF PageTok
    <3> QED BY <1>5, <2>1, <3>1
  <2> QED BY <1>2, <1>5, <2>1, <2>2
<1>9. PassAhead' /\ BuiltInv'
  BY <1>2, <1>4 DEF PassAhead, BuiltInv
<1> QED BY <1>2, <1>3, <1>4, <1>6, <1>7, <1>8, <1>9 DEF DraftInv, Later, PageTok

-----------------------------------------------------------------------------
(* A later pass.                                                           *)

\* Between the steps nothing is due behind what a request has computed.
LEMMA NotComputedNotDue ==
  ASSUME RowInv, TypeInv, Sharing, Batch = {}, NEW r \in Req, NEW k \in Nat,
         NEW i \in Positions, k * G < Len(row[r]) * PageTok,
         computed[r] <= k * G + i
  PROVE  ~Due(Blk(r, k), i)
<1>1. G \in Nat \ {0} /\ i \in 0 .. G - 1 /\ \A s \in Req : computed[s] \in Nat
  BY ConstantsOK DEF Positions, RowInv, Types
<1> DEFINE e == k \div PerPage
           x == (k + 1) * G
           y == (e + 1) * PageTok
           z == k * G
<1>2. /\ z \in Nat /\ x \in Nat /\ x = z + G /\ e \in Nat /\ x <= y
      /\ e + 1 \in DOMAIN row[r] /\ PageOf(Blk(r, k)) = row[r][e + 1]
  <2>1. z \in Nat /\ x = z + G
    BY <1>1, Z3
  <2>2. e \in Nat /\ x <= y
    BY BlockPage
  <2>3. e + 1 \in DOMAIN row[r] /\ PageOf(Blk(r, k)) = row[r][e + 1]
    BY InRow
  <2> HIDE DEF x, y, z, e
  <2> QED BY <1>1, <2>1, <2>2, <2>3
<1>3. y \in Nat
  <2>1. PageTok \in Nat
    BY ConstantsOK DEF PageTok
  <2> QED BY <1>2, <2>1
<1>4. computed[r] < x
  BY <1>1, <1>2
<1>5. ASSUME NEW s \in Req, NEW j \in Nat, Blk(r, k) = Blk(s, j), j * G + i < computed[s]
      PROVE  FALSE
  <2>1. j * G < Len(row[s]) * PageTok
    <3>1. j * G \in Nat /\ Len(row[s]) * PageTok \in Nat
      BY ConstantsOK DEF RowInv, Types, PageTok
    <3> QED BY <1>1, <1>5, <3>1 DEF Sharing, Covered
  <2>2. k = j /\ (r = s \/ y <= computed[r])
    BY <1>5, <2>1, SameBlock DEF Sharing
  <2> HIDE DEF x, y, z
  <2>3. r = s
    BY <1>1, <1>2, <1>3, <1>4, <2>2
  <2> QED BY <1>1, <1>2, <1>5, <2>2, <2>3 DEF z
<1>6. ~Settled(PageOf(Blk(r, k)))
  <2> SUFFICES ASSUME hash[row[r][e + 1]] # 0 PROVE FALSE
    BY <1>2 DEF Settled
  <2>1. y <= computed[r] + acc[r]
    BY <1>2 DEF Sharing, Hashed
  <2>2. acc[r] = 0
    BY DEF TypeInv, TypeOK, RowInv, Types, Batch
  <2> HIDE DEF x, y, z
  <2> QED BY <1>1, <1>2, <1>3, <1>4, <2>1, <2>2
<1> QED BY <1>5, <1>6 DEF Due, DueTo

\* Where a pass writes its token.
LEMMA DraftPlace ==
  ASSUME DraftAll, pass > 0, NEW r \in drafting
  PROVE  LET k == DraftPos(r) \div G
             i == DraftPos(r) % G
         IN /\ r \in Req /\ k \in Nat /\ i \in Positions /\ DraftTail(r) = Blk(r, k)
            /\ DraftPos(r) \in Nat /\ computed[r] <= DraftPos(r) /\ DraftPos(r) = k * G + i
            /\ k * G < Len(row[r]) * PageTok
            /\ Blk(r, k) \in Blocks /\ PageOf(Blk(r, k)) \notin foreign
            /\ \A j \in Positions : Due(Blk(r, k), j) => j < i
<1> DEFINE t == DraftPos(r)
           k == t \div G
           i == t % G
           n == Len(row[r]) * PageTok
<1>1. /\ RowInv /\ TypeInv /\ Sharing /\ DraftInv /\ Later /\ r \in Req
  BY DEF DraftAll, AllInv, DataInv, DraftInv
<1>2. /\ computed[r] \in Nat /\ computed[r] + Lookahead <= n /\ Lookahead \in Nat
      /\ n \in Nat /\ pass \in Nat /\ pass - 1 < Lookahead + 1
      /\ pass <= Lookahead /\ G \in Nat \ {0}
  <2>1. Len(row[r]) \in Nat /\ PageTok \in Nat /\ computed[r] \in Nat
    BY <1>1, ConstantsOK DEF RowInv, Types, PageTok
  <2> QED BY <1>1, <2>1, ConstantsOK, PassesOK DEF DraftInv, Later
<1>3. t \in Nat /\ computed[r] <= t /\ t < n
  <2>1. t = computed[r] + pass - 1
    BY DEF DraftPos
  <2> HIDE DEF t, n
  <2> QED BY <1>2, <2>1
<1> HIDE DEF t, n
<1>4. k \in Nat /\ i \in 0 .. G - 1 /\ t = k * G + i
  BY <1>2, <1>3, Z3
<1> HIDE DEF k, i
<1>5. k * G \in Nat /\ k * G < n
  BY <1>2, <1>3, <1>4
<1>6. Blk(r, k) \in Blocks /\ PageOf(Blk(r, k)) \notin foreign
  BY <1>1, <1>4, <1>5, InRow DEF n
<1>7. ASSUME NEW j \in Positions, Due(Blk(r, k), j) PROVE j < i
  <2>1. ~(computed[r] <= k * G + j)
    BY <1>1, <1>4, <1>5, <1>7, NotComputedNotDue DEF n, Later
  <2>2. j \in Nat
    BY <1>2 DEF Positions
  <2> QED BY <1>2, <1>3, <1>4, <1>5, <2>1, <2>2
<1>8. DraftTail(r) = Blk(r, k) /\ i \in Positions
  BY <1>4 DEF DraftTail, k, t, Positions
<1> QED BY <1>1, <1>3, <1>4, <1>5, <1>6, <1>7, <1>8 DEF k, i, t, n

\* A pass stores over nothing that is due, and counts all that is.
LEMMA DraftOverDue ==
  ASSUME DraftAll, pass > 0, NEW b \in Blocks, NEW j \in Positions, Due(b, j)
  PROVE  j \notin ProposedAt(b) /\ (j < fill[b] => j < DraftFill(b))
<1>1. ASSUME NEW r \in drafting, b = DraftTail(r)
      PROVE  j < DraftPos(r) % G /\ DraftPos(r) % G \in 0 .. G - 1
  BY <1>1, DraftPlace DEF Positions
<1>2. j \in Nat /\ G \in Nat \ {0}
  BY ConstantsOK DEF Positions
<1>3. j \notin ProposedAt(b)
  BY <1>1, <1>2 DEF ProposedAt
<1>4. CASE b \in DraftTails
  <2> DEFINE P(n) == \E r \in drafting : b = DraftTail(r) /\ n = (DraftPos(r) % G) + 1
  <2>1. \E n \in 1 .. G : P(n)
    BY <1>1, <1>2, <1>4 DEF DraftTails
  <2>2. \A n \in 1 .. G : P(n) => j < n
    BY <1>1, <1>2
  <2>3. DraftFill(b) = CHOOSE n \in 1 .. G : P(n)
    BY <1>4 DEF DraftFill
  <2> HIDE DEF P
  <2>4. j < (CHOOSE n \in 1 .. G : P(n))
    BY <2>1, <2>2
  <2> QED BY <1>3, <2>3, <2>4
<1>5. CASE b \notin DraftTails
  BY <1>3, <1>5 DEF DraftFill
<1> QED BY <1>4, <1>5

\* The builder of a later pass: what it allocates, and what makes room for it.
LEMMA DraftParts ==
  ASSUME DraftAll, LaterPass, NEW evicted \in Evictions(DraftShort, DraftRetired),
         DraftAllocate(evicted)
  PROVE  /\ evicted \subseteq retired /\ evicted \subseteq resident
         /\ evicted \cap DraftNeeded = {}
         /\ DraftWanting \subseteq DraftTails /\ DraftWanting \cap resident = {}
         /\ DraftTails \subseteq DraftNeeded
         /\ DraftTails \subseteq Blocks /\ \A b \in DraftTails : PageOf(b) \notin foreign
         /\ resident' = (resident \ evicted) \cup DraftWanting
         /\ DraftTails \subseteq resident'
         /\ recycled = {} /\ recycled' = {} /\ UNCHANGED envVars
<1>1. /\ RetiredInv /\ Later /\ SinksHeld /\ pass > 0 /\ drafting \subseteq Req
  BY DEF DraftAll, AllInv, DataInv, Holding, DraftInv, LaterPass
<1>2. evicted \subseteq DraftRetired
  BY DEF Evictions
<1>3. evicted \subseteq retired /\ evicted \subseteq resident /\ evicted \cap DraftNeeded = {}
  BY <1>1, <1>2 DEF DraftRetired, RetiredInv, RetiredAreResidentSinks
<1>4. DraftWanting \subseteq DraftTails /\ DraftWanting \cap resident = {}
  BY <1>1 DEF DraftWanting, DraftNeeded, SinksHeld
<1>5. DraftTails \subseteq Blocks /\ \A b \in DraftTails : PageOf(b) \notin foreign
  BY <1>1, DraftPlace DEF DraftTails
<1>6. resident' = (resident \ evicted) \cup DraftWanting
  BY DEF DraftAllocate, DraftWalk
<1>7. DraftTails \subseteq DraftNeeded /\ DraftTails \subseteq resident'
  BY <1>3, <1>6 DEF DraftWanting, DraftNeeded
<1> QED BY <1>1, <1>3, <1>4, <1>5, <1>6, <1>7 DEF Later, LaterPass

LEMMA PassSlots ==
  ASSUME DraftAll, LaterPass, NEW evicted \in Evictions(DraftShort, DraftRetired),
         DraftAllocate(evicted)
  PROVE  SlotInv'
<1>1. /\ evicted \subseteq resident /\ DraftWanting \subseteq Blocks
      /\ DraftWanting \cap resident = {} /\ resident \subseteq Blocks
      /\ resident' = (resident \ evicted) \cup DraftWanting
  BY DraftParts DEF DraftAll, AllInv, DataInv, RowInv, Types
<1>2. /\ IsFiniteSet(resident) /\ IsFiniteSet(evicted) /\ IsFiniteSet(DraftWanting)
      /\ IsFiniteSet(resident \ evicted)
  <2>1. evicted \subseteq Blocks /\ resident \ evicted \subseteq Blocks
    BY <1>1
  <2> QED BY <1>1, <2>1, BlocksFinite, FS_Subset
<1>3. /\ Cardinality(resident) \in Nat /\ Cardinality(evicted) \in Nat
      /\ Cardinality(DraftWanting) \in Nat /\ Cardinality(resident \ evicted) \in Nat
  BY <1>2, FS_CardinalityType
<1>4. Cardinality(resident) = Cardinality(resident \ evicted) + Cardinality(evicted)
  <2>1. /\ resident = (resident \ evicted) \cup evicted
        /\ (resident \ evicted) \cap evicted = {}
    BY <1>1
  <2>2. Cardinality((resident \ evicted) \cup evicted)
          = Cardinality(resident \ evicted) + Cardinality(evicted)
    BY <1>2, <2>1, CardinalityDisjoint
  <2> QED BY <2>1, <2>2
<1>5. Cardinality(resident') = Cardinality(resident \ evicted) + Cardinality(DraftWanting)
  <2>1. (resident \ evicted) \cap DraftWanting = {}
    BY <1>1
  <2> QED BY <1>1, <1>2, <2>1, CardinalityDisjoint
<1>6. /\ free_slots \in Nat /\ PoolSize \in Nat
      /\ Cardinality(resident) + free_slots = PoolSize
  BY ConstantsOK DEF DraftAll, AllInv, SlotInv, NoSlotLeak
<1>7. /\ DraftShort = Cardinality(DraftWanting) - free_slots
      /\ free_slots' = Cardinality(evicted) - DraftShort
      /\ IF DraftShort <= 0 THEN evicted = {} ELSE Cardinality(evicted) = DraftShort
  <2>1. Cardinality(DraftWalk) = 0
    BY FS_EmptySet DEF DraftWalk
  <2> QED BY <1>3, <1>6, <2>1 DEF DraftShort, DraftAllocate, Evictions
<1>8. evicted = {} => Cardinality(evicted) = 0
  BY FS_EmptySet
<1>9. Cardinality(resident') + free_slots' = PoolSize /\ Cardinality(resident') \in Nat
  BY <1>3, <1>4, <1>5, <1>6, <1>7
<1>10. free_slots' >= 0 /\ free_slots' \in Int
  BY <1>3, <1>6, <1>7, <1>8
<1> QED BY <1>6, <1>9, <1>10 DEF SlotInv, NoSlotLeak

LEMMA PassPages ==
  ASSUME DraftAll, LaterPass, NEW evicted \in Evictions(DraftShort, DraftRetired),
         DraftAllocate(evicted)
  PROVE  PageInv' /\ RetiredInv'
<1>1. /\ RowInv /\ Announced /\ ForeignPagesIntact /\ RetiredInv
      /\ evicted \subseteq retired /\ evicted \subseteq resident
      /\ DraftWanting \subseteq DraftTails /\ DraftTails \subseteq Blocks
      /\ \A b \in DraftTails : PageOf(b) \notin foreign
      /\ DraftTails \subseteq DraftNeeded
      /\ resident' = (resident \ evicted) \cup DraftWanting
      /\ recycled = {} /\ recycled' = {} /\ UNCHANGED envVars
  BY DraftParts DEF DraftAll, AllInv, DataInv, PageInv, LaterPass
<1>2. /\ row' = row /\ computed' = computed /\ q' = q /\ acc' = acc /\ foreign' = foreign
  BY <1>1 DEF envVars
<1>3. RowInv'
  BY <1>1, <1>2 DEF RowInv, Types, RowsLocal, RowsCover, PagesOf, PageTok
<1>4. \A b \in resident : PageOf(b) \notin foreign
  BY <1>1 DEF Announced
<1>5. Announced'
  BY <1>1, <1>2, <1>4 DEF Announced
<1>6. ForeignPagesIntact'
  <2>1. clobbered' = clobbered \cup ({PageOf(b) : b \in DraftTiles(evicted)} \cap foreign)
    BY DEF DraftAllocate
  <2>2. DraftTiles(evicted) = evicted
    BY DEF DraftTiles, DraftWalk
  <2> QED BY <1>1, <1>4, <2>1, <2>2 DEF ForeignPagesIntact
<1>7. RetiredInv'
  <2> SUFFICES ASSUME NEW b \in retired'
               PROVE  b \in resident' /\ b \in sinks' /\ fill'[b] >= G
    BY DEF RetiredInv, RetiredAreResidentSinks
  <2>1. /\ b \in retired /\ b \notin DraftNeeded /\ b \notin evicted
        /\ b \in resident /\ b \in sinks /\ fill[b] >= G /\ b \in Blocks
    BY <1>1 DEF DraftAllocate, DraftRetired, RetiredInv, RetiredAreResidentSinks,
                RowInv, Types
  <2>2. b \in DraftSinks
    BY <2>1 DEF DraftSinks
  <2>3. fill'[b] = fill[b]
    BY <1>1, <2>1 DEF DraftAllocate, DraftFill, DraftWalk
  <2> QED BY <1>1, <2>1, <2>2, <2>3 DEF DraftAllocate
<1> QED BY <1>3, <1>5, <1>6, <1>7 DEF PageInv

LEMMA PassTypes ==
  ASSUME DraftAll, LaterPass, NEW evicted \in Evictions(DraftShort, DraftRetired),
         DraftAllocate(evicted), phase' = phase, SlotInv', PageInv'
  PROVE  TypeInv'
<1>1. /\ TypeInv /\ TypeOK /\ UNCHANGED envVars /\ recycled' = {} /\ resident' \subseteq Blocks
      /\ DraftTails \subseteq Blocks
  BY DraftParts DEF DraftAll, AllInv, DataInv, TypeInv, PageInv, RowInv, Types, Blocks
<1>2. sinks' \subseteq Blocks /\ retired' \subseteq Blocks
  <2>1. sinks' \subseteq sinks \cup DraftTails /\ retired' \subseteq retired
    BY DEF DraftAllocate, DraftSinks, DraftRetired
  <2> QED BY <1>1, <2>1 DEF TypeOK
<1>3. \A b \in Blocks : DraftFill(b) \in 0 .. G
  <2> SUFFICES ASSUME NEW b \in Blocks PROVE DraftFill(b) \in 0 .. G
    OBVIOUS
  <2>1. CASE b \in DraftTails
    <3> DEFINE P(n) == \E r \in drafting : b = DraftTail(r) /\ n = (DraftPos(r) % G) + 1
    <3>1. PICK r \in drafting : b = DraftTail(r)
      BY <2>1 DEF DraftTails
    <3>2. DraftPos(r) % G \in 0 .. G - 1 /\ G \in Nat
      BY DraftPlace, ConstantsOK DEF LaterPass, Positions
    <3>3. \E n \in 1 .. G : P(n)
      BY <3>1, <3>2
    <3>4. DraftFill(b) = CHOOSE n \in 1 .. G : P(n)
      BY <2>1 DEF DraftFill
    <3> HIDE DEF P
    <3>5. (CHOOSE n \in 1 .. G : P(n)) \in 1 .. G
      BY <3>3
    <3> QED BY <3>2, <3>4, <3>5
  <2>2. CASE b \notin DraftTails
    BY <1>1, <2>2 DEF DraftFill, TypeOK
  <2> QED BY <2>1, <2>2
<1>4. fill' \in [Blocks -> 0 .. G]
  BY <1>3, ConstantsOK DEF DraftAllocate
<1>5. /\ pool' \in [Blocks -> SUBSET Positions] /\ tile' \in [Blocks -> SUBSET Positions]
  BY <1>1 DEF DraftAllocate, TypeOK
<1>6. clobbered' \subseteq Pages /\ free_slots' \in 0 .. PoolSize /\ recycled' \subseteq Pages
  BY <1>1 DEF PageInv, ForeignPagesIntact, SlotInv
<1>7. /\ row' = row /\ computed' = computed /\ q' = q /\ acc' = acc /\ hash' = hash
      /\ foreign' = foreign
  BY <1>1 DEF envVars
<1> QED
  BY <1>1, <1>2, <1>4, <1>5, <1>6, <1>7
  DEF TypeInv, TypeOK, MaxTokens, PageTok, Blocks, Positions

\* A tail that holds a committed token has the slot that token is in.
LEMMA DraftTailHeld ==
  ASSUME DraftAll, LaterPass, NEW b \in DraftTails, NEW i \in Positions, Due(b, i)
  PROVE  b \in resident
<1>1. PICK r \in drafting : b = DraftTail(r)
  BY DEF DraftTails
<1> DEFINE t == DraftPos(r)
           k == t \div G
           o == t % G
<1>2. /\ RowInv /\ TypeInv /\ Sharing /\ TailHeld /\ Batch = {} /\ pass > 0
  BY DEF DraftAll, AllInv, DataInv, Holding, DraftInv, Later, LaterPass
<1>3. /\ r \in Req /\ k \in Nat /\ o \in Positions /\ b = Blk(r, k)
      /\ t \in Nat /\ computed[r] <= t /\ t = k * G + o
      /\ k * G < Len(row[r]) * PageTok
  BY <1>1, <1>2, DraftPlace
<1> HIDE DEF t, k, o
<1>4. ~(computed[r] <= k * G + i)
  BY <1>2, <1>3, NotComputedNotDue
<1>5. G \in Nat \ {0} /\ i \in 0 .. G - 1 /\ o \in 0 .. G - 1 /\ computed[r] \in Nat
  BY <1>2, <1>3, ConstantsOK DEF Positions, RowInv, Types
<1>6. k * G \in Nat /\ (k + 1) * G = k * G + G
  BY <1>3, <1>5, Z3
<1>7. k * G < computed[r] /\ computed[r] < (k + 1) * G
  BY <1>3, <1>4, <1>5, <1>6
<1> QED BY <1>2, <1>3, <1>7 DEF TailHeld

LEMMA PassHolding ==
  ASSUME DraftAll, LaterPass, NEW evicted \in Evictions(DraftShort, DraftRetired),
         DraftAllocate(evicted), phase' = phase
  PROVE  Holding'
<1>1. /\ evicted \subseteq retired /\ evicted \subseteq resident
      /\ evicted \cap DraftNeeded = {} /\ DraftTails \subseteq DraftNeeded
      /\ DraftWanting \subseteq DraftTails /\ DraftWanting \cap resident = {}
      /\ resident' = (resident \ evicted) \cup DraftWanting
      /\ DraftTails \subseteq resident' /\ UNCHANGED envVars
  BY DraftParts
<1>2. /\ Holding /\ TailsLive /\ pass > 0 /\ phase = "schedule"
  BY DEF DraftAll, AllInv, DataInv, DraftInv, Later, LaterPass
<1>3. row' = row /\ computed' = computed /\ hash' = hash /\ q' = q
  BY <1>1 DEF envVars
<1>4. SinksHeld'
  <2>1. sinks' \subseteq (sinks \cup DraftTails) \ evicted
    BY DEF DraftAllocate, DraftSinks
  <2> QED BY <1>1, <1>2, <2>1 DEF Holding, SinksHeld
<1>5. TailHeld'
  <2> SUFFICES ASSUME NEW r \in Req, NEW k \in Nat,
                      k * G < computed[r], computed[r] < (k + 1) * G
               PROVE  Blk(r, k) \in resident'
    BY <1>3 DEF TailHeld, Blk
  <2>1. Blk(r, k) \in resident /\ Blk(r, k) \notin retired
    BY <1>2 DEF Holding, TailHeld, TailsLive
  <2> QED BY <1>1, <2>1
<1>6. StepHeld'
  BY <1>2 DEF StepHeld
<1>7. ASSUME NEW b \in Blocks, NEW i \in Positions PROVE Due(b, i)' = Due(b, i)
  BY <1>3 DEF Due, DueTo, Settled, BeingWritten, Batch, Blk, PageOf, PageTok
<1>8. ASSUME NEW b \in Blocks, NEW i \in Positions, Due(b, i)
      PROVE  Readable(b, i)' /\ (b \in resident' => i < fill'[b])
  <2>1. /\ Readable(b, i) /\ (b \in resident => i < fill[b])
        /\ i \notin ProposedAt(b) /\ (i < fill[b] => i < DraftFill(b))
    BY <1>2, <1>8, DraftOverDue DEF Holding, DueReadable
  <2>2. /\ tile'[b] = IF b \in evicted THEN pool[b] ELSE tile[b]
        /\ fill'[b] = IF b \in evicted THEN 0 ELSE DraftFill(b)
        /\ pool'[b] = IF b \in resident \ evicted THEN pool[b] \ ProposedAt(b) ELSE {}
    BY DEF DraftAllocate, DraftTiles, DraftWalk
  <2>3. CASE b \in evicted
    <3>1. b \notin resident' /\ b \in resident
      BY <1>1, <2>3
    <3> QED BY <2>1, <2>2, <2>3, <3>1 DEF Readable
  <2>4. CASE b \in resident /\ b \notin evicted
    BY <1>1, <2>1, <2>2, <2>4 DEF Readable
  <2>5. CASE b \notin resident
    <3>1. b \notin DraftTails
      BY <1>8, <2>5, DraftTailHeld
    <3>2. b \notin resident' /\ b \notin evicted
      BY <1>1, <2>5, <3>1
    <3> QED BY <2>1, <2>2, <2>5, <3>2 DEF Readable
  <2> QED BY <2>3, <2>4, <2>5
<1>9. DueReadable'
  BY <1>7, <1>8 DEF DueReadable, Blocks, Positions
<1> QED BY <1>4, <1>5, <1>6, <1>9 DEF Holding

LEMMA LaterPassAll ==
  ASSUME DraftAll, LaterPass
  PROVE  DraftAll'
<1>1. /\ DataInv /\ RowInv /\ TypeInv /\ Sharing /\ SlotInv /\ PageInv /\ RetiredInv
      /\ OnlyDue /\ DraftInv /\ Later /\ phase = "schedule" /\ pass > 0
      /\ UNCHANGED <<envVars, recycled>>
  BY DEF DraftAll, AllInv, DataInv, DraftInv, LaterPass
<1>2. /\ row' = row /\ computed' = computed /\ q' = q /\ acc' = acc /\ hash' = hash
      /\ foreign' = foreign /\ recycled' = recycled
  BY <1>1 DEF envVars
<1>3. Sharing'
  BY <1>1, <1>2 DEF Sharing, Shared, Hashed, Covered, Ours, PageTok
<1>4. Batch' = {} /\ retired' \subseteq retired
  <2>1. retired' \subseteq retired
    BY DEF LaterPass, DraftAllocate, DraftRetired, allocVars
  <2> QED BY <1>1, <1>2, <2>1 DEF Later, Batch
<1>5. DraftInv'
  <2>1. pass' \in Nat /\ pass' < Passes /\ drafting' \subseteq drafting
    <3>1. pass + 1 \in Nat
      BY <1>1 DEF DraftInv
    <3>2. (pass + 1) % Passes \in 0 .. Passes - 1
      BY <3>1, PassesOK
    <3> QED BY <3>2, PassesOK DEF LaterPass
  <2>2. PassAhead'
    BY <1>4 DEF PassAhead
  <2>3. BuiltInv'
    BY <1>1 DEF BuiltInv, LaterPass
  <2>4. TailsLive'
    BY <1>1, <1>2, <1>4 DEF Later, TailsLive, Blk
  <2>5. Later'
    BY <1>1, <1>2, <1>4, <2>1, <2>4 DEF Later, PageTok
  <2> QED BY <1>1, <2>1, <2>2, <2>3, <2>5 DEF DraftInv
<1>6. ASSUME NEW evicted \in Evictions(DraftShort, DraftRetired), DraftAllocate(evicted),
             phase' = phase
      PROVE  AllInv' /\ RetiredInv' /\ OnlyDue'
  <2>1. SlotInv' /\ PageInv' /\ RetiredInv'
    BY <1>6, PassSlots, PassPages
  <2>2. TypeInv' /\ Holding'
    BY <1>6, <2>1, PassTypes, PassHolding
  <2>3. \A b \in Blocks : /\ pool'[b] \subseteq pool[b]
                          /\ tile'[b] \subseteq tile[b] \cup pool[b]
    BY <1>6 DEF DraftAllocate
  <2>4. OnlyDue'
    BY <1>1, <2>3, AllocOnlyDue
  <2> QED BY <1>3, <2>1, <2>2, <2>4 DEF AllInv, DataInv, PageInv
<1>7. ASSUME phase' = "exhausted", UNCHANGED <<allocVars, dataVars>>
      PROVE  AllInv' /\ RetiredInv' /\ OnlyDue'
  <2>1. /\ resident' = resident /\ free_slots' = free_slots /\ sinks' = sinks
        /\ retired' = retired /\ fill' = fill
        /\ pool' = pool /\ tile' = tile /\ clobbered' = clobbered
    BY <1>7 DEF allocVars, dataVars
  <2>2. RowInv' /\ PageInv'
    BY <1>1, <1>2, <1>7, <2>1
    DEF PageInv, RowInv, Types, RowsLocal, RowsCover, PagesOf, PageTok, ForeignPagesIntact
  <2>3. SlotInv' /\ RetiredInv'
    BY <1>1, <2>1 DEF SlotInv, NoSlotLeak, RetiredInv, RetiredAreResidentSinks
  <2>4. TypeInv'
    BY <1>1, <1>2, <1>7, <2>1 DEF TypeInv, TypeOK, MaxTokens, PageTok, Blocks, Positions
  <2>5. OnlyDue'
    BY <1>1, <2>1, AllocOnlyDue
  <2> QED BY <1>3, <1>7, <2>2, <2>3, <2>4, <2>5 DEF AllInv, DataInv
<1> QED BY <1>5, <1>6, <1>7 DEF LaterPass, DraftAll

LEMMA DraftAllInductive == DraftAll /\ [DraftNext]_draftVars => DraftAll'
<1> SUFFICES ASSUME DraftAll, [DraftNext]_draftVars PROVE DraftAll'
  OBVIOUS
<1>1. ASSUME Next, DraftInv' PROVE DraftAll'
  <2>1. AllInv' /\ RetiredInv'
    BY <1>1, AllInvInductive, RetiredInvInductive DEF DraftAll, AllInv, DataInv
  <2>2. OnlyDue'
    BY <1>1, NextOnlyDue DEF DraftAll, AllInv
  <2> QED BY <1>1, <2>1, <2>2 DEF DraftAll
<1>2. CASE Plan
  <2>1. Next
    BY <1>2 DEF Plan, Next
  <2> QED BY <1>1, <1>2, <2>1, PlanDraft
<1>3. CASE FirstForward
  <2>1. Next
    BY <1>3 DEF FirstForward, Next
  <2> QED BY <1>1, <1>3, <2>1, FirstForwardDraft
<1>4. CASE UNCHANGED draftVars
  <2>1. UNCHANGED vars /\ pass' = pass /\ drafting' = drafting
    BY <1>4 DEF draftVars
  <2>2. AllInv' /\ RetiredInv'
    BY <2>1, AllInvInductive, RetiredInvInductive DEF DraftAll, AllInv, DataInv
  <2>3. /\ row' = row /\ computed' = computed /\ q' = q /\ phase' = phase
        /\ retired' = retired /\ recycled' = recycled /\ UNCHANGED envVars
        /\ pool' = pool /\ tile' = tile
    BY <2>1 DEF vars, envVars, allocVars, dataVars
  <2>4. OnlyDue'
    BY <2>3, AllocOnlyDue DEF DraftAll
  <2>5. Written' = Written /\ Batch' = Batch /\ Running' = Running
    BY <2>3 DEF Written, Writes, Batch, Low, High, Blk, Running
  <2>6. DraftInv'
    BY <2>1, <2>3, <2>5
    DEF DraftAll, DraftInv, PassAhead, BuiltInv, Later, TailsLive, MayIdle, Blk, PageTok
  <2> QED BY <2>2, <2>4, <2>6 DEF DraftAll
<1> QED BY <1>2, <1>3, <1>4, LaterPassAll DEF DraftNext

LEMMA DraftAllAlways == DraftSpec => []DraftAll
<1>1. DraftInit => DraftAll
  <2> SUFFICES ASSUME DraftInit PROVE DraftAll
    OBVIOUS
  <2>1. Init /\ pass = 0 /\ drafting = {} /\ AllInv
    BY AllInvInit DEF DraftInit
  <2>2. RetiredInv /\ OnlyDue
    BY <2>1 DEF Init, RetiredInv, RetiredAreResidentSinks, OnlyDue
  <2>3. Batch = {}
    BY <2>1 DEF Init, Batch
  <2>4. DraftInv
    BY <2>1, <2>3, PassesOK DEF DraftInv, PassAhead, BuiltInv, Init
  <2> QED BY <2>1, <2>2, <2>4 DEF DraftAll
<1> QED BY <1>1, DraftAllInductive, PTL DEF DraftSpec

-----------------------------------------------------------------------------
(* The theorems about the drafter's group.                                 *)

\* Every committed token of a running request can be read back between the
\* passes as between the steps: no proposed token takes its place or its slot.
THEOREM DraftCommittedReadable == DraftSpec => []LiveReadable
<1>1. DraftAll => LiveReadable
  BY LiveFromInv DEF DraftAll
<1> QED BY <1>1, DraftAllAlways, PTL

\* Every page the prefix cache may hand out reads back whole in the drafter's
\* group, too.
THEOREM DraftCacheReadable == DraftSpec => []CachedReadable
<1>1. DraftAll => CachedReadable
  BY CachedFromInv DEF DraftAll
<1> QED BY <1>1, DraftAllAlways, PTL

\* No pass writes an int4 tile over another group's page, though it neither
\* hears of recycled pages nor drops what it holds of them.
THEOREM DraftForeignPagesSafe == DraftSpec => []ForeignPagesIntact
<1>1. DraftAll => ForeignPagesIntact
  BY DEF DraftAll, AllInv, PageInv
<1> QED BY <1>1, DraftAllAlways, PTL

\* The passes lose no slot and free none twice.
THEOREM DraftSlotsConserved == DraftSpec => []NoSlotLeak
<1>1. DraftAll => NoSlotLeak
  BY DEF DraftAll, AllInv, SlotInv
<1> QED BY <1>1, DraftAllAlways, PTL

\* The block a request is in the middle of keeps its slot in the step that
\* follows a drafter's passes.
THEOREM DraftTailKept == DraftSpec => TailKeepsSlot
<1> DEFINE A == \A r \in Running :
                  LET tail == Blk(r, computed[r] \div G)
                  IN phase' = "forward" /\ phase = "schedule" /\ computed[r] % G # 0
                       => /\ tail \in resident /\ tail \in resident'
                          /\ pool[tail] \subseteq pool'[tail]
<1>1. DraftAll /\ [DraftNext]_draftVars => [A]_vars
  <2> SUFFICES ASSUME DraftAll, [DraftNext]_draftVars PROVE [A]_vars
    OBVIOUS
  <2>1. CASE LaterPass
    <3>1. ~(phase' = "forward" /\ phase = "schedule")
      BY <2>1 DEF LaterPass
    <3> QED BY <3>1
  <2>2. CASE Plan \/ FirstForward
    <3>1. Next
      BY <2>2 DEF Plan, FirstForward, Next
    <3> QED BY <3>1, TailStep DEF DraftAll
  <2>3. CASE UNCHANGED draftVars
    BY <2>3 DEF draftVars
  <2> QED BY <2>1, <2>2, <2>3 DEF DraftNext
<1> QED BY <1>1, DraftAllAlways, PTL DEF DraftSpec, TailKeepsSlot

\* What a pass evicts is whole or empty: a proposed token is never frozen into
\* a tile that somebody is due to read.
LEMMA RetiredWhole ==
  ASSUME DraftAll, pass > 0, phase = "schedule", NEW b \in retired
  PROVE  pool[b] = Positions \/ (pool[b] = {} /\ tile[b] = {})
<1>1. /\ RowInv /\ TypeInv /\ RetiredInv /\ OnlyDue /\ Later /\ DueReadable
  BY DEF DraftAll, AllInv, DataInv, DraftInv, Holding
<1>2. /\ b \in Blocks /\ b \in resident
      /\ pool[b] \subseteq Positions /\ tile[b] \subseteq Positions
  BY <1>1 DEF RetiredInv, RetiredAreResidentSinks, TypeInv, TypeOK
<1>3. CASE \A i \in Positions : ~Due(b, i)
  BY <1>1, <1>2, <1>3 DEF OnlyDue
<1>4. ASSUME NEW i \in Positions, Due(b, i) PROVE \A j \in Positions : Due(b, j)
  <2>1. CASE Settled(PageOf(b))
    BY <2>1 DEF Due
  <2>2. ASSUME NEW r \in Req, DueTo(r, b, i) PROVE \A j \in Positions : Due(b, j)
    <3>1. PICK k \in Nat : b = Blk(r, k) /\ k * G + i < computed[r]
      BY <2>2 DEF DueTo
    <3>2. /\ computed[r] \in Nat /\ k * G \in Nat /\ (k + 1) * G = k * G + G
          /\ i \in Nat /\ Positions = 0 .. G - 1 /\ G \in Nat
      <4>1. (k + 1) * G = k * G + G
        BY ConstantsOK, Z3
      <4> QED BY <1>1, <4>1, ConstantsOK DEF RowInv, Types, Positions
    <3>3. ~(computed[r] < (k + 1) * G)
      <4>1. k * G < computed[r]
        BY <3>1, <3>2
      <4> QED BY <1>1, <3>1, <4>1 DEF Later, TailsLive
    <3>4. \A j \in Positions : k * G + j < computed[r]
      BY <3>2, <3>3
    <3> QED BY <3>1, <3>4 DEF Due, DueTo
  <2> QED BY <1>4, <2>1, <2>2 DEF Due
<1>5. CASE \E i \in Positions : Due(b, i)
  <2>1. \A j \in Positions : Due(b, j)
    BY <1>4, <1>5
  <2>2. \A j \in Positions : j \in pool[b]
    BY <1>1, <1>2, <2>1 DEF DueReadable, Readable
  <2> QED BY <1>2, <2>2
<1> QED BY <1>3, <1>5

\* No pass freezes a proposed token: what it flushes is a retired sink with all
\* its tokens, whatever was drafted, rejected or handed over before.
THEOREM ProposalsStayOpen == DraftSpec => ProposalsNeverFrozen
<1> DEFINE A == pass > 0 =>
                  \A b \in Blocks : tile'[b] # tile[b] => b \in retired /\ tile'[b] = Positions
<1>1. DraftAll /\ [DraftNext]_draftVars => [A]_draftVars
  <2> SUFFICES ASSUME DraftAll, DraftNext, pass > 0, NEW b \in Blocks, tile'[b] # tile[b]
               PROVE  b \in retired /\ tile'[b] = Positions
    OBVIOUS
  <2>1. CASE Plan
    BY <2>1 DEF Plan
  <2>2. CASE FirstForward
    BY <2>2 DEF FirstForward, Forward
  <2>3. CASE LaterPass
    <3>1. PICK evicted \in Evictions(DraftShort, DraftRetired) : DraftAllocate(evicted)
      BY <2>3 DEF LaterPass, dataVars
    <3>2. b \in evicted /\ tile'[b] = pool[b]
      BY <3>1 DEF DraftAllocate, DraftTiles, DraftWalk
    <3>3. b \in retired
      BY <2>3, <3>1, <3>2, DraftParts
    <3>4. pool[b] = Positions \/ (pool[b] = {} /\ tile[b] = {})
      BY <2>3, <3>3, RetiredWhole DEF LaterPass
    <3> QED BY <3>2, <3>3, <3>4
  <2> QED BY <2>1, <2>2, <2>3 DEF DraftNext
<1> QED BY <1>1, DraftAllAlways, PTL DEF DraftSpec, ProposalsNeverFrozen
=============================================================================
