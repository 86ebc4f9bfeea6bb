------------------------------- MODULE KVarN -------------------------------
(***************************************************************************)
(* The fp16 slot pool of the KVarN KV-cache backend.                       *)
(*                                                                         *)
(* A KV block is kept as fp16 in a small pool while it is being written,   *)
(* and as an int4 tile in the paged cache once it is complete.             *)
(* KVarNMetadataBuilder.build runs once per engine step, before the        *)
(* forward pass, and moves blocks between the two.  It sees only the       *)
(* step's batch: which requests live, which pages are shared through the   *)
(* prefix cache, and which pages another KV-cache group has taken over is  *)
(* the scheduler's knowledge.  The scheduler and its block pool are        *)
(* modelled here as the environment.                                       *)
(***************************************************************************)
EXTENDS Integers, FiniteSets, Sequences

CONSTANTS
  Req,        \* request slots of the scheduler
  Pages,      \* physical cache pages (the null page 0 is not one of them)
  PoolSize,   \* fp16 pool slots of the allocator
  PerPage,    \* kernel blocks per page (manager block / tile group)
  G,          \* tokens per kernel block (the tile group)
  MaxPages,   \* pages a request may hold; bounds its length
  MaxChunk,   \* largest prefill chunk; bounds the model
  MaxDraft,   \* draft tokens per verify step
  Lookahead,  \* tokens the scheduler allocates pages for beyond the step's
  MaxForeign, \* pages the other groups hold at once; bounds the model
  IdleAllowed \* may a request in mid-prefill be left out of a step

ASSUME ConstantsOK ==
  /\ IsFiniteSet(Req) /\ IsFiniteSet(Pages) /\ PoolSize \in Nat
  /\ PerPage \in Nat \ {0} /\ G \in Nat \ {0}
  /\ MaxPages \in Nat \ {0} /\ MaxChunk \in Nat \ {0} /\ MaxDraft \in Nat
  /\ Lookahead \in Nat /\ MaxForeign \in Nat
  /\ IdleAllowed \in BOOLEAN

Blocks == Pages \X (0 .. PerPage - 1)
PageOf(b) == b[1]
PageTok == PerPage * G
BlocksOf(P) == {b \in Blocks : PageOf(b) \in P}

VARIABLES
  \* The scheduler and its block pool (environment).
  row,        \* request -> its pages in this KV-cache group; <<>> = not running
  computed,   \* request -> tokens computed and accepted
  q,          \* request -> query length in the step being scheduled, 0 = not in it
  acc,        \* request -> how many of those tokens the sampler will accept
  hash,       \* page -> 0, or the 1-based prefix position it is cached for
  foreign,    \* pages held by another KV-cache group
  phase,      \* "schedule", "forward" (build done) or "exhausted"
  \* The allocator.
  resident,   \* the keys of _block_to_slot_dict; which slot each has is immaterial
  free_slots, \* how many slots _free_slots holds
  sinks,      \* _global_sink_blocks
  retired,    \* _retired_sinks
  fill,       \* _block_fill, 0 for a missing key
  recycled,   \* _recycled_pages
  \* The data, relative to what a reader of the block is due.
  pool,       \* block -> positions whose slot bytes are right
  tile,       \* block -> positions whose int4 tile bytes are right
  clobbered   \* foreign pages a tile was written over

envVars   == <<row, computed, q, acc, hash, foreign>>
allocVars == <<resident, free_slots, sinks, retired, fill>>
dataVars  == <<pool, tile, clobbered>>
vars == <<envVars, phase, allocVars, recycled, dataVars>>

Positions == 0 .. G - 1

Running == {r \in Req : row[r] # <<>>}
Batch   == {r \in Req : q[r] > 0}
PagesOf(r) == {row[r][i] : i \in DOMAIN row[r]}
FreePages == Pages \ (foreign \cup UNION {PagesOf(r) : r \in Req})

\* The k-th kernel block of a request: block_table[r][k].
Blk(r, k) == <<row[r][k \div PerPage + 1], k % PerPage>>

TypeOK ==
  /\ row \in [Req -> Seq(Pages)] /\ \A r \in Req : Len(row[r]) <= MaxPages
  /\ computed \in [Req -> 0 .. MaxPages * PageTok]
  /\ q \in [Req -> 0 .. MaxPages * PageTok]
  /\ acc \in [Req -> 0 .. MaxPages * PageTok]
  /\ hash \in [Pages -> 0 .. MaxPages]
  /\ foreign \subseteq Pages
  /\ phase \in {"schedule", "forward", "exhausted"}
  /\ resident \subseteq Blocks
  /\ free_slots \in 0 .. PoolSize
  /\ sinks \subseteq Blocks /\ retired \subseteq Blocks
  /\ fill \in [Blocks -> 0 .. G]
  /\ recycled \subseteq Pages
  /\ pool \in [Blocks -> SUBSET Positions]
  /\ tile \in [Blocks -> SUBSET Positions]
  /\ clobbered \subseteq Pages

Init ==
  /\ row = [r \in Req |-> <<>>]
  /\ computed = [r \in Req |-> 0]
  /\ q = [r \in Req |-> 0]
  /\ acc = [r \in Req |-> 0]
  /\ hash = [p \in Pages |-> 0]
  /\ foreign = {}
  /\ phase = "schedule"
  /\ resident = {}
  /\ free_slots = PoolSize
  /\ sinks = {} /\ retired = {} /\ recycled = {}
  /\ fill = [b \in Blocks |-> 0]
  /\ pool = [b \in Blocks |-> {}]
  /\ tile = [b \in Blocks |-> {}]
  /\ clobbered = {}

-----------------------------------------------------------------------------
(* The scheduler.  A page leaves the free queue with its prefix-cache hash *)
(* evicted, and its bytes are nobody's.                                    *)

Injective(s) == \A i, j \in DOMAIN s : s[i] = s[j] => i = j

PagesFor(tokens) == (tokens + PageTok - 1) \div PageTok

\* Request r gets the pages of `new` behind the pages it has, and n known
\* tokens plus d draft tokens in this step, of which a are accepted.  Its pages
\* reach past them, for the drafter's own passes.  The block pool caches every
\* page the known tokens complete.
Grant(r, base, start, n, d, a, new) ==
  LET pages == base \o new
      Cached(p) == {k \in DOMAIN pages : pages[k] = p /\ k * PageTok <= start + n}
  IN /\ start + n + d + Lookahead <= MaxPages * PageTok
     /\ Len(pages) = PagesFor(start + n + d + Lookahead)
     /\ row' = [row EXCEPT ![r] = pages]
     /\ computed' = [computed EXCEPT ![r] = start]
     /\ q' = [q EXCEPT ![r] = n + d]
     /\ acc' = [acc EXCEPT ![r] = a]
     /\ hash' = [p \in Pages |-> IF \E k \in Cached(p) : TRUE
                                 THEN CHOOSE k \in Cached(p) : TRUE
                                 ELSE IF p \in {new[i] : i \in DOMAIN new}
                                      THEN 0 ELSE hash[p]]
     /\ LET fresh == BlocksOf({new[i] : i \in DOMAIN new})
        IN /\ pool' = [b \in Blocks |-> IF b \in fresh THEN {} ELSE pool[b]]
           /\ tile' = [b \in Blocks |-> IF b \in fresh THEN {} ELSE tile[b]]
     /\ UNCHANGED <<foreign, phase, allocVars, recycled, clobbered>>

NewPages(m) == {s \in [1 .. m -> FreePages] : Injective(s)}

\* Pages the requests already in this step are still writing.  A hit on one
\* of them is deferred to a later step (cached_blocks_this_step).
BeingWritten == UNION {
  {row[r][k] : k \in {i \in DOMAIN row[r] : i * PageTok > computed[r]}} : r \in Batch}

\* A new (or resumed) request enters with the longest cached prefix the
\* coordinator finds for it, and its first prefill chunk.
Admit(r) ==
  /\ phase = "schedule" /\ r \notin Running
  /\ \E h \in 0 .. MaxPages - 1 :
       \E hit \in {s \in [1 .. h -> Pages \ (foreign \cup BeingWritten)] :
                     \A k \in 1 .. h : hash[s[k]] = k} :
         \E n \in 1 .. MaxChunk, m \in 0 .. MaxPages :
           /\ m + h = PagesFor(h * PageTok + n + Lookahead)
           /\ \E new \in NewPages(m) :
                /\ \A i \in 1 .. m : new[i] \notin {hit[k] : k \in 1 .. h}
                /\ Grant(r, hit, h * PageTok, n, 0, n, new)

\* A running request gets its next prefill chunk, or a decode step of one
\* known token and up to MaxDraft drafts, a prefix of which is accepted.
Schedule(r) ==
  /\ phase = "schedule" /\ r \in Running /\ q[r] = 0
  /\ \E n \in 1 .. MaxChunk, d \in 0 .. MaxDraft, m \in 0 .. MaxPages :
       /\ n = 1 \/ d = 0
       /\ m + Len(row[r]) = PagesFor(computed[r] + n + d + Lookahead)
       /\ \E a \in n .. n + d, new \in NewPages(m) :
            Grant(r, row[r], computed[r], n, d, a, new)

\* A request finishes or is preempted: its pages go back to the free queue,
\* hashes kept.  Nobody is due the bytes of the pages without one.
Leave(r) ==
  /\ phase = "schedule" /\ r \in Running /\ q[r] = 0
  /\ row' = [row EXCEPT ![r] = <<>>]
  /\ computed' = [computed EXCEPT ![r] = 0]
  /\ LET dead == BlocksOf({p \in PagesOf(r) : hash[p] = 0})
     IN /\ pool' = [b \in Blocks |-> IF b \in dead THEN {} ELSE pool[b]]
        /\ tile' = [b \in Blocks |-> IF b \in dead THEN {} ELSE tile[b]]
  /\ UNCHANGED <<q, acc, hash, foreign, phase, allocVars, recycled, clobbered>>

\* Another KV-cache group allocates a page.  note_scheduled_blocks records it
\* for this group's builder, and the runner writes state into it before build.
ForeignAlloc(p) ==
  /\ phase = "schedule" /\ p \in FreePages
  /\ Cardinality(foreign) < MaxForeign
  /\ foreign' = foreign \cup {p}
  /\ hash' = [hash EXCEPT ![p] = 0]
  /\ recycled' = recycled \cup {p}
  /\ pool' = [b \in Blocks |-> IF PageOf(b) = p THEN {} ELSE pool[b]]
  /\ tile' = [b \in Blocks |-> IF PageOf(b) = p THEN {} ELSE tile[b]]
  /\ UNCHANGED <<row, computed, q, acc, phase, allocVars, clobbered>>

\* The other group gives a page back.  One it took in this very step (its
\* request was preempted again) never reaches the runner.
ForeignFree(p) ==
  /\ phase = "schedule" /\ p \in foreign
  /\ foreign' = foreign \ {p}
  /\ recycled' = recycled \ {p}
  /\ UNCHANGED <<row, computed, q, acc, hash, phase, allocVars, dataVars>>

-----------------------------------------------------------------------------
(* KVarNMetadataBuilder.build: what it derives from the step's batch.      *)

Low(r)  == computed[r] \div G                  \* first block written
High(r) == (computed[r] + q[r] - 1) \div G     \* last block written

Writes(r) == {Blk(r, k) : k \in Low(r) .. High(r)}
Written   == UNION {Writes(r) : r \in Batch}

MinOf(x, y) == IF x <= y THEN x ELSE y

\* _block_fill after the step: drafts count, accepted or not.
FillNow(b) ==
  IF b \in Written
  THEN CHOOSE n \in 0 .. G : \E r \in Batch : \E k \in Low(r) .. High(r) :
         b = Blk(r, k) /\ n = MinOf(computed[r] + q[r], (k + 1) * G) - k * G
  ELSE fill[b]

\* (0) Slots held for a page another group has taken: released, not flushed.
Dropped_FirstOfPage ==
  {b \in resident \ Written : b \in {<<p, 0>> : p \in recycled}}
Dropped == {b \in resident \ Written : PageOf(b) \in recycled}
Kept    == resident \ Dropped

\* (1) Sinks: the first block of a request, while its data is in the pool.
FirstBlocks == {Blk(r, 0) : r \in Batch}
OldSinks    == sinks \ Dropped
OldRetired  == retired \ Dropped
Needed_WrittenOnly == Written
Needed      == Written \cup (FirstBlocks \cap OldSinks)
Shed        == (OldRetired \cap Needed) \ FirstBlocks
MarkedSinks == (OldSinks \cup (FirstBlocks \cap Written)) \ Shed
LiveRetired == OldRetired \ Needed

\* (2) Walk back from the committed boundary over blocks still resident; the
\* first block, a sink or a block already flushed ends the walk.
Walk_ToSeqLen(r) ==
  LET open == Kept \ MarkedSinks
      last == (computed[r] + q[r]) \div G - 1
  IN {Blk(r, k) : k \in {k \in 1 .. last : \A j \in k .. last : Blk(r, j) \in open}}
Walk(r) ==
  LET open == Kept \ MarkedSinks
      last == Low(r) - 1
  IN {Blk(r, k) : k \in {k \in 1 .. last : \A j \in k .. last : Blk(r, j) \in open}}
Walked  == UNION {Walk(r) : r \in Batch}

\* (2b) Everything resident that this step neither writes nor walks over: a
\* complete sink retires, another complete block is flushed, a partial one is
\* discarded.
Unneeded_ForgetsNeeded == Kept \ Walked
Unneeded  == (Kept \ Needed) \ Walked
Complete  == {b \in Unneeded : FillNow(b) >= G}
Retiring  == Complete \cap MarkedSinks
Flushed   == Walked \cup (Complete \ MarkedSinks)
Discarded == Unneeded \ Complete
AllRetired_OldOnly == LiveRetired
AllRetired  == LiveRetired \cup Retiring
Staying     == Kept \ (Walked \cup (Unneeded \ Retiring))
FreeNow_NotDropped == free_slots + Cardinality(Flushed \cup Discarded)
FreeNow     == free_slots + Cardinality(Dropped \cup Flushed \cup Discarded)

\* (3) Slots for the needed blocks that have none; retired sinks are evicted
\* (flushed), one for each slot the free list is short of.
Wanting == Needed \ Staying
Short   == Cardinality(Wanting) - FreeNow
Spare   == AllRetired \cap Staying
Evictions(short, spare) ==
  {E \in SUBSET spare : IF short <= 0 THEN E = {} ELSE Cardinality(E) = short}

\* The tiles _batched_flush writes.
Tiles(evicted) == Flushed \cup evicted

\* The builder's effect when the retired sinks in `evicted` make room.
Allocate(evicted, short) ==
  \E tiled \in {Tiles(evicted)}, stays \in {Staying \ evicted},
     gone \in {Dropped \cup Flushed \cup Discarded \cup evicted} :
    /\ resident' = stays \cup Wanting
    /\ free_slots' = Cardinality(evicted) - short
    /\ sinks' = MarkedSinks \ (Discarded \cup evicted)
    /\ retired' = AllRetired \ evicted
    /\ fill' = [b \in Blocks |-> IF b \in gone THEN 0 ELSE FillNow(b)]
    /\ tile' = [b \in Blocks |-> IF b \in tiled THEN pool[b] ELSE tile[b]]
    /\ pool' = [b \in Blocks |-> IF b \in stays THEN pool[b] ELSE {}]
    /\ clobbered' = clobbered \cup ({PageOf(b) : b \in tiled} \cap foreign)

MayIdle(r) == IdleAllowed /\ computed[r] % PageTok = 0

\* What the step computes first is bound by \E: TLC evaluates a LET at each use.
Build ==
  /\ phase = "schedule" /\ Batch # {}
  /\ \A r \in Running \ Batch : MayIdle(r)
  /\ \E short \in {Short}, spare \in {Spare} :
       \/ /\ \E evicted \in Evictions(short, spare) : Allocate(evicted, short)
          /\ phase' = "forward"
       \/ /\ short > Cardinality(spare)
          /\ phase' = "exhausted"
          /\ UNCHANGED <<allocVars, dataVars>>
  /\ recycled' = {}
  /\ UNCHANGED envVars

\* do_kv_cache_update writes the step's tokens through block_to_slot (a block
\* without a slot is skipped); then the sampler accepts a prefix of them.
StoredAt(b) == {i \in Positions : \E r \in Batch : \E k \in Low(r) .. High(r) :
  /\ b = Blk(r, k)
  /\ computed[r] <= k * G + i /\ k * G + i < computed[r] + q[r]}
AcceptedAt(b) == {i \in Positions : \E r \in Batch : \E k \in Low(r) .. High(r) :
  /\ b = Blk(r, k)
  /\ computed[r] <= k * G + i /\ k * G + i < computed[r] + acc[r]}

Forward ==
  /\ phase = "forward"
  /\ pool' = [b \in Blocks |-> IF b \in resident
                THEN (pool[b] \ StoredAt(b)) \cup AcceptedAt(b) ELSE pool[b]]
  /\ computed' = [r \in Req |-> computed[r] + acc[r]]
  /\ q' = [r \in Req |-> 0]
  /\ acc' = [r \in Req |-> 0]
  /\ phase' = "schedule"
  /\ UNCHANGED <<row, hash, foreign, allocVars, recycled, tile, clobbered>>

Next ==
  \/ \E r \in Req : Admit(r) \/ Schedule(r) \/ Leave(r)
  \/ \E p \in Pages : ForeignAlloc(p) \/ ForeignFree(p)
  \/ Build
  \/ Forward

Spec == Init /\ [][Next]_vars

-----------------------------------------------------------------------------
(* Properties.                                                             *)

\* Between two steps.
AtBoundary == phase = "schedule" /\ Batch = {}

\* Where attention reads position i of block b: the slot if it has one, else
\* the int4 tile.
Readable(b, i) == IF b \in resident THEN i \in pool[b] ELSE i \in tile[b]

\* Every slot is on the free list or held by one resident block: drops,
\* flushes, discards, evictions and re-allocations never lose a slot and never
\* free one twice.
NoSlotLeak == Cardinality(resident) + free_slots = PoolSize

\* A retired sink is a resident sink: evicting it always yields a slot.
RetiredAreResidentSinks == retired \subseteq resident \cap sinks

\* No int4 tile is ever written over a page another KV-cache group holds
\* (issue #208: the state read back as NaN and the request printed "!!!!").
ForeignPagesIntact == clobbered = {}

\* Every committed token of a running request can be read back.
LiveReadable ==
  AtBoundary => \A r \in Running : \A i \in 0 .. computed[r] - 1 :
    Readable(Blk(r, i \div G), i % G)

\* Every block the prefix cache may hand to a new request reads back whole.
CachedReadable ==
  AtBoundary => \A p \in Pages : hash[p] # 0 =>
    \A b \in BlocksOf({p}) : \A i \in Positions : Readable(b, i)

\* The pool runs dry only when the step's own blocks outnumber its slots: no
\* retired sink, finished request or recycled page stands in the way.
ExhaustedByDemandOnly == [][
  phase # "exhausted" /\ phase' = "exhausted" => Cardinality(Needed) > PoolSize]_vars

\* The block a running request is in the middle of keeps the slot that holds
\* its committed tokens, whatever the step sweeps, evicts or flushes.
TailKeepsSlot == [][\A r \in Running :
  LET tail == Blk(r, computed[r] \div G)
  IN phase' = "forward" /\ phase = "schedule" /\ computed[r] % G # 0
       => /\ tail \in resident /\ tail \in resident'
          /\ pool[tail] \subseteq pool'[tail]]_vars

\* A sink stays fp16 as long as a request whose first block it is takes part
\* in the steps.
SinkStaysResident == [][\A r \in Batch :
  phase = "schedule" /\ phase' = "forward" /\ Blk(r, 0) \in resident \cap sinks
    => Blk(r, 0) \in resident' \cap sinks']_vars
=============================================================================
