----------------------------- MODULE KVarNPool -----------------------------
(***************************************************************************)
(* How the KVarN fp16 pool is sized, and what a step may ask of it.        *)
(*                                                                         *)
(* At startup the platform caps max_num_seqs so that the pool fits its     *)
(* memory budget, and the backend sizes the pool from the capped value.    *)
(* The scheduler then fills one batch after another; build needs a slot    *)
(* for each request's sink and for each block the request writes (KVarN    *)
(* shows that nothing else can exhaust the pool).                          *)
(***************************************************************************)
EXTENDS Integers

CONSTANTS
  G,            \* tokens per block (the tile group)
  MaxTokens,    \* max_num_batched_tokens
  MaxDraft,     \* draft tokens per verify step
  Requested,    \* the max_num_seqs values the operator may ask for
  Budgets,      \* how many slots the memory budget may hold
  PinnedSlots   \* KVARN_POOL_SLOTS, 0 when unset

ASSUME ConstantsOK ==
  /\ G \in Nat \ {0} /\ MaxTokens \in Nat \ {0} /\ MaxDraft \in Nat
  /\ Requested \subseteq Nat \ {0} /\ Budgets \subseteq Nat
  /\ PinnedSlots \in Nat

VARIABLES
  budget,     \* slots the budget holds
  cap,        \* max_num_seqs after check_and_update_config
  seqs,       \* requests in the batch being filled
  tokens,     \* tokens scheduled for them
  demand,     \* slots build will need for them
  chunked     \* is a prefill chunk continued in this batch

poolVars == <<budget, cap, seqs, tokens, demand, chunked>>

MaxOf(x, y) == IF x >= y THEN x ELSE y
MinOf(x, y) == IF x <= y THEN x ELSE y

PrefillBlocks == (MaxTokens + G - 1) \div G

PoolSlots_NoHeadroom(s) == MaxOf(2 * s + PrefillBlocks, 8)
PoolSlots(s) == MaxOf(2 * s + PrefillBlocks + 8, 8)

SupportedSeqs(slots) == MaxOf(1, (slots - PrefillBlocks - 8) \div 2)

\* The pool the backend allocates.
PoolSize == IF PinnedSlots > 0 THEN MaxOf(PinnedSlots, 64) ELSE PoolSlots(cap)

PoolInit ==
  /\ budget \in Budgets
  /\ \E s \in Requested : cap = MinOf(s, SupportedSeqs(budget))
  /\ seqs = 0 /\ tokens = 0 /\ demand = 0 /\ chunked = FALSE

\* Blocks that n tokens touch from offset o of a block on.
Touched(o, n) == (o + n - 1) \div G + 1

\* Slots a request needs: its blocks and, past its first block, its sink.
Demand(o, n, deep) == Touched(o, n) + (IF deep THEN 1 ELSE 0)

Join(o, n, deep) ==
  /\ seqs < cap /\ tokens + n <= MaxTokens
  /\ seqs' = seqs + 1
  /\ tokens' = tokens + n
  /\ demand' = demand + Demand(o, n, deep)
  /\ UNCHANGED <<budget, cap>>

\* A decoding request, anywhere in a block, with its drafts.
Decode == \E o \in 0 .. G - 1, d \in 0 .. MaxDraft, deep \in BOOLEAN :
  Join(o, 1 + d, deep) /\ UNCHANGED chunked

\* A request's first chunk starts at a block: its own first, or the one behind
\* the cached prefix.
FirstChunk == \E n \in 1 .. MaxTokens, hit \in BOOLEAN :
  Join(0, n, hit) /\ UNCHANGED chunked

\* Only the last request of a batch is cut short by the token budget, so at
\* most one of the next batch continues in mid-prompt.
NextChunk == \E o \in 0 .. G - 1, n \in 1 .. MaxTokens, deep \in BOOLEAN :
  ~ chunked /\ Join(o, n, deep) /\ chunked' = TRUE

\* The batch runs.
Step ==
  /\ seqs > 0
  /\ seqs' = 0 /\ tokens' = 0 /\ demand' = 0 /\ chunked' = FALSE
  /\ UNCHANGED <<budget, cap>>

PoolNext == Decode \/ FirstChunk \/ NextChunk \/ Step

PoolSpec == PoolInit /\ [][PoolNext]_poolVars

-----------------------------------------------------------------------------
(* Properties.                                                             *)

TypeOK ==
  /\ budget \in Nat /\ cap \in Nat \ {0}
  /\ seqs \in 0 .. cap /\ tokens \in 0 .. MaxTokens
  /\ demand \in Nat /\ chunked \in BOOLEAN

\* No step needs more slots than the pool has: build never raises "KVarN pool
\* exhausted", the promise of _ensure_pool's comment ("the scheduler can never
\* exceed it").
ExhaustionSafe == demand <= PoolSize

\* The same, for the steps it holds of: without drafts, or with so few requests
\* that the headroom of 8 covers a third slot of each, and with no pinned size.
ExhaustionSafeWithin ==
  PinnedSlots = 0 /\ (MaxDraft = 0 \/ cap <= 8) => ExhaustionSafe

\* The pool fits the budget it was capped for, the same comment's "OOM-safe (it
\* is <= the budget)".
BudgetSafe == PoolSize <= budget

\* The same, for the budgets it holds of: those that hold one request's pool,
\* with no pinned size.
BudgetSafeAboveOne ==
  PinnedSlots = 0 /\ budget >= PoolSlots(1) => BudgetSafe
=============================================================================
