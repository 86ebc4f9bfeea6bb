-------------------------------- MODULE Lsa --------------------------------
(***************************************************************************)
(* D-LSA on a paged KV cache.  Index keys and bucket rows live in the      *)
(* slots of their positions, so they travel with the pages: through the    *)
(* prefix cache, and to whoever a freed page goes next.  A block is        *)
(* bucketed by the prefill that closes it, or by the builder of the step   *)
(* after the decode that closed it.                                        *)
(*                                                                         *)
(* One request runs per step: requests of one batch meet only in the       *)
(* tables, through pages they share.                                       *)
(***************************************************************************)
EXTENDS LsaSelect

CONSTANTS
  Requests, Pages,
  None,
  DecodeQ,      \* decode_q: 1 + num_speculative_tokens
  DenseBelow,   \* settings.dense_below
  Texts,        \* the conversations: sequences of index keys, one per token
  Setups,       \* [page, texts, prompts, chunks, starts]: tokens per page,
                \* conversations in use, prompt lengths, tokens of a prompt offered
                \* per step, requests served
  Wrong,        \* the index key of a rejected draft
  ScoreRows     \* score rows the top-p kernels are run on

ASSUME LsaOK ==
  /\ DecodeQ \in Nat \ {0} /\ DenseBelow \in Nat
  /\ DecodeQ < Block
  /\ Texts \in Seq(Seq(Int)) /\ None \notin Seq(Int)
  /\ \A s \in Setups :
       /\ s.page \in Nat \ {0} /\ s.page % BucketSize = 0
       /\ s.texts \in 1 .. Len(Texts)
       /\ s.prompts \cup s.chunks \subseteq Nat \ {0} /\ s.starts \in Nat
       /\ \A line \in 1 .. s.texts, prompt \in s.prompts : prompt <= Len(Texts[line])

\* A row holds ordered keys, which have Digits digits.
ASSUME ScoresOK ==
  \A score \in ScoreRows :
    /\ IsFiniteSet(DOMAIN score)
    /\ score \in [0 .. Cardinality(DOMAIN score) - 1 -> 0 .. Power[Digits] - 1]

VARIABLES
  setup,
  req,      \* per request [line, prompt, hit, ctx, slack, table], or None
  key,      \* index_keys: key[page][offset]
  row,      \* bucket rows: row[page][r], the row of the slots r*BucketSize ..
  cached,   \* the prefix cache: the text a full page ends, or None
  starts,   \* requests started so far
  read,     \* the last step's queries
  picked    \* the last score row and its top-p

vars == <<setup, req, key, row, cached, starts, read, picked>>

Page == setup.page
Text(r) == Texts[req[r].line]
MaxLen(line) == Len(Texts[line])
NoRow == [of |-> << >>, members |-> << >>]

\* slots_of: the page and offset of position p under a block table.
PageOf(table, p) == table[p \div Page + 1]
KeyAt(keys, table, p) == keys[PageOf(table, p)][p % Page]

\* The row of the bucket stored at position p.
RowAt(rows, table, p) == rows[PageOf(table, p)][(p % Page) \div BucketSize]

\* cluster_blocks: bucket the blocks that start at `starts`, from the index
\* keys, and write their rows.
Clustered(rows, keys, table, starting) ==
  LET block(b) == [i \in 0 .. Block - 1 |-> KeyAt(keys, table, b + i)]
      made == [b \in starting |-> BucketTables(block(b))]
      homes(p, r) == {h \in starting \X (0 .. Buckets - 1) :
        LET at == h[1] + h[2] * BucketSize
        IN PageOf(table, at) = p /\ (at % Page) \div BucketSize = r}
  IN [p \in Pages |-> [r \in DOMAIN rows[p] |->
        IF homes(p, r) = {} THEN rows[p][r]
        ELSE LET home == CHOOSE h \in homes(p, r) : TRUE
             IN [of |-> block(home[1]), members |-> made[home[1]][home[2]]]]]

-----------------------------------------------------------------------------
(* The builder.                                                            *)

\* The keys whose blocks may be read through buckets: a prefill's own chunk is
\* final, a decode's tokens may be rejected.
Clusterable_AllTokens(ctx, q) == ctx + q
Clusterable(ctx, q) == IF q > DecodeQ THEN ctx + q ELSE ctx

\* _cluster_decode_closures: candidates by the host's upper bound, confirmed
\* by the device's count.
DecodeClosures_Late(ctx, upper) ==
  LET end == Floor(upper)
  IN {b \in {end - Block} : /\ end >= Block /\ end > upper - 2 * DecodeQ
                            /\ end < ctx /\ end > ctx - DecodeQ}
DecodeClosures(ctx, upper) ==
  LET end == Floor(upper)
  IN {b \in {end - Block} : /\ end >= Block /\ end > upper - 2 * DecodeQ
                            /\ end <= ctx /\ end > ctx - DecodeQ}

\* _prefill_blocks: the blocks the chunk closes, and the one a prefix hit ends
\* in.  The bounds are the host's, the validity the device's.
FirstBlock(upper, q) == Larger(0, (upper - q - DecodeQ) \div Block)
PrefillBlocks(ctx, q, upper) ==
  IF q <= DecodeQ THEN {}
  ELSE {b \in {k * Block : k \in FirstBlock(upper, q) .. upper \div Block - 1} :
          b + Block <= ctx + q /\ b + Block > ctx - DecodeQ}

-----------------------------------------------------------------------------
Init ==
  /\ setup \in Setups
  /\ req = [r \in Requests |-> None]
  /\ key = [p \in Pages |-> [i \in 0 .. setup.page - 1 |-> 0]]
  /\ row = [p \in Pages |-> [i \in 0 .. setup.page \div BucketSize - 1 |-> NoRow]]
  /\ cached = [p \in Pages |-> None]
  /\ starts = 0 /\ read = None /\ picked = None

InUse == UNION {ToSet(req[r].table) : r \in {s \in Requests : req[s] # None}}

\* A request takes the cached pages of its prompt's prefix, at least one token
\* short of the prompt, and no further than a state checkpoint allows.
Start(r, line, prompt) ==
  /\ req[r] = None /\ starts < setup.starts
  /\ \E n \in 0 .. (prompt - 1) \div Page :
       \E table \in [1 .. n -> Pages] :
         /\ \A i \in 1 .. n : cached[table[i]] = SubSeq(Texts[line], 1, i * Page)
         /\ req' = [req EXCEPT ![r] = [line |-> line, prompt |-> prompt, hit |-> n * Page,
                                       ctx |-> n * Page, slack |-> 0, table |-> table]]
  /\ starts' = starts + 1
  /\ read' = None /\ picked' = None
  /\ UNCHANGED <<setup, key, row, cached>>

\* The pages a step needs, taken from the free ones.
Grown(r, len) ==
  LET have == req[r].table
      need == Ceiling(len, Page) - Len(have)
  IN {have \o new : new \in {s \in [1 .. need -> Pages \ InUse] : IsInjective(s)}}

\* write_index_keys: the keys of the step's tokens, in their slots.
Written(table, tokens) ==
  LET at(p, i) == {t \in DOMAIN tokens : PageOf(table, t) = p /\ t % Page = i}
  IN [p \in Pages |-> [i \in 0 .. Page - 1 |->
        IF at(p, i) = {} THEN key[p][i] ELSE tokens[CHOOSE t \in at(p, i) : TRUE]]]

\* A step of q tokens: a chunk of the prompt, or the last token and q - 1
\* drafts, of which the first `good` are what the model would have said.
Step(r, q, good) ==
  /\ req[r] # None
  /\ LET x == req[r]
         todo == x.prompt - x.ctx
         upper == x.ctx + x.slack
         final == x.ctx + (IF todo > 0 THEN q ELSE 1 + good)
     IN /\ IF todo > 0 THEN good = 0 /\ \E c \in setup.chunks : q = Smaller(c, todo)
                       ELSE q <= DecodeQ /\ good < q
        /\ x.ctx + q <= MaxLen(x.line)
        /\ \E table \in Grown(r, x.ctx + q), late \in {x.ctx, upper} :
             LET closed == Clustered(row, key, table, DecodeClosures(x.ctx, late))
                 wrote == Written(table, [t \in x.ctx .. x.ctx + q - 1 |->
                                        IF t < final THEN Text(r)[t + 1] ELSE Wrong])
             IN /\ key' = wrote
                /\ row' = Clustered(closed, wrote, table,
                                    PrefillBlocks(x.ctx, q, late + q))
                /\ cached' = [p \in Pages |->
                     IF \E i \in 1 .. final \div Page : table[i] = p
                     THEN LET i == CHOOSE i \in 1 .. final \div Page : table[i] = p
                          IN SubSeq(Text(r), 1, i * Page)
                     ELSE IF p \in ToSet(table) THEN None ELSE cached[p]]
                /\ req' = [req EXCEPT ![r] =
                     [x EXCEPT !.table = table, !.ctx = final,
                               !.slack = IF todo > 0 THEN 0 ELSE q - 1 - good]]
                /\ read' = [req |-> r, from |-> x.ctx, q |-> q,
                            clustered |-> Floor(Clusterable(x.ctx, q)),
                            dense |-> q > DecodeQ /\ x.ctx + q <= DenseBelow]
  /\ UNCHANGED <<setup, starts, picked>>

\* The request ends, or is preempted: its pages go back, cached or not.
Finish(r) ==
  /\ req[r] # None
  /\ req' = [req EXCEPT ![r] = None]
  /\ read' = None
  /\ UNCHANGED <<setup, key, row, cached, starts, picked>>

\* The top-p launches, on any score row.
Select(score, vis) ==
  /\ starts = 0 /\ picked = None
  /\ picked' = [score |-> score, vis |-> vis, order |-> Picked(score, vis)]
  /\ UNCHANGED <<setup, req, key, row, cached, starts, read>>

Next ==
  \/ \E r \in Requests : \E line \in 1 .. setup.texts :
       \E prompt \in setup.prompts : Start(r, line, prompt)
  \/ \E r \in Requests, q \in 1 .. MaxLen(1), good \in 0 .. DecodeQ - 1 : Step(r, q, good)
  \/ \E r \in Requests : Finish(r)
  \/ \E score \in ScoreRows : \E vis \in 0 .. Cardinality(DOMAIN score) : Select(score, vis)

Spec == Init /\ [][Next]_vars

-----------------------------------------------------------------------------
(* Properties.                                                             *)

\* The queries of the last step that went through the selection.
SparseQueries ==
  IF read = None THEN {} ELSE IF read.dense THEN {} ELSE read.from .. read.from + read.q - 1

\* What is in the row of each bucket a query may see, by position.
MembersOf(b) ==
  LET members == RowAt(row, req[read.req].table, b * BucketSize).members
  IN [i \in DOMAIN members |-> Floor(b * BucketSize) + members[i]]
Members(pos) == [b \in 0 .. Visible(pos, read.clustered) - 1 |-> MembersOf(b)]

\* score_buckets: a score for each visible bucket, whatever its centroid's
\* numerics give, so any order of picks; columns past the visible ones are
\* never picked.
Orders(pos) ==
  LET n == Visible(pos, read.clustered)
  IN {s \in [1 .. Smaller(n, TopP) -> 0 .. n - 1] : IsInjective(s)}

Reads(pos, picks) ==
  SplitReads(SlotList(pos, read.clustered, picks, Members(pos)),
             IF read.q <= DecodeQ THEN NumSplits ELSE 1)

\* The buckets that are sure to have been made, by position: those of the blocks
\* the request closes itself, or that the last page of its hit ends in, and those
\* that the owner of their page closed before the page was whole.
Settled(p) ==
  LET end == Floor(p) + Block
  IN \/ end > req[read.req].hit - DecodeQ
     \/ end <= (p \div Page + 1) * Page - DecodeQ

SettledQueries ==
  {pos \in SparseQueries : \A b \in 0 .. Visible(pos, read.clustered) - 1 : Settled(b * BucketSize)}

\* Whatever the scores, a query reads no key twice and none past its own
\* position, always its sinks and its window, and the list fits its row
\* (core.py:20-24, read.py:39).
ReadIsSound ==
  \A pos \in SettledQueries : \A picks \in Orders(pos) :
    LET keys == Reads(pos, picks)
    IN /\ Len(keys) <= Width
       /\ IsInjective(keys)
       /\ ToSet(keys) \subseteq 0 .. pos
       /\ {p \in 0 .. pos : p < Sink \/ p > pos - Window} \subseteq ToSet(keys)

\* A query whose context fits the budget reads every key, once
\* (README.md:36, backend.py:24-26).
ExactWithinBudget ==
  \A pos \in SettledQueries : \A picks \in Orders(pos) :
    pos + 1 <= Budget /\ Visible(pos, read.clustered) <= TopP =>
      LET keys == Reads(pos, picks) IN IsInjective(keys) /\ ToSet(keys) = 0 .. pos

\* A bucket a query may see was made from the final keys of its block, never
\* from a rejected draft or by the page's last owner (backend.py:15-22).
BucketsAreFinal ==
  \A pos \in SparseQueries : \A b \in 0 .. Visible(pos, read.clustered) - 1 :
    Settled(b * BucketSize) =>
    RowAt(row, req[read.req].table, b * BucketSize).of =
      [i \in 0 .. Block - 1 |-> Text(read.req)[Floor(b * BucketSize) + i + 1]]

\* The radix select takes the TopP best columns, the lower of two equal ones
\* first, in that order (kernels.py:9-11).
TopPExact ==
  picked # None =>
    LET all == BestFirst(picked.score, 0 .. picked.vis - 1)
    IN picked.order = SubSeq(all, 1, Smaller(TopP, picked.vis))
=============================================================================
