----------------------------- MODULE KVarNDraft -----------------------------
(***************************************************************************)
(* The slot pool of the draft model's KV-cache group.                      *)
(*                                                                         *)
(* The drafter runs several passes per engine step over its own group, and *)
(* the builder is called before each.  The first pass has the metadata of  *)
(* the target's step: it is KVarN's Build and Forward.  Each later pass    *)
(* (build_for_drafting with draft_index >= 1) writes one proposed token    *)
(* per request behind the accepted ones, which the next step may reject,   *)
(* so the builder only allocates in it: it neither drops recycled pages    *)
(* nor flushes nor sweeps.                                                 *)
(***************************************************************************)
EXTENDS KVarN

CONSTANT Passes   \* passes of the drafter per step, the first one included

ASSUME PassesOK == Passes \in Nat \ {0} /\ Passes - 1 <= Lookahead

VARIABLES
  pass,       \* draft_index of the pass to come
  drafting    \* the requests of the step that is being drafted for

draftVars == <<vars, pass, drafting>>

DraftInit == Init /\ pass = 0 /\ drafting = {}

\* A pass over the target's metadata: the drafter's first.
FirstForward ==
  /\ Forward
  /\ pass' = 1 % Passes
  /\ drafting' = IF pass' = 0 THEN {} ELSE Batch

-----------------------------------------------------------------------------
(* A later pass: seq_len = accepted + draft_index, one query token.        *)

DraftPos(r) == computed[r] + pass - 1
DraftTail(r)  == Blk(r, DraftPos(r) \div G)
DraftTails == {DraftTail(r) : r \in drafting}

\* _block_fill counts the proposed tokens.
DraftFill(b) == IF b \in DraftTails
  THEN CHOOSE n \in 1 .. G : \E r \in drafting : b = DraftTail(r) /\ n = (DraftPos(r) % G) + 1
  ELSE fill[b]

\* (1) The sinks among the batch's first blocks keep their slots, and what
\* the pass names is no longer retired.
DraftFirsts  == {Blk(r, 0) : r \in drafting}
DraftNeeded  == DraftTails \cup (DraftFirsts \cap sinks)
DraftSinks   ==
  (sinks \cup (DraftFirsts \cap DraftTails)) \ ((retired \cap DraftNeeded) \ DraftFirsts)
DraftRetired == retired \ DraftNeeded

\* (2), (2b) What the pass would flush or discard: nothing.  The mutated form
\* flushes as in a target pass, with the proposed tokens counted as committed.
DraftWalk_AsCommitted == UNION {
  LET open == resident \ DraftSinks
      last == DraftPos(r) \div G - 1
  IN {Blk(r, k) : k \in {k \in 1 .. last : \A j \in k .. last : Blk(r, j) \in open}} :
  r \in drafting}
DraftWalk == {}

\* (3) Slots for the tails that have none, from the free list and then from
\* retired sinks, which are flushed.
DraftWanting == DraftNeeded \ resident
DraftShort   == Cardinality(DraftWanting) - free_slots - Cardinality(DraftWalk)

\* Then the pass stores each proposed token at its position, over whatever was
\* there.
ProposedAt(b) == {DraftPos(r) % G : r \in {x \in drafting : b = DraftTail(x)}}

DraftTiles_NoEviction(evicted) == DraftWalk
DraftTiles(evicted) == DraftWalk \cup evicted

DraftAllocate(evicted) ==
  LET kept == resident \ (evicted \cup DraftWalk)
  IN /\ resident' = kept \cup DraftWanting
     /\ free_slots' = Cardinality(evicted) - DraftShort
     /\ sinks' = DraftSinks \ evicted
     /\ retired' = DraftRetired \ evicted
     /\ fill' = [b \in Blocks |-> IF b \in evicted \cup DraftWalk THEN 0 ELSE DraftFill(b)]
     /\ tile' = [b \in Blocks |-> IF b \in DraftTiles(evicted) THEN pool[b] ELSE tile[b]]
     /\ pool' = [b \in Blocks |-> IF b \in kept THEN pool[b] \ ProposedAt(b) ELSE {}]
     /\ clobbered' = clobbered \cup ({PageOf(b) : b \in DraftTiles(evicted)} \cap foreign)

LaterPass ==
  /\ phase = "schedule" /\ pass > 0
  /\ \/ /\ \E evicted \in Evictions(DraftShort, DraftRetired) : DraftAllocate(evicted)
        /\ phase' = phase
     \/ /\ DraftShort > Cardinality(DraftRetired)
        /\ phase' = "exhausted"
        /\ UNCHANGED <<allocVars, dataVars>>
  /\ pass' = (pass + 1) % Passes
  /\ drafting' = IF pass' = 0 THEN {} ELSE drafting
  /\ UNCHANGED <<envVars, recycled>>

\* The engine plans its next step when the drafter is done.
Plan ==
  /\ pass = 0
  /\ \/ \E r \in Req : Admit(r) \/ Schedule(r) \/ Leave(r)
     \/ \E p \in Pages : ForeignAlloc(p) \/ ForeignFree(p)
     \/ Build
  /\ UNCHANGED <<pass, drafting>>

DraftNext == Plan \/ FirstForward \/ LaterPass

DraftSpec == DraftInit /\ [][DraftNext]_draftVars

-----------------------------------------------------------------------------
(* Properties: KVarN's, over the drafter's passes, and these.              *)

\* A proposed token is never frozen into an int4 tile that somebody is due to
\* read: whatever a later pass flushes is whole and cached (the comment of
\* build_for_drafting says the freeze is what its guard is for).
ProposalsNeverFrozen == [][pass > 0 =>
  \A b \in Blocks : tile'[b] # tile[b] => b \in retired /\ tile'[b] = Positions]_draftVars
=============================================================================
