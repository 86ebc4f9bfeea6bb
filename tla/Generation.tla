---------------------------- MODULE Generation ----------------------------
(***************************************************************************)
(* Resumable self-distillation output (drafter/gen_data.py and             *)
(* drafter/generation_state.py).                                           *)
(*                                                                         *)
(* A run locks the output, repairs its last line, skips the prompts it     *)
(* holds, and appends one JSON record per line through a buffer that       *)
(* reaches the file in pieces of any size.  A kill loses what is left in   *)
(* the buffer and may leave the last record cut short.                     *)
(***************************************************************************)
EXTENDS Integers, Sequences

CONSTANTS
  Proc,       \* processes that run gen_data.py on one output
  NoOne,      \* nobody: the lock is free
  Prompts,    \* the ids in prompts.jsonl, in order
  Fit,        \* those whose template renders to at most 3000 tokens
  Chunk,      \* prompts generated before each flush
  MaxCrashes  \* bound on the number of kills

\* collect_prompts.py numbers the prompts it writes.
ASSUME ConstantsOK ==
  /\ Chunk \in Nat \ {0} /\ NoOne \notin Proc
  /\ Prompts \in Seq(Nat)
  /\ \A i, j \in DOMAIN Prompts : Prompts[i] = Prompts[j] => i = j

VARIABLES
  lines,     \* the file: each line the records with bytes in it, and its end
  lock,      \* who holds <path>.lock
  pc,        \* "idle", "resume" or "run"
  todo,      \* prompts the run still has to generate
  buf,       \* records written but not wholly in the file
  sent,      \* of the first of them: 0 nothing, 1 a part, 2 all but its newline
  crashes    \* kills so far

vars == <<lines, lock, pc, todo, buf, sent, crashes>>

\* A line is one whole JSON record when no other record's bytes are in it.
IsRecord(l) == l.end # "part" /\ Len(l.recs) = 1
Records == {i \in DOMAIN lines : IsRecord(lines[i])}
Done == {lines[i].recs[1] : i \in Records}

Init ==
  /\ lines = <<>> /\ lock = NoOne /\ crashes = 0
  /\ pc = [p \in Proc |-> "idle"]
  /\ todo = [p \in Proc |-> <<>>]
  /\ buf = [p \in Proc |-> <<>>]
  /\ sent = [p \in Proc |-> 0]

\* exclusive_output: a second process exits at once, nothing changed.
Start_Unlocked(p) ==
  /\ pc[p] = "idle"
  /\ pc' = [pc EXCEPT ![p] = "resume"]
  /\ UNCHANGED <<lines, lock, todo, buf, sent, crashes>>

Start(p) ==
  /\ pc[p] = "idle" /\ lock = NoOne
  /\ lock' = p
  /\ pc' = [pc EXCEPT ![p] = "resume"]
  /\ UNCHANGED <<lines, todo, buf, sent, crashes>>

\* load_completed: a last line that is no record is cut off, a last record
\* without its newline gets it; a bad line before the last is an error.
Repaired_DropUnended(ls) ==
  IF ls = <<>> \/ ls[Len(ls)].end = "newline" THEN ls
  ELSE SubSeq(ls, 1, Len(ls) - 1)
Repaired_NoNewline(ls) ==
  IF ls = <<>> \/ IsRecord(ls[Len(ls)]) THEN ls ELSE SubSeq(ls, 1, Len(ls) - 1)
Repaired(ls) ==
  IF ls = <<>> THEN ls
  ELSE IF IsRecord(ls[Len(ls)]) THEN [ls EXCEPT ![Len(ls)].end = "newline"]
  ELSE SubSeq(ls, 1, Len(ls) - 1)

Corrupt == \E i \in 1..(Len(lines) - 1) : ~IsRecord(lines[i])

\* The ids of s that are in S, in order.
Only(s, S) ==
  LET upTo[i \in 0 .. Len(s)] ==
        IF i = 0 THEN <<>>
        ELSE IF s[i] \in S THEN Append(upTo[i - 1], s[i]) ELSE upTo[i - 1]
  IN upTo[Len(s)]

Remaining(done) == Only(Prompts, {Prompts[i] : i \in DOMAIN Prompts} \ done)

\* The process ends: the stream is closed empty, or lost; the OS drops the lock.
Exit(p) ==
  /\ pc' = [pc EXCEPT ![p] = "idle"]
  /\ lock' = NoOne
  /\ todo' = [todo EXCEPT ![p] = <<>>]
  /\ buf' = [buf EXCEPT ![p] = <<>>]
  /\ sent' = [sent EXCEPT ![p] = 0]

Resume(p) ==
  /\ pc[p] = "resume"
  /\ IF Corrupt THEN Exit(p) /\ UNCHANGED lines
     ELSE /\ lines' = Repaired(lines)
          /\ todo' = [todo EXCEPT ![p] = Remaining(Done)]
          /\ pc' = [pc EXCEPT ![p] = "run"]
          /\ UNCHANGED <<lock, buf, sent>>
  /\ UNCHANGED crashes

\* One chunk is generated and its records are written to the stream; the last
\* chunk's flush is over before the next begins.
NextChunk(p) ==
  /\ pc[p] = "run" /\ buf[p] = <<>> /\ todo[p] # <<>>
  /\ LET n == IF Len(todo[p]) < Chunk THEN Len(todo[p]) ELSE Chunk
     IN /\ buf' = [buf EXCEPT ![p] =
                     Only(SubSeq(todo[p], 1, n), Fit)]
        /\ todo' = [todo EXCEPT ![p] = SubSeq(@, n + 1, Len(@))]
  /\ UNCHANGED <<lines, lock, pc, sent, crashes>>

\* The stream appends the next piece of its first record to the file.
Reach(p) ==
  LET id == Head(buf[p])
      last == Len(lines)
      end == <<"part", "record", "newline">>[sent[p] + 1]
  IN IF last = 0 \/ lines[last].end = "newline"
     THEN lines' = Append(lines, [recs |-> <<id>>, end |-> end])
     ELSE IF sent[p] = 0
     THEN lines' = [lines EXCEPT ![last] =
                      [recs |-> Append(@.recs, id), end |-> "part"]]
     ELSE lines' = [lines EXCEPT ![last].end = end]

Spilled(n) == (n + 1) % 3

Spill(p) ==
  /\ pc[p] = "run" /\ buf[p] # <<>>
  /\ Reach(p)
  /\ sent' = [sent EXCEPT ![p] = Spilled(@)]
  /\ buf' = [buf EXCEPT ![p] = IF sent[p] = 2 THEN Tail(@) ELSE @]
  /\ UNCHANGED <<lock, pc, todo, crashes>>

Finish(p) ==
  /\ pc[p] = "run" /\ buf[p] = <<>> /\ todo[p] = <<>>
  /\ Exit(p)
  /\ UNCHANGED <<lines, crashes>>

Kill(p) ==
  /\ crashes < MaxCrashes /\ pc[p] # "idle"
  /\ Exit(p)
  /\ crashes' = crashes + 1
  /\ UNCHANGED lines

Work(p) == Start(p) \/ Resume(p) \/ NextChunk(p) \/ Spill(p) \/ Finish(p)

Next == \E p \in Proc : Work(p) \/ Kill(p)

Spec == Init /\ [][Next]_vars

\* The operator starts the run again until it is done, and the machine works.
FairSpec == Spec /\ \A p \in Proc : WF_vars(Work(p))

-----------------------------------------------------------------------------
(* Properties *)

\* capture.py reads the file line by line: wherever the kills fell, only the
\* last line may be cut short, so a resume never finds the file corrupt.
LinesReadable == ~Corrupt

\* No prompt is generated into the training data twice, however often the run
\* is killed and resumed.
NoDuplicate ==
  \A i, j \in Records : lines[i].recs[1] = lines[j].recs[1] => i = j

\* A record that is whole in the file, newline or not, is never given up:
\* repairing the tail costs at most the one record that was cut short.
NothingLost == [][Done \subseteq Done']_vars

\* Restarts after kills finish the job.
AllGenerated == <>[](Fit \subseteq Done)
=============================================================================
