------------------------- MODULE Generation_proofs -------------------------
(***************************************************************************)
(* Proofs about the resumable output, for every number of processes,       *)
(* prompts, kills and every chunk size.                                    *)
(***************************************************************************)
EXTENDS Generation, WellFoundedInduction, TLAPS

(* Induction, as a fact about sets of naturals: a set without a least      *)
(* counterexample has none.                                                *)

LEMMA LeastNat ==
  ASSUME NEW S, S \subseteq Nat, S # {}
  PROVE  \E m \in S : \A n \in S : m <= n
<1> DEFINE R == {ss \in Nat \X Nat : ss[1] < ss[2]}
<1>1. IsWellFoundedOn(R, Nat)
  BY NatLessThanWellFounded DEF OpToRel
<1>2. PICK m \in S : \A n \in S : ~(<<n, m>> \in R)
  BY <1>1, WFMin
<1>3. ASSUME NEW n \in S PROVE m <= n
  <2>1. m \in Nat /\ n \in Nat /\ <<n, m>> \in Nat \X Nat /\ <<n, m>> \notin R
    BY <1>2
  <2> QED BY <2>1
<1> QED BY <1>3

LEMMA Induction ==
  ASSUME NEW S, 0 \in S, \A n \in Nat : n \in S => n + 1 \in S
  PROVE  Nat \subseteq S
<1> SUFFICES ASSUME Nat \ S # {} PROVE FALSE
  OBVIOUS
<1>1. PICK m \in Nat \ S : \A n \in Nat \ S : m <= n
  BY LeastNat
<1>2. m - 1 \in Nat
  BY <1>1
<1> QED BY <1>1, <1>2

LEMMA LastOrBefore == \A n \in Nat : \A i \in 1 .. n : i = n \/ i \in 1 .. n - 1
  OBVIOUS

-----------------------------------------------------------------------------
(* What the list comprehension of gen_data.py selects.                     *)

LEMMA OnlyRecursion ==
  ASSUME NEW s, Len(s) \in Nat, NEW S
  PROVE  \E g : /\ g = [i \in 0 .. Len(s) |->
                          IF i = 0 THEN <<>>
                          ELSE IF s[i] \in S THEN Append(g[i - 1], s[i]) ELSE g[i - 1]]
                /\ Only(s, S) = g[Len(s)]
<1> DEFINE B(g, i) == IF i = 0 THEN <<>>
                      ELSE IF s[i] \in S THEN Append(g[i - 1], s[i]) ELSE g[i - 1]
           Fixed(g, n) == g = [i \in 0 .. n |-> B(g, i)]
           Good == {n \in Nat : \E g : Fixed(g, n)}
<1>1. 0 \in Good
  <2>1. Fixed([i \in 0 .. 0 |-> <<>>], 0)
    OBVIOUS
  <2> QED BY <2>1
<1>2. ASSUME NEW n \in Nat, n \in Good PROVE n + 1 \in Good
  <2>1. PICK g : Fixed(g, n)
    BY <1>2
  <2> DEFINE h == [i \in 0 .. n + 1 |-> IF i <= n THEN g[i] ELSE B(g, i)]
  <2>2. ASSUME NEW i \in 0 .. n + 1 PROVE h[i] = B(h, i)
    <3>1. i = 0 \/ (i - 1 \in 0 .. n /\ h[i - 1] = g[i - 1])
      OBVIOUS
    <3>2. B(h, i) = B(g, i)
      BY <3>1
    <3>3. i <= n => g[i] = B(g, i)
      <4> HIDE DEF B, h
      <4>1. g = [j \in 0 .. n |-> B(g, j)]
        BY <2>1
      <4>2. i <= n => i \in 0 .. n
        OBVIOUS
      <4> QED BY <4>1, <4>2, Zenon
    <3> QED BY <3>2, <3>3
  <2> HIDE DEF h
  <2>3. h = [i \in 0 .. n + 1 |-> B(h, i)]
    BY <2>2 DEF h
  <2>4. \E f : Fixed(f, n + 1)
    BY <2>3
  <2>5. n + 1 \in Nat
    OBVIOUS
  <2> HIDE DEF Fixed
  <2> QED BY <2>4, <2>5
<1>3. PICK g : Fixed(g, Len(s))
  <2> HIDE DEF Good
  <2>1. Nat \subseteq Good
    BY <1>1, <1>2, Induction
  <2> QED BY <2>1 DEF Good
<1>4. Only(s, S) = (CHOOSE f : Fixed(f, Len(s)))[Len(s)]
  BY DEF Only
<1>5. Fixed(CHOOSE f : Fixed(f, Len(s)), Len(s))
  BY <1>3
<1> QED BY <1>4, <1>5

\* What is selected comes from the list, passes the test, and repeats nothing
\* the list does not repeat.
LEMMA OnlySelects ==
  ASSUME NEW T, NEW s \in Seq(T), NEW S
  PROVE  /\ Only(s, S) \in Seq(T)
         /\ \A i \in DOMAIN Only(s, S) :
              Only(s, S)[i] \in S /\ \E k \in DOMAIN s : Only(s, S)[i] = s[k]
         /\ (\A i, j \in DOMAIN s : s[i] = s[j] => i = j)
              => \A i, j \in DOMAIN Only(s, S) : Only(s, S)[i] = Only(s, S)[j] => i = j
<1>1. Len(s) \in Nat /\ DOMAIN s = 1 .. Len(s) /\ \A k \in DOMAIN s : s[k] \in T
  OBVIOUS
<1>2. PICK g : /\ g = [i \in 0 .. Len(s) |->
                         IF i = 0 THEN <<>>
                         ELSE IF s[i] \in S THEN Append(g[i - 1], s[i]) ELSE g[i - 1]]
               /\ Only(s, S) = g[Len(s)]
  BY <1>1, OnlyRecursion
<1> DEFINE Unique(t) == \A i, j \in DOMAIN t : t[i] = t[j] => i = j
           Fine(n) == /\ g[n] \in Seq(T)
                      /\ \A i \in DOMAIN g[n] :
                           g[n][i] \in S /\ \E k \in 1 .. n : g[n][i] = s[k]
                      /\ Unique(s) => Unique(g[n])
           Good == {n \in Nat : n <= Len(s) => Fine(n)}
<1>3. g[0] = <<>>
  BY <1>1, <1>2
<1>4. ASSUME NEW n \in Nat, n + 1 <= Len(s)
      PROVE  /\ n + 1 \in DOMAIN s /\ s[n + 1] \in T
             /\ s[n + 1] \in S => g[n + 1] = Append(g[n], s[n + 1])
             /\ s[n + 1] \notin S => g[n + 1] = g[n]
  <2>1. n + 1 \in 0 .. Len(s) /\ n + 1 # 0 /\ (n + 1) - 1 = n /\ n + 1 \in DOMAIN s
    BY <1>1, <1>4
  <2>2. g[n + 1] = IF n + 1 = 0 THEN <<>>
                   ELSE IF s[n + 1] \in S THEN Append(g[n + 1 - 1], s[n + 1])
                   ELSE g[n + 1 - 1]
    <3> DEFINE B(i) == IF i = 0 THEN <<>>
                       ELSE IF s[i] \in S THEN Append(g[i - 1], s[i]) ELSE g[i - 1]
    <3>1. g = [i \in 0 .. Len(s) |-> B(i)]
      BY <1>2
    <3> HIDE DEF B
    <3>2. g[n + 1] = B(n + 1)
      BY <2>1, <3>1, Zenon
    <3> QED BY <3>2 DEF B
  <2> QED BY <1>1, <2>1, <2>2
<1>5. 0 \in Good
  <2>1. g[0] \in Seq(T) /\ DOMAIN g[0] = {}
    BY <1>3
  <2>2. Fine(0)
    BY <2>1
  <2> QED BY <2>2
<1>6. ASSUME NEW n \in Nat, n \in Good PROVE n + 1 \in Good
  <2> SUFFICES ASSUME n + 1 <= Len(s) PROVE Fine(n + 1)
    OBVIOUS
  <2>1. Fine(n)
    BY <1>6
  <2>2. CASE s[n + 1] \notin S
    BY <2>1, <2>2, <1>4
  <2>3. CASE s[n + 1] \in S
    <3> DEFINE t == g[n]
    <3>1. /\ g[n + 1] = Append(t, s[n + 1]) /\ n + 1 \in DOMAIN s
          /\ t \in Seq(T) /\ s[n + 1] \in T
      BY <2>1, <2>3, <1>4
    <3>2. /\ DOMAIN g[n + 1] = 1 .. Len(t) + 1 /\ g[n + 1] \in Seq(T)
          /\ g[n + 1][Len(t) + 1] = s[n + 1] /\ Len(t) \in Nat /\ DOMAIN t = 1 .. Len(t)
          /\ \A i \in 1 .. Len(t) : g[n + 1][i] = t[i]
      BY <3>1
    <3>3. \A i \in 1 .. Len(t) : t[i] \in S /\ \E k \in 1 .. n : t[i] = s[k]
      BY <2>1, <3>2
    <3>4. \A i \in DOMAIN g[n + 1] :
            g[n + 1][i] \in S /\ \E k \in 1 .. n + 1 : g[n + 1][i] = s[k]
      <4> HIDE DEF t
      <4> SUFFICES ASSUME NEW i \in 1 .. Len(t) + 1
                   PROVE  g[n + 1][i] \in S /\ \E k \in 1 .. n + 1 : g[n + 1][i] = s[k]
        BY <3>2
      <4>1. CASE i = Len(t) + 1
        BY <4>1, <3>2, <2>3
      <4>2. CASE i # Len(t) + 1
        <5>1. i \in 1 .. Len(t)
          BY <4>2, <3>2
        <5>2. g[n + 1][i] = t[i]
          BY <3>2, <5>1
        <5>3. t[i] \in S /\ \E k \in 1 .. n : t[i] = s[k]
          BY <3>3, <5>1
        <5>4. \A k \in 1 .. n : k \in 1 .. n + 1
          OBVIOUS
        <5> QED BY <5>2, <5>3, <5>4, Zenon
      <4> QED BY <4>1, <4>2
    <3>5. ASSUME Unique(s), NEW i \in DOMAIN g[n + 1], NEW j \in DOMAIN g[n + 1],
                 g[n + 1][i] = g[n + 1][j]
          PROVE  i = j
      <4>1. \A k \in 1 .. Len(t) : t[k] # s[n + 1]
        <5> HIDE DEF t
        <5> SUFFICES ASSUME NEW k \in 1 .. Len(t), t[k] = s[n + 1] PROVE FALSE
          OBVIOUS
        <5>1. PICK l \in 1 .. n : t[k] = s[l]
          BY <3>3
        <5>2. l \in DOMAIN s /\ l # n + 1
          BY <1>1, <3>1
        <5> QED BY <3>1, <3>5, <5>1, <5>2
      <4>2. \A k, l \in 1 .. Len(t) : t[k] = t[l] => k = l
        BY <2>1, <3>2, <3>5
      <4> HIDE DEF t
      <4>3. \A k \in 1 .. Len(t) + 1 : k \in 1 .. Len(t) \/ k = Len(t) + 1
        BY <3>2
      <4> QED BY <3>2, <3>5, <4>1, <4>2, <4>3
    <3> QED BY <3>2, <3>4, <3>5
  <2> QED BY <2>2, <2>3
<1>7. Fine(Len(s))
  <2> HIDE DEF Good
  <2>1. Len(s) \in Good
    BY <1>1, <1>5, <1>6, Induction
  <2> QED BY <2>1 DEF Good
<1> QED BY <1>1, <1>2, <1>7

-----------------------------------------------------------------------------
(* The invariant.                                                          *)

Line == [recs : Seq(Nat), end : {"part", "record", "newline"}]
Unique(s) == \A i, j \in DOMAIN s : s[i] = s[j] => i = j

Types ==
  /\ lines \in Seq(Line)
  /\ pc \in [Proc -> {"idle", "resume", "run"}]
  /\ todo \in [Proc -> Seq(Nat)] /\ buf \in [Proc -> Seq(Nat)]
  /\ sent \in [Proc -> 0 .. 2]

\* Every line holds the bytes of one record, no two of the same; all but the
\* last are ended.
FileInv ==
  /\ \A i \in DOMAIN lines : Len(lines[i].recs) = 1
  /\ \A i \in 1 .. Len(lines) - 1 : lines[i].end = "newline"
  /\ \A i, j \in DOMAIN lines : lines[i].recs[1] = lines[j].recs[1] => i = j

\* Only the holder of the lock has work.
LockInv == \A p \in Proc :
  /\ pc[p] # "idle" => lock = p
  /\ pc[p] # "run" => todo[p] = <<>> /\ buf[p] = <<>> /\ sent[p] = 0

\* The file ends where the stream stands in its first record.
TailInv(p) ==
  /\ sent[p] = 0 => lines = <<>> \/ lines[Len(lines)].end = "newline"
  /\ sent[p] # 0 =>
       /\ lines # <<>> /\ buf[p] # <<>>
       /\ lines[Len(lines)] = [recs |-> <<Head(buf[p])>>,
                               end  |-> <<"part", "record">>[sent[p]]]

\* What is still to come is new to the file, but for the record under way.
FreshInv(p) ==
  /\ Unique(buf[p]) /\ Unique(todo[p])
  /\ \A k \in DOMAIN buf[p], l \in DOMAIN todo[p] : buf[p][k] # todo[p][l]
  /\ \A i \in DOMAIN lines, l \in DOMAIN todo[p] : lines[i].recs[1] # todo[p][l]
  /\ \A i \in DOMAIN lines, k \in DOMAIN buf[p] :
       lines[i].recs[1] = buf[p][k] => k = 1 /\ sent[p] # 0

RunInv == \A p \in Proc : pc[p] = "run" => TailInv(p) /\ FreshInv(p)

GenInv == Types /\ FileInv /\ LockInv /\ RunInv

LEMMA Alone ==
  ASSUME GenInv, NEW p \in Proc, pc[p] # "idle"
  PROVE  /\ lock = p
         /\ \A r \in Proc \ {p} : /\ pc[r] = "idle" /\ todo[r] = <<>>
                                  /\ buf[r] = <<>> /\ sent[r] = 0
  BY DEF GenInv, LockInv

\* A step of p leaves everybody else idle, so only p's part is to be shown.
LEMMA OnlyHolder ==
  ASSUME GenInv, NEW p \in Proc, pc[p] # "idle" \/ lock = NoOne,
         Types', FileInv',
         \A r \in Proc \ {p} : /\ pc'[r] = pc[r] /\ todo'[r] = todo[r]
                               /\ buf'[r] = buf[r] /\ sent'[r] = sent[r],
         pc'[p] # "idle" => lock' = p,
         pc'[p] # "run" => todo'[p] = <<>> /\ buf'[p] = <<>> /\ sent'[p] = 0,
         pc'[p] = "run" => TailInv(p)' /\ FreshInv(p)'
  PROVE  GenInv'
<1>1. \A r \in Proc \ {p} : /\ pc[r] = "idle" /\ todo[r] = <<>>
                            /\ buf[r] = <<>> /\ sent[r] = 0
  BY ConstantsOK DEF GenInv, LockInv
<1>2. LockInv'
  BY <1>1 DEF LockInv
<1>3. ASSUME NEW r \in Proc, pc'[r] = "run" PROVE r = p
  BY <1>1, <1>3
<1>4. RunInv'
  BY <1>3 DEF RunInv
<1> QED BY <1>2, <1>4 DEF GenInv

LEMMA ExitInv ==
  ASSUME GenInv, NEW p \in Proc, pc[p] # "idle", Exit(p), lines' = lines
  PROVE  GenInv'
<1>1. Types' /\ FileInv'
  BY DEF GenInv, Types, FileInv, Exit
<1>2. pc'[p] = "idle" /\ todo'[p] = <<>> /\ buf'[p] = <<>> /\ sent'[p] = 0
  BY DEF GenInv, Types, Exit
<1>3. \A r \in Proc \ {p} : /\ pc'[r] = pc[r] /\ todo'[r] = todo[r]
                            /\ buf'[r] = buf[r] /\ sent'[r] = sent[r]
  BY DEF GenInv, Types, Exit
<1> QED BY <1>1, <1>2, <1>3, OnlyHolder

\* The file is never found corrupt.
LEMMA NeverCorrupt == GenInv => ~Corrupt
  BY DEF GenInv, Types, FileInv, Corrupt, IsRecord, Line

\* Repairing the tail leaves whole lines only, the ids that were whole before.
LEMMA RepairedFile ==
  ASSUME GenInv
  PROVE  /\ Repaired(lines) \in Seq(Line)
         /\ Len(Repaired(lines)) <= Len(lines)
         /\ \A i \in DOMAIN Repaired(lines) :
              /\ Repaired(lines)[i].recs = lines[i].recs
              /\ Repaired(lines)[i].end = "newline"
              /\ i \in Records
         /\ \A i \in Records : i \in DOMAIN Repaired(lines)
<1> DEFINE n == Len(lines)
<1>1. n \in Nat /\ lines \in Seq(Line) /\ DOMAIN lines = 1 .. n
  BY DEF GenInv, Types
<1>2. \A i \in DOMAIN lines : lines[i] \in Line /\ Len(lines[i].recs) = 1
  BY <1>1 DEF GenInv, FileInv
<1>3. \A i \in 1 .. n - 1 : lines[i].end = "newline"
  BY DEF GenInv, FileInv
<1>4. CASE lines = <<>>
  BY <1>4 DEF Repaired, Records
<1>5. CASE lines # <<>> /\ IsRecord(lines[n])
  <2> DEFINE t == [lines EXCEPT ![n].end = "newline"]
  <2>1. Repaired(lines) = t /\ n \in DOMAIN lines
    BY <1>1, <1>5 DEF Repaired
  <2>2. /\ DOMAIN t = 1 .. n /\ \A i \in 1 .. n - 1 : t[i] = lines[i]
        /\ t[n] = [lines[n] EXCEPT !.end = "newline"]
    BY <1>1, <2>1
  <2>3. t[n] \in Line /\ t[n].recs = lines[n].recs /\ t[n].end = "newline"
    BY <1>2, <2>1, <2>2 DEF Line
  <2> HIDE DEF t
  <2>4. \A i \in 1 .. n : /\ t[i] \in Line /\ t[i].recs = lines[i].recs
                          /\ t[i].end = "newline" /\ i \in Records
    <3> SUFFICES ASSUME NEW i \in 1 .. n
                 PROVE  /\ t[i] \in Line /\ t[i].recs = lines[i].recs
                        /\ t[i].end = "newline" /\ i \in Records
      OBVIOUS
    <3>1. CASE i = n
      BY <3>1, <1>1, <1>5, <2>1, <2>3 DEF Records
    <3>2. CASE i # n
      <4> HIDE DEF n
      <4>1. i \in 1 .. n - 1
        BY <3>2, <1>1
      <4> QED BY <4>1, <1>1, <1>2, <1>3, <2>2 DEF Records, IsRecord
    <3> QED BY <3>1, <3>2
  <2>5. t \in Seq(Line) /\ Len(t) = n
    <3>1. t = [i \in 1 .. n |-> t[i]]
      BY <1>1, <2>1, <2>2 DEF t
    <3> QED BY <1>1, <2>4, <3>1
  <2> QED BY <1>1, <2>1, <2>2, <2>4, <2>5 DEF Records
<1>6. CASE lines # <<>> /\ ~IsRecord(lines[n])
  <2>1. Repaired(lines) = SubSeq(lines, 1, n - 1) /\ n - 1 \in Nat
    BY <1>1, <1>6 DEF Repaired
  <2>2. /\ Repaired(lines) \in Seq(Line) /\ Len(Repaired(lines)) = n - 1
        /\ DOMAIN Repaired(lines) = 1 .. n - 1
        /\ \A i \in 1 .. n - 1 : Repaired(lines)[i] = lines[i]
    BY <1>1, <2>1
  <2>3. \A i \in 1 .. n - 1 : i \in Records
    BY <1>1, <1>2, <1>3 DEF Records, IsRecord
  <2>4. n \notin Records
    BY <1>6 DEF Records
  <2>5. \A i \in Records : i \in 1 .. n - 1
    <3> SUFFICES ASSUME NEW i \in Records PROVE i \in 1 .. n - 1
      OBVIOUS
    <3>1. i \in 1 .. n /\ i # n
      BY <1>1, <2>4 DEF Records
    <3> HIDE DEF n
    <3> QED BY <1>1, <3>1
  <2>6. \A i \in 1 .. n - 1 : /\ Repaired(lines)[i].recs = lines[i].recs
                              /\ Repaired(lines)[i].end = "newline"
    BY <1>3, <2>2
  <2>7. n - 1 <= n
    BY <1>1
  <2> QED BY <2>2, <2>3, <2>5, <2>6, <2>7
<1> QED BY <1>4, <1>5, <1>6

LEMMA ResumeInv ==
  ASSUME GenInv, NEW p \in Proc, Resume(p)
  PROVE  GenInv'
<1> DEFINE done == {Prompts[i] : i \in DOMAIN Prompts} \ Done
           left == Only(Prompts, done)
<1>1. /\ pc[p] = "resume" /\ lines' = Repaired(lines)
      /\ todo' = [todo EXCEPT ![p] = left] /\ pc' = [pc EXCEPT ![p] = "run"]
      /\ UNCHANGED <<lock, buf, sent>>
  BY NeverCorrupt DEF Resume, Remaining
<1>2. /\ left \in Seq(Nat) /\ Unique(left)
      /\ \A k \in DOMAIN left : left[k] \notin Done
  <2>1. Unique(Prompts)
    BY ConstantsOK DEF Unique
  <2> QED BY <2>1, OnlySelects, ConstantsOK DEF Unique
<1> HIDE DEF left
<1>3. lines \in Seq(Line) /\ DOMAIN lines = 1 .. Len(lines) /\ Len(lines) \in Nat
  BY DEF GenInv, Types
<1>4. /\ lines' \in Seq(Line) /\ Len(lines') \in Nat /\ DOMAIN lines' = 1 .. Len(lines')
      /\ Len(lines') <= Len(lines)
      /\ \A i \in DOMAIN lines' : /\ lines'[i].recs = lines[i].recs
                                  /\ lines'[i].end = "newline" /\ i \in Records
  BY <1>1, RepairedFile
<1>5. DOMAIN lines' \subseteq DOMAIN lines
  BY <1>3, <1>4
<1>6. FileInv'
  BY <1>4, <1>5 DEF GenInv, FileInv
<1>7. Types'
  BY <1>1, <1>2, <1>4 DEF GenInv, Types
<1>8. /\ pc'[p] = "run" /\ todo'[p] = left /\ buf'[p] = <<>> /\ sent'[p] = 0
      /\ lock' = p
  BY <1>1 DEF GenInv, Types, LockInv
<1>9. \A i \in DOMAIN lines' : lines'[i].recs[1] \in Done
  BY <1>4 DEF Done
<1>10. TailInv(p)' /\ FreshInv(p)'
  <2>1. lines' = <<>> \/ lines'[Len(lines')].end = "newline"
    BY <1>4
  <2> QED BY <1>2, <1>8, <1>9, <2>1 DEF TailInv, FreshInv, Unique
<1>11. \A r \in Proc \ {p} : /\ pc'[r] = pc[r] /\ todo'[r] = todo[r]
                             /\ buf'[r] = buf[r] /\ sent'[r] = sent[r]
  BY <1>1 DEF GenInv, Types
<1> QED BY <1>1, <1>6, <1>7, <1>8, <1>10, <1>11, OnlyHolder

LEMMA NextChunkInv ==
  ASSUME GenInv, NEW p \in Proc, NextChunk(p)
  PROVE  GenInv'
<1> DEFINE n == IF Len(todo[p]) < Chunk THEN Len(todo[p]) ELSE Chunk
           batch == SubSeq(todo[p], 1, n)
           rest == SubSeq(todo[p], n + 1, Len(todo[p]))
           kept == Only(batch, Fit)
<1>1. /\ pc[p] = "run" /\ buf[p] = <<>> /\ todo[p] # <<>>
      /\ buf' = [buf EXCEPT ![p] = kept] /\ todo' = [todo EXCEPT ![p] = rest]
      /\ UNCHANGED <<lines, lock, pc, sent>>
  BY DEF NextChunk
<1>2. /\ todo[p] \in Seq(Nat) /\ Len(todo[p]) \in Nat
      /\ n \in Nat \ {0} /\ n <= Len(todo[p])
      /\ Unique(todo[p])
      /\ \A i \in DOMAIN lines, l \in DOMAIN todo[p] : lines[i].recs[1] # todo[p][l]
  <2>1. todo[p] \in Seq(Nat) /\ Len(todo[p]) \in Nat \ {0}
    BY <1>1 DEF GenInv, Types
  <2> QED BY <1>1, <2>1, ConstantsOK DEF GenInv, RunInv, FreshInv
<1> HIDE DEF n
<1>3. /\ batch \in Seq(Nat) /\ DOMAIN batch = 1 .. n /\ \A i \in 1 .. n : batch[i] = todo[p][i]
      /\ rest \in Seq(Nat) /\ DOMAIN rest = 1 .. Len(todo[p]) - n
      /\ \A i \in 1 .. Len(todo[p]) - n : rest[i] = todo[p][n + i]
      /\ DOMAIN todo[p] = 1 .. Len(todo[p])
  BY <1>2
<1> HIDE DEF batch, rest
<1> DEFINE len == Len(todo[p])
<1> HIDE DEF len
<1>13. /\ DOMAIN rest = 1 .. len - n /\ DOMAIN todo[p] = 1 .. len
       /\ len \in Nat /\ n \in Nat /\ n <= len
       /\ \A i \in 1 .. n : i \in 1 .. len
       /\ \A i \in 1 .. len - n : n + i \in 1 .. len
  BY <1>2, <1>3 DEF len
<1>4. Unique(batch) /\ Unique(rest)
  <2>1. Unique(batch)
    BY <1>13, <1>2, <1>3 DEF Unique
  <2>2. ASSUME NEW i \in 1 .. len - n, NEW j \in 1 .. len - n, rest[i] = rest[j]
        PROVE  i = j
    <3>1. rest[i] = todo[p][n + i] /\ rest[j] = todo[p][n + j]
      BY <1>3 DEF len
    <3>2. n + i = n + j
      BY <3>1, <2>2, <1>13, <1>2 DEF Unique
    <3> QED BY <3>2, <1>13
  <2> QED BY <1>13, <2>1, <2>2 DEF Unique
<1>5. /\ kept \in Seq(Nat) /\ Unique(kept)
      /\ \A k \in DOMAIN kept : \E i \in 1 .. n : kept[k] = todo[p][i]
  <2>1. /\ kept \in Seq(Nat) /\ Unique(kept)
        /\ \A k \in DOMAIN kept : \E i \in DOMAIN batch : kept[k] = batch[i]
    <3>1. \A i, j \in DOMAIN batch : batch[i] = batch[j] => i = j
      BY <1>4 DEF Unique
    <3>2. /\ Only(batch, Fit) \in Seq(Nat)
          /\ \A i \in DOMAIN Only(batch, Fit) :
               \E k \in DOMAIN batch : Only(batch, Fit)[i] = batch[k]
          /\ \A i, j \in DOMAIN Only(batch, Fit) :
               Only(batch, Fit)[i] = Only(batch, Fit)[j] => i = j
      <4>1. batch \in Seq(Nat)
        BY <1>3
      <4> QED BY <4>1, <3>1, OnlySelects, SMTT(30)
    <3> QED BY <3>2 DEF Unique
  <2> HIDE DEF kept
  <2> QED BY <2>1, <1>3
<1> HIDE DEF kept
<1>6. \A k \in DOMAIN kept, l \in DOMAIN rest : kept[k] # rest[l]
  <2> SUFFICES ASSUME NEW k \in DOMAIN kept, NEW l \in 1 .. Len(todo[p]) - n,
                      kept[k] = rest[l]
               PROVE  FALSE
    BY <1>3
  <2>1. PICK i \in 1 .. n : kept[k] = todo[p][i]
    BY <1>5
  <2>2. i \in DOMAIN todo[p] /\ n + l \in DOMAIN todo[p] /\ i # n + l
    BY <1>13, <1>3 DEF len
  <2> QED BY <1>2, <1>3, <2>1, <2>2 DEF Unique
<1>7. /\ \A i \in DOMAIN lines, k \in DOMAIN kept : lines[i].recs[1] # kept[k]
      /\ \A i \in DOMAIN lines, l \in DOMAIN rest : lines[i].recs[1] # rest[l]
  <2>1. ASSUME NEW i \in DOMAIN lines, NEW k \in DOMAIN kept
        PROVE  lines[i].recs[1] # kept[k]
    BY <1>13, <1>2, <1>5
  <2>2. ASSUME NEW i \in DOMAIN lines, NEW l \in 1 .. len - n
        PROVE  lines[i].recs[1] # rest[l]
    <3>1. rest[l] = todo[p][n + l] /\ n + l \in DOMAIN todo[p]
      BY <1>13, <1>3 DEF len
    <3> QED BY <3>1, <1>2
  <2> QED BY <1>13, <2>1, <2>2
<1>8. sent[p] = 0 /\ TailInv(p) /\ lock = p
  <2>1. TailInv(p) /\ sent[p] \in 0 .. 2 /\ lock = p
    BY <1>1 DEF GenInv, RunInv, Types, LockInv
  <2> QED BY <1>1, <2>1 DEF TailInv
<1>9. /\ pc'[p] = "run" /\ todo'[p] = rest /\ buf'[p] = kept /\ sent'[p] = 0
      /\ lock' = p /\ lines' = lines
  BY <1>1, <1>8 DEF GenInv, Types
<1>10. TailInv(p)' /\ FreshInv(p)'
  BY <1>4, <1>5, <1>6, <1>7, <1>8, <1>9 DEF TailInv, FreshInv
<1>11. Types' /\ FileInv'
  BY <1>1, <1>3, <1>5 DEF GenInv, Types, FileInv
<1>12. \A r \in Proc \ {p} : /\ pc'[r] = pc[r] /\ todo'[r] = todo[r]
                             /\ buf'[r] = buf[r] /\ sent'[r] = sent[r]
  BY <1>1 DEF GenInv, Types
<1> QED BY <1>1, <1>9, <1>10, <1>11, <1>12, OnlyHolder

\* A piece of the first record begins a line of its own, or ends the last one.
LEMMA SpillFile ==
  ASSUME GenInv, NEW p \in Proc, Spill(p)
  PROVE  /\ lines' \in Seq(Line)
         /\ sent[p] = 0 =>
              lines' = Append(lines, [recs |-> <<Head(buf[p])>>, end |-> "part"])
         /\ sent[p] # 0 =>
              /\ Len(lines') = Len(lines) /\ Len(lines) \in Nat \ {0}
              /\ \A i \in 1 .. Len(lines) - 1 : lines'[i] = lines[i]
              /\ lines[Len(lines)].recs = <<Head(buf[p])>>
              /\ lines'[Len(lines)] = [recs |-> <<Head(buf[p])>>,
                                       end |-> <<"part", "record", "newline">>[sent[p] + 1]]
<1> DEFINE n == Len(lines)
           id == Head(buf[p])
           e == <<"part", "record", "newline">>[sent[p] + 1]
<1>1. /\ pc[p] = "run" /\ buf[p] # <<>> /\ Reach(p) /\ sent[p] \in 0 .. 2
      /\ lines \in Seq(Line) /\ n \in Nat /\ TailInv(p)
  BY DEF Spill, GenInv, Types, RunInv
<1>2. id \in Nat
  BY <1>1 DEF GenInv, Types
<1>3. <<id>> \in Seq(Nat) /\ e \in {"part", "record", "newline"}
  BY <1>1, <1>2
<1>4. CASE sent[p] = 0
  <2>1. n = 0 \/ lines[n].end = "newline"
    BY <1>1, <1>4 DEF TailInv
  <2>2. lines' = Append(lines, [recs |-> <<id>>, end |-> e]) /\ e = "part"
    BY <1>1, <1>4, <2>1 DEF Reach
  <2>3. [recs |-> <<id>>, end |-> e] \in Line
    BY <1>3 DEF Line
  <2> QED BY <1>1, <1>4, <2>2, <2>3
<1>5. CASE sent[p] # 0
  <2>1. /\ lines # <<>> /\ lines[n] = [recs |-> <<id>>, end |-> <<"part", "record">>[sent[p]]]
    BY <1>1, <1>5 DEF TailInv
  <2>2. n # 0 /\ lines[n].end # "newline"
    BY <1>1, <1>5, <2>1
  <2>3. lines' = [lines EXCEPT ![n].end = e]
    BY <1>1, <1>5, <2>2 DEF Reach
  <2> HIDE DEF e, id
  <2>4. /\ DOMAIN lines' = 1 .. n /\ \A i \in 1 .. n - 1 : lines'[i] = lines[i]
        /\ lines'[n] = [recs |-> <<id>>, end |-> e]
    <3>1. DOMAIN lines = 1 .. n /\ n \in 1 .. n
      BY <1>1, <2>2
    <3>2. lines'[n] = [lines[n] EXCEPT !.end = e]
      BY <2>3, <3>1
    <3>3. lines'[n] = [recs |-> <<id>>, end |-> e]
      BY <3>2, <2>1
    <3> QED BY <2>3, <3>1, <3>3
  <2>5. \A i \in 1 .. n : lines'[i] \in Line
    <3>1. [recs |-> <<id>>, end |-> e] \in Line
      BY <1>3 DEF Line
    <3>2. \A i \in 1 .. n - 1 : lines'[i] \in Line
      BY <1>1, <2>4
    <3>3. \A i \in 1 .. n : i = n \/ i \in 1 .. n - 1
      BY <1>1, LastOrBefore
    <3> QED BY <2>4, <3>1, <3>2, <3>3
  <2>6. lines' \in Seq(Line) /\ Len(lines') = n
    <3>1. lines' = [i \in 1 .. n |-> lines'[i]]
      BY <2>3, <2>4
    <3> QED BY <1>1, <2>5, <3>1
  <2>7. lines[n].recs = <<id>> /\ n \in Nat \ {0}
    BY <1>1, <2>1, <2>2
  <2> HIDE DEF n
  <2>8. /\ Len(lines') = n /\ n \in Nat \ {0} /\ lines' \in Seq(Line)
        /\ \A i \in 1 .. n - 1 : lines'[i] = lines[i]
        /\ lines[n].recs = <<id>> /\ lines'[n] = [recs |-> <<id>>, end |-> e]
    BY <2>4, <2>6, <2>7
  <2> QED BY <1>5, <2>8, Zenon DEF e, id, n
<1> QED BY <1>4, <1>5

LEMMA SpillInv ==
  ASSUME GenInv, NEW p \in Proc, Spill(p)
  PROVE  GenInv'
<1> DEFINE n == Len(lines)
           id == Head(buf[p])
<1>1. /\ pc[p] = "run" /\ buf[p] # <<>> /\ sent[p] \in 0 .. 2
      /\ sent' = [sent EXCEPT ![p] = (sent[p] + 1) % 3]
      /\ buf' = [buf EXCEPT ![p] = IF sent[p] = 2 THEN Tail(buf[p]) ELSE buf[p]]
      /\ UNCHANGED <<lock, pc, todo>>
      /\ lines \in Seq(Line) /\ n \in Nat /\ DOMAIN lines = 1 .. n
      /\ TailInv(p) /\ FreshInv(p)
  BY DEF Spill, Spilled, GenInv, Types, RunInv
<1>2. /\ buf[p] \in Seq(Nat) /\ Len(buf[p]) \in Nat \ {0} /\ id = buf[p][1]
      /\ 1 \in DOMAIN buf[p] /\ DOMAIN buf[p] = 1 .. Len(buf[p]) /\ id \in Nat
  BY <1>1 DEF GenInv, Types
<1>3. /\ \A i \in DOMAIN lines : Len(lines[i].recs) = 1
      /\ \A i \in 1 .. n - 1 : lines[i].end = "newline"
      /\ \A i, j \in DOMAIN lines : lines[i].recs[1] = lines[j].recs[1] => i = j
  BY DEF GenInv, FileInv
<1>4. \A r \in Proc \ {p} : /\ pc'[r] = pc[r] /\ todo'[r] = todo[r]
                            /\ buf'[r] = buf[r] /\ sent'[r] = sent[r]
  BY <1>1 DEF GenInv, Types
<1>5. /\ pc'[p] = "run" /\ todo'[p] = todo[p] /\ lock' = p
      /\ buf'[p] = (IF sent[p] = 2 THEN Tail(buf[p]) ELSE buf[p])
      /\ sent'[p] = (sent[p] + 1) % 3
  BY <1>1 DEF GenInv, Types, LockInv
<1>6. Types'
  <2>1. (sent[p] + 1) % 3 \in 0 .. 2
    BY <1>1
  <2>2. Tail(buf[p]) \in Seq(Nat)
    BY <1>2
  <2> QED BY <1>1, <1>2, <2>1, <2>2, SpillFile DEF GenInv, Types
<1>7. CASE sent[p] = 0
  <2>1. /\ lines' = Append(lines, [recs |-> <<id>>, end |-> "part"])
        /\ buf'[p] = buf[p] /\ sent'[p] = 1
    BY <1>5, <1>7, SpillFile
  <2>2. /\ Len(lines') = n + 1 /\ DOMAIN lines' = 1 .. n + 1 /\ lines' # <<>>
        /\ lines'[n + 1] = [recs |-> <<id>>, end |-> "part"]
        /\ \A i \in 1 .. n : lines'[i] = lines[i]
    BY <1>1, <2>1
  <2>3. \A i \in DOMAIN lines, k \in DOMAIN buf[p] : lines[i].recs[1] # buf[p][k]
    BY <1>1, <1>7 DEF FreshInv
  <2>4. \A i \in 1 .. n : lines[i].end = "newline"
    <3>1. n = 0 \/ lines[n].end = "newline"
      BY <1>1, <1>7 DEF TailInv
    <3>2. \A i \in 1 .. n : i = n \/ i \in 1 .. n - 1
      BY <1>1, LastOrBefore
    <3> QED BY <1>3, <3>1, <3>2
  <2>5. \A i \in 1 .. n + 1 : i = n + 1 \/ i \in 1 .. n
    BY <1>1
  <2>6. lines'[n + 1].recs[1] = id /\ Len(lines'[n + 1].recs) = 1
    BY <2>2
  <2> HIDE DEF n, id
  <2>7. FileInv'
    <3>1. \A i \in 1 .. n : lines'[i].recs[1] # id
      BY <1>1, <1>2, <2>2, <2>3
    <3>2. \A i, j \in 1 .. n : lines'[i].recs[1] = lines'[j].recs[1] => i = j
      <4>1. \A i, j \in 1 .. n : lines[i].recs[1] = lines[j].recs[1] => i = j
        BY <1>1, <1>3
      <4> QED BY <2>2, <4>1
    <3>3. \A i, j \in 1 .. n + 1 : lines'[i].recs[1] = lines'[j].recs[1] => i = j
      BY <2>5, <2>6, <3>1, <3>2
    <3>4. \A i \in 1 .. n + 1 : Len(lines'[i].recs) = 1
      BY <1>1, <1>3, <2>2, <2>5, <2>6
    <3>5. \A i \in 1 .. Len(lines') - 1 : lines'[i].end = "newline"
      <4>1. Len(lines') - 1 = n
        BY <1>1, <2>2
      <4> QED BY <4>1, <2>2, <2>4
    <3> QED BY <2>2, <3>3, <3>4, <3>5 DEF FileInv
  <2>8. TailInv(p)'
    BY <1>2, <2>1, <2>2 DEF TailInv, id
  <2>9. FreshInv(p)'
    <3>1. \A l \in DOMAIN todo[p] : id # todo[p][l]
      BY <1>1, <1>2 DEF FreshInv
    <3>2. \A k \in DOMAIN buf[p] : id = buf[p][k] => k = 1
      BY <1>1, <1>2 DEF FreshInv, Unique
    <3>3. ASSUME NEW i \in 1 .. n + 1
          PROVE  /\ \A l \in DOMAIN todo[p] : lines'[i].recs[1] # todo[p][l]
                 /\ \A k \in DOMAIN buf[p] : lines'[i].recs[1] = buf[p][k] => k = 1
      <4>1. CASE i = n + 1
        BY <4>1, <2>6, <3>1, <3>2
      <4>2. CASE i \in 1 .. n
        <5>1. lines'[i] = lines[i] /\ i \in DOMAIN lines
          BY <4>2, <2>2, <1>1
        <5> QED BY <5>1, <2>3, <1>1 DEF FreshInv
      <4> QED BY <2>5, <4>1, <4>2
    <3> QED BY <1>1, <1>5, <2>1, <2>2, <3>3 DEF FreshInv
  <2> QED BY <1>1, <1>4, <1>5, <1>6, <2>7, <2>8, <2>9, OnlyHolder
<1>8. CASE sent[p] # 0
  <2> DEFINE e == <<"part", "record", "newline">>[sent[p] + 1]
  <2>1. /\ Len(lines') = n /\ n \in Nat \ {0}
        /\ \A i \in 1 .. n - 1 : lines'[i] = lines[i]
        /\ lines[n].recs = <<id>> /\ lines'[n] = [recs |-> <<id>>, end |-> e]
    BY <1>8, SpillFile, Zenon
  <2> HIDE DEF id, e
  <2>2. \A i \in 1 .. n : lines'[i].recs = lines[i].recs
    <3>1. \A i \in 1 .. n : i = n \/ i \in 1 .. n - 1
      BY <1>1, LastOrBefore
    <3>2. lines'[n].recs = lines[n].recs
      BY <2>1
    <3> HIDE DEF n
    <3> QED BY <2>1, <3>1, <3>2
  <2>3. lines' # <<>> /\ n \in 1 .. n /\ DOMAIN lines' = 1 .. n
    BY <2>1, <1>6 DEF Types
  <2> HIDE DEF n
  <2>4. FileInv'
    BY <1>1, <1>3, <2>1, <2>2 DEF FileInv
  <2>5. \A i \in DOMAIN lines : lines[i].recs[1] = id => i = n
    BY <1>1, <1>3, <2>1, <2>3
  <2>6. CASE sent[p] = 1
    <3>1. buf'[p] = buf[p] /\ sent'[p] = 2 /\ e = "record"
      BY <1>5, <2>6 DEF e
    <3>2. TailInv(p)'
      BY <1>2, <2>1, <2>3, <3>1 DEF TailInv, id
    <3>3. FreshInv(p)'
      <4>1. DOMAIN lines' = DOMAIN lines /\ sent'[p] # 0
        BY <1>1, <2>3, <3>1
      <4>2. /\ \A i \in DOMAIN lines, l \in DOMAIN todo[p] : lines'[i].recs[1] # todo[p][l]
            /\ \A i \in DOMAIN lines, k \in DOMAIN buf[p] :
                 lines'[i].recs[1] = buf[p][k] => k = 1
        BY <1>1, <2>2 DEF FreshInv
      <4> QED BY <1>1, <1>5, <3>1, <4>1, <4>2 DEF FreshInv
    <3> QED BY <1>1, <1>4, <1>5, <1>6, <2>4, <3>2, <3>3, OnlyHolder
  <2>7. CASE sent[p] = 2
    <3> DEFINE rest == Tail(buf[p])
    <3>1. buf'[p] = rest /\ sent'[p] = 0 /\ e = "newline"
      BY <1>5, <2>7 DEF e
    <3>2. TailInv(p)'
      BY <2>1, <3>1 DEF TailInv
    <3>3. /\ DOMAIN rest = 1 .. Len(buf[p]) - 1
          /\ \A k \in 1 .. Len(buf[p]) - 1 : rest[k] = buf[p][k + 1] /\ k + 1 \in DOMAIN buf[p]
      BY <1>2
    <3> HIDE DEF rest
    <3>4. FreshInv(p)'
      <4>1. Unique(rest)
        <5> SUFFICES ASSUME NEW k \in 1 .. Len(buf[p]) - 1, NEW l \in 1 .. Len(buf[p]) - 1,
                            rest[k] = rest[l]
                     PROVE  k = l
          BY <3>3 DEF Unique
        <5>1. k + 1 = l + 1
          BY <1>1, <3>3 DEF FreshInv, Unique
        <5> QED BY <5>1
      <4>2. \A k \in DOMAIN rest, l \in DOMAIN todo[p] : rest[k] # todo[p][l]
        BY <1>1, <3>3 DEF FreshInv
      <4>3. ASSUME NEW i \in DOMAIN lines, NEW k \in DOMAIN rest
            PROVE  lines[i].recs[1] # rest[k]
        <5>1. rest[k] = buf[p][k + 1] /\ k + 1 \in DOMAIN buf[p] /\ k + 1 # 1
          BY <1>2, <3>3
        <5> QED BY <5>1, <1>1 DEF FreshInv
      <4>4. DOMAIN lines' = DOMAIN lines
        BY <1>1, <2>3
      <4>5. \A i \in DOMAIN lines, k \in DOMAIN rest : lines'[i].recs[1] # rest[k]
        BY <1>1, <2>2, <4>3
      <4>6. \A i \in DOMAIN lines, l \in DOMAIN todo[p] : lines'[i].recs[1] # todo[p][l]
        BY <1>1, <2>2 DEF FreshInv
      <4>7. Unique(todo[p])
        BY <1>1 DEF FreshInv
      <4> QED BY <1>5, <3>1, <4>1, <4>2, <4>4, <4>5, <4>6, <4>7 DEF FreshInv
    <3> QED BY <1>1, <1>4, <1>5, <1>6, <2>4, <3>2, <3>4, OnlyHolder
  <2> QED BY <1>1, <1>8, <2>6, <2>7
<1> QED BY <1>7, <1>8

LEMMA GenInvInductive == GenInv /\ [Next]_vars => GenInv'
<1> SUFFICES ASSUME GenInv, [Next]_vars PROVE GenInv'
  OBVIOUS
<1>1. ASSUME NEW p \in Proc, Start(p) PROVE GenInv'
  <2>1. /\ pc[p] = "idle" /\ lock = NoOne /\ lock' = p
        /\ pc' = [pc EXCEPT ![p] = "resume"] /\ UNCHANGED <<lines, todo, buf, sent>>
    BY <1>1 DEF Start
  <2>2. Types' /\ FileInv'
    BY <2>1 DEF GenInv, Types, FileInv
  <2>3. todo[p] = <<>> /\ buf[p] = <<>> /\ sent[p] = 0 /\ pc'[p] = "resume"
    BY <2>1 DEF GenInv, LockInv, Types
  <2>4. \A r \in Proc \ {p} : pc'[r] = pc[r]
    BY <2>1 DEF GenInv, Types
  <2> QED BY <2>1, <2>2, <2>3, <2>4, OnlyHolder
<1>2. ASSUME NEW p \in Proc, Finish(p) PROVE GenInv'
  BY <1>2, ExitInv DEF Finish
<1>3. ASSUME NEW p \in Proc, Kill(p) PROVE GenInv'
  BY <1>3, ExitInv DEF Kill
<1>4. CASE UNCHANGED vars
  BY <1>4 DEF vars, GenInv, Types, FileInv, LockInv, RunInv, TailInv, FreshInv, Unique
<1> QED
  BY <1>1, <1>2, <1>3, <1>4, ResumeInv, NextChunkInv, SpillInv DEF Next, Work

LEMMA GenInvInit == Init => GenInv
  BY DEF Init, GenInv, Types, FileInv, LockInv, RunInv

LEMMA GenInvAlways == Spec => []GenInv
  BY GenInvInit, GenInvInductive, PTL DEF Spec

\* capture.py can read every line but the last, wherever the kills fell, and a
\* resume never refuses the file.
THEOREM Readable == Spec => []LinesReadable
<1>1. GenInv => LinesReadable
  BY NeverCorrupt DEF LinesReadable
<1> QED BY <1>1, GenInvAlways, PTL

\* However often the run is killed and resumed, no prompt is in the training
\* data twice.
THEOREM GeneratedOnce == Spec => []NoDuplicate
<1>1. GenInv => NoDuplicate
  BY DEF GenInv, FileInv, NoDuplicate, Records
<1> QED BY <1>1, GenInvAlways, PTL

\* No step, the repair of the tail included, gives up a record that is whole.
THEOREM RecordsKept == Spec => NothingLost
<1>1. GenInv /\ [Next]_vars => [Done \subseteq Done']_vars
  <2> SUFFICES ASSUME GenInv, Next PROVE Done \subseteq Done'
    BY DEF vars
  <2>1. ASSUME lines' = lines PROVE Done' = Done
    BY <2>1 DEF Done, Records
  <2>2. ASSUME NEW p \in Proc, Resume(p) PROVE Done \subseteq Done'
    <3>1. lines' = Repaired(lines)
      BY <2>2, NeverCorrupt DEF Resume
    <3>2. \A i \in Records : i \in Records' /\ lines'[i].recs = lines[i].recs
      BY <3>1, RepairedFile DEF Records, IsRecord
    <3> QED BY <3>2 DEF Done
  <2>3. ASSUME NEW p \in Proc, Spill(p) PROVE Done \subseteq Done'
    <3> DEFINE n == Len(lines)
    <3>1. lines \in Seq(Line) /\ n \in Nat /\ DOMAIN lines = 1 .. n /\ sent[p] \in 0 .. 2
      BY DEF GenInv, Types
    <3>2. CASE sent[p] = 0
      <4> DEFINE l == [recs |-> <<Head(buf[p])>>, end |-> "part"]
      <4>2. lines' = Append(lines, l)
        BY <2>3, <3>2, SpillFile
      <4> HIDE DEF l
      <4>1. \A i \in 1 .. n : i \in DOMAIN lines' /\ lines'[i] = lines[i]
        BY <3>1, <4>2
      <4> QED BY <3>1, <4>1 DEF Done, Records
    <3>3. CASE sent[p] # 0
      <4> DEFINE id == Head(buf[p])
                 e == <<"part", "record", "newline">>[sent[p] + 1]
      <4>1. /\ lines' \in Seq(Line) /\ Len(lines') = n /\ n \in Nat \ {0}
            /\ \A i \in 1 .. n - 1 : lines'[i] = lines[i]
            /\ lines[n].recs = <<id>> /\ lines'[n] = [recs |-> <<id>>, end |-> e]
        BY <2>3, <3>3, SpillFile, Zenon
      <4>2. e # "part"
        BY <3>1, <3>3
      <4> HIDE DEF id, e
      <4>3. lines'[n].recs = lines[n].recs /\ lines'[n].end # "part" /\ DOMAIN lines' = 1 .. n
        BY <4>1, <4>2
      <4>4. \A i \in 1 .. n : i = n \/ i \in 1 .. n - 1
        BY <3>1, LastOrBefore
      <4> HIDE DEF n
      <4>5. \A i \in 1 .. n : /\ lines'[i].recs = lines[i].recs
                              /\ IsRecord(lines[i]) => IsRecord(lines'[i])
        BY <4>1, <4>3, <4>4 DEF IsRecord
      <4>6. \A i \in Records : i \in Records' /\ lines'[i].recs = lines[i].recs
        BY <3>1, <4>3, <4>5 DEF Records
      <4> QED BY <4>6 DEF Done
    <3> QED BY <3>2, <3>3
  <2> QED BY <2>1, <2>2, <2>3 DEF Next, Work, Start, NextChunk, Finish, Kill
<1> QED BY <1>1, GenInvAlways, PTL DEF Spec, NothingLost

=============================================================================
