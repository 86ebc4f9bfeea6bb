---------------------------- MODULE Prepare_proofs ----------------------------
(***************************************************************************)
(* Proofs about Prepare, for every number of containers and of kills, with *)
(* and without a volume an older prepare damaged.                          *)
(*                                                                         *)
(* A prepare may be killed between any two file operations, so nothing can *)
(* be said of the disk alone: what a step still has to do is in its        *)
(* operation list.  OpsInv says what may be in that list, PlanInv what is  *)
(* already on the disk when an operation is no longer in it; the last      *)
(* operation is the commit.                                                *)
(***************************************************************************)
EXTENDS Prepare, SequenceTheorems, TLAPS

Active == {"check", "download", "next", "work", "publish"}
Planned == {"next", "work", "publish"}
Working == {"work", "publish"}

RewriteSteps == {"harden", "harden_fast", "translate", "translate_fast"}
Fixed == Parts \cup {"fast"} \cup RewriteSteps
Steps == Fixed \cup {"dflash2"}
Mark == Parts \cup Rewritten

FileState == [kind : {"absent", "torn", "whole"}, marks : SUBSET Mark]
Op == [op : {"put", "backup", "link"}, from : Path, to : Path, marks : SUBSET Mark]

TypeInv ==
  /\ disk \in [Path -> FileState]
  /\ lock \in Proc \cup {NoOne}
  /\ pc \in [Proc -> Active \cup {"down", "failed", "done", "lock"}]
  /\ todo \in [Proc -> Seq(Steps)]
  /\ ops \in [Proc -> Seq(Op)]

\* The lock is held by the one prepare that reads or writes the models.
LockInv == \A p \in Proc : lock = p <=> pc[p] \in Active

\* Only a shard, config.json or the index can be found cut short, and a run
\* that has its plan found everything whole.
Fragile == {"config", "index"} \cup Shards
TornInv == \A n \in Names \ Fragile : disk[File(n)].kind # "torn"
WholeInv == (\E p \in Proc : pc[p] \in Planned) => ~NeedsDownload

-----------------------------------------------------------------------------
(* Backups.  Step s saves file n, under a suffix nobody else uses.         *)

Saves(s, n) == n = ShardOf[s] \/ (n \in {"config", "index"} /\ s \in DOMAIN MetaSuffix)
SuffixFor(s, n) == IF n \in {"config", "index"} THEN MetaSuffix[s] ELSE BackupSuffix[s]
SavedAs(s, n) == BackupOf(n, SuffixFor(s, n))

BackupInv == \A s \in Parts, n \in Fragile : Saves(s, n) =>
  /\ Exists(SavedAs(s, n)) =>
       disk[SavedAs(s, n)].kind = "whole" /\ s \notin disk[SavedAs(s, n)].marks
  /\ s \in Marks(n) => Exists(SavedAs(s, n))

-----------------------------------------------------------------------------
(* Operation lists.                                                        *)

\* The files a step writes, and the marks it leaves on them.
Writes(s) ==
  CASE s \in QuantParts -> {ShardOf[s], "config", "index"}
    [] s = "draft"      -> {"extra", "vocab", "index"}
    [] s = "fast"       -> {"fast_template", "fast_tensors", "fast_index"}
    [] OTHER            -> {RewriteOf[s].file}

NewMarks(s, n) ==
  CASE s \in QuantParts /\ n = "config" -> Declared(s)
    [] s = "draft" /\ n = "vocab"       -> {}
    [] s = "fast"                       -> IF n = "fast_template" THEN Marks("template") ELSE {}
    [] s \in RewriteSteps               -> Marks(n) \cup {RewriteOf[s].mark}
    [] OTHER                            -> Marks(n) \cup {s}

\* The file whose write makes the step count as done.
CommitOf(s) == CASE s \in Parts -> "index"
                 [] s = "fast"  -> "fast_index"
                 [] OTHER       -> RewriteOf[s].file

Puts(s, o) == \E n \in Writes(s) : o = Put(n, NewMarks(s, n))
BacksUp(s, o) == s \in Parts /\ \E n \in Fragile :
                   Saves(s, n) /\ n \in Writes(s) /\ o = Backup(n, SuffixFor(s, n))
Links(s, o) == s = "fast" /\ o = Link(EmbedShard, File("fast_embed"))

\* The operations left are the step's own, none twice, the commit last, and a
\* file is written only once its backup is there or comes first.
OpsOK(s, L) ==
  /\ \A i \in DOMAIN L : Puts(s, L[i]) \/ BacksUp(s, L[i]) \/ Links(s, L[i])
  /\ \A i, j \in DOMAIN L : i < j => L[i].to # L[j].to
  /\ L # <<>> => L[Len(L)].to = File(CommitOf(s))
  /\ s \in Parts => \A i \in DOMAIN L : \A n \in Fragile :
       L[i].to = File(n) /\ Saves(s, n) =>
         Exists(SavedAs(s, n)) \/ \E j \in DOMAIN L : j < i /\ L[j].to = SavedAs(s, n)

\* What lies in the temp file is what is to be published.
TempOK(o) ==
  /\ o.op \in {"put", "backup"} /\ ~KeepsBackup(o)
  /\ disk[Temp(o.to)].marks = IF o.op = "backup" THEN disk[o.from].marks ELSE o.marks

WorkOK(p) ==
  /\ todo[p] # <<>> /\ Head(todo[p]) \in Fixed
  /\ OpsOK(Head(todo[p]), ops[p])
  /\ pc[p] = "publish" => ops[p] # <<>> /\ TempOK(Head(ops[p]))

OpsInv == \A p \in Proc : pc[p] \in Working => WorkOK(p)

BaseInv == TypeInv /\ LockInv /\ TornInv /\ WholeInv /\ BackupInv /\ OpsInv

-----------------------------------------------------------------------------
(* What has landed.  A kill in a recovery download leaves a mixture, so    *)
(* this half assumes that there is none (the run prepare_legacy_killed     *)
(* shows what happens otherwise).                                          *)

NoMixture == KillDownload = "first" \/ ~LegacyDisk

FastIndex == Exists(File("fast_index"))

PrefixInv == \E k \in 0..4 : Committed = Before(k)

FastInv ==
  /\ Exists(File("fast_embed")) =>
       Intact("fast_embed") /\ "embed" \in Marks("fast_embed")
  /\ FastIndex => /\ Exists(File("fast_tensors")) /\ Exists(File("fast_embed"))
                  /\ Committed = Parts /\ Usable

FirstInv == ~LegacyDisk => Usable \/ Unpacked

\* Whether a step has been done: its commit is on the disk.
IsRewritten(r) ==
  LET f == RewriteOf[r].file
  IN Exists(File(f)) => RewriteOf[r].mark \in Marks(f)
IsDone(s) == CASE s \in Parts -> s \in Committed
               [] s = "fast"  -> FastIndex
               [] OTHER       -> IsRewritten(s)

Rank(s) == CASE s = "lm_head" -> 1 [] s = "embed" -> 2 [] s = "mtp" -> 3
             [] s = "draft" -> 4 [] s = "fast" -> 5 [] s = "dflash2" -> 6
             [] s = "harden" -> 7 [] s = "harden_fast" -> 8
             [] s = "translate" -> 9 [] s = "translate_fast" -> 10

In(s, T) == \E i \in DOMAIN T : T[i] = s

\* A plan lists, in order, every step that is not done; the part steps in it,
\* but for the one at work, are not.
TodoOK(T) ==
  /\ \A i, j \in DOMAIN T : i < j => Rank(T[i]) < Rank(T[j])
  /\ \A s \in Parts : s \notin Committed => In(s, T)
  /\ FastVariant /\ ~FastIndex => In("fast", T)
  /\ In("fast", T) => FastVariant
  /\ \A r \in RewriteSteps : ~IsRewritten(r) => In(r, T)
  /\ T # <<>> => \A r \in RewriteSteps : Rank(T[1]) <= Rank(r) => In(r, T)

\* What the commit of a step relies on.
Needs(s) == CASE s \in QuantParts -> {ShardOf[s], "config"}
              [] s = "draft"      -> {"extra", "vocab"}
              [] s = "fast"       -> {"fast_embed", "fast_tensors"}
              [] OTHER            -> {}
IsThere(s, n) == IF n \in {"vocab", "fast_embed", "fast_tensors"} THEN Exists(File(n))
                 ELSE s \in Marks(n)

Covers(s, L) ==
  \A n \in Needs(s) : IsThere(s, n) \/ \E i \in DOMAIN L : L[i].to = File(n)
StepOK(s, L) == (L = <<>> <=> IsDone(s)) /\ Covers(s, L)

PlanOK(p) ==
  /\ pc[p] \in Planned => TodoOK(todo[p])
  /\ pc[p] \in Planned => \A i \in DOMAIN todo[p] :
       todo[p][i] \in Parts \cup {"fast"} /\ (i > 1 \/ pc[p] = "next")
         => ~IsDone(todo[p][i])
  /\ pc[p] \in Working => StepOK(Head(todo[p]), ops[p])

PlanInv == \A p \in Proc : PlanOK(p)

ReadyInv == Ready => Prepared /\ ~Downloading

LandedInv == PrefixInv /\ IndexTruthful /\ FastInv /\ FirstInv /\ PlanInv /\ ReadyInv
-----------------------------------------------------------------------------
(* The tables.                                                             *)

LEMMA Tables ==
  /\ ShardOf["lm_head"] = LmHeadShard /\ ShardOf["embed"] = EmbedShard
  /\ ShardOf["mtp"] = "extra" /\ ShardOf["draft"] = "extra"
  /\ BackupSuffix["lm_head"] = ".bak" /\ BackupSuffix["embed"] = ".bak_embed"
  /\ BackupSuffix["mtp"] = ".bak-mtp" /\ BackupSuffix["draft"] = ".bak-draft"
  /\ DOMAIN MetaSuffix = {"lm_head", "mtp"}
  /\ MetaSuffix["lm_head"] = ".bak-quant" /\ MetaSuffix["mtp"] = ".bak-mtp"
  /\ Order[1] = "lm_head" /\ Order[2] = "embed" /\ Order[3] = "mtp" /\ Order[4] = "draft"
<1> QED BY DEF ShardOf, BackupSuffix, MetaSuffix, Order

LEMMA RewriteTable ==
  /\ RewriteOf["harden"] = [file |-> "template", mark |-> "hardened"]
  /\ RewriteOf["harden_fast"] = [file |-> "fast_template", mark |-> "hardened"]
  /\ RewriteOf["translate"] = [file |-> "template", mark |-> "translated"]
  /\ RewriteOf["translate_fast"] = [file |-> "fast_template", mark |-> "translated"]
<1> QED BY DEF RewriteOf

\* A shard is not a file of another kind.
LEMMA ShardNames ==
  /\ Shards = {LmHeadShard, EmbedShard, "extra"}
  /\ Shards \cap {"config", "index", "tokenizer", "template", "fast_embed",
                  "fast_template", "fast_tensors", "fast_index", "drafter_config",
                  "drafter_weights", "vocab"} = {}
<1>1. Shards = {LmHeadShard, EmbedShard, "extra"}
  BY Tables DEF Shards, Parts, QuantParts
<1> QED BY <1>1, ConstantsOK

LEMMA PathFacts ==
  ASSUME NEW n \in Names, NEW m \in Names
  PROVE  /\ File(n) \in Path /\ Temp(File(n)) \in Path
         /\ File(n) = File(m) <=> n = m
         /\ Temp(File(n)) # File(m)
         /\ \A s \in Suffixes \ {""} : /\ BackupOf(n, s) \in Path /\ Temp(BackupOf(n, s)) \in Path
              /\ BackupOf(n, s) # File(m) /\ Temp(BackupOf(n, s)) # File(m)
<1> QED BY DEF Path, File, Temp, BackupOf, Suffixes

\* Two steps never back a file up under the same name.
LEMMA BackupNames ==
  ASSUME NEW s \in Parts, NEW n \in Fragile, Saves(s, n),
         NEW t \in Parts, NEW m \in Fragile, Saves(t, m)
  PROVE  /\ SuffixFor(s, n) \in Suffixes \ {""}
         /\ SavedAs(s, n) = SavedAs(t, m) => s = t /\ n = m
         /\ \A k \in Names : SavedAs(s, n) # File(k)
<1>1. SuffixFor(s, n) \in Suffixes \ {""}
  BY Tables, ShardNames DEF Saves, SuffixFor, Suffixes, Parts, QuantParts
<1>2. ASSUME n = m, SuffixFor(s, n) = SuffixFor(t, m) PROVE s = t
  BY <1>2, Tables, ShardNames, ZenonT(60) DEF Saves, SuffixFor, Parts, QuantParts
<1> QED BY <1>1, <1>2 DEF SavedAs, BackupOf, File

LEMMA BackupPaths ==
  ASSUME NEW s \in Parts, NEW n \in Fragile, Saves(s, n)
  PROVE  SavedAs(s, n) \in Path
<1>1. n \in Names /\ SuffixFor(s, n) \in Suffixes \ {""}
  BY BackupNames DEF Fragile, Names, HubNames
<1> QED BY <1>1, PathFacts DEF SavedAs

-----------------------------------------------------------------------------
(* The volumes a prepare may start from.                                   *)

DiskOK == /\ disk \in [Path -> FileState] /\ TornInv /\ BackupInv

StartOK == /\ NeedsDownload /\ PrefixInv /\ IndexHolds
           /\ \A n \in FastNames : ~Exists(File(n))
           /\ ~LegacyDisk => Unpacked

LEMMA FreshVolume ==
  ASSUME disk = NoFiles
  PROVE  DiskOK /\ StartOK
<1>1. \A path \in Path : disk[path] = [kind |-> "absent", marks |-> {}]
  BY DEF NoFiles, Absent
<1>2. disk \in [Path -> FileState]
  BY DEF NoFiles, Absent, FileState
<1>3. \A n \in Names : File(n) \in Path
  BY PathFacts
<1>4. \A n \in Names : Marks(n) = {} /\ ~Exists(File(n))
  BY <1>1, <1>3 DEF Marks, Exists
<1>5. TornInv
  BY <1>1, <1>3 DEF TornInv
<1>6. \A s \in Parts : \A n \in Fragile : Saves(s, n) => ~Exists(SavedAs(s, n))
  <2> SUFFICES ASSUME NEW s \in Parts, NEW n \in Fragile, Saves(s, n)
               PROVE  ~Exists(SavedAs(s, n))
    OBVIOUS
  <2>1. SavedAs(s, n) \in Path
    BY BackupNames, PathFacts DEF SavedAs, Fragile, Names, HubNames
  <2> QED BY <1>1, <2>1 DEF Exists
<1>7. BackupInv
  BY <1>4, <1>6 DEF BackupInv, Fragile, Names, HubNames
<1>8. Committed = {}
  BY <1>4 DEF Committed, Names, HubNames
<1>9. PrefixInv
  BY <1>8 DEF PrefixInv, Before
<1> QED BY <1>2, <1>4, <1>5, <1>7, <1>8, <1>9
        DEF DiskOK, StartOK, NeedsDownload, IndexHolds, Names, HubNames, FastNames, Unpacked

LEMMA DamagedVolume ==
  ASSUME NEW k \in 0..2, NEW stage \in 1..3, disk = LegacyFiles(k, stage), LegacyDisk
  PROVE  DiskOK /\ StartOK
<1> DEFINE torn == <<ShardOf[Order[k + 1]], "config", "index">>[stage]
           parts(n) == CASE n \in Shards -> {s \in Parts : ShardOf[s] = n}
                         [] n = "config" -> QuantParts
                         [] n = "index"  -> Parts
                         [] OTHER        -> {}
           turn(n) == CASE n \in Shards -> 1 [] n = "config" -> 2 [] OTHER -> 3
           wrote(n) == IF turn(n) < stage THEN k + 1 ELSE k
           saved(n) == IF turn(n) <= stage THEN k + 1 ELSE k
           suffix(n, i) == IF n \in Shards THEN BackupSuffix[Order[i]]
                           ELSE IF Order[i] \in DOMAIN MetaSuffix
                           THEN MetaSuffix[Order[i]] ELSE ""
           backupBy(path) ==
             {i \in 1..saved(path[1]) : /\ Order[i] \in parts(path[1])
                                        /\ path[2] # "" /\ path[3] = ""
                                        /\ path[2] = suffix(path[1], i)}
           hub == {File(n) : n \in HubNames}
<1>1. disk = [path \in Path |->
        IF path = File(torn)
        THEN Torn(Before(wrote(torn)) \cap parts(torn))
        ELSE IF path \in hub
        THEN Whole(Before(wrote(path[1])) \cap parts(path[1]))
        ELSE IF backupBy(path) # {}
        THEN Whole(Before((CHOOSE i \in backupBy(path) : TRUE) - 1)
                     \cap parts(path[1]))
        ELSE Absent]
  BY DEF LegacyFiles
<1>2. torn \in Fragile /\ torn \in HubNames
  BY Tables, ShardNames DEF Fragile, HubNames
<1>3. \A n : parts(n) \subseteq Parts
  BY DEF Parts
<1>4. \A n \in Names : File(n) \in Path /\ File(n)[1] = n /\ (File(n) \in hub <=> n \in HubNames)
  BY PathFacts DEF File, Names
<1>5. \A n : wrote(n) \in {k, k + 1} /\ saved(n) \in {k, k + 1} /\ wrote(n) <= saved(n)
  OBVIOUS
<1>6. \A n \in HubNames : /\ Marks(n) = Before(wrote(n)) \cap parts(n)
                          /\ disk[File(n)].kind = IF n = torn THEN "torn" ELSE "whole"
  <2> SUFFICES ASSUME NEW n \in HubNames
               PROVE  /\ Marks(n) = Before(wrote(n)) \cap parts(n)
                      /\ disk[File(n)].kind = IF n = torn THEN "torn" ELSE "whole"
    OBVIOUS
  <2>1. n \in Names /\ torn \in Names
    BY <1>2 DEF Names
  <2>2. File(n) = File(torn) <=> n = torn
    BY <2>1, PathFacts
  <2>3. disk[File(n)] = IF n = torn THEN Torn(Before(wrote(n)) \cap parts(n))
                                    ELSE Whole(Before(wrote(n)) \cap parts(n))
    <3> HIDE DEF torn, parts, wrote, backupBy, hub
    <3> QED BY <1>1, <1>4, <2>1, <2>2
  <2> QED BY <2>3 DEF Torn, Whole, Marks
<1>7. \A n \in Names \ HubNames : ~Exists(File(n))
  <2> SUFFICES ASSUME NEW n \in Names \ HubNames
               PROVE  ~Exists(File(n))
    OBVIOUS
  <2>1. backupBy(File(n)) = {}
    BY DEF File
  <2>2. File(n) # File(torn)
    BY <1>2, PathFacts DEF Names
  <2> HIDE DEF torn, parts, wrote, backupBy, hub
  <2> QED BY <1>1, <1>4, <2>1, <2>2 DEF Exists, Absent
<1>8. disk \in [Path -> FileState]
  <2> HIDE DEF torn, parts, wrote, backupBy, hub
  <2> QED BY <1>1, <1>3 DEF FileState, Torn, Whole, Absent, Mark
<1>9. ASSUME NEW s \in Parts, NEW n \in Fragile, Saves(s, n)
      PROVE  /\ Exists(SavedAs(s, n)) =>
                  disk[SavedAs(s, n)].kind = "whole" /\ s \notin disk[SavedAs(s, n)].marks
             /\ s \in Marks(n) => Exists(SavedAs(s, n))
  <2> DEFINE b == SavedAs(s, n)
  <2>1. b \in Path /\ b[1] = n /\ b[2] = SuffixFor(s, n) /\ b[2] # "" /\ b[3] = ""
    BY <1>9, BackupNames, PathFacts DEF SavedAs, BackupOf, Fragile, Names, HubNames
  <2>2. b # File(torn) /\ b \notin hub
    <3>1. \A m \in Names : b # File(m)
      BY <1>9, BackupNames
    <3> HIDE DEF torn, b
    <3> QED BY <1>2, <3>1 DEF Names
  <2>3. backupBy(b) = {i \in 1..saved(n) : Order[i] \in parts(n) /\ SuffixFor(s, n) = suffix(n, i)}
    BY <2>1
  <2>4. \A i \in 1..3 : Order[i] \in parts(n) /\ SuffixFor(s, n) = suffix(n, i) => Order[i] = s
    BY <1>9, Tables, ShardNames, <2>1, ZenonT(60) DEF SuffixFor, Saves, Parts, QuantParts, Fragile
  <2>5. \A i \in backupBy(b) : i \in 1..3 /\ Order[i] = s
    <3>1. saved(n) \in 0..3
      BY <1>5
    <3> HIDE DEF parts, saved, suffix, backupBy, b
    <3> QED BY <2>3, <2>4, <3>1
  <2>6. \A i \in 1..3 : Order[i] \notin Before(i - 1)
    BY Tables DEF Before
  <2>7. disk[b] = IF backupBy(b) # {}
                  THEN Whole(Before((CHOOSE i \in backupBy(b) : TRUE) - 1) \cap parts(b[1]))
                  ELSE Absent
    <3> HIDE DEF torn, parts, wrote, backupBy, hub, b
    <3> QED BY <1>1, <2>1, <2>2
  <2>8. Exists(b) => disk[b].kind = "whole" /\ s \notin disk[b].marks
    <3> HIDE DEF torn, parts, wrote, backupBy, hub, b
    <3> QED BY <2>5, <2>6, <2>7 DEF Exists, Absent, Whole
  <2>9. s \in Marks(n) => Exists(b)
    <3> SUFFICES ASSUME s \in Marks(n) PROVE Exists(b)
      OBVIOUS
    <3>1. n \in HubNames /\ s \in Before(wrote(n)) /\ s \in parts(n)
      BY <1>6 DEF Fragile, HubNames
    <3>2. PICK i \in 1..wrote(n) : Order[i] = s
      BY <3>1 DEF Before
    <3>3. i \in 1..3 /\ i \in 1..saved(n)
      BY <1>5, <3>2
    <3>4. SuffixFor(s, n) = suffix(n, i)
      <4>1. CASE n \in Shards
        BY <4>1, <3>2, ShardNames DEF SuffixFor
      <4>2. CASE n \notin Shards
        <5>1. n \in {"config", "index"} /\ s \in DOMAIN MetaSuffix
          BY <4>2, <1>9 DEF Saves, Shards, Fragile
        <5> QED BY <4>2, <5>1, <3>2 DEF SuffixFor
      <4> QED BY <4>1, <4>2
    <3>5. i \in backupBy(b)
      BY <2>3, <3>1, <3>2, <3>3, <3>4
    <3> HIDE DEF parts, saved, suffix, backupBy, b
    <3> QED BY <3>5, <2>7 DEF Exists, Whole
  <2> QED BY <2>8, <2>9
<1>10. BackupInv
  BY <1>9 DEF BackupInv
<1>11. TornInv
  BY <1>2, <1>6, <1>7 DEF TornInv, Exists
<1>12. NeedsDownload
  BY <1>2, <1>6 DEF NeedsDownload, Intact, Fragile
<1>13. Committed = Before(k)
  <2>1. wrote("index") = k
    <3>1. turn("index") = 3
      BY ShardNames
    <3> QED BY <3>1
  <2>2. parts("index") = Parts
    BY ShardNames
  <2>3. Before(k) \subseteq Parts
    BY Tables DEF Before, Parts, QuantParts
  <2> HIDE DEF parts, wrote
  <2> QED BY <1>6, <2>1, <2>2, <2>3 DEF Committed, HubNames
<1>14. IndexHolds
  <2>1. \A s \in Before(k) : s \in QuantParts
    BY Tables DEF Before, QuantParts
  <2>2. \A n : Before(k) \subseteq Before(wrote(n))
    BY <1>5 DEF Before
  <2>3. \A s \in QuantParts : ShardOf[s] \in Shards /\ s \in parts(ShardOf[s]) /\ s \in parts("config")
    BY Tables, ShardNames DEF Shards, Parts, QuantParts
  <2>4. \A s \in Committed : s \in Marks(ShardOf[s]) /\ s \in Marks("config")
    BY <1>6, <1>13, <2>1, <2>2, <2>3 DEF HubNames
  <2>5. ~Exists(File("fast_index"))
    BY <1>7, ShardNames DEF Names, FastNames, HubNames
  <2> QED BY <1>13, <2>1, <2>4, <2>5 DEF IndexHolds, QuantParts
<1>15. \A n \in FastNames : ~Exists(File(n))
  BY <1>7, ShardNames DEF Names, FastNames, HubNames
<1> QED BY <1>8, <1>10, <1>11, <1>12, <1>13, <1>14, <1>15 DEF DiskOK, StartOK, PrefixInv

-----------------------------------------------------------------------------
(* Operation lists.                                                        *)

LEMMA PutFields ==
  ASSUME NEW n, NEW m
  PROVE  Put(n, m).op = "put" /\ Put(n, m).to = File(n) /\ Put(n, m).marks = m
<1> QED BY DEF Put

LEMMA BackupFields ==
  ASSUME NEW n, NEW suffix
  PROVE  /\ Backup(n, suffix).op = "backup" /\ Backup(n, suffix).to = BackupOf(n, suffix)
         /\ Backup(n, suffix).from = File(n)
<1> QED BY DEF Backup

LEMMA LinkFields ==
  ASSUME NEW n, NEW path
  PROVE  Link(n, path).op = "link" /\ Link(n, path).to = path /\ Link(n, path).from = File(n)
<1> QED BY DEF Link

LEMMA WritesNames ==
  ASSUME NEW s \in Fixed
  PROVE  Writes(s) \subseteq Names
<1> QED BY Tables, RewriteTable, ShardNames
        DEF Writes, Fixed, Parts, QuantParts, RewriteSteps, Names, HubNames, FastNames, Shards

LEMMA NewMarksType ==
  ASSUME TypeInv, NEW s \in Fixed, NEW n \in Writes(s)
  PROVE  NewMarks(s, n) \subseteq Mark
<1>1. n \in Names /\ "template" \in Names /\ "config" \in Names
  BY WritesNames DEF Names, HubNames
<1>2. \A x \in Names : Marks(x) \subseteq Mark
  BY PathFacts DEF TypeInv, FileState, Marks
<1> QED BY <1>1, <1>2, RewriteTable
        DEF NewMarks, Declared, Fixed, Mark, Parts, RewriteSteps, Rewritten

\* The files an operation may name, and what it may write there.
LEMMA OpTargets ==
  ASSUME TypeInv, NEW s \in Fixed, NEW o, Puts(s, o) \/ BacksUp(s, o) \/ Links(s, o)
  PROVE  /\ o \in Op
         /\ o.op = "put" => \E n \in Writes(s) : o.to = File(n) /\ o.marks = NewMarks(s, n)
         /\ o.op = "backup" => s \in Parts /\ \E n \in Fragile :
              Saves(s, n) /\ n \in Writes(s) /\ o.to = SavedAs(s, n) /\ o.from = File(n)
         /\ o.op = "link" => /\ s = "fast" /\ o.from = File(EmbedShard)
                             /\ o.to = File("fast_embed")
<1>1. CASE Puts(s, o)
  <2>1. PICK n \in Writes(s) : o = Put(n, NewMarks(s, n))
    BY <1>1 DEF Puts
  <2>2. n \in Names /\ NewMarks(s, n) \subseteq Mark
    BY WritesNames, NewMarksType
  <2>3. o \in Op
    BY <2>1, <2>2, PathFacts DEF Put, Op
  <2> QED BY <2>1, <2>3, PutFields
<1>2. CASE BacksUp(s, o)
  <2>1. PICK n \in Fragile : s \in Parts /\ Saves(s, n) /\ n \in Writes(s)
                             /\ o = Backup(n, SuffixFor(s, n))
    BY <1>2 DEF BacksUp
  <2>2. n \in Names /\ SuffixFor(s, n) \in Suffixes \ {""}
    BY <2>1, BackupNames DEF Fragile, Names, HubNames
  <2>3. o \in Op
    BY <2>1, <2>2, PathFacts DEF Backup, Op
  <2> QED BY <2>1, <2>3, BackupFields DEF SavedAs
<1>3. CASE Links(s, o)
  <2>1. EmbedShard \in Names /\ "fast_embed" \in Names
    BY ShardNames DEF Names, HubNames, FastNames
  <2> QED BY <1>3, <2>1, LinkFields, PathFacts DEF Links, Link, Op
<1> QED BY <1>1, <1>2, <1>3

LEMMA TailFacts ==
  ASSUME NEW S, NEW L \in Seq(S), L # <<>>
  PROVE  /\ Tail(L) \in Seq(S) /\ Head(L) = L[1] /\ 1 \in DOMAIN L
         /\ Len(Tail(L)) = Len(L) - 1
         /\ \A i \in DOMAIN Tail(L) : i + 1 \in DOMAIN L /\ Tail(L)[i] = L[i + 1]
         /\ \A i \in DOMAIN L : i > 1 => i - 1 \in DOMAIN Tail(L) /\ L[i] = Tail(L)[i - 1]
         /\ Tail(L) = <<>> <=> Len(L) = 1
<1>1. /\ Tail(L) \in Seq(S) /\ Head(L) = L[1] /\ Len(L) \in Nat \ {0}
      /\ DOMAIN L = 1..Len(L) /\ Len(Tail(L)) = Len(L) - 1
      /\ DOMAIN Tail(L) = 1..(Len(L) - 1)
  OBVIOUS
<1>2. \A i \in 1..(Len(L) - 1) : Tail(L)[i] = L[i + 1]
  OBVIOUS
<1>3. Tail(L) = <<>> <=> Len(Tail(L)) = 0
  <2> DEFINE T == Tail(L)
  <2>1. T \in Seq(S)
    BY <1>1
  <2> HIDE DEF T
  <2>2. T = <<>> <=> Len(T) = 0
    BY <2>1
  <2> QED BY <2>2 DEF T
<1>4. \A i \in DOMAIN L : i > 1 => i - 1 \in DOMAIN Tail(L) /\ L[i] = Tail(L)[i - 1]
  <2> SUFFICES ASSUME NEW i \in DOMAIN L, i > 1
               PROVE  i - 1 \in DOMAIN Tail(L) /\ L[i] = Tail(L)[i - 1]
    OBVIOUS
  <2>1. i - 1 \in 1..(Len(L) - 1) /\ (i - 1) + 1 = i
    BY <1>1
  <2> QED BY <1>1, <1>2, <2>1
<1> QED BY <1>1, <1>2, <1>3, <1>4

\* Carrying out the first operation leaves a good list.
LEMMA OpsTail ==
  ASSUME TypeInv, NEW s \in Fixed, NEW L \in Seq(Op), L # <<>>, OpsOK(s, L),
         \A m \in Names : File(m) # Head(L).to => disk'[File(m)] = disk[File(m)],
         \A t \in Parts : \A n \in Fragile : Saves(t, n) /\ Exists(SavedAs(t, n)) =>
           Exists(SavedAs(t, n))',
         Exists(Head(L).to)'
  PROVE  OpsOK(s, Tail(L))'
<1> DEFINE T == Tail(L)
<1>1. ASSUME NEW i \in DOMAIN T
      PROVE  Puts(s, T[i])' \/ BacksUp(s, T[i]) \/ Links(s, T[i])
  <2>1. i + 1 \in DOMAIN L /\ T[i] = L[i + 1] /\ 1 \in DOMAIN L /\ Head(L) = L[1] /\ 1 < i + 1
    BY TailFacts
  <2>2. L[1].to # T[i].to
    BY <2>1 DEF OpsOK
  <2>3. CASE Puts(s, T[i])
    <3>1. PICK n \in Writes(s) : T[i] = Put(n, NewMarks(s, n))
      BY <2>3 DEF Puts
    <3>2. n \in Names /\ "template" \in Names
      BY WritesNames DEF Names, HubNames
    <3>3. Marks(n)' = Marks(n)
      <4>1. File(n) # Head(L).to
        BY <2>1, <2>2, <3>1, PutFields
      <4> QED BY <4>1, <3>2 DEF Marks
    <3>4. s = "fast" => Marks("template")' = Marks("template")
      <4>1. SUFFICES ASSUME s = "fast" PROVE L[1].to # File("template")
        <5>1. ASSUME L[1].to # File("template")
              PROVE  Marks("template")' = Marks("template")
          BY <5>1, <2>1, <3>2 DEF Marks
        <5> QED BY <5>1
      <4>2. Writes(s) = {"fast_template", "fast_tensors", "fast_index"} /\ s \notin Parts
        BY <4>1 DEF Writes, QuantParts, Parts
      <4>3. Puts(s, L[1]) \/ Links(s, L[1])
        BY <4>2, <2>1 DEF OpsOK, BacksUp
      <4>4. \E m \in {"fast_template", "fast_tensors", "fast_index", "fast_embed"} : L[1].to = File(m)
        <5>1. CASE Puts(s, L[1])
          <6>1. PICK m \in Writes(s) : L[1] = Put(m, NewMarks(s, m))
            BY <5>1 DEF Puts
          <6> QED BY <4>2, <6>1, PutFields
        <5>2. CASE Links(s, L[1])
          BY <5>2, LinkFields DEF Links
        <5> QED BY <4>3, <5>1, <5>2
      <4> QED BY <4>4, PathFacts DEF Names, HubNames, FastNames
    <3>5. NewMarks(s, n)' = NewMarks(s, n)
      <4>1. CASE s = "fast"
        BY <4>1, <3>4 DEF NewMarks, QuantParts, RewriteSteps
      <4>2. CASE s # "fast"
        <5>1. n = "config" => Declared(s)' = Declared(s)
          BY <3>3 DEF Declared
        <5>2. CASE s \in QuantParts /\ n = "config"
          BY <5>1, <5>2 DEF NewMarks, QuantParts, RewriteSteps
        <5>3. CASE s = "draft" /\ n = "vocab"
          BY <5>3 DEF NewMarks, QuantParts, RewriteSteps
        <5>4. CASE s \in RewriteSteps
          BY <5>4, <3>3 DEF NewMarks, QuantParts, RewriteSteps
        <5>5. CASE /\ ~(s \in QuantParts /\ n = "config") /\ ~(s = "draft" /\ n = "vocab")
                   /\ s \notin RewriteSteps
          BY <5>5, <4>2, <3>3 DEF NewMarks
        <5> QED BY <5>2, <5>3, <5>4, <5>5
      <4> QED BY <4>1, <4>2
    <3> QED BY <3>1, <3>5 DEF Puts
  <2> QED BY <2>1, <2>3 DEF OpsOK
<1>2. \A i, j \in DOMAIN T : i < j => T[i].to # T[j].to
  <2> SUFFICES ASSUME NEW i \in DOMAIN T, NEW j \in DOMAIN T, i < j
               PROVE  T[i].to # T[j].to
    OBVIOUS
  <2>1. i + 1 \in DOMAIN L /\ T[i] = L[i + 1] /\ j + 1 \in DOMAIN L /\ T[j] = L[j + 1]
        /\ i + 1 < j + 1
    BY TailFacts
  <2> HIDE DEF T
  <2> QED BY <2>1 DEF OpsOK
<1>3. T # <<>> => T[Len(T)].to = File(CommitOf(s))
  <2> SUFFICES ASSUME T # <<>> PROVE T[Len(T)].to = File(CommitOf(s))
    OBVIOUS
  <2>1. T[Len(T)] = L[Len(L)]
    BY TailFacts
  <2> QED BY <2>1 DEF OpsOK
<1>4. ASSUME s \in Parts, NEW i \in DOMAIN T, NEW n \in Fragile, T[i].to = File(n), Saves(s, n)
      PROVE  Exists(SavedAs(s, n))' \/ \E j \in DOMAIN T : j < i /\ T[j].to = SavedAs(s, n)
  <2>1. i + 1 \in DOMAIN L /\ L[i + 1].to = File(n) /\ Head(L) = L[1]
    BY <1>4, TailFacts
  <2>2. CASE Exists(SavedAs(s, n))
    BY <1>4, <2>2
  <2>3. CASE ~Exists(SavedAs(s, n))
    <3>1. PICK j \in DOMAIN L : j < i + 1 /\ L[j].to = SavedAs(s, n)
      BY <1>4, <2>1, <2>3 DEF OpsOK
    <3>2. CASE j = 1
      BY <2>1, <3>1, <3>2
    <3>3. CASE j # 1
      <4>1. j - 1 \in DOMAIN T /\ T[j - 1] = L[j] /\ j - 1 < i
        BY <3>1, <3>3, TailFacts
      <4> QED BY <3>1, <4>1
    <3> QED BY <3>2, <3>3
  <2> QED BY <2>2, <2>3
<1> HIDE DEF T
<1>5. \A i \in DOMAIN T : Puts(s, T[i])' \/ BacksUp(s, T[i])' \/ Links(s, T[i])'
  BY <1>1 DEF BacksUp, Links
<1>6. s \in Parts => \A i \in DOMAIN T : \A n \in Fragile :
       T[i].to = File(n) /\ Saves(s, n) =>
         Exists(SavedAs(s, n))' \/ \E j \in DOMAIN T : j < i /\ T[j].to = SavedAs(s, n)
  BY <1>4
<1>7. OpsOK(s, T)'
  BY <1>2, <1>3, <1>5, <1>6 DEF OpsOK
<1> QED BY <1>7 DEF T

\* A list stays good while the marks it was computed from stay.
LEMMA OpsSame ==
  ASSUME NEW s \in Fixed, NEW L \in Seq(Op), OpsOK(s, L),
         \A m \in Names : Marks(m)' = Marks(m),
         \A t \in Parts : \A n \in Fragile : Saves(t, n) /\ Exists(SavedAs(t, n)) =>
           Exists(SavedAs(t, n))'
  PROVE  OpsOK(s, L)'
<1>1. \A n \in Writes(s) : NewMarks(s, n)' = NewMarks(s, n)
  <2> SUFFICES ASSUME NEW n \in Writes(s) PROVE NewMarks(s, n)' = NewMarks(s, n)
    OBVIOUS
  <2>1. n \in Names /\ "template" \in Names /\ "config" \in Names
    BY WritesNames DEF Names, HubNames
  <2>2. Declared(s)' = Declared(s)
    BY <2>1 DEF Declared
  <2> QED BY <2>1, <2>2 DEF NewMarks
<1>2. \A i \in DOMAIN L : Puts(s, L[i]) => Puts(s, L[i])'
  BY <1>1 DEF Puts
<1> QED BY <1>2 DEF OpsOK, BacksUp, Links

LEMMA Joined ==
  ASSUME NEW S, NEW a \in Seq(S), NEW b \in Seq(S), NEW c \in Seq(S),
         Len(c) = Len(a) + Len(b),
         \A i \in 1..Len(a) : c[i] = a[i],
         \A i \in 1..Len(b) : c[Len(a) + i] = b[i]
  PROVE  a \o b = c
<1>1. Len(a) \in Nat /\ Len(b) \in Nat
  BY LenProperties
<1>2. /\ a \o b \in Seq(S) /\ Len(a \o b) = Len(a) + Len(b)
      /\ \A i \in 1..(Len(a) + Len(b)) :
           (a \o b)[i] = IF i <= Len(a) THEN a[i] ELSE b[i - Len(a)]
  BY ConcatProperties
<1>3. ASSUME NEW i \in 1..(Len(a) + Len(b)) PROVE (a \o b)[i] = c[i]
  <2>1. CASE i <= Len(a)
    BY <1>1, <1>2, <2>1
  <2>2. CASE i > Len(a)
    <3>1. i - Len(a) \in 1..Len(b) /\ Len(a) + (i - Len(a)) = i /\ ~(i <= Len(a))
      BY <1>1, <2>2
    <3> QED BY <1>2, <3>1
  <2> QED BY <1>1, <2>1, <2>2
<1> QED BY <1>2, <1>3, SeqEqual

LEMMA Appended ==
  ASSUME NEW a, NEW b, NEW c
  PROVE  /\ <<>> \o <<>> = <<>> /\ <<>> \o <<a>> = <<a>> /\ <<>> \o <<a, b>> = <<a, b>>
         /\ <<a>> \o <<>> = <<a>> /\ <<a, b>> \o <<>> = <<a, b>>
         /\ <<a>> \o <<b>> = <<a, b>> /\ <<a, b>> \o <<c>> = <<a, b, c>>
<1> DEFINE S == {a, b, c}
<1>1. /\ <<>> \in Seq(S) /\ <<a>> \in Seq(S) /\ <<b>> \in Seq(S) /\ <<c>> \in Seq(S)
      /\ <<a, b>> \in Seq(S) /\ <<a, b, c>> \in Seq(S)
  OBVIOUS
<1> HIDE DEF S
<1>2. <<>> \o <<>> = <<>> /\ <<>> \o <<a>> = <<a>> /\ <<>> \o <<a, b>> = <<a, b>>
      /\ <<a>> \o <<>> = <<a>> /\ <<a, b>> \o <<>> = <<a, b>>
  BY <1>1, ConcatEmptySeq
<1>3. <<a>> \o <<b>> = <<a, b>>
  <2> DEFINE u == <<a>>
             v == <<b>>
             w == <<a, b>>
  <2>1. u \in Seq(S) /\ v \in Seq(S) /\ w \in Seq(S)
    BY <1>1
  <2>2. Len(w) = Len(u) + Len(v)
    OBVIOUS
  <2>3. \A i \in 1..Len(u) : w[i] = u[i]
    OBVIOUS
  <2>4. \A i \in 1..Len(v) : w[Len(u) + i] = v[i]
    OBVIOUS
  <2>5. u \o v = w
    <3> HIDE DEF u, v, w
    <3> QED BY <2>1, <2>2, <2>3, <2>4, Joined
  <2> QED BY <2>5
<1>4. <<a, b>> \o <<c>> = <<a, b, c>>
  <2> DEFINE u == <<a, b>>
             v == <<c>>
             w == <<a, b, c>>
  <2>1. u \in Seq(S) /\ v \in Seq(S) /\ w \in Seq(S)
    BY <1>1
  <2>2. Len(w) = Len(u) + Len(v)
    OBVIOUS
  <2>3. \A i \in 1..Len(u) : w[i] = u[i]
    OBVIOUS
  <2>4. \A i \in 1..Len(v) : w[Len(u) + i] = v[i]
    OBVIOUS
  <2>5. u \o v = w
    <3> HIDE DEF u, v, w
    <3> QED BY <2>1, <2>2, <2>3, <2>4, Joined
  <2> QED BY <2>5
<1> QED BY <1>2, <1>3, <1>4

LEMMA Append4 ==
  ASSUME NEW a, NEW b, NEW c, NEW d
  PROVE  <<a, b, c>> \o <<d>> = <<a, b, c, d>>
<1> DEFINE S == {a, b, c, d}
           u == <<a, b, c>>
           v == <<d>>
           w == <<a, b, c, d>>
<1>1. u \in Seq(S) /\ v \in Seq(S)
  OBVIOUS
<1>2. w \in Seq(S) /\ Len(w) = Len(u) + Len(v)
  OBVIOUS
<1>3. \A i \in 1..Len(u) : w[i] = u[i]
  OBVIOUS
<1>4. \A i \in 1..Len(v) : w[Len(u) + i] = v[i]
  OBVIOUS
<1>5. u \o v = w
  <2> HIDE DEF S, u, v, w
  <2> QED BY <1>1, <1>2, <1>3, <1>4, Joined
<1> QED BY <1>5

LEMMA Append5 ==
  ASSUME NEW a, NEW b, NEW c, NEW d, NEW e
  PROVE  <<a, b, c, d>> \o <<e>> = <<a, b, c, d, e>>
<1> DEFINE S == {a, b, c, d, e}
           u == <<a, b, c, d>>
           v == <<e>>
           w == <<a, b, c, d, e>>
<1>1. u \in Seq(S) /\ v \in Seq(S)
  OBVIOUS
<1>2. w \in Seq(S) /\ Len(w) = Len(u) + Len(v)
  OBVIOUS
<1>3. \A i \in 1..Len(u) : w[i] = u[i]
  OBVIOUS
<1>4. \A i \in 1..Len(v) : w[Len(u) + i] = v[i]
  OBVIOUS
<1>5. u \o v = w
  <2> HIDE DEF S, u, v, w
  <2> QED BY <1>1, <1>2, <1>3, <1>4, Joined
<1> QED BY <1>5

LEMMA Append6 ==
  ASSUME NEW a, NEW b, NEW c, NEW d, NEW e, NEW f
  PROVE  <<a, b, c, d, e>> \o <<f>> = <<a, b, c, d, e, f>>
<1> DEFINE S == {a, b, c, d, e, f}
           u == <<a, b, c, d, e>>
           v == <<f>>
           w == <<a, b, c, d, e, f>>
<1>1. u \in Seq(S) /\ v \in Seq(S)
  OBVIOUS
<1>2. w \in Seq(S) /\ Len(w) = Len(u) + Len(v)
  OBVIOUS
<1>3. \A i \in 1..Len(u) : w[i] = u[i]
  OBVIOUS
<1>4. \A i \in 1..Len(v) : w[Len(u) + i] = v[i]
  OBVIOUS
<1>5. u \o v = w
  <2> HIDE DEF S, u, v, w
  <2> QED BY <1>1, <1>2, <1>3, <1>4, Joined
<1> QED BY <1>5

LEMMA AppendTwo ==
  ASSUME NEW a, NEW c, NEW d
  PROVE  <<>> \o <<c, d>> = <<c, d>> /\ <<a>> \o <<c, d>> = <<a, c, d>>
<1> DEFINE S == {a, c, d}
           u == <<a>>
           v == <<c, d>>
           w == <<a, c, d>>
<1>1. u \in Seq(S) /\ v \in Seq(S)
  OBVIOUS
<1>2. <<>> \o v = v
  BY <1>1, ConcatEmptySeq
<1>3. w \in Seq(S) /\ Len(w) = Len(u) + Len(v)
  OBVIOUS
<1>4. \A i \in 1..Len(u) : w[i] = u[i]
  OBVIOUS
<1>5. \A i \in 1..Len(v) : w[Len(u) + i] = v[i]
  OBVIOUS
<1>6. u \o v = w
  <2> HIDE DEF S, u, v, w
  <2> QED BY <1>1, <1>3, <1>4, <1>5, Joined
<1> QED BY <1>2, <1>6

LEMMA AppendTwoToTwo ==
  ASSUME NEW a, NEW b, NEW c, NEW d
  PROVE  <<a, b>> \o <<c, d>> = <<a, b, c, d>>
<1> DEFINE S == {a, b, c, d}
           u == <<a, b>>
           v == <<c, d>>
           w == <<a, b, c, d>>
<1>1. u \in Seq(S) /\ v \in Seq(S)
  OBVIOUS
<1>2. w \in Seq(S) /\ Len(w) = Len(u) + Len(v)
  OBVIOUS
<1>3. \A i \in 1..Len(u) : w[i] = u[i]
  OBVIOUS
<1>4. \A i \in 1..Len(v) : w[Len(u) + i] = v[i]
  OBVIOUS
<1>5. u \o v = w
  <2> HIDE DEF S, u, v, w
  <2> QED BY <1>1, <1>2, <1>3, <1>4, Joined
<1> QED BY <1>5

LEMMA QuantStart ==
  ASSUME TypeInv, BackupInv, NEW s \in QuantParts
  PROVE  /\ OpsOK(s, QuantOps(s)) /\ QuantOps(s) \in Seq(Op)
         /\ QuantOps(s) # <<>> /\ Covers(s, QuantOps(s))
<1> DEFINE sh == ShardOf[s]
           b1 == Backup(sh, BackupSuffix[s])
           p1 == Put(sh, Marks(sh) \cup {s})
           b2 == Backup("config", MetaSuffix[s])
           p2 == Put("config", Declared(s))
           b3 == Backup("index", MetaSuffix[s])
           p3 == Put("index", Marks("index") \cup {s})
<1>1. /\ s \in Fixed /\ s \in Parts /\ Writes(s) = {sh, "config", "index"}
      /\ {sh, "config", "index"} \subseteq Fragile /\ sh \in Shards
      /\ sh # "config" /\ sh # "index" /\ CommitOf(s) = "index"
  BY Tables, ShardNames DEF Fixed, Parts, QuantParts, Writes, CommitOf, Shards, Fragile
<1>2. Puts(s, p1) /\ Puts(s, p2) /\ Puts(s, p3)
  <2>1. /\ NewMarks(s, sh) = Marks(sh) \cup {s} /\ NewMarks(s, "config") = Declared(s)
        /\ NewMarks(s, "index") = Marks("index") \cup {s}
    BY <1>1 DEF NewMarks, QuantParts, RewriteSteps
  <2> QED BY <1>1, <2>1 DEF Puts
<1>3. BacksUp(s, b1) /\ Saves(s, sh) /\ b1.to = SavedAs(s, sh)
  <2>1. Saves(s, sh) /\ SuffixFor(s, sh) = BackupSuffix[s]
    BY <1>1 DEF Saves, SuffixFor
  <2> QED BY <1>1, <2>1, BackupFields DEF BacksUp, SavedAs
<1>4. ASSUME s \in DOMAIN MetaSuffix
      PROVE  /\ BacksUp(s, b2) /\ Saves(s, "config") /\ b2.to = SavedAs(s, "config")
             /\ BacksUp(s, b3) /\ Saves(s, "index") /\ b3.to = SavedAs(s, "index")
  <2>1. /\ Saves(s, "config") /\ SuffixFor(s, "config") = MetaSuffix[s]
        /\ Saves(s, "index") /\ SuffixFor(s, "index") = MetaSuffix[s]
    BY <1>4 DEF Saves, SuffixFor
  <2> QED BY <1>1, <2>1, BackupFields DEF BacksUp, SavedAs
<1>5. ASSUME s \notin DOMAIN MetaSuffix
      PROVE  ~Saves(s, "config") /\ ~Saves(s, "index")
  BY <1>1, <1>5 DEF Saves
<1>6. p1.to = File(sh) /\ p2.to = File("config") /\ p3.to = File("index")
  BY PutFields
<1>7. \A n, m \in Fragile : (File(n) = File(m) <=> n = m)
      /\ (Saves(s, n) => SavedAs(s, n) # File(m))
      /\ (Saves(s, n) /\ Saves(s, m) /\ n # m => SavedAs(s, n) # SavedAs(s, m))
  <2> SUFFICES ASSUME NEW n \in Fragile, NEW m \in Fragile
               PROVE  /\ File(n) = File(m) <=> n = m
                      /\ Saves(s, n) => SavedAs(s, n) # File(m)
                      /\ Saves(s, n) /\ Saves(s, m) /\ n # m => SavedAs(s, n) # SavedAs(s, m)
    OBVIOUS
  <2>1. n \in Names /\ m \in Names
    BY DEF Fragile, Names, HubNames
  <2>2. File(n) = File(m) <=> n = m
    BY <2>1, PathFacts
  <2>3. Saves(s, n) => \A k \in Names : SavedAs(s, n) # File(k)
    BY <1>1, BackupNames
  <2>4. Saves(s, n) /\ Saves(s, m) /\ n # m => SavedAs(s, n) # SavedAs(s, m)
    BY <1>1, BackupNames
  <2> QED BY <2>1, <2>2, <2>3, <2>4
<1>8. b1 \in Op /\ p1 \in Op /\ p2 \in Op /\ p3 \in Op
      /\ (s \in DOMAIN MetaSuffix => b2 \in Op /\ b3 \in Op)
  BY <1>1, <1>2, <1>3, <1>4, OpTargets
<1>9. s \in Marks(sh) => Exists(SavedAs(s, sh))
  BY <1>1, <1>3 DEF BackupInv
<1>10. QuantOps(s) = (IF s \in Marks(sh) THEN <<>> ELSE <<b1, p1>>)
                     \o (IF s \in DOMAIN MetaSuffix THEN <<b2>> ELSE <<>>) \o <<p2>>
                     \o (IF s \in DOMAIN MetaSuffix THEN <<b3>> ELSE <<>>) \o <<p3>>
  BY DEF QuantOps, RepackOps, MetaBackup
<1>11. /\ Needs(s) = {sh, "config"} /\ (IsThere(s, sh) <=> s \in Marks(sh))
  <2>1. sh \notin {"vocab", "fast_embed", "fast_tensors"}
    BY <1>1, ShardNames
  <2>2. Needs(s) = {sh, "config"}
    BY DEF Needs, QuantParts
  <2> HIDE DEF sh
  <2> QED BY <2>1, <2>2 DEF IsThere
<1> HIDE DEF sh, b1, b2, b3, p1, p2, p3
<1>12. CASE s \in Marks(sh) /\ s \in DOMAIN MetaSuffix
  <2>1. QuantOps(s) = <<b2, p2, b3, p3>>
    <3>1. QuantOps(s) = <<>> \o <<b2>> \o <<p2>> \o <<b3>> \o <<p3>>
      BY <1>10, <1>12
    <3>2. <<>> \o <<b2>> = <<b2>>
      BY Appended
    <3>3. <<b2>> \o <<p2>> = <<b2, p2>>
      BY Appended
    <3>4. <<b2, p2>> \o <<b3>> = <<b2, p2, b3>>
      BY Appended
    <3>5. <<b2, p2, b3>> \o <<p3>> = <<b2, p2, b3, p3>>
      BY Append4
    <3> QED BY <3>1, <3>2, <3>3, <3>4, <3>5, Zenon
  <2> QED BY <1>1, <1>2, <1>4, <1>6, <1>7, <1>8, <1>9, <1>12, <1>11, <2>1 DEF OpsOK, Covers
<1>13. CASE s \notin Marks(sh) /\ s \in DOMAIN MetaSuffix
  <2>1. QuantOps(s) = <<b1, p1, b2, p2, b3, p3>>
    <3>1. QuantOps(s) = <<b1, p1>> \o <<b2>> \o <<p2>> \o <<b3>> \o <<p3>>
      BY <1>10, <1>13
    <3>2. <<b1, p1>> \o <<b2>> = <<b1, p1, b2>>
      BY Appended
    <3>3. <<b1, p1, b2>> \o <<p2>> = <<b1, p1, b2, p2>>
      BY Append4
    <3>4. <<b1, p1, b2, p2>> \o <<b3>> = <<b1, p1, b2, p2, b3>>
      BY Append5
    <3>5. <<b1, p1, b2, p2, b3>> \o <<p3>> = <<b1, p1, b2, p2, b3, p3>>
      BY Append6
    <3> QED BY <3>1, <3>2, <3>3, <3>4, <3>5, Zenon
  <2> QED BY <1>1, <1>2, <1>3, <1>4, <1>6, <1>7, <1>8, <1>13, <1>11, <2>1 DEF OpsOK, Covers
<1>14. CASE s \in Marks(sh) /\ s \notin DOMAIN MetaSuffix
  <2>1. QuantOps(s) = <<p2, p3>>
    <3>1. QuantOps(s) = <<>> \o <<>> \o <<p2>> \o <<>> \o <<p3>>
      BY <1>10, <1>14
    <3>2. <<>> \o <<>> = <<>>
      BY Appended
    <3>3. <<>> \o <<p2>> = <<p2>>
      BY Appended
    <3>4. <<p2>> \o <<>> = <<p2>>
      BY Appended
    <3>5. <<p2>> \o <<p3>> = <<p2, p3>>
      BY Appended
    <3> QED BY <3>1, <3>2, <3>3, <3>4, <3>5, Zenon
  <2> QED BY <1>1, <1>2, <1>5, <1>6, <1>7, <1>8, <1>9, <1>14, <1>11, <2>1 DEF OpsOK, Covers
<1>15. CASE s \notin Marks(sh) /\ s \notin DOMAIN MetaSuffix
  <2>1. QuantOps(s) = <<b1, p1, p2, p3>>
    <3>1. QuantOps(s) = <<b1, p1>> \o <<>> \o <<p2>> \o <<>> \o <<p3>>
      BY <1>10, <1>15
    <3>2. <<b1, p1>> \o <<>> = <<b1, p1>>
      BY Appended
    <3>3. <<b1, p1>> \o <<p2>> = <<b1, p1, p2>>
      BY Appended
    <3>4. <<b1, p1, p2>> \o <<>> = <<b1, p1, p2>>
      BY Appended
    <3>5. <<b1, p1, p2>> \o <<p3>> = <<b1, p1, p2, p3>>
      BY Append4
    <3> QED BY <3>1, <3>2, <3>3, <3>4, <3>5, Zenon
  <2> QED BY <1>1, <1>2, <1>3, <1>5, <1>6, <1>7, <1>8, <1>15, <1>11, <2>1 DEF OpsOK, Covers
<1> QED BY <1>12, <1>13, <1>14, <1>15

LEMMA DraftStart ==
  ASSUME TypeInv, BackupInv
  PROVE  /\ OpsOK("draft", DraftOps) /\ DraftOps \in Seq(Op)
         /\ DraftOps # <<>> /\ Covers("draft", DraftOps)
<1> DEFINE s == "draft"
           b1 == Backup("extra", BackupSuffix["draft"])
           p1 == Put("extra", Marks("extra") \cup {"draft"})
           p2 == Put("vocab", {})
           p3 == Put("index", Marks("index") \cup {"draft"})
<1>1. /\ s \in Fixed /\ s \in Parts /\ Writes(s) = {"extra", "vocab", "index"}
      /\ "extra" \in Fragile /\ "vocab" \notin Fragile /\ ShardOf[s] = "extra"
      /\ Fragile \cup Writes(s) \subseteq Names /\ CommitOf(s) = "index" /\ "extra" \notin {"config", "index"}
      /\ ~Saves(s, "index")
  BY Tables, ShardNames DEF Fixed, Parts, QuantParts, Writes, CommitOf, Shards, Fragile, Saves,
                            Names, HubNames
<1>2. Puts(s, p1) /\ Puts(s, p2) /\ Puts(s, p3)
  <2>1. /\ NewMarks(s, "extra") = Marks("extra") \cup {s} /\ NewMarks(s, "vocab") = {}
        /\ NewMarks(s, "index") = Marks("index") \cup {s}
    BY <1>1 DEF NewMarks, QuantParts, RewriteSteps
  <2> QED BY <1>1, <2>1 DEF Puts
<1>3. BacksUp(s, b1) /\ Saves(s, "extra") /\ b1.to = SavedAs(s, "extra")
  <2>1. Saves(s, "extra") /\ SuffixFor(s, "extra") = BackupSuffix[s]
    BY <1>1 DEF Saves, SuffixFor
  <2> QED BY <1>1, <2>1, BackupFields DEF BacksUp, SavedAs
<1>4. p1.to = File("extra") /\ p2.to = File("vocab") /\ p3.to = File("index")
  BY PutFields
<1>5. \A n, m \in Names : File(n) = File(m) <=> n = m
  BY PathFacts
<1>6. \A m \in Names : SavedAs(s, "extra") # File(m)
  BY <1>1, <1>3, BackupNames
<1>7. b1 \in Op /\ p1 \in Op /\ p2 \in Op /\ p3 \in Op
  BY <1>1, <1>2, <1>3, OpTargets
<1>8. DraftOps = <<b1, p1, p2, p3>>
  BY DEF DraftOps
<1> HIDE DEF s, b1, p1, p2, p3
<1>9. OpsOK(s, DraftOps)
  BY <1>1, <1>2, <1>3, <1>4, <1>5, <1>6, <1>7, <1>8 DEF OpsOK
<1>10. Needs(s) = {"extra", "vocab"}
  BY DEF Needs, QuantParts, s
<1>11. Covers(s, DraftOps)
  BY <1>4, <1>8, <1>10 DEF Covers
<1> QED BY <1>7, <1>8, <1>9, <1>11 DEF s

LEMMA FastStart ==
  ASSUME TypeInv
  PROVE  /\ OpsOK("fast", FastOps) /\ FastOps \in Seq(Op)
         /\ FastOps # <<>> /\ Covers("fast", FastOps)
<1> DEFINE s == "fast"
           l1 == Link(EmbedShard, File("fast_embed"))
           p1 == Put("fast_template", Marks("template"))
           p2 == Put("fast_tensors", {})
           p3 == Put("fast_index", {})
           C1 == ~Exists(File("fast_embed"))
           C2 == Exists(File("template")) /\ ~Exists(File("fast_template"))
<1>1. /\ s \in Fixed /\ s \notin Parts /\ Writes(s) = {"fast_template", "fast_tensors", "fast_index"}
      /\ Writes(s) \cup {"fast_embed"} \subseteq Names /\ CommitOf(s) = "fast_index"
  BY DEF Fixed, Parts, QuantParts, Writes, CommitOf, Names, FastNames
<1>2. Puts(s, p1) /\ Puts(s, p2) /\ Puts(s, p3)
  <2>1. /\ NewMarks(s, "fast_template") = Marks("template") /\ NewMarks(s, "fast_tensors") = {}
        /\ NewMarks(s, "fast_index") = {}
    BY <1>1 DEF NewMarks, QuantParts, RewriteSteps
  <2> QED BY <1>1, <2>1 DEF Puts
<1>3. Links(s, l1)
  BY DEF Links
<1>4. /\ p1.to = File("fast_template") /\ p2.to = File("fast_tensors") /\ p3.to = File("fast_index")
      /\ l1.to = File("fast_embed")
  BY PutFields, LinkFields
<1>5. \A n, m \in Names : File(n) = File(m) <=> n = m
  BY PathFacts
<1>6. l1 \in Op /\ p1 \in Op /\ p2 \in Op /\ p3 \in Op
  BY <1>1, <1>2, <1>3, OpTargets
<1>7. FastOps = (IF C1 THEN <<l1>> ELSE <<>>) \o (IF C2 THEN <<p1>> ELSE <<>>) \o <<p2, p3>>
  BY DEF FastOps, If
<1>8. /\ Needs(s) = {"fast_embed", "fast_tensors"}
      /\ IsThere(s, "fast_embed") <=> ~C1
  BY DEF Needs, QuantParts, IsThere
<1> HIDE DEF s, l1, p1, p2, p3, C1, C2
<1>9. CASE C1 /\ C2
  <2>1. FastOps = <<l1, p1, p2, p3>>
    <3>1. FastOps = <<l1>> \o <<p1>> \o <<p2, p3>>
      BY <1>7, <1>9
    <3>2. <<l1>> \o <<p1>> = <<l1, p1>>
      BY Appended
    <3>3. <<l1, p1>> \o <<p2, p3>> = <<l1, p1, p2, p3>>
      BY AppendTwoToTwo
    <3> QED BY <3>1, <3>2, <3>3, Zenon
  <2>2. OpsOK(s, FastOps) /\ FastOps \in Seq(Op)
    BY <1>1, <1>2, <1>3, <1>4, <1>5, <1>6, <2>1 DEF OpsOK
  <2>3. FastOps # <<>> /\ Covers(s, FastOps)
    BY <1>9, <1>4, <1>8, <2>1 DEF Covers
  <2> QED BY <2>2, <2>3 DEF s
<1>10. CASE C1 /\ ~C2
  <2>1. FastOps = <<l1, p2, p3>>
    <3>1. FastOps = <<l1>> \o <<>> \o <<p2, p3>>
      BY <1>7, <1>10
    <3>2. <<l1>> \o <<>> = <<l1>>
      BY Appended
    <3>3. <<l1>> \o <<p2, p3>> = <<l1, p2, p3>>
      BY AppendTwo
    <3> QED BY <3>1, <3>2, <3>3, Zenon
  <2>2. OpsOK(s, FastOps) /\ FastOps \in Seq(Op)
    BY <1>1, <1>2, <1>3, <1>4, <1>5, <1>6, <2>1 DEF OpsOK
  <2>3. FastOps # <<>> /\ Covers(s, FastOps)
    BY <1>10, <1>4, <1>8, <2>1 DEF Covers
  <2> QED BY <2>2, <2>3 DEF s
<1>11. CASE ~C1 /\ C2
  <2>1. FastOps = <<p1, p2, p3>>
    <3>1. FastOps = <<>> \o <<p1>> \o <<p2, p3>>
      BY <1>7, <1>11
    <3>2. <<>> \o <<p1>> = <<p1>>
      BY Appended
    <3>3. <<p1>> \o <<p2, p3>> = <<p1, p2, p3>>
      BY AppendTwo
    <3> QED BY <3>1, <3>2, <3>3, Zenon
  <2>2. OpsOK(s, FastOps) /\ FastOps \in Seq(Op)
    BY <1>1, <1>2, <1>3, <1>4, <1>5, <1>6, <2>1 DEF OpsOK
  <2>3. FastOps # <<>> /\ Covers(s, FastOps)
    BY <1>11, <1>4, <1>8, <2>1 DEF Covers
  <2> QED BY <2>2, <2>3 DEF s
<1>12. CASE ~C1 /\ ~C2
  <2>1. FastOps = <<p2, p3>>
    <3>1. FastOps = <<>> \o <<>> \o <<p2, p3>>
      BY <1>7, <1>12
    <3>2. <<>> \o <<>> = <<>>
      BY Appended
    <3>3. <<>> \o <<p2, p3>> = <<p2, p3>>
      BY AppendTwo
    <3> QED BY <3>1, <3>2, <3>3, Zenon
  <2>2. OpsOK(s, FastOps) /\ FastOps \in Seq(Op)
    BY <1>1, <1>2, <1>3, <1>4, <1>5, <1>6, <2>1 DEF OpsOK
  <2>3. FastOps # <<>> /\ Covers(s, FastOps)
    BY <1>12, <1>4, <1>8, <2>1 DEF Covers
  <2> QED BY <2>2, <2>3 DEF s
<1> QED BY <1>9, <1>10, <1>11, <1>12

LEMMA RewriteStart ==
  ASSUME TypeInv, NEW r \in RewriteSteps
  PROVE  OpsOK(r, RewriteOps(r)) /\ RewriteOps(r) \in Seq(Op)
<1> DEFINE f == RewriteOf[r].file
           p == Put(f, Marks(f) \cup {RewriteOf[r].mark})
<1>1. r \in Fixed /\ r \notin Parts \cup {"fast"} /\ Writes(r) = {f} /\ CommitOf(r) = f
  BY DEF Fixed, Parts, QuantParts, Writes, CommitOf, RewriteSteps
<1>2. Puts(r, p) /\ p.to = File(f)
  <2>1. NewMarks(r, f) = Marks(f) \cup {RewriteOf[r].mark}
    BY <1>1 DEF NewMarks, Parts
  <2> QED BY <1>1, <2>1, PutFields DEF Puts
<1>3. p \in Op
  BY <1>1, <1>2, OpTargets
<1>4. RewriteOps(r) \in {<<p>>, <<>>}
  BY DEF RewriteOps, If
<1> HIDE DEF p, f
<1>5. CASE RewriteOps(r) = <<p>>
  BY <1>1, <1>2, <1>3, <1>5 DEF OpsOK
<1>6. CASE RewriteOps(r) = <<>>
  BY <1>1, <1>6 DEF OpsOK
<1> QED BY <1>4, <1>5, <1>6

LEMMA OpsStart ==
  ASSUME TypeInv, BackupInv, NEW s \in Fixed
  PROVE  OpsOK(s, OpsOf(s)) /\ OpsOf(s) \in Seq(Op)
<1> QED BY QuantStart, DraftStart, FastStart, RewriteStart
        DEF OpsOf, Fixed, Parts, QuantParts, RewriteSteps
-----------------------------------------------------------------------------
(* BaseInv holds initially and is kept by every step.                      *)

LEMMA BaseInit == Init => BaseInv
<1> SUFFICES ASSUME Init PROVE BaseInv
  OBVIOUS
<1>1. DiskOK
  BY FreshVolume, DamagedVolume DEF Init
<1>2. TypeInv
  BY <1>1 DEF Init, TypeInv, DiskOK
<1>3. \A p \in Proc : pc[p] = "down" /\ lock # p
  BY ConstantsOK DEF Init
<1>4. LockInv /\ WholeInv /\ OpsInv
  BY <1>3 DEF LockInv, WholeInv, OpsInv, Active, Planned, Working
<1> QED BY <1>1, <1>2, <1>4 DEF BaseInv, DiskOK

LEMMA PlanType ==
  /\ Pending \in Seq(Steps) /\ Dflash2 \in Seq(Steps) /\ Rewrites \in Seq(Steps)
  /\ Pending \o Dflash2 \o Rewrites \in Seq(Steps)
<1>1. ASSUME NEW c, NEW s \in Steps PROVE If(c, s) \in Seq(Steps)
  BY DEF If
<1>2. Parts \cup {"fast", "dflash2"} \cup RewriteSteps \subseteq Steps
  BY DEF Steps, Fixed
<1>3. Pending \in Seq(Steps)
  <2>1. \A s \in Parts \cup {"fast"} : \A c \in BOOLEAN : If(c, s) \in Seq(Steps)
    BY <1>1, <1>2
  <2> QED BY <1>1, <1>2, ConcatProperties DEF Pending, Parts, QuantParts
<1>4. Dflash2 \in Seq(Steps)
  BY <1>1, <1>2 DEF Dflash2
<1>5. Rewrites \in Seq(Steps)
  BY <1>2 DEF Rewrites, RewriteSteps
<1> QED BY <1>3, <1>4, <1>5, ConcatProperties

\* A step that leaves the disk alone leaves what is said of it alone.
LEMMA QuietFrame ==
  ASSUME BaseInv, disk' = disk
  PROVE  /\ TornInv' /\ BackupInv' /\ NeedsDownload' = NeedsDownload
         /\ \A s \in Fixed : \A L \in Seq(Op) : OpsOK(s, L) => OpsOK(s, L)'
         /\ \A o \in Op : TempOK(o) => TempOK(o)'
<1>1. TornInv' /\ BackupInv'
  BY DEF BaseInv, TornInv, BackupInv, Exists, Marks
<1>2. NeedsDownload' = NeedsDownload
  BY DEF NeedsDownload, Exists, Intact
<1>3. \A o \in Op : TempOK(o) => TempOK(o)'
  BY DEF TempOK, KeepsBackup, Exists
<1>4. (\A m \in Names : Marks(m)' = Marks(m))
      /\ \A t \in Parts : \A n \in Fragile : Saves(t, n) /\ Exists(SavedAs(t, n)) =>
           Exists(SavedAs(t, n))'
  BY DEF Marks, Exists
<1> QED BY <1>1, <1>2, <1>3, <1>4, OpsSame

\* Two prepares are never at work together.
LEMMA Alone ==
  ASSUME LockInv, NEW p \in Proc, NEW q \in Proc, pc[p] \in Active, pc[q] \in Active
  PROVE  p = q
<1> QED BY DEF LockInv

Same(q) == pc'[q] = pc[q] /\ todo'[q] = todo[q] /\ ops'[q] = ops[q]

\* What is left to show for a step of p that leaves the disk alone.
LEMMA QuietStep ==
  ASSUME BaseInv, disk' = disk, NEW p \in Proc, TypeInv', LockInv',
         \A q \in Proc : q # p => Same(q),
         pc'[p] \in Planned => pc[p] \in Planned \/ ~NeedsDownload,
         pc'[p] \in Working => WorkOK(p)'
  PROVE  BaseInv'
<1>1. WholeInv'
  BY QuietFrame DEF BaseInv, WholeInv, Same
<1>2. OpsInv'
  <2> SUFFICES ASSUME NEW q \in Proc, pc'[q] \in Working
               PROVE  WorkOK(q)'
    BY DEF OpsInv
  <2>1. CASE q = p
    BY <2>1
  <2>2. CASE q # p
    <3>1. Same(q) /\ ops[q] \in Seq(Op) /\ WorkOK(q)
      BY <2>2 DEF BaseInv, TypeInv, OpsInv, Same
    <3>2. PICK s \in Fixed, L \in Seq(Op) : s = Head(todo[q]) /\ L = ops[q]
      BY <3>1 DEF WorkOK
    <3>3. OpsOK(s, L)'
      BY <3>1, <3>2, QuietFrame DEF WorkOK
    <3>4. pc[q] = "publish" => TempOK(Head(L))'
      <4> SUFFICES ASSUME pc[q] = "publish" PROVE TempOK(Head(L))'
        OBVIOUS
      <4>1. L # <<>> /\ Head(L) \in Op /\ TempOK(Head(L))
        BY <3>1, <3>2, HeadTailProperties DEF WorkOK
      <4> QED BY <4>1, QuietFrame
    <3> QED BY <3>1, <3>2, <3>3, <3>4 DEF Same, WorkOK
  <2> QED BY <2>1, <2>2
<1> QED BY <1>1, <1>2, QuietFrame DEF BaseInv

LEMMA ExitKept ==
  ASSUME BaseInv, NEW p \in Proc, NEW how \in {"failed", "done", "down"},
         Exit(p, how), disk' = disk
  PROVE  TypeInv' /\ LockInv' /\ (\A q \in Proc : q # p => Same(q)) /\ pc'[p] = how
<1>1. TypeInv /\ LockInv /\ NoOne \notin Proc
  BY ConstantsOK DEF BaseInv
<1>2. pc'[p] = how /\ \A q \in Proc : q # p => Same(q)
  BY <1>1 DEF Exit, Goto, TypeInv, Same
<1>3. pc' \in [Proc -> Active \cup {"down", "failed", "done", "lock"}]
  BY <1>1 DEF Exit, Goto, TypeInv
<1>4. todo' \in [Proc -> Seq(Steps)] /\ ops' \in [Proc -> Seq(Op)]
  BY <1>1 DEF Exit, TypeInv
<1>5. TypeInv'
  BY <1>1, <1>3, <1>4 DEF Exit, TypeInv
<1>6. LockInv'
  <2> SUFFICES ASSUME NEW q \in Proc PROVE (lock' = q) <=> pc'[q] \in Active
    BY DEF LockInv
  <2>1. CASE q = p
    BY <1>1, <1>2, <2>1 DEF Exit, Active
  <2>2. CASE q # p
    BY <1>1, <1>2, <2>2 DEF Exit, LockInv, Same
  <2> QED BY <2>1, <2>2
<1> QED BY <1>2, <1>5, <1>6

LEMMA QuietActions ==
  ASSUME BaseInv, NEW p \in Proc,
         \/ Start(p) \/ Acquire(p) \/ GiveUp(p) \/ Check(p) \/ Downloaded(p)
         \/ Begin(p) \/ EndStep(p) \/ SkipBackup(p) \/ EndDrafter(p) \/ Recheck(p) \/ Crash(p)
  PROVE  BaseInv' /\ disk' = disk
<1> USE DEF Goto, Same
<1>0. TypeInv /\ LockInv /\ NoOne \notin Proc /\ (pc[p] \in Active <=> lock = p)
  BY ConstantsOK DEF BaseInv, LockInv
<1>1. CASE Start(p)
  <2>1. disk' = disk /\ TypeInv' /\ LockInv' /\ \A q \in Proc : q # p => Same(q)
    BY <1>0, <1>1 DEF Start, TypeInv, LockInv, Active
  <2>2. pc'[p] = "lock"
    BY <1>0, <1>1 DEF Start, TypeInv
  <2> QED BY <2>1, <2>2, QuietStep DEF Planned, Working
<1>2. CASE Acquire(p)
  <2>1. disk' = disk /\ TypeInv' /\ LockInv' /\ \A q \in Proc : q # p => Same(q)
    BY <1>0, <1>2 DEF Acquire, TypeInv, LockInv, Active
  <2>2. pc'[p] = "check"
    BY <1>0, <1>2 DEF Acquire, TypeInv
  <2> QED BY <2>1, <2>2, QuietStep DEF Planned, Working
<1>3. CASE GiveUp(p)
  <2>1. Exit(p, "failed") /\ disk' = disk
    BY <1>3 DEF GiveUp
  <2>2. TypeInv' /\ LockInv' /\ (\A q \in Proc : q # p => Same(q)) /\ pc'[p] = "failed"
    BY <2>1, ExitKept
  <2> QED BY <2>1, <2>2, QuietStep DEF Planned, Working
<1>4. CASE Check(p) \/ Downloaded(p)
  <2> DEFINE T == Pending \o Dflash2 \o Rewrites
  <2>1. CASE /\ ~NeedsDownload /\ disk' = disk /\ lock' = lock /\ ops' = ops
             /\ pc[p] \in {"check", "download"} /\ pc' = [pc EXCEPT ![p] = "next"]
             /\ todo' = [todo EXCEPT ![p] = T]
    <3>1. T \in Seq(Steps)
      BY PlanType
    <3> HIDE DEF T
    <3>2. TypeInv' /\ LockInv' /\ (\A q \in Proc : q # p => Same(q)) /\ pc'[p] = "next"
      BY <1>0, <2>1, <3>1 DEF TypeInv, LockInv, Active
    <3> QED BY <2>1, <3>2, QuietStep DEF Planned, Working
  <2>2. CASE Check(p) /\ NeedsDownload
    <3>1. disk' = disk /\ lock' = lock /\ ops' = ops /\ todo' = todo
          /\ pc[p] = "check" /\ pc' = [pc EXCEPT ![p] = "download"]
      BY <2>2 DEF Check
    <3>2. TypeInv' /\ LockInv' /\ (\A q \in Proc : q # p => Same(q)) /\ pc'[p] = "download"
      BY <1>0, <3>1 DEF TypeInv, LockInv, Active
    <3> QED BY <3>1, <3>2, QuietStep DEF Planned, Working
  <2>3. CASE Downloaded(p) /\ NeedsDownload
    <3>1. Exit(p, "failed") /\ disk' = disk
      BY <2>3 DEF Downloaded
    <3>2. TypeInv' /\ LockInv' /\ (\A q \in Proc : q # p => Same(q)) /\ pc'[p] = "failed"
      BY <3>1, ExitKept
    <3> QED BY <3>1, <3>2, QuietStep DEF Planned, Working
  <2> QED BY <1>4, <2>1, <2>2, <2>3 DEF Check, Downloaded, Plan
<1>5. CASE Begin(p)
  <2>1. todo[p] \in Seq(Steps) /\ todo[p] # <<>> /\ pc[p] = "next" /\ disk' = disk
    BY <1>0, <1>5 DEF Begin, TypeInv
  <2>2. Head(todo[p]) \in Fixed
    BY <1>5, <2>1, HeadTailProperties DEF Begin, Steps
  <2>3. PICK s \in Fixed : s = Head(todo[p])
    BY <2>2
  <2>4. CASE CanRun(s)
    <3>1. pc' = [pc EXCEPT ![p] = "work"] /\ ops' = [ops EXCEPT ![p] = OpsOf(s)]
          /\ lock' = lock /\ todo' = todo
      BY <1>5, <2>3, <2>4 DEF Begin
    <3>2. OpsOK(s, OpsOf(s)) /\ OpsOf(s) \in Seq(Op)
      BY OpsStart DEF BaseInv
    <3>3. PICK L \in Seq(Op) : L = OpsOf(s) /\ OpsOK(s, L)
      BY <3>2
    <3>4. ops' = [ops EXCEPT ![p] = L]
      BY <3>1, <3>3
    <3>5. TypeInv' /\ LockInv' /\ (\A q \in Proc : q # p => Same(q)) /\ pc'[p] = "work"
      BY <1>0, <2>1, <3>1, <3>4 DEF TypeInv, LockInv, Active
    <3>6. OpsOK(s, L)'
      BY <2>1, <3>3, QuietFrame
    <3>7. ops'[p] = L /\ todo'[p] = todo[p]
      BY <1>0, <3>1, <3>4 DEF TypeInv
    <3>8. WorkOK(p)'
      BY <2>1, <2>3, <3>5, <3>6, <3>7 DEF WorkOK
    <3> QED BY <2>1, <3>5, <3>8, QuietStep DEF Planned, Working
  <2>5. CASE ~CanRun(s)
    <3>1. Exit(p, "failed")
      BY <1>5, <2>3, <2>5 DEF Begin
    <3>2. TypeInv' /\ LockInv' /\ (\A q \in Proc : q # p => Same(q)) /\ pc'[p] = "failed"
      BY <2>1, <3>1, ExitKept
    <3> QED BY <2>1, <3>2, QuietStep DEF Planned, Working
  <2> QED BY <2>4, <2>5
<1>6. CASE EndStep(p) \/ EndDrafter(p)
  <2>1. todo[p] # <<>> /\ todo' = [todo EXCEPT ![p] = Tail(todo[p])] /\ ops' = ops
        /\ disk' = disk /\ lock' = lock /\ pc[p] \in {"next", "work"}
        /\ pc' = [pc EXCEPT ![p] = "next"]
    <3>1. EndStep(p) => todo[p] # <<>>
      BY DEF EndStep, BaseInv, OpsInv, WorkOK, Working
    <3>2. EndDrafter(p) => pc' = [pc EXCEPT ![p] = "next"]
      BY <1>0 DEF EndDrafter, TypeInv
    <3> QED BY <1>6, <3>1, <3>2 DEF EndStep, EndDrafter
  <2>2. Tail(todo[p]) \in Seq(Steps)
    BY <1>0, <2>1, HeadTailProperties DEF TypeInv
  <2>3. TypeInv' /\ LockInv' /\ (\A q \in Proc : q # p => Same(q)) /\ pc'[p] = "next"
    BY <1>0, <2>1, <2>2 DEF TypeInv, LockInv, Active
  <2> QED BY <2>1, <2>3, QuietStep DEF Planned, Working
<1>7. CASE SkipBackup(p)
  <2>1. /\ pc[p] = "work" /\ ops[p] # <<>> /\ KeepsBackup(Head(ops[p])) /\ disk' = disk
        /\ ops' = [ops EXCEPT ![p] = Tail(ops[p])] /\ lock' = lock /\ todo' = todo /\ pc' = pc
    BY <1>7 DEF SkipBackup
  <2>2. ops[p] \in Seq(Op) /\ WorkOK(p)
    BY <1>0, <2>1 DEF TypeInv, BaseInv, OpsInv, Working
  <2>3. PICK s \in Fixed, L \in Seq(Op) : s = Head(todo[p]) /\ L = ops[p]
    BY <2>2 DEF WorkOK
  <2>4. TypeInv' /\ LockInv' /\ (\A q \in Proc : q # p => Same(q)) /\ pc'[p] = "work"
    BY <1>0, <2>1, <2>2, HeadTailProperties DEF TypeInv, LockInv
  <2>5. OpsOK(s, Tail(L))'
    <3>1. L # <<>> /\ OpsOK(s, L) /\ Exists(Head(L).to)
      BY <2>1, <2>2, <2>3 DEF WorkOK, KeepsBackup
    <3>2. Exists(Head(L).to)' /\ \A t \in Parts : \A n \in Fragile : Saves(t, n) /\ Exists(SavedAs(t, n)) =>
            Exists(SavedAs(t, n))'
      BY <2>1, <3>1 DEF Exists
    <3> QED BY <1>0, <2>1, <3>1, <3>2, OpsTail
  <2>6. ops'[p] = Tail(L) /\ todo'[p] = todo[p]
    BY <1>0, <2>1, <2>3 DEF TypeInv
  <2>7. WorkOK(p)'
    BY <2>2, <2>3, <2>4, <2>5, <2>6 DEF WorkOK
  <2> QED BY <2>1, <2>4, <2>7, QuietStep DEF Planned, Working
<1>8. CASE Recheck(p) \/ Crash(p)
  <2>1. PICK how \in {"failed", "done", "down"} : Exit(p, how) /\ disk' = disk
    BY <1>8 DEF Recheck, Crash
  <2>2. TypeInv' /\ LockInv' /\ (\A q \in Proc : q # p => Same(q)) /\ pc'[p] = how
    BY <2>1, ExitKept
  <2>3. pc'[p] \notin Planned /\ pc'[p] \notin Working
    BY <2>2 DEF Planned, Working
  <2> QED BY <2>1, <2>2, <2>3, QuietStep
<1> QED BY <1>1, <1>2, <1>3, <1>4, <1>5, <1>6, <1>7, <1>8

\* No file of the models is cut short or removed by the step.
Kept == \A n \in Names :
  /\ Exists(File(n)) => Exists(File(n))'
  /\ disk[File(n)].kind # "torn" => disk'[File(n)].kind # "torn"

LEMMA KeptWhole ==
  ASSUME Kept, TypeInv, TypeInv'
  PROVE  /\ ~NeedsDownload => ~NeedsDownload'
         /\ TornInv => TornInv'
<1>1. {"config", "index", "tokenizer"} \cup Shards \subseteq Names
  BY DEF Names, HubNames
<1>2. \A n \in Names : Exists(File(n)) => Exists(File(n))'
  BY DEF Kept
<1>3. \A n \in {"config", "index"} \cup Shards : Intact(n) => Intact(n)'
  <2> SUFFICES ASSUME NEW n \in {"config", "index"} \cup Shards, Intact(n)
               PROVE  Intact(n)'
    OBVIOUS
  <2>1. n \in Names /\ File(n) \in Path
    BY <1>1, PathFacts
  <2>2. disk'[File(n)].kind \in {"absent", "torn", "whole"}
    BY <2>1 DEF TypeInv, FileState
  <2>3. disk'[File(n)].kind # "torn" /\ disk'[File(n)].kind # "absent"
    BY <2>1 DEF Kept, Intact, Exists
  <2> QED BY <2>2, <2>3 DEF Intact
<1>4. ~NeedsDownload => ~NeedsDownload'
  BY <1>1, <1>2, <1>3 DEF NeedsDownload
<1>5. TornInv => TornInv'
  BY DEF Kept, TornInv
<1> QED BY <1>4, <1>5

\* What is left to show for a step of p that writes.
LEMMA DiskStep ==
  ASSUME BaseInv, NEW p \in Proc, pc[p] \in Active, pc'[p] \in Active, lock' = lock,
         \A q \in Proc : q # p => Same(q), TypeInv', Kept, BackupInv',
         pc'[p] \in Planned => pc[p] \in Planned,
         pc'[p] \in Working => WorkOK(p)'
  PROVE  BaseInv'
<1>1. \A q \in Proc : q # p => pc[q] \notin Active /\ pc'[q] = pc[q]
  BY Alone DEF BaseInv, Same
<1>2. LockInv'
  BY <1>1 DEF BaseInv, LockInv
<1>3. TornInv' /\ WholeInv'
  <2>1. (\E q \in Proc : pc'[q] \in Planned) => \E q \in Proc : pc[q] \in Planned
    BY DEF Same
  <2> QED BY <2>1, KeptWhole DEF BaseInv, WholeInv
<1>4. OpsInv'
  BY <1>1 DEF OpsInv, Working, Active
<1> QED BY <1>2, <1>3, <1>4 DEF BaseInv

LEMMA FetchBase ==
  ASSUME BaseInv, NEW p \in Proc, Fetch(p)
  PROVE  BaseInv' /\ Kept
<1>1. PICK n \in HubNames : disk' = [disk EXCEPT ![File(n)] = Whole({})]
  BY DEF Fetch, Stale
<1>2. TypeInv /\ BackupInv /\ pc[p] = "download" /\ pc' = pc /\ lock' = lock /\ todo' = todo /\ ops' = ops
  BY DEF Fetch, BaseInv
<1>3. n \in Names /\ File(n) \in Path
  BY PathFacts DEF Names
<1>4. TypeInv'
  BY <1>1, <1>2, <1>3 DEF TypeInv, FileState, Whole
<1>5. \A m \in Names : disk'[File(m)] = IF m = n THEN Whole({}) ELSE disk[File(m)]
  BY <1>1, <1>2, <1>3, PathFacts DEF TypeInv
<1>6. Kept
  BY <1>5 DEF Kept, Whole, Exists
<1>7. BackupInv'
  <2> SUFFICES ASSUME NEW s \in Parts, NEW m \in Fragile, Saves(s, m)
               PROVE  /\ Exists(SavedAs(s, m))' =>
                           disk'[SavedAs(s, m)].kind = "whole" /\ s \notin disk'[SavedAs(s, m)].marks
                      /\ s \in Marks(m)' => Exists(SavedAs(s, m))'
    BY DEF BackupInv
  <2>1. disk'[SavedAs(s, m)] = disk[SavedAs(s, m)]
    <3>1. SavedAs(s, m) # File(n)
      BY <1>3, BackupNames
    <3> QED BY <1>1, <3>1
  <2>2. m \in Names
    BY DEF Fragile, Names, HubNames
  <2>3. s \in Marks(m)' => s \in Marks(m)
    BY <1>5, <2>2 DEF Marks, Whole
  <2> QED BY <1>2, <2>1, <2>3 DEF BackupInv, Exists
<1> QED BY <1>2, <1>4, <1>6, <1>7, DiskStep DEF Same, Active, Planned, Working

LEMMA DrafterBase ==
  ASSUME BaseInv, NEW p \in Proc, FetchDrafter(p)
  PROVE  BaseInv' /\ Kept
<1>1. PICK n \in DrafterNames : disk' = [disk EXCEPT ![File(n)] = Whole({})]
  BY DEF FetchDrafter
<1>2. TypeInv /\ BackupInv /\ pc[p] = "next" /\ pc' = pc /\ lock' = lock /\ todo' = todo /\ ops' = ops
  BY DEF FetchDrafter, BaseInv
<1>3. n \in Names /\ File(n) \in Path /\ n \notin Fragile
  BY PathFacts, ShardNames DEF Names, DrafterNames, Fragile
<1>4. TypeInv'
  BY <1>1, <1>2, <1>3 DEF TypeInv, FileState, Whole
<1>5. \A m \in Names : disk'[File(m)] = IF m = n THEN Whole({}) ELSE disk[File(m)]
  BY <1>1, <1>2, <1>3, PathFacts DEF TypeInv
<1>6. Kept
  BY <1>5 DEF Kept, Whole, Exists
<1>7. BackupInv'
  <2> SUFFICES ASSUME NEW s \in Parts, NEW m \in Fragile, Saves(s, m)
               PROVE  /\ Exists(SavedAs(s, m))' =>
                           disk'[SavedAs(s, m)].kind = "whole" /\ s \notin disk'[SavedAs(s, m)].marks
                      /\ s \in Marks(m)' => Exists(SavedAs(s, m))'
    BY DEF BackupInv
  <2>1. disk'[SavedAs(s, m)] = disk[SavedAs(s, m)]
    <3>1. SavedAs(s, m) # File(n)
      BY <1>3, BackupNames
    <3> QED BY <1>1, <3>1
  <2>2. m \in Names /\ m # n
    BY <1>3 DEF Fragile, Names, HubNames
  <2>3. Marks(m)' = Marks(m)
    BY <1>5, <2>2 DEF Marks
  <2> QED BY <1>2, <2>1, <2>3 DEF BackupInv, Exists
<1> QED BY <1>2, <1>4, <1>6, <1>7, DiskStep DEF Same, Active, Planned, Working

\* The operation at the head of the list of a prepare at work.
LEMMA AtWork ==
  ASSUME BaseInv, NEW p \in Proc, pc[p] \in Working, ops[p] # <<>>
  PROVE  /\ todo[p] # <<>> /\ Head(todo[p]) \in Fixed /\ ops[p] \in Seq(Op)
         /\ OpsOK(Head(todo[p]), ops[p]) /\ Head(ops[p]) \in Op /\ Tail(ops[p]) \in Seq(Op)
         /\ LET s == Head(todo[p]) o == Head(ops[p])
            IN Puts(s, o) \/ BacksUp(s, o) \/ Links(s, o)
<1>1. WorkOK(p) /\ ops[p] \in Seq(Op)
  BY DEF BaseInv, OpsInv, TypeInv
<1>2. 1 \in DOMAIN ops[p] /\ Head(ops[p]) = ops[p][1]
  BY <1>1, TailFacts
<1> QED BY <1>1, <1>2, HeadTailProperties DEF WorkOK, OpsOK

LEMMA TempPaths ==
  ASSUME NEW path \in Path
  PROVE  /\ Temp(path) \in Path
         /\ \A n \in Names : Temp(path) # File(n)
         /\ \A s \in Parts : \A n \in Fragile : Saves(s, n) => Temp(path) # SavedAs(s, n)
<1> QED BY DEF Path, Temp, File, SavedAs, BackupOf

LEMMA WriteTempBase ==
  ASSUME BaseInv, NEW p \in Proc, WriteTemp(p)
  PROVE  BaseInv' /\ Kept
<1> DEFINE s == Head(todo[p])
           o == Head(ops[p])
           t == Temp(o.to)
           m == IF o.op = "backup" THEN disk[o.from].marks ELSE o.marks
<1>1. /\ pc[p] = "work" /\ pc' = [pc EXCEPT ![p] = "publish"] /\ ops[p] # <<>>
      /\ lock' = lock /\ todo' = todo /\ ops' = ops
      /\ o.op \in {"put", "backup"} /\ ~KeepsBackup(o)
      /\ disk' = [disk EXCEPT ![t] = Torn(m)]
  BY DEF WriteTemp, Goto
<1>2. TypeInv /\ BackupInv /\ OpsOK(s, ops[p]) /\ s \in Fixed /\ o \in Op /\ ops[p] \in Seq(Op)
      /\ todo[p] # <<>> /\ (Puts(s, o) \/ BacksUp(s, o) \/ Links(s, o))
  BY <1>1, AtWork DEF BaseInv, Working
<1>3. o.to \in Path /\ o.from \in Path /\ o.marks \subseteq Mark
  BY <1>2 DEF Op
<1>4. m \subseteq Mark
  BY <1>2, <1>3 DEF TypeInv, FileState
<1>5. t \in Path /\ (\A n \in Names : t # File(n))
      /\ \A r \in Parts : \A n \in Fragile : Saves(r, n) => t # SavedAs(r, n)
  BY <1>3, TempPaths
<1> HIDE DEF t, m
<1>6. TypeInv' /\ pc'[p] = "publish" /\ \A q \in Proc : q # p => Same(q)
  BY <1>1, <1>2, <1>4, <1>5 DEF TypeInv, FileState, Torn, Active, Same
<1>7. (\A n \in Names : disk'[File(n)] = disk[File(n)])
      /\ \A r \in Parts : \A n \in Fragile :
           Saves(r, n) => disk'[SavedAs(r, n)] = disk[SavedAs(r, n)]
  BY <1>1, <1>5
<1>8. Kept
  BY <1>7 DEF Kept, Exists
<1>9. BackupInv'
  <2>1. \A n \in Fragile : Marks(n)' = Marks(n)
    BY <1>7 DEF Marks, Fragile, Names, HubNames
  <2> QED BY <1>2, <1>7, <2>1 DEF BackupInv, Exists
<1>10. WorkOK(p)'
  <2>1. PICK r \in Fixed, L \in Seq(Op) : r = s /\ L = ops[p]
    BY <1>2
  <2>2. OpsOK(r, L)'
    <3>1. \A n \in Names : Marks(n)' = Marks(n)
      BY <1>7 DEF Marks
    <3>2. \A x \in Parts : \A n \in Fragile : Saves(x, n) /\ Exists(SavedAs(x, n)) =>
            Exists(SavedAs(x, n))'
      BY <1>7 DEF Exists
    <3> QED BY <1>2, <2>1, <3>1, <3>2, OpsSame
  <2>3. PICK c \in Op : c = o
    BY <1>2
  <2>4. TempOK(c)'
    <3>1. (disk'[c.to] = disk[c.to] /\ disk'[c.from] = disk[c.from]) \/ c.op = "put"
      <4>1. c.op = "backup" => \E n \in Fragile : s \in Parts /\ Saves(s, n)
                                  /\ c.to = SavedAs(s, n) /\ c.from = File(n)
        BY <1>2, <2>3, OpTargets
      <4> QED BY <1>1, <1>7, <2>3, <4>1 DEF Fragile, Names, HubNames
    <3>2. disk'[Temp(c.to)].marks = IF c.op = "backup" THEN disk[c.from].marks ELSE c.marks
      BY <1>1, <1>2, <1>5, <2>3 DEF TypeInv, Torn, t, m
    <3>3. ~KeepsBackup(c)'
      BY <1>1, <2>3, <3>1 DEF KeepsBackup, Exists
    <3> QED BY <1>1, <2>3, <3>1, <3>2, <3>3 DEF TempOK
  <2> QED BY <1>1, <1>2, <1>6, <2>1, <2>2, <2>3, <2>4 DEF WorkOK
<1> QED BY <1>1, <1>6, <1>8, <1>9, <1>10, DiskStep DEF Active, Planned

\* Publishing writes one path, with what its temp file holds.
LEMMA PublishFacts ==
  ASSUME BaseInv, NEW p \in Proc, Publish(p)
  PROVE  LET s == Head(todo[p])
             o == Head(ops[p])
         IN /\ pc[p] = "publish" /\ pc' = [pc EXCEPT ![p] = "work"] /\ ops[p] # <<>>
            /\ lock' = lock /\ todo' = todo /\ ops' = [ops EXCEPT ![p] = Tail(ops[p])]
            /\ o \in Op /\ s \in Fixed /\ TempOK(o) /\ o.to \in Path
            /\ (Puts(s, o) \/ BacksUp(s, o) \/ Links(s, o))
            /\ disk'[o.to] = Whole(IF o.op = "backup" THEN disk[o.from].marks ELSE o.marks)
            /\ \A n \in Names : File(n) # o.to => disk'[File(n)] = disk[File(n)]
            /\ \A r \in Parts : \A n \in Fragile : Saves(r, n) /\ SavedAs(r, n) # o.to
                 => disk'[SavedAs(r, n)] = disk[SavedAs(r, n)]
            /\ TypeInv'
<1> DEFINE s == Head(todo[p])
           o == Head(ops[p])
           t == Temp(o.to)
<1>1. /\ pc[p] = "publish" /\ pc' = [pc EXCEPT ![p] = "work"]
      /\ lock' = lock /\ todo' = todo /\ ops' = [ops EXCEPT ![p] = Tail(ops[p])]
      /\ disk' = [disk EXCEPT ![t] = Absent, ![o.to] = Whole(disk[t].marks)]
  BY DEF Publish, Goto
<1>2. TypeInv /\ ops[p] # <<>> /\ TempOK(o)
  BY <1>1 DEF BaseInv, OpsInv, WorkOK, Working
<1>3. s \in Fixed /\ o \in Op /\ Tail(ops[p]) \in Seq(Op) /\ (Puts(s, o) \/ BacksUp(s, o) \/ Links(s, o))
  BY <1>1, <1>2, AtWork DEF Working
<1>4. o.to \in Path
  BY <1>3 DEF Op
<1>5. t \in Path /\ (\A n \in Names : t # File(n))
      /\ \A r \in Parts : \A n \in Fragile : Saves(r, n) => t # SavedAs(r, n)
  BY <1>4, TempPaths
<1>6. o.to = t \/ disk'[o.to] = Whole(disk[t].marks)
  BY <1>1, <1>2, <1>4, <1>5 DEF TypeInv
<1>7. disk'[o.to] = Whole(disk[t].marks)
  BY <1>1, <1>2, <1>4 DEF TypeInv
<1>8. disk[t].marks = IF o.op = "backup" THEN disk[o.from].marks ELSE o.marks
  BY <1>2 DEF TempOK
<1>9. disk[t].marks \subseteq Mark
  BY <1>2, <1>5 DEF TypeInv, FileState
<1> HIDE DEF t, s, o
<1>10. \A path \in Path : path # t /\ path # o.to => disk'[path] = disk[path]
  BY <1>1, <1>2 DEF TypeInv
<1>11. \A n \in Names : File(n) # o.to => disk'[File(n)] = disk[File(n)]
  BY <1>5, <1>10, PathFacts
<1>12. \A r \in Parts : \A n \in Fragile : Saves(r, n) /\ SavedAs(r, n) # o.to
         => disk'[SavedAs(r, n)] = disk[SavedAs(r, n)]
  BY <1>5, <1>10, BackupPaths
<1>13. disk' \in [Path -> FileState]
  BY <1>1, <1>2, <1>4, <1>5, <1>9 DEF TypeInv, FileState, Absent, Whole
<1>14. TypeInv'
  BY <1>1, <1>2, <1>3, <1>13 DEF TypeInv, Active
<1> QED BY <1>1, <1>2, <1>3, <1>4, <1>7, <1>8, <1>11, <1>12, <1>14 DEF s, o

LEMMA PublishBase ==
  ASSUME BaseInv, NEW p \in Proc, Publish(p)
  PROVE  BaseInv' /\ Kept
<1>1. PICK s \in Fixed, o \in Op : s = Head(todo[p]) /\ o = Head(ops[p])
  BY PublishFacts
<1>2. /\ pc[p] = "publish" /\ pc' = [pc EXCEPT ![p] = "work"] /\ ops[p] # <<>>
      /\ lock' = lock /\ todo' = todo /\ ops' = [ops EXCEPT ![p] = Tail(ops[p])]
      /\ TempOK(o) /\ o.to \in Path /\ (Puts(s, o) \/ BacksUp(s, o) \/ Links(s, o))
      /\ disk'[o.to] = Whole(IF o.op = "backup" THEN disk[o.from].marks ELSE o.marks)
      /\ TypeInv'
  BY <1>1, PublishFacts
<1>3. \A n \in Names : File(n) # o.to => disk'[File(n)] = disk[File(n)]
  BY <1>1, PublishFacts
<1>4. \A r \in Parts : \A n \in Fragile : Saves(r, n) /\ SavedAs(r, n) # o.to
        => disk'[SavedAs(r, n)] = disk[SavedAs(r, n)]
  BY <1>1, PublishFacts
<1>5. TypeInv /\ BackupInv /\ todo[p] # <<>> /\ ops[p] \in Seq(Op) /\ OpsOK(s, ops[p])
      /\ o.op \in {"put", "backup"} /\ ~KeepsBackup(o)
  BY <1>1, <1>2, AtWork DEF BaseInv, TempOK, Working
<1>6. Kept
  BY <1>2, <1>3 DEF Kept, Whole, Exists
<1>7. Exists(o.to)'
  BY <1>2 DEF Exists, Whole
<1>8. \A r \in Parts : \A n \in Fragile : Saves(r, n) /\ Exists(SavedAs(r, n)) =>
        Exists(SavedAs(r, n))'
  <2> SUFFICES ASSUME NEW r \in Parts, NEW n \in Fragile, Saves(r, n), Exists(SavedAs(r, n))
               PROVE  Exists(SavedAs(r, n))'
    OBVIOUS
  <2>1. CASE SavedAs(r, n) = o.to
    BY <1>2, <2>1 DEF Exists, Whole
  <2>2. CASE SavedAs(r, n) # o.to
    BY <1>4, <2>2 DEF Exists
  <2> QED BY <2>1, <2>2
<1>9. WorkOK(p)'
  <2>1. PICK L \in Seq(Op) : L = ops[p]
    BY <1>5
  <2>2. \A m \in Names : File(m) # Head(L).to => disk'[File(m)] = disk[File(m)]
    BY <1>1, <1>3, <2>1
  <2>3. Exists(Head(L).to)'
    BY <1>1, <1>7, <2>1 DEF Exists
  <2>4. OpsOK(s, Tail(L))'
    BY <1>2, <1>5, <1>8, <2>1, <2>2, <2>3, OpsTail
  <2>5. ops'[p] = Tail(L) /\ todo'[p] = todo[p] /\ pc'[p] = "work"
    BY <1>2, <1>5, <2>1 DEF TypeInv
  <2> QED BY <1>1, <1>5, <2>4, <2>5 DEF WorkOK
<1>10. ASSUME NEW r \in Parts, NEW n \in Fragile, Saves(r, n)
       PROVE  /\ Exists(SavedAs(r, n))' =>
                   disk'[SavedAs(r, n)].kind = "whole" /\ r \notin disk'[SavedAs(r, n)].marks
              /\ r \in Marks(n)' => Exists(SavedAs(r, n))'
  <2>0. n \in Names /\ \A k \in Names : SavedAs(r, n) # File(k)
    BY <1>10, BackupNames DEF Fragile, Names, HubNames
  <2>1. CASE o.op = "backup"
    <3>1. PICK k \in Fragile : /\ s \in Parts /\ Saves(s, k) /\ k \in Writes(s)
                               /\ o.to = SavedAs(s, k) /\ o.from = File(k)
      BY <1>2, <1>5, <2>1, OpTargets
    <3>2. Marks(n)' = Marks(n)
      <4>1. File(n) # o.to
        BY <2>0, <3>1, BackupNames
      <4> QED BY <1>3, <2>0, <4>1 DEF Marks
    <3>3. CASE SavedAs(r, n) = o.to
      <4>1. r = s /\ n = k
        BY <1>10, <3>1, <3>3, BackupNames, ZenonT(60)
      <4>2. s \notin Marks(k)
        BY <1>5, <2>1, <3>1 DEF KeepsBackup, BackupInv
      <4>3. disk'[o.to] = Whole(Marks(k))
        BY <1>2, <2>1, <3>1 DEF Marks
      <4> QED BY <1>7, <3>3, <4>1, <4>2, <4>3 DEF Whole, Exists
    <3>4. CASE SavedAs(r, n) # o.to
      BY <1>4, <1>5, <1>10, <3>2, <3>4 DEF BackupInv, Exists
    <3> QED BY <3>3, <3>4
  <2>2. CASE o.op = "put"
    <3>1. PICK k \in Writes(s) : o.to = File(k) /\ o.marks = NewMarks(s, k)
      BY <1>2, <1>5, <2>2, OpTargets
    <3>2. k \in Names
      BY <3>1, WritesNames
    <3>3. disk'[SavedAs(r, n)] = disk[SavedAs(r, n)]
      BY <1>4, <1>10, <2>0, <3>1, <3>2
    <3>4. r \in Marks(n)' => Exists(SavedAs(r, n))
      <4>1. CASE k # n
        <5>1. Marks(n)' = Marks(n)
          BY <1>3, <2>0, <3>1, <3>2, <4>1, PathFacts DEF Marks
        <5> QED BY <1>5, <1>10, <5>1 DEF BackupInv
      <4>2. CASE k = n
        <5>1. Marks(n)' = NewMarks(s, n)
          BY <1>2, <2>2, <3>1, <4>2 DEF Marks, Whole
        <5>2. s \in Parts
          <6>1. s = "fast" => Writes(s) \cap Fragile = {}
            BY ShardNames DEF Writes, Fragile, QuantParts
          <6>2. s \in RewriteSteps => Writes(s) = {RewriteOf[s].file}
            BY DEF Writes, RewriteSteps, QuantParts
          <6>3. s \in RewriteSteps => RewriteOf[s].file \in {"template", "fast_template"}
            BY RewriteTable DEF RewriteSteps
          <6>4. {"template", "fast_template"} \cap Fragile = {}
            BY ShardNames DEF Fragile
          <6> QED BY <3>1, <4>2, <6>1, <6>2, <6>3, <6>4 DEF Fixed
        <5>3. NewMarks(s, n) \subseteq Marks(n) \cup {s}
          BY <5>2 DEF NewMarks, Declared, Parts, QuantParts, RewriteSteps
        <5>4. CASE r = s
          <6>1. 1 \in DOMAIN ops[p] /\ ops[p][1] = o
            BY <1>1, <1>2, <1>5, TailFacts
          <6>2. ops[p][1].to = File(n)
            BY <3>1, <4>2, <6>1
          <6>3. Exists(SavedAs(s, n)) \/ \E j \in DOMAIN ops[p] : j < 1 /\ ops[p][j].to = SavedAs(s, n)
            BY <1>5, <1>10, <5>2, <5>4, <6>1, <6>2 DEF OpsOK
          <6>4. \A j \in DOMAIN ops[p] : ~(j < 1)
            BY <1>5
          <6> QED BY <5>4, <6>3, <6>4
        <5>5. CASE r # s
          BY <1>5, <1>10, <5>1, <5>3, <5>5 DEF BackupInv
        <5> QED BY <5>4, <5>5
      <4> QED BY <4>1, <4>2
    <3> QED BY <1>5, <1>10, <3>3, <3>4 DEF BackupInv, Exists
  <2> QED BY <1>5, <2>1, <2>2
<1>11. BackupInv'
  BY <1>10 DEF BackupInv
<1>12. pc'[p] = "work" /\ \A q \in Proc : q # p => Same(q)
  BY <1>2, <1>5 DEF TypeInv, Same
<1> QED BY <1>2, <1>6, <1>9, <1>11, <1>12, DiskStep DEF Active, Planned

LEMMA HardLinkFacts ==
  ASSUME BaseInv, NEW p \in Proc, HardLink(p)
  PROVE  /\ pc[p] = "work" /\ pc' = pc /\ lock' = lock /\ todo' = todo
         /\ ops' = [ops EXCEPT ![p] = Tail(ops[p])] /\ ops[p] # <<>>
         /\ todo[p] # <<>> /\ Head(todo[p]) = "fast" /\ Head(ops[p]).to = File("fast_embed")
         /\ disk' = [disk EXCEPT ![File("fast_embed")] = disk[File(EmbedShard)]]
         /\ Intact(EmbedShard)
<1>1. /\ pc[p] = "work" /\ pc' = pc /\ lock' = lock /\ todo' = todo
      /\ ops' = [ops EXCEPT ![p] = Tail(ops[p])] /\ ops[p] # <<>>
      /\ Head(ops[p]).op = "link"
      /\ disk' = [disk EXCEPT ![Head(ops[p]).to] = disk[Head(ops[p]).from]]
  BY DEF HardLink
<1>2. /\ todo[p] # <<>> /\ Head(todo[p]) = "fast" /\ Head(ops[p]).to = File("fast_embed")
      /\ Head(ops[p]).from = File(EmbedShard)
  BY <1>1, AtWork, OpTargets DEF BaseInv, Working
<1>3. Intact(EmbedShard)
  BY <1>1, ShardNames DEF BaseInv, WholeInv, NeedsDownload, Planned
<1> QED BY <1>1, <1>2, <1>3

LEMMA HardLinkBase ==
  ASSUME BaseInv, NEW p \in Proc, HardLink(p)
  PROVE  BaseInv' /\ Kept
<1> DEFINE e == "fast_embed"
<1>1. /\ pc[p] = "work" /\ pc' = pc /\ lock' = lock /\ todo' = todo
      /\ ops' = [ops EXCEPT ![p] = Tail(ops[p])] /\ ops[p] # <<>>
      /\ todo[p] # <<>> /\ Head(todo[p]) = "fast" /\ Head(ops[p]).to = File(e)
      /\ disk' = [disk EXCEPT ![File(e)] = disk[File(EmbedShard)]]
      /\ Intact(EmbedShard)
  BY HardLinkFacts
<1>2. e \in Names /\ File(e) \in Path /\ e \notin Fragile /\ File(EmbedShard) \in Path
  BY PathFacts, ShardNames DEF Names, HubNames, FastNames, Fragile
<1>3. /\ TypeInv /\ BackupInv /\ ops[p] \in Seq(Op) /\ OpsOK("fast", ops[p])
      /\ Tail(ops[p]) \in Seq(Op)
  BY <1>1, AtWork DEF BaseInv, Working
<1>4. TypeInv'
  BY <1>1, <1>2, <1>3 DEF TypeInv
<1>5. \A n \in Names : disk'[File(n)] = IF n = e THEN disk[File(EmbedShard)] ELSE disk[File(n)]
  BY <1>1, <1>2, <1>3, PathFacts DEF TypeInv
<1>6. Kept
  BY <1>1, <1>5 DEF Kept, Exists, Intact
<1>7. \A r \in Parts : \A n \in Fragile :
        Saves(r, n) => disk'[SavedAs(r, n)] = disk[SavedAs(r, n)]
  <2> SUFFICES ASSUME NEW r \in Parts, NEW n \in Fragile, Saves(r, n)
               PROVE  disk'[SavedAs(r, n)] = disk[SavedAs(r, n)]
    OBVIOUS
  <2>1. SavedAs(r, n) # File(e)
    BY <1>2, BackupNames
  <2> QED BY <1>1, <2>1
<1>8. \A n \in Fragile : Marks(n)' = Marks(n)
  BY <1>2, <1>5 DEF Marks, Fragile, Names, HubNames
<1>9. BackupInv'
  BY <1>3, <1>7, <1>8 DEF BackupInv, Exists
<1>10. WorkOK(p)'
  <2>1. PICK L \in Seq(Op) : L = ops[p]
    BY <1>3
  <2>2. \A m \in Names : File(m) # Head(L).to => disk'[File(m)] = disk[File(m)]
    BY <1>1, <1>5, <2>1
  <2>3. Exists(Head(L).to)'
    BY <1>1, <1>2, <1>5, <2>1 DEF Exists, Intact
  <2>4. \A r \in Parts : \A n \in Fragile : Saves(r, n) /\ Exists(SavedAs(r, n)) =>
          Exists(SavedAs(r, n))'
    BY <1>7 DEF Exists
  <2>5. "fast" \in Fixed
    BY DEF Fixed
  <2>6. OpsOK("fast", Tail(L))'
    BY <1>1, <1>3, <2>1, <2>2, <2>3, <2>4, <2>5, OpsTail
  <2>7. ops'[p] = Tail(L) /\ todo'[p] = todo[p] /\ pc'[p] = "work"
    BY <1>1, <1>3, <2>1 DEF TypeInv
  <2> QED BY <1>1, <2>5, <2>6, <2>7 DEF WorkOK
<1> QED BY <1>1, <1>3, <1>4, <1>6, <1>9, <1>10, DiskStep DEF Same, Active, Planned

LEMMA BaseStep ==
  ASSUME BaseInv, [Next]_vars
  PROVE  BaseInv' /\ Kept
<1>1. ASSUME disk' = disk PROVE Kept
  BY <1>1 DEF Kept, Exists
<1>2. CASE UNCHANGED vars
  <2>1. disk' = disk /\ lock' = lock /\ pc' = pc /\ todo' = todo /\ ops' = ops
    BY <1>2 DEF vars
  <2>2. TypeInv' /\ LockInv' /\ WholeInv'
    BY <2>1, QuietFrame DEF BaseInv, TypeInv, LockInv, WholeInv
  <2>3. TornInv' /\ BackupInv'
    BY <2>1, QuietFrame
  <2>4. OpsInv'
    <3> SUFFICES ASSUME NEW q \in Proc, pc[q] \in Working PROVE WorkOK(q)'
      BY <2>1 DEF OpsInv
    <3>1. WorkOK(q) /\ ops[q] \in Seq(Op)
      BY DEF BaseInv, OpsInv, TypeInv
    <3>2. PICK s \in Fixed, L \in Seq(Op) : s = Head(todo[q]) /\ L = ops[q]
      BY <3>1 DEF WorkOK
    <3>3. OpsOK(s, L)'
      BY <2>1, <3>1, <3>2, QuietFrame DEF WorkOK
    <3>4. pc[q] = "publish" => TempOK(Head(L))'
      BY <2>1, <3>1, <3>2, QuietFrame, HeadTailProperties DEF WorkOK
    <3> QED BY <2>1, <3>1, <3>2, <3>3, <3>4 DEF WorkOK
  <2> QED BY <1>1, <2>1, <2>2, <2>3, <2>4 DEF BaseInv
<1>3. CASE Next
  <2>1. PICK p \in Proc : Start(p) \/ Step(p) \/ Crash(p)
    BY <1>3 DEF Next
  <2> QED BY <1>1, <2>1, QuietActions, FetchBase, DrafterBase, WriteTempBase, PublishBase,
             HardLinkBase DEF Step
<1> QED BY <1>2, <1>3

LEMMA BaseAlways == Spec => []BaseInv
<1> QED BY BaseInit, BaseStep, PTL DEF Spec

\* No file a loader opens is ever cut short by a prepare, for every number of
\* containers and kills, wherever they fall (the temp file and rename of
\* prepare/common.py).
THEOREM WholeFiles == Spec => ReadersSeeWholeFiles
<1>1. BaseInv /\ [Next]_vars
        => [\A n \in Names : disk[File(n)].kind # "torn"
                              => disk'[File(n)].kind # "torn"]_disk
  BY BaseStep DEF Kept
<1> QED BY <1>1, BaseAlways, PTL DEF Spec, ReadersSeeWholeFiles

\* Whatever part a shard, config.json or the index holds, the file as it was
\* before is next to it, complete (backup_once), also after a recovery
\* download was cut short.
THEOREM Undoable == Spec => []OriginalsKept
<1>1. BaseInv => OriginalsKept
  <2> SUFFICES ASSUME BaseInv, NEW s \in Parts
               PROVE  /\ s \in Marks(ShardOf[s]) =>
                           LET b == disk[BackupOf(ShardOf[s], BackupSuffix[s])]
                           IN b.kind = "whole" /\ s \notin b.marks
                      /\ \A n \in {"config", "index"} :
                           s \in Marks(n) /\ s \in DOMAIN MetaSuffix =>
                             LET b == disk[BackupOf(n, MetaSuffix[s])]
                             IN b.kind = "whole" /\ s \notin b.marks
    BY DEF OriginalsKept
  <2>1. \A n \in Fragile : Saves(s, n) /\ s \in Marks(n) =>
          disk[SavedAs(s, n)].kind = "whole" /\ s \notin disk[SavedAs(s, n)].marks
    BY DEF BaseInv, BackupInv
  <2>2. /\ ShardOf[s] \in Fragile /\ Saves(s, ShardOf[s])
        /\ SavedAs(s, ShardOf[s]) = BackupOf(ShardOf[s], BackupSuffix[s])
    BY ShardNames DEF Fragile, Shards, Saves, SavedAs, SuffixFor
  <2>3. ASSUME NEW n \in {"config", "index"}, s \in DOMAIN MetaSuffix
        PROVE  n \in Fragile /\ Saves(s, n) /\ SavedAs(s, n) = BackupOf(n, MetaSuffix[s])
    BY <2>3 DEF Fragile, Saves, SavedAs, SuffixFor
  <2> QED BY <2>1, <2>2, <2>3
<1> QED BY <1>1, BaseAlways, PTL

-----------------------------------------------------------------------------
(* The plan of a run.                                                      *)

Sorted(T, lo, hi) ==
  /\ T \in Seq(Steps)
  /\ \A i \in DOMAIN T : lo <= Rank(T[i]) /\ Rank(T[i]) <= hi
  /\ \A i, j \in DOMAIN T : i < j => Rank(T[i]) < Rank(T[j])

LEMMA Ranks ==
  /\ Rank("lm_head") = 1 /\ Rank("embed") = 2 /\ Rank("mtp") = 3 /\ Rank("draft") = 4
  /\ Rank("fast") = 5 /\ Rank("dflash2") = 6 /\ Rank("harden") = 7
  /\ Rank("harden_fast") = 8 /\ Rank("translate") = 9 /\ Rank("translate_fast") = 10
  /\ Steps = {"lm_head", "embed", "mtp", "draft", "fast", "dflash2", "harden",
              "harden_fast", "translate", "translate_fast"}
  /\ \A s \in Steps : Rank(s) \in 1..10
<1>1. /\ Rank("lm_head") = 1 /\ Rank("embed") = 2 /\ Rank("mtp") = 3 /\ Rank("draft") = 4
      /\ Rank("fast") = 5
  BY DEF Rank
<1>2. /\ Rank("dflash2") = 6 /\ Rank("harden") = 7
      /\ Rank("harden_fast") = 8 /\ Rank("translate") = 9 /\ Rank("translate_fast") = 10
  BY DEF Rank
<1>3. Steps = {"lm_head", "embed", "mtp", "draft", "fast", "dflash2", "harden",
               "harden_fast", "translate", "translate_fast"}
  BY DEF Steps, Fixed, Parts, QuantParts, RewriteSteps
<1> QED BY <1>1, <1>2, <1>3

LEMMA SortedJoin ==
  ASSUME NEW lo \in Nat, NEW mid \in Nat, NEW mid2 \in Nat, NEW hi \in Nat,
         lo <= mid, mid < mid2, mid2 <= hi,
         NEW a, NEW b, Sorted(a, lo, mid), Sorted(b, mid2, hi)
  PROVE  /\ Sorted(a \o b, lo, hi)
         /\ \A x : In(x, a \o b) <=> In(x, a) \/ In(x, b)
<1>1. a \in Seq(Steps) /\ b \in Seq(Steps) /\ Len(a) \in Nat /\ Len(b) \in Nat
      /\ DOMAIN a = 1..Len(a) /\ DOMAIN b = 1..Len(b)
  BY LenProperties DEF Sorted
<1>2. /\ a \o b \in Seq(Steps) /\ DOMAIN (a \o b) = 1..(Len(a) + Len(b))
      /\ \A i \in 1..(Len(a) + Len(b)) :
           (a \o b)[i] = IF i <= Len(a) THEN a[i] ELSE b[i - Len(a)]
  BY <1>1, ConcatProperties, LenProperties
<1> DEFINE c == a \o b
<1>3. \A i \in DOMAIN c : \/ i \in DOMAIN a /\ c[i] = a[i]
                          \/ i > Len(a) /\ i - Len(a) \in DOMAIN b /\ c[i] = b[i - Len(a)]
  BY <1>1, <1>2
<1>4. (\A i \in DOMAIN a : i \in DOMAIN c /\ c[i] = a[i])
      /\ \A i \in DOMAIN b : i + Len(a) \in DOMAIN c /\ c[i + Len(a)] = b[i]
  <2>1. \A i \in DOMAIN a : i \in DOMAIN c /\ c[i] = a[i]
    BY <1>1, <1>2
  <2>2. ASSUME NEW i \in DOMAIN b
        PROVE  i + Len(a) \in DOMAIN c /\ c[i + Len(a)] = b[i]
    <3>1. i + Len(a) \in 1..(Len(a) + Len(b)) /\ ~(i + Len(a) <= Len(a))
          /\ (i + Len(a)) - Len(a) = i
      BY <1>1
    <3> QED BY <1>2, <3>1
  <2> QED BY <2>1, <2>2
<1>5. \A s \in Steps : Rank(s) \in Nat
  BY Ranks
<1> HIDE DEF c
<1>6. \A i \in DOMAIN c : lo <= Rank(c[i]) /\ Rank(c[i]) <= hi
  <2> SUFFICES ASSUME NEW i \in DOMAIN c PROVE lo <= Rank(c[i]) /\ Rank(c[i]) <= hi
    OBVIOUS
  <2>1. CASE i \in DOMAIN a /\ c[i] = a[i]
    <3>1. a[i] \in Steps /\ lo <= Rank(a[i]) /\ Rank(a[i]) <= mid
      BY <1>1, <2>1, ElementOfSeq DEF Sorted
    <3> QED BY <1>5, <2>1, <3>1
  <2>2. CASE i - Len(a) \in DOMAIN b /\ c[i] = b[i - Len(a)]
    <3>1. b[i - Len(a)] \in Steps /\ mid2 <= Rank(b[i - Len(a)]) /\ Rank(b[i - Len(a)]) <= hi
      BY <1>1, <2>2, ElementOfSeq DEF Sorted
    <3> QED BY <1>5, <2>2, <3>1
  <2> QED BY <1>3, <2>1, <2>2
<1>7. \A i, j \in DOMAIN c : i < j => Rank(c[i]) < Rank(c[j])
  <2> SUFFICES ASSUME NEW i \in DOMAIN c, NEW j \in DOMAIN c, i < j
               PROVE  Rank(c[i]) < Rank(c[j])
    OBVIOUS
  <2>0. i \in Int /\ j \in Int
    BY <1>1, <1>2 DEF c
  <2>1. CASE j \in DOMAIN a /\ c[j] = a[j]
    <3>1. i \in DOMAIN a /\ c[i] = a[i]
      BY <1>1, <1>3, <2>0, <2>1
    <3> QED BY <2>1, <3>1 DEF Sorted
  <2>2. CASE j > Len(a) /\ j - Len(a) \in DOMAIN b /\ c[j] = b[j - Len(a)]
    <3>1. CASE i \in DOMAIN a /\ c[i] = a[i]
      <4>1. a[i] \in Steps /\ b[j - Len(a)] \in Steps
        BY <1>1, <2>2, <3>1, ElementOfSeq
      <4>2. Rank(a[i]) <= mid /\ mid2 <= Rank(b[j - Len(a)])
        BY <2>2, <3>1 DEF Sorted
      <4> QED BY <1>5, <2>2, <3>1, <4>1, <4>2
    <3>2. CASE i - Len(a) \in DOMAIN b /\ c[i] = b[i - Len(a)]
      <4>1. i - Len(a) < j - Len(a)
        BY <1>1, <2>0
      <4> QED BY <2>2, <3>2, <4>1 DEF Sorted
    <3> QED BY <1>3, <3>1, <3>2
  <2> QED BY <1>3, <2>1, <2>2
<1>8. ASSUME NEW x PROVE In(x, c) <=> In(x, a) \/ In(x, b)
  BY <1>3, <1>4 DEF In
<1>9. c \in Seq(Steps)
  BY <1>2 DEF c
<1>10. Sorted(c, lo, hi) /\ \A x : In(x, c) <=> In(x, a) \/ In(x, b)
  BY <1>6, <1>7, <1>8, <1>9 DEF Sorted
<1> QED BY <1>10 DEF c

LEMMA SortedIf ==
  ASSUME NEW c, NEW s \in Steps
  PROVE  /\ Sorted(If(c, s), Rank(s), Rank(s))
         /\ \A x : In(x, If(c, s)) <=> c /\ x = s
<1>1. Rank(s) \in Nat
  BY Ranks
<1>2. CASE c
  <2>1. If(c, s) = <<s>>
    BY <1>2 DEF If
  <2>2. /\ <<s>> \in Seq(Steps) /\ DOMAIN <<s>> = {1} /\ <<s>>[1] = s
    OBVIOUS
  <2>3. Sorted(<<s>>, Rank(s), Rank(s))
    BY <1>1, <2>2 DEF Sorted
  <2>4. \A x : In(x, <<s>>) <=> x = s
    BY <2>2 DEF In
  <2> QED BY <1>2, <2>1, <2>3, <2>4
<1>3. CASE ~c
  <2>1. If(c, s) = <<>>
    BY <1>3 DEF If
  <2> QED BY <1>1, <1>3, <2>1 DEF Sorted, In
<1> QED BY <1>2, <1>3

\* What the plan of a run lists, in order.
LEMMA PlanList ==
  LET T == Pending \o Dflash2 \o Rewrites
  IN /\ Sorted(T, 1, 10)
     /\ \A s \in QuantParts : In(s, T) <=> s \notin Committed
     /\ In("draft", T) <=> "draft" \notin Committed \/ ~Exists(File("vocab"))
     /\ In("fast", T) <=> FastVariant /\ ~FastIndex
     /\ \A r \in RewriteSteps : In(r, T)
     /\ Pending = <<>> => /\ Committed = Parts /\ Exists(File("vocab"))
                          /\ FastVariant => FastIndex
<1> DEFINE i1 == If("lm_head" \notin Committed, "lm_head")
           i2 == If("embed" \notin Committed, "embed")
           i3 == If("mtp" \notin Committed, "mtp")
           i4 == If("draft" \notin Committed \/ ~Exists(File("vocab")), "draft")
           i5 == If(FastVariant /\ ~FastIndex, "fast")
           i6 == Dflash2
           i7 == Rewrites
<1>1. Pending = i1 \o i2 \o i3 \o i4 \o i5
  BY DEF Pending, FastIndex
<1>2. /\ Sorted(i1, 1, 1) /\ Sorted(i2, 2, 2) /\ Sorted(i3, 3, 3) /\ Sorted(i4, 4, 4)
      /\ Sorted(i5, 5, 5) /\ Sorted(i6, 6, 6)
  BY SortedIf, Ranks DEF Dflash2
<1>3. /\ \A x : In(x, i1) <=> "lm_head" \notin Committed /\ x = "lm_head"
      /\ \A x : In(x, i2) <=> "embed" \notin Committed /\ x = "embed"
      /\ \A x : In(x, i3) <=> "mtp" \notin Committed /\ x = "mtp"
  BY SortedIf, Ranks
<1>4. /\ \A x : In(x, i4) <=> ("draft" \notin Committed \/ ~Exists(File("vocab"))) /\ x = "draft"
      /\ \A x : In(x, i5) <=> (FastVariant /\ ~FastIndex) /\ x = "fast"
      /\ \A x : In(x, i6) => x = "dflash2"
  BY SortedIf, Ranks DEF Dflash2
<1>5. Sorted(i7, 7, 10) /\ \A x : In(x, i7) <=> x \in RewriteSteps
  <2>1. Rewrites \in Seq(Steps)
    BY PlanType
  <2>2. /\ DOMAIN Rewrites = 1..4 /\ Rewrites[1] = "harden" /\ Rewrites[2] = "harden_fast"
        /\ Rewrites[3] = "translate" /\ Rewrites[4] = "translate_fast"
    BY DEF Rewrites
  <2>3. \A x : In(x, i7) <=> x \in RewriteSteps
    BY <2>2 DEF In, RewriteSteps
  <2>4. \A i \in 1..4 : Rank(Rewrites[i]) = 6 + i
    BY <2>2, Ranks
  <2> QED BY <2>1, <2>2, <2>3, <2>4 DEF Sorted
<1> HIDE DEF i1, i2, i3, i4, i5, i6, i7
<1>6. Sorted(i1 \o i2, 1, 2) /\ \A x : In(x, i1 \o i2) <=> In(x, i1) \/ In(x, i2)
  BY <1>2, SortedJoin
<1>7. Sorted(i1 \o i2 \o i3, 1, 3) /\ \A x : In(x, i1 \o i2 \o i3) <=> In(x, i1 \o i2) \/ In(x, i3)
  BY <1>2, <1>6, SortedJoin
<1>8. Sorted(i1 \o i2 \o i3 \o i4, 1, 4)
      /\ \A x : In(x, i1 \o i2 \o i3 \o i4) <=> In(x, i1 \o i2 \o i3) \/ In(x, i4)
  BY <1>2, <1>7, SortedJoin
<1>9. Sorted(Pending, 1, 5)
      /\ \A x : In(x, Pending) <=> In(x, i1 \o i2 \o i3 \o i4) \/ In(x, i5)
  BY <1>1, <1>2, <1>8, SortedJoin
<1>10. Sorted(Pending \o i6, 1, 6)
       /\ \A x : In(x, Pending \o i6) <=> In(x, Pending) \/ In(x, i6)
  BY <1>2, <1>9, SortedJoin
<1>11. Sorted(Pending \o i6 \o i7, 1, 10)
       /\ \A x : In(x, Pending \o i6 \o i7) <=> In(x, Pending \o i6) \/ In(x, i7)
  BY <1>5, <1>10, SortedJoin
<1>12. \A x : In(x, Pending) <=> \/ In(x, i1) \/ In(x, i2) \/ In(x, i3) \/ In(x, i4) \/ In(x, i5)
  BY <1>6, <1>7, <1>8, <1>9
<1>13. Pending = <<>> => \A x : ~In(x, Pending)
  BY DEF In
<1>14. Pending = <<>> => /\ Committed = Parts /\ Exists(File("vocab"))
                         /\ FastVariant => FastIndex
  <2> SUFFICES ASSUME Pending = <<>>
               PROVE  Committed = Parts /\ Exists(File("vocab")) /\ (FastVariant => FastIndex)
    OBVIOUS
  <2>1. \A x \in Parts : x \in Committed
    BY <1>3, <1>4, <1>12, <1>13 DEF Parts, QuantParts
  <2> QED BY <1>4, <1>12, <1>13, <2>1 DEF Committed
<1>15. \A x : In(x, Pending \o i6 \o i7) <=> \/ In(x, Pending) \/ In(x, i6) \/ x \in RewriteSteps
  BY <1>5, <1>10, <1>11
<1>16. \A s \in QuantParts : In(s, Pending \o i6 \o i7) <=> s \notin Committed
  BY <1>3, <1>4, <1>12, <1>15 DEF QuantParts, RewriteSteps
<1>17. In("draft", Pending \o i6 \o i7) <=> "draft" \notin Committed \/ ~Exists(File("vocab"))
  BY <1>3, <1>4, <1>12, <1>15 DEF RewriteSteps
<1>18. In("fast", Pending \o i6 \o i7) <=> FastVariant /\ ~FastIndex
  BY <1>3, <1>4, <1>12, <1>15 DEF RewriteSteps
<1> QED BY <1>11, <1>14, <1>15, <1>16, <1>17, <1>18 DEF i6, i7

-----------------------------------------------------------------------------
(* LandedInv: what is said of the files a step leaves alone.               *)

Core == Names \ DrafterNames

\* The files but for a fetched drafter are what they were.
Untouched == /\ \A n \in Core : disk'[File(n)] = disk[File(n)]
             /\ \A n \in DrafterNames : disk'[File(n)] \in {disk[File(n)], Whole({})}

LEMMA CoreNames ==
  /\ HubNames \subseteq Core /\ FastNames \subseteq Core /\ "vocab" \in Core
  /\ Fragile \subseteq Core /\ \A s \in Parts : ShardOf[s] \in Core
  /\ {"config", "index", "tokenizer", "template", "fast_embed", "fast_template",
      "fast_tensors", "fast_index", "extra"} \subseteq Core
  /\ \A r \in RewriteSteps : RewriteOf[r].file \in {"template", "fast_template"}
<1>1. Core = (HubNames \cup FastNames \cup {"vocab"}) \ DrafterNames
  BY DEF Core, Names
<1>2. (HubNames \cup FastNames \cup {"vocab"}) \cap DrafterNames = {}
  BY ShardNames DEF HubNames, FastNames, DrafterNames
<1>3. Core = HubNames \cup FastNames \cup {"vocab"}
  BY <1>1, <1>2
<1>4. \A s \in Parts : ShardOf[s] \in Shards
  BY DEF Shards
<1>5. \A r \in RewriteSteps : RewriteOf[r].file \in {"template", "fast_template"}
  BY RewriteTable DEF RewriteSteps
<1> QED BY <1>3, <1>4, <1>5, ShardNames DEF HubNames, FastNames, Fragile

LEMMA Frame ==
  ASSUME Untouched
  PROVE  /\ \A n \in Core : /\ Marks(n)' = Marks(n) /\ (Exists(File(n))' <=> Exists(File(n)))
                            /\ Intact(n)' <=> Intact(n)
         /\ Committed' = Committed /\ (FastIndex' <=> FastIndex)
         /\ (NeedsDownload' <=> NeedsDownload) /\ (Unpacked' <=> Unpacked)
         /\ (IndexHolds' <=> IndexHolds) /\ (PrefixInv => PrefixInv')
         /\ Prepared => Prepared'
         /\ \A r \in RewriteSteps : IsRewritten(r)' <=> IsRewritten(r)
         /\ \A s \in Fixed : /\ IsDone(s)' <=> IsDone(s)
                             /\ \A L \in Seq(Op) : Covers(s, L) => Covers(s, L)'
         /\ \A T \in Seq(Steps) : TodoOK(T) => TodoOK(T)'
<1>1. \A n \in Core : /\ Marks(n)' = Marks(n) /\ (Exists(File(n))' <=> Exists(File(n)))
                      /\ Intact(n)' <=> Intact(n)
  BY DEF Untouched, Marks, Exists, Intact
<1>2. Committed' = Committed /\ (FastIndex' <=> FastIndex)
  BY <1>1, CoreNames DEF Committed, FastIndex
<1>3. (NeedsDownload' <=> NeedsDownload) /\ (Unpacked' <=> Unpacked)
  BY <1>1, CoreNames DEF NeedsDownload, Unpacked, HubNames
<1>4. IndexHolds' <=> IndexHolds
  BY <1>1, <1>2, CoreNames DEF IndexHolds, Committed
<1>5. PrefixInv => PrefixInv'
  BY <1>2 DEF PrefixInv, Before
<1>6. Pending' = Pending
  BY <1>1, <1>2, CoreNames DEF Pending, If, FastIndex
<1>7. ASSUME Prepared PROVE Prepared'
  <2>1. \A n \in Names : Exists(File(n))' => Intact(n)'
    <3> SUFFICES ASSUME NEW n \in Names, Exists(File(n))' PROVE Intact(n)'
      OBVIOUS
    <3>1. Exists(File(n)) => Intact(n)
      BY <1>7 DEF Prepared
    <3>2. CASE n \in Core
      BY <1>1, <3>1, <3>2
    <3>3. CASE n \in DrafterNames
      BY <3>1, <3>3 DEF Untouched, Whole, Exists, Intact
    <3> QED BY <3>2, <3>3 DEF Core
  <2>2. \A n \in {"template", "fast_template"} :
          Exists(File(n))' => Rewritten \subseteq Marks(n)'
    BY <1>1, <1>7, CoreNames DEF Prepared
  <2> QED BY <1>3, <1>4, <1>6, <1>7, <2>1, <2>2 DEF Prepared
<1>8. \A r \in RewriteSteps : IsRewritten(r)' <=> IsRewritten(r)
  BY <1>1, CoreNames DEF IsRewritten
<1>9. \A s \in Fixed : IsDone(s)' <=> IsDone(s)
  BY <1>2, <1>8 DEF IsDone, Fixed
<1>10. ASSUME NEW s \in Fixed, NEW L \in Seq(Op), Covers(s, L)
       PROVE  Covers(s, L)'
  <2>1. Needs(s) \subseteq Core
    BY CoreNames DEF Needs, Fixed, Parts, QuantParts
  <2>2. \A n \in Core : IsThere(s, n)' <=> IsThere(s, n)
    BY <1>1 DEF IsThere
  <2> QED BY <1>10, <2>1, <2>2 DEF Covers
<1>11. \A T \in Seq(Steps) : TodoOK(T) => TodoOK(T)'
  BY <1>2, <1>8 DEF TodoOK
<1> QED BY <1>1, <1>2, <1>3, <1>4, <1>5, <1>7, <1>8, <1>9, <1>10, <1>11

\* What is left to show for a step of p that leaves the files alone, and
\* neither starts nor ends a download.
LEMMA QuietLanded ==
  ASSUME BaseInv, LandedInv, Untouched, NEW p \in Proc, \A q \in Proc : q # p => Same(q),
         pc[p] # "download", pc'[p] # "download",
         pc'[p] = "done" => pc[p] = "done" \/ (Prepared /\ ~Downloading),
         PlanOK(p)'
  PROVE  LandedInv'
<1>1. Downloading' <=> Downloading
  BY DEF Downloading, Same
<1>2. Usable' <=> Usable
  BY <1>1, Frame DEF Usable
<1>3. PrefixInv' /\ IndexTruthful' /\ FirstInv'
  BY <1>1, <1>2, Frame DEF LandedInv, IndexTruthful, FirstInv
<1>4. FastInv'
  BY <1>2, Frame, CoreNames DEF LandedInv, FastInv
<1>5. ReadyInv'
  <2>1. Ready' => Ready \/ (Prepared /\ ~Downloading)
    BY DEF Ready, Same
  <2> QED BY <1>1, <2>1, Frame DEF LandedInv, ReadyInv
<1>6. PlanInv'
  <2> SUFFICES ASSUME NEW q \in Proc, q # p PROVE PlanOK(q)'
    BY DEF PlanInv
  <2>1. Same(q) /\ PlanOK(q) /\ todo[q] \in Seq(Steps) /\ ops[q] \in Seq(Op)
    BY DEF LandedInv, PlanInv, BaseInv, TypeInv
  <2>2. PICK T \in Seq(Steps), L \in Seq(Op) : T = todo[q] /\ L = ops[q]
    BY <2>1
  <2>3. pc[q] \in Planned => TodoOK(T)'
    BY <2>1, <2>2, Frame DEF PlanOK
  <2>4. \A s \in Parts \cup {"fast"} : IsDone(s)' <=> IsDone(s)
    BY Frame DEF Fixed
  <2>5. pc[q] \in Working => StepOK(Head(T), L)'
    <3> SUFFICES ASSUME pc[q] \in Working PROVE StepOK(Head(T), L)'
      OBVIOUS
    <3>1. PICK s \in Fixed : s = Head(T)
      BY <2>2 DEF BaseInv, OpsInv, WorkOK
    <3>2. StepOK(s, L)
      BY <2>1, <2>2, <3>1 DEF PlanOK
    <3>3. StepOK(s, L)'
      BY <3>2, Frame DEF StepOK
    <3> QED BY <3>1, <3>3
  <2> QED BY <2>1, <2>2, <2>3, <2>4, <2>5 DEF PlanOK, Same
<1> QED BY <1>3, <1>4, <1>5, <1>6 DEF LandedInv

LEMMA LandedInit == Init => LandedInv
<1> SUFFICES ASSUME Init PROVE LandedInv
  OBVIOUS
<1>1. StartOK
  BY FreshVolume, DamagedVolume DEF Init
<1>2. \A p \in Proc : pc[p] = "down"
  BY DEF Init
<1>3. ~Downloading /\ ~Ready /\ PlanInv
  BY <1>2 DEF Downloading, Ready, PlanInv, PlanOK, Planned, Working
<1>4. FastInv
  BY <1>1 DEF StartOK, FastInv, FastIndex, FastNames
<1> QED BY <1>1, <1>3, <1>4 DEF StartOK, LandedInv, IndexTruthful, FirstInv, ReadyInv

\* Nobody else has a plan, or is done, while a prepare downloads.
LEMMA DownloadAlone ==
  ASSUME BaseInv, LandedInv, NEW p \in Proc, pc[p] = "download"
  PROVE  /\ Downloading /\ ~Usable /\ ~FastIndex /\ ~Ready
         /\ \A q \in Proc : pc[q] \notin Planned
         /\ ~LegacyDisk => Unpacked
<1>1. Downloading /\ ~Usable
  BY DEF Downloading, Usable
<1>2. ~FastIndex /\ ~Ready /\ (~LegacyDisk => Unpacked)
  BY <1>1 DEF LandedInv, FastInv, ReadyInv, FirstInv
<1>3. \A q \in Proc : pc[q] \notin Planned
  BY Alone DEF BaseInv, Planned, Active
<1> QED BY <1>1, <1>2, <1>3

\* The plan is right when it is made.
LEMMA PlanMade ==
  ASSUME TypeInv, IndexHolds, disk' = disk, NEW p \in Proc, pc'[p] = "next",
         todo'[p] = Pending \o Dflash2 \o Rewrites
  PROVE  PlanOK(p)'
<1>1. PICK T : T = Pending \o Dflash2 \o Rewrites
  OBVIOUS
<1>2. /\ Sorted(T, 1, 10)
      /\ \A s \in QuantParts : In(s, T) <=> s \notin Committed
      /\ In("draft", T) <=> "draft" \notin Committed \/ ~Exists(File("vocab"))
      /\ In("fast", T) <=> FastVariant /\ ~FastIndex
      /\ \A r \in RewriteSteps : In(r, T)
  BY <1>1, PlanList
<1>3. "draft" \in Committed => Exists(File("vocab"))
  BY DEF IndexHolds
<1>4. \A s \in Parts : In(s, T) <=> s \notin Committed
  BY <1>2, <1>3 DEF Parts
<1>5. T \in Seq(Steps) /\ TodoOK(T)
  BY <1>2, <1>4 DEF Sorted, TodoOK
<1>6. \A i \in DOMAIN T : T[i] \in Parts \cup {"fast"} => ~IsDone(T[i])
  BY <1>2, <1>4 DEF In, IsDone, Parts, QuantParts
<1>7. Untouched
  BY DEF Untouched, Core
<1>8. TodoOK(T)' /\ \A s \in Parts \cup {"fast"} : IsDone(s)' <=> IsDone(s)
  BY <1>5, <1>7, Frame DEF Fixed
<1> QED BY <1>1, <1>6, <1>8 DEF PlanOK, Planned, Working

LEMMA CheckLanded ==
  ASSUME BaseInv, LandedInv, NEW p \in Proc, Check(p)
  PROVE  LandedInv'
<1>1. disk' = disk /\ pc[p] = "check" /\ TypeInv
  BY DEF Check, BaseInv
<1>2. Untouched
  BY <1>1 DEF Untouched, Core
<1>3. \A q \in Proc : pc[q] # "download" /\ pc[q] \notin Planned
  BY <1>1, Alone DEF BaseInv, Active, Planned
<1>4. ~Downloading
  BY <1>3 DEF Downloading
<1>5. CASE NeedsDownload
  <2>1. pc' = [pc EXCEPT ![p] = "download"] /\ todo' = todo /\ ops' = ops
    BY <1>5 DEF Check, Goto
  <2>2. ~FastIndex /\ ~Ready /\ (~LegacyDisk => Unpacked)
    BY <1>5 DEF LandedInv, FastInv, ReadyInv, FirstInv, Usable, Prepared
  <2>3. Downloading' /\ ~Ready'
    BY <1>1, <2>1, <2>2 DEF Downloading, Ready, TypeInv
  <2>4. PlanInv'
    BY <1>1, <1>3, <2>1 DEF PlanInv, PlanOK, TypeInv, Planned, Working
  <2>5. FastInv'
    BY <1>2, <2>2, Frame, CoreNames DEF LandedInv, FastInv
  <2>6. PrefixInv' /\ (~LegacyDisk => Unpacked')
    BY <1>2, <2>2, Frame DEF LandedInv
  <2> QED BY <2>3, <2>4, <2>5, <2>6 DEF LandedInv, IndexTruthful, ReadyInv, FirstInv
<1>6. CASE ~NeedsDownload
  <2>1. /\ pc' = [pc EXCEPT ![p] = "next"] /\ ops' = ops
        /\ todo' = [todo EXCEPT ![p] = Pending \o Dflash2 \o Rewrites]
    BY <1>6 DEF Check, Plan, Goto
  <2>2. /\ pc'[p] = "next" /\ todo'[p] = Pending \o Dflash2 \o Rewrites
        /\ \A q \in Proc : q # p => Same(q)
    BY <1>1, <2>1 DEF TypeInv, Same
  <2>3. IndexHolds
    BY <1>4 DEF LandedInv, IndexTruthful
  <2>4. PlanOK(p)'
    BY <1>1, <2>2, <2>3, PlanMade
  <2> QED BY <1>1, <1>2, <2>2, <2>4, QuietLanded
<1> QED BY <1>5, <1>6

LEMMA DownloadedLanded ==
  ASSUME BaseInv, LandedInv, NEW p \in Proc, Downloaded(p)
  PROVE  LandedInv' /\ Usable' /\ ~FastIndex' /\ Committed' = {}
<1>1. disk' = disk /\ pc[p] = "download" /\ TypeInv
  BY DEF Downloaded, BaseInv
<1>2. \A n \in HubNames : disk[File(n)] = [kind |-> "whole", marks |-> {}]
  BY DEF Downloaded, Stale, Whole
<1>3. Committed = {} /\ Unpacked /\ ~NeedsDownload
  BY <1>2 DEF HubNames, Committed, Marks, Unpacked, NeedsDownload, Exists, Intact
<1>4. ~FastIndex /\ ~Ready /\ \A q \in Proc : pc[q] \notin Planned
  BY <1>1, DownloadAlone
<1>5. /\ pc' = [pc EXCEPT ![p] = "next"] /\ ops' = ops
      /\ todo' = [todo EXCEPT ![p] = Pending \o Dflash2 \o Rewrites]
  BY <1>3 DEF Downloaded, Plan, Goto
<1>6. Untouched
  BY <1>1 DEF Untouched, Core
<1>7. IndexHolds
  BY <1>3, <1>4 DEF IndexHolds, FastIndex
<1>8. ~Downloading'
  BY <1>1, <1>5, Alone DEF Downloading, TypeInv, BaseInv, Active
<1>9. Usable' /\ ~FastIndex' /\ Committed' = {} /\ IndexHolds' /\ PrefixInv'
  BY <1>3, <1>4, <1>6, <1>7, <1>8, Frame DEF Usable, LandedInv
<1>10. FastInv'
  BY <1>6, <1>9, Frame, CoreNames DEF LandedInv, FastInv
<1>11. ~Ready'
  BY <1>1, <1>4, <1>5 DEF Ready, TypeInv
<1>12. PlanInv'
  <2>1. pc'[p] = "next" /\ todo'[p] = Pending \o Dflash2 \o Rewrites
    BY <1>1, <1>5 DEF TypeInv
  <2>2. PlanOK(p)'
    BY <1>1, <1>7, <2>1, PlanMade
  <2>3. \A q \in Proc : q # p => pc'[q] \notin Planned
    BY <1>1, <1>4, <1>5 DEF TypeInv
  <2> QED BY <2>2, <2>3 DEF PlanInv, PlanOK, Planned, Working
<1> QED BY <1>9, <1>10, <1>11, <1>12 DEF LandedInv, IndexTruthful, FirstInv, ReadyInv

LEMMA FetchLanded ==
  ASSUME BaseInv, LandedInv, NEW p \in Proc, Fetch(p)
  PROVE  LandedInv'
<1>1. pc' = pc /\ pc[p] = "download" /\ TypeInv /\ todo' = todo /\ ops' = ops
  BY DEF Fetch, BaseInv
<1>2. PICK n \in HubNames : disk' = [disk EXCEPT ![File(n)] = [kind |-> "whole", marks |-> {}]]
  BY DEF Fetch, Stale, Whole
<1>3. ~FastIndex /\ ~Ready /\ (~LegacyDisk => Unpacked) /\ \A q \in Proc : pc[q] \notin Planned
  BY <1>1, DownloadAlone
<1>4. \A m \in Names : disk'[File(m)] = IF m = n THEN [kind |-> "whole", marks |-> {}] ELSE disk[File(m)]
  BY <1>1, <1>2, PathFacts DEF TypeInv, Names
<1>5. Downloading' /\ ~Ready' /\ PlanInv'
  BY <1>1, <1>3 DEF Downloading, Ready, PlanInv, PlanOK, Planned, Working
<1>6. Marks("index")' \in {Marks("index"), {}}
  BY <1>4 DEF Marks, Names, HubNames
<1>7. PrefixInv'
  <2>1. Committed' \in {Committed, {}}
    BY <1>6 DEF Committed
  <2>2. Before(0) = {} /\ \A k \in 0..4 : Before(k)' = Before(k)
    BY DEF Before
  <2> QED BY <2>1, <2>2 DEF LandedInv, PrefixInv
<1>8. \A m \in FastNames : disk'[File(m)] = disk[File(m)]
  BY <1>4, ShardNames DEF Names, HubNames, FastNames
<1>9. FastInv'
  BY <1>3, <1>8 DEF FastNames, FastIndex, Exists, Intact, Marks, LandedInv, FastInv
<1>10. Unpacked => Unpacked'
  BY <1>4 DEF Unpacked, Marks, Names, HubNames
<1> QED BY <1>3, <1>5, <1>7, <1>9, <1>10 DEF LandedInv, IndexTruthful, FirstInv, ReadyInv

\* A step that is done may be dropped from the plan.
LEMMA TodoTail ==
  ASSUME NEW T \in Seq(Steps), T # <<>>, TodoOK(T), Head(T) \in Fixed => IsDone(Head(T))
  PROVE  TodoOK(Tail(T))
<1>1. PICK U \in Seq(Steps) : U = Tail(T)
  BY TailFacts
<1>2. /\ Head(T) = T[1] /\ 1 \in DOMAIN T /\ T[1] \in Steps
      /\ \A i \in DOMAIN U : i \in Int /\ i + 1 \in DOMAIN T /\ U[i] = T[i + 1] /\ 1 < i + 1
      /\ \A i \in DOMAIN T : i = 1 \/ (i - 1 \in DOMAIN U /\ T[i] = U[i - 1])
  <2>1. 1 \in DOMAIN T /\ T[1] \in Steps /\ Head(T) = T[1]
    BY TailFacts, ElementOfSeq
  <2>2. \A i \in DOMAIN U : i \in Int /\ i + 1 \in DOMAIN T /\ U[i] = T[i + 1] /\ 1 < i + 1
    BY <1>1, TailFacts
  <2>3. \A i \in DOMAIN T : i = 1 \/ i > 1
    OBVIOUS
  <2>4. \A i \in DOMAIN T : i > 1 => (i - 1 \in DOMAIN U /\ T[i] = U[i - 1])
    BY <1>1, TailFacts
  <2> QED BY <2>1, <2>2, <2>3, <2>4
<1>3. \A x : In(x, T) /\ x # T[1] => In(x, U)
  BY <1>2 DEF In
<1>4. \A x : In(x, U) => In(x, T)
  BY <1>2 DEF In
<1>5. \A i, j \in DOMAIN U : i < j => Rank(U[i]) < Rank(U[j])
  <2> SUFFICES ASSUME NEW i \in DOMAIN U, NEW j \in DOMAIN U, i < j
               PROVE  Rank(U[i]) < Rank(U[j])
    OBVIOUS
  <2>1. i + 1 \in DOMAIN T /\ j + 1 \in DOMAIN T /\ i + 1 < j + 1
    BY <1>2
  <2> QED BY <1>2, <2>1 DEF TodoOK
<1>6. \A s \in Parts : s \notin Committed => In(s, U)
  <2> SUFFICES ASSUME NEW s \in Parts, s \notin Committed PROVE In(s, U)
    OBVIOUS
  <2>1. s \in Fixed /\ ~IsDone(s)
    BY DEF Fixed, IsDone, Parts, QuantParts
  <2> QED BY <1>2, <1>3, <2>1 DEF TodoOK
<1>7. FastVariant /\ ~FastIndex => In("fast", U)
  <2>1. "fast" \in Fixed /\ (IsDone("fast") <=> FastIndex)
    BY DEF Fixed, IsDone, Parts, QuantParts
  <2> QED BY <1>2, <1>3, <2>1 DEF TodoOK
<1>8. \A r \in RewriteSteps : ~IsRewritten(r) => In(r, U)
  <2>1. \A r \in RewriteSteps : r \in Fixed /\ (IsDone(r) <=> IsRewritten(r))
    BY DEF Fixed, IsDone, Parts, QuantParts, RewriteSteps
  <2> QED BY <1>2, <1>3, <2>1 DEF TodoOK
<1>9. U # <<>> => \A r \in RewriteSteps : Rank(U[1]) <= Rank(r) => In(r, U)
  <2> SUFFICES ASSUME U # <<>>, NEW r \in RewriteSteps, Rank(U[1]) <= Rank(r)
               PROVE  In(r, U)
    OBVIOUS
  <2>1. 1 \in DOMAIN U /\ 2 \in DOMAIN T /\ U[1] = T[2] /\ U[1] \in Steps
    BY <1>1, <1>2, TailFacts, ElementOfSeq
  <2>2. Rank(T[1]) < Rank(T[2])
    BY <1>2, <2>1 DEF TodoOK
  <2>3. r \in Steps
    BY DEF Steps, Fixed
  <2>4. Rank(T[1]) <= Rank(r) /\ r # T[1]
    BY <1>2, <2>1, <2>2, <2>3, Ranks
  <2> QED BY <1>3, <2>4 DEF TodoOK
<1> QED BY <1>1, <1>4, <1>5, <1>6, <1>7, <1>8, <1>9 DEF TodoOK

\* A backup is never the last operation, and never one the commit relies on.
LEMMA BackupTail ==
  ASSUME TypeInv, NEW s \in Fixed, NEW L \in Seq(Op), L # <<>>, OpsOK(s, L),
         Head(L).op = "backup", StepOK(s, L)
  PROVE  StepOK(s, Tail(L))
<1>1. /\ Head(L) = L[1] /\ 1 \in DOMAIN L /\ (Tail(L) = <<>> <=> Len(L) = 1)
      /\ \A i \in DOMAIN L : i = 1 \/ (i - 1 \in DOMAIN Tail(L) /\ L[i] = Tail(L)[i - 1])
  <2>1. \A i \in DOMAIN L : i = 1 \/ i > 1
    OBVIOUS
  <2> QED BY <2>1, TailFacts
<1>2. Puts(s, L[1]) \/ BacksUp(s, L[1]) \/ Links(s, L[1])
  BY <1>1 DEF OpsOK
<1>3. PICK n \in Fragile : s \in Parts /\ Saves(s, n) /\ L[1].to = SavedAs(s, n)
  BY <1>1, <1>2, OpTargets
<1>4. \A k \in Names : L[1].to # File(k)
  BY <1>3, BackupNames
<1>5. CommitOf(s) \in Names /\ Needs(s) \subseteq Names
  BY <1>3, CoreNames DEF CommitOf, Needs, Core, Parts, QuantParts
<1>6. Tail(L) # <<>>
  BY <1>1, <1>4, <1>5 DEF OpsOK
<1>7. Covers(s, Tail(L))
  BY <1>1, <1>4, <1>5 DEF StepOK, Covers
<1> QED BY <1>6, <1>7 DEF StepOK

LEMMA WaitLanded ==
  ASSUME BaseInv, LandedInv, NEW p \in Proc, Start(p) \/ Acquire(p) \/ GiveUp(p)
  PROVE  LandedInv'
<1>1. BaseInv' /\ disk' = disk /\ TypeInv
  BY QuietActions DEF BaseInv
<1>2. Untouched
  BY <1>1 DEF Untouched, Core
<1>3. /\ pc[p] \notin {"download", "next", "work", "publish"}
      /\ pc'[p] \in {"lock", "check", "failed"}
      /\ \A q \in Proc : q # p => Same(q)
  BY <1>1 DEF Start, Acquire, GiveUp, Exit, Goto, TypeInv, Same
<1>4. PlanOK(p)'
  BY <1>3 DEF PlanOK, Planned, Working
<1> QED BY <1>2, <1>3, <1>4, QuietLanded

LEMMA BeginLanded ==
  ASSUME BaseInv, LandedInv, NEW p \in Proc, Begin(p)
  PROVE  LandedInv'
<1>1. BaseInv' /\ disk' = disk /\ TypeInv /\ BackupInv
  BY QuietActions DEF BaseInv
<1>2. Untouched
  BY <1>1 DEF Untouched, Core
<1>3. todo[p] \in Seq(Steps) /\ todo[p] # <<>> /\ pc[p] = "next" /\ Head(todo[p]) # "dflash2"
  BY <1>1 DEF Begin, TypeInv
<1>4. PICK T \in Seq(Steps) : T = todo[p]
  BY <1>3
<1>5. 1 \in DOMAIN T /\ T[1] \in Fixed /\ Head(T) = T[1]
  BY <1>3, <1>4, TailFacts, ElementOfSeq DEF Steps
<1>6. PICK s \in Fixed : s = T[1]
  BY <1>5
<1>7. CASE CanRun(s)
  <2>1. pc' = [pc EXCEPT ![p] = "work"] /\ ops' = [ops EXCEPT ![p] = OpsOf(s)] /\ todo' = todo
    BY <1>4, <1>5, <1>6, <1>7 DEF Begin, Goto
  <2>2. pc'[p] = "work" /\ ops'[p] = OpsOf(s) /\ todo'[p] = T
    BY <1>1, <1>4, <2>1 DEF TypeInv
  <2>3. \A q \in Proc : q # p => Same(q)
    BY <1>1, <2>1 DEF TypeInv, Same
  <2>4. /\ TodoOK(T)
        /\ \A i \in DOMAIN T : T[i] \in Parts \cup {"fast"} => ~IsDone(T[i])
    BY <1>3, <1>4 DEF LandedInv, PlanInv, PlanOK, Planned
  <2>5. StepOK(s, OpsOf(s))
    <3>1. CASE s \in QuantParts
      <4>1. OpsOf(s) = QuantOps(s) /\ s \in Parts
        BY <3>1 DEF OpsOf, Parts, QuantParts
      <4> QED BY <1>1, <1>5, <1>6, <2>4, <3>1, <4>1, QuantStart DEF StepOK
    <3>2. CASE s = "draft"
      <4>1. OpsOf(s) = DraftOps /\ s \in Parts
        BY <3>2 DEF OpsOf, Parts, QuantParts
      <4> QED BY <1>1, <1>5, <1>6, <2>4, <3>2, <4>1, DraftStart DEF StepOK
    <3>3. CASE s = "fast"
      <4>1. OpsOf(s) = FastOps
        BY <3>3 DEF OpsOf, QuantParts
      <4> QED BY <1>1, <1>5, <1>6, <2>4, <3>3, <4>1, FastStart DEF StepOK
    <3>4. CASE s \in RewriteSteps
      <4>1. /\ OpsOf(s) = RewriteOps(s) /\ Needs(s) = {} /\ (IsDone(s) <=> IsRewritten(s))
        BY <3>4 DEF OpsOf, Needs, IsDone, RewriteSteps, Parts, QuantParts
      <4>2. RewriteOps(s) = <<>> <=> IsRewritten(s)
        BY DEF RewriteOps, If, IsRewritten
      <4> QED BY <4>1, <4>2 DEF StepOK, Covers
    <3> QED BY <3>1, <3>2, <3>3, <3>4 DEF Fixed, Parts
  <2>6. PICK L \in Seq(Op) : L = OpsOf(s)
    BY <1>1, OpsStart
  <2>7. TodoOK(T)' /\ StepOK(s, L)' /\ \A x \in Parts \cup {"fast"} : IsDone(x)' <=> IsDone(x)
    <3>1. StepOK(s, L)
      BY <2>5, <2>6
    <3>2. TodoOK(T)' /\ \A x \in Fixed : IsDone(x)' <=> IsDone(x)
      BY <1>2, <2>4, Frame
    <3>3. Covers(s, L)'
      BY <1>2, <3>1, Frame DEF StepOK
    <3> QED BY <3>1, <3>2, <3>3 DEF StepOK, Fixed
  <2>8. PlanOK(p)'
    <3>1. ops'[p] = L /\ Head(todo'[p]) = s
      BY <1>5, <1>6, <2>2, <2>6
    <3> QED BY <2>2, <2>4, <2>7, <3>1 DEF PlanOK, Planned, Working
  <2> QED BY <1>2, <1>3, <2>2, <2>3, <2>8, QuietLanded
<1>8. CASE ~CanRun(s)
  <2>1. Exit(p, "failed")
    BY <1>4, <1>5, <1>6, <1>8 DEF Begin
  <2>2. pc'[p] = "failed" /\ \A q \in Proc : q # p => Same(q)
    BY <1>1, <2>1, ExitKept
  <2>3. PlanOK(p)'
    BY <2>2 DEF PlanOK, Planned, Working
  <2> QED BY <1>2, <1>3, <2>2, <2>3, QuietLanded
<1> QED BY <1>7, <1>8

LEMMA EndLanded ==
  ASSUME BaseInv, LandedInv, NEW p \in Proc, EndStep(p) \/ EndDrafter(p)
  PROVE  LandedInv'
<1>1. BaseInv' /\ disk' = disk /\ TypeInv
  BY QuietActions DEF BaseInv
<1>2. Untouched
  BY <1>1 DEF Untouched, Core
<1>3. /\ pc[p] \in {"work", "next"} /\ pc' = [pc EXCEPT ![p] = "next"] /\ ops' = ops
      /\ todo' = [todo EXCEPT ![p] = Tail(todo[p])] /\ todo[p] # <<>>
  <2>1. CASE EndStep(p)
    BY <2>1 DEF EndStep, Goto, BaseInv, OpsInv, WorkOK, Working
  <2>2. CASE EndDrafter(p)
    BY <1>1, <2>2 DEF EndDrafter, TypeInv
  <2> QED BY <2>1, <2>2
<1>4. PICK T \in Seq(Steps) : T = todo[p]
  BY <1>1 DEF TypeInv
<1>5. /\ TodoOK(T)
      /\ \A i \in DOMAIN T : T[i] \in Parts \cup {"fast"} /\ i > 1 => ~IsDone(T[i])
  BY <1>3, <1>4 DEF LandedInv, PlanInv, PlanOK, Planned
<1>6. Head(T) \in Fixed => IsDone(Head(T))
  <2>1. CASE EndStep(p)
    <3>1. StepOK(Head(T), ops[p]) /\ ops[p] = <<>>
      BY <1>4, <2>1 DEF EndStep, LandedInv, PlanInv, PlanOK, Working
    <3> QED BY <3>1 DEF StepOK
  <2>2. CASE EndDrafter(p)
    BY <1>4, <2>2 DEF EndDrafter, Fixed, Parts, QuantParts, RewriteSteps
  <2> QED BY <2>1, <2>2
<1>7. PICK U \in Seq(Steps) : U = Tail(T)
  BY <1>3, <1>4, TailFacts
<1>8. TodoOK(U)' /\ \A x \in Parts \cup {"fast"} : IsDone(x)' <=> IsDone(x)
  BY <1>2, <1>3, <1>4, <1>5, <1>6, <1>7, TodoTail, Frame DEF Fixed
<1>9. \A i \in DOMAIN U : U[i] \in Parts \cup {"fast"} => ~IsDone(U[i])
  <2>1. \A i \in DOMAIN U : i + 1 \in DOMAIN T /\ U[i] = T[i + 1] /\ i + 1 > 1
    BY <1>3, <1>4, <1>7, TailFacts
  <2> QED BY <1>5, <2>1
<1>10. pc'[p] = "next" /\ todo'[p] = U /\ \A q \in Proc : q # p => Same(q)
  BY <1>1, <1>3, <1>4, <1>7 DEF TypeInv, Same
<1>11. PlanOK(p)'
  BY <1>8, <1>9, <1>10 DEF PlanOK, Planned, Working
<1> QED BY <1>2, <1>3, <1>10, <1>11, QuietLanded

\* The plan and the list of a prepare at work.
LEMMA WorkPlan ==
  ASSUME BaseInv, LandedInv, NEW p \in Proc, pc[p] \in Working
  PROVE  /\ todo[p] \in Seq(Steps) /\ todo[p] # <<>> /\ Head(todo[p]) \in Fixed
         /\ Head(todo[p]) = todo[p][1] /\ 1 \in DOMAIN todo[p]
         /\ ops[p] \in Seq(Op) /\ OpsOK(Head(todo[p]), ops[p])
         /\ StepOK(Head(todo[p]), ops[p]) /\ TodoOK(todo[p])
         /\ \A i \in DOMAIN todo[p] : todo[p][i] \in Parts \cup {"fast"} /\ i > 1 => ~IsDone(todo[p][i])
<1>1. WorkOK(p) /\ PlanOK(p) /\ todo[p] \in Seq(Steps) /\ ops[p] \in Seq(Op)
  BY DEF BaseInv, OpsInv, TypeInv, LandedInv, PlanInv
<1> QED BY <1>1, TailFacts DEF WorkOK, PlanOK, Planned, Working

LEMMA SkipLanded ==
  ASSUME BaseInv, LandedInv, NEW p \in Proc, SkipBackup(p)
  PROVE  LandedInv'
<1>1. BaseInv' /\ disk' = disk /\ TypeInv
  BY QuietActions DEF BaseInv
<1>2. Untouched
  BY <1>1 DEF Untouched, Core
<1>3. /\ pc[p] = "work" /\ pc' = pc /\ todo' = todo /\ ops[p] # <<>>
      /\ ops' = [ops EXCEPT ![p] = Tail(ops[p])] /\ Head(ops[p]).op = "backup"
  BY DEF SkipBackup, KeepsBackup
<1>4. PICK T \in Seq(Steps), L \in Seq(Op) : T = todo[p] /\ L = ops[p]
  BY <1>3, WorkPlan DEF Working
<1>5. PICK s \in Fixed : s = Head(T)
  BY <1>3, <1>4, WorkPlan DEF Working
<1>6. /\ OpsOK(s, L) /\ StepOK(s, L) /\ TodoOK(T)
      /\ \A i \in DOMAIN T : T[i] \in Parts \cup {"fast"} /\ i > 1 => ~IsDone(T[i])
  BY <1>3, <1>4, <1>5, WorkPlan DEF Working
<1>7. StepOK(s, Tail(L))
  BY <1>1, <1>3, <1>4, <1>6, BackupTail
<1>8. PICK K \in Seq(Op) : K = Tail(L)
  BY <1>3, <1>4, TailFacts
<1>9. TodoOK(T)' /\ StepOK(s, K)' /\ \A x \in Parts \cup {"fast"} : IsDone(x)' <=> IsDone(x)
  <2>1. TodoOK(T)' /\ (\A x \in Fixed : IsDone(x)' <=> IsDone(x)) /\ Covers(s, K)'
    BY <1>2, <1>6, <1>7, <1>8, Frame DEF StepOK
  <2> QED BY <1>7, <1>8, <2>1 DEF StepOK, Fixed
<1>10. pc'[p] = "work" /\ todo'[p] = T /\ ops'[p] = K /\ \A q \in Proc : q # p => Same(q)
  BY <1>1, <1>3, <1>4, <1>8 DEF TypeInv, Same
<1>11. PlanOK(p)'
  BY <1>5, <1>6, <1>9, <1>10 DEF PlanOK, Planned, Working
<1> QED BY <1>2, <1>3, <1>10, <1>11, QuietLanded

LEMMA TempUntouched ==
  ASSUME BaseInv, NEW p \in Proc, WriteTemp(p)
  PROVE  Untouched
<1>1. pc[p] \in Working /\ ops[p] # <<>>
      /\ \E m : disk' = [disk EXCEPT ![Temp(Head(ops[p]).to)] = m]
  BY DEF WriteTemp, Working
<1>2. TypeInv /\ Head(ops[p]).to \in Path
  BY <1>1, AtWork DEF BaseInv, Op
<1>3. \A n \in Names : disk'[File(n)] = disk[File(n)]
  BY <1>1, <1>2, TempPaths
<1> QED BY <1>3 DEF Untouched, Core, Names

LEMMA DrafterUntouched ==
  ASSUME BaseInv, NEW p \in Proc, FetchDrafter(p)
  PROVE  Untouched
<1>1. PICK n \in DrafterNames : disk' = [disk EXCEPT ![File(n)] = Whole({})]
  BY DEF FetchDrafter
<1>2. n \in Names /\ File(n) \in Path
  BY PathFacts DEF Names
<1>3. \A m \in Names : disk'[File(m)] = IF m = n THEN Whole({}) ELSE disk[File(m)]
  BY <1>1, <1>2, PathFacts DEF BaseInv, TypeInv
<1> QED BY <1>3 DEF Untouched, Core, Names

LEMMA WriteTempLanded ==
  ASSUME BaseInv, LandedInv, NEW p \in Proc, WriteTemp(p)
  PROVE  LandedInv'
<1>1. /\ pc[p] = "work" /\ pc' = [pc EXCEPT ![p] = "publish"] /\ ops[p] # <<>>
      /\ todo' = todo /\ ops' = ops
  BY DEF WriteTemp, Goto
<1>2. TypeInv
  BY DEF BaseInv
<1>3. Untouched
  BY TempUntouched
<1>4. PICK T \in Seq(Steps), L \in Seq(Op) : T = todo[p] /\ L = ops[p]
  BY <1>1, WorkPlan DEF Working
<1>5. PICK s \in Fixed : s = Head(T)
  BY <1>1, <1>4, WorkPlan DEF Working
<1>6. /\ StepOK(s, L) /\ TodoOK(T)
      /\ \A i \in DOMAIN T : T[i] \in Parts \cup {"fast"} /\ i > 1 => ~IsDone(T[i])
  BY <1>1, <1>4, <1>5, WorkPlan DEF Working
<1>7. TodoOK(T)' /\ StepOK(s, L)' /\ \A x \in Parts \cup {"fast"} : IsDone(x)' <=> IsDone(x)
  <2>1. TodoOK(T)' /\ (\A x \in Fixed : IsDone(x)' <=> IsDone(x)) /\ Covers(s, L)'
    BY <1>3, <1>6, Frame DEF StepOK
  <2> QED BY <1>6, <2>1 DEF StepOK, Fixed
<1>8. pc'[p] = "publish" /\ todo'[p] = T /\ ops'[p] = L /\ \A q \in Proc : q # p => Same(q)
  BY <1>1, <1>2, <1>4 DEF TypeInv, Same
<1>9. PlanOK(p)'
  BY <1>5, <1>6, <1>7, <1>8 DEF PlanOK, Planned, Working
<1> QED BY <1>1, <1>3, <1>8, <1>9, QuietLanded

LEMMA DrafterLanded ==
  ASSUME BaseInv, LandedInv, NEW p \in Proc, FetchDrafter(p)
  PROVE  LandedInv'
<1>1. TypeInv /\ pc[p] = "next" /\ pc' = pc /\ todo' = todo /\ ops' = ops
  BY DEF FetchDrafter, BaseInv
<1>2. Untouched
  BY DrafterUntouched
<1>3. PICK T \in Seq(Steps) : T = todo[p]
  BY <1>1 DEF TypeInv
<1>4. /\ TodoOK(T)
      /\ \A i \in DOMAIN T : T[i] \in Parts \cup {"fast"} => ~IsDone(T[i])
  BY <1>1, <1>3 DEF LandedInv, PlanInv, PlanOK, Planned
<1>5. TodoOK(T)' /\ \A x \in Parts \cup {"fast"} : IsDone(x)' <=> IsDone(x)
  BY <1>2, <1>4, Frame DEF Fixed
<1>6. PlanOK(p)' /\ \A q \in Proc : q # p => Same(q)
  BY <1>1, <1>3, <1>4, <1>5 DEF PlanOK, Planned, Working, Same
<1> QED BY <1>1, <1>2, <1>6, QuietLanded

\* What a run that ends well has left on the disk.
LEMMA RecheckLanded ==
  ASSUME BaseInv, LandedInv, NEW p \in Proc, Recheck(p)
  PROVE  LandedInv'
<1>1. BaseInv' /\ disk' = disk /\ TypeInv /\ TornInv
  BY QuietActions DEF BaseInv
<1>2. Untouched
  BY <1>1 DEF Untouched, Core
<1>3. pc[p] = "next" /\ todo[p] = <<>>
      /\ Exit(p, IF NeedsDownload \/ Pending # <<>> THEN "failed" ELSE "done")
  BY DEF Recheck
<1>4. /\ pc'[p] = IF NeedsDownload \/ Pending # <<>> THEN "failed" ELSE "done"
      /\ \A q \in Proc : q # p => Same(q)
  BY <1>1, <1>3, ExitKept
<1>5. ~Downloading
  BY <1>3, Alone DEF BaseInv, Downloading, Active
<1>6. ASSUME pc'[p] = "done" PROVE Prepared
  <2>1. ~NeedsDownload /\ Pending = <<>> /\ IndexHolds
    BY <1>4, <1>5, <1>6 DEF LandedInv, IndexTruthful
  <2>2. \A n \in Names : Exists(File(n)) => Intact(n)
    <3> SUFFICES ASSUME NEW n \in Names, Exists(File(n)) PROVE Intact(n)
      OBVIOUS
    <3>1. CASE n \in Fragile
      BY <2>1, <3>1 DEF NeedsDownload, Fragile
    <3>2. CASE n \notin Fragile
      <4>1. disk[File(n)].kind \in {"absent", "torn", "whole"}
        BY <1>1, PathFacts DEF TypeInv, FileState
      <4> QED BY <1>1, <3>2, <4>1 DEF TornInv, Exists, Intact
    <3> QED BY <3>1, <3>2
  <2>3. \A r \in RewriteSteps : IsRewritten(r)
    <3>1. TodoOK(<<>>)
      BY <1>3 DEF LandedInv, PlanInv, PlanOK, Planned
    <3>2. \A r : ~In(r, <<>>)
      BY DEF In
    <3> QED BY <3>1, <3>2 DEF TodoOK
  <2>4. \A n \in {"template", "fast_template"} : Exists(File(n)) => Rewritten \subseteq Marks(n)
    BY <2>3, RewriteTable DEF IsRewritten, RewriteSteps, Rewritten
  <2> QED BY <2>1, <2>2, <2>4 DEF Prepared
<1>7. PlanOK(p)'
  BY <1>4 DEF PlanOK, Planned, Working
<1> QED BY <1>2, <1>3, <1>4, <1>5, <1>6, <1>7, QuietLanded

\* A kill in a download leaves a mixture, but of published files only when
\* there is no packed part yet.
LEMMA CrashLanded ==
  ASSUME BaseInv, LandedInv, NoMixture, NEW p \in Proc, Crash(p)
  PROVE  LandedInv'
<1>1. BaseInv' /\ disk' = disk /\ TypeInv
  BY QuietActions DEF BaseInv
<1>2. Untouched
  BY <1>1 DEF Untouched, Core
<1>3. pc'[p] = "down" /\ \A q \in Proc : q # p => Same(q)
  BY <1>1, ExitKept DEF Crash
<1>4. PlanOK(p)'
  BY <1>3 DEF PlanOK, Planned, Working
<1>5. CASE pc[p] # "download"
  BY <1>2, <1>3, <1>4, <1>5, QuietLanded
<1>6. CASE pc[p] = "download"
  <2>1. ~FastIndex /\ ~Ready /\ (\A q \in Proc : pc[q] \notin Planned) /\ (~LegacyDisk => Unpacked)
    BY <1>6, DownloadAlone
  <2>2. Unpacked
    BY <1>6, <2>1, ConstantsOK DEF NoMixture, Crash
  <2>3. IndexHolds
    BY <2>1, <2>2 DEF IndexHolds, FastIndex, Committed, Unpacked
  <2>4. FastInv'
    BY <1>2, <2>1, Frame, CoreNames DEF LandedInv, FastInv
  <2>5. PrefixInv' /\ IndexHolds' /\ Unpacked'
    BY <1>2, <2>2, <2>3, Frame DEF LandedInv
  <2>6. ~Ready' /\ PlanInv'
    BY <1>3, <1>4, <2>1 DEF Ready, PlanInv, PlanOK, Planned, Working, Same
  <2> QED BY <2>4, <2>5, <2>6 DEF LandedInv, IndexTruthful, FirstInv, ReadyInv
<1> QED BY <1>5, <1>6

-----------------------------------------------------------------------------
(* LandedInv: the operations that write a model file.                      *)

\* A prepare that still has an operation to carry out: its step is not done,
\* the parts before it are, and nobody has reported the model ready.
LEMMA Busy ==
  ASSUME BaseInv, LandedInv, NEW p \in Proc, pc[p] \in Working, ops[p] # <<>>
  PROVE  /\ ~IsDone(Head(todo[p])) /\ ~Ready /\ ~Downloading /\ ~NeedsDownload /\ IndexHolds
         /\ \A q \in Proc : q # p => pc[q] \notin Active
         /\ \A s \in Parts : Rank(s) < Rank(Head(todo[p])) => s \in Committed
         /\ \A i \in DOMAIN todo[p] : i > 1 => todo[p][i] # Head(todo[p])
<1>1. PICK T \in Seq(Steps), s \in Fixed : T = todo[p] /\ s = Head(T)
  BY WorkPlan
<1>2. /\ 1 \in DOMAIN T /\ s = T[1] /\ TodoOK(T) /\ ~IsDone(s)
  BY <1>1, WorkPlan DEF StepOK
<1>3. ~Downloading /\ ~NeedsDownload /\ \A q \in Proc : q # p => pc[q] \notin Active
  BY Alone DEF BaseInv, WholeInv, Downloading, Working, Planned, Active
<1>4. IndexHolds
  BY <1>3 DEF LandedInv, IndexTruthful
<1>5. \A i \in DOMAIN T : i > 1 => Rank(s) < Rank(T[i]) /\ T[i] # s
  <2> SUFFICES ASSUME NEW i \in DOMAIN T, i > 1 PROVE Rank(s) < Rank(T[i]) /\ T[i] # s
    OBVIOUS
  <2>1. Rank(s) < Rank(T[i]) /\ s \in Steps
    BY <1>2 DEF TodoOK, Steps
  <2>2. Rank(s) \in Int
    BY <2>1, Ranks
  <2> QED BY <2>1, <2>2
<1>6. ASSUME NEW t \in Parts, Rank(t) < Rank(s) PROVE t \in Committed
  <2> SUFFICES ASSUME In(t, T) PROVE FALSE
    BY <1>2 DEF TodoOK
  <2>1. PICK i \in DOMAIN T : T[i] = t
    BY DEF In
  <2>2. i = 1 \/ i > 1
    OBVIOUS
  <2>3. Rank(s) \in Int /\ Rank(t) \in Int
    BY Ranks DEF Steps, Fixed
  <2> QED BY <1>2, <1>5, <1>6, <2>1, <2>2, <2>3
<1>7. ~Ready
  <2> SUFFICES ASSUME Prepared PROVE IsDone(s)
    BY <1>2 DEF LandedInv, ReadyInv
  <2>1. Committed = Parts /\ (FastVariant => FastIndex)
    BY PlanList DEF Prepared
  <2>2. CASE s \in Parts
    BY <2>1, <2>2 DEF IsDone, Parts, QuantParts
  <2>3. CASE s = "fast"
    <3>1. In(s, T)
      BY <1>2 DEF In
    <3> QED BY <1>2, <2>1, <2>3, <3>1 DEF TodoOK, IsDone, Parts, QuantParts
  <2>4. CASE s \in RewriteSteps
    <3>1. IsRewritten(s)
      BY <2>4, RewriteTable DEF IsRewritten, RewriteSteps, Prepared, Rewritten
    <3> QED BY <2>4, <3>1 DEF IsDone, RewriteSteps, Parts, QuantParts
  <2> QED BY <2>2, <2>3, <2>4 DEF Fixed
<1> QED BY <1>1, <1>2, <1>3, <1>4, <1>5, <1>6, <1>7

\* What is left to show for an operation that writes.
LEMMA BusyStep ==
  ASSUME BaseInv, LandedInv, BaseInv', Kept, NEW p \in Proc, pc[p] \in Working, ops[p] # <<>>,
         pc'[p] = "work", \A q \in Proc : q # p => Same(q),
         NEW T, NEW K, todo'[p] = T, ops'[p] = K,
         PrefixInv', IndexHolds', FastInv', TodoOK(T)', StepOK(Head(T), K)',
         \A i \in DOMAIN T : T[i] \in Parts \cup {"fast"} /\ i > 1 => ~IsDone(T[i])'
  PROVE  LandedInv' /\ Usable'
<1>1. PlanOK(p)'
  BY DEF PlanOK, Planned, Working
<1>2. \A q \in Proc : q # p => pc'[q] \notin Active
  BY Busy DEF Same
<1>3. PlanInv'
  BY <1>1, <1>2 DEF PlanInv, PlanOK, Planned, Working, Active
<1>4. ~Downloading' /\ ~Ready'
  BY <1>2, Busy DEF Downloading, Ready, Active, Same
<1>5. ~NeedsDownload'
  BY Busy, KeptWhole DEF BaseInv
<1> QED BY <1>3, <1>4, <1>5 DEF LandedInv, IndexTruthful, FirstInv, ReadyInv, Usable

\* The commit is the last operation.
LEMMA CommitLast ==
  ASSUME NEW s \in Fixed, NEW L \in Seq(Op), L # <<>>, OpsOK(s, L)
  PROVE  Tail(L) = <<>> <=> Head(L).to = File(CommitOf(s))
<1>1. Len(L) \in Nat \ {0} /\ DOMAIN L = 1..Len(L) /\ Head(L) = L[1] /\ (Tail(L) = <<>> <=> Len(L) = 1)
  BY TailFacts
<1> QED BY <1>1 DEF OpsOK

\* File n, and no other, is written with the marks step s gives it.
Written(s, n) ==
  /\ disk'[File(n)] = Whole(NewMarks(s, n))
  /\ \A m \in Names : m # n => disk'[File(m)] = disk[File(m)]

LEMMA WrittenFacts ==
  ASSUME NEW s, NEW n \in Names, Written(s, n)
  PROVE  /\ Marks(n)' = NewMarks(s, n) /\ Exists(File(n))' /\ Intact(n)'
         /\ \A m \in Names : m # n =>
              /\ Marks(m)' = Marks(m) /\ (Exists(File(m))' <=> Exists(File(m)))
              /\ (Intact(m)' <=> Intact(m))
<1> QED BY DEF Written, Whole, Marks, Exists, Intact

\* What the commit relies on is still there or still to be written.
LEMMA CoversTail ==
  ASSUME NEW s \in Fixed, NEW n \in Writes(s), NEW L \in Seq(Op), L # <<>>, Covers(s, L),
         Head(L).to = File(n), Written(s, n)
  PROVE  Covers(s, Tail(L))'
<1>1. n \in Names /\ Needs(s) \subseteq Names
  BY WritesNames, CoreNames DEF Needs, Core, Parts, QuantParts
<1>2. \A i \in DOMAIN L : i = 1 \/ (i - 1 \in DOMAIN Tail(L) /\ L[i] = Tail(L)[i - 1])
  <2>1. \A i \in DOMAIN L : i = 1 \/ i > 1
    OBVIOUS
  <2> QED BY <2>1, TailFacts
<1>3. PICK K : K = Tail(L)
  OBVIOUS
<1>4. Head(L) = L[1]
  BY TailFacts
<1>5. ASSUME NEW m \in Needs(s)
      PROVE  IsThere(s, m)' \/ \E i \in DOMAIN K : K[i].to = File(m)
  <2>1. CASE m = n
    <3>1. n \notin {"vocab", "fast_embed", "fast_tensors"} => s \in NewMarks(s, n)
      BY <2>1, ShardNames DEF Needs, NewMarks, Declared, Parts, QuantParts, RewriteSteps
    <3> QED BY <1>1, <2>1, <3>1, WrittenFacts DEF IsThere
  <2>2. CASE m # n
    <3>1. IsThere(s, m) => IsThere(s, m)'
      BY <1>1, <2>2, WrittenFacts DEF IsThere
    <3>2. File(m) # File(n)
      BY <1>1, <2>2, PathFacts
    <3> QED BY <1>2, <1>3, <1>4, <3>1, <3>2 DEF Covers
  <2> QED BY <2>1, <2>2
<1>6. Covers(s, K)'
  BY <1>5 DEF Covers
<1> QED BY <1>3, <1>6

\* The three kinds of step, after a write: what holds of the disk and the plan.
Lands(s, n, T) ==
  /\ PrefixInv' /\ IndexHolds' /\ FastInv' /\ TodoOK(T)'
  /\ \A i \in DOMAIN T : T[i] \in Parts \cup {"fast"} /\ i > 1 => ~IsDone(T[i])'
  /\ IsDone(s)' <=> n = CommitOf(s)

\* What BusyStep asks of the plan T, whose first step is s.
PlanAt(s, T) ==
  /\ s = T[1] /\ 1 \in DOMAIN T /\ TodoOK(T) /\ ~IsDone(s)
  /\ \A i \in DOMAIN T : T[i] \in Parts \cup {"fast"} /\ i > 1 => ~IsDone(T[i])
  /\ \A i \in DOMAIN T : i > 1 => T[i] # s
  /\ \A t \in Parts : Rank(t) < Rank(s) => t \in Committed

LEMMA PrefixRank ==
  ASSUME PrefixInv, NEW s \in Parts, s \notin Committed,
         \A t \in Parts : Rank(t) < Rank(s) => t \in Committed
  PROVE  /\ Committed = Before(Rank(s) - 1) /\ Rank(s) \in 1..4
         /\ Committed \cup {s} = Before(Rank(s))
         /\ \A t \in Committed : Rank(t) < Rank(s)
<1>1. PICK k \in 0..4 : Committed = Before(k)
  BY DEF PrefixInv
<1>2. /\ Before(0) = {} /\ Before(1) = {"lm_head"} /\ Before(2) = {"lm_head", "embed"}
      /\ Before(3) = {"lm_head", "embed", "mtp"} /\ Before(4) = {"lm_head", "embed", "mtp", "draft"}
  BY Tables DEF Before
<1>3. s \in {"lm_head", "embed", "mtp", "draft"}
  BY DEF Parts, QuantParts
<1> QED BY <1>1, <1>2, <1>3, Ranks DEF Parts, QuantParts

LEMMA PutPart ==
  ASSUME BaseInv, LandedInv, NEW s \in Parts, NEW n \in Writes(s), NEW T \in Seq(Steps),
         NEW L \in Seq(Op), L # <<>>, PlanAt(s, T), IndexHolds, Written(s, n), Usable', TypeInv',
         Covers(s, L), n = "index" => Tail(L) = <<>> /\ Head(L).to = File("index")
  PROVE  Lands(s, n, T)
<1>1. s \notin Committed /\ CommitOf(s) = "index" /\ "index" \in Names
  BY DEF PlanAt, IsDone, CommitOf, Parts, QuantParts, Names, HubNames
<1>2. /\ Committed = Before(Rank(s) - 1) /\ Rank(s) \in 1..4
      /\ Committed \cup {s} = Before(Rank(s))
      /\ \A t \in Committed : Rank(t) < Rank(s)
  BY <1>1, PrefixRank DEF PlanAt, LandedInv
<1>3. s \in Fixed /\ n \in Names /\ n \in {ShardOf[s], "config", "index", "vocab"}
      /\ ShardOf[s] \in Shards
  BY WritesNames, Tables DEF Writes, Fixed, Parts, QuantParts, Shards
<1>4. /\ Marks(n)' = NewMarks(s, n) /\ Exists(File(n))' /\ Intact(n)'
      /\ \A m \in Names : m # n =>
           /\ Marks(m)' = Marks(m) /\ (Exists(File(m))' <=> Exists(File(m)))
           /\ (Intact(m)' <=> Intact(m))
  BY <1>3, WrittenFacts
<1>5. \A m \in FastNames \cup {"template"} :
        m \in Names /\ m # n
  BY <1>3, ShardNames DEF FastNames, Names, HubNames
<1>6. ~FastIndex /\ ~FastIndex'
  <2>1. ~FastIndex
    BY <1>1 DEF LandedInv, FastInv
  <2> QED BY <1>4, <1>5, <2>1 DEF FastIndex, FastNames
<1>7. Committed' = IF n = "index" THEN Committed \cup {s} ELSE Committed
  <2>1. CASE n = "index"
    <3>1. NewMarks(s, "index") = Marks("index") \cup {s}
      BY DEF NewMarks, Parts, QuantParts, RewriteSteps
    <3> QED BY <1>4, <2>1, <3>1 DEF Committed
  <2>2. CASE n # "index"
    BY <1>1, <1>4, <2>2 DEF Committed
  <2> QED BY <2>1, <2>2
<1>8. PrefixInv'
  <2>1. \A k \in 0..4 : Before(k)' = Before(k)
    BY DEF Before
  <2> QED BY <1>2, <1>7, <2>1 DEF LandedInv, PrefixInv
<1>9. FastInv'
  <2>1. "fast_embed" \in Names /\ "fast_embed" # n
    BY <1>5 DEF FastNames
  <2> QED BY <1>4, <1>6, <2>1 DEF LandedInv, FastInv
<1>10. IndexHolds'
  <2>1. \A t \in Committed : t \in Marks(ShardOf[t])'
    <3> SUFFICES ASSUME NEW t \in Committed PROVE t \in Marks(ShardOf[t])'
      OBVIOUS
    <3>1. t \in Parts /\ ShardOf[t] \in Shards /\ ShardOf[t] \in Names /\ t \in Marks(ShardOf[t])
      BY DEF IndexHolds, Committed, Shards, Names, HubNames
    <3>2. CASE n = ShardOf[t]
      <4>1. n \notin {"config", "vocab"}
        BY <3>1, <3>2, ShardNames
      <4>2. NewMarks(s, n) = Marks(n) \cup {s}
        BY <4>1 DEF NewMarks, Parts, QuantParts, RewriteSteps
      <4> QED BY <1>4, <3>1, <3>2, <4>2
    <3>3. CASE n # ShardOf[t]
      BY <1>4, <3>1, <3>3
    <3> QED BY <3>2, <3>3
  <2>2. \A t \in Committed : t \in QuantParts => t \in Marks("config")'
    <3> SUFFICES ASSUME NEW t \in Committed, t \in QuantParts PROVE t \in Marks("config")'
      OBVIOUS
    <3>1. t \in Marks("config") /\ "config" \in Names
      BY DEF IndexHolds, Names, HubNames
    <3>2. CASE n = "config"
      <4>1. s \in QuantParts /\ NewMarks(s, n) = Declared(s)
        BY <3>2, ShardNames DEF Writes, NewMarks, Parts, QuantParts, RewriteSteps
      <4>2. s = "lm_head" => t # "mtp"
        BY <1>2, Ranks
      <4> QED BY <1>4, <3>1, <3>2, <4>1, <4>2 DEF Declared
    <3>3. CASE n # "config"
      BY <1>4, <3>1, <3>3
    <3> QED BY <3>2, <3>3
  <2>3. "draft" \in Committed => Exists(File("vocab"))'
    BY <1>4 DEF IndexHolds, Names
  <2>4. n = "index" => /\ s \in Marks(ShardOf[s])' /\ (s \in QuantParts => s \in Marks("config")')
                       /\ s = "draft" => Exists(File("vocab"))'
    <3> SUFFICES ASSUME n = "index"
                 PROVE  /\ s \in Marks(ShardOf[s])' /\ (s \in QuantParts => s \in Marks("config")')
                        /\ s = "draft" => Exists(File("vocab"))'
      OBVIOUS
    <3>1. \A i \in DOMAIN L : L[i].to = File("index")
      <4>1. DOMAIN L = {1} /\ Head(L) = L[1]
        BY TailFacts
      <4> QED BY <4>1
    <3>2. Needs(s) \subseteq Names \ {"index"}
      BY <1>3, ShardNames, Tables, ZenonT(60) DEF Needs, Names, HubNames, Parts, QuantParts
    <3>3. \A m \in Needs(s) : IsThere(s, m)
      <4>1. \A m \in Needs(s) : File("index") # File(m)
        BY <1>1, <3>2, PathFacts
      <4> QED BY <3>1, <4>1 DEF Covers
    <3>4. ShardOf[s] \in Needs(s) /\ ShardOf[s] \notin {"vocab", "fast_embed", "fast_tensors"}
      BY <1>3, ShardNames, Tables DEF Needs, Parts, QuantParts
    <3>5. s \in Marks(ShardOf[s]) /\ ShardOf[s] \in Names /\ ShardOf[s] # n
      BY <3>2, <3>3, <3>4 DEF IsThere
    <3>6. s \in QuantParts => s \in Marks("config") /\ "config" \in Names /\ "config" # n
      <4>1. s \in QuantParts => "config" \in Needs(s)
        BY DEF Needs, QuantParts
      <4> QED BY <3>2, <3>3, <4>1 DEF IsThere
    <3>7. s = "draft" => Exists(File("vocab")) /\ "vocab" \in Names /\ "vocab" # n
      BY <3>2, <3>3 DEF IsThere, Needs, QuantParts
    <3> QED BY <1>4, <3>5, <3>6, <3>7
  <2> QED BY <1>6, <1>7, <2>1, <2>2, <2>3, <2>4 DEF IndexHolds, FastIndex
<1>11. \A r \in RewriteSteps : IsRewritten(r)' <=> IsRewritten(r)
  BY <1>4, <1>5, CoreNames DEF IsRewritten, FastNames
<1>12. TodoOK(T)'
  BY <1>6, <1>7, <1>11 DEF PlanAt, TodoOK
<1>13. \A i \in DOMAIN T : T[i] \in Parts \cup {"fast"} /\ i > 1 => ~IsDone(T[i])'
  <2> SUFFICES ASSUME NEW i \in DOMAIN T, T[i] \in Parts \cup {"fast"}, i > 1
               PROVE  ~IsDone(T[i])'
    OBVIOUS
  <2>1. PICK t \in Parts \cup {"fast"} : t = T[i] /\ t # s /\ ~IsDone(t)
    BY DEF PlanAt
  <2>2. ~IsDone(t)'
    BY <1>6, <1>7, <2>1 DEF IsDone, Parts, QuantParts
  <2> QED BY <2>1, <2>2
<1>14. IsDone(s)' <=> n = CommitOf(s)
  BY <1>1, <1>7 DEF IsDone, Parts, QuantParts
<1> QED BY <1>8, <1>9, <1>10, <1>12, <1>13, <1>14 DEF Lands

LEMMA PutFast ==
  ASSUME BaseInv, LandedInv, NEW n \in Writes("fast"), NEW T \in Seq(Steps),
         NEW L \in Seq(Op), L # <<>>, PlanAt("fast", T), IndexHolds, Written("fast", n), Usable',
         TypeInv', TornInv', Covers("fast", L),
         n = "fast_index" => Tail(L) = <<>> /\ Head(L).to = File("fast_index")
  PROVE  Lands("fast", n, T)
<1>1. /\ ~FastIndex /\ CommitOf("fast") = "fast_index" /\ Committed = Parts
      /\ "fast" \in Fixed
  <2>1. \A t \in Parts : Rank(t) < Rank("fast")
    BY Ranks DEF Parts, QuantParts
  <2> QED BY <2>1 DEF PlanAt, IsDone, CommitOf, Parts, QuantParts, Committed, Fixed
<1>2. n \in {"fast_template", "fast_tensors", "fast_index"} /\ n \in Names
  BY WritesNames, <1>1 DEF Writes, QuantParts
<1>3. /\ Marks(n)' = NewMarks("fast", n) /\ Exists(File(n))' /\ Intact(n)'
      /\ \A m \in Names : m # n =>
           /\ Marks(m)' = Marks(m) /\ (Exists(File(m))' <=> Exists(File(m)))
           /\ (Intact(m)' <=> Intact(m))
  BY <1>2, WrittenFacts
<1>4. \A m \in HubNames \cup {"vocab", "fast_embed"} : m \in Names /\ m # n
  BY <1>2, ShardNames DEF HubNames, Names, FastNames
<1>5. {"fast_embed", "fast_tensors", "fast_index"} \subseteq Names
  BY DEF Names, FastNames
<1>6. Committed' = Committed /\ (FastIndex' <=> n = "fast_index")
  BY <1>1, <1>3, <1>4, <1>5 DEF Committed, FastIndex, HubNames
<1>7. PrefixInv'
  BY <1>6 DEF LandedInv, PrefixInv, Before
<1>8. n = "fast_index" =>
        Exists(File("fast_embed"))' /\ Exists(File("fast_tensors"))' /\ Intact("fast_tensors")'
  <2> SUFFICES ASSUME n = "fast_index"
               PROVE  Exists(File("fast_embed"))' /\ Exists(File("fast_tensors"))'
                      /\ Intact("fast_tensors")'
    OBVIOUS
  <2>1. \A i \in DOMAIN L : L[i].to = File("fast_index")
    <3>1. DOMAIN L = {1} /\ Head(L) = L[1]
      BY TailFacts
    <3> QED BY <3>1
  <2>2. Needs("fast") = {"fast_embed", "fast_tensors"}
    BY DEF Needs, QuantParts
  <2>3. Exists(File("fast_embed")) /\ Exists(File("fast_tensors"))
    <3>1. \A m \in Needs("fast") : File("fast_index") # File(m)
      BY <1>5, <2>2, PathFacts
    <3>2. \A m \in Needs("fast") : IsThere("fast", m)
      BY <2>1, <3>1 DEF Covers
    <3> QED BY <2>2, <3>2 DEF IsThere
  <2>4. Exists(File("fast_embed"))' /\ Exists(File("fast_tensors"))'
    BY <1>3, <1>5, <2>3
  <2>5. disk'[File("fast_tensors")].kind \in {"absent", "torn", "whole"}
    BY <1>5, PathFacts DEF TypeInv, FileState
  <2>6. "fast_tensors" \notin Fragile
    BY ShardNames DEF Fragile
  <2> QED BY <1>5, <2>4, <2>5, <2>6 DEF TornInv, Exists, Intact
<1>9. FastInv'
  BY <1>1, <1>3, <1>4, <1>6, <1>8 DEF LandedInv, FastInv
<1>10. IndexHolds'
  <2>1. \A s \in Committed : ShardOf[s] \in HubNames
    BY DEF Committed, Shards, HubNames
  <2> QED BY <1>3, <1>4, <1>6, <1>8, <1>9, <2>1 DEF IndexHolds, FastInv, FastIndex, HubNames
<1>11. TodoOK(T)'
  <2>1. \A r \in RewriteSteps : In(r, T)
    <3>1. \A r \in RewriteSteps : Rank(T[1]) <= Rank(r)
      BY Ranks DEF PlanAt, RewriteSteps
    <3> QED BY <3>1 DEF PlanAt, TodoOK
  <2>2. In("fast", T)
    BY DEF PlanAt, In
  <2> QED BY <1>6, <2>1, <2>2 DEF PlanAt, TodoOK
<1>12. \A i \in DOMAIN T : T[i] \in Parts \cup {"fast"} /\ i > 1 => ~IsDone(T[i])'
  <2> SUFFICES ASSUME NEW i \in DOMAIN T, T[i] \in Parts \cup {"fast"}, i > 1
               PROVE  FALSE
    OBVIOUS
  <2>1. T[i] \in Parts /\ ~IsDone(T[i])
    BY DEF PlanAt
  <2> QED BY <1>1, <2>1 DEF IsDone, Parts, QuantParts
<1>13. IsDone("fast")' <=> n = CommitOf("fast")
  BY <1>1, <1>6 DEF IsDone, Parts, QuantParts
<1> QED BY <1>7, <1>9, <1>10, <1>11, <1>12, <1>13 DEF Lands

LEMMA PutRewrite ==
  ASSUME BaseInv, LandedInv, NEW s \in RewriteSteps, NEW n \in Writes(s), NEW T \in Seq(Steps),
         PlanAt(s, T), IndexHolds, Written(s, n), Usable'
  PROVE  Lands(s, n, T)
<1>1. n = RewriteOf[s].file /\ CommitOf(s) = n /\ n \in {"template", "fast_template"} /\ n \in Names
  BY RewriteTable DEF Writes, CommitOf, RewriteSteps, Parts, QuantParts, Names, HubNames, FastNames
<1>2. /\ Marks(n)' = NewMarks(s, n) /\ Exists(File(n))' /\ Intact(n)'
      /\ \A m \in Names : m # n =>
           /\ Marks(m)' = Marks(m) /\ (Exists(File(m))' <=> Exists(File(m)))
           /\ (Intact(m)' <=> Intact(m))
  BY <1>1, WrittenFacts
<1>3. \A m \in {"config", "index", "vocab", "fast_embed", "fast_tensors", "fast_index"} \cup Shards :
        m \in Names /\ m # n
  BY <1>1, ShardNames DEF Names, HubNames, FastNames
<1>4. Committed' = Committed /\ (FastIndex' <=> FastIndex)
  BY <1>2, <1>3 DEF Committed, FastIndex
<1>5. PrefixInv'
  BY <1>4 DEF LandedInv, PrefixInv, Before
<1>6. FastInv'
  BY <1>2, <1>3, <1>4 DEF LandedInv, FastInv
<1>7. IndexHolds'
  <2>1. \A t \in Committed : ShardOf[t] \in Shards
    BY DEF Committed, Shards
  <2> QED BY <1>2, <1>3, <1>4, <2>1 DEF IndexHolds, FastIndex
<1>8. NewMarks(s, n) = Marks(n) \cup {RewriteOf[s].mark}
  BY <1>1 DEF NewMarks, RewriteSteps, Parts, QuantParts
<1>9. Exists(File(n))
  BY <1>1 DEF PlanAt, IsDone, IsRewritten, RewriteSteps, Parts, QuantParts
<1>10. \A r \in RewriteSteps : IsRewritten(r) => IsRewritten(r)'
  <2> SUFFICES ASSUME NEW r \in RewriteSteps, IsRewritten(r) PROVE IsRewritten(r)'
    OBVIOUS
  <2>1. RewriteOf[r].file \in Names
    BY CoreNames DEF Names, HubNames, FastNames
  <2>2. CASE RewriteOf[r].file = n
    BY <1>2, <1>8, <1>9, <2>2 DEF IsRewritten
  <2>3. CASE RewriteOf[r].file # n
    BY <1>2, <2>1, <2>3 DEF IsRewritten
  <2> QED BY <2>2, <2>3
<1>11. TodoOK(T)'
  BY <1>4, <1>10 DEF PlanAt, TodoOK
<1>12. \A i \in DOMAIN T : T[i] \in Parts \cup {"fast"} /\ i > 1 => ~IsDone(T[i])'
  <2> SUFFICES ASSUME NEW i \in DOMAIN T, T[i] \in Parts \cup {"fast"}, i > 1
               PROVE  ~IsDone(T[i])'
    OBVIOUS
  <2>1. PICK t \in Parts \cup {"fast"} : t = T[i] /\ ~IsDone(t)
    BY DEF PlanAt
  <2>2. ~IsDone(t)'
    BY <1>4, <2>1 DEF IsDone, Parts, QuantParts
  <2> QED BY <2>1, <2>2
<1>13. IsDone(s)' <=> n = CommitOf(s)
  <2>1. IsDone(s)' <=> IsRewritten(s)'
    BY DEF IsDone, RewriteSteps, Parts, QuantParts
  <2> QED BY <1>1, <1>2, <1>8, <2>1 DEF IsRewritten
<1> QED BY <1>5, <1>6, <1>7, <1>11, <1>12, <1>13 DEF Lands

\* Step s, which has all the parts before it, writes its file n.
Lays(s, n) ==
  /\ Written(s, n) /\ ~IsDone(s)
  /\ \A t \in Parts : Rank(t) < Rank(s) => t \in Committed

LEMMA PublishLanded ==
  ASSUME BaseInv, LandedInv, NEW p \in Proc, Publish(p)
  PROVE  /\ LandedInv' /\ Usable /\ Usable'
         /\ Untouched \/ \E s \in Fixed : \E n \in Writes(s) : Lays(s, n)
<1>1. PICK s \in Fixed, o \in Op : s = Head(todo[p]) /\ o = Head(ops[p])
  BY PublishFacts
<1>2. /\ pc[p] = "publish" /\ pc' = [pc EXCEPT ![p] = "work"] /\ ops[p] # <<>>
      /\ todo' = todo /\ ops' = [ops EXCEPT ![p] = Tail(ops[p])]
      /\ TempOK(o) /\ (Puts(s, o) \/ BacksUp(s, o) \/ Links(s, o))
      /\ disk'[o.to] = Whole(IF o.op = "backup" THEN disk[o.from].marks ELSE o.marks)
  BY <1>1, PublishFacts
<1>3. \A n \in Names : File(n) # o.to => disk'[File(n)] = disk[File(n)]
  BY <1>1, PublishFacts
<1>4. BaseInv' /\ Kept /\ TypeInv /\ TypeInv' /\ TornInv' /\ pc[p] \in Working
  BY <1>2, PublishBase DEF BaseInv, Working
<1>5. PICK T \in Seq(Steps), L \in Seq(Op) : T = todo[p] /\ L = ops[p]
  BY <1>4, WorkPlan
<1>6. /\ L # <<>> /\ T # <<>> /\ s = Head(T) /\ s = T[1] /\ 1 \in DOMAIN T /\ o = Head(L)
      /\ OpsOK(s, L) /\ StepOK(s, L) /\ TodoOK(T)
      /\ \A i \in DOMAIN T : T[i] \in Parts \cup {"fast"} /\ i > 1 => ~IsDone(T[i])
  BY <1>1, <1>2, <1>4, <1>5, WorkPlan
<1>7. /\ ~IsDone(s) /\ ~Ready /\ ~Downloading /\ ~NeedsDownload /\ IndexHolds
      /\ \A q \in Proc : q # p => pc[q] \notin Active
      /\ \A t \in Parts : Rank(t) < Rank(s) => t \in Committed
      /\ \A i \in DOMAIN T : i > 1 => T[i] # s
  BY <1>1, <1>2, <1>4, <1>5, Busy
<1>8. PICK K \in Seq(Op) : K = Tail(L)
  BY <1>6, TailFacts
<1>9. /\ pc'[p] = "work" /\ todo'[p] = T /\ ops'[p] = K /\ \A q \in Proc : q # p => Same(q)
  BY <1>2, <1>4, <1>5, <1>8 DEF TypeInv, Same
<1>10. Usable /\ Usable'
  <2>1. ~NeedsDownload'
    BY <1>4, <1>7, KeptWhole
  <2>2. ~Downloading'
    BY <1>7, <1>9 DEF Downloading, Same, Active
  <2> QED BY <1>7, <2>1, <2>2 DEF Usable
<1>11. CASE o.op = "backup"
  <2>1. PICK k \in Fragile : s \in Parts /\ Saves(s, k) /\ o.to = SavedAs(s, k)
    BY <1>2, <1>4, <1>11, OpTargets
  <2>2. \A n \in Names : o.to # File(n)
    BY <2>1, BackupNames
  <2>3. Untouched
    BY <1>3, <2>2 DEF Untouched, Core, Names
  <2>4. StepOK(s, K)
    BY <1>4, <1>6, <1>8, <1>11, BackupTail
  <2>5. TodoOK(T)' /\ StepOK(s, K)' /\ \A x \in Parts \cup {"fast"} : IsDone(x)' <=> IsDone(x)
    <3>1. TodoOK(T)' /\ (\A x \in Fixed : IsDone(x)' <=> IsDone(x)) /\ Covers(s, K)'
      BY <1>6, <2>3, <2>4, Frame DEF StepOK
    <3> QED BY <2>4, <3>1 DEF StepOK, Fixed
  <2>6. PlanOK(p)'
    BY <1>6, <1>9, <2>5 DEF PlanOK, Planned, Working
  <2> QED BY <1>2, <1>9, <1>10, <2>3, <2>6, QuietLanded
<1>12. CASE o.op = "put"
  <2>1. PICK n \in Writes(s) : o.to = File(n) /\ o.marks = NewMarks(s, n)
    BY <1>2, <1>4, <1>12, OpTargets
  <2>2. n \in Names /\ CommitOf(s) \in Names
    BY WritesNames, CoreNames DEF CommitOf, Core, Fixed, RewriteSteps, Parts, QuantParts
  <2>3. Written(s, n)
    <3>1. disk'[File(n)] = Whole(NewMarks(s, n))
      BY <1>2, <1>12, <2>1
    <3>2. \A m \in Names : m # n => File(m) # o.to
      BY <2>1, <2>2, PathFacts
    <3> QED BY <1>3, <3>1, <3>2 DEF Written
  <2>4. K = <<>> <=> n = CommitOf(s)
    <3>1. K = <<>> <=> File(n) = File(CommitOf(s))
      BY <1>6, <1>8, <2>1, CommitLast
    <3> QED BY <2>2, <3>1, PathFacts
  <2>5. PlanAt(s, T)
    BY <1>6, <1>7 DEF PlanAt
  <2>6. Covers(s, L) /\ Head(L).to = File(n)
    BY <1>6, <2>1 DEF StepOK
  <2>7. Lands(s, n, T)
    <3>1. CASE s \in Parts
      <4>1. CommitOf(s) = "index"
        BY <3>1 DEF CommitOf, Parts, QuantParts
      <4> QED BY <1>4, <1>6, <1>7, <1>8, <1>10, <2>3, <2>4, <2>5, <2>6, <3>1, <4>1, PutPart
    <3>2. CASE s = "fast"
      <4>1. CommitOf(s) = "fast_index"
        BY <3>2 DEF CommitOf, Parts, QuantParts
      <4> QED BY <1>4, <1>6, <1>7, <1>8, <1>10, <2>3, <2>4, <2>5, <2>6, <3>2, <4>1, PutFast
    <3>3. CASE s \in RewriteSteps
      BY <1>7, <1>10, <2>3, <2>5, <3>3, PutRewrite
    <3> QED BY <3>1, <3>2, <3>3 DEF Fixed
  <2>8. Covers(s, K)'
    BY <1>6, <1>8, <2>3, <2>6, CoversTail
  <2>9. StepOK(s, K)'
    BY <2>4, <2>7, <2>8 DEF StepOK, Lands
  <2>10. LandedInv'
    BY <1>2, <1>4, <1>6, <1>9, <2>7, <2>9, BusyStep DEF Lands
  <2>11. Lays(s, n)
    BY <1>7, <2>3 DEF Lays
  <2> QED BY <1>10, <2>10, <2>11
<1> QED BY <1>2, <1>11, <1>12 DEF TempOK

LEMMA HardLinkLanded ==
  ASSUME BaseInv, LandedInv, NEW p \in Proc, HardLink(p)
  PROVE  /\ LandedInv' /\ Usable /\ Usable'
         /\ Committed' = Committed /\ (FastIndex' <=> FastIndex)
<1> DEFINE e == "fast_embed"
<1>1. /\ pc[p] = "work" /\ pc' = pc /\ todo' = todo
      /\ ops' = [ops EXCEPT ![p] = Tail(ops[p])] /\ ops[p] # <<>>
      /\ Head(todo[p]) = "fast" /\ Head(ops[p]).to = File(e)
      /\ disk' = [disk EXCEPT ![File(e)] = disk[File(EmbedShard)]]
      /\ Intact(EmbedShard)
  BY HardLinkFacts
<1>2. e \in Names /\ File(e) \in Path /\ "fast" \in Fixed /\ EmbedShard \in Names
  BY PathFacts, ShardNames DEF Names, HubNames, FastNames, Fixed
<1>3. BaseInv' /\ Kept /\ TypeInv /\ pc[p] \in Working
  BY <1>1, HardLinkBase DEF BaseInv, Working
<1>4. PICK T \in Seq(Steps), L \in Seq(Op) : T = todo[p] /\ L = ops[p]
  BY <1>3, WorkPlan
<1>5. /\ L # <<>> /\ Head(T) = "fast" /\ Head(L).to = File(e)
      /\ OpsOK("fast", L) /\ StepOK("fast", L) /\ TodoOK(T)
      /\ \A i \in DOMAIN T : T[i] \in Parts \cup {"fast"} /\ i > 1 => ~IsDone(T[i])
  BY <1>1, <1>3, <1>4, WorkPlan
<1>6. /\ ~IsDone("fast") /\ IndexHolds
      /\ \A t \in Parts : Rank(t) < Rank("fast") => t \in Committed
  BY <1>1, <1>3, <1>4, Busy
<1>7. /\ ~FastIndex /\ Committed = Parts
  <2>1. \A t \in Parts : Rank(t) < Rank("fast")
    BY Ranks DEF Parts, QuantParts
  <2> QED BY <1>6, <2>1 DEF IsDone, Parts, QuantParts, Committed
<1>8. \A m \in Names : disk'[File(m)] = IF m = e THEN disk[File(EmbedShard)] ELSE disk[File(m)]
  BY <1>1, <1>2, <1>3, PathFacts DEF TypeInv
<1>9. /\ Intact(e)' /\ Marks(e)' = Marks(EmbedShard) /\ Exists(File(e))'
      /\ \A m \in Names : m # e =>
           /\ Marks(m)' = Marks(m) /\ (Exists(File(m))' <=> Exists(File(m)))
           /\ (Intact(m)' <=> Intact(m))
  BY <1>1, <1>2, <1>8 DEF Intact, Marks, Exists
<1>10. \A m \in HubNames \cup {"vocab", "fast_template", "fast_tensors", "fast_index"} :
         m \in Names /\ m # e
  BY ShardNames DEF HubNames, Names, FastNames
<1>11. Committed' = Committed /\ ~FastIndex'
  BY <1>7, <1>9, <1>10 DEF Committed, FastIndex, HubNames
<1>12. PrefixInv'
  BY <1>11 DEF LandedInv, PrefixInv, Before
<1>13. "embed" \in Marks(EmbedShard)
  BY <1>6, <1>7, Tables DEF IndexHolds, Parts, QuantParts
<1>14. FastInv'
  BY <1>9, <1>11, <1>13 DEF FastInv
<1>15. IndexHolds'
  <2>1. \A t \in Committed : ShardOf[t] \in HubNames
    BY DEF Committed, Shards, HubNames
  <2> QED BY <1>6, <1>9, <1>10, <1>11, <2>1 DEF IndexHolds, FastIndex, HubNames
<1>16. \A r \in RewriteSteps : IsRewritten(r)' <=> IsRewritten(r)
  BY <1>9, <1>10, CoreNames DEF IsRewritten, HubNames
<1>17. TodoOK(T)' /\ \A x \in Parts \cup {"fast"} : IsDone(x)' <=> IsDone(x)
  BY <1>5, <1>7, <1>11, <1>16 DEF TodoOK, IsDone, Parts, QuantParts
<1>18. PICK K \in Seq(Op) : K = Tail(L)
  BY <1>5, TailFacts
<1>19. StepOK("fast", K)'
  <2>1. CommitOf("fast") = "fast_index" /\ Needs("fast") = {"fast_embed", "fast_tensors"}
    BY DEF CommitOf, Needs, Parts, QuantParts
  <2>2. "fast_tensors" \in Names /\ "fast_index" \in Names
    BY DEF Names, FastNames
  <2>3. K # <<>>
    <3>1. Tail(L) = <<>> <=> Head(L).to = File(CommitOf("fast"))
      BY <1>2, <1>5, CommitLast
    <3>2. File(e) # File("fast_index")
      BY <1>2, <2>2, PathFacts
    <3> QED BY <1>5, <1>18, <2>1, <3>1, <3>2
  <2>4. \A i \in DOMAIN L : i = 1 \/ (i - 1 \in DOMAIN K /\ L[i] = K[i - 1])
    <3>1. \A i \in DOMAIN L : i = 1 \/ i > 1
      OBVIOUS
    <3> QED BY <1>5, <1>18, <3>1, TailFacts
  <2>5. Head(L) = L[1] /\ File(e) # File("fast_tensors")
    BY <1>2, <1>5, <2>2, TailFacts, PathFacts
  <2>6. Covers("fast", L)
    BY <1>5 DEF StepOK
  <2>7. \A m \in {"fast_embed", "fast_tensors"} :
          IsThere("fast", m)' \/ \E i \in DOMAIN K : K[i].to = File(m)
    BY <1>5, <1>9, <2>1, <2>2, <2>4, <2>5, <2>6 DEF Covers, IsThere
  <2>8. Covers("fast", K)'
    BY <2>1, <2>7 DEF Covers
  <2> QED BY <1>6, <1>17, <2>3, <2>8 DEF StepOK
<1>20. /\ pc'[p] = "work" /\ todo'[p] = T /\ ops'[p] = K /\ \A q \in Proc : q # p => Same(q)
  BY <1>1, <1>3, <1>4, <1>18 DEF TypeInv, Same
<1>21. \A i \in DOMAIN T : T[i] \in Parts \cup {"fast"} /\ i > 1 => ~IsDone(T[i])'
  <2> SUFFICES ASSUME NEW i \in DOMAIN T, T[i] \in Parts \cup {"fast"}, i > 1
               PROVE  ~IsDone(T[i])'
    OBVIOUS
  <2>1. PICK t \in Parts \cup {"fast"} : t = T[i] /\ ~IsDone(t)
    BY <1>5
  <2> QED BY <1>17, <2>1
<1>22. LandedInv' /\ Usable'
  BY <1>1, <1>3, <1>5, <1>12, <1>14, <1>15, <1>17, <1>19, <1>20, <1>21, BusyStep
<1>23. Usable
  BY <1>1, <1>3, Busy DEF Usable
<1> QED BY <1>7, <1>11, <1>22, <1>23

LEMMA LandedStep ==
  ASSUME BaseInv, LandedInv, NoMixture, [Next]_vars
  PROVE  LandedInv'
<1>1. CASE UNCHANGED vars
  <2>1. disk' = disk /\ lock' = lock /\ pc' = pc /\ todo' = todo /\ ops' = ops
    BY <1>1 DEF vars
  <2>2. Untouched
    BY <2>1 DEF Untouched, Core
  <2>3. Downloading' = Downloading /\ Ready' = Ready /\ NeedsDownload' = NeedsDownload
    BY <2>1 DEF Downloading, Ready, NeedsDownload, Exists, Intact
  <2>4. PrefixInv' /\ IndexTruthful' /\ FirstInv' /\ ReadyInv'
    BY <2>2, <2>3, Frame DEF LandedInv, IndexTruthful, FirstInv, ReadyInv, Usable
  <2>5. FastInv'
    BY <2>2, <2>3, Frame, CoreNames DEF LandedInv, FastInv, Usable
  <2>6. PlanInv'
    BY <2>1, SMTT(120) DEF LandedInv, PlanInv, PlanOK, TodoOK, StepOK, Covers, IsThere, IsDone, IsRewritten,
                FastIndex, Committed, Exists, Marks
  <2> QED BY <2>4, <2>5, <2>6 DEF LandedInv
<1>2. CASE Next
  <2>1. PICK p \in Proc : Start(p) \/ Step(p) \/ Crash(p)
    BY <1>2 DEF Next
  <2> QED BY <2>1, WaitLanded, CheckLanded, DownloadedLanded, FetchLanded, BeginLanded, EndLanded,
             SkipLanded, WriteTempLanded, DrafterLanded, RecheckLanded, CrashLanded,
             PublishLanded, HardLinkLanded DEF Step
<1> QED BY <1>1, <1>2

LEMMA LandedAlways == NoMixture => (Spec => [](BaseInv /\ LandedInv))
<1> SUFFICES ASSUME NoMixture PROVE Spec => [](BaseInv /\ LandedInv)
  OBVIOUS
<1>1. Init => BaseInv /\ LandedInv
  BY BaseInit, LandedInit
<1>2. BaseInv /\ LandedInv /\ [Next]_vars => (BaseInv /\ LandedInv)'
  BY BaseStep, LandedStep
<1> QED BY <1>1, <1>2, PTL DEF Spec

\* The index is the commit point: outside of a download it never names a part
\* that is not in its shard, declared and complete, wherever a prepare was
\* killed, unless a recovery download was (prepare/common.py's write order).
THEOREM CommitPoint == NoMixture => (Spec => []IndexTruthful)
<1>1. LandedInv => IndexTruthful
  BY DEF LandedInv
<1> QED BY <1>1, LandedAlways, PTL

\* A prepare that reports the model ready (prepare.sh's second state()) leaves
\* every part in place and every template rewritten, and no other run, killed
\* or not, spoils it.
THEOREM ReadyMeansPrepared == NoMixture => (Spec => []ReadyIsPrepared)
<1>1. LandedInv => ReadyIsPrepared
  BY DEF LandedInv, ReadyInv, ReadyIsPrepared
<1> QED BY <1>1, LandedAlways, PTL

-----------------------------------------------------------------------------
(* The promise to the launcher.                                            *)

Landed == IF ~Usable THEN {} ELSE Committed \cup (IF FastIndex THEN {"fast"} ELSE {})

PromiseStep == Promise!Next \/ UNCHANGED Promise!vars

LEMMA PromiseInit == Init => Promise!Init
<1> SUFFICES ASSUME Init PROVE Promise!Init
  OBVIOUS
<1>1. StartOK
  BY FreshVolume, DamagedVolume DEF Init
<1>2. ~Usable
  BY <1>1 DEF StartOK, Usable
<1> QED BY <1>2 DEF Promise!Init

\* How the promise sees a step: nothing new, the end of a download, or a part.
LEMMA PromiseSame ==
  ASSUME Usable' <=> Usable, Usable => Committed' = Committed /\ (FastIndex' <=> FastIndex)
  PROVE  PromiseStep
<1>1. UNCHANGED <<Usable, Landed>>
  BY DEF Landed
<1> QED BY <1>1 DEF PromiseStep, Promise!vars, Landed, FastIndex

LEMMA PromiseDownload ==
  ASSUME ~Usable, Usable', Committed' = {}, ~FastIndex'
  PROVE  PromiseStep
<1>1. Promise!Download
  BY DEF Promise!Download, FastIndex
<1> QED BY <1>1 DEF PromiseStep, Promise!Next

LEMMA PromiseLand ==
  ASSUME Usable, Usable', NEW i \in 1..5,
         Landed = {<<"lm_head", "embed", "mtp", "draft", "fast">>[j] : j \in 1..(i - 1)},
         Landed' = Landed \cup {<<"lm_head", "embed", "mtp", "draft", "fast">>[i]}
  PROVE  PromiseStep
<1>1. Promise!Land(i)
  BY DEF Promise!Land, Landed, FastIndex
<1>2. Len(<<"lm_head", "embed", "mtp", "draft", "fast">>) = 5
  OBVIOUS
<1> QED BY <1>1, <1>2 DEF PromiseStep, Promise!Next

LEMMA PromiseLaid ==
  ASSUME LandedInv, Usable, Usable', NEW s \in Fixed, NEW n \in Writes(s), Lays(s, n)
  PROVE  PromiseStep
<1>1. n \in Names /\ "index" \in Names /\ "fast_index" \in Names
  BY WritesNames DEF Names, HubNames, FastNames
<1>2. /\ Marks(n)' = NewMarks(s, n) /\ Exists(File(n))'
      /\ \A m \in Names : m # n =>
           Marks(m)' = Marks(m) /\ (Exists(File(m))' <=> Exists(File(m)))
  BY <1>1, WrittenFacts DEF Lays
<1>3. CASE s \in Parts /\ n = "index"
  <2>1. s \notin Committed
    BY <1>3 DEF Lays, IsDone, Parts, QuantParts
  <2>2. Committed = Before(Rank(s) - 1) /\ Rank(s) \in 1..4
    BY <1>3, <2>1, PrefixRank DEF Lays, LandedInv
  <2>3. ~FastIndex
    BY <1>3, <2>1 DEF LandedInv, FastInv
  <2>4. ~FastIndex'
    BY <1>1, <1>2, <1>3, <2>3 DEF FastIndex
  <2>5. Committed' = Committed \cup {s}
    <3>1. NewMarks(s, "index") = Marks("index") \cup {s}
      BY <1>3 DEF NewMarks, Parts, QuantParts, RewriteSteps
    <3> QED BY <1>2, <1>3, <3>1 DEF Committed
  <2>6. s = <<"lm_head", "embed", "mtp", "draft", "fast">>[Rank(s)]
    BY <1>3, Ranks DEF Parts, QuantParts
  <2>7. Before(Rank(s) - 1) = {<<"lm_head", "embed", "mtp", "draft", "fast">>[j] : j \in 1..(Rank(s) - 1)}
    BY <2>2 DEF Before, Order
  <2>8. Landed = Committed /\ Landed' = Committed'
    BY <2>3, <2>4 DEF Landed
  <2> QED BY <2>2, <2>5, <2>6, <2>7, <2>8, PromiseLand
<1>4. CASE s = "fast" /\ n = "fast_index"
  <2>1. Committed = Parts /\ ~FastIndex
    BY <1>4, Ranks DEF Lays, IsDone, Committed, Parts, QuantParts
  <2>2. Committed' = Committed /\ FastIndex'
    BY <1>1, <1>2, <1>4 DEF Committed, FastIndex
  <2>3. Landed = Parts /\ Landed' = Parts \cup {"fast"}
    BY <2>1, <2>2 DEF Landed
  <2>4. /\ Parts = {<<"lm_head", "embed", "mtp", "draft", "fast">>[j] : j \in 1..(5 - 1)}
        /\ <<"lm_head", "embed", "mtp", "draft", "fast">>[5] = "fast"
    BY DEF Parts, QuantParts
  <2> QED BY <2>3, <2>4, PromiseLand
<1>5. CASE n # "index" /\ n # "fast_index"
  BY <1>1, <1>2, <1>5, PromiseSame DEF Committed, FastIndex
<1>6. n = "index" => s \in Parts
  BY RewriteTable DEF Writes, Fixed, Parts, QuantParts, RewriteSteps
<1>7. n = "fast_index" => s = "fast"
  BY RewriteTable, ShardNames DEF Writes, Fixed, Parts, QuantParts, RewriteSteps, Shards
<1> QED BY <1>3, <1>4, <1>5, <1>6, <1>7

LEMMA PromiseNext ==
  ASSUME BaseInv, LandedInv, NoMixture, [Next]_vars
  PROVE  PromiseStep
<1>1. ASSUME Untouched, Downloading' <=> Downloading PROVE PromiseStep
  BY <1>1, Frame, PromiseSame DEF Usable
<1>2. CASE UNCHANGED vars
  BY <1>1, <1>2 DEF vars, Untouched, Core, Downloading
<1>3. CASE Next
  <2>1. PICK p \in Proc : Start(p) \/ Step(p) \/ Crash(p)
    BY <1>3 DEF Next
  <2>2. TypeInv /\ LockInv
    BY DEF BaseInv
  <2>3. CASE /\ pc[p] # "download" /\ ~(Check(p) /\ NeedsDownload)
             /\ \/ Start(p) \/ Acquire(p) \/ GiveUp(p) \/ Check(p) \/ Begin(p) \/ EndStep(p)
                \/ SkipBackup(p) \/ EndDrafter(p) \/ Recheck(p) \/ Crash(p)
    <3>1. Untouched
      BY <2>3, QuietActions DEF Untouched, Core
    <3>2. pc'[p] # "download" /\ \A q \in Proc : q # p => pc'[q] = pc[q]
      BY <2>2, <2>3 DEF Start, Acquire, GiveUp, Check, Begin, EndStep, SkipBackup, EndDrafter,
                        Recheck, Crash, Exit, Goto, Plan, TypeInv
    <3> QED BY <1>1, <2>3, <3>1, <3>2 DEF Downloading
  <2>4. CASE Check(p) /\ NeedsDownload
    <3>1. Untouched
      BY <2>4 DEF Check, Untouched, Core
    <3> QED BY <2>4, <3>1, Frame, PromiseSame DEF Usable
  <2>5. CASE Fetch(p)
    <3>1. Downloading /\ Downloading'
      BY <2>5 DEF Fetch, Downloading
    <3> QED BY <3>1, PromiseSame DEF Usable
  <2>6. CASE Downloaded(p)
    <3>1. ~Usable
      BY <2>6, DownloadAlone DEF Downloaded
    <3> QED BY <2>6, <3>1, DownloadedLanded, PromiseDownload
  <2>7. CASE Crash(p) /\ pc[p] = "download"
    <3>1. ~Usable /\ ~FastIndex /\ (~LegacyDisk => Unpacked)
      BY <2>7, DownloadAlone
    <3>2. Unpacked
      BY <2>7, <3>1, ConstantsOK DEF NoMixture, Crash
    <3>3. Untouched
      BY <2>7 DEF Crash, Untouched, Core
    <3>4. ~FastIndex' /\ Committed' = {}
      BY <3>1, <3>2, <3>3, Frame DEF Committed, Unpacked
    <3> QED BY <3>1, <3>4, PromiseDownload, PromiseSame
  <2>8. CASE WriteTemp(p) \/ FetchDrafter(p)
    <3>1. Downloading' <=> Downloading
      BY <2>2, <2>8 DEF WriteTemp, FetchDrafter, Goto, Downloading, TypeInv
    <3> QED BY <1>1, <2>8, <3>1, TempUntouched, DrafterUntouched
  <2>9. CASE HardLink(p)
    BY <2>9, HardLinkLanded, PromiseSame
  <2>10. CASE Publish(p)
    <3>1. CASE Untouched
      BY <2>10, <3>1, PublishLanded, Frame, PromiseSame
    <3>2. CASE \E s \in Fixed : \E n \in Writes(s) : Lays(s, n)
      BY <2>10, <3>2, PublishLanded, PromiseLaid
    <3> QED BY <2>10, <3>1, <3>2, PublishLanded
  <2>11. pc[p] = "download" =>
           ~(Start(p) \/ Acquire(p) \/ GiveUp(p) \/ Check(p) \/ Begin(p) \/ EndStep(p)
             \/ SkipBackup(p) \/ EndDrafter(p) \/ Recheck(p))
    BY DEF Start, Acquire, GiveUp, Check, Begin, EndStep, SkipBackup, EndDrafter, Recheck
  <2> QED BY <2>1, <2>3, <2>4, <2>5, <2>6, <2>7, <2>8, <2>9, <2>10, <2>11 DEF Step
<1> QED BY <1>2, <1>3

\* Prepare implements PrepareSteps: one download, then one part after another
\* in the order of prepare.sh, and nothing that landed is taken back, however
\* often runs are killed and start again.
THEOREM LandsInOrder == NoMixture => (Spec => StepsLandInOrder)
<1> SUFFICES ASSUME NoMixture PROVE Spec => StepsLandInOrder
  OBVIOUS
<1>1. Init => Promise!Init
  BY PromiseInit
<1>2. BaseInv /\ LandedInv /\ [Next]_vars => [Promise!Next]_(Promise!vars)
  BY PromiseNext DEF PromiseStep
<1> QED BY <1>1, <1>2, LandedAlways, PTL DEF Spec, StepsLandInOrder, Promise!Spec

=============================================================================
