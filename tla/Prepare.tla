------------------------------ MODULE Prepare ------------------------------
(***************************************************************************)
(* Preparing the model directory (docker/prepare.sh and prepare/).         *)
(*                                                                         *)
(* Every container start runs prepare.sh: take a file lock, ask state()    *)
(* what is missing, download the checkpoint, run the pending scripts,      *)
(* rewrite the chat templates, ask state() again.  A script rewrites       *)
(* files in place; a crash may come between any two file operations, and   *)
(* the next start must carry on from whatever is on the disk.              *)
(*                                                                         *)
(* A file is a set of marks: the parts a shard holds packed, the parts     *)
(* config.json declares and does not ignore, the parts the index points    *)
(* at, the rewrites a template has had.  No marks: the file as published.  *)
(***************************************************************************)
EXTENDS Naturals, Sequences

CONSTANTS
  Proc,          \* containers that run prepare.sh on one models volume
  Service,       \* those of them with a restart policy (the others run once)
  NoOne,         \* nobody: the lock is free
  LmHeadShard,   \* the shard that holds lm_head
  EmbedShard,    \* the shard that holds embed_tokens
  FastVariant,   \* FAST_VARIANT is not 0
  LegacyDisk,    \* also start from what an older prepare, killed in a write, left
  KillDownload,  \* checkpoint downloads that may be cut short: "any", or only
                 \* the "first", into a directory without a packed part
  MaxCrashes     \* bound on the number of crashes

ASSUME ConstantsOK ==
  /\ NoOne \notin Proc
  /\ {LmHeadShard, EmbedShard} \cap
       {"config", "index", "tokenizer", "template", "fast_embed",
        "fast_template", "fast_tensors", "fast_index", "drafter_config",
        "drafter_weights", "vocab"} = {}
  /\ FastVariant \in BOOLEAN /\ LegacyDisk \in BOOLEAN
  /\ KillDownload \in {"any", "first"} /\ MaxCrashes \in Nat

VARIABLES
  disk,      \* path -> what is there
  lock,      \* who holds .prepare.lock
  pc,        \* where each prepare.sh is
  todo,      \* the steps it still has to run
  ops,       \* the file operations left in the running step
  crashes    \* crashes so far

vars == <<disk, lock, pc, todo, ops, crashes>>

-----------------------------------------------------------------------------
(* Files *)

QuantParts == {"lm_head", "embed", "mtp"}
Parts == QuantParts \cup {"draft"}

ShardOf == [lm_head |-> LmHeadShard, embed |-> EmbedShard,
            mtp |-> "extra", draft |-> "extra"]
Shards == {ShardOf[s] : s \in Parts}

\* What the base checkpoint's repository holds.
HubNames == {"config", "index", "tokenizer", "template"} \cup Shards
FastNames == {"fast_embed", "fast_template", "fast_tensors", "fast_index"}
DrafterNames == {"drafter_config", "drafter_weights"}
Names == HubNames \cup FastNames \cup DrafterNames \cup {"vocab"}

Rewritten == {"hardened", "translated"}

\* A path: the file, the backup suffix, and whether it is a .tmp sibling.
BackupSuffix == [lm_head |-> ".bak", embed |-> ".bak_embed",
                 mtp |-> ".bak-mtp", draft |-> ".bak-draft"]
MetaSuffix == [lm_head |-> ".bak-quant", mtp |-> ".bak-mtp"]
Suffixes == {"", ".bak", ".bak_embed", ".bak-mtp", ".bak-draft", ".bak-quant"}
Path == Names \X Suffixes \X {"", ".tmp"}

File(n) == <<n, "", "">>
BackupOf(n, suffix) == <<n, suffix, "">>
Temp_InPlace(path) == path
Temp(path) == <<path[1], path[2], ".tmp">>

Absent == [kind |-> "absent", marks |-> {}]
Torn(m) == [kind |-> "torn", marks |-> m]
Whole(m) == [kind |-> "whole", marks |-> m]

Exists(path) == disk[path].kind # "absent"
Intact(n) == disk[File(n)].kind = "whole"
Marks(n) == disk[File(n)].marks
Committed == {s \in Parts : s \in Marks("index")}

-----------------------------------------------------------------------------
(* state(): what is still to do *)

NeedsDownload ==
  \/ \E n \in {"config", "index", "tokenizer"} : ~Exists(File(n))
  \/ \E n \in {"config", "index"} \cup Shards : ~Intact(n)

If(cond, step) == IF cond THEN <<step>> ELSE <<>>

Pending ==
     If("lm_head" \notin Committed, "lm_head")
  \o If("embed" \notin Committed, "embed")
  \o If("mtp" \notin Committed, "mtp")
  \o If("draft" \notin Committed \/ ~Exists(File("vocab")), "draft")
  \o If(FastVariant /\ ~Exists(File("fast_index")), "fast")

Dflash2 == If(~Exists(File("drafter_weights")), "dflash2")

\* The two template scripts run after the steps, on every directory there is.
Rewrites == <<"harden", "harden_fast", "translate", "translate_fast">>
RewriteOf == [harden         |-> [file |-> "template",      mark |-> "hardened"],
              harden_fast    |-> [file |-> "fast_template", mark |-> "hardened"],
              translate      |-> [file |-> "template",      mark |-> "translated"],
              translate_fast |-> [file |-> "fast_template", mark |-> "translated"]]

-----------------------------------------------------------------------------
(* The file operations of one step, from the files as the script reads     *)
(* them when it starts.                                                    *)

Put(n, m) == [op |-> "put", from |-> File(n), to |-> File(n), marks |-> m]
Backup(n, suffix) ==
  [op |-> "backup", from |-> File(n), to |-> BackupOf(n, suffix), marks |-> {}]
Link(n, m) == [op |-> "link", from |-> File(n), to |-> m, marks |-> {}]

MetaBackup(n, s) ==
  IF s \in DOMAIN MetaSuffix THEN <<Backup(n, MetaSuffix[s])>> ELSE <<>>

\* The parts config.json declares once step s has written it: quant_lm_head
\* puts every MTP linear back on the ignore list.
Declared(s) ==
  (IF s = "lm_head" THEN Marks("config") \ {"mtp"} ELSE Marks("config"))
  \cup {s}

RepackOps(s) ==
  IF s \in Marks(ShardOf[s]) THEN <<>>
  ELSE << Backup(ShardOf[s], BackupSuffix[s]),
          Put(ShardOf[s], Marks(ShardOf[s]) \cup {s}) >>

QuantOps_IndexFirst(s) ==
     MetaBackup("index", s)  \o <<Put("index", Marks("index") \cup {s})>>
  \o RepackOps(s)
  \o MetaBackup("config", s) \o <<Put("config", Declared(s))>>

QuantOps(s) ==
     RepackOps(s)
  \o MetaBackup("config", s) \o <<Put("config", Declared(s))>>
  \o MetaBackup("index", s)  \o <<Put("index", Marks("index") \cup {s})>>

DraftOps ==
  << Backup("extra", BackupSuffix["draft"]),
     Put("extra", Marks("extra") \cup {"draft"}),
     Put("vocab", {}),
     Put("index", Marks("index") \cup {"draft"}) >>

FastOps ==
     If(~Exists(File("fast_embed")), Link(EmbedShard, File("fast_embed")))
  \o If(Exists(File("template")) /\ ~Exists(File("fast_template")),
        Put("fast_template", Marks("template")))
  \o <<Put("fast_tensors", {}), Put("fast_index", {})>>

RewriteOps(step) ==
  LET r == RewriteOf[step]
  IN If(Exists(File(r.file)) /\ r.mark \notin Marks(r.file),
        Put(r.file, Marks(r.file) \cup {r.mark}))

OpsOf(step) ==
  CASE step \in QuantParts -> QuantOps(step)
    [] step = "draft"      -> DraftOps
    [] step = "fast"       -> FastOps
    [] OTHER               -> RewriteOps(step)

\* A script stops before it writes when a file it reads is cut short, or a
\* tensor it needs is not where the index says: the plain tensor for a quant
\* step, the packed lm_head for draft.
CanRun_PlainTensorOnly(step) ==
  step \in QuantParts => step \notin Marks(ShardOf[step])

CanRun(step) ==
  /\ step \in QuantParts =>
       /\ Intact("config") /\ Intact("index") /\ Intact(ShardOf[step])
       /\ step \notin Committed
  /\ step = "draft" =>
       /\ Intact("index") /\ Intact("extra") /\ Intact(LmHeadShard)
       /\ "lm_head" \in Committed
       /\ "lm_head" \in Marks(LmHeadShard)

-----------------------------------------------------------------------------
(* Initial disks *)

NoFiles == [path \in Path |-> Absent]

Order == <<"lm_head", "embed", "mtp", "draft">>
Before(k) == {Order[i] : i \in 1..k}

\* An older prepare finished k steps and was killed inside an in-place write
\* of the next: the shard (1), config.json (2) or the index (3) is cut short.
\* The order of its writes is taken to be today's.
LegacyFiles(k, stage) ==
  LET torn == <<ShardOf[Order[k + 1]], "config", "index">>[stage]
      parts(n) == CASE n \in Shards -> {s \in Parts : ShardOf[s] = n}
                    [] n = "config" -> QuantParts
                    [] n = "index"  -> Parts
                    [] OTHER        -> {}
      turn(n) == CASE n \in Shards -> 1 [] n = "config" -> 2 [] OTHER -> 3
      \* How many steps finished writing n, and how many backed it up.
      wrote(n) == IF turn(n) < stage THEN k + 1 ELSE k
      saved(n) == IF turn(n) <= stage THEN k + 1 ELSE k
      suffix(n, i) == IF n \in Shards THEN BackupSuffix[Order[i]]
                      ELSE IF Order[i] \in DOMAIN MetaSuffix
                      THEN MetaSuffix[Order[i]] ELSE ""
      \* The step whose backup of its file this path is, 0 for none.
      backupBy(path) ==
        {i \in 1..saved(path[1]) : /\ Order[i] \in parts(path[1])
                                   /\ path[2] # "" /\ path[3] = ""
                                   /\ path[2] = suffix(path[1], i)}
  IN [path \in Path |->
        IF path = File(torn)
        THEN Torn(Before(wrote(torn)) \cap parts(torn))
        ELSE IF path \in {File(n) : n \in HubNames}
        THEN Whole(Before(wrote(path[1])) \cap parts(path[1]))
        ELSE IF backupBy(path) # {}
        THEN Whole(Before((CHOOSE i \in backupBy(path) : TRUE) - 1)
                     \cap parts(path[1]))
        ELSE Absent]

Init ==
  /\ \/ disk = NoFiles
     \/ LegacyDisk /\ \E k \in 0..2, stage \in 1..3 : disk = LegacyFiles(k, stage)
  /\ lock = NoOne
  /\ pc = [p \in Proc |-> "down"]
  /\ todo = [p \in Proc |-> <<>>]
  /\ ops = [p \in Proc |-> <<>>]
  /\ crashes = 0

-----------------------------------------------------------------------------
(* One prepare.sh *)

Goto(p, l) == pc' = [pc EXCEPT ![p] = l]

\* The script ends, whichever way: the lock goes with it.
Exit(p, how) ==
  /\ Goto(p, how)
  /\ lock' = IF lock = p THEN NoOne ELSE lock
  /\ todo' = [todo EXCEPT ![p] = <<>>]
  /\ ops' = [ops EXCEPT ![p] = <<>>]

\* The container starts, or restarts after a failed or a finished run.
Start(p) ==
  /\ pc[p] \in {"down", "failed", "done"}
  /\ Goto(p, "lock")
  /\ UNCHANGED <<disk, lock, todo, ops, crashes>>

\* flock -w: the lock, or after PREPARE_LOCK_WAIT a failure.
Acquire_Unlocked(p) ==
  /\ pc[p] = "lock"
  /\ Goto(p, "check")
  /\ UNCHANGED <<disk, lock, todo, ops, crashes>>

Acquire(p) ==
  /\ pc[p] = "lock" /\ lock = NoOne
  /\ lock' = p
  /\ Goto(p, "check")
  /\ UNCHANGED <<disk, todo, ops, crashes>>

GiveUp(p) ==
  /\ pc[p] = "lock" /\ lock # NoOne
  /\ Exit(p, "failed")
  /\ UNCHANGED <<disk, crashes>>

\* The steps of this run are fixed here, from the disk as it is now.
Plan_RewritesWithSteps(p) ==
  /\ Goto(p, "next")
  /\ todo' = [todo EXCEPT ![p] = IF Pending = <<>> THEN Dflash2
                                 ELSE Pending \o Dflash2 \o Rewrites]
  /\ UNCHANGED <<lock, ops>>

Plan(p) ==
  /\ Goto(p, "next")
  /\ todo' = [todo EXCEPT ![p] = Pending \o Dflash2 \o Rewrites]
  /\ UNCHANGED <<lock, ops>>

Check(p) ==
  /\ pc[p] = "check"
  /\ IF NeedsDownload
     THEN Goto(p, "download") /\ UNCHANGED <<lock, todo, ops>>
     ELSE Plan(p)
  /\ UNCHANGED <<disk, crashes>>

\* hf download fetches, in any order, each file that is not the published one.
Stale == {n \in HubNames : disk[File(n)] # Whole({})}

Fetch(p) ==
  /\ pc[p] = "download"
  /\ \E n \in Stale : disk' = [disk EXCEPT ![File(n)] = Whole({})]
  /\ UNCHANGED <<lock, pc, todo, ops, crashes>>

Downloaded(p) ==
  /\ pc[p] = "download" /\ Stale = {}
  /\ IF NeedsDownload THEN Exit(p, "failed") ELSE Plan(p)
  /\ UNCHANGED <<disk, crashes>>

\* The next script reads its inputs, or refuses to run and fails the prepare.
Begin(p) ==
  /\ pc[p] = "next" /\ todo[p] # <<>> /\ Head(todo[p]) # "dflash2"
  /\ IF CanRun(Head(todo[p]))
     THEN /\ Goto(p, "work")
          /\ ops' = [ops EXCEPT ![p] = OpsOf(Head(todo[p]))]
          /\ UNCHANGED <<lock, todo>>
     ELSE Exit(p, "failed")
  /\ UNCHANGED <<disk, crashes>>

EndStep(p) ==
  /\ pc[p] = "work" /\ ops[p] = <<>>
  /\ Goto(p, "next")
  /\ todo' = [todo EXCEPT ![p] = Tail(todo[p])]
  /\ UNCHANGED <<disk, lock, ops, crashes>>

\* backup_once: the first backup stays.
KeepsBackup_Never(o) == FALSE
KeepsBackup(o) == o.op = "backup" /\ Exists(o.to)

SkipBackup(p) ==
  /\ pc[p] = "work" /\ ops[p] # <<>> /\ KeepsBackup(Head(ops[p]))
  /\ ops' = [ops EXCEPT ![p] = Tail(ops[p])]
  /\ UNCHANGED <<disk, lock, pc, todo, crashes>>

\* The bytes go to the temp file; until the rename it may be cut short.
WriteTemp(p) ==
  /\ pc[p] = "work" /\ ops[p] # <<>>
  /\ LET o == Head(ops[p])
     IN /\ o.op \in {"put", "backup"} /\ ~KeepsBackup(o)
        /\ disk' = [disk EXCEPT ![Temp(o.to)] =
             Torn(IF o.op = "backup" THEN disk[o.from].marks ELSE o.marks)]
  /\ Goto(p, "publish")
  /\ UNCHANGED <<lock, todo, ops, crashes>>

Publish(p) ==
  /\ pc[p] = "publish"
  /\ LET to == Head(ops[p]).to
     IN disk' = [disk EXCEPT ![Temp(to)] = Absent,
                             ![to] = Whole(disk[Temp(to)].marks)]
  /\ Goto(p, "work")
  /\ ops' = [ops EXCEPT ![p] = Tail(ops[p])]
  /\ UNCHANGED <<lock, todo, crashes>>

HardLink(p) ==
  /\ pc[p] = "work" /\ ops[p] # <<>> /\ Head(ops[p]).op = "link"
  /\ disk' = [disk EXCEPT ![Head(ops[p]).to] = disk[Head(ops[p]).from]]
  /\ ops' = [ops EXCEPT ![p] = Tail(ops[p])]
  /\ UNCHANGED <<lock, pc, todo, crashes>>

\* The optional drafter: its files in any order, or a failure that is forgiven.
FetchDrafter(p) ==
  /\ pc[p] = "next" /\ todo[p] # <<>> /\ Head(todo[p]) = "dflash2"
  /\ \E n \in DrafterNames :
       ~Exists(File(n)) /\ disk' = [disk EXCEPT ![File(n)] = Whole({})]
  /\ UNCHANGED <<lock, pc, todo, ops, crashes>>

EndDrafter(p) ==
  /\ pc[p] = "next" /\ todo[p] # <<>> /\ Head(todo[p]) = "dflash2"
  /\ todo' = [todo EXCEPT ![p] = Tail(todo[p])]
  /\ UNCHANGED <<disk, lock, pc, ops, crashes>>

\* The second state(): nothing but the drafter may be left.
Recheck(p) ==
  /\ pc[p] = "next" /\ todo[p] = <<>>
  /\ Exit(p, IF NeedsDownload \/ Pending # <<>> THEN "failed" ELSE "done")
  /\ UNCHANGED <<disk, crashes>>

\* A kill, a full disk, a lost connection: set -e ends the script anywhere.
\* The first download is the one into a directory without a packed part.
Unpacked == \A n \in {"config", "index"} \cup Shards : Marks(n) = {}

Crash(p) ==
  /\ crashes < MaxCrashes
  /\ pc[p] \in {"check", "download", "next", "work", "publish"}
  /\ pc[p] = "download" => KillDownload = "any" \/ Unpacked
  /\ Exit(p, "down")
  /\ crashes' = crashes + 1
  /\ UNCHANGED disk

Step(p) ==
  \/ Acquire(p) \/ GiveUp(p) \/ Check(p) \/ Fetch(p) \/ Downloaded(p)
  \/ Begin(p) \/ EndStep(p)
  \/ SkipBackup(p) \/ WriteTemp(p) \/ Publish(p) \/ HardLink(p)
  \/ FetchDrafter(p) \/ EndDrafter(p) \/ Recheck(p)

Next == \E p \in Proc : Start(p) \/ Step(p) \/ Crash(p)

Spec == Init /\ [][Next]_vars

\* The network comes back, a service that failed is restarted (restart:
\* unless-stopped), and a running script gets to run.
FairSpec ==
  /\ Spec
  /\ \A p \in Proc : WF_vars(Step(p))
  /\ \A p \in Service : WF_vars(pc[p] # "done" /\ Start(p))

-----------------------------------------------------------------------------
(* Properties *)

Downloading == \E p \in Proc : pc[p] = "download"

IndexHolds ==
  /\ \A s \in Committed :
       /\ s \in Marks(ShardOf[s])
       /\ s \in QuantParts => s \in Marks("config")
       /\ s = "draft" => Exists(File("vocab"))
  /\ Exists(File("fast_index")) =>
       /\ Intact("fast_tensors")
       /\ Intact("fast_embed") /\ "embed" \in Marks("fast_embed")

\* An index is the commit point: whatever it points at is in its shard,
\* declared by config.json, and for the draft head has its id list, and the
\* fast variant's tensors and linked shard are complete, at every crash point
\* and whichever run wrote them.  Only a download replaces files under it.
IndexTruthful == Downloading \/ IndexHolds

\* No file a loader opens is ever cut short by a prepare, wherever the crash
\* falls: what was whole or not there is never torn afterwards.
ReadersSeeWholeFiles ==
  [][\A n \in Names : disk[File(n)].kind # "torn"
                       => disk'[File(n)].kind # "torn"]_disk

\* A change can be undone: the file as it was before the step's first run is
\* next to it, complete, and no later run writes over it.
OriginalsKept ==
  \A s \in Parts :
    /\ s \in Marks(ShardOf[s]) =>
         LET b == disk[BackupOf(ShardOf[s], BackupSuffix[s])]
         IN b.kind = "whole" /\ s \notin b.marks
    /\ \A n \in {"config", "index"} :
         s \in Marks(n) /\ s \in DOMAIN MetaSuffix =>
           LET b == disk[BackupOf(n, MetaSuffix[s])]
           IN b.kind = "whole" /\ s \notin b.marks

Ready == \E p \in Proc : pc[p] = "done"

Prepared ==
  /\ ~NeedsDownload /\ \A n \in Names : Exists(File(n)) => Intact(n)
  /\ Pending = <<>> /\ IndexHolds
  /\ \A n \in {"template", "fast_template"} :
       Exists(File(n)) => Rewritten \subseteq Marks(n)

\* A prepare that reports the model ready leaves every part in place and
\* every template rewritten, and no later start, crashed or not, spoils it.
ReadyIsPrepared == Ready => Prepared

\* However often it is killed, repeated starts prepare the model for good.
Converges == <>[]Prepared

\* The promise to the launcher: one download, then one part after another,
\* none ever taken back.  What a damaged volume holds when it is first started
\* counts from the end of its recovery download, which undoes all of it.
Usable == ~NeedsDownload /\ ~Downloading

Promise == INSTANCE PrepareSteps WITH
  Order <- <<"lm_head", "embed", "mtp", "draft", "fast">>,
  downloaded <- Usable,
  landed <- IF ~Usable THEN {}
            ELSE Committed
                   \cup (IF Exists(File("fast_index")) THEN {"fast"} ELSE {})

StepsLandInOrder == Promise!Spec
=============================================================================
