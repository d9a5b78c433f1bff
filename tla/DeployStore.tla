---------------------------- MODULE DeployStore ----------------------------
(***************************************************************************)
(* The deploy store of upac: the directories state/deploy/<digest>/ with   *)
(* their meta.json records, the counter state/next-seq, the images of the  *)
(* composefs repository and the boot selection, as every mutating command  *)
(* changes them, stage by stage.                                           *)
(*                                                                         *)
(* One command runs at a time (the process lock, module Orchestrator).     *)
(* Between any two of its steps the command may be cancelled, fail, or be  *)
(* killed, and the machine may reboot.  An action is one stage of the      *)
(* command's pipeline, or one disk write of a stage that does several.     *)
(*                                                                         *)
(* Simplifications: a digest is a model value; the contents of a /usr or   *)
(* /etc tree are abstracted to the digest a stage picks; config_history    *)
(* is the set of its digests; subject, message and timestamp are left out; *)
(* hooks either pass or fail the stage; Deploy::new has succeeded.         *)
(***************************************************************************)
EXTENDS Naturals, FiniteSets

CONSTANTS
    Prefixes,        \* the /usr digests that may ever be committed
    Configs,         \* the /etc digests that may ever be committed
    Genesis,         \* the prefix digest written by the installer
    GenesisConfig,   \* and its config digest
    RetentionDepth,  \* [gc] retention_depth of /etc/upac.d/upac.toml
    SeqBound,        \* bound of the model: no record is born at this seq
    Commands,        \* the commands the user issues
    Disturbances,    \* what may go wrong: a subset of Mishaps
    None             \* an absent record, digest or guard

AllCommands == {"install", "update", "uninstall", "files", "commit",
                "rollback", "pin", "gc"}

\* "fault": a stage fails on an I/O error or a critical hook; "undo": a
\* rollback guard fails; "crash": the process dies; "reboot": the machine
\* restarts.
Mishaps == {"fault", "cancel", "undo", "crash", "reboot"}

ASSUME GenesisAssumption == /\ Genesis \in Prefixes
                            /\ GenesisConfig \in Configs
ASSUME DigestAssumption  == /\ Prefixes \cap Configs = {}
                            /\ None \notin Prefixes \cup Configs
ASSUME FiniteAssumption  == IsFiniteSet(Prefixes) /\ IsFiniteSet(Configs)
ASSUME NumberAssumption  == RetentionDepth \in Nat /\ SeqBound \in Nat \ {0}
ASSUME CommandAssumption == Commands \subseteq AllCommands
ASSUME MishapAssumption  == Disturbances \subseteq Mishaps

\* A meta.json: DeployRecord without its display fields.
Record == [seq : Nat, working : Configs, history : SUBSET Configs,
           pinned : BOOLEAN]

ASSUME NoneAssumption == /\ None \notin Nat \cup Record
                         /\ None \notin [prefix : Prefixes,
                                         previous : Record \cup {None}]

VARIABLES
    \* on disk
    dirs,        \* the directories below state/deploy
    record,      \* record[p]: the meta.json of p, or None
    nextSeq,     \* state/next-seq
    images,      \* the digests the repository can open
    \* in the firmware and on the kernel command line
    booted,      \* composefs.digest of the running system
    persistent,  \* the persistent boot option
    oneShot,     \* the one-shot boot option, or None
    \* in the memory of the running command
    cmd,         \* the command, or "none"
    stage,       \* the step it takes next
    target,      \* NewPrefixDigest / TargetPrefixDigest
    config,      \* the config digest to be recorded
    taken,       \* the seq allocated for a record not yet written
    undo,        \* the one effective guard of the rollback stack
    pending,     \* prune: doomed deploys; gc: PendingDeploys
    roots,       \* gc: CollectedRoots
    \* what the last command returned
    outcome

disk    == <<dirs, record, nextSeq, images>>
boot    == <<booted, persistent, oneShot>>
memory  == <<target, config, taken, undo, pending, roots>>
vars    == <<dirs, record, nextSeq, images, booted, persistent, oneShot,
             cmd, stage, target, config, taken, undo, pending, roots,
             outcome>>

Builders == {"install", "update", "uninstall", "files"}

\* Stages at whose start the engine looks at the cancel token.  The other
\* steps are inside a stage.
Boundaries == {"preHooks", "assemble", "commitTree", "merge", "restore",
               "checkout", "swap", "declarative", "postHooks", "retention",
               "setPinned", "collect", "clean", "finish"}
Inner      == {"inherit", "createDir", "allocateSeq", "writeRecord", "updateRecord",
               "removing", "sweeping"}
Results    == {"none", "ok", "Cancelled", "NotFound", "MissingResult",
               "ReadOnly", "StageFailed", "Killed"}

Recorded == {p \in Prefixes : record[p] # None}

RootsOf(p, rec) == {p, rec.working} \cup rec.history
RecordRoots(p)  == RootsOf(p, record[p])
Owns(p, c)     == c = record[p].working \/ c \in record[p].history

Guard(p) == [prefix |-> p, previous |-> record[p]]

----------------------------------------------------------------------------
(***************************************************************************)
(* The retention policy.                                                   *)
(***************************************************************************)
Newer(p) == {q \in Recorded : record[q].seq > record[p].seq}
Older(p) == {q \in Recorded : record[q].seq < record[p].seq}

NewestOf(S) == {p \in S : \A q \in S : record[q].seq <= record[p].seq}

\* The booted deploy and the one that follows it in descending seq order.
CurrentPair ==
    IF booted \in Recorded THEN {booted} \cup NewestOf(Older(booted)) ELSE {}

RetentionWindow == {p \in Recorded : Cardinality(Newer(p)) < RetentionDepth}

Protected ==
    CurrentPair \cup {p \in Recorded : record[p].pinned} \cup RetentionWindow

\* Mutant: the user's pins are not consulted.
DoomedPinsIgnored == Recorded \ (CurrentPair \cup RetentionWindow)

Doomed == Recorded \ Protected

----------------------------------------------------------------------------
(***************************************************************************)
(* Start, end and failure of a command.                                    *)
(***************************************************************************)
\* What genesis leaves on the disk it installs to, after the first boot.
Init ==
    /\ dirs = {Genesis}
    /\ \E pin \in BOOLEAN :
         record = [p \in Prefixes |->
                      IF p = Genesis
                      THEN [seq |-> 0, working |-> GenesisConfig,
                            history |-> {}, pinned |-> pin]
                      ELSE None]
    /\ nextSeq = 1
    /\ images = {Genesis, GenesisConfig}
    /\ booted = Genesis /\ persistent = Genesis /\ oneShot = None
    /\ cmd = "none" /\ stage = "idle"
    /\ target = None /\ config = None /\ taken = None /\ undo = None
    /\ pending = {} /\ roots = {}
    /\ outcome = "none"

FirstStage(c) == CASE c = "gc"  -> "retention"
                   [] c = "pin" -> "setPinned"
                   [] OTHER     -> "preHooks"

\* The user issues a command and it takes the lock.
Begin(c) ==
    /\ cmd = "none"
    /\ c \in Builders => nextSeq < SeqBound
    /\ cmd' = c
    /\ stage' = FirstStage(c)
    /\ outcome' = "none"
    /\ UNCHANGED <<disk, boot, memory>>

\* The command's memory is gone: it returned or it was killed.
Return(result) ==
    /\ cmd' = "none" /\ stage' = "idle"
    /\ target' = None /\ config' = None /\ taken' = None /\ undo' = None
    /\ pending' = {} /\ roots' = {}
    /\ outcome' = result

\* Context::unwind.  The guards of the other stages change nothing here; the
\* one of a record write restores the previous meta.json or removes it.  It
\* cannot write into a directory that is gone, and its error is ignored.
\* Mutant: the guards are dropped instead of run.
UnwoundDropped(records) == records

\* Mutant: the guard of a write does not know that there was a file before.
UnwoundRemoves(records) ==
    IF undo = None THEN records ELSE [records EXCEPT ![undo.prefix] = None]

Unwound(records) ==
    IF undo = None THEN records
    ELSE [records EXCEPT ![undo.prefix] =
            IF undo.prefix \in dirs THEN undo.previous ELSE None]

AbortWith(records, result) ==
    /\ \/ record' = Unwound(records)
       \/ "undo" \in Disturbances /\ record' = records
    /\ Return(result)

Abort(result) ==
    /\ AbortWith(record, result)
    /\ UNCHANGED <<dirs, nextSeq, images, boot>>

\* Cursor::next finds the token set: before every stage and after the last.
Cancel ==
    /\ "cancel" \in Disturbances
    /\ stage \in Boundaries
    /\ Abort("Cancelled")

\* Any step of a running command may fail.
Fail ==
    /\ "fault" \in Disturbances
    /\ cmd # "none" /\ stage # "finish"
    /\ Abort("StageFailed")

Finish ==
    /\ stage = "finish"
    /\ Return("ok")
    /\ UNCHANGED <<disk, boot>>

----------------------------------------------------------------------------
(***************************************************************************)
(* The stages.  Goto(s) is StageResult::Advance to the stage s, or the     *)
(* next write inside a stage.                                              *)
(***************************************************************************)
Goto(s) == stage' = s /\ UNCHANGED <<cmd, outcome>>

FirstBody == CASE cmd \in Builders   -> "assemble"
               [] cmd = "commit"     -> "merge"
               [] cmd = "rollback"   -> "restore"

PreHooks ==
    /\ stage = "preHooks"
    /\ Goto(FirstBody)
    /\ UNCHANGED <<disk, boot, memory>>

\* Unpacking the packages, opening the booted tree and importing, removing or
\* replacing files in it: all in memory and in the scratch directory.
Assemble ==
    /\ stage = "assemble"
    /\ booted \in images
    /\ Goto("commitTree")
    /\ UNCHANGED <<disk, boot, memory>>

\* CommitTransactionStage: the new /usr becomes an image.  files goes on, in
\* the same stage, to inherit the booted deploy's record unless the digest
\* already has one.
CommitTree(p) ==
    /\ stage = "commitTree"
    /\ target' = p
    /\ images' = images \cup {p}
    /\ Goto(IF cmd = "files" THEN "inherit" ELSE "merge")
    /\ UNCHANGED <<dirs, record, nextSeq, boot,
                   config, taken, undo, pending, roots>>

Inherit ==
    /\ stage = "inherit"
    /\ booted \in Recorded
    /\ Goto(IF target \in Recorded THEN "checkout" ELSE "createDir")
    /\ UNCHANGED <<disk, boot, memory>>

\* MergeStage of install, update and uninstall, TransactionStage of commit:
\* the /etc built from the booted deploy's working config becomes an image.
\* commit records it under the booted deploy itself.
BaseReadable == booted \in Recorded /\ record[booted].working \in images

Merge(c) ==
    /\ stage = "merge"
    /\ BaseReadable
    /\ config' = c
    /\ images' = images \cup {c}
    /\ LET owner == IF cmd = "commit" THEN booted ELSE target
       IN  /\ target' = owner
           /\ Goto(IF owner \in Recorded THEN "updateRecord" ELSE "createDir")
    /\ UNCHANGED <<dirs, record, nextSeq, boot, taken, undo, pending, roots>>

CreateDir ==
    /\ stage = "createDir"
    /\ dirs' = dirs \cup {target}
    /\ Goto("allocateSeq")
    /\ UNCHANGED <<record, nextSeq, images, boot, memory>>

\* Mutant: the counter file is read and not written back.
AllocateSeqUncounted ==
    /\ stage = "allocateSeq"
    /\ taken' = nextSeq
    /\ Goto("writeRecord")
    /\ UNCHANGED <<disk, boot, target, config, undo, pending, roots>>

AllocateSeq ==
    /\ stage = "allocateSeq"
    /\ taken' = nextSeq
    /\ nextSeq' = nextSeq + 1
    /\ Goto("writeRecord")
    /\ UNCHANGED <<dirs, record, images, boot,
                   target, config, undo, pending, roots>>

\* Mutant: the empty record is written before its config is known.
NewRecordUnsealed == [seq |-> taken, working |-> None,
                      history |-> {}, pinned |-> FALSE]

NewRecord ==
    IF cmd = "files"
    THEN [seq |-> taken, working |-> record[booted].working,
          history |-> record[booted].history, pinned |-> FALSE]
    ELSE [seq |-> taken, working |-> config,
          history |-> {config}, pinned |-> FALSE]

WriteRecord ==
    /\ stage = "writeRecord"
    /\ record' = [record EXCEPT ![target] = NewRecord]
    /\ undo' = Guard(target)
    /\ taken' = None
    /\ Goto("checkout")
    /\ UNCHANGED <<dirs, nextSeq, images, boot, target, config, pending, roots>>

\* DeployRecord::update_working_config on a record that exists.
UpdateRecord ==
    /\ stage = "updateRecord"
    /\ IF record[target].working = config
       THEN UNCHANGED <<record, undo>>
       ELSE /\ record' = [record EXCEPT ![target].working = config,
                                        ![target].history = @ \cup {config}]
            /\ undo' = Guard(target)
    /\ Goto(IF cmd = "commit" THEN "postHooks" ELSE "checkout")
    /\ UNCHANGED <<dirs, nextSeq, images, boot,
                   target, config, taken, pending, roots>>

\* rollback's MergeStage: the requested config digest selects the first
\* record, in directory order, that owns it.  The sysroot is mounted
\* read-only, so a record that would have to change is an error (Refuse).
Restore(p, c) ==
    /\ stage = "restore"
    /\ p \in Recorded /\ Owns(p, c)
    /\ record[p].working = c
    /\ target' = p
    /\ Goto("checkout")
    /\ UNCHANGED <<disk, boot, config, taken, undo, pending, roots>>

\* CheckoutStage: the boot entry is written on the ESP.
Checkout ==
    /\ stage = "checkout"
    /\ target \in images
    /\ Goto("swap")
    /\ UNCHANGED <<disk, boot, memory>>

\* SwapStage: set_one_shot of the boot plugin.
Swap ==
    /\ stage = "swap"
    /\ oneShot' = target
    /\ Goto(IF cmd \in {"install", "update", "uninstall"}
            THEN "declarative" ELSE "postHooks")
    /\ UNCHANGED <<disk, booted, persistent, memory>>

\* The declarative HookStage finds its packages' triggers in the context
\* only if a stage has put them there: uninstall's PreparationStage does.
Declarative ==
    /\ stage = "declarative"
    /\ cmd = "uninstall"
    /\ Goto("postHooks")
    /\ UNCHANGED <<disk, boot, memory>>

PostHooks ==
    /\ stage = "postHooks"
    /\ Goto("retention")
    /\ UNCHANGED <<disk, boot, memory>>

\* prune_deploys: the doomed set is computed once from all records.
Retention ==
    /\ stage = "retention"
    /\ pending' = Doomed
    /\ Goto("removing")
    /\ UNCHANGED <<disk, boot, target, config, taken, undo, roots>>

\* remove_dir_all of the next doomed deploy, newest first.
RemoveDeploy(p) ==
    /\ stage = "removing" /\ cmd # "rollback"
    /\ p \in NewestOf(pending)
    /\ dirs' = dirs \ {p}
    /\ record' = [record EXCEPT ![p] = None]
    /\ pending' = pending \ {p}
    /\ UNCHANGED <<nextSeq, images, boot, cmd, stage, outcome,
                   target, config, taken, undo, roots>>

\* The same call stopped half-way, by an error or by the death of the
\* process, after meta.json was unlinked: the directory stays.
TornRemoval(p) ==
    /\ stage = "removing" /\ cmd # "rollback"
    /\ p \in NewestOf(pending)
    /\ LET torn == [record EXCEPT ![p] = None]
       IN  \/ "fault" \in Disturbances /\ AbortWith(torn, "StageFailed")
           \/ /\ "crash" \in Disturbances
              /\ record' = torn
              /\ Return("Killed")
    /\ UNCHANGED <<dirs, nextSeq, images, boot>>

\* The loop is over.  gc's PruneStage then lists every directory left.
Pruned ==
    /\ stage = "removing" /\ pending = {}
    /\ IF cmd = "gc" THEN pending' = dirs /\ Goto("collect")
                     ELSE pending' = {}   /\ Goto("finish")
    /\ UNCHANGED <<disk, boot, target, config, taken, undo, roots>>

\* Mutant: the older configs of a record are not roots.
CollectWorkingOnly(p) ==
    /\ stage = "collect"
    /\ p \in pending \cap Recorded
    /\ roots' = roots \cup {p, record[p].working}
    /\ pending' = pending \ {p}
    /\ Goto(IF pending' = {} THEN "clean" ELSE "collect")
    /\ UNCHANGED <<disk, boot, target, config, taken, undo>>

\* Mutant: the stage advances after one directory.
CollectOnce(p) ==
    /\ stage = "collect"
    /\ p \in pending \cap Recorded
    /\ roots' = roots \cup RecordRoots(p)
    /\ pending' = pending \ {p}
    /\ Goto("clean")
    /\ UNCHANGED <<disk, boot, target, config, taken, undo>>

\* Mutant: the directory stays at the head of the queue.
CollectNoPop(p) ==
    /\ stage = "collect"
    /\ p \in pending \cap Recorded
    /\ roots' = roots \cup RecordRoots(p)
    /\ Goto("collect")
    /\ UNCHANGED <<disk, boot, target, config, taken, undo, pending>>

\* CollectRootsStage, once per directory.
Collect(p) ==
    /\ stage = "collect"
    /\ p \in pending \cap Recorded
    /\ roots' = roots \cup RecordRoots(p)
    /\ pending' = pending \ {p}
    /\ Goto(IF pending' = {} THEN "clean" ELSE "collect")
    /\ UNCHANGED <<disk, boot, target, config, taken, undo>>

\* CleaningStage: the repository drops what no root reaches, one by one.
Sweep(i) ==
    /\ stage \in {"clean", "sweeping"}
    /\ i \in images \ roots
    /\ images' = images \ {i}
    /\ Goto("sweeping")
    /\ UNCHANGED <<dirs, record, nextSeq, boot, memory>>

Swept ==
    /\ stage \in {"clean", "sweeping"}
    /\ images \subseteq roots
    /\ Goto("finish")
    /\ UNCHANGED <<disk, boot, memory>>

SetPinned(p, value) ==
    /\ stage = "setPinned"
    /\ p \in Recorded
    /\ IF record[p].pinned = value
       THEN UNCHANGED <<record, undo>>
       ELSE /\ record' = [record EXCEPT ![p].pinned = value]
            /\ undo' = Guard(p)
    /\ Goto("finish")
    /\ UNCHANGED <<dirs, nextSeq, images, boot,
                   target, config, taken, pending, roots>>

----------------------------------------------------------------------------
(***************************************************************************)
(* Errors the code itself runs into, without any fault.                    *)
(***************************************************************************)
Refusal(result) ==
    \/ /\ result = "NotFound"
       /\ \/ stage = "assemble" /\ booted \notin images
          \/ stage = "inherit" /\ booted \notin Recorded
          \/ stage = "merge" /\ ~BaseReadable
          \/ stage = "restore" /\ \E c \in Configs :
                                    \A p \in Recorded : ~Owns(p, c)
          \/ stage = "checkout" /\ target \notin images
          \/ stage = "collect" /\ pending \ Recorded # {}
          \/ stage = "setPinned" /\ Recorded # Prefixes
    \/ /\ result = "MissingResult"
       /\ \/ stage = "declarative" /\ cmd # "uninstall"
          \/ stage = "collect" /\ pending = {}
    \/ /\ result = "ReadOnly"
       /\ \/ stage = "restore" /\ \E p \in Recorded, c \in Configs :
                                    Owns(p, c) /\ record[p].working # c
          \/ stage = "removing" /\ cmd = "rollback" /\ pending # {}

Refuse ==
    \E result \in {"NotFound", "MissingResult", "ReadOnly"} :
        Refusal(result) /\ Abort(result)

----------------------------------------------------------------------------
(***************************************************************************)
(* The environment.                                                        *)
(***************************************************************************)
\* The process dies: no guard runs, the lock's socket is closed by the kernel.
Crash ==
    /\ "crash" \in Disturbances
    /\ cmd # "none"
    /\ Return("Killed")
    /\ UNCHANGED <<disk, boot>>

\* A boot needs the image and the deploy's directory, not its meta.json.
Bootable == images \cap dirs

\* The firmware consumes the one-shot option; if that deploy does not come up,
\* the next start takes the persistent one.
Reboot ==
    /\ "reboot" \in Disturbances
    /\ booted' \in {oneShot, persistent} \cap Bootable
    /\ oneShot' = None
    /\ Return("Killed")
    /\ UNCHANGED <<disk, persistent>>

\* The late-boot hook calls confirm_boot of the boot plugin.
ConfirmBoot ==
    /\ persistent # booted
    /\ persistent' = booted
    /\ UNCHANGED <<disk, booted, oneShot, cmd, stage, memory, outcome>>

StageStep ==
    \/ PreHooks \/ Assemble \/ Inherit \/ CreateDir \/ AllocateSeq \/ WriteRecord
    \/ UpdateRecord \/ Checkout \/ Swap \/ Declarative \/ PostHooks
    \/ Retention \/ Pruned \/ Swept \/ Refuse \/ Finish
    \/ \E p \in Prefixes : \/ CommitTree(p) \/ RemoveDeploy(p) \/ Collect(p)
                           \/ \E c \in Configs : Restore(p, c)
                           \/ \E value \in BOOLEAN : SetPinned(p, value)
    \/ \E c \in Configs : Merge(c)
    \/ \E i \in images : Sweep(i)

Disturb ==
    \/ Cancel \/ Fail \/ Crash \/ Reboot
    \/ \E p \in Prefixes : TornRemoval(p)

Next ==
    \/ \E c \in Commands : Begin(c)
    \/ StageStep
    \/ Disturb
    \/ ConfirmBoot

Spec == Init /\ [][Next]_vars

\* A command that has started keeps running: its process is scheduled.
FairSpec == Spec /\ WF_vars(StageStep)

----------------------------------------------------------------------------
(***************************************************************************)
(* Properties.                                                             *)
(***************************************************************************)
OrNone(S) == S \cup {None}

\* Type invariant.
TypeOK ==
    /\ dirs \subseteq Prefixes
    /\ record \in [Prefixes -> OrNone(Record)]
    /\ nextSeq \in Nat
    /\ images \subseteq Prefixes \cup Configs
    /\ booted \in Prefixes /\ persistent \in Prefixes
    /\ oneShot \in OrNone(Prefixes)
    /\ cmd \in AllCommands \cup {"none"}
    /\ stage \in Boundaries \cup Inner \cup {"idle"}
    /\ target \in OrNone(Prefixes)
    /\ config \in OrNone(Configs)
    /\ taken \in OrNone(Nat)
    /\ undo \in OrNone([prefix : Prefixes, previous : OrNone(Record)])
    /\ pending \subseteq Prefixes
    /\ roots \subseteq Prefixes \cup Configs
    /\ outcome \in Results

\* seq is the authority of rollback and retention: it names one record only,
\* whatever was interrupted between allocate_seq and the write of meta.json.
SeqNamesOneRecord ==
    /\ \A p, q \in Recorded : record[p].seq = record[q].seq => p = q
    /\ \A p \in Recorded : record[p].seq < nextSeq

\* Every digest a record names can be opened: no sweep, and no order of the
\* writes of a command, leaves a record that points at a missing image.
RecordsOpenable ==
    \A p \in Recorded : RecordRoots(p) \subseteq images

\* next-seq never goes back, and a record keeps the seq it was born with: a
\* failed command burns its number and an undone record gets its own back.
SeqKept ==
    /\ nextSeq' >= nextSeq
    /\ \A p \in Prefixes :
         record[p] # None /\ record'[p] # None => record'[p].seq = record[p].seq

SeqIsForEver == [][SeqKept]_vars

\* The running system keeps its record: neither the clean-up nor the undo of
\* a failed command removes it from under the booted deploy.
BootedKept == booted \in Recorded => record'[booted] # None

BootedKeepsRecord == [][BootedKept]_vars

\* The clean-up removes only what the policy gives up, judged at the moment of
\* the removal and not when the doomed set was computed: not a pinned deploy,
\* not the booted one or its older neighbour, and never one of the newest N.
PolicyKept ==
    stage = "removing" /\ cmd' = cmd =>
       \A p \in Recorded \ Recorded' :
          /\ ~record[p].pinned
          /\ p \notin CurrentPair
          /\ Cardinality(Newer(p)) >= RetentionDepth

CleanupKeepsPolicy == [][PolicyKept]_vars

\* What a failed or cancelled command leaves in the records is what it found,
\* except for the deploys its clean-up had removed: at every stage the guards
\* lead back to the same records, and the abort takes that way.
RollbackPoint(p) == IF undo # None /\ undo.prefix = p THEN undo.previous
                                                      ELSE record[p]
Restored ==
    cmd # "none" /\ outcome' \notin {"ok", "Killed"} =>
       \A p \in Prefixes :
          \/ RollbackPoint(p)' = RollbackPoint(p)
          \/ record'[p] = None /\ (stage = "removing" \/ p \notin dirs)

AbortRestores == [][Restored]_vars

\* A gc that succeeds has kept exactly what the remaining records reach.
GcExact ==
    cmd = "gc" /\ cmd' = "none" /\ outcome' = "ok"
       => images = UNION {RecordRoots(p) : p \in Recorded}

GcIsExact == [][GcExact]_vars

\* Every command that starts returns.
CommandsReturn == cmd # "none" ~> cmd = "none"

----------------------------------------------------------------------------
(***************************************************************************)
(* The inductive invariant that the theorems of DeployStoreProofs rest on. *)
(***************************************************************************)
\* The stages that write a new record, and all the stages up to that point.
Writing == {"createDir", "allocateSeq", "writeRecord"}
Unwritten == {"preHooks", "assemble", "commitTree", "inherit", "merge",
              "restore", "updateRecord", "setPinned"} \cup Writing
Sweeping == {"collect", "clean", "sweeping"}

\* What each stage can rely on from the earlier ones.
ControlInv ==
    /\ cmd = "none" => /\ stage = "idle"
                       /\ target = None /\ config = None /\ undo = None
                       /\ roots = {}
    /\ cmd = "gc" => /\ stage \in {"retention", "removing", "finish"} \cup Sweeping
                     /\ target = None /\ config = None /\ undo = None
    /\ stage \in Sweeping => cmd = "gc"
    /\ stage \notin Sweeping \cup {"finish"} => roots = {}
    /\ stage = "preHooks" => cmd \in Builders \cup {"commit", "rollback"}
    /\ stage \in Unwritten => undo = None
    /\ stage = "merge" => cmd # "files" /\ (cmd = "commit" \/ target # None)
    /\ stage = "inherit" => cmd = "files"
    /\ stage \in Writing \cup {"inherit", "updateRecord", "checkout", "swap"}
          => target # None
    /\ stage \in Writing => target \notin Recorded /\ booted \in Recorded
    /\ stage \in Writing \cup {"updateRecord"} /\ cmd # "files" => config # None
    /\ stage = "updateRecord" => target \in Recorded /\ cmd # "files"
    /\ stage \in {"allocateSeq", "writeRecord"} => target \in dirs
    /\ stage = "writeRecord" => taken # None
    /\ stage = "removing" => booted \notin pending

\* A directory without meta.json is possible, a record without one is not.
\* What the guard would restore is an earlier state of the record it covers.
GuardInv ==
    /\ Recorded \subseteq dirs
    /\ undo # None /\ undo.prefix \in dirs =>
          /\ undo.prefix \in Recorded
          /\ undo.previous # None =>
                undo.previous.seq = record[undo.prefix].seq
    /\ undo # None /\ undo.previous = None => undo.prefix # booted

SeqInv ==
    /\ SeqNamesOneRecord
    /\ taken # None => /\ taken < nextSeq
                       /\ \A p \in Recorded : record[p].seq # taken

ImageInv ==
    /\ RecordsOpenable
    /\ target # None => target \in images
    /\ config # None => config \in images
    /\ undo # None /\ undo.previous # None =>
          RootsOf(undo.prefix, undo.previous) \subseteq images
    /\ stage \in Sweeping =>
          \A p \in Recorded \ pending : RecordRoots(p) \subseteq roots
    /\ stage \in {"clean", "sweeping"} => pending = {}
    /\ \A i \in roots : \E p \in Recorded : i \in RecordRoots(p)
    /\ cmd = "gc" /\ stage = "finish" =>
          \A i \in images : \E p \in Recorded : i \in RecordRoots(p)

\* What is left of the doomed set is doomed still.
PolicyInv == stage = "removing" => pending \subseteq Doomed

Inv == TypeOK /\ ControlInv /\ GuardInv /\ SeqInv /\ ImageInv

----------------------------------------------------------------------------
(***************************************************************************)
(* What the documentation promises and the code does not keep: each of     *)
(* these is checked alone, by a run that expects its violation.            *)
(***************************************************************************)
Removed == Recorded \ Recorded'

\* The clean-up never removes the immutable pins: the persistent deploy, which
\* a boot that is not confirmed falls back to, and a staged one.
ImmutablePinsStay ==
    [][ (stage = "removing" /\ cmd' = cmd) => {oneShot, persistent} \cap Removed = {} ]_vars

\* The pipeline of every mutating command is real end to end: no stage finds
\* that an earlier one has not provided what it takes from the context.
PipelinesAreComplete == outcome # "MissingResult"

\* A rollback can restore a config digest of a record's history.
RollbackRestoresConfigs ==
    [][ (cmd = "rollback") => (outcome' # "ReadOnly") ]_vars

\* The heavy clean-up can run: gc ends well or is stopped from outside.
GcCanRun == [][ (cmd = "gc") => (outcome' # "NotFound") ]_vars

\* A config digest a record worked with stays in the record's history, so it
\* can be asked for again and its image is kept.
SealedConfigsStay ==
    [][ \A p \in Recorded \cap Recorded' :
          cmd' = cmd => \A c \in Configs : Owns(p, c) => Owns(p, c)' ]_vars

\* A command that fails leaves nothing switched over: a deploy whose record
\* was unwound is not what the machine boots next.
ArmedDeployIsRecorded ==
    (cmd = "none" /\ oneShot # None) => oneShot \in Recorded

=============================================================================
