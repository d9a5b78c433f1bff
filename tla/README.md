# A verification of upac

TLA+ models of the library behind upac (`src/lib/lib`), the package manager that
builds a system as composefs images and switches between them at boot.  TLC checks the
models on small instances, TLAPS proves the most important properties for every value of
the constants.  Paths below are relative to the repository; those that begin with a
directory such as `deploy/` or `orchestrator/` are under `src/lib/lib/src/`.

1. [The system](#1-the-system)
2. [The modules](#2-the-modules)
3. [The runs](#3-the-runs)
4. [The proofs](#4-the-proofs)
5. [Where code and documentation disagree](#5-where-code-and-documentation-disagree)
6. [What is not modelled, and the plan](#6-what-is-not-modelled-and-the-plan)

## 1. The system

A **deploy** is a `/usr` image named by its fs-verity digest, with a record
`state/deploy/<digest>/meta.json`: a sequence number (`seq`), the digest of the `/etc`
image it works with (`working_config`), the history of such digests, and a pin.  The
machine boots one deploy.  A command builds another one, writes its boot entry, arms it as
the *one-shot* option of the firmware, and removes the deploys that the retention policy
gives up; a boot that comes up makes itself the *persistent* option.

| Component | State | Operations | Talks to | What is hard | What makes it correct |
|---|---|---|---|---|---|
| Deploy store: `database/record.rs`, `deploy/`, `fs.rs` | directories, `meta.json`, `next-seq` | read, write with a guard, `allocate_seq`, `update_working_config`, `prune_deploys` | every mutating command | several writes per stage, a crash between two of them, guards that restore | one record per seq; seq for ever; an abort restores; the policy is kept |
| Mutating commands: `mutated/` | the context of the running pipeline | install, update, uninstall, files, commit, rollback, pin, gc, mime | engine, store, repository, boot plugins, hooks | twelve stages in a row, each may fail, be cancelled or killed; what an earlier stage did may be undone | no record without images; the running deploy keeps its record |
| Stage engine: `orchestrator/` | cursor, context slots, stack of guards | `validate`, `run_exclusive`, `run_concurrent`, `unwind` | lock, token, stages | Repeat, RepeatBack, failure, a guard that fails, a panic, cancellation | one writer at a time; guards newest first; a run is atomic for the next one |
| Process lock: `lock.rs` | an abstract Unix socket | `acquire`, drop | engine | release when the owner dies | mutual exclusion |
| Cancel token, exported calls: `export/`, `src/lib/abi` | an atomic flag | `cancel`, `is_cancelled`, `reset`; one exported function per command | frontend, engine | set at any moment from another thread, reset at the end of a call only | a cancelled run ends, and a cancel is not forgotten |
| Error kinds: `errors.rs` and an `error.rs` per component | – | conversions from error to error, to an `ErrorKind` at the C interface | every stage | enumerations four deep, one per command | a failure is told as what it is |
| ABI and its macros: `src/lib/abi`, `src/lib/macro` | blocks of the C allocator | `validate`, conversion, `free` | frontend | every field of every struct by derived code | no bad field gets in, nothing allocated stays |
| Garbage collection: `mutated/gc/`, `composefs/repository.rs` | pending directories, roots | prune, collect, sweep | store, composefs | a sweep of shared objects against roots read one by one | nothing reachable is lost, nothing else stays |
| Hook batches: `scripts/` | a JoinSet of blocking tasks | load, match, run, undo primitives | engine (nested) | tasks that outlive the failure of one of them | all primitives of a failed batch undone |
| Configuration merge: `config/merge.rs`, `composefs/overlay.rs` | three trees | overlay, three-way merge | merge stages | every combination of kinds on three sides | no edit of the user is lost |
| Tree operations, package database: `composefs/file.rs`, `database/` | image under construction, redb tables | insert, remove, replace, attribute | import and remove stages | the table and the tree must agree | every file has its package |
| Boot plugins and backends: `plugin/boot`, `boot/`, `src/booters` | ESP entries, firmware variables | resolve, write entry, `set_one_shot`, `confirm_boot` | checkout, swap | writes outside the repository, no rollback | what is armed can boot |
| Decoders: `plugin/decoder`, `src/decoders` | a scratch directory | unpack, triggers | preparation stages | foreign archive formats | – |
| Genesis: `src/lib/setup` | a target disk | partition, copy, write the first record | installer media | – | the initial state of the store |
| Queries: `unmutated/` | none | list, diff, search | engine (`run_concurrent`) | run beside a writer, results in untyped slots | what changed is laid to the package that changed it |
| Command line: `src/user/upac-cli` | the calls of one program | one module per subcommand | exported calls | two calls under one token, Ctrl-C at any moment | it always ends |
| MIME synchronisation: `mutated/mime` | a queue of writes | prepare, render, write | engine | – | – |
| Signatures, row and JSON codecs, `setup-cli`, `sign-cli`, tooling | – | – | – | – | – |

`PROJECT.json` lists the components with their files and state, and under `hazards` each
place in the code where something is hard to test, with the properties that watch it.

## 2. The modules

| Module | What it is |
|---|---|
| `DeployStore` | The store and the boot selection as the eight commands change them, one action per stage, or per disk write of a stage that does several |
| `BootSelect` | The abstract specification of a bootloader: a persistent option and a one-shot one that a start uses up |
| `BootEntries` | How it is done: entries on the ESP, the choice of a plugin, the four plugins, the options of the loaders |
| `Orchestrator` | The stage engine: callers, lock, cursor, context slots, guards, token |
| `AtomicRuns` | The abstract specification of the engine: what the next command finds on the disk |
| `HookBatch` | One hook stage: a batch of blocking tasks, their primitives, the unwinding while some of them still run |
| `Tables` | Functions written down entry by entry, with a definition that proofs can use |
| `Trees` | File system trees and the operations on them: insert, remove, import, both overlays, diff, three-way merge |
| `EtcConfig` | `/etc` through edits of the user, commands and boots, over `Trees` |
| `PackageDb` | The five tables of the database, what is done to them and what is read from them |
| `Packages` | Commands on the tree of `/usr` with the database inside it, over `Trees` and `PackageDb` |
| `Pipelines` | The stages of all 21 exported commands with the slots they take, read and put, and the states they can name |
| `Kinds` | Every error type: what it may carry and the `ErrorKind` it is told as |
| `Requests`, `Responses` | The structs of the C interface, field by field: what `validate` refuses, what `free` gives back |
| `Calls` | A frontend and the library in one process: the calls of a program from request to response, over the four above |
| `DeployStoreProofs`, `OrchestratorProofs`, `HookBatchProofs`, `EtcConfigProofs`, `PackagesProofs`, `CallsProofs`, `BootEntriesProofs` | Theorems |
| `TreesProofs` | Lemmas about paths and trees that `EtcConfigProofs` and `PackagesProofs` rest on |
| `MC...` | The values TLC is given: symmetry sets, pipelines, archives, hooks, machines |

How they fit together:

```
            BootSelect                          AtomicRuns
           /          \                             |
  implemented by   implemented by             implemented by
   DeployStore      BootEntries                Orchestrator
        |               |                           |
  which deploys     which entry               which steps of a run count;
  exist             starts them               HookBatch: one stage of it, in parallel
        |
  Packages, EtcConfig: what is in a deploy        (EXTEND Trees; PackageDb)
  Calls: what a frontend sees of all this         (EXTENDS Pipelines, Kinds, Requests, Responses)
  (Trees, Kinds, Requests and Responses EXTEND Tables)
```

Each cuts the same commands from another side.  `DeployStore` assumes of boot options what
`BootSelect` says, and `BootEntries` shows on which machines that is so.  `DeployStore`, `Packages` and
`EtcConfig` run one command at a time, which is `MutualExclusion` of `Orchestrator`, and let a command that
fails leave nothing but what its guards miss, which is `RunsAreAtomic`.

### DeployStore

*State.*  `dirs` and `record` are the directories below `state/deploy` and their
`meta.json`: a directory without a record is a state the code can leave behind.  `nextSeq`
is `state/next-seq`, `images` what the repository can open; `booted`, `persistent` and
`oneShot` are the kernel command line and the boot options.  The other variables are the memory of the
one command that runs and vanish when it returns or dies.

*Actions.*  `Begin(c)` is the `run` of a command.  The stages follow in the order of
`assemble` in each `mutated/*/mod.rs`; `FirstStage`, `FirstBody` and the `Goto` of an
action choose the next one.  A stage that writes several files is several actions: the
merge stage of install, for example, is `Merge` (the image of the new `/etc`),
then `UpdateRecord` for a `/usr` that has a record or `CreateDir`, `AllocateSeq`,
`WriteRecord` for a new one.  `prune_deploys` is `Retention` (the doomed set), then
`RemoveDeploy` per deploy, newest first.  `Refuse` collects the errors the code itself
runs into: a record or image that is missing, a context slot nobody put, a read-only
sysroot.

*Guards.*  A command writes at most one `meta.json` under a guard, so the stack of
rollback objects is `undo`: the record's prefix and its previous content.  `Abort` is the
unwinding; with `"undo"` in `Disturbances` the guard may fail and is then skipped, as `Context::unwind` does.

*Disturbances.*  `Cancel` at the boundaries of stages, where `Cursor::next` looks at the
token; `Fail` anywhere; `TornRemoval` inside `remove_dir_all`; `Crash` and `Reboot`
between any two steps, since the lock and the mounts die with the process.

*Simplifications.*  A digest is a model value, and which digest a stage produces is
arbitrary: the content of trees is for other modules.  `config_history` is the set of its
digests, since the model asks which digests a record names and never in which order.
Subjects, messages and timestamps are left out.  Hooks succeed or fail as a whole.
`WrittenFile` replaces a file atomically, by a rename.

### Orchestrator

Each caller is in one place of `run_mutating!`: `idle`, `next` (`Cursor::next`), `stage`,
`unwind`, `unlock`, `state` (`from_stage_index`), `reset` (the token).  A stage is what the
engine sees of it: the slots it needs, takes and puts, whether it changed the disk, whether
the change has a guard, and its `StageResult`.  Changes are numbered by `serial`.
`NoRollback` guards do nothing and are left out of the stack; the stage types in `Silent`
return them for a call that did change something.  `stuck`, `began` and `last` are history
variables: the changes whose guard failed, the serial when the lock was taken, and how the
last run ended.

### AtomicRuns

What a command may rely on about the ones before it: the disk changes only at the end of a
run, and only by writes of that run being added.  Of a run that failed these are the writes without
a rollback and those whose rollback failed (`stuck`); of a run that ended well or was
killed they may be any.
`Orchestrator` implements it under the mapping *store = the changes that stand, or, while
somebody holds the lock, those that stood when it was taken*; `owner = lock`.

### HookBatch

*State.*  `fs` is what each path holds.  For every hook of the batch: `phase` (queued,
running, undoing its own steps, ended, joined), `todo`, `executed` and `seen`, what
`TouchFile` has found out before it creates the file.  `stack` is `Context::rollback`, the guards of
earlier stages below those of the hooks; `main` is the thread of the command, `locked` the process lock.
What an earlier stage of the command has done is a list of steps, `Earlier`; the constant `Ran` has the files before
the first of them and after each, and `EarlierAssumption`, which TLC evaluates, says that each step leads from one
to the next (`Makes`).

*Actions.*  A task runs its steps one at a time (`Execute`; `LookFirst` and `Create` are the
two system calls of `TouchFile`), may fail, and takes its own steps back if the hook is
critical.  `JoinOk`, `JoinErr` and `AllJoined` are `run_batch`; `Unwind` is
`Context::unwind`, one guard at a time; `Fail` drops the `JoinSet`, which aborts the tasks no thread has
begun and leaves the others, and gives up the lock; `Return` drops the runtime, which waits for
them.  `LaterFails` is a failure after a batch that went well.

*Simplifications.*  Primitives that run external programs are left out; a file is what it holds, without
its metadata; `LookFirst` takes a symbolic link for a file that is there, where `exists()` follows it and a dangling
one counts as absent (no hook of the instance touches a link); loading and matching the hook files has happened.

### Trees, EtcConfig

A tree maps its paths to `Dir` or a leaf (content and mode); an upper directory may also have
`Opaque` and `Whiteout`.  The recursive walks of the code are written as the tree they
leave, and a step of a walk that fails as a `Can...` operator that is false.

`EtcConfig` keeps what the kernel has mounted (`lower`, `upper`) apart from what the commands
look at (`base`, the working config of the record), and `etc`, what the user sees.  `Write`,
`MakeDir` and `Delete` do to `upper` what overlayfs does: copy-up of directories, whiteouts,
opaque directories.  `Merge` is the merge stage of install, update and uninstall together with the stages that arm
the deploy; `Commit` seals; `AddFile` and `RemoveFile` are files in the scope of `/etc`, which
work on the mounted upper directory itself.  `Boot` enters the armed deploy or the same one again.

One package with two versions ships files; `owned` are its rows.  Symbolic links, owners, times and extended
attributes are not told apart from content.  `Without` removes what is there and never
fails, where `remove_in_tree` fails if the parent directory is missing: such a command goes on in the model.

### PackageDb, Packages

The tables are functions: a uuid to a meta, a name to a uuid, a uuid to triggers, (uuid,
path) to a row, a path to its one owner.  A uuid is a number never used before.  A tree of
`/usr` holds the database as the content of one of its files, so it is booted, armed and
lost with the tree.

`Install`, `Update`, `Uninstall` and `Files` open a command: `work` becomes a copy of the booted tree and of its
database, with the command, the packages it names, those still to do (`rest`) and the next uuid.  `InstallOne`,
`UpdateOne`, `RemoveOne` and `ApplyFile` are the repeated stages, one package each time (`ImportPackage`,
`ReplacePackage`, `RemovePackage`; the two scopes of files, adding and removing).  `Commit` puts the database into the
tree and arms it.  A stage that fails makes `work` None: the copies are dropped, nothing else has changed.  So does a
`Boot`, which may come at any time.

The rows of a package are removed in the order of the hashes that key them, `Before`: a listed path below another
cannot be removed after it (`CanRemoveAll`).  `Diff` and what it is made of are the query that compares two images.

### Pipelines, Kinds, Requests, Responses, Calls

The first four are tables: functions and records translated from declarations and
derived code, with `Calls` as the machine that uses them.  A stage of `Pipelines` is what
it takes from, looks at and puts into the `Context`, and the queue it empties one item at a time.  An error of
`Kinds` is the enumeration and the variant; `XRaised` are the variants the code of X can
produce, and `XKind` what `From<X> for ErrorKind` makes of them.

`Calls` starts with a program: a command of `upac-cli` with the calls it makes, or one call
of a frontend that checks nothing, with one field of the request that is not a good one
(`fault`).  `Load`, `RequireWrite`, `Convert`, `Setup`, `Acquire` lead to the engine, where `Look` (the
token), `Tell`, `RunStage`, `Report` take turns; `Finish`, `Free` and `Proceed` lead out of it.  A
stage may also fail with any error its command can carry (`Fails`), notice the token inside (`GivesUp`), or
panic (`Panics`).  `Signal` sets the token at any moment.  `Freed` is the `free` derived for each response, which
`upac-cli` links and calls; the exported `free_response` is not modelled (section 5).

That a stage may fail with *any* error of its command is more than the code does; it makes the
properties stronger, not weaker, as they speak of every failure.

### BootSelect, BootEntries

*State.*  `machine` is what starts the machine, the plugins it has, what its images hold and which files are
registered with the firmware; it never changes.  `entries` is what is on the ESP, by name; `once` and `always` the two options of each
loader; `marks` what the probes look for, which another loader may have left behind.  `target`,
`requested`, `entry` and `plugin` are the context of the running command, `step` the stage it is at.

*Actions.*  `WriteEntry` and `Resolve` are the two halves of `CheckoutStage`, `Swap` is
`SwapStage`, `Finish` the stages after it; `NoEntry`, `NoPlugin` and `NoBootId` their
errors; `Fail` is a failure, a cancel or a death at any point, of which nothing is taken back,
since all these stages have `NoRollback`.  `Boot` uses the one-shot option up and enters its deploy or the
persistent one.  `ConfirmBoot` is the late hook; nothing in the repository calls it (section 5),
so it comes at any time.

*Refinement.*  `persistent` and `oneShot` of `BootSelect` are the digests that the entries named by
the two options of the machine's loader start.

## 3. The runs

Runs that pass:

| Run | Instance | What it shows |
|---|---|---|
| `store_updates` | 3 prefixes, 2 configs, depth 1, seq below 4; install, uninstall, commit, rollback; fault, cancel (also after the last stage), crash, reboot; 1.3 million states | `TypeOK`; `SeqNamesOneRecord`: a seq names one record although allocation and write are two files; `BootedKeepsRecord`: no unwinding or clean-up takes the running deploy's record; `AbortRestores`: at every stage the guard leads back to what the command found |
| `store_cleanup` | 3 prefixes, 2 configs, depth 1, seq below 4; files, commit, pin, gc; cancel, crash, reboot; 2.6 million states | `RecordsOpenable`: nothing a record names is swept; `CleanupKeepsPolicy`: each removal keeps the policy judged when it happens; `GcIsExact`: a gc that succeeds leaves the reachable images and no others |
| `store_returns` | 2 prefixes, 2 configs, seq below 3; all stages of update, uninstall, files, commit, rollback, pin, gc; fault, cancel, failing guards; no symmetry | `CommandsReturn` |
| `engine_safety` | 2 writers, stages with and without rollback that advance, repeat and jump back, 3 changes; fault, failing guard, panic, crash; 1.3 million states | `TypeOK` (the cursor stays in the pipeline), `MutualExclusion`, `UndoInReverse`, `RunsAreAtomic` (the refinement of `AtomicRuns`) |
| `engine_cancel` | a writer and a reader, cancelled at any moment; fault, panic; no symmetry | `CancelEndsRun`: no sequence of Repeat and RepeatBack outruns the token |
| `hooks` | 3 hooks, one not critical, with touch, move and link on files of their own and shared ones, an earlier stage with a guard; fault, failing rollback, panic, later failure; 158 000 states | `TypeOK`; `OnlyOrphansStay`: a failed command leaves nothing of a hook that works on its own paths, but for hooks not joined in time; `EarlierIsUndone`: the double unwinding reaches the stages before the batch (files that no step of theirs moves to or from a hook's); `TouchedFilesStay`: no rollback removes a file that was there; `OnlyBegunOutlive`: what runs on after the failure had begun under the lock and is over when the call returns; `BatchEnds` |
| `etc` | 7 paths on two levels, 2 contents, 2 modes, 2 releases; 2 edits and 2 commands with boots between; 63 000 states | `TypeOK`; `LiveIsWhatIsSeen`: the tree rebuilt from record and upper directory is the user's; `EditsSurvive` and `DeletionsSurvive`: no merge loses them, a deleted file does not come back in silence; `DefaultsArrive`: no file of the package goes in silence |
| `packages` | 4 archives (two versions of one package; one that shares a file, one that shares a directory) and the genesis system, one or two per command; 3 commands with boots between and within them; 83 000 states | `TypeOK`; `RowsAreTheArchives`: no row of an old version stays; `OthersKeepTheirRows`; `UserFilesStay`; `EveryFileIsListed`: no file of `/usr` is left that no package lists; `DiffExplainsUninstall`: the diff lays every change of a file with one owner to a package that was named |
| `calls` | all programs of `upac-cli`, and every call with one bad field; lists of up to 2; 41 000 states | `TypeOK`; `StagesFindTheirSlots`: no stage misses what another should have put, with the known exception of the declarative hooks; `ReportedStage`: the state told is the stage that failed; `CancelHolds`: no stage begins after Ctrl-C, in this call or the next; `CancelledIsToldApart`; `NothingLeaks`; `ProgramsEnd` |
| `boot` | 8 machines (each loader; one with another's leftovers; one with a plugin twice and one with none; two that their firmware starts, with unified images, the slot registered with and without its extension), 4 deploys, one with two kernels and one with none; 16 000 states | `TypeOK`; `ImplementsBootSelect` (the refinement); `OkMeansArmed`: a command that says ok has armed the loader that starts this machine, with the two exceptions below |

`OkMeansArmed` excepts two kinds of machines.  rEFInd has no one-shot option (`OnlyConfirmed` in section 5).  A
machine that its firmware starts and that bears the mark of another loader is covered only for commands that name the
UKI plugin: without a name the search finds the other loader's, and that is where the claim fails
(`FirmwareIsRecognized` in section 5).  As long as it bears no mark it is covered like the others.  A machine whose own
plugin is not installed, and a command that names another one, are outside the claim: an explicit name is trusted.

*Why these bounds.*  Three prefixes are the genesis deploy, the booted one and one more, so
that retention has something to remove while the current pair exists; seq below 4 allows
three births, among them the return of a removed digest under a new number.  Two
configs make a record's history and its working config differ.  Every hazard of the store
is within one command and its predecessor; a second writer, and three changes of which two
are in one run, make the order of guards and the hand-over of the lock visible.  `SeqBound` and
`MaxEffects` only stop new births and new changes; commands go on.

Three hooks are one that fails, one that is running meanwhile and one that shares a file with
either.  Two edits make a file and take it away again, or put a file where a directory was;
two commands are one that seals or merges and one that finds what it did.  Three commands on packages are an
install, an update and an uninstall of the same one, or two installs without a boot between them.
Lists of two are the least with which a stage repeats; `EditBound`, `CommandBound` and `MaxItems`
bound nothing else.  `BootEntries` has no bound but its constants.  The theorems of section 4 do
not depend on any of this.

*Deadlock* is not checked: without further commands or changes allowed by the bounds, and when a
program has ended, the system may rest; that commands, batches and programs end are properties of their own.

*Symmetry* permutes the digests other than the genesis ones, and the two writers, in runs
without liveness.

*Fairness.*  `FairSpec` of the store is weak fairness of a step of the running command: its
process is scheduled and its system calls return.  `FairSpec` of the engine is weak fairness of
each caller's thread inside the call, which includes that a stage returns.  `FairSpec` of
`HookBatch` is weak fairness of the command's thread and of each task: the pool has a thread for
every one.  `Spec` of `Calls` has weak fairness of `Work`, the process itself, and none of `Choose`
(the user at the prompt) or `Signal`.  Nothing is assumed of
disturbances, users, firmware, or the outcome of a stage: a stage may answer Repeat for
ever, and only the token ends that.  Hooks that never return, and a frontend that answers
Retry for ever, are outside these assumptions: `ProgramsEnd` speaks of `upac-cli`, which never does.

Each property of a passing run has a mutant in the module, beside the definition it
replaces: a plausible slip in that piece of code which the run then finds.

Two more runs expect a violation, and thirteen configurations are kept for reproducing others by hand (section 5).

## 4. The proofs

For every value of the constants:

| Module | Theorem | Property |
|---|---|---|
| `DeployStoreProofs` | `TypeCorrect` | `TypeOK` |
| | `SeqIsUnique` | `SeqNamesOneRecord` |
| | `SeqForEver` | `SeqIsForEver`: numbers are burned, never reused, and an undone record gets its own back (proved only) |
| | `ImagesStay` | `RecordsOpenable` |
| | `BootedKeeps` | `BootedKeepsRecord` |
| | `GcLeavesRoots` | `GcIsExact` |
| | `AbortsRestore` | `AbortRestores`, provided that no guard fails |
| | `CleanupKeeps` | `CleanupKeepsPolicy` |
| | `StoreNeedsBootSelect` | the store implements `BootSelect` |
| `OrchestratorProofs` | `WritersExclude` | `MutualExclusion` |
| | `UndoIsOrdered` | `UndoInReverse` |
| | `EngineIsAtomic` | `RunsAreAtomic` |
| | `EngineTypes` | `TypeOK` |
| `HookBatchProofs` | `QuietOnceReturned`, `NoneBegins`, `OutlivesBounded` | the two halves of `OnlyBegunOutlive`, and the whole |
| | `TouchedStay` | `TouchedFilesStay` |
| | `TypesKept` | `TypeOK` |
| | `OrphansOnly` | `OnlyOrphansStay` |
| | `EarlierUndone` | `EarlierIsUndone` |
| `EtcConfigProofs` | `TypeCorrect` | `TypeOK` |
| | `LiveIsSeen` | `LiveIsWhatIsSeen` |
| | `EditsAreKept` | `EditsSurvive` |
| | `DeletionsStay` | `DeletionsSurvive` |
| | `DefaultsCome` | `DefaultsArrive`, provided that no package ships a file under the name a conflict takes (`NoneShipsSidecars`) |
| `PackagesProofs` | `TypesKept` | `TypeOK` |
| | `ArchivesOnly` | `RowsAreTheArchives` |
| | `FilesListed` | `EveryFileIsListed` |
| | `OthersUntouched` | `OthersKeepTheirRows` |
| | `UsersKept` | `UserFilesStay` |
| | `UninstallExplained` | `DiffExplainsUninstall` |
| `CallsProofs` | `CallTypes` | `TypeOK` |
| | `SlotsAreFound` | `StagesFindTheirSlots` |
| | `StagesAreTold` | `ReportedStage` |
| | `CancelIsNotForgotten` | `CancelHolds` |
| | `CancelIsToldApart` | `CancelledIsToldApart` |
| | `ResponsesAreFreed` | `NothingLeaks` |
| `BootEntriesProofs` | `TypeCorrect` | `TypeOK` |
| | `EntriesSelect` | `ImplementsBootSelect` |
| | `OkArms` | `OkMeansArmed` |

### The store and the engine

*Assumptions*: the named `ASSUME`s of the module.  Digests of `/usr` and `/etc` are
disjoint, the sets of digests are finite, the retention depth is a natural number, and `None` is
none of the values it stands beside.

*Argument.*  None of the properties is inductive: that a number is not given out twice, for example, needs
that the command that holds one allocated but unwritten number has it below the counter
and in no record.  `Inv` is the conjunction of five named parts:

- `ControlInv`, what each stage can rely on: which variables are set, that no guard exists before
  the first write, that the booted deploy is not among those doomed;
- `GuardInv`: a record has a directory, and what the guard would restore is an earlier
  state of the same record, with the same seq, and never "nothing" for the booted deploy;
- `SeqInv`: the number in flight is below the counter and in no record;
- `ImageInv`: what the command is about to record, and what its guard would bring back, is
  in the repository; while roots are collected those of every directory already read are in `roots`,
  and every root belongs to a record;
- `TypeOK`.

`InitInv` and `NextInv` show it inductive, action by action.  The action properties follow
from it by the kinds of steps (`Kinds`): quiet ones, writes that put exactly the record they change
under the guard (`WritesKeep`), and aborts (`AbortsReturn`).  `CleanupKeeps` needs a further
invariant, `PolicyInv`: what is left of the doomed set is doomed still.  Its step (`RemovalKeepsDoom`)
is a counting argument: the newest doomed deploy has at least N newer ones, all of which
are newer than any other doomed deploy and stay; and the older neighbour of the booted deploy does not change
when another one goes.

`OrchestratorProofs`, for every pipeline, any number of callers and of changes:
`WritersExclude` (`MutualExclusion`), from the invariant that a writer inside a run holds
the lock, and `UndoIsOrdered` (`UndoInReverse`), from `StackInv`: for every guard on a
running caller's stack, whatever was changed later and can still be undone has its guard further up
(`Stacked`; `StackedPush` and `StackedPop` are a stage that returns a guard and a guard
that is run or skipped; `OthersStacked` is where the lock is needed).

`EngineIsAtomic` is the refinement of `AtomicRuns` (`RunsAreAtomic`).  Its invariant, `AtomicInv`,
adds that what was changed since the lock was taken is its holder's (`BeganInv`), that an error
is returned only by a run that failed (`ErrorInv`), and that the guards of a run are exactly those of
its own changes: all of them are above `began`, and every change above `began` has one, unless it
has no rollback or its rollback failed (`OwnGuards`, and `UndoneInv` when the stack is empty).
`RunDoesNotCount` shows that writes and rollbacks in a run leave the abstract store
alone, `EndRefines` that dropping the lock is the abstract `End`, and `StepRefines` puts every action in
its place.

`EngineTypes` needs to know where a cursor may stand (`CursorInv`): a run between two stages that has a
result to consume, or is in a stage, is at a position of the pipeline, so that `Advance` leads at most to its end.
`RepeatBack` takes the latest position of a stage before the cursor; that there is one (`Latest`) follows, without
induction, from the library's theorem that strict inclusion of finite sets is well-founded.

### Hooks

`ThreadInv` ties the thread of the command to the tasks: the lock is held until `main` is
`failed`, from then on no task is queued, and after the return none is busy.  That gives the three
theorems about what outlives a batch.  `TouchedStay` is about one file at a time: `FileInv(p)` says
that every step done, still to be done or under a guard leaves p alone, and that no task has
found p missing.

`TypesKept` rests on `TypeInv` and `SplitInv`: what a hook has done is the front of its program, with what the
rollback needs noted, and what it has to do is the rest.

`OrphansOnly` and `EarlierUndone` are the same argument, about an owner w (a hook, or the earlier stage) and a set P
of files that no one else touches (`ScopeInv`).  A `Course` of P is what its files were from the beginning on, after
each step of a record; `Result` says that a course leads to what they are now, and `Owed` that it does but for files
the command has made and a move has overwritten since, which taking steps back does not bring back and need not.
`OwnerInv(w, P)` says this of w's record, which is in its task until it is joined and
under its guard from then on (`Record`; `StackInv`: at most one guard for each hook, and none before it is joined).
Each rollback takes one step off the record (`OwedPop`), and when nothing is owed the files are what they were
(`NothingOwed`).  A
course is a function, so that the induction over steps is one of positions (`Latest`, `Reaches`: by the library's
theorem that strict inclusion of finite sets is well-founded).  `Ran` is the course of the earlier stage,
which a fold could not, as what a fold computes is induction over data.  `EarlierIsUndone` has the hypothesis
`EarlierApart`: a move from a hook's file to an earlier stage's own, or onto a file that is there, loses what
it lay on, and no rollback of the code brings that back.

### `/etc`

`IInv` adds to `TypeOK` that what the user sees is the overlay of the mounted image and the upper
directory, and that rows name paths.  The hard part of `TypeOK` is that merges leave
trees (`MergedConfig`): nothing comes below a file, because `CanMerge` refuses it.  The equation
is kept by edits because of `PutIsSeen`, `WhiteoutIsSeen` and `RemovalIsSeen`: what overlayfs puts into the upper
directory is seen as what the user did, also through opaque directories.  `TreesProofs` has what they need of
prefixes and ancestors of paths.  `EditsAreKept` follows from the equation and `MergeCarries`, what a merge has at an
edited path; `DeletionsStay` and `DefaultsCome` follow in the same way from `MergeLeavesOut` and `MergeBrings`, with
`Reports` for what the command tells the user.

### Packages

`Inv` says of both images that they are `Good`: the tree is one (`WellFormed`), the tables fit together
(`DbInv`: no uuid above the counter, a name leads to a meta of that name, a path to a row, and the rows that are not the user's
are of the archive the meta is of), and every file of the tree has its row (`Listed`).  Of a running
command it says the same of the working copies, and how they differ from what is booted (`WorkInv`):

- `Others`: what packages not named have is as it was;
- `UserRowsKept`, `Laid`, `FilesStay`, for all but purges and files: rows of the user are there, what is new in
  scope `prefix` is what the archives lay, a file of the user is there or covered;
- `Took`, for uninstalls: nothing came, and all that went was of the packages named.

`Stage(w, n)` is the same between one stage and the next, and there is one lemma for each
(`InstallStage` ... `DetachConfigStage`), over lemmas on what each operation of the database has in its tables
afterwards (`InsertFilesIs`, `RemoveFilesIs`, ...); `StageKeeps` composes it with what came before (`TookTransitive`,
`OthersTransitive`), which is why any number of packages in a command is no harder than one.  `OthersUntouched`,
`UsersKept` and `UninstallExplained` are read off `WorkInv` at the commit that arms the image.

Three of the properties are weaker than their first forms, which held within the bound of three commands and which the
attempt to prove them refuted.  `EveryFileIsListed` has the exception of paths that are also
of `/etc`, as a path has one row for both scopes and loses it with either.  `UserFilesStay` excepts a path
another package lists or goes through as a file: with that package's update or uninstall it goes.
`DiffExplainsUninstall` is about paths in the table by path, without a listed path above them: a shared path is taken out of
that table with the first package that goes (`ListedIsAttributed` in section 5), and a directory goes with all below it.

### Calls

Each of the four tables has a section with what calls need of it: that no kind but Cancelled's own is Cancelled
(`NotCancelled`, `StageKinds`, `SetupKinds`), what verdicts there are, how many states and stages a command has and
how far their names agree (`StateCounts`, `Lengths`, `NamesAgree`).  These are finite tables: expanded, and checked
by SMT.  `Holds(c, i, slot)` is read off the pipelines: before position i of command c the slot
has been put and not been taken.  `ContextInv` says that the context has every such slot, and `Served` that each
stage but the declarative hooks finds what it asks for among them, also when its queue sends it round again
(`CursorInv`).  `AnswerInv` is about the answer: it was given at the position the cursor is at, with a state and a
kind of its command.  `CallInv` puts these and the properties together, with one lemma per action.

`ResponsesAreFreed` is about the step that frees: what a query holds when it has answered are structs that its
`free` can come to (`HandedOutIsFreeable`, as every link of a response is followed: `EveryLinkIsFollowed`), whatever
the lists are.

`CancelHolds` needs to know when the token can be down although Ctrl-C was pressed (`TokenInv`): only after
a command that writes has reset it, and such a command is the last of its program (`CallsInv`), so that no stage
follows.

### Boot entries

`IInv` is `TypeOK` and three parts.  `NamesFit`: an entry is named after the deploy it starts,
so that writing the entry of one deploy cannot change what another name starts, unless both are UKIs.
`EntriesThere`: what the options of the machine's loader name is on the ESP.  `CommandFits`:
what the command has put into its context, and after the swap into the option, is its target.
`ResolvedFits` is where the search for a plugin is argued: an answer that is not ambiguous is the machine's own loader,
if its plugin is installed and recognizes the machine (`Recognized`).  The plugin of a loader that leaves a mark does so
whatever other marks there are, and that of a machine started by its firmware only as long as there is none;
as marks are never taken away, what holds after the swap held when the plugin was searched for.  `OkArms` has the
exceptions of `OkMeansArmed` and no others.
`EntriesSelect` then goes through the actions (`NextSelects`): all but `Swap`, `Boot` and `ConfirmBoot` leave the
abstract options alone.

### Only model-checked

The liveness properties (`CommandsReturn`, `CancelEndsRun`, `BatchEnds`, `ProgramsEnd`), which are
beyond the prover.  Every safety property of the passing runs is stated by a theorem.  The assumptions on constants are
evaluated by TLC on the instances of the runs; in general they are what the code and the archives are taken to be.

## 5. Where code and documentation disagree

The properties of the passing runs are stated so that they hold of the code as it is; where the
documentation says more, the case is a property of its own.  `PROJECT.json` quotes the passages.
`pins_pruned` and `packages_wipe` are runs of the project; a configuration in the last column that has an
asterisk is kept beside them, to be run by hand, and ends in a violation.

| Property | In short | Configuration |
|---|---|---|
| `ImmutablePinsStay` | retention looks neither at the staged nor at the persistent deploy: a command that returns to an old `/usr` removes the deploy it has just armed | `pins_pruned` |
| `InstallKeepsTheRest` | a package that brings a directory replaces the one that is there, with all that other packages have in it | `packages_wipe` |
| `PipelinesAreComplete` | install and update never put the triggers that their declarative hook stage reads, and fail after the swap | `install_incomplete`* |
| `RollbackRestoresConfigs` | rollback to an older config writes on a read-only mount | `rollback_readonly`* |
| `GcCanRun` | one directory without `meta.json` makes every gc fail | `gc_blocked`* |
| `SealedConfigsStay` | the first commit forgets the genesis config, which gc then sweeps | `genesis_config`* |
| `ArmedDeployIsRecorded` | the swap has no rollback: a later failure leaves a deploy armed whose record is gone | `armed_unrecorded`* |
| `FailuresAreToldApart` | the states of install and update lack the declarative stage: a failed retention is reported as `Setup` | `install_states`* |
| `LiveIsTheUsersEtc` | after a commit, deleting a file it sealed leaves no whiteout: the merged tree has the file and the user's `/etc` has not | `etc_commit`* |
| `EveryDeployCarriesTheEdits` | files arms a deploy that inherits the recorded config without the edits | `etc_files`* |
| `ConflictFilesArrive` | a deleted `.upac-new` of an earlier conflict counts as a change of the user and takes the next one away (3 minutes) | `etc_sidecar`* |
| `EditsNeverBlock` | a package's file below a path where the user has put a file fails the command | – |
| `FallbackStays` | there is one UKI slot, and every command writes over what the persistent option starts | `boot_uki`* |
| `OnlyConfirmed` | rEFInd has one option: arming a deploy confirms it, and confirming disarms | `boot_refind`* |
| `UkiIsArmed` | no registered file of the ESP ends with the slot's name: on a machine started by its firmware every command fails after writing the slot | `boot_firmware`* |
| `FirmwareIsRecognized` | on a machine started by its firmware one mistaken `--boot grub` or `--boot refind` leaves a mark, and from then on every command without a name arms that loader and says ok | `boot_marks`* |
| – (`AutoFindsThePlugin`) | a plugin both linked in and with a manifest is counted twice, and the search is ambiguous | – |
| – (`ConfirmIsCalled`) | nothing calls `confirm_boot` | – |
| `LockCoversHooks` | hooks of a failed batch run on when the lock is free | – |
| `CancelledIsToldApart`, exceptions | a cancel noticed by a decoder is told as Unexpected | – |
| `ReportedStage`, exceptions | a cancel after the last stage of uninstall has no state, and `from_stage_index` panics | – |
| `NothingLeaks`, exceptions | the terminator of an empty text is never freed; `pkg remove` leaves with a response in its hands; the exported `free_response` takes a layout that no query returns | – |
| `NonEmptyTextRefused` | `#[non_empty]` is dropped for a text, so an empty digest passes `validate` | – |
| `UserFilesHaveTheirPackage` | an uninstall without purge leaves rows under a uuid nothing leads to | – |
| `ListedIsAttributed` | a path two packages share loses its owner with either of them; a package installed twice is listed twice and reached once | – |

## 6. What is not modelled, and the plan

Left out on purpose:

- *Sysroot mounts* (`deploy/mod.rs`, the `Drop` of `Deploy`): who sees a mount depends on mount
  namespaces, of which the code shows only the calls.
- *Signatures, row and JSON codecs, package decoders, the text of MIME files*: sequential
  conversions whose unit tests reach what can go wrong in them.
- *Hook files before they run* (loading, matching), and the primitives that start external
  programs, whose effects are not in the code.
- *`setup-cli`, `sign-cli`, tooling*: no part of the running system.  Of genesis only what it
  leaves is there, as the initial states of `DeployStore`, `Packages` and `BootEntries`.
- *Which rows a search or a listing selects*: the diff of two images is modelled, the other queries are filters.
- `WrittenFile` is the rename it ends with; a previous file that cannot be read is not in the
  model, as every stage that updates a `meta.json` has read it just before.

What is worth adding next, in this order:

1. `DeployHistory`, an abstract specification of the store (a set of numbered deploys, a current
   one, atomic commands), implemented by `DeployStore`.
2. The composition of `Packages` and `EtcConfig`: rows of `/etc` and the files they stand for, through a
   command that fails between the two.
3. `WrittenFile` with the failures of its reads, and the genesis pipeline with its partitions.

Of proofs: that `DeployStore` implements `DeployHistory`, and how `OthersKeepTheirRows` and `DefaultsArrive` fit
together in the composition.
