------------------------------ MODULE HookBatch ------------------------------
(***************************************************************************)
(* A hook stage: the hook files that match run as one batch of blocking    *)
(* tasks (ParallelOrchestrator::run_batch), each one a list of primitives  *)
(* on the file system.  The main thread joins the tasks as they end; the   *)
(* first failure unwinds the guards of the whole command, those of earlier *)
(* stages included, while tasks that have started go on.                   *)
(*                                                                         *)
(* A file is modelled by what it holds: the initial files hold themselves, *)
(* File::create makes an "empty" one, a link is "link".                    *)
(***************************************************************************)
EXTENDS Naturals, Sequences, FiniteSets, SequencesExt

CONSTANTS
    Hooks,      \* the hook files of the batch
    Program,    \* their steps
    Critical,   \* those with critical = true
    Paths,      \* the files the steps name
    Present,    \* those that exist before the command
    Earlier,    \* steps an earlier stage of the command has done, with a guard
    Ran,        \* what the files were before the first of these and after each
    Mishaps,    \* what may go wrong
    None

Touch(p)    == [kind |-> "touch", path |-> p, to |-> p, created |-> FALSE]
Move(p, q)  == [kind |-> "move",  path |-> p, to |-> q, created |-> FALSE]
Link(p)     == [kind |-> "link",  path |-> p, to |-> p, created |-> FALSE]

\* "fault": a primitive fails; "undo": its rollback fails; "panic": a task
\* panics; "later": a stage after this one fails or is cancelled.
AllMishaps == {"fault", "undo", "panic", "later"}

PathsOf(steps) == UNION {{steps[i].path, steps[i].to} : i \in DOMAIN steps}

Steps == [kind : {"touch", "move", "link"}, path : Paths, to : Paths, created : BOOLEAN]
Contents == Paths \cup {"empty", "link", None}

ASSUME HookAssumption == /\ Critical \subseteq Hooks
                         /\ Present \subseteq Paths
                         /\ Program \in [Hooks -> Seq({s \in Steps : ~s.created})]
                         /\ Earlier \in Seq(Steps)
                         /\ Mishaps \subseteq AllMishaps
                         /\ None \notin Hooks \cup Paths \cup {"empty", "link"}

VARIABLES
    fs,        \* what each path holds, or None
    phase,     \* where each task is
    todo,      \* the steps a task has not begun
    executed,  \* the steps it has done, with what its rollback needs to know
    seen,      \* TouchFile: whether exists() has returned FALSE
    stack,     \* Context::rollback, with the hook each guard is of
    main,      \* where the thread of the command is
    locked,    \* whether the command holds the process lock
    orphans,   \* history: tasks not joined when one of the batch failed
    stuck      \* history: hooks, or None for the stage before, not quite undone

task == <<phase, todo, executed, seen>>
vars == <<fs, task, stack, main, locked, orphans, stuck>>

----------------------------------------------------------------------------
(***************************************************************************)
(* The primitives.                                                         *)
(***************************************************************************)
\* Step::execute succeeds.
Can(f, s) ==
    CASE s.kind = "touch" -> TRUE
      [] s.kind = "move"  -> f[s.path] # None
      [] s.kind = "link"  -> f[s.path] = None

After(f, s) ==
    CASE s.kind = "touch" -> [f EXCEPT ![s.path] = "empty"]
      [] s.kind = "move"  -> [f EXCEPT ![s.path] = None, ![s.to] = f[s.path]]
      [] s.kind = "link"  -> [f EXCEPT ![s.path] = "link"]

\* Step::rollback succeeds.
Undoable(f, s) ==
    CASE s.kind = "touch" -> s.created => f[s.path] # None
      [] s.kind = "move"  -> f[s.to] # None
      [] s.kind = "link"  -> f[s.path] # None

\* Mutant: a touched file is removed even if it was there before.
UndoneAlways(f, s) ==
    CASE s.kind = "touch" -> [f EXCEPT ![s.path] = None]
      [] s.kind = "move"  -> [f EXCEPT ![s.to] = None, ![s.path] = f[s.to]]
      [] s.kind = "link"  -> [f EXCEPT ![s.path] = None]

Undone(f, s) ==
    CASE s.kind = "touch" -> IF s.created THEN [f EXCEPT ![s.path] = None] ELSE f
      [] s.kind = "move"  -> [f EXCEPT ![s.to] = None, ![s.path] = f[s.to]]
      [] s.kind = "link"  -> [f EXCEPT ![s.path] = None]

Initially == [p \in Paths |-> IF p \in Present THEN p ELSE None]

\* The step s, done alone, has made g of f: TouchFile leaves a file it finds.
Makes(f, s, g) ==
    /\ Can(f, s)
    /\ s.kind = "touch" => s.created = (f[s.path] = None)
    /\ g = IF s.kind = "touch" /\ ~s.created THEN f ELSE After(f, s)

\* What the earlier stage has left.
Begun == Ran[Len(Earlier)]

ASSUME EarlierAssumption ==
    /\ Ran \in [0 .. Len(Earlier) -> [Paths -> Contents]]
    /\ Ran[0] = Initially
    /\ \A i \in 1 .. Len(Earlier) : Makes(Ran[i - 1], Earlier[i], Ran[i])

Init ==
    /\ fs = Begun
    /\ phase = [h \in Hooks |-> "queued"]
    /\ todo = Program
    /\ executed = [h \in Hooks |-> <<>>]
    /\ seen = [h \in Hooks |-> FALSE]
    /\ stack = <<[of |-> None, steps |-> Earlier]>>
    /\ main = "batch" /\ locked = TRUE
    /\ orphans = {} /\ stuck = {}

----------------------------------------------------------------------------
(***************************************************************************)
(* HookFile::run, on a thread of its own.                                  *)
(***************************************************************************)
Step(h) == Head(todo[h])

Start(h) ==
    /\ phase[h] = "queued"
    /\ phase' = [phase EXCEPT ![h] = "running"]
    /\ UNCHANGED <<fs, todo, executed, seen, stack, main, locked, orphans, stuck>>

\* Mutant: steps are taken back in the order they were done.
DidInFront(h, s) ==
    /\ executed' = [executed EXCEPT ![h] = <<s>> \o @]
    /\ todo' = [todo EXCEPT ![h] = Tail(@)]
    /\ seen' = [seen EXCEPT ![h] = FALSE]

\* Primitives are pushed as they succeed.
Did(h, s) ==
    /\ executed' = [executed EXCEPT ![h] = Append(@, s)]
    /\ todo' = [todo EXCEPT ![h] = Tail(@)]
    /\ seen' = [seen EXCEPT ![h] = FALSE]

\* TouchFile looks whether the file is there ...
LookFirst(h) ==
    /\ phase[h] = "running" /\ todo[h] # <<>> /\ ~seen[h]
    /\ Step(h).kind = "touch"
    /\ IF fs[Step(h).path] # None
       THEN Did(h, Step(h))
       ELSE seen' = [seen EXCEPT ![h] = TRUE] /\ UNCHANGED <<todo, executed>>
    /\ UNCHANGED <<fs, phase, stack, main, locked, orphans, stuck>>

\* ... and creates it, whoever may have done so in between.
Create(h) ==
    /\ phase[h] = "running" /\ seen[h]
    /\ fs' = After(fs, Step(h))
    /\ Did(h, [Step(h) EXCEPT !.created = TRUE])
    /\ UNCHANGED <<phase, stack, main, locked, orphans, stuck>>

Execute(h) ==
    /\ phase[h] = "running" /\ todo[h] # <<>>
    /\ Step(h).kind # "touch"
    /\ Can(fs, Step(h))
    /\ fs' = After(fs, Step(h))
    /\ Did(h, Step(h))
    /\ UNCHANGED <<phase, stack, main, locked, orphans, stuck>>

\* A step that fails ends the hook, and the command if the hook is critical.
StepFails(h) ==
    /\ phase[h] = "running" /\ todo[h] # <<>>
    /\ \/ "fault" \in Mishaps
       \/ Step(h).kind # "touch" /\ ~Can(fs, Step(h))
    /\ phase' = [phase EXCEPT ![h] = IF h \in Critical THEN "undoing" ELSE "ok"]
    /\ UNCHANGED <<fs, todo, executed, seen, stack, main, locked, orphans, stuck>>

\* Mutant: a rollback that fails is tried again.
UndoOwnRetries(h) ==
    /\ phase[h] = "undoing"
    /\ IF executed[h] = <<>>
       THEN phase' = [phase EXCEPT ![h] = "err"] /\ UNCHANGED <<fs, executed, stuck>>
       ELSE LET s == Last(executed[h])
            IN  /\ Undoable(fs, s)
                /\ fs' = Undone(fs, s)
                /\ executed' = [executed EXCEPT ![h] = Front(@)]
                /\ UNCHANGED <<phase, stuck>>
    /\ UNCHANGED <<todo, seen, stack, main, locked, orphans>>

\* executed.rollback() of a critical hook: newest first, up to one that fails.
UndoOwn(h) ==
    /\ phase[h] = "undoing"
    /\ IF executed[h] = <<>>
       THEN phase' = [phase EXCEPT ![h] = "err"] /\ UNCHANGED <<fs, executed, stuck>>
       ELSE LET s == Last(executed[h])
            IN  \/ /\ Undoable(fs, s)
                   /\ fs' = Undone(fs, s)
                   /\ executed' = [executed EXCEPT ![h] = Front(@)]
                   /\ UNCHANGED <<phase, stuck>>
                \/ /\ "undo" \in Mishaps \/ ~Undoable(fs, s)
                   /\ executed' = [executed EXCEPT ![h] = <<>>]
                   /\ stuck' = stuck \cup {h}
                   /\ UNCHANGED <<fs, phase>>
    /\ UNCHANGED <<todo, seen, stack, main, locked, orphans>>

Finish(h) ==
    /\ phase[h] = "running" /\ todo[h] = <<>>
    /\ phase' = [phase EXCEPT ![h] = "ok"]
    /\ UNCHANGED <<fs, todo, executed, seen, stack, main, locked, orphans, stuck>>

\* The task panics: its guard is gone.
Panic(h) ==
    /\ "panic" \in Mishaps
    /\ phase[h] = "running"
    /\ phase' = [phase EXCEPT ![h] = "panicked"]
    /\ UNCHANGED <<fs, todo, executed, seen, stack, main, locked, orphans, stuck>>

----------------------------------------------------------------------------
(***************************************************************************)
(* run_batch, on the thread of the command.                                *)
(***************************************************************************)
Busy(h) == phase[h] \in {"running", "undoing"}

\* Mutant: the guard of a hook that was cut short is dropped.
JoinOkWhole(h) ==
    /\ main = "batch" /\ phase[h] = "ok"
    /\ stack' = IF todo[h] = <<>> THEN Append(stack, [of |-> h, steps |-> executed[h]]) ELSE stack
    /\ phase' = [phase EXCEPT ![h] = "joined"]
    /\ UNCHANGED <<fs, todo, executed, seen, main, locked, orphans, stuck>>

JoinOk(h) ==
    /\ main = "batch" /\ phase[h] = "ok"
    /\ stack' = Append(stack, [of |-> h, steps |-> executed[h]])
    /\ phase' = [phase EXCEPT ![h] = "joined"]
    /\ UNCHANGED <<fs, todo, executed, seen, main, locked, orphans, stuck>>

JoinErr(h) ==
    /\ main = "batch" /\ phase[h] \in {"err", "panicked"}
    /\ phase' = [phase EXCEPT ![h] = "joined"]
    /\ main' = "unwind"
    /\ orphans' = {g \in Hooks : g = h /\ phase[h] = "panicked"}
                    \cup {g \in Hooks \ {h} : phase[g] # "joined"}
    /\ UNCHANGED <<fs, todo, executed, seen, stack, locked, stuck>>

AllJoined ==
    /\ main = "batch" /\ \A h \in Hooks : phase[h] = "joined"
    /\ main' = "done"
    /\ UNCHANGED <<fs, task, stack, locked, orphans, stuck>>

\* Mutant: the unwinding stops at the first guard that fails.
UnwindStops ==
    /\ main = "unwind" /\ stack # <<>>
    /\ LET guard == Last(stack)
           s     == Last(guard.steps)
       IN  \/ /\ guard.steps = <<>>
              /\ stack' = Front(stack) /\ UNCHANGED <<fs, stuck>>
           \/ /\ guard.steps # <<>> /\ Undoable(fs, s)
              /\ fs' = Undone(fs, s)
              /\ stack' = Append(Front(stack), [guard EXCEPT !.steps = Front(@)])
              /\ UNCHANGED stuck
           \/ /\ guard.steps # <<>>
              /\ "undo" \in Mishaps \/ ~Undoable(fs, s)
              /\ stuck' = stuck \cup {guard.of}
              /\ stack' = <<>> /\ UNCHANGED fs
    /\ UNCHANGED <<task, main, locked, orphans>>

\* Context::unwind: guard after guard, the newest first; within a guard step
\* after step, up to one that fails.
Unwind ==
    /\ main = "unwind" /\ stack # <<>>
    /\ LET guard == Last(stack)
           s     == Last(guard.steps)
       IN  \/ /\ guard.steps = <<>>
              /\ stack' = Front(stack) /\ UNCHANGED <<fs, stuck>>
           \/ /\ guard.steps # <<>> /\ Undoable(fs, s)
              /\ fs' = Undone(fs, s)
              /\ stack' = Append(Front(stack), [guard EXCEPT !.steps = Front(@)])
              /\ UNCHANGED stuck
           \/ /\ guard.steps # <<>>
              /\ "undo" \in Mishaps \/ ~Undoable(fs, s)
              /\ stuck' = stuck \cup {guard.of}
              /\ stack' = Front(stack) /\ UNCHANGED fs
    /\ UNCHANGED <<task, main, locked, orphans>>

\* The error is returned: the JoinSet is dropped, which aborts the tasks that
\* no thread has begun and no others, and the engine drops the lock.
Fail ==
    /\ main = "unwind" /\ stack = <<>>
    /\ phase' = [h \in Hooks |-> IF phase[h] = "queued" THEN "aborted" ELSE phase[h]]
    /\ main' = "failed" /\ locked' = FALSE
    /\ UNCHANGED <<fs, todo, executed, seen, stack, orphans, stuck>>

\* Mutant: the call returns without waiting for the tasks.
ReturnEarly ==
    /\ main = "failed"
    /\ main' = "returned"
    /\ UNCHANGED <<fs, task, stack, locked, orphans, stuck>>

\* The context is dropped, and its runtime with it, which waits for the tasks
\* that have begun.
Return ==
    /\ main = "failed" /\ \A h \in Hooks : ~Busy(h)
    /\ main' = "returned"
    /\ UNCHANGED <<fs, task, stack, locked, orphans, stuck>>

\* A later stage fails or is cancelled: the guards of the batch are run.
LaterFails ==
    /\ "later" \in Mishaps
    /\ main = "done"
    /\ main' = "unwind"
    /\ UNCHANGED <<fs, task, stack, locked, orphans, stuck>>

----------------------------------------------------------------------------
Task(h) == \/ Start(h) \/ LookFirst(h) \/ Create(h) \/ Execute(h)
           \/ StepFails(h) \/ UndoOwn(h) \/ Finish(h) \/ Panic(h)
Main    == (\E h \in Hooks : JoinOk(h) \/ JoinErr(h))
             \/ AllJoined \/ Unwind \/ Fail \/ Return

Next == (\E h \in Hooks : Task(h)) \/ Main \/ LaterFails

Spec == Init /\ [][Next]_vars

\* The threads of the pool and of the command are scheduled; the pool has one
\* for every task.
FairSpec == Spec /\ WF_vars(Main) /\ \A h \in Hooks : WF_vars(Task(h))

----------------------------------------------------------------------------
(***************************************************************************)
(* Properties.                                                             *)
(***************************************************************************)
\* The types, and the split of a program: what a hook has done is the front of
\* its program, what it has to do the rest.
TypeOK ==
    /\ fs \in [Paths -> Contents]
    /\ phase \in [Hooks -> {"queued", "running", "undoing", "ok", "err",
                            "panicked", "joined", "aborted"}]
    /\ todo \in [Hooks -> Seq(Steps)] /\ executed \in [Hooks -> Seq(Steps)]
    /\ \A h \in Hooks :
          LET n == Len(Program[h]) - Len(todo[h])
          IN  /\ n \in Nat /\ todo[h] = SubSeq(Program[h], n + 1, Len(Program[h]))
              /\ phase[h] \in {"running", "ok"} =>
                    /\ Len(executed[h]) = n
                    /\ \A i \in 1 .. n :
                          [executed[h][i] EXCEPT !.created = FALSE] = Program[h][i]
    /\ seen \in [Hooks -> BOOLEAN]
    /\ main \in {"batch", "unwind", "failed", "returned", "done"}
    /\ locked \in BOOLEAN
    /\ orphans \subseteq Hooks /\ stuck \subseteq Hooks \cup {None}

\* A hook whose paths nobody else names, and none of whose moves overwrites a
\* file.
Apart(h) ==
    /\ \A g \in Hooks \ {h} : PathsOf(Program[h]) \cap PathsOf(Program[g]) = {}
    /\ PathsOf(Program[h]) \cap PathsOf(Earlier) = {}
    /\ \A i \in DOMAIN Program[h] :
          Program[h][i].kind = "move" => Program[h][i].to \notin Present

\* A failed command leaves nothing behind of a hook that works on its own
\* paths, however far the hook came and whatever other guards fail, unless it
\* was not joined when the unwinding began or a rollback of its own fails.
OnlyOrphansStay ==
    main \in {"failed", "returned"} =>
       \A h \in Hooks \ (orphans \cup stuck) :
          Apart(h) => \A p \in PathsOf(Program[h]) : fs[p] = Initially[p]

\* What the stages before the batch have done to files no hook names.
EarlierPaths == PathsOf(Earlier) \ UNION {PathsOf(Program[h]) : h \in Hooks}

\* No move of theirs is between such a file and one of the hooks', nor does it
\* overwrite a file.
EarlierApart ==
    \A i \in DOMAIN Earlier :
       Earlier[i].kind = "move" =>
          /\ Earlier[i].path \in EarlierPaths <=> Earlier[i].to \in EarlierPaths
          /\ Earlier[i].to \notin Present

\* The stages before the batch are undone with it, whatever guards fail on
\* the way: their guards are below those of the hooks.
EarlierIsUndone ==
    EarlierApart /\ main \in {"failed", "returned"} /\ None \notin stuck =>
       \A p \in EarlierPaths : fs[p] = Initially[p]

\* No undoing takes away a file that was there before the hooks and that they
\* only touch.
TouchedFilesStay ==
    \A p \in Present :
       (\A h \in Hooks : \A i \in DOMAIN Program[h] :
           p \in PathsOf(<<Program[h][i]>>) => Program[h][i].kind = "touch")
       => (p \notin PathsOf(Earlier) => fs[p] = p)

\* Nothing of the batch changes the disk after the call has returned.
QuietAfterReturn == [][main = "returned" => fs' = fs]_vars

\* Only hooks that had begun before the lock was given up change the disk
\* without it: dropping the JoinSet keeps the others from starting.
NoneBeginsUnlocked ==
    [][\A h \in Hooks : ~locked /\ phase[h] = "queued" => phase'[h] # "running"]_vars

\* What outlives the failure of its batch is bounded at both ends: hooks that
\* had begun while the lock was held, and no longer than the call.
OnlyBegunOutlive == QuietAfterReturn /\ NoneBeginsUnlocked

\* A batch ends, whether its hooks succeed, fail or panic.
BatchEnds == <>(main \in {"done", "returned"})

\* "In rw mode, it holds a system lock file for the entire duration of the
\* run": no hook of the command runs once the lock is free.  It does: the tasks
\* that have begun outlive the failure of another one, and the lock.
LockCoversHooks == \A h \in Hooks : Busy(h) => locked
=============================================================================
