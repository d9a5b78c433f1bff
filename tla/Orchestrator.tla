---------------------------- MODULE Orchestrator ----------------------------
(***************************************************************************)
(* The stage engine: several callers, each walking one pipeline with its   *)
(* cursor, its cancel token and its stack of rollback guards.  Writers     *)
(* call run_exclusive and hold the process lock, readers run_concurrent.   *)
(*                                                                         *)
(* A stage is abstracted to what the engine sees of it: the slots it takes *)
(* from the context and puts there, whether it changed the disk, whether   *)
(* its guard can undo that, and the StageResult it returns.  A NoRollback  *)
(* guard does nothing and is left out of the stack.                        *)
(***************************************************************************)
EXTENDS Naturals, Sequences, FiniteSets

CONSTANTS
    Writers,     \* callers of run_exclusive
    Readers,     \* callers of run_concurrent
    Pipeline,    \* the stage types, in order
    Silent,      \* stage types that change the disk and return NoRollback
    Results,     \* what a stage may return
    Given,       \* context slots put before the run
    Requires,    \* the slots a stage declares in requires()
    Provides,    \* the slots a stage declares in provides()
    Needs,       \* the slots the body of a stage takes or reads
    Takes,       \* those it takes: they are gone
    Puts,        \* the slots the body of a stage puts
    StateCount,  \* variants of the command's <Command>StateId
    MaxEffects,  \* bound of the model: changes to the disk
    Mishaps,     \* what may go wrong
    None

Procs  == Writers \cup Readers
Stages == {Pipeline[i] : i \in 1 .. Len(Pipeline)}

\* "fault": a stage returns Err; "undo": a guard fails; "panic": a stage
\* panics; "crash": the process dies; "cancel": the token is set.
AllMishaps == {"fault", "undo", "panic", "crash", "cancel"}

ASSUME CallerAssumption   == Writers \cap Readers = {} /\ None \notin Procs
ASSUME PipelineAssumption == /\ Pipeline \in Seq(Stages)
                             /\ Silent \subseteq Stages
                             /\ Stages \cap {"Advance", "Repeat"} = {}
ASSUME ResultAssumption   == /\ Results \subseteq {"Advance", "Repeat"} \cup Stages
                             /\ None \notin {"Advance", "Repeat"} \cup Stages
ASSUME BoundAssumption    == StateCount \in Nat /\ MaxEffects \in Nat
ASSUME MishapAssumption   == Mishaps \subseteq AllMishaps

VARIABLES
    lock,      \* who is bound to the abstract socket, or None
    pc,        \* where each caller is in run_mutating!
    index,     \* Cursor::index, from 0
    previous,  \* the StageResult not yet consumed by Cursor::next, or None
    guards,    \* Context::rollback: the serials of the guarded changes
    slots,     \* Context::slots
    token,     \* CancelToken
    error,     \* what the run will return, "ok" or an error
    disk,      \* the changes that stand on the disk
    serial,    \* how many changes there have been
    stuck,     \* history: the changes whose guard failed
    began,     \* history: serial when the lock was taken
    last       \* history: how the last writer's run ended

engine == <<index, previous, guards, slots>>
vars   == <<lock, pc, index, previous, guards, slots, token, error,
            disk, serial, stuck, began, last>>

Change(p, n, s) == [proc |-> p, serial |-> n, silent |-> s]

Running(p) == pc[p] \in {"next", "stage", "unwind", "unlock"}

Init ==
    /\ lock = None
    /\ pc = [p \in Procs |-> "idle"]
    /\ index = [p \in Procs |-> 0]
    /\ previous = [p \in Procs |-> None]
    /\ guards = [p \in Procs |-> <<>>]
    /\ slots = [p \in Procs |-> {}]
    /\ token = [p \in Procs |-> FALSE]
    /\ error = [p \in Procs |-> "ok"]
    /\ disk = {} /\ serial = 0
    /\ stuck = {} /\ began = 0 /\ last = "ok"

----------------------------------------------------------------------------
(***************************************************************************)
(* run_mutating!: validate, lock, run.                                     *)
(***************************************************************************)
\* SequentialOrchestrator::validate.
Valid == \A i \in 1 .. Len(Pipeline) :
            Requires[Pipeline[i]] \subseteq
                Given \cup UNION {Provides[Pipeline[j]] : j \in 1 .. i - 1}

Goto(p, where) == pc' = [pc EXCEPT ![p] = where]

Return(p, result, where) ==
    /\ error' = [error EXCEPT ![p] = result]
    /\ Goto(p, where)

\* PipelineInvalid, or Lock::acquire returned Busy.
Refuse(p) ==
    /\ pc[p] = "idle"
    /\ ~Valid \/ (p \in Writers /\ lock # None)
    /\ Return(p, IF Valid THEN "Busy" ELSE "PipelineInvalid", "reset")
    /\ UNCHANGED <<lock, engine, token, disk, serial, stuck, began, last>>

\* Mutant: the command goes on without the lock.
BeginUnlocked(p) ==
    /\ pc[p] = "idle"
    /\ Valid
    /\ IF p \in Writers
       THEN lock' = p /\ began' = serial
       ELSE UNCHANGED <<lock, began>>
    /\ slots' = [slots EXCEPT ![p] = Given]
    /\ Goto(p, "next")
    /\ UNCHANGED <<index, previous, guards, token, error,
                   disk, serial, stuck, last>>

Begin(p) ==
    /\ pc[p] = "idle"
    /\ Valid
    /\ IF p \in Writers
       THEN lock = None /\ lock' = p /\ began' = serial
       ELSE UNCHANGED <<lock, began>>
    /\ slots' = [slots EXCEPT ![p] = Given]
    /\ Goto(p, "next")
    /\ UNCHANGED <<index, previous, guards, token, error,
                   disk, serial, stuck, last>>

----------------------------------------------------------------------------
(***************************************************************************)
(* Cursor::next.                                                           *)
(***************************************************************************)
\* Cursor::find: the positions before the cursor that hold the stage type.
Found(p) == {k \in 0 .. index[p] - 1 : Pipeline[k + 1] = previous[p]}

\* Cursor::advance.
Advanced(p) ==
    CASE previous[p] = None      -> index[p]
      [] previous[p] = "Repeat"  -> index[p]
      [] previous[p] = "Advance" -> index[p] + 1
      [] OTHER -> CHOOSE k \in Found(p) : \A j \in Found(p) : j <= k

Lost(p) == previous[p] \in Stages /\ Found(p) = {}

\* RepeatBack to a stage that has not run yet.
NextLost(p) ==
    /\ pc[p] = "next" /\ Lost(p)
    /\ Return(p, "StageNotFound", "unwind")
    /\ UNCHANGED <<lock, engine, token, disk, serial, stuck, began, last>>

\* The token is looked at before every stage, and once after the last.
NextCancelled(p) ==
    /\ pc[p] = "next" /\ ~Lost(p)
    /\ token[p]
    /\ index' = [index EXCEPT ![p] = Advanced(p)]
    /\ Return(p, "Cancelled", "unwind")
    /\ UNCHANGED <<lock, previous, guards, slots, token,
                   disk, serial, stuck, began, last>>

\* Mutant: the token is not looked at.
NextStageBlind(p) ==
    /\ pc[p] = "next" /\ ~Lost(p)
    /\ index' = [index EXCEPT ![p] = Advanced(p)]
    /\ Goto(p, IF Advanced(p) < Len(Pipeline) THEN "stage" ELSE "unlock")
    /\ UNCHANGED <<lock, previous, guards, slots, token, error,
                   disk, serial, stuck, began, last>>

NextStage(p) ==
    /\ pc[p] = "next" /\ ~Lost(p)
    /\ ~token[p]
    /\ index' = [index EXCEPT ![p] = Advanced(p)]
    /\ Goto(p, IF Advanced(p) < Len(Pipeline) THEN "stage" ELSE "unlock")
    /\ UNCHANGED <<lock, previous, guards, slots, token, error,
                   disk, serial, stuck, began, last>>

----------------------------------------------------------------------------
(***************************************************************************)
(* run_stage.                                                              *)
(***************************************************************************)
Stage(p) == Pipeline[index[p] + 1]

Writes(p) ==
    /\ p \in Writers /\ serial < MaxEffects
    /\ serial' = serial + 1
    /\ disk' = disk \cup {Change(p, serial + 1, Stage(p) \in Silent)}

WritesNothing == UNCHANGED <<disk, serial>>

\* Mutant: the guard of a call replaces those of the earlier calls.
StageOkForgets(p, result) ==
    /\ pc[p] = "stage"
    /\ Needs[Stage(p)] \subseteq slots[p]
    /\ \/ WritesNothing /\ UNCHANGED guards
       \/ /\ Writes(p)
          /\ guards' = [guards EXCEPT ![p] =
                           IF Stage(p) \in Silent THEN @ ELSE <<serial + 1>>]
    /\ slots' = [slots EXCEPT ![p] = (@ \ Takes[Stage(p)]) \cup Puts[Stage(p)]]
    /\ previous' = [previous EXCEPT ![p] = result]
    /\ Goto(p, "next")
    /\ UNCHANGED <<lock, index, token, error, stuck, began, last>>

StageOk(p, result) ==
    /\ pc[p] = "stage"
    /\ Needs[Stage(p)] \subseteq slots[p]
    /\ \/ WritesNothing /\ UNCHANGED guards
       \/ /\ Writes(p)
          /\ guards' = [guards EXCEPT ![p] =
                           IF Stage(p) \in Silent THEN @
                                                  ELSE Append(@, serial + 1)]
    /\ slots' = [slots EXCEPT ![p] = (@ \ Takes[Stage(p)]) \cup Puts[Stage(p)]]
    /\ previous' = [previous EXCEPT ![p] = result]
    /\ Goto(p, "next")
    /\ UNCHANGED <<lock, index, token, error, stuck, began, last>>

\* The stage returns Err.  One whose changes have no guard may have made some
\* of them already.
StageErr(p) ==
    /\ "fault" \in Mishaps
    /\ pc[p] = "stage"
    /\ Needs[Stage(p)] \subseteq slots[p]
    /\ \/ WritesNothing
       \/ Stage(p) \in Silent /\ Writes(p)
    /\ Return(p, "StageFailed", "unwind")
    /\ UNCHANGED <<lock, engine, token, stuck, began, last>>

\* ctx_get! and ctx_take! find nothing.
StageMissing(p) ==
    /\ pc[p] = "stage"
    /\ ~(Needs[Stage(p)] \subseteq slots[p])
    /\ Return(p, "MissingResult", "unwind")
    /\ UNCHANGED <<lock, engine, token, disk, serial, stuck, began, last>>

----------------------------------------------------------------------------
(***************************************************************************)
(* Context::unwind: every guard, newest first; one that fails is skipped.  *)
(***************************************************************************)
Newest(s) == s[Len(s)]
Rest(s)   == SubSeq(s, 1, Len(s) - 1)

\* Mutant: oldest first.
RollBackOldest(p) ==
    /\ pc[p] = "unwind" /\ guards[p] # <<>>
    /\ disk' = {e \in disk : e.serial # Head(guards[p])}
    /\ guards' = [guards EXCEPT ![p] = Tail(@)]
    /\ UNCHANGED <<lock, pc, index, previous, slots, token, error,
                   serial, stuck, began, last>>

RollBack(p) ==
    /\ pc[p] = "unwind" /\ guards[p] # <<>>
    /\ disk' = {e \in disk : e.serial # Newest(guards[p])}
    /\ guards' = [guards EXCEPT ![p] = Rest(@)]
    /\ UNCHANGED <<lock, pc, index, previous, slots, token, error,
                   serial, stuck, began, last>>

RollBackFails(p) ==
    /\ "undo" \in Mishaps
    /\ pc[p] = "unwind" /\ guards[p] # <<>>
    /\ stuck' = stuck \cup {Newest(guards[p])}
    /\ guards' = [guards EXCEPT ![p] = Rest(@)]
    /\ UNCHANGED <<lock, pc, index, previous, slots, token, error,
                   disk, serial, began, last>>

Unwound(p) ==
    /\ pc[p] = "unwind" /\ guards[p] = <<>>
    /\ Goto(p, "unlock")
    /\ UNCHANGED <<lock, engine, token, error, disk, serial, stuck, began, last>>

----------------------------------------------------------------------------
(***************************************************************************)
(* The end of a run: the lock is dropped, then the failed index becomes a  *)
(* state of the command, then the token is reset and the call returns.     *)
(***************************************************************************)
\* Mutant: the next call goes on with the cursor of this one.
LeaveStale(p) ==
    /\ Goto(p, "idle")
    /\ guards' = [guards EXCEPT ![p] = <<>>]
    /\ slots' = [slots EXCEPT ![p] = {}]
    /\ error' = [error EXCEPT ![p] = "ok"]
    /\ UNCHANGED <<index, previous>>

\* The call is over: its context and its cursor are dropped, no guard runs.
Leave(p) ==
    /\ Goto(p, "idle")
    /\ index' = [index EXCEPT ![p] = 0]
    /\ previous' = [previous EXCEPT ![p] = None]
    /\ guards' = [guards EXCEPT ![p] = <<>>]
    /\ slots' = [slots EXCEPT ![p] = {}]
    /\ error' = [error EXCEPT ![p] = "ok"]

Drop(p, how) ==
    IF p \in Writers THEN lock' = None /\ last' = how
                     ELSE UNCHANGED <<lock, last>>

Unlock(p) ==
    /\ pc[p] = "unlock"
    /\ Drop(p, IF error[p] = "ok" THEN "ok" ELSE "failed")
    /\ Goto(p, IF error[p] = "ok" THEN "reset" ELSE "state")
    /\ UNCHANGED <<engine, token, error, disk, serial, stuck, began>>

\* from_stage_index.
ToState(p) ==
    /\ pc[p] = "state" /\ index[p] < StateCount
    /\ Goto(p, "reset")
    /\ UNCHANGED <<lock, engine, token, error, disk, serial, stuck, began, last>>

\* Its unreachable!(): catch_unwind at the exported function; no reset.
ToNoState(p) ==
    /\ pc[p] = "state" /\ index[p] >= StateCount
    /\ Leave(p)
    /\ UNCHANGED <<lock, token, disk, serial, stuck, began, last>>

Reset(p) ==
    /\ pc[p] = "reset"
    /\ token' = [token EXCEPT ![p] = FALSE]
    /\ Leave(p)
    /\ UNCHANGED <<lock, disk, serial, stuck, began, last>>

\* A panic in a stage drops the lock and the context: no guard runs.
Panic(p) ==
    /\ "panic" \in Mishaps
    /\ pc[p] = "stage"
    /\ WritesNothing \/ Writes(p)
    /\ Drop(p, "killed")
    /\ Leave(p)
    /\ UNCHANGED <<token, stuck, began>>

\* The process dies: the kernel closes the lock's socket.
Crash(p) ==
    /\ "crash" \in Mishaps
    /\ pc[p] # "idle"
    /\ IF lock = p THEN lock' = None /\ last' = "killed"
                   ELSE UNCHANGED <<lock, last>>
    /\ token' = [token EXCEPT ![p] = FALSE]
    /\ Leave(p)
    /\ UNCHANGED <<disk, serial, stuck, began>>

\* The exported cancel(), from another thread and at any time.
Cancel(p) ==
    /\ "cancel" \in Mishaps
    /\ ~token[p]
    /\ token' = [token EXCEPT ![p] = TRUE]
    /\ UNCHANGED <<lock, pc, engine, error, disk, serial, stuck, began, last>>

----------------------------------------------------------------------------
\* What the thread of p does once it is in the call.
Step(p) ==
    \/ NextLost(p) \/ NextCancelled(p) \/ NextStage(p)
    \/ \E result \in Results : StageOk(p, result)
    \/ StageErr(p) \/ StageMissing(p) \/ Panic(p)
    \/ RollBack(p) \/ RollBackFails(p) \/ Unwound(p)
    \/ Unlock(p) \/ ToState(p) \/ ToNoState(p) \/ Reset(p)

Next ==
    \E p \in Procs : Begin(p) \/ Refuse(p) \/ Step(p) \/ Crash(p) \/ Cancel(p)

Spec == Init /\ [][Next]_vars

\* The threads that are in the call are scheduled, and stages return.
FairSpec == Spec /\ \A p \in Procs : WF_vars(Step(p))

----------------------------------------------------------------------------
(***************************************************************************)
(* Properties.                                                             *)
(***************************************************************************)
Errors == {"ok", "Busy", "PipelineInvalid", "StageNotFound", "Cancelled",
           "StageFailed", "MissingResult"}
Places == {"idle", "next", "stage", "unwind", "unlock", "state", "reset"}

\* Type invariant.  The cursor stays within the pipeline, one past its end.
TypeOK ==
    /\ lock \in Writers \cup {None}
    /\ pc \in [Procs -> Places]
    /\ index \in [Procs -> 0 .. Len(Pipeline)]
    /\ previous \in [Procs -> Results \cup {None}]
    /\ guards \in [Procs -> Seq(1 .. MaxEffects)]
    /\ DOMAIN slots = Procs
    /\ token \in [Procs -> BOOLEAN]
    /\ error \in [Procs -> Errors]
    /\ disk \subseteq [proc : Writers, serial : 1 .. MaxEffects, silent : BOOLEAN]
    /\ serial \in 0 .. MaxEffects
    /\ stuck \subseteq 1 .. MaxEffects
    /\ began \in 0 .. MaxEffects
    /\ last \in {"ok", "failed", "killed"}

\* No two writers are inside run_exclusive at once, unwinding included.
MutualExclusion ==
    \A p, q \in Writers : Running(p) /\ Running(q) => p = q

\* A change is undone only when nothing newer stands on the disk but what no
\* guard can undo: the guards run newest first, and before the lock is free
\* for another writer.
UndoneInOrder ==
    \A e \in disk \ disk' : \A f \in disk :
       f.serial > e.serial => f.silent \/ f.serial \in stuck

UndoInReverse == [][UndoneInOrder]_vars

\* Every failure at a stage is told apart from a command that did not start:
\* the failed index is a state of the command, and not its last one, Setup.
FailuresAreToldApart == \A p \in Procs : pc[p] = "state" => index[p] < StateCount - 1

\* Cancelling a command ends it: no number of Repeat or RepeatBack results
\* keeps a run going once its token is set.
CancelEndsRun ==
    \A p \in Procs : (token[p] /\ Running(p)) ~> ~Running(p)

\* What counts of the disk: while a run is in progress, nothing of it.
Standing == {e \in disk : lock = None \/ e.serial <= began}

\* The next writer finds the disk as whole runs left it.
Atomic == INSTANCE AtomicRuns WITH
              store <- Standing,
              owner <- lock
RunsAreAtomic == Atomic!Spec

----------------------------------------------------------------------------
(***************************************************************************)
(* The inductive invariant that the theorems of OrchestratorProofs rest    *)
(* on.  It bounds neither the pipeline nor the number of changes.          *)
(***************************************************************************)
\* The lock is held from before the first stage to after the unwinding.
LockInv ==
    /\ lock \in Writers \cup {None}
    /\ pc \in [Procs -> Places]
    /\ \A p \in Writers : Running(p) => lock = p

DiskInv ==
    /\ serial \in Nat
    /\ disk \subseteq [proc : Writers, serial : 1 .. serial, silent : BOOLEAN]

\* What was changed after a change that has a guard has a guard of its own,
\* further up the stack.
Stacked(p) ==
    \A i \in 1 .. Len(guards[p]) : \A f \in disk :
       \/ f.serial <= guards[p][i] \/ f.silent \/ f.serial \in stuck
       \/ \E j \in i + 1 .. Len(guards[p]) : guards[p][j] = f.serial

StackInv ==
    /\ guards \in [Procs -> Seq(Nat)]
    /\ \A p \in Procs : pc[p] = "idle" \/ p \in Readers => guards[p] = <<>>
    /\ \A p \in Procs : pc[p] \in {"next", "stage", "unwind"} => Stacked(p)

Inv == LockInv /\ DiskInv /\ StackInv

\* What was changed since the lock was taken was changed by its holder.
BeganInv ==
    /\ began \in Nat /\ began <= serial
    /\ \A e \in disk : lock # None /\ e.serial > began => e.proc = lock

ErrorInv ==
    /\ error \in [Procs -> Errors]
    /\ \A p \in Procs : pc[p] \in {"idle", "next", "stage"} => error[p] = "ok"

\* The guards of a run are those of its own changes, all of them, except for
\* the changes that have none or whose guard has failed.
Lasting(e) == e.silent \/ e.serial \in stuck
OwnGuards(p) ==
    /\ \A i \in 1 .. Len(guards[p]) : guards[p][i] > began
    /\ \A e \in disk :
          \/ e.serial <= began \/ Lasting(e)
          \/ \E i \in 1 .. Len(guards[p]) : guards[p][i] = e.serial

UndoneInv ==
    \A e \in disk : e.serial <= began \/ Lasting(e)

\* A run that is about to drop the lock has ended well or has undone its
\* changes.
RunInv ==
    \A p \in Writers :
       /\ pc[p] \in {"next", "stage", "unwind"} => OwnGuards(p)
       /\ pc[p] = "unlock" => error[p] = "ok" \/ UndoneInv

AtomicInv == Inv /\ BeganInv /\ ErrorInv /\ RunInv
=============================================================================
