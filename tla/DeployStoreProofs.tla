-------------------------- MODULE DeployStoreProofs --------------------------
(***************************************************************************)
(* Theorems of DeployStore, for every set of digests and configs, every    *)
(* retention depth and every choice of commands and disturbances.  All     *)
(* rest on the inductive invariant Inv.                                    *)
(***************************************************************************)
EXTENDS DeployStore, FiniteSetTheorems, TLAPS

\* The invariant holds of what genesis leaves.
LEMMA InitInv == Init => Inv
  BY GenesisAssumption, DigestAssumption, NoneAssumption
  DEF Init, Inv, TypeOK, ControlInv, GuardInv, SeqInv, ImageInv, OrNone, Record,
      AllCommands, Builders, Boundaries, Inner, Results, Writing, Unwritten,
      Sweeping, SeqNamesOneRecord, RecordsOpenable, RecordRoots, RootsOf, Recorded

\* Every step keeps the invariant.
LEMMA NextInv == Inv /\ [Next]_vars => Inv'
<1> SUFFICES ASSUME Inv, [Next]_vars PROVE Inv'
  OBVIOUS
<1> USE GenesisAssumption, DigestAssumption, NoneAssumption, NumberAssumption,
        CommandAssumption
    DEF Inv, TypeOK, ControlInv, GuardInv, SeqInv, ImageInv, OrNone, Record,
        AllCommands, Builders, Boundaries, Inner, Results, Writing, Unwritten,
        Sweeping, SeqNamesOneRecord, RecordsOpenable, RecordRoots, RootsOf,
        Recorded, Goto, disk, boot, memory
<1>1. CASE \E c \in Commands : Begin(c)
  BY <1>1 DEF Begin, FirstStage
<1>2. CASE PreHooks
  BY <1>2 DEF PreHooks, FirstBody
<1>3. CASE Assemble
  BY <1>3 DEF Assemble
<1>4. CASE \E p \in Prefixes : CommitTree(p)
  BY <1>4 DEF CommitTree
<1>5. CASE Inherit
  BY <1>5 DEF Inherit
<1>6. CASE \E c \in Configs : Merge(c)
  BY <1>6 DEF Merge, BaseReadable
<1>7. CASE CreateDir
  BY <1>7 DEF CreateDir
<1>8. CASE AllocateSeq
  BY <1>8 DEF AllocateSeq
<1>9. CASE WriteRecord
  <2>1. /\ stage = "writeRecord"
        /\ target \in Prefixes \ Recorded /\ target \in dirs
        /\ target \in images /\ taken \in Nat /\ undo = None
        /\ booted \in Recorded /\ cmd # "gc"
        /\ cmd # "files" => config \in Configs /\ config \in images
    BY <1>9 DEF WriteRecord
  <2>2. /\ NewRecord \in Record
        /\ NewRecord.seq = taken
        /\ NewRecord.history \cup {NewRecord.working} \subseteq images
    <3>1. CASE cmd = "files"
      <4>1. /\ record[booted] \in Record
            /\ record[booted].history \cup {record[booted].working} \subseteq images
        BY <2>1
      <4>2. NewRecord = [seq |-> taken, working |-> record[booted].working,
                         history |-> record[booted].history, pinned |-> FALSE]
        BY <3>1 DEF NewRecord
      <4>3. NewRecord \in Record
        BY <2>1, <4>1, <4>2
      <4> QED
        BY <4>1, <4>2, <4>3
    <3>2. CASE cmd # "files"
      <4>1. NewRecord = [seq |-> taken, working |-> config,
                         history |-> {config}, pinned |-> FALSE]
        BY <3>2 DEF NewRecord
      <4>2. NewRecord \in Record
        BY <2>1, <3>2, <4>1
      <4>3. NewRecord.history \cup {NewRecord.working} = {config}
        BY <4>1
      <4> QED
        BY <2>1, <3>2, <4>1, <4>2, <4>3
    <3> QED
      BY <3>1, <3>2
  <2>3. NewRecord # None
    BY ONLY <2>2, NoneAssumption DEF Record
  <2>4. /\ record' = [record EXCEPT ![target] = NewRecord]
        /\ undo' = [prefix |-> target, previous |-> None]
    BY <1>9, <2>1 DEF WriteRecord, Guard
  <2>5. Recorded' = Recorded \cup {target}
    BY <2>1, <2>3, <2>4
  <2>6. /\ taken' = None /\ stage' = "checkout" /\ cmd' = cmd
        /\ UNCHANGED <<dirs, nextSeq, images, booted, persistent, oneShot,
                       outcome, target, config, pending, roots>>
    BY <1>9 DEF WriteRecord
  <2>7. TypeOK'
    BY <2>1, <2>2, <2>3, <2>4, <2>6
  <2>8. ControlInv'
    BY <2>1, <2>4, <2>6
  <2>9. GuardInv'
    BY <2>1, <2>4, <2>5, <2>6
  <2>10. SeqInv'
    BY <2>1, <2>2, <2>4, <2>5, <2>6
  <2>11. ImageInv'
    BY <2>1, <2>2, <2>4, <2>5, <2>6
  <2> QED
    BY <2>7, <2>8, <2>9, <2>10, <2>11
<1>10. CASE UpdateRecord
  BY <1>10 DEF UpdateRecord, Guard
<1>11. CASE \E p \in Prefixes, c \in Configs : Restore(p, c)
  BY <1>11 DEF Restore
<1>12. CASE Checkout
  BY <1>12 DEF Checkout
<1>13. CASE Swap
  BY <1>13 DEF Swap
<1>14. CASE Declarative
  BY <1>14 DEF Declarative
<1>15. CASE PostHooks
  BY <1>15 DEF PostHooks
<1>16. CASE Retention
  BY <1>16 DEF Retention, Doomed, Protected, CurrentPair
<1>17. CASE \E p \in Prefixes : RemoveDeploy(p)
  BY <1>17 DEF RemoveDeploy
<1>18. CASE \E p \in Prefixes : TornRemoval(p)
  BY <1>18 DEF TornRemoval, AbortWith, Unwound, Return
<1>19. CASE Pruned
  BY <1>19 DEF Pruned
<1>20. CASE \E p \in Prefixes : Collect(p)
  BY <1>20 DEF Collect
<1>21. CASE \E i \in images : Sweep(i)
  BY <1>21 DEF Sweep
<1>22. CASE Swept
  BY <1>22 DEF Swept
<1>23. CASE \E p \in Prefixes, value \in BOOLEAN : SetPinned(p, value)
  BY <1>23 DEF SetPinned, Guard
<1>24. CASE Refuse
  BY <1>24 DEF Refuse, Abort, AbortWith, Unwound, Return
<1>25. CASE Finish
  BY <1>25 DEF Finish, Return
<1>26. CASE Cancel
  BY <1>26 DEF Cancel, Abort, AbortWith, Unwound, Return
<1>27. CASE Fail
  BY <1>27 DEF Fail, Abort, AbortWith, Unwound, Return
<1>28. CASE Crash
  BY <1>28 DEF Crash, Return
<1>29. CASE Reboot
  BY <1>29 DEF Reboot, Return, Bootable
<1>30. CASE ConfirmBoot
  BY <1>30 DEF ConfirmBoot
<1>31. CASE UNCHANGED vars
  BY <1>31 DEF vars
<1> HIDE DEF Inv
<1> QED
  BY <1>1, <1>2, <1>3, <1>4, <1>5, <1>6, <1>7, <1>8, <1>9, <1>10, <1>11,
     <1>12, <1>13, <1>14, <1>15, <1>16, <1>17, <1>18, <1>19, <1>20, <1>21,
     <1>22, <1>23, <1>24, <1>25, <1>26, <1>27, <1>28, <1>29, <1>30, <1>31
  DEF Next, StageStep, Disturb

----------------------------------------------------------------------------
\* The invariant holds at every step of every command.
LEMMA SpecInv == Spec => []Inv
  BY InitInv, NextInv, PTL DEF Spec

\* The state of the store is well formed at every step of every command.
THEOREM TypeCorrect == Spec => []TypeOK
  BY SpecInv, PTL DEF Inv

\* No crash, failure or undo makes allocate_seq hand out a number twice.
THEOREM SeqIsUnique == Spec => []SeqNamesOneRecord
  BY SpecInv, PTL DEF Inv, SeqInv

\* Neither gc nor the order of a command's writes leaves a record that names
\* an image the repository cannot open.
THEOREM ImagesStay == Spec => []RecordsOpenable
  BY SpecInv, PTL DEF Inv, ImageInv

----------------------------------------------------------------------------
(***************************************************************************)
(* Steps.  Only a few of the actions touch the records; the others keep    *)
(* them, and what the guard would bring back.                              *)
(***************************************************************************)
\* The actions that leave record, next-seq and undo alone and do not return.
Quiet ==
    \/ \E c \in Commands : Begin(c)
    \/ PreHooks \/ Assemble \/ Inherit \/ CreateDir \/ Checkout \/ Swap
    \/ Declarative \/ PostHooks \/ Retention \/ Pruned \/ Swept \/ ConfirmBoot
    \/ \E p \in Prefixes : CommitTree(p) \/ Collect(p)
    \/ \E p \in Prefixes, c \in Configs : Restore(p, c)
    \/ \E c \in Configs : Merge(c)
    \/ \E i \in images : Sweep(i)
    \/ UNCHANGED vars

\* The actions that change a record while the command goes on.
Writes ==
    \/ WriteRecord \/ UpdateRecord
    \/ \E p \in Prefixes, value \in BOOLEAN : SetPinned(p, value)

\* The actions that end a command and run its guards.
Aborts ==
    \/ Refuse \/ Cancel \/ Fail
    \/ \E p \in Prefixes : TornRemoval(p)

\* Every step is of one of these kinds.
LEMMA Kinds ==
  [Next]_vars => \/ Quiet \/ Writes \/ Aborts
                 \/ AllocateSeq \/ \E p \in Prefixes : RemoveDeploy(p)
                 \/ Finish \/ Crash \/ Reboot
  BY DEF Next, StageStep, Disturb, Quiet, Writes, Aborts

\* A quiet step keeps the records, the counter and the guard.
LEMMA QuietKeeps ==
  Quiet => /\ UNCHANGED <<record, nextSeq, undo>>
           /\ cmd' = cmd \/ cmd = "none"
  BY DEF Quiet, Begin, PreHooks, Assemble, Inherit, CreateDir, Checkout, Swap,
         Declarative, PostHooks, Retention, Pruned, Swept, ConfirmBoot,
         CommitTree, Collect, Restore, Merge, Sweep, Goto, disk, boot, memory,
         vars

\* A write covers exactly the record it changes, and keeps its seq.
LEMMA WritesKeep ==
  ASSUME Inv, Writes
  PROVE  /\ nextSeq' = nextSeq /\ cmd' = cmd /\ cmd # "none"
         /\ undo = None
         /\ \/ UNCHANGED <<record, undo>>
            \/ \E t \in Prefixes, r \in Record :
                 /\ record' = [record EXCEPT ![t] = r]
                 /\ undo' = Guard(t)
                 /\ record[t] # None => r.seq = record[t].seq
<1> USE DEF Inv, TypeOK, ControlInv, Writing, Unwritten, OrNone, Record,
            Recorded, Goto
<1>1. CASE WriteRecord
  <2>1. target \in Prefixes /\ record[target] = None
    BY <1>1 DEF WriteRecord
  <2>2. NewRecord \in Record
    <3>1. taken \in Nat
      BY <1>1 DEF WriteRecord
    <3>2. CASE cmd = "files"
      BY <1>1, <3>1, <3>2 DEF WriteRecord, NewRecord
    <3>3. CASE cmd # "files"
      BY <1>1, <3>1, <3>3 DEF WriteRecord, NewRecord
    <3> QED
      BY <3>2, <3>3
  <2>3. /\ record' = [record EXCEPT ![target] = NewRecord]
        /\ undo' = Guard(target) /\ undo = None
        /\ nextSeq' = nextSeq /\ cmd' = cmd /\ cmd # "none"
    BY <1>1 DEF WriteRecord
  <2> QED
    BY <2>1, <2>2, <2>3
<1>2. CASE UpdateRecord
  BY <1>2 DEF UpdateRecord
<1>3. CASE \E p \in Prefixes, value \in BOOLEAN : SetPinned(p, value)
  BY <1>3 DEF SetPinned
<1> QED
  BY <1>1, <1>2, <1>3 DEF Writes

\* An abort puts back what the guard covers, or leaves the records as they
\* are if the guard may fail; a removal that was torn loses one more.
LEMMA AbortsReturn ==
  ASSUME Inv, Aborts
  PROVE  /\ nextSeq' = nextSeq /\ undo' = None /\ cmd' = "none"
         /\ outcome' # "ok"
         /\ \E records \in {record} \cup
                 {[record EXCEPT ![p] = None] : p \in NewestOf(pending)} :
              /\ stage = "removing" \/ records = record
              /\ \/ record' = Unwound(records)
                 \/ /\ record' = records
                    /\ "undo" \in Disturbances \/ outcome' = "Killed"
  BY DEF Aborts, Refuse, Cancel, Fail, TornRemoval, Abort, AbortWith, Return

\* A deploy keeps the seq it was born with, and the counter never goes back:
\* a failed command burns its number, and the guard of a write brings back
\* the seq that was there.
THEOREM SeqForEver == Spec => SeqIsForEver
<1>1. ASSUME Inv, [Next]_vars PROVE [SeqKept]_vars
  <2> SUFFICES SeqKept
    OBVIOUS
  <2> USE <1>1 DEF Inv, TypeOK, OrNone, Record, Recorded, SeqKept
  <2>1. CASE Quiet
    BY <2>1, QuietKeeps
  <2>2. CASE Writes
    BY <2>2, WritesKeep
  <2>3. CASE Aborts
    <3>1. PICK records \in {record} \cup
                 {[record EXCEPT ![p] = None] : p \in NewestOf(pending)} :
            record' \in {records, Unwound(records)}
      BY <2>3, AbortsReturn
    <3>2. \A p \in Prefixes : records[p] \in {record[p], None}
      BY <3>1 DEF NewestOf
    <3>3. \A p \in Prefixes : record'[p] \in {record[p], None}
                              \/ record'[p].seq = record[p].seq
      BY <3>1, <3>2 DEF Unwound, GuardInv
    <3> QED
      BY <2>3, <3>3, AbortsReturn
  <2>4. CASE AllocateSeq
    BY <2>4 DEF AllocateSeq
  <2>5. CASE \E p \in Prefixes : RemoveDeploy(p)
    BY <2>5 DEF RemoveDeploy
  <2>6. CASE Finish \/ Crash \/ Reboot
    BY <2>6 DEF Finish, Crash, Reboot, disk
  <2> QED
    BY <2>1, <2>2, <2>3, <2>4, <2>5, <2>6, Kinds
<1> QED
  BY <1>1, SpecInv, PTL DEF Spec, SeqIsForEver

\* The running system keeps its record: the clean-up dooms no booted deploy,
\* even if the machine could boot another one in the middle of it, and a
\* guard that removes a record never covers the booted one.
THEOREM BootedKeeps == Spec => BootedKeepsRecord
<1>1. ASSUME Inv, [Next]_vars PROVE [BootedKept]_vars
  <2> SUFFICES BootedKept
    OBVIOUS
  <2> USE <1>1, NoneAssumption
      DEF Inv, TypeOK, OrNone, Recorded, ControlInv, BootedKept
  <2>1. CASE Quiet
    BY <2>1, QuietKeeps
  <2>2. CASE Writes
    BY <2>2, WritesKeep
  <2>3. CASE Aborts
    <3>1. PICK records \in {record} \cup
                 {[record EXCEPT ![p] = None] : p \in NewestOf(pending)} :
            /\ stage = "removing" \/ records = record
            /\ record' \in {records, Unwound(records)}
      BY <2>3, AbortsReturn
    <3>2. records[booted] = record[booted]
      BY <3>1 DEF NewestOf
    <3> QED
      BY <3>1, <3>2 DEF Unwound, GuardInv
  <2>4. CASE AllocateSeq
    BY <2>4 DEF AllocateSeq
  <2>5. CASE \E p \in Prefixes : RemoveDeploy(p)
    BY <2>5 DEF RemoveDeploy, NewestOf
  <2>6. CASE Finish \/ Crash \/ Reboot
    BY <2>6 DEF Finish, Crash, Reboot, disk
  <2> QED
    BY <2>1, <2>2, <2>3, <2>4, <2>5, <2>6, Kinds
<1> QED
  BY <1>1, SpecInv, PTL DEF Spec, BootedKeepsRecord

\* A gc that ends well has left in the repository what the records reach,
\* and nothing else.
THEOREM GcLeavesRoots == Spec => GcIsExact
<1>1. ASSUME Inv, [Next]_vars PROVE [GcExact]_vars
  <2> SUFFICES ASSUME cmd = "gc", cmd' = "none", outcome' = "ok"
               PROVE  images = UNION {RecordRoots(p) : p \in Recorded}
    BY DEF GcExact
  <2>1. CASE Finish
    <3>1. \A i \in images : \E p \in Recorded : i \in RecordRoots(p)
      BY <1>1, <2>1 DEF Finish, Inv, ImageInv
    <3>2. \A p \in Recorded : RecordRoots(p) \subseteq images
      BY <1>1 DEF Inv, ImageInv, RecordsOpenable
    <3> QED
      BY <3>1, <3>2
  <2>2. ~Quiet
    BY QuietKeeps
  <2>3. ~Writes /\ ~Aborts
    BY <1>1, WritesKeep, AbortsReturn
  <2>4. /\ ~AllocateSeq /\ ~Crash /\ ~Reboot
        /\ ~\E p \in Prefixes : RemoveDeploy(p)
    BY DEF AllocateSeq, RemoveDeploy, Crash, Reboot, Return, Goto
  <2> QED
    BY <1>1, <2>1, <2>2, <2>3, <2>4, Kinds
<1> QED
  BY <1>1, SpecInv, PTL DEF Spec, GcIsExact

\* As long as no guard fails, a command that fails or is cancelled leaves the
\* records it found, but for the deploys its own clean-up had removed.
THEOREM AbortsRestore == "undo" \notin Disturbances => (Spec => AbortRestores)
<1> SUFFICES ASSUME "undo" \notin Disturbances
             PROVE  Spec => AbortRestores
  OBVIOUS
<1>1. ASSUME Inv, [Next]_vars PROVE [Restored]_vars
  <2> SUFFICES ASSUME cmd # "none", outcome' \notin {"ok", "Killed"},
                      NEW p \in Prefixes
               PROVE  \/ RollbackPoint(p)' = RollbackPoint(p)
                      \/ record'[p] = None /\ (stage = "removing" \/ p \notin dirs)
    BY DEF Restored
  <2> USE <1>1, NoneAssumption DEF Inv, TypeOK, OrNone, Recorded, RollbackPoint
  <2>1. CASE Quiet
    BY <2>1, QuietKeeps
  <2>2. CASE Writes
    BY <2>2, WritesKeep DEF Guard
  <2>3. CASE Aborts
    <3>1. PICK records \in {record} \cup
                 {[record EXCEPT ![q] = None] : q \in NewestOf(pending)} :
            /\ stage = "removing" \/ records = record
            /\ record' = Unwound(records)
      BY <2>3, AbortsReturn
    <3>2. undo' = None
      BY <2>3, AbortsReturn
    <3>3. records[p] = record[p] \/ (stage = "removing" /\ records[p] = None)
      BY <3>1 DEF NewestOf
    <3> QED
      BY <3>1, <3>2, <3>3 DEF Unwound
  <2>4. CASE AllocateSeq
    BY <2>4 DEF AllocateSeq
  <2>5. CASE \E q \in Prefixes : RemoveDeploy(q)
    BY <2>5 DEF RemoveDeploy, NewestOf
  <2>6. CASE Finish \/ Crash \/ Reboot
    BY <2>6 DEF Finish, Crash, Reboot, Return
  <2> QED
    BY <2>1, <2>2, <2>3, <2>4, <2>5, <2>6, Kinds
<1> QED
  BY <1>1, SpecInv, PTL DEF Spec, AbortRestores

----------------------------------------------------------------------------
(***************************************************************************)
(* The retention policy, while the doomed deploys go one by one.           *)
(***************************************************************************)
\* Removing the newest doomed deploy dooms none of the protected ones and
\* saves none of the doomed ones: the newest N stay where they are, and so do
\* the booted deploy and its older neighbour.
LEMMA RemovalKeepsDoom ==
  ASSUME Inv, pending \subseteq Doomed, NEW p \in Prefixes, RemoveDeploy(p)
  PROVE  pending' \subseteq Doomed'
<1> USE DEF Inv, TypeOK, OrNone, Record, Recorded
<1>1. /\ p \in pending /\ p \in Doomed /\ p \in Recorded
      /\ \A q \in pending : record[q].seq <= record[p].seq
      /\ record' = [record EXCEPT ![p] = None]
      /\ pending' = pending \ {p} /\ booted' = booted
  BY DEF RemoveDeploy, NewestOf, Doomed, boot
<1>2. /\ Recorded' = Recorded \ {p}
      /\ \A q \in Recorded' : record'[q] = record[q] /\ q \in Recorded
  BY <1>1
<1>3. \A q \in Recorded : record[q].seq \in Nat
  OBVIOUS
<1> SUFFICES ASSUME NEW q \in pending \ {p}
             PROVE  q \in Doomed'
  BY <1>1
<1>4. q \in Recorded /\ q \in Recorded' /\ ~record'[q].pinned
  BY <1>1, <1>2 DEF Doomed, Protected
<1>5. q \notin RetentionWindow'
  <2>1. Newer(p) \subseteq Newer(q)'
    BY <1>1, <1>2, <1>3, <1>4 DEF Newer
  <2>2. Cardinality(Newer(p)) >= RetentionDepth
    <3>1. IsFiniteSet(Newer(p))
      BY FiniteAssumption, FS_Subset DEF Newer
    <3>2. Cardinality(Newer(p)) \in Nat
      BY <3>1, FS_CardinalityType
    <3>3. ~(Cardinality(Newer(p)) < RetentionDepth)
      BY <1>1 DEF Doomed, Protected, RetentionWindow
    <3> QED
      BY <3>2, <3>3, NumberAssumption
  <2>3. IsFiniteSet(Newer(q)')
    BY FiniteAssumption, FS_Subset DEF Newer
  <2>4. /\ Cardinality(Newer(p)) <= Cardinality(Newer(q)')
        /\ Cardinality(Newer(p)) \in Nat /\ Cardinality(Newer(q)') \in Nat
    BY <2>1, <2>3, FS_Subset, FS_CardinalityType
  <2> QED
    BY <2>2, <2>4, NumberAssumption DEF RetentionWindow
<1>6. q \notin CurrentPair'
  <2>1. p \notin CurrentPair /\ q \notin CurrentPair
    BY <1>1 DEF Doomed, Protected
  <2>2. CASE booted \notin Recorded
    BY <1>1, <1>2, <2>2 DEF CurrentPair
  <2>3. CASE booted \in Recorded
    <3>1. Older(booted)' = Older(booted) \ {p}
      BY <1>1, <1>2, <2>1, <2>3 DEF Older, CurrentPair
    <3>2. p \notin NewestOf(Older(booted)) /\ q \notin NewestOf(Older(booted))
      BY <2>1, <2>3 DEF CurrentPair
    <3>3. q \notin NewestOf(Older(booted))'
      BY <1>1, <1>2, <1>3, <3>1, <3>2 DEF NewestOf, Older
    <3> QED
      BY <1>1, <1>2, <2>1, <2>3, <3>3 DEF CurrentPair
  <2> QED
    BY <2>2, <2>3
<1> QED
  BY <1>4, <1>5, <1>6 DEF Doomed, Protected

\* No other step touches the records while the clean-up goes on.
LEMMA RemovingSteps ==
  ASSUME Inv, [Next]_vars, stage = "removing"
  PROVE  \/ \E p \in Prefixes : RemoveDeploy(p)
         \/ UNCHANGED <<record, booted, pending, stage>>
         \/ UNCHANGED record /\ stage' # "removing"
         \/ cmd' # cmd /\ stage' # "removing"
<1> USE DEF Inv, ControlInv, Writing, Unwritten
<1>1. cmd # "none"
  OBVIOUS
<1>2. CASE Quiet
  BY <1>1, <1>2
  DEF Quiet, Begin, PreHooks, Assemble, Inherit, CreateDir, Checkout, Swap,
      Declarative, PostHooks, Retention, Pruned, Swept, ConfirmBoot,
      CommitTree, Collect, Restore, Merge, Sweep, Goto, disk, boot, memory, vars
<1>3. ~Writes
  BY DEF Writes, WriteRecord, UpdateRecord, SetPinned
<1>4. CASE Aborts \/ Finish \/ Crash \/ Reboot
  BY <1>1, <1>4 DEF Aborts, Refuse, Cancel, Fail, TornRemoval, Abort, AbortWith,
                    Finish, Crash, Reboot, Return
<1>5. ~AllocateSeq
  BY DEF AllocateSeq
<1> QED
  BY <1>2, <1>3, <1>4, <1>5, Kinds

\* The doomed set stays doomed until it is used up.
LEMMA SpecPolicy == Spec => []PolicyInv
<1>1. Init => PolicyInv
  BY DEF Init, PolicyInv
<1>2. ASSUME Inv, PolicyInv, [Next]_vars PROVE PolicyInv'
  <2>1. CASE stage = "removing"
    <3>1. CASE \E p \in Prefixes : RemoveDeploy(p)
      BY <1>2, <2>1, <3>1, RemovalKeepsDoom DEF PolicyInv
    <3>2. CASE UNCHANGED <<record, booted, pending, stage>>
      BY <1>2, <2>1, <3>2
      DEF PolicyInv, Doomed, Protected, CurrentPair, RetentionWindow, Newer,
          Older, NewestOf, Recorded
    <3> QED
      BY <1>2, <2>1, <3>1, <3>2, RemovingSteps DEF PolicyInv
  <2>2. CASE stage # "removing"
    <3>1. CASE Retention
      BY <3>1 DEF Retention, PolicyInv, disk, boot, Goto, Doomed, Protected,
                  CurrentPair, RetentionWindow, Newer, Older, NewestOf, Recorded
    <3>2. CASE Quiet /\ ~Retention
      <4>1. stage' # "removing"
        BY <1>2, <2>2, <3>2
        DEF Quiet, Begin, FirstStage, PreHooks, FirstBody, Assemble, Inherit,
            CreateDir, Checkout, Swap, Declarative, PostHooks, Pruned, Swept,
            CommitTree, Collect, Restore, Merge, Sweep, ConfirmBoot, Goto, vars,
            Inv, ControlInv, Builders
      <4> QED
        BY <4>1 DEF PolicyInv
    <3>3. CASE ~Quiet
      <4>1. stage' # "removing"
        BY <1>2, <2>2, <3>3, Kinds
        DEF Writes, WriteRecord, UpdateRecord, SetPinned, Aborts, Refuse, Cancel,
            Fail, TornRemoval, Abort, AbortWith, Return, AllocateSeq,
            RemoveDeploy, Finish, Crash, Reboot, Goto
      <4> QED
        BY <4>1 DEF PolicyInv
    <3> QED
      BY <3>1, <3>2, <3>3
  <2> QED
    BY <2>1, <2>2
<1> QED
  BY <1>1, <1>2, SpecInv, PTL DEF Spec

\* Whatever is removed, at the moment of its removal, is neither pinned, nor
\* booted, nor the booted one's older neighbour, nor among the newest N.
THEOREM CleanupKeeps == Spec => CleanupKeepsPolicy
<1>1. ASSUME Inv, PolicyInv, [Next]_vars PROVE [PolicyKept]_vars
  <2> SUFFICES ASSUME stage = "removing", cmd' = cmd,
                      NEW p \in Recorded \ Recorded'
               PROVE  /\ ~record[p].pinned
                      /\ p \notin CurrentPair
                      /\ Cardinality(Newer(p)) >= RetentionDepth
    BY DEF PolicyKept
  <2>1. PICK q \in Prefixes : RemoveDeploy(q)
    BY <1>1, RemovingSteps DEF Recorded
  <2>2. p = q
    BY <1>1, <2>1 DEF RemoveDeploy, Recorded, Inv, TypeOK
  <2>3. p \in Doomed
    BY <1>1, <2>1, <2>2 DEF RemoveDeploy, NewestOf, PolicyInv
  <2>4. Cardinality(Newer(p)) \in Nat
    BY FiniteAssumption, FS_Subset, FS_CardinalityType DEF Newer, Recorded
  <2>5. ~(Cardinality(Newer(p)) < RetentionDepth)
    BY <2>3 DEF Doomed, Protected, RetentionWindow
  <2> QED
    BY <2>3, <2>4, <2>5, NumberAssumption DEF Doomed, Protected
<1> QED
  BY <1>1, SpecInv, SpecPolicy, PTL DEF Spec, CleanupKeepsPolicy

----------------------------------------------------------------------------
Select == INSTANCE BootSelect WITH Digests <- Prefixes

\* The boot selection the deploy store counts on is no more than BootSelect
\* promises: commands arm it by one step (SwapStage), a start uses it up, the
\* late hook confirms, and nothing else, no undo and no clean-up, touches it.
THEOREM StoreNeedsBootSelect == Spec => Select!Spec
<1>1. Init => Select!Init
  BY GenesisAssumption DEF Init, Select!Init
<1>2. ASSUME Inv, [Next]_vars PROVE [Select!Next]_(Select!options)
  <2>1. CASE Swap
    <3>1. target \in Prefixes
      BY <1>2, <2>1 DEF Swap, Inv, TypeOK, ControlInv, OrNone
    <3>2. Select!Arm(target)
      BY <2>1 DEF Swap, Select!Arm
    <3> QED
      BY <3>1, <3>2 DEF Select!Next
  <2>2. CASE Reboot
    <3>1. Bootable \subseteq Prefixes
      BY <1>2 DEF Bootable, Inv, TypeOK
    <3>2. Select!Start
      BY <2>2, <3>1 DEF Reboot, Select!Start
    <3> QED
      BY <3>2 DEF Select!Next
  <2>3. CASE ConfirmBoot
    BY <2>3 DEF ConfirmBoot, Select!Next, Select!Confirm
  <2>4. CASE UNCHANGED boot
    BY <2>4 DEF boot, Select!options
  <2>5. CASE StageStep /\ ~Swap
    <3>1. UNCHANGED boot
      BY <2>5
      DEF StageStep, PreHooks, Assemble, Inherit, CreateDir, AllocateSeq,
          WriteRecord, UpdateRecord, Checkout, Declarative, PostHooks,
          Retention, Pruned, Swept, Refuse, Finish, CommitTree, RemoveDeploy,
          Collect, Restore, SetPinned, Merge, Sweep, Abort, disk, boot
    <3> QED
      BY <2>4, <3>1
  <2>6. CASE Cancel \/ Fail \/ Crash \/ \E p \in Prefixes : TornRemoval(p)
    BY <2>4, <2>6 DEF Cancel, Fail, Crash, TornRemoval, Abort, disk, boot
  <2>7. CASE UNCHANGED vars
    BY <2>4, <2>7 DEF vars, boot
  <2>8. CASE \E c \in Commands : Begin(c)
    BY <2>4, <2>8 DEF Begin, boot
  <2> QED
    BY <1>2, <2>1, <2>2, <2>3, <2>5, <2>6, <2>7, <2>8 DEF Next, Disturb
<1> QED
  BY <1>1, <1>2, SpecInv, PTL DEF Spec, Select!Spec

=============================================================================
