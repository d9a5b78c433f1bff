-------------------------- MODULE OrchestratorProofs --------------------------
(***************************************************************************)
(* Theorems of Orchestrator, for every set of callers, every pipeline and  *)
(* every number of changes to the disk.                                    *)
(***************************************************************************)
EXTENDS Orchestrator, SequenceTheorems, FiniteSetTheorems, TLAPS

\* The invariant holds before the first call.
LEMMA InitInv == Init => Inv
  BY DEF Init, Inv, LockInv, DiskInv, StackInv, Stacked, Places, Procs, Running

\* Whatever a step does, a caller that is inside run_exclusive holds the lock.
LEMMA NextLock == LockInv /\ [Next]_vars => LockInv'
<1> SUFFICES ASSUME LockInv, [Next]_vars PROVE LockInv'
  OBVIOUS
<1> USE CallerAssumption DEF LockInv, Running, Places, Procs, Goto
<1>1. ASSUME NEW p \in Procs, Begin(p) PROVE LockInv'
  BY <1>1 DEF Begin
<1>2. ASSUME NEW p \in Procs, Refuse(p) PROVE LockInv'
  BY <1>2 DEF Refuse, Return
<1>3. ASSUME NEW p \in Procs,
             NextLost(p) \/ NextCancelled(p) \/ NextStage(p)
      PROVE  LockInv'
  BY <1>3 DEF NextLost, NextCancelled, NextStage, Return
<1>4. ASSUME NEW p \in Procs,
             \/ \E result \in Results : StageOk(p, result)
             \/ StageErr(p) \/ StageMissing(p)
      PROVE  LockInv'
  BY <1>4 DEF StageOk, StageErr, StageMissing, Return
<1>5. ASSUME NEW p \in Procs, RollBack(p) \/ RollBackFails(p) \/ Unwound(p)
      PROVE  LockInv'
  BY <1>5 DEF RollBack, RollBackFails, Unwound
<1>6. ASSUME NEW p \in Procs, Unlock(p) PROVE LockInv'
  BY <1>6 DEF Unlock, Drop
<1>7. ASSUME NEW p \in Procs, ToState(p) \/ ToNoState(p) \/ Reset(p)
      PROVE  LockInv'
  BY <1>7 DEF ToState, ToNoState, Reset, Leave
<1>8. ASSUME NEW p \in Procs, Panic(p) PROVE LockInv'
  BY <1>8 DEF Panic, Drop, Leave
<1>9. ASSUME NEW p \in Procs, Crash(p) PROVE LockInv'
  BY <1>9 DEF Crash, Leave
<1>10. ASSUME NEW p \in Procs, Cancel(p) PROVE LockInv'
  BY <1>10 DEF Cancel
<1>11. CASE UNCHANGED vars
  BY <1>11 DEF vars
<1> QED
  BY <1>1, <1>2, <1>3, <1>4, <1>5, <1>6, <1>7, <1>8, <1>9, <1>10, <1>11
  DEF Next, Step

\* The lock is held at every step of a run.
LEMMA SpecLock == Spec => []LockInv
<1>1. Init => LockInv
  BY InitInv DEF Inv
<1> QED
  BY <1>1, NextLock, PTL DEF Spec

\* No two writers are inside run_exclusive at once, however many there are
\* and wherever one of them fails, panics or dies.
THEOREM WritersExclude == Spec => []MutualExclusion
<1>1. LockInv => MutualExclusion
  BY DEF LockInv, MutualExclusion
<1> QED
  BY <1>1, SpecLock, PTL

----------------------------------------------------------------------------
(***************************************************************************)
(* The stack of guards.                                                    *)
(***************************************************************************)
\* A stage of a writer adds one change to the disk, with the next serial.
LEMMA WritesNew ==
  ASSUME DiskInv, NEW p \in Procs, Writes(p)
  PROVE  /\ p \in Writers
         /\ serial' = serial + 1 /\ serial' \in Nat
         /\ \E new \in [proc : Writers, serial : 1 .. serial', silent : BOOLEAN] :
              /\ disk' = disk \cup {new}
              /\ new.serial = serial + 1
              /\ new.silent <=> Stage(p) \in Silent
<1> DEFINE flag == Stage(p) \in Silent
           new == Change(p, serial + 1, flag)
<1>1. /\ p \in Writers /\ serial' = serial + 1
      /\ disk' = disk \cup {new}
  BY DEF Writes
<1>2. flag \in BOOLEAN
  OBVIOUS
<1>3. serial + 1 \in 1 .. serial' /\ serial' \in Nat
  BY <1>1 DEF DiskInv
<1> HIDE DEF flag
<1>4. /\ new \in [proc : Writers, serial : 1 .. serial', silent : BOOLEAN]
      /\ new.serial = serial + 1 /\ new.silent = flag
  BY <1>1, <1>2, <1>3 DEF Change
<1>5. new.silent <=> Stage(p) \in Silent
  BY <1>4 DEF flag
<1> HIDE DEF new
<1> QED
  BY <1>1, <1>3, <1>4, <1>5

\* Only the stages of a writer change the disk, and only guards take a change
\* back.
LEMMA NextDisk == DiskInv /\ LockInv /\ [Next]_vars => DiskInv'
<1> SUFFICES ASSUME DiskInv, LockInv, [Next]_vars PROVE DiskInv'
  OBVIOUS
<1> USE DEF DiskInv, Procs
<1>1. ASSUME NEW p \in Procs, Writes(p) PROVE DiskInv'
  <2>1. PICK new \in [proc : Writers, serial : 1 .. serial', silent : BOOLEAN] :
               disk' = disk \cup {new}
    BY <1>1, WritesNew
  <2>2. serial \in Nat /\ serial' = serial + 1 /\ serial' \in Nat
    BY <1>1, WritesNew
  <2> QED
    BY <2>1, <2>2
<1>2. ASSUME NEW p \in Procs, RollBack(p) PROVE DiskInv'
  BY <1>2 DEF RollBack
<1>3. CASE UNCHANGED <<disk, serial>>
  BY <1>3
<1>4. ASSUME NEW p \in Procs,
             Begin(p) \/ Refuse(p) \/ Step(p) \/ Crash(p) \/ Cancel(p)
      PROVE  Writes(p) \/ RollBack(p) \/ UNCHANGED <<disk, serial>>
  BY <1>4 DEF Begin, Refuse, Step, Crash, Cancel, NextLost, NextCancelled,
              NextStage, StageOk, StageErr, StageMissing, Panic, RollBackFails,
              Unwound, Unlock, ToState, ToNoState, Reset, WritesNothing
<1> QED
  BY <1>1, <1>2, <1>3, <1>4 DEF Next, vars

\* A caller whose stack and the disk below it are as they were keeps its
\* property; so it is with everyone else when one caller takes a step.
LEMMA StackedStays ==
  ASSUME NEW p \in Procs, Stacked(p), guards'[p] = guards[p],
         disk' \subseteq disk, stuck \subseteq stuck'
  PROVE  Stacked(p)'
  BY DEF Stacked

\* A stage that changes the disk and returns its guard.
LEMMA StackedPush ==
  ASSUME Inv, NEW p \in Procs, pc[p] = "stage", Writes(p), stuck' = stuck,
         \/ Stage(p) \in Silent /\ guards'[p] = guards[p]
         \/ Stage(p) \notin Silent /\ guards'[p] = Append(guards[p], serial + 1)
  PROVE  Stacked(p)'
<1>1. /\ serial \in Nat /\ guards[p] \in Seq(Nat) /\ Stacked(p) /\ DiskInv
      /\ \A f \in disk : f.serial \in 1 .. serial
  BY DEF Inv, StackInv, DiskInv
<1>2. PICK new \in [proc : Writers, serial : 1 .. serial', silent : BOOLEAN] :
           /\ disk' = disk \cup {new}
           /\ new.serial = serial + 1
           /\ new.silent <=> Stage(p) \in Silent
  BY <1>1, WritesNew
<1> DEFINE n == Len(guards[p])
<1>3. n \in Nat /\ \A i \in 1 .. n : guards[p][i] \in Nat
  BY <1>1
<1>4. ASSUME NEW i \in 1 .. n, NEW f \in disk
      PROVE  \/ f.serial <= guards[p][i] \/ f.silent \/ f.serial \in stuck
             \/ \E j \in i + 1 .. n : guards[p][j] = f.serial
  BY <1>1, <1>4 DEF Stacked
<1> HIDE DEF n
<1>5. CASE Stage(p) \in Silent /\ guards'[p] = guards[p]
  <2> SUFFICES ASSUME NEW i \in 1 .. n, NEW f \in disk'
               PROVE  \/ f.serial <= guards[p][i] \/ f.silent \/ f.serial \in stuck
                      \/ \E j \in i + 1 .. n : guards[p][j] = f.serial
    BY <1>5 DEF Stacked, n
  <2>1. CASE f = new
    BY <1>2, <1>5, <2>1
  <2>2. CASE f \in disk
    BY <1>4, <2>2
  <2> QED
    BY <1>2, <2>1, <2>2
<1>6. CASE Stage(p) \notin Silent /\ guards'[p] = Append(guards[p], serial + 1)
  <2>1. /\ Len(guards'[p]) = n + 1
        /\ guards'[p][n + 1] = serial + 1
        /\ \A i \in 1 .. n : guards'[p][i] = guards[p][i]
    BY <1>1, <1>6 DEF n
  <2> SUFFICES ASSUME NEW i \in 1 .. n + 1, NEW f \in disk'
               PROVE  \/ f.serial <= guards'[p][i] \/ f.silent \/ f.serial \in stuck
                      \/ \E j \in i + 1 .. n + 1 : guards'[p][j] = f.serial
    BY <2>1 DEF Stacked
  <2>2. CASE i = n + 1
    <3>1. f.serial \in Nat /\ f.serial <= serial + 1
      BY <1>1, <1>2
    <3> QED
      BY <2>1, <2>2, <3>1
  <2>3. CASE i \in 1 .. n /\ f = new
    <3>1. n + 1 \in i + 1 .. n + 1
      BY <1>3, <2>3
    <3> QED
      BY <1>2, <2>1, <2>3, <3>1
  <2>4. CASE i \in 1 .. n /\ f \in disk
    <3>1. CASE \E j \in i + 1 .. n : guards[p][j] = f.serial
      <4>1. PICK j \in i + 1 .. n : guards[p][j] = f.serial
        BY <3>1
      <4>2. j \in 1 .. n /\ j \in i + 1 .. n + 1
        BY <1>3, <2>4
      <4> QED
        BY <2>1, <4>1, <4>2
    <3>2. CASE f.serial <= guards[p][i] \/ f.silent \/ f.serial \in stuck
      BY <2>1, <2>4, <3>2
    <3> QED
      BY <1>4, <2>4, <3>1, <3>2
  <2>5. i = n + 1 \/ i \in 1 .. n
    BY <1>3
  <2> QED
    BY <1>2, <2>2, <2>3, <2>4, <2>5
<1> QED
  BY <1>5, <1>6

\* A stack without its newest guard.
LEMMA RestProperties ==
  ASSUME NEW s \in Seq(Nat), s # <<>>
  PROVE  /\ Rest(s) \in Seq(Nat) /\ Len(s) \in Nat \ {0}
         /\ Len(Rest(s)) = Len(s) - 1
         /\ \A i \in 1 .. Len(s) - 1 : Rest(s)[i] = s[i]
<1> DEFINE n == Len(s)
<1>1. n \in Nat \ {0} /\ \A i \in 1 .. n : s[i] \in Nat
  OBVIOUS
<1> HIDE DEF n
<1>2. \A i \in 1 .. n - 1 : s[i] \in Nat
  BY <1>1
<1>3. /\ SubSeq(s, 1, n - 1) \in Seq(Nat)
      /\ Len(SubSeq(s, 1, n - 1)) = IF 1 <= n - 1 THEN (n - 1) - 1 + 1 ELSE 0
      /\ \A i \in 1 .. (n - 1) - 1 + 1 : SubSeq(s, 1, n - 1)[i] = s[1 + i - 1]
  BY <1>1, <1>2, SubSeqProperties
<1>4. \A i \in 1 .. n - 1 : SubSeq(s, 1, n - 1)[i] = s[i]
  <2> SUFFICES ASSUME NEW i \in 1 .. n - 1
               PROVE  SubSeq(s, 1, n - 1)[i] = s[i]
    OBVIOUS
  <2>1. i \in 1 .. (n - 1) - 1 + 1 /\ 1 + i - 1 = i
    BY <1>1
  <2> QED
    BY <1>3, <2>1
<1>5. Len(SubSeq(s, 1, n - 1)) = n - 1
  BY <1>1, <1>3
<1> QED
  BY <1>1, <1>3, <1>4, <1>5 DEF Rest, n

\* Running the newest guard, or skipping it because it fails.
LEMMA StackedPop ==
  ASSUME Inv, NEW p \in Procs, pc[p] = "unwind",
         RollBack(p) \/ RollBackFails(p)
  PROVE  Stacked(p)'
<1> DEFINE n == Len(guards[p])
<1>1. guards[p] \in Seq(Nat) /\ guards[p] # <<>> /\ Stacked(p)
  BY DEF RollBack, RollBackFails, Inv, StackInv
<1>2. guards'[p] = Rest(guards[p])
  BY DEF RollBack, RollBackFails, Inv, StackInv
<1>3. /\ n \in Nat \ {0} /\ Len(guards'[p]) = n - 1
      /\ \A i \in 1 .. n - 1 : guards'[p][i] = guards[p][i]
  BY <1>1, <1>2, RestProperties
<1>4. /\ disk' \subseteq disk /\ stuck \subseteq stuck'
      /\ guards[p][n] \in stuck' \/ \A f \in disk' : f.serial # guards[p][n]
  BY DEF RollBack, RollBackFails, Newest
<1>5. ASSUME NEW i \in 1 .. n, NEW f \in disk
      PROVE  \/ f.serial <= guards[p][i] \/ f.silent \/ f.serial \in stuck
             \/ \E j \in i + 1 .. n : guards[p][j] = f.serial
  BY <1>1, <1>5 DEF Stacked
<1> HIDE DEF n
<1> SUFFICES ASSUME NEW i \in 1 .. n - 1, NEW f \in disk'
             PROVE  \/ f.serial <= guards'[p][i] \/ f.silent \/ f.serial \in stuck'
                    \/ \E j \in i + 1 .. n - 1 : guards'[p][j] = f.serial
  BY <1>3 DEF Stacked
<1>6. i \in 1 .. n /\ f \in disk
  BY <1>3, <1>4
<1>7. CASE \E j \in i + 1 .. n : guards[p][j] = f.serial
  <2>1. PICK j \in i + 1 .. n : guards[p][j] = f.serial
    BY <1>7
  <2>2. CASE j = n
    BY <1>4, <2>1, <2>2
  <2>3. CASE j \in i + 1 .. n - 1
    <3>1. j \in 1 .. n - 1
      BY <1>3, <2>3
    <3> QED
      BY <1>3, <2>1, <2>3, <3>1
  <2>4. j = n \/ j \in i + 1 .. n - 1
    BY <1>3, <2>1
  <2> QED
    BY <2>2, <2>3, <2>4
<1>8. CASE f.serial <= guards[p][i] \/ f.silent \/ f.serial \in stuck
  BY <1>3, <1>4, <1>8
<1> QED
  BY <1>5, <1>6, <1>7, <1>8

\* Nobody else's stack is concerned: a caller that changes the disk is a
\* writer in a run, and there is only one.
LEMMA OthersStacked ==
  ASSUME Inv, NEW p \in Procs, NEW q \in Procs \ {p},
         pc[q] \in {"next", "stage", "unwind"}, guards'[q] = guards[q],
         stuck \subseteq stuck',
         disk' \subseteq disk \/ (pc[p] = "stage" /\ Writes(p))
  PROVE  Stacked(q)'
<1> USE DEF Inv, StackInv, Procs
<1>1. CASE disk' \subseteq disk
  BY <1>1, StackedStays
<1>2. CASE pc[p] = "stage" /\ Writes(p)
  <2>1. q \in Readers
    BY <1>2, CallerAssumption DEF Writes, LockInv, Running
  <2> QED
    BY <2>1 DEF Stacked
<1> QED
  BY <1>1, <1>2

\* Every step keeps the stacks in order.
LEMMA NextStack == Inv /\ [Next]_vars => StackInv'
<1> SUFFICES ASSUME Inv, [Next]_vars PROVE StackInv'
  OBVIOUS
<1> USE DEF Inv
\* What is to be shown of the caller that takes the step.
<1> DEFINE Stays(p) ==
             /\ \A q \in Procs \ {p} : pc'[q] = pc[q] /\ guards'[q] = guards[q]
             /\ stuck \subseteq stuck'
             /\ disk' \subseteq disk \/ (pc[p] = "stage" /\ Writes(p))
           Own(p) ==
             /\ guards' \in [Procs -> Seq(Nat)]
             /\ pc'[p] = "idle" \/ p \in Readers => guards'[p] = <<>>
             /\ pc'[p] \in {"next", "stage", "unwind"} => Stacked(p)'
<1>1. ASSUME NEW p \in Procs, Stays(p), Own(p) PROVE StackInv'
  <2>1. \A q \in Procs \ {p} :
           pc'[q] \in {"next", "stage", "unwind"} => Stacked(q)'
    BY <1>1, OthersStacked
  <2> QED
    BY <1>1, <2>1 DEF StackInv
<1> HIDE DEF Inv, Stays, Own
\* Steps that leave the disk and the stacks alone.
<1>2. ASSUME NEW p \in Procs, UNCHANGED <<guards, disk, stuck>>,
             \A q \in Procs \ {p} : pc'[q] = pc[q],
             pc'[p] # "idle" \/ pc'[p] = pc[p],
             \/ pc'[p] \notin {"next", "stage", "unwind"}
             \/ pc[p] \in {"idle", "next", "stage", "unwind"}
      PROVE  StackInv'
  <2>1. Stays(p)
    BY <1>2 DEF Stays
  <2>2. CASE pc[p] = "idle"
    BY <1>1, <1>2, <2>1, <2>2 DEF Own, Inv, StackInv, Stacked
  <2>3. CASE pc[p] # "idle"
    BY <1>1, <1>2, <2>1, <2>3, StackedStays DEF Own, Inv, StackInv
  <2> QED
    BY <2>2, <2>3
<1>3. ASSUME NEW p \in Procs,
             Begin(p) \/ Refuse(p) \/ Cancel(p) \/ NextLost(p)
               \/ NextCancelled(p) \/ NextStage(p)
      PROVE  StackInv'
  <2>1. pc \in [Procs -> Places]
    BY DEF Inv, LockInv
  <2> QED
    BY <1>2, <1>3, <2>1
    DEF Begin, Refuse, Cancel, NextLost, NextCancelled, NextStage, Return, Goto,
        engine
<1>4. ASSUME NEW p \in Procs,
             StageMissing(p) \/ Unwound(p) \/ Unlock(p) \/ ToState(p)
      PROVE  StackInv'
  <2>1. pc \in [Procs -> Places]
    BY DEF Inv, LockInv
  <2> QED
    BY <1>2, <1>4, <2>1
    DEF StageMissing, Unwound, Unlock, ToState, Return, Goto, engine
\* Steps that end the call.
<1>5. ASSUME NEW p \in Procs,
             ToNoState(p) \/ Reset(p) \/ Crash(p) \/ Panic(p)
      PROVE  StackInv'
  <2>1. Stays(p)
    BY <1>5 DEF ToNoState, Reset, Crash, Panic, Leave, Goto, WritesNothing, Stays,
                Inv, LockInv, StackInv
  <2>2. pc'[p] = "idle" /\ guards' = [guards EXCEPT ![p] = <<>>]
    BY <1>5 DEF ToNoState, Reset, Crash, Panic, Leave, Goto, Inv, LockInv
  <2>3. Own(p)
    BY <2>2 DEF Own, Inv, StackInv
  <2> QED
    BY <1>1, <2>1, <2>3
\* A stage returns.
<1>6. ASSUME NEW p \in Procs, NEW result \in Results, StageOk(p, result)
      PROVE  StackInv'
  <2>1. /\ pc[p] = "stage" /\ pc' = [pc EXCEPT ![p] = "next"]
        /\ stuck' = stuck /\ pc \in [Procs -> Places]
        /\ guards \in [Procs -> Seq(Nat)] /\ serial \in Nat
    BY <1>6 DEF StageOk, Goto, Inv, LockInv, DiskInv, StackInv
  <2>2. CASE WritesNothing /\ UNCHANGED guards
    BY <1>2, <2>1, <2>2 DEF WritesNothing
  <2>3. CASE Writes(p) /\ guards' = [guards EXCEPT ![p] =
                           IF Stage(p) \in Silent THEN @
                                                  ELSE Append(@, serial + 1)]
    <3>1. \/ Stage(p) \in Silent /\ guards'[p] = guards[p]
          \/ Stage(p) \notin Silent /\ guards'[p] = Append(guards[p], serial + 1)
      BY <2>1, <2>3
    <3>2. Stacked(p)'
      BY <2>1, <2>3, <3>1, StackedPush
    <3>3. Stays(p)
      BY <2>1, <2>3 DEF Stays
    <3>4. p \in Writers
      BY <2>3 DEF Writes
    <3>5. Own(p)
      BY <2>1, <2>3, <3>2, <3>4, CallerAssumption DEF Own, Procs
    <3> QED
      BY <1>1, <3>3, <3>5
  <2> QED
    BY <1>6, <2>2, <2>3 DEF StageOk
<1>7. ASSUME NEW p \in Procs, StageErr(p) PROVE StackInv'
  <2>1. /\ pc[p] = "stage" /\ pc' = [pc EXCEPT ![p] = "unwind"]
        /\ stuck' = stuck /\ guards' = guards /\ pc \in [Procs -> Places]
        /\ guards \in [Procs -> Seq(Nat)]
    BY <1>7 DEF StageErr, Return, Goto, engine, Inv, LockInv, StackInv
  <2>2. CASE WritesNothing
    BY <1>2, <2>1, <2>2 DEF WritesNothing
  <2>3. CASE Stage(p) \in Silent /\ Writes(p)
    <3>1. Stacked(p)'
      BY <2>1, <2>3, StackedPush
    <3>2. Stays(p)
      BY <2>1, <2>3 DEF Stays
    <3>3. p \in Writers
      BY <2>3 DEF Writes
    <3>4. Own(p)
      BY <2>1, <3>1, <3>3, CallerAssumption DEF Own, Procs
    <3> QED
      BY <1>1, <3>2, <3>4
  <2> QED
    BY <1>7, <2>2, <2>3 DEF StageErr
\* A guard is run, or skipped.
<1>8. ASSUME NEW p \in Procs, RollBack(p) \/ RollBackFails(p)
      PROVE  StackInv'
  <2>1. /\ pc[p] = "unwind" /\ pc' = pc
        /\ guards[p] # <<>> /\ guards' = [guards EXCEPT ![p] = Rest(@)]
        /\ stuck \subseteq stuck' /\ disk' \subseteq disk
    BY <1>8 DEF RollBack, RollBackFails
  <2>2. guards \in [Procs -> Seq(Nat)] /\ p \notin Readers
    BY <2>1 DEF Inv, StackInv
  <2>3. guards' \in [Procs -> Seq(Nat)]
    BY <2>1, <2>2, RestProperties
  <2>4. Stacked(p)'
    BY <1>8, <2>1, StackedPop
  <2>5. Stays(p) /\ Own(p)
    BY <2>1, <2>2, <2>3, <2>4 DEF Stays, Own
  <2> QED
    BY <1>1, <2>5
<1>9. CASE UNCHANGED vars
  BY <1>9 DEF vars, Inv, StackInv, Stacked
<1> QED
  BY <1>3, <1>4, <1>5, <1>6, <1>7, <1>8, <1>9 DEF Next, Step

\* The invariant holds at every step.
LEMMA SpecInv == Spec => []Inv
<1>1. Inv /\ [Next]_vars => Inv'
  BY NextLock, NextDisk, NextStack DEF Inv
<1> QED
  BY InitInv, <1>1, PTL DEF Spec

\* A change is never undone from under a newer one that could still be undone:
\* the stack is run from its top, and to its end before another writer can
\* touch the disk, whatever guards fail on the way.
THEOREM UndoIsOrdered == Spec => UndoInReverse
<1>1. ASSUME Inv, [Next]_vars PROVE [UndoneInOrder]_vars
  <2> SUFFICES ASSUME NEW e \in disk \ disk', NEW f \in disk,
                      f.serial > e.serial
               PROVE  f.silent \/ f.serial \in stuck
    BY DEF UndoneInOrder
  <2>1. PICK p \in Procs : RollBack(p)
    <3>1. ~(disk \subseteq disk')
      OBVIOUS
    <3> QED
      BY <1>1, <3>1
      DEF Next, vars, Begin, Refuse, Step, Crash, Cancel, NextLost,
          NextCancelled, NextStage, StageOk, StageErr, StageMissing, Panic,
          RollBackFails, Unwound, Unlock, ToState, ToNoState, Reset,
          WritesNothing, Writes
  <2>2. /\ pc[p] = "unwind" /\ guards[p] # <<>>
        /\ e.serial = Newest(guards[p])
    BY <2>1 DEF RollBack
  <2>3. guards[p] \in Seq(Nat) /\ Stacked(p)
    BY <1>1, <2>2 DEF Inv, StackInv
  <2>4. Len(guards[p]) \in Nat \ {0} /\ e.serial = guards[p][Len(guards[p])]
    BY <2>2, <2>3, RestProperties DEF Newest
  <2>5. f.serial \in Nat /\ e.serial \in Nat
    BY <1>1 DEF Inv, DiskInv
  <2> QED
    BY <2>3, <2>4, <2>5 DEF Stacked
<1> QED
  BY <1>1, SpecInv, PTL DEF Spec, UndoInReverse

----------------------------------------------------------------------------
(***************************************************************************)
(* The engine implements AtomicRuns.                                       *)
(***************************************************************************)
\* What a step of p does to the disk and to the lock.
DiskSteps(p) ==
    \/ UNCHANGED <<disk, serial, lock, began>>
    \/ pc[p] = "idle" /\ p \in Writers /\ lock = None /\ lock' = p
         /\ began' = serial /\ UNCHANGED <<disk, serial>>
    \/ pc[p] = "stage" /\ Writes(p) /\ UNCHANGED <<lock, began>>
    \/ pc[p] = "stage" /\ Writes(p) /\ lock' = None /\ UNCHANGED began
    \/ RollBack(p)
    \/ lock = p /\ lock' = None /\ UNCHANGED <<disk, serial, began>>

\* Every step of a caller is one of these.
LEMMA NextDiskSteps ==
  ASSUME LockInv, NEW p \in Procs,
         Begin(p) \/ Refuse(p) \/ Step(p) \/ Crash(p) \/ Cancel(p)
  PROVE  DiskSteps(p)
<1> USE DEF DiskSteps
<1>1. CASE Begin(p) \/ Refuse(p) \/ Cancel(p)
  BY <1>1 DEF Begin, Refuse, Cancel
<1>2. CASE NextLost(p) \/ NextCancelled(p) \/ NextStage(p)
  BY <1>2 DEF NextLost, NextCancelled, NextStage
<1>3. CASE (\E result \in Results : StageOk(p, result))
             \/ StageErr(p) \/ StageMissing(p)
  BY <1>3 DEF StageOk, StageErr, StageMissing, WritesNothing
<1>4. CASE RollBack(p) \/ RollBackFails(p) \/ Unwound(p)
  BY <1>4 DEF RollBackFails, Unwound
<1>5. CASE Unlock(p) \/ ToState(p) \/ ToNoState(p) \/ Reset(p)
  BY <1>5 DEF Unlock, Drop, ToState, ToNoState, Reset, LockInv, Running
<1>6. CASE Panic(p)
  <2>1. p \in Writers => lock = p
    BY <1>6 DEF Panic, LockInv, Running
  <2> QED
    BY <1>6, <2>1 DEF Panic, Drop, WritesNothing, Writes
<1>7. CASE Crash(p)
  BY <1>7 DEF Crash
<1> QED
  BY <1>1, <1>2, <1>3, <1>4, <1>5, <1>6, <1>7 DEF Step

\* What stands on the disk since the lock was taken is its holder's.
LEMMA NextBegan ==
  ASSUME LockInv, DiskInv, BeganInv, NEW p \in Procs, DiskSteps(p)
  PROVE  BeganInv'
<1> USE DEF BeganInv
<1>1. /\ serial \in Nat /\ None \notin Writers
      /\ \A e \in disk : e.serial \in 1 .. serial
  BY CallerAssumption DEF DiskInv, Procs
<1>2. CASE UNCHANGED <<disk, serial, lock, began>>
  BY <1>2
<1>3. CASE began' = serial /\ UNCHANGED <<disk, serial>>
  BY <1>1, <1>3
<1>4. CASE pc[p] = "stage" /\ Writes(p) /\ lock' \in {lock, None} /\ UNCHANGED began
  <2>1. lock = p /\ serial' = serial + 1
    BY <1>4 DEF Writes, LockInv, Running
  <2>2. \A e \in disk' : e \in disk \/ e.proc = p
    BY <1>4 DEF Writes, Change
  <2> QED
    BY <1>1, <1>4, <2>1, <2>2
<1>5. CASE RollBack(p)
  BY <1>5 DEF RollBack
<1>6. CASE lock' = None /\ UNCHANGED <<disk, serial, began>>
  BY <1>6
<1> QED
  BY <1>2, <1>3, <1>4, <1>5, <1>6 DEF DiskSteps

\* A caller has no error to return until its run fails.
LEMMA NextError == LockInv /\ ErrorInv /\ [Next]_vars => ErrorInv'
<1> SUFFICES ASSUME LockInv, ErrorInv, [Next]_vars PROVE ErrorInv'
  OBVIOUS
<1> USE DEF ErrorInv, Errors
<1>0. pc \in [Procs -> Places]
  BY DEF LockInv
<1>1. ASSUME NEW p \in Procs, Begin(p) \/ Refuse(p) \/ Cancel(p) \/ Crash(p)
      PROVE  ErrorInv'
  BY <1>0, <1>1 DEF Begin, Refuse, Cancel, Crash, Leave, Return, Goto
<1>2. ASSUME NEW p \in Procs,
             NextLost(p) \/ NextCancelled(p) \/ NextStage(p)
               \/ StageErr(p) \/ StageMissing(p)
      PROVE  ErrorInv'
  BY <1>0, <1>2 DEF NextLost, NextCancelled, NextStage, StageErr, StageMissing,
                    Return, Goto
<1>3. ASSUME NEW p \in Procs, NEW result \in Results, StageOk(p, result)
      PROVE  ErrorInv'
  BY <1>0, <1>3 DEF StageOk, Goto
<1>4. ASSUME NEW p \in Procs,
             RollBack(p) \/ RollBackFails(p) \/ Unwound(p) \/ Unlock(p) \/ ToState(p)
      PROVE  ErrorInv'
  BY <1>0, <1>4 DEF RollBack, RollBackFails, Unwound, Unlock, ToState, Goto
<1>5. ASSUME NEW p \in Procs, ToNoState(p) \/ Reset(p) \/ Panic(p)
      PROVE  ErrorInv'
  BY <1>0, <1>5 DEF ToNoState, Reset, Panic, Leave, Goto
<1>6. CASE UNCHANGED vars
  BY <1>6 DEF vars
<1> QED
  BY <1>1, <1>2, <1>3, <1>4, <1>5, <1>6 DEF Next, Step

\* A caller whose guards, and the disk below them, are as they were.
LEMMA OwnGuardsStays ==
  ASSUME NEW p \in Procs, OwnGuards(p), guards'[p] = guards[p], began' = began,
         disk' \subseteq disk, stuck \subseteq stuck'
  PROVE  OwnGuards(p)'
  BY DEF OwnGuards, Lasting

\* A stage of the run that writes and returns its guard, if it has one.
LEMMA OwnGuardsPush ==
  ASSUME AtomicInv, NEW p \in Procs, pc[p] = "stage", Writes(p),
         stuck' = stuck, began' = began,
         \/ Stage(p) \in Silent /\ guards'[p] = guards[p]
         \/ Stage(p) \notin Silent /\ guards'[p] = Append(guards[p], serial + 1)
  PROVE  OwnGuards(p)'
<1>1. /\ serial \in Nat /\ began \in Nat /\ began <= serial
      /\ guards[p] \in Seq(Nat) /\ p \in Writers /\ DiskInv
  BY DEF AtomicInv, Inv, DiskInv, StackInv, BeganInv, Writes
<1>2. OwnGuards(p)
  BY <1>1 DEF AtomicInv, RunInv
<1>3. PICK new \in [proc : Writers, serial : 1 .. serial', silent : BOOLEAN] :
           /\ disk' = disk \cup {new}
           /\ new.serial = serial + 1
           /\ new.silent <=> Stage(p) \in Silent
  BY <1>1, WritesNew
<1>4. CASE Stage(p) \in Silent /\ guards'[p] = guards[p]
  BY <1>2, <1>3, <1>4 DEF OwnGuards, Lasting
<1>5. CASE Stage(p) \notin Silent /\ guards'[p] = Append(guards[p], serial + 1)
  <2> DEFINE n == Len(guards[p])
  <2>1. /\ n \in Nat /\ Len(guards'[p]) = n + 1
        /\ guards'[p][n + 1] = serial + 1
        /\ \A i \in 1 .. n : guards'[p][i] = guards[p][i]
    BY <1>1, <1>5
  <2>2. /\ \A i \in 1 .. n : guards[p][i] > began
        /\ \A e \in disk : \/ e.serial <= began \/ Lasting(e)
                           \/ \E i \in 1 .. n : guards[p][i] = e.serial
    BY <1>2 DEF OwnGuards
  <2> HIDE DEF n
  <2>3. \A i \in 1 .. n + 1 : i = n + 1 \/ i \in 1 .. n
    BY <2>1
  <2>4. ASSUME NEW i \in 1 .. n + 1
        PROVE  guards'[p][i] > began
    <3>1. CASE i = n + 1
      <4>1. serial + 1 > began
        BY <1>1
      <4> QED
        BY <2>1, <3>1, <4>1
    <3>2. CASE i \in 1 .. n
      BY <2>1, <2>2, <3>2
    <3> QED
      BY <2>3, <3>1, <3>2
  <2>5. ASSUME NEW e \in disk'
        PROVE  \/ e.serial <= began \/ Lasting(e)
               \/ \E i \in 1 .. n + 1 : guards'[p][i] = e.serial
    <3>1. 1 .. n \subseteq 1 .. n + 1 /\ n + 1 \in 1 .. n + 1
      BY <2>1
    <3>2. CASE e = new
      BY <1>3, <2>1, <3>1, <3>2
    <3>3. CASE e \in disk
      BY <2>1, <2>2, <3>1, <3>3
    <3> QED
      BY <1>3, <3>2, <3>3
  <2> QED
    BY <2>1, <2>4, <2>5 DEF OwnGuards, Lasting
<1> QED
  BY <1>4, <1>5

\* The newest guard is run, or fails.
LEMMA OwnGuardsPop ==
  ASSUME AtomicInv, NEW p \in Procs, pc[p] = "unwind",
         RollBack(p) \/ RollBackFails(p)
  PROVE  /\ p \in Writers /\ OwnGuards(p)'
         /\ Newest(guards[p]) \in Nat /\ Newest(guards[p]) > began
<1> DEFINE n == Len(guards[p])
<1>1. /\ guards \in [Procs -> Seq(Nat)] /\ guards[p] \in Seq(Nat)
      /\ guards[p] # <<>> /\ p \in Writers
  BY DEF RollBack, RollBackFails, AtomicInv, Inv, StackInv, Procs
<1>2. guards'[p] = Rest(guards[p]) /\ began' = began
  BY <1>1 DEF RollBack, RollBackFails
<1>3. /\ n \in Nat \ {0} /\ Len(guards'[p]) = n - 1
      /\ \A i \in 1 .. n - 1 : guards'[p][i] = guards[p][i]
      /\ guards[p][n] \in Nat
  BY <1>1, <1>2, RestProperties
<1>4. /\ disk' \subseteq disk /\ stuck \subseteq stuck'
      /\ guards[p][n] \in stuck' \/ \A f \in disk' : f.serial # guards[p][n]
  BY DEF RollBack, RollBackFails, Newest
<1>5. /\ \A i \in 1 .. n : guards[p][i] > began
      /\ \A e \in disk : \/ e.serial <= began \/ Lasting(e)
                         \/ \E i \in 1 .. n : guards[p][i] = e.serial
  BY <1>1 DEF OwnGuards, AtomicInv, RunInv
<1>6. Newest(guards[p]) = guards[p][n]
  BY DEF Newest
<1> HIDE DEF n
<1>7. /\ n \in 1 .. n /\ 1 .. n - 1 \subseteq 1 .. n
      /\ \A i \in 1 .. n : i = n \/ i \in 1 .. n - 1
  BY <1>3
<1>8. \A i \in 1 .. n - 1 : guards'[p][i] > began'
  BY <1>2, <1>3, <1>5, <1>7
<1>9. ASSUME NEW e \in disk'
      PROVE  \/ e.serial <= began' \/ Lasting(e)'
             \/ \E i \in 1 .. n - 1 : guards'[p][i] = e.serial
  <2>1. e \in disk
    BY <1>4
  <2>2. CASE e.serial <= began \/ Lasting(e)
    BY <1>2, <1>4, <2>2 DEF Lasting
  <2>3. CASE \E i \in 1 .. n : guards[p][i] = e.serial
    <3>1. PICK i \in 1 .. n : guards[p][i] = e.serial
      BY <2>3
    <3>2. CASE i = n
      BY <1>4, <3>1, <3>2 DEF Lasting
    <3>3. CASE i \in 1 .. n - 1
      BY <1>3, <3>1, <3>3
    <3> QED
      BY <1>7, <3>2, <3>3
  <2> QED
    BY <1>5, <2>1, <2>2, <2>3
<1> QED
  BY <1>1, <1>3, <1>5, <1>6, <1>7, <1>8, <1>9 DEF OwnGuards

\* What is to be shown of the writer that takes the step.
OwnRun(p) ==
    /\ pc[p] \in {"next", "stage", "unwind"} => OwnGuards(p)
    /\ pc[p] = "unlock" => error[p] = "ok" \/ UndoneInv

\* No other writer is in a run while one of them changes anything of it.
LEMMA OthersRun ==
  ASSUME AtomicInv, NEW p \in Procs, NEW q \in Writers \ {p}, DiskSteps(p),
         pc'[q] = pc[q], guards'[q] = guards[q], error'[q] = error[q],
         stuck \subseteq stuck'
  PROVE  OwnRun(q)'
<1>1. CASE ~Running(q)
  BY <1>1 DEF OwnRun, Running
<1>2. CASE Running(q)
  <2>1. lock = q /\ lock # None /\ q \in Procs
    BY <1>2, CallerAssumption DEF AtomicInv, Inv, LockInv, Procs
  <2>2. ~(p \in Writers /\ Running(p))
    BY <2>1 DEF AtomicInv, Inv, LockInv
  <2>3. ~Writes(p) \/ pc[p] # "stage"
    BY <2>2 DEF Writes, Running
  <2>4. disk' \subseteq disk /\ began' = began
    BY <2>1, <2>3 DEF DiskSteps, RollBack
  <2>5. OwnGuards(q) => OwnGuards(q)'
    BY <2>1, <2>4, OwnGuardsStays
  <2>6. UndoneInv => UndoneInv'
    BY <2>4 DEF UndoneInv, Lasting
  <2>7. OwnRun(q)
    BY DEF OwnRun, AtomicInv, RunInv
  <2> QED
    BY <2>5, <2>6, <2>7 DEF OwnRun
<1> QED
  BY <1>1, <1>2

\* The step itself, for a writer: its own guards are above everything that
\* stood before its run.
LEMMA OwnRunStep ==
  ASSUME AtomicInv, NEW p \in Writers,
         Begin(p) \/ Refuse(p) \/ Step(p) \/ Crash(p) \/ Cancel(p)
  PROVE  OwnRun(p)'
<1>0. /\ p \in Procs /\ pc \in [Procs -> Places] /\ error \in [Procs -> Errors]
      /\ guards \in [Procs -> Seq(Nat)]
  BY DEF Procs, AtomicInv, Inv, LockInv, ErrorInv, StackInv
<1>1. OwnRun(p)
  BY DEF OwnRun, AtomicInv, RunInv
<1>2. CASE Begin(p)
  <2>1. /\ disk' = disk /\ began' = serial /\ guards' = guards
        /\ pc'[p] = "next" /\ guards[p] = <<>>
    BY <1>0, <1>2 DEF Begin, Goto, AtomicInv, Inv, StackInv
  <2>2. \A e \in disk : e.serial <= serial
    BY DEF AtomicInv, Inv, DiskInv
  <2> QED
    BY <2>1, <2>2 DEF OwnRun, OwnGuards
<1>3. CASE Refuse(p) \/ ToState(p)
  BY <1>0, <1>3 DEF OwnRun, Refuse, ToState, Return, Goto
<1>4. CASE ToNoState(p) \/ Reset(p) \/ Panic(p) \/ Crash(p)
  BY <1>0, <1>4 DEF OwnRun, ToNoState, Reset, Panic, Crash, Leave, Goto
<1>5. CASE Unlock(p)
  BY <1>0, <1>5 DEF OwnRun, Unlock, Goto
<1>6. CASE Cancel(p)
  <2>1. UNCHANGED <<pc, guards, error, disk, stuck, began>>
    BY <1>6 DEF Cancel, engine
  <2> QED
    BY <1>1, <2>1 DEF OwnRun, OwnGuards, UndoneInv, Lasting
<1>7. CASE NextLost(p) \/ NextCancelled(p) \/ NextStage(p) \/ StageMissing(p)
  <2>1. /\ UNCHANGED <<guards, disk, stuck, began>> /\ pc[p] \in {"next", "stage"}
        /\ \/ pc'[p] \in {"unwind", "stage"}
           \/ pc'[p] = "unlock" /\ error' = error
    BY <1>0, <1>7 DEF NextLost, NextCancelled, NextStage, StageMissing, Return,
                      Goto, engine
  <2>2. OwnGuards(p)'
    BY <1>0, <1>1, <2>1, OwnGuardsStays DEF OwnRun
  <2>3. pc'[p] = "unlock" => error'[p] = "ok"
    BY <1>0, <2>1 DEF AtomicInv, ErrorInv
  <2> QED
    BY <2>2, <2>3 DEF OwnRun
<1>8. ASSUME NEW result \in Results, StageOk(p, result) PROVE OwnRun(p)'
  <2>1. /\ pc[p] = "stage" /\ pc'[p] = "next" /\ UNCHANGED <<stuck, began>>
    BY <1>0, <1>8 DEF StageOk, Goto
  <2>2. CASE WritesNothing /\ UNCHANGED guards
    BY <1>0, <1>1, <2>1, <2>2, OwnGuardsStays DEF OwnRun, WritesNothing
  <2>3. CASE Writes(p) /\ guards' = [guards EXCEPT ![p] =
                           IF Stage(p) \in Silent THEN @
                                                  ELSE Append(@, serial + 1)]
    <3>1. \/ Stage(p) \in Silent /\ guards'[p] = guards[p]
          \/ Stage(p) \notin Silent /\ guards'[p] = Append(guards[p], serial + 1)
      BY <1>0, <2>3
    <3>2. OwnGuards(p)'
      BY <1>0, <2>1, <2>3, <3>1, OwnGuardsPush
    <3> QED
      BY <2>1, <3>2 DEF OwnRun
  <2> QED
    BY <1>8, <2>2, <2>3 DEF StageOk
<1>9. CASE StageErr(p)
  <2>1. /\ pc[p] = "stage" /\ pc'[p] = "unwind"
        /\ UNCHANGED <<stuck, began, guards>>
    BY <1>0, <1>9 DEF StageErr, Return, Goto, engine
  <2>2. CASE WritesNothing
    BY <1>0, <1>1, <2>1, <2>2, OwnGuardsStays DEF OwnRun, WritesNothing
  <2>3. CASE Stage(p) \in Silent /\ Writes(p)
    <3>1. OwnGuards(p)'
      BY <1>0, <2>1, <2>3, OwnGuardsPush
    <3> QED
      BY <2>1, <3>1 DEF OwnRun
  <2> QED
    BY <1>9, <2>2, <2>3 DEF StageErr
<1>10. CASE RollBack(p) \/ RollBackFails(p)
  <2>1. pc[p] = "unwind" /\ pc'[p] = "unwind"
    BY <1>10 DEF RollBack, RollBackFails
  <2>2. OwnGuards(p)'
    BY <1>0, <1>10, <2>1, OwnGuardsPop
  <2> QED
    BY <2>1, <2>2 DEF OwnRun
<1>11. CASE Unwound(p)
  <2>1. /\ pc[p] = "unwind" /\ pc'[p] = "unlock" /\ guards[p] = <<>>
        /\ UNCHANGED <<disk, stuck, began>>
    BY <1>0, <1>11 DEF Unwound, Goto
  <2>2. UndoneInv
    BY <1>1, <2>1 DEF OwnRun, OwnGuards, UndoneInv
  <2> QED
    BY <2>1, <2>2 DEF OwnRun, UndoneInv, Lasting
<1> QED
  BY <1>2, <1>3, <1>4, <1>5, <1>6, <1>7, <1>8, <1>9, <1>10, <1>11 DEF Step

\* A step concerns the call of one caller.
LEMMA StepFrame ==
  ASSUME NEW p \in Procs, NEW q \in Procs \ {p}, LockInv, ErrorInv, StackInv,
         Begin(p) \/ Refuse(p) \/ Step(p) \/ Crash(p) \/ Cancel(p)
  PROVE  /\ pc'[q] = pc[q] /\ guards'[q] = guards[q] /\ error'[q] = error[q]
         /\ stuck \subseteq stuck'
<1> USE DEF LockInv, ErrorInv, StackInv
<1>1. CASE Begin(p) \/ Refuse(p) \/ Cancel(p) \/ Crash(p)
  BY <1>1 DEF Begin, Refuse, Cancel, Crash, Leave, Return, Goto, engine
<1>2. CASE NextLost(p) \/ NextCancelled(p) \/ NextStage(p)
  BY <1>2 DEF NextLost, NextCancelled, NextStage, Return, Goto, engine
<1>3. CASE (\E result \in Results : StageOk(p, result))
             \/ StageErr(p) \/ StageMissing(p)
  BY <1>3 DEF StageOk, StageErr, StageMissing, Return, Goto, engine
<1>4. CASE RollBack(p) \/ RollBackFails(p) \/ Unwound(p) \/ Unlock(p) \/ ToState(p)
  BY <1>4 DEF RollBack, RollBackFails, Unwound, Unlock, ToState, Goto, engine
<1>5. CASE ToNoState(p) \/ Reset(p) \/ Panic(p)
  BY <1>5 DEF ToNoState, Reset, Panic, Leave, Goto
<1> QED
  BY <1>1, <1>2, <1>3, <1>4, <1>5 DEF Step

\* The strengthened invariant holds before the first call.
LEMMA InitAtomicInv == Init => AtomicInv
<1>1. Init => BeganInv /\ ErrorInv /\ RunInv
  BY DEF Init, BeganInv, ErrorInv, Errors, RunInv, Procs
<1> QED
  BY <1>1, InitInv DEF AtomicInv

\* Every step keeps the strengthened invariant.
LEMMA NextAtomicInv == AtomicInv /\ [Next]_vars => AtomicInv'
<1> SUFFICES ASSUME AtomicInv, [Next]_vars PROVE AtomicInv'
  OBVIOUS
<1>1. Inv' /\ ErrorInv'
  BY NextLock, NextDisk, NextStack, NextError DEF AtomicInv, Inv
<1>2. CASE UNCHANGED vars
  BY <1>1, <1>2 DEF vars, AtomicInv, BeganInv, RunInv, OwnGuards, UndoneInv, Lasting
<1>3. CASE Next
  <2>1. PICK p \in Procs :
           Begin(p) \/ Refuse(p) \/ Step(p) \/ Crash(p) \/ Cancel(p)
    BY <1>3 DEF Next
  <2>2. DiskSteps(p)
    BY <2>1, NextDiskSteps DEF AtomicInv, Inv
  <2>3. BeganInv'
    BY <2>2, NextBegan DEF AtomicInv, Inv
  <2>4. ASSUME NEW q \in Writers PROVE OwnRun(q)'
    <3>1. CASE q = p
      BY <2>1, <3>1, OwnRunStep
    <3>2. CASE q # p
      BY <2>1, <2>2, <3>2, StepFrame, OthersRun DEF Procs, AtomicInv, Inv
    <3> QED
      BY <3>1, <3>2
  <2> QED
    BY <1>1, <2>3, <2>4 DEF AtomicInv, RunInv, OwnRun
<1> QED
  BY <1>2, <1>3

\* The end of a run, in whatever way: what is on the disk counts from now on.
LEMMA EndRefines ==
  ASSUME AtomicInv, NEW p \in Writers, NEW how, lock = p, lock' = None,
         UNCHANGED <<began, stuck>>, last' = how,
         disk' = disk \/ Writes(p)
  PROVE  Atomic!End(how)
<1>1. /\ serial \in Nat /\ began \in Nat /\ began <= serial /\ lock # None
      /\ \A e \in disk : /\ e \in Atomic!Effect /\ e.serial \in Nat
                         /\ e.serial > began => e.proc = p
      /\ DiskInv /\ p \in Procs
  BY CallerAssumption
  DEF AtomicInv, Inv, DiskInv, BeganInv, Procs, Atomic!Effect
<1>2. Standing' = disk' /\ Standing = {e \in disk : e.serial <= began}
  BY <1>1 DEF Standing
<1>3. ASSUME NEW e \in disk' \ Standing
      PROVE  e \in Atomic!Effect /\ e.proc = p /\ e.serial \in Nat /\ e.serial > began
  <2>1. CASE e \in disk
    BY <1>1, <1>2, <2>1
  <2>2. CASE e \notin disk /\ Writes(p)
    <3>1. e = Change(p, serial + 1, Stage(p) \in Silent)
      BY <2>2 DEF Writes
    <3>2. /\ e.proc = p /\ e.serial = serial + 1
          /\ e.silent = (Stage(p) \in Silent) /\ DOMAIN e = {"proc", "serial", "silent"}
      BY <3>1 DEF Change
    <3>3. PICK new \in [proc : Writers, serial : 1 .. serial', silent : BOOLEAN] :
                disk' = disk \cup {new}
      BY <1>1, <2>2, WritesNew
    <3>4. serial' \in Nat
      BY <1>1, <2>2, WritesNew
    <3>5. e = new
      BY <2>2, <3>3
    <3>6. e \in Atomic!Effect
      BY <3>3, <3>4, <3>5 DEF Atomic!Effect
    <3> QED
      BY <1>1, <3>2, <3>6
  <2> QED
    BY <2>1, <2>2
<1>4. disk \subseteq disk'
  BY DEF Writes
<1>5. ASSUME NEW e \in disk' \ Standing, NEW f \in Standing
      PROVE  f.serial < e.serial
  BY <1>1, <1>2, <1>3
<1> QED
  BY <1>1, <1>2, <1>3, <1>4, <1>5 DEF Atomic!End, Atomic!New

\* While the lock is held, what its holder does to the disk does not count.
LEMMA RunDoesNotCount ==
  ASSUME AtomicInv, NEW p \in Procs, UNCHANGED <<lock, began>>,
         (pc[p] = "stage" /\ Writes(p)) \/ (pc[p] = "unwind" /\ RollBack(p))
  PROVE  UNCHANGED Standing
<1>1. /\ serial \in Nat /\ began \in Nat /\ began <= serial
      /\ \A e \in disk : e.serial \in Nat
  BY DEF AtomicInv, Inv, DiskInv, BeganInv
<1>2. CASE pc[p] = "stage" /\ Writes(p)
  <2>1. lock = p /\ lock # None
    BY <1>2, CallerAssumption DEF Writes, AtomicInv, Inv, LockInv, Running, Procs
  <2>2. PICK new : disk' = disk \cup {new} /\ new.serial = serial + 1
    BY <1>2, WritesNew DEF AtomicInv, Inv
  <2>3. ~(new.serial <= began)
    BY <1>1, <2>2
  <2> QED
    BY <2>1, <2>2, <2>3 DEF Standing
<1>3. CASE pc[p] = "unwind" /\ RollBack(p)
  <2>1. p \in Writers /\ Newest(guards[p]) \in Nat /\ Newest(guards[p]) > began
    BY <1>3, OwnGuardsPop
  <2>2. lock = p /\ lock # None
    BY <1>3, <2>1, CallerAssumption DEF AtomicInv, Inv, LockInv, Running, Procs
  <2>3. disk' = {e \in disk : e.serial # Newest(guards[p])}
    BY <1>3 DEF RollBack
  <2>4. ~(Newest(guards[p]) <= began)
    BY <1>1, <2>1
  <2> QED
    BY <2>2, <2>3, <2>4 DEF Standing
<1> QED
  BY <1>2, <1>3

\* Every step of a caller is a step of AtomicRuns or none.
LEMMA StepRefines ==
  ASSUME AtomicInv, NEW p \in Procs,
         Begin(p) \/ Refuse(p) \/ Step(p) \/ Crash(p) \/ Cancel(p)
  PROVE  Atomic!Next \/ UNCHANGED <<Standing, lock, stuck, last>>
<1>1. CASE UNCHANGED <<disk, lock, began, stuck, last>>
  BY <1>1 DEF Standing
<1>2. CASE Begin(p)
  <2>1. CASE p \in Writers
    <3>1. /\ lock = None /\ lock' = p /\ began' = serial
          /\ UNCHANGED <<disk, stuck, last>>
      BY <1>2, <2>1 DEF Begin
    <3>2. \A e \in disk : e.serial <= serial
      BY DEF AtomicInv, Inv, DiskInv
    <3>3. UNCHANGED Standing
      BY <3>1, <3>2 DEF Standing
    <3> QED
      BY <2>1, <3>1, <3>3 DEF Atomic!Next, Atomic!Take
  <2>2. CASE p \notin Writers
    BY <1>1, <1>2, <2>2 DEF Begin
  <2> QED
    BY <2>1, <2>2
<1>3. CASE Refuse(p) \/ Cancel(p)
  BY <1>1, <1>3 DEF Refuse, Cancel
<1>4. CASE NextLost(p) \/ NextCancelled(p) \/ NextStage(p) \/ StageMissing(p)
  BY <1>1, <1>4 DEF NextLost, NextCancelled, NextStage, StageMissing
<1>5. CASE (\E result \in Results : StageOk(p, result)) \/ StageErr(p)
  <2>1. pc[p] = "stage" /\ UNCHANGED <<lock, began, stuck, last>>
    BY <1>5 DEF StageOk, StageErr
  <2>2. WritesNothing \/ Writes(p)
    BY <1>5 DEF StageOk, StageErr
  <2> QED
    BY <1>1, <2>1, <2>2, RunDoesNotCount DEF WritesNothing
<1>6. CASE RollBack(p)
  <2>1. pc[p] = "unwind" /\ UNCHANGED <<lock, began, stuck, last>>
    BY <1>6 DEF RollBack
  <2> QED
    BY <1>6, <2>1, RunDoesNotCount
<1>7. CASE RollBackFails(p)
  <2>1. /\ pc[p] = "unwind" /\ UNCHANGED <<disk, lock, began, last>>
        /\ stuck \subseteq stuck'
    BY <1>7 DEF RollBackFails
  <2>2. p \in Writers
    BY <1>7, <2>1, OwnGuardsPop
  <2>3. lock # None
    BY <2>1, <2>2, CallerAssumption DEF AtomicInv, Inv, LockInv, Running, Procs
  <2>4. UNCHANGED Standing
    BY <2>1 DEF Standing
  <2> QED
    BY <2>1, <2>3, <2>4 DEF Atomic!Next, Atomic!Fail
<1>8. CASE Unwound(p) \/ ToState(p) \/ ToNoState(p) \/ Reset(p)
  BY <1>1, <1>8 DEF Unwound, ToState, ToNoState, Reset
<1>9. CASE Unlock(p) /\ p \in Writers
  <2>1. /\ lock = p /\ lock' = None /\ UNCHANGED <<disk, began, stuck>>
        /\ last' = IF error[p] = "ok" THEN "ok" ELSE "failed"
        /\ error[p] = "ok" \/ UndoneInv
    BY <1>9 DEF Unlock, Drop, AtomicInv, Inv, LockInv, Running, RunInv
  <2>2. CASE error[p] = "ok"
    <3>1. Atomic!End("ok")
      BY <1>9, <2>1, <2>2, EndRefines
    <3> QED
      BY <3>1 DEF Atomic!Next, Atomic!Keep
  <2>3. CASE error[p] # "ok"
    <3>1. Atomic!End("failed")
      BY <1>9, <2>1, <2>3, EndRefines
    <3>2. lock # None
      BY <1>9, <2>1, CallerAssumption DEF Procs
    <3>3. \A e \in Standing' \ Standing : e.silent \/ e.serial \in stuck
      BY <2>1, <2>3, <3>2 DEF UndoneInv, Lasting, Standing
    <3> QED
      BY <3>1, <3>3 DEF Atomic!Next, Atomic!GiveUp, Atomic!New
  <2> QED
    BY <2>2, <2>3
<1>10. CASE Panic(p) /\ p \in Writers
  <2>1. /\ lock = p /\ lock' = None /\ UNCHANGED <<began, stuck>>
        /\ last' = "killed" /\ (disk' = disk \/ Writes(p))
    BY <1>10 DEF Panic, Drop, WritesNothing, AtomicInv, Inv, LockInv, Running
  <2>2. Atomic!End("killed")
    BY <1>10, <2>1, EndRefines
  <2> QED
    BY <2>2 DEF Atomic!Next, Atomic!Die
<1>11. CASE (Unlock(p) \/ Panic(p)) /\ p \notin Writers
  BY <1>1, <1>11 DEF Unlock, Panic, Drop, WritesNothing, Writes
<1>12. CASE Crash(p)
  <2>1. CASE lock = p
    <3>1. p \in Writers
      BY <2>1, CallerAssumption DEF AtomicInv, Inv, LockInv, Procs
    <3>2. Atomic!End("killed")
      BY <1>12, <2>1, <3>1, EndRefines DEF Crash
    <3> QED
      BY <3>2 DEF Atomic!Next, Atomic!Die
  <2>2. CASE lock # p
    BY <1>1, <1>12, <2>2 DEF Crash
  <2> QED
    BY <2>1, <2>2
<1> QED
  BY <1>2, <1>3, <1>4, <1>5, <1>6, <1>7, <1>8, <1>9, <1>10, <1>11, <1>12 DEF Step

\* Whatever fails, panics or dies, and in whatever order the stages repeat,
\* the next writer finds the disk as whole runs have left it: the engine
\* implements AtomicRuns.
THEOREM EngineIsAtomic == Spec => RunsAreAtomic
<1>1. Init => AtomicInv /\ Atomic!Init
  <2>1. Init => Atomic!Init
    BY DEF Init, Standing, Atomic!Init
  <2> QED
    BY <2>1, InitAtomicInv
<1>2. AtomicInv /\ [Next]_vars => [Atomic!Next]_<<Standing, lock, stuck, last>>
  <2>1. ASSUME AtomicInv, Next
        PROVE  Atomic!Next \/ UNCHANGED <<Standing, lock, stuck, last>>
    BY <2>1, StepRefines DEF Next
  <2>2. UNCHANGED vars => UNCHANGED <<Standing, lock, stuck, last>>
    BY DEF vars, Standing
  <2> QED
    BY <2>1, <2>2
<1> QED
  BY <1>1, <1>2, NextAtomicInv, PTL DEF Spec, RunsAreAtomic, Atomic!Spec

----------------------------------------------------------------------------
(***************************************************************************)
(* The types of the engine's state.                                        *)
(***************************************************************************)
\* Among finitely many positions there is a latest one.
LEMMA Latest ==
  ASSUME NEW n \in Nat, NEW S \in SUBSET (0 .. n - 1), S # {}
  PROVE  \E k \in S : \A j \in S : j <= k
<1> DEFINE From(k) == k .. n - 1
           Tails   == {From(k) : k \in S}
           R       == StrictSubsetOrdering(0 .. n - 1)
<1>1. IsWellFoundedOn(R, SUBSET (0 .. n - 1))
  <2>1. IsFiniteSet(0 .. n - 1)
    BY FS_Interval
  <2> QED
    BY <2>1, FS_StrictSubsetOrderingWellFounded, FS_FiniteSubsetsOfFinite
<1>2. Tails \subseteq SUBSET (0 .. n - 1) /\ Tails # {}
  <2>1. \A k \in S : From(k) \subseteq 0 .. n - 1
    OBVIOUS
  <2> HIDE DEF From
  <2> QED
    BY <2>1, Zenon
<1>3. PICK tail \in Tails : \A t \in Tails : ~ (<<t, tail>> \in R)
  <2> HIDE DEF R, Tails
  <2> QED
    BY <1>1, <1>2, WFMin
<1>4. PICK k \in S : tail = From(k)
  OBVIOUS
<1>5. ASSUME NEW j \in S, j > k PROVE FALSE
  <2>1. From(j) \subseteq From(k) /\ k \in From(k) /\ k \notin From(j)
    BY <1>5
  <2>2. From(j) \in Tails
    OBVIOUS
  <2>3. <<From(j), From(k)>> \in R
    BY <1>2, <1>4, <2>1, <2>2 DEF StrictSubsetOrdering
  <2> QED
    BY <1>3, <1>4, <2>2, <2>3
<1> QED
  BY <1>5

\* Where a run may be: between two stages it has the result of a stage that is
\* in the pipeline, in a stage it has a position in the pipeline.
CursorInv ==
    \A p \in Procs :
       /\ pc[p] = "idle" => previous[p] = None
       /\ pc[p] = "next" /\ previous[p] # None => index[p] < Len(Pipeline)
       /\ pc[p] = "stage" => index[p] < Len(Pipeline)

\* The types of the cursor.
CursorTypes ==
    /\ index \in [Procs -> 0 .. Len(Pipeline)]
    /\ previous \in [Procs -> Results \cup {None}]

\* Wherever a StageResult sends the cursor, a position found by find included.
LEMMA AdvancedInPipeline ==
  ASSUME CursorTypes, CursorInv, NEW p \in Procs, pc[p] = "next", ~Lost(p)
  PROVE  Advanced(p) \in 0 .. Len(Pipeline)
<1>1. /\ Len(Pipeline) \in Nat /\ index[p] \in 0 .. Len(Pipeline)
      /\ previous[p] \in Results \cup {None}
  BY PipelineAssumption DEF CursorTypes
<1>2. CASE previous[p] \in {None, "Repeat"}
  BY <1>1, <1>2, ResultAssumption DEF Advanced
<1>3. CASE previous[p] = "Advance"
  <2>1. previous[p] # None /\ previous[p] # "Repeat"
    BY <1>3, ResultAssumption
  <2>2. index[p] < Len(Pipeline)
    BY <2>1 DEF CursorInv
  <2>3. Advanced(p) = index[p] + 1
    BY <1>3, <2>1 DEF Advanced
  <2> QED
    BY <1>1, <2>2, <2>3
<1>4. CASE previous[p] \notin {None, "Repeat", "Advance"}
  <2>1. previous[p] \in Stages
    BY <1>1, <1>4, ResultAssumption
  <2>2. Found(p) # {} /\ Found(p) \in SUBSET (0 .. index[p] - 1)
    BY <2>1 DEF Lost, Found
  <2>3. \E k \in Found(p) : \A j \in Found(p) : j <= k
    <3>1. index[p] \in Nat
      BY <1>1
    <3> HIDE DEF Found
    <3> QED
      BY <2>2, <3>1, Latest
  <2>4. Advanced(p) = CHOOSE k \in Found(p) : \A j \in Found(p) : j <= k
    BY <1>4 DEF Advanced
  <2>5. Advanced(p) \in Found(p)
    BY <2>3, <2>4
  <2> QED
    BY <1>1, <2>2, <2>5
<1> QED
  BY <1>2, <1>3, <1>4

\* Every step keeps the cursor in the pipeline.
LEMMA NextCursor ==
  ASSUME LockInv, CursorTypes, CursorInv, [Next]_vars
  PROVE  CursorTypes' /\ CursorInv'
<1> USE DEF CursorTypes, CursorInv
<1>0. pc \in [Procs -> Places] /\ Len(Pipeline) \in Nat /\ 0 \in 0 .. Len(Pipeline)
  BY PipelineAssumption DEF LockInv
<1>1. ASSUME NEW p \in Procs, Begin(p) \/ Refuse(p) \/ Cancel(p)
      PROVE  CursorTypes' /\ CursorInv'
  BY <1>0, <1>1 DEF Begin, Refuse, Cancel, Return, Goto, engine
<1>2. ASSUME NEW p \in Procs, NextCancelled(p) \/ NextStage(p)
      PROVE  CursorTypes' /\ CursorInv'
  <2>1. Advanced(p) \in 0 .. Len(Pipeline)
    BY <1>2, AdvancedInPipeline DEF NextCancelled, NextStage
  <2>2. /\ index' = [index EXCEPT ![p] = Advanced(p)] /\ previous' = previous
        /\ \/ pc' = [pc EXCEPT ![p] = "unwind"]
           \/ pc' = [pc EXCEPT ![p] = IF Advanced(p) < Len(Pipeline)
                                      THEN "stage" ELSE "unlock"]
    BY <1>2 DEF NextCancelled, NextStage, Return, Goto
  <2> QED
    BY <1>0, <2>1, <2>2
<1>3. ASSUME NEW p \in Procs, NEW result \in Results, StageOk(p, result)
      PROVE  CursorTypes' /\ CursorInv'
  BY <1>0, <1>3 DEF StageOk, Goto
<1>4. ASSUME NEW p \in Procs, NextLost(p) \/ StageErr(p) \/ StageMissing(p)
      PROVE  CursorTypes' /\ CursorInv'
  BY <1>0, <1>4 DEF NextLost, StageErr, StageMissing, Return, Goto, engine
<1>5. ASSUME NEW p \in Procs,
             RollBack(p) \/ RollBackFails(p) \/ Unwound(p) \/ Unlock(p) \/ ToState(p)
      PROVE  CursorTypes' /\ CursorInv'
  <2>1. /\ index' = index /\ previous' = previous
        /\ pc' = pc \/ \E place \in {"unlock", "state", "reset"} : pc' = [pc EXCEPT ![p] = place]
    BY <1>5 DEF RollBack, RollBackFails, Unwound, Unlock, ToState, Goto, engine
  <2> QED
    BY <1>0, <2>1
<1>6. ASSUME NEW p \in Procs, ToNoState(p) \/ Reset(p) \/ Panic(p) \/ Crash(p)
      PROVE  CursorTypes' /\ CursorInv'
  <2>1. /\ pc' = [pc EXCEPT ![p] = "idle"]
        /\ index' = [index EXCEPT ![p] = 0]
        /\ previous' = [previous EXCEPT ![p] = None]
    BY <1>6 DEF ToNoState, Reset, Panic, Crash, Leave, Goto
  <2> QED
    BY <1>0, <2>1
<1>7. CASE UNCHANGED vars
  BY <1>7 DEF vars
<1> QED
  BY <1>1, <1>2, <1>3, <1>4, <1>5, <1>6, <1>7 DEF Next, Step

\* What the guards and the disk hold are changes of the model.
EffectTypes ==
    /\ serial <= MaxEffects
    /\ guards \in [Procs -> Seq(1 .. MaxEffects)]
    /\ stuck \subseteq 1 .. MaxEffects

\* The newest guard, and the stack without it.
LEMMA PoppedTypes ==
  ASSUME NEW n \in Nat, NEW s \in Seq(1 .. n), s # <<>>
  PROVE  Newest(s) \in 1 .. n /\ Rest(s) \in Seq(1 .. n)
<1> DEFINE m == Len(s)
<1>1. m \in Nat \ {0} /\ \A i \in 1 .. m : s[i] \in 1 .. n
  OBVIOUS
<1>2. Newest(s) = s[m] /\ Rest(s) = SubSeq(s, 1, m - 1)
  BY DEF Newest, Rest
<1> HIDE DEF m
<1>3. \A i \in 1 .. m - 1 : s[i] \in 1 .. n
  BY <1>1
<1>4. SubSeq(s, 1, m - 1) \in Seq(1 .. n)
  BY <1>1, <1>3, SubSeqProperties
<1> QED
  BY <1>1, <1>2, <1>4

\* Only a stage of a writer makes a change, and within the bound.
LEMMA NextEffects ==
  ASSUME Inv, EffectTypes, [Next]_vars
  PROVE  EffectTypes'
<1> USE DEF EffectTypes
<1>0. MaxEffects \in Nat /\ serial \in Nat /\ <<>> \in Seq(1 .. MaxEffects)
  BY BoundAssumption DEF Inv, DiskInv
<1>1. CASE UNCHANGED <<serial, guards, stuck>>
  BY <1>1
<1>2. ASSUME NEW p \in Procs, Writes(p)
      PROVE  serial' = serial + 1 /\ serial' \in 1 .. MaxEffects
  BY <1>0, <1>2 DEF Writes
<1>3. ASSUME NEW p \in Procs, NEW result \in Results, StageOk(p, result)
      PROVE  EffectTypes'
  <2>1. CASE WritesNothing /\ UNCHANGED guards
    BY <1>3, <2>1 DEF StageOk, WritesNothing
  <2>2. CASE /\ Writes(p)
             /\ guards' = [guards EXCEPT ![p] =
                              IF Stage(p) \in Silent THEN @
                                                     ELSE Append(@, serial + 1)]
    <3>1. /\ serial + 1 \in 1 .. MaxEffects /\ serial' <= MaxEffects
          /\ stuck' = stuck
      BY <1>0, <1>2, <1>3, <2>2 DEF StageOk
    <3>2. Append(guards[p], serial + 1) \in Seq(1 .. MaxEffects)
      BY <3>1
    <3> QED
      BY <2>2, <3>1, <3>2
  <2> QED
    BY <1>3, <2>1, <2>2 DEF StageOk
<1>4. ASSUME NEW p \in Procs, RollBack(p) \/ RollBackFails(p)
      PROVE  EffectTypes'
  <2>1. /\ Newest(guards[p]) \in 1 .. MaxEffects
        /\ Rest(guards[p]) \in Seq(1 .. MaxEffects)
    BY <1>0, <1>4, PoppedTypes DEF RollBack, RollBackFails
  <2> QED
    BY <1>4, <2>1 DEF RollBack, RollBackFails
<1>5. ASSUME NEW p \in Procs, StageErr(p) PROVE EffectTypes'
  BY <1>0, <1>2, <1>5 DEF StageErr, WritesNothing, engine
<1>6. ASSUME NEW p \in Procs, Panic(p) PROVE EffectTypes'
  <2>1. serial' <= MaxEffects /\ stuck' = stuck
    BY <1>0, <1>2, <1>6 DEF Panic, WritesNothing
  <2> QED
    BY <1>0, <1>6, <2>1 DEF Panic, Leave
<1>7. ASSUME NEW p \in Procs, ToNoState(p) \/ Reset(p) \/ Crash(p)
      PROVE  EffectTypes'
  BY <1>0, <1>7 DEF ToNoState, Reset, Crash, Leave
<1>8. ASSUME NEW p \in Procs,
             \/ Begin(p) \/ Refuse(p) \/ Cancel(p) \/ NextLost(p)
             \/ NextCancelled(p) \/ NextStage(p) \/ StageMissing(p)
             \/ Unwound(p) \/ Unlock(p) \/ ToState(p)
      PROVE  UNCHANGED <<serial, guards, stuck>>
  BY <1>8 DEF Begin, Refuse, Cancel, NextLost, NextCancelled, NextStage,
              StageMissing, Unwound, Unlock, ToState, engine
<1> QED
  BY <1>1, <1>3, <1>4, <1>5, <1>6, <1>7, <1>8 DEF Next, Step, vars

\* What a call keeps beside its run.
CallTypes ==
    /\ DOMAIN slots = Procs
    /\ token \in [Procs -> BOOLEAN]
    /\ last \in {"ok", "failed", "killed"}

\* Every step keeps it.
LEMMA NextCalls == CallTypes /\ [Next]_vars => CallTypes'
<1> SUFFICES ASSUME CallTypes, [Next]_vars PROVE CallTypes'
  OBVIOUS
<1> USE DEF CallTypes
<1>1. ASSUME NEW p \in Procs, Begin(p) \/ Refuse(p) \/ Cancel(p) \/ Crash(p)
      PROVE  CallTypes'
  BY <1>1 DEF Begin, Refuse, Cancel, Crash, Leave, engine
<1>2. ASSUME NEW p \in Procs,
             \/ NextLost(p) \/ NextCancelled(p) \/ NextStage(p)
             \/ \E result \in Results : StageOk(p, result)
             \/ StageErr(p) \/ StageMissing(p)
      PROVE  CallTypes'
  BY <1>2 DEF NextLost, NextCancelled, NextStage, StageOk, StageErr,
              StageMissing, engine
<1>3. ASSUME NEW p \in Procs,
             RollBack(p) \/ RollBackFails(p) \/ Unwound(p) \/ Unlock(p) \/ ToState(p)
      PROVE  CallTypes'
  BY <1>3 DEF RollBack, RollBackFails, Unwound, Unlock, Drop, ToState, engine
<1>4. ASSUME NEW p \in Procs, ToNoState(p) \/ Reset(p) \/ Panic(p)
      PROVE  CallTypes'
  BY <1>4 DEF ToNoState, Reset, Panic, Drop, Leave
<1>5. CASE UNCHANGED vars
  BY <1>5 DEF vars
<1> QED
  BY <1>1, <1>2, <1>3, <1>4, <1>5 DEF Next, Step

\* The engine keeps its types: above all the cursor, which RepeatBack moves to
\* the latest position of a stage, never leaves the pipeline by more than its
\* end, so that no caller looks for a stage where there is none.
THEOREM EngineTypes == Spec => []TypeOK
<1> DEFINE TInv == AtomicInv /\ CursorTypes /\ CursorInv /\ EffectTypes /\ CallTypes
<1>1. Init => TInv
  <2> SUFFICES ASSUME Init PROVE TInv
    OBVIOUS
  <2>1. Len(Pipeline) \in Nat /\ MaxEffects \in Nat /\ <<>> \in Seq(1 .. MaxEffects)
    BY PipelineAssumption, BoundAssumption
  <2>2. CursorTypes /\ CursorInv /\ EffectTypes /\ CallTypes
    BY <2>1 DEF Init, CursorTypes, CursorInv, EffectTypes, CallTypes
  <2> QED
    BY <2>2, InitAtomicInv
<1>2. TInv /\ [Next]_vars => TInv'
  BY NextAtomicInv, NextCursor, NextEffects, NextCalls DEF AtomicInv, Inv
<1>3. TInv => TypeOK
  <2> SUFFICES ASSUME TInv PROVE TypeOK
    OBVIOUS
  <2>1. /\ MaxEffects \in Nat /\ serial \in 0 .. MaxEffects
        /\ began \in 0 .. MaxEffects
    BY BoundAssumption
    DEF AtomicInv, Inv, DiskInv, BeganInv, EffectTypes
  <2>2. disk \subseteq [proc : Writers, serial : 1 .. MaxEffects, silent : BOOLEAN]
    <3>1. 1 .. serial \subseteq 1 .. MaxEffects
      BY <2>1
    <3> QED
      BY <3>1 DEF AtomicInv, Inv, DiskInv
  <2> QED
    BY <2>1, <2>2
    DEF TypeOK, AtomicInv, Inv, LockInv, ErrorInv, CursorTypes, EffectTypes,
        CallTypes
<1> HIDE DEF TInv
<1> QED
  BY <1>1, <1>2, <1>3, PTL DEF Spec

=============================================================================
