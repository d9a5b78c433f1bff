--------------------------- MODULE HookBatchProofs ---------------------------
(***************************************************************************)
(* Theorems of HookBatch, for every batch of hooks, whatever their steps,  *)
(* every interleaving of their tasks and every mishap.                     *)
(***************************************************************************)
EXTENDS HookBatch, FiniteSetTheorems, SequenceTheorems, TLAPS

Phases == {"queued", "running", "undoing", "ok", "err", "panicked", "joined", "aborted"}

(***************************************************************************)
(* Threads: what the thread of the command and those of the tasks know of  *)
(* each other.                                                             *)
(***************************************************************************)

\* The lock is given up in one place; from there on no task is left to begin,
\* and from the return on none is at work.
ThreadInv ==
    /\ phase \in [Hooks -> Phases]
    /\ locked = (main \notin {"failed", "returned"})
    /\ main \in {"failed", "returned"} => \A h \in Hooks : phase[h] # "queued"
    /\ main = "returned" => \A h \in Hooks : ~Busy(h)

LEMMA InitThreads == Init => ThreadInv
  BY DEF Init, ThreadInv, Phases

LEMMA NextThreads == ThreadInv /\ [Next]_vars => ThreadInv'
<1> SUFFICES ASSUME ThreadInv, [Next]_vars PROVE ThreadInv'
  OBVIOUS
<1> USE DEF ThreadInv, Phases, Busy
<1>1. ASSUME NEW h \in Hooks, Task(h) PROVE ThreadInv'
  <2>1. CASE Start(h)  BY <2>1 DEF Start
  <2>2. CASE LookFirst(h)  BY <2>2 DEF LookFirst
  <2>3. CASE Create(h)  BY <2>3 DEF Create
  <2>4. CASE Execute(h)  BY <2>4 DEF Execute
  <2>5. CASE StepFails(h)  BY <2>5 DEF StepFails
  <2>6. CASE UndoOwn(h)  BY <2>6 DEF UndoOwn
  <2>7. CASE Finish(h)  BY <2>7 DEF Finish
  <2>8. CASE Panic(h)  BY <2>8 DEF Panic
  <2> QED  BY <1>1, <2>1, <2>2, <2>3, <2>4, <2>5, <2>6, <2>7, <2>8 DEF Task
<1>2. ASSUME NEW h \in Hooks, JoinOk(h) \/ JoinErr(h) PROVE ThreadInv'
  BY <1>2 DEF JoinOk, JoinErr
<1>3. CASE AllJoined \/ LaterFails
  BY <1>3 DEF AllJoined, LaterFails, task
<1>4. CASE Unwind
  BY <1>4 DEF Unwind, task
<1>5. CASE Fail
  BY <1>5 DEF Fail
<1>6. CASE Return
  BY <1>6 DEF Return, task
<1>7. CASE UNCHANGED vars
  BY <1>7 DEF vars, task
<1> QED
  BY <1>1, <1>2, <1>3, <1>4, <1>5, <1>6, <1>7 DEF Next, Main

LEMMA SpecThreads == Spec => []ThreadInv
  BY InitThreads, NextThreads, PTL DEF Spec

\* After the call has returned, no thread of the batch changes a file: the
\* runtime has waited for those that had begun, and the rest never begins.
THEOREM QuietOnceReturned == Spec => QuietAfterReturn
<1>1. ThreadInv /\ [Next]_vars => [main = "returned" => fs' = fs]_vars
  <2> SUFFICES ASSUME ThreadInv, Next, main = "returned" PROVE fs' = fs
    BY DEF vars
  <2>1. ASSUME NEW h \in Hooks PROVE ~Create(h) /\ ~Execute(h) /\ ~UndoOwn(h)
    BY DEF ThreadInv, Busy, Create, Execute, UndoOwn
  <2>2. ASSUME NEW h \in Hooks, Task(h) PROVE fs' = fs
    BY <2>1, <2>2 DEF Task, Start, LookFirst, StepFails, Finish, Panic
  <2>3. Main \/ LaterFails => fs' = fs
    BY DEF Main, JoinOk, JoinErr, AllJoined, Unwind, Fail, Return, LaterFails
  <2> QED  BY <2>2, <2>3 DEF Next
<1> QED
  BY <1>1, SpecThreads, PTL DEF Spec, QuietAfterReturn

\* Without the lock no hook of the batch begins.
THEOREM NoneBegins == Spec => NoneBeginsUnlocked
<1>1. ThreadInv => \A h \in Hooks : ~(~locked /\ phase[h] = "queued")
  BY DEF ThreadInv
<1>2. ThreadInv /\ [Next]_vars
        => [\A h \in Hooks : ~locked /\ phase[h] = "queued" => phase'[h] # "running"]_vars
  BY <1>1
<1> QED
  BY <1>2, SpecThreads, PTL DEF Spec, NoneBeginsUnlocked
----------------------------------------------------------------------------
(***************************************************************************)
(* Files: a file that the hooks only touch is never in what a rollback     *)
(* takes back, since TouchFile records a file it found there as not made   *)
(* by it.                                                                  *)
(***************************************************************************)

\* The steps that leave p alone, done and undone, and those of them in a
\* program, which have not been done yet.
Kept(p) ==
    {s \in Steps : IF s.kind = "touch" THEN s.created => s.path # p ELSE p \notin {s.path, s.to}}
Fresh(p) == {s \in Kept(p) : ~s.created}

Guards(p) == [of : Hooks \cup {None}, steps : Seq(Kept(p))]

\* Everything that has been done, or is still to be done, leaves p alone, and
\* who is about to create a file has not found p missing.
FileInv(p) ==
    /\ fs \in [Paths -> Contents]
    /\ fs[p] = p
    /\ todo \in [Hooks -> Seq(Fresh(p))]
    /\ executed \in [Hooks -> Seq(Kept(p))]
    /\ stack \in Seq(Guards(p))
    /\ seen \in [Hooks -> BOOLEAN]
    /\ \A h \in Hooks : seen[h] =>
          todo[h] # <<>> /\ Step(h).kind = "touch" /\ Step(h).path # p

\* What is taken off either end of a sequence is of the sequence's kind.
LEMMA Ends ==
    ASSUME NEW S, NEW s \in Seq(S), s # <<>>
    PROVE  /\ Head(s) \in S /\ Tail(s) \in Seq(S)
           /\ Last(s) \in S /\ Front(s) \in Seq(S)
  BY DEF Last, Front

LEMMA Fronts ==
    ASSUME NEW S, NEW s \in Seq(S), s # <<>>
    PROVE  /\ Len(s) \in Nat \ {0} /\ Last(s) = s[Len(s)]
           /\ Len(Front(s)) = Len(s) - 1
           /\ \A i \in 1 .. Len(s) - 1 : Front(s)[i] = s[i]
<1>1. Len(s) \in Nat \ {0} /\ \A i \in 1 .. Len(s) - 1 : s[i] \in S
  OBVIOUS
<1> DEFINE m == Len(s) - 1
<1>2. m \in Nat
  BY <1>1
<1> HIDE DEF m
<1>3. Len(SubSeq(s, 1, m)) = m /\ \A i \in 1 .. m : SubSeq(s, 1, m)[i] = s[i]
  <2>1. \A i \in 1 .. m : s[i] \in S
    BY <1>1 DEF m
  <2>2. /\ Len(SubSeq(s, 1, m)) = IF 1 <= m THEN m - 1 + 1 ELSE 0
        /\ \A i \in 1 .. m - 1 + 1 : SubSeq(s, 1, m)[i] = s[1 + i - 1]
    BY <1>2, <2>1, SubSeqProperties
  <2> QED  BY <1>2, <2>2
<1>4. Front(s) = SubSeq(s, 1, m) /\ Last(s) = s[Len(s)]
  BY DEF Last, Front, m
<1> QED
  BY <1>1, <1>3, <1>4 DEF m

\* A sequence is of a kind if its elements are.
LEMMA Elements == ASSUME NEW S, NEW s \in Seq(S), NEW i \in DOMAIN s PROVE s[i] \in S
  OBVIOUS

LEMMA ByElements ==
    ASSUME NEW S, NEW s \in Seq(S), NEW T, \A i \in DOMAIN s : s[i] \in T
    PROVE  s \in Seq(T)
<1>1. s = [i \in 1 .. Len(s) |-> s[i]] /\ Len(s) \in Nat /\ DOMAIN s = 1 .. Len(s)
  OBVIOUS
<1> QED  BY <1>1

\* A step that leaves p alone does so, and so does taking it back.
LEMMA KeptKeeps ==
    ASSUME NEW p \in Paths, NEW s \in Kept(p), NEW f \in [Paths -> Contents]
    PROVE  /\ After(f, s) \in [Paths -> Contents]
           /\ Undone(f, s) \in [Paths -> Contents]
           /\ s.kind # "touch" \/ s.path # p => After(f, s)[p] = f[p]
           /\ Undone(f, s)[p] = f[p]
  BY DEF Kept, Steps, Contents, After, Undone

\* Induction over the positions of a sequence: the length of the longest good
\* front is a maximum, whose tail is least in the order of strict inclusion.
LEMMA Latest ==
  ASSUME NEW n \in Nat, NEW S \in SUBSET (0 .. n), S # {}
  PROVE  \E k \in S : \A j \in S : j <= k
<1> DEFINE From(k) == k .. n
           Tails   == {From(k) : k \in S}
           R       == StrictSubsetOrdering(0 .. n)
<1>1. IsWellFoundedOn(R, SUBSET (0 .. n))
  <2>1. IsFiniteSet(0 .. n)
    BY FS_Interval
  <2> QED
    BY <2>1, FS_StrictSubsetOrderingWellFounded, FS_FiniteSubsetsOfFinite
<1>2. Tails \subseteq SUBSET (0 .. n) /\ Tails # {}
  <2>1. \A k \in S : From(k) \subseteq 0 .. n
    OBVIOUS
  <2> HIDE DEF From
  <2> QED
    BY <2>1, Zenon
<1>3. PICK tail \in Tails : \A t \in Tails : ~ (<<t, tail>> \in R)
  <2> HIDE DEF R, Tails
  <2> QED
    BY <1>1, <1>2, WFMin
<1>4. PICK k \in S : tail = From(k)
  OBVIOUS
<1>5. ASSUME NEW j \in S, j > k PROVE FALSE
  <2>1. From(j) \subseteq From(k) /\ k \in From(k) /\ k \notin From(j)
    BY <1>5
  <2>2. From(j) \in Tails
    OBVIOUS
  <2>3. <<From(j), From(k)>> \in R
    BY <1>2, <1>4, <2>1, <2>2 DEF StrictSubsetOrdering
  <2> QED
    BY <1>3, <1>4, <2>2, <2>3
<1> QED
  BY <1>5

LEMMA Reaches ==
  ASSUME NEW n \in Nat, NEW S \in SUBSET (0 .. n), 0 \in S,
         \A i \in S : i < n => i + 1 \in S
  PROVE  n \in S
<1>1. PICK k \in S : \A j \in S : j <= k
  BY Latest
<1>2. CASE k < n
  BY <1>1, <1>2
<1>3. CASE k = n
  BY <1>3
<1> QED
  BY <1>1, <1>2, <1>3

\* What the earlier stage does not name it has left alone.
LEMMA EarlierFrame ==
  ASSUME NEW p \in Paths \ PathsOf(Earlier)
  PROVE  Begun[p] = Initially[p]
<1> DEFINE n == Len(Earlier)
           S == {i \in 0 .. n : Ran[i][p] = Initially[p]}
<1>1. n \in Nat /\ 0 \in 0 .. n
  BY HookAssumption
<1>2. 0 \in S
  BY <1>1, EarlierAssumption
<1>3. ASSUME NEW i \in S, i < n PROVE i + 1 \in S
  <2>1. i + 1 \in 1 .. n /\ i + 1 \in DOMAIN Earlier /\ (i + 1) - 1 = i
    BY <1>1, <1>3, HookAssumption
  <2>2. Makes(Ran[i], Earlier[i + 1], Ran[i + 1])
    BY <2>1, EarlierAssumption
  <2>3. p \notin {Earlier[i + 1].path, Earlier[i + 1].to}
    BY <2>1 DEF PathsOf
  <2>4. Earlier[i + 1] \in Steps /\ Ran[i] \in [Paths -> Contents]
    BY <2>1, <1>3, HookAssumption, EarlierAssumption
  <2>5. Ran[i + 1][p] = Ran[i][p]
    BY <2>2, <2>3, <2>4 DEF Makes, After, Steps
  <2> QED
    BY <1>1, <1>3, <2>5
<1>4. n \in S
  <2> HIDE DEF n
  <2>1. S \in SUBSET (0 .. n)
    OBVIOUS
  <2> HIDE DEF S
  <2> QED  BY <1>1, <1>2, <1>3, <2>1, Reaches
<1> QED
  BY <1>4 DEF Begun

\* A file of the hooks' that was there before, and that they only touch.
OnlyTouched(p) ==
    /\ p \in Present \ PathsOf(Earlier)
    /\ \A h \in Hooks : \A i \in DOMAIN Program[h] :
          p \in PathsOf(<<Program[h][i]>>) => Program[h][i].kind = "touch"

LEMMA InitFile == ASSUME NEW p, OnlyTouched(p), Init PROVE FileInv(p)
<1>1. p \in Paths /\ p \in Present
  BY HookAssumption DEF OnlyTouched
<1>2. Begun \in [Paths -> Contents] /\ Begun[p] = p
  <2>1. Begun \in [Paths -> Contents]
    BY HookAssumption, EarlierAssumption DEF Begun
  <2> QED  BY <1>1, <2>1, EarlierFrame DEF OnlyTouched, Initially
<1>3. Program \in [Hooks -> Seq(Fresh(p))]
  <2>1. ASSUME NEW h \in Hooks, NEW i \in DOMAIN Program[h] PROVE Program[h][i] \in Fresh(p)
    <3>1. Program[h][i] \in {s \in Steps : ~s.created}
      BY HookAssumption, Elements
    <3>2. PathsOf(<<Program[h][i]>>) = {Program[h][i].path, Program[h][i].to}
      BY DEF PathsOf
    <3> QED  BY <3>1, <3>2 DEF Fresh, Kept, OnlyTouched
  <2>2. ASSUME NEW h \in Hooks PROVE Program[h] \in Seq(Fresh(p))
    BY <2>1, HookAssumption, ByElements
  <2> QED  BY <2>2, HookAssumption
<1>4. Earlier \in Seq(Kept(p))
  <2>1. ASSUME NEW i \in DOMAIN Earlier PROVE Earlier[i] \in Kept(p)
    <3>1. p \notin {Earlier[i].path, Earlier[i].to}
      BY DEF OnlyTouched, PathsOf
    <3>2. Earlier[i] \in Steps
      BY HookAssumption, Elements
    <3> QED  BY <3>1, <3>2 DEF Kept
  <2> QED  BY <2>1, HookAssumption, ByElements
<1> QED
  BY <1>2, <1>3, <1>4 DEF Init, FileInv, Guards

\* A task that notes a step it has done.
LEMMA DidKeeps ==
    ASSUME NEW p, FileInv(p), NEW h \in Hooks, todo[h] # <<>>, NEW s \in Kept(p), Did(h, s)
    PROVE  /\ todo' \in [Hooks -> Seq(Fresh(p))]
           /\ executed' \in [Hooks -> Seq(Kept(p))]
           /\ seen' \in [Hooks -> BOOLEAN]
           /\ \A g \in Hooks : seen'[g] => g # h /\ seen[g] /\ todo'[g] = todo[g]
<1>1. Tail(todo[h]) \in Seq(Fresh(p))
  BY Ends DEF FileInv
<1>2. Append(executed[h], s) \in Seq(Kept(p))
  BY DEF FileInv
<1> QED
  BY <1>1, <1>2 DEF Did, FileInv

LEMMA NextFile == ASSUME NEW p \in Paths, FileInv(p), [Next]_vars PROVE FileInv(p)'
<1> USE DEF FileInv, Step
<1>0. p # None
  BY HookAssumption
<1>1. ASSUME NEW h \in Hooks, Task(h) PROVE FileInv(p)'
  <2>1. CASE Start(h) \/ StepFails(h) \/ Finish(h) \/ Panic(h)
    BY <2>1 DEF Start, StepFails, Finish, Panic
  <2>2. ASSUME todo[h] # <<>> PROVE Step(h) \in Kept(p) /\ ~Step(h).created
    <3>1. todo[h] \in Seq(Fresh(p))
      OBVIOUS
    <3>2. Head(todo[h]) \in Fresh(p)
      BY <2>2, <3>1, Ends
    <3> QED  BY <3>2 DEF Fresh
  <2>3. CASE LookFirst(h)
    <3>1. CASE fs[Step(h).path] # None
      BY <2>2, <2>3, <3>1, DidKeeps DEF LookFirst
    <3>2. CASE fs[Step(h).path] = None
      BY <1>0, <2>3, <3>2 DEF LookFirst
    <3> QED  BY <3>1, <3>2
  <2>4. CASE Create(h)
    <3>1. /\ todo[h] # <<>> /\ Step(h) \in Kept(p)
          /\ Step(h).kind = "touch" /\ Step(h).path # p
      BY <2>2, <2>4 DEF Create
    <3>2. [Step(h) EXCEPT !.created = TRUE] \in Kept(p)
      BY <3>1 DEF Kept, Steps
    <3> HIDE DEF Step
    <3>3. fs' \in [Paths -> Contents] /\ fs'[p] = p
      BY <2>4, <3>1, KeptKeeps DEF Create
    <3>4. Did(h, [Step(h) EXCEPT !.created = TRUE]) /\ stack' = stack
      BY <2>4 DEF Create
    <3> QED  BY <3>1, <3>2, <3>3, <3>4, DidKeeps DEF Step
  <2>5. CASE Execute(h)
    <3>1. todo[h] # <<>> /\ Step(h) \in Kept(p) /\ Step(h).kind # "touch"
      BY <2>2, <2>5 DEF Execute
    <3>2. fs' \in [Paths -> Contents] /\ fs'[p] = p
      BY <2>5, <3>1, KeptKeeps DEF Execute
    <3>3. Did(h, Step(h)) /\ stack' = stack
      BY <2>5 DEF Execute
    <3>4. /\ todo' \in [Hooks -> Seq(Fresh(p))]
          /\ executed' \in [Hooks -> Seq(Kept(p))]
          /\ seen' \in [Hooks -> BOOLEAN]
          /\ \A g \in Hooks : seen'[g] => g # h /\ seen[g] /\ todo'[g] = todo[g]
      BY <3>1, <3>3, DidKeeps
    <3> QED  BY <3>2, <3>3, <3>4
  <2>6. CASE UndoOwn(h)
    <3>1. CASE executed[h] = <<>>
      BY <2>6, <3>1 DEF UndoOwn
    <3>2. CASE executed[h] # <<>>
      <4>1. Last(executed[h]) \in Kept(p) /\ Front(executed[h]) \in Seq(Kept(p))
        BY <3>2, Ends
      <4>2. Undone(fs, Last(executed[h])) \in [Paths -> Contents]
            /\ Undone(fs, Last(executed[h]))[p] = p
        BY <4>1, KeptKeeps
      <4> DEFINE s == Last(executed[h])
      <4>3. /\ UNCHANGED <<todo, seen, stack>>
            /\ \/ fs' = Undone(fs, s) /\ executed' = [executed EXCEPT ![h] = Front(@)]
               \/ fs' = fs /\ executed' = [executed EXCEPT ![h] = <<>>]
        <5> HIDE DEF FileInv
        <5> QED  BY <2>6, <3>2 DEF UndoOwn
      <4> HIDE DEF s
      <4>4. CASE fs' = Undone(fs, s) /\ executed' = [executed EXCEPT ![h] = Front(@)]
        BY <4>1, <4>2, <4>3, <4>4 DEF s
      <4>5. CASE fs' = fs /\ executed' = [executed EXCEPT ![h] = <<>>]
        BY <4>3, <4>5
      <4> QED  BY <4>3, <4>4, <4>5
    <3> QED  BY <3>1, <3>2
  <2> QED  BY <1>1, <2>1, <2>3, <2>4, <2>5, <2>6 DEF Task
<1>2. ASSUME NEW h \in Hooks, JoinOk(h) PROVE FileInv(p)'
  <2>1. [of |-> h, steps |-> executed[h]] \in Guards(p)
    BY DEF Guards
  <2> QED  BY <1>2, <2>1 DEF JoinOk
<1>3. ASSUME NEW h \in Hooks, JoinErr(h) PROVE FileInv(p)'
  BY <1>3 DEF JoinErr
<1>4. CASE AllJoined \/ LaterFails \/ Fail \/ Return
  BY <1>4 DEF AllJoined, LaterFails, Fail, Return, task
<1>5. CASE Unwind
  <2> DEFINE guard == Last(stack)
  <2>1. stack # <<>> /\ guard \in Guards(p) /\ Front(stack) \in Seq(Guards(p))
    BY <1>5, Ends DEF Unwind
  <2>2. ASSUME guard.steps # <<>>
        PROVE  /\ Undone(fs, Last(guard.steps)) \in [Paths -> Contents]
               /\ Undone(fs, Last(guard.steps))[p] = p
               /\ [guard EXCEPT !.steps = Front(@)] \in Guards(p)
    <3>1. guard.steps \in Seq(Kept(p))
      BY <2>1 DEF Guards
    <3>2. Last(guard.steps) \in Kept(p) /\ Front(guard.steps) \in Seq(Kept(p))
      BY <2>2, <3>1, Ends
    <3>3. [guard EXCEPT !.steps = Front(@)] \in Guards(p)
      BY <2>1, <3>2 DEF Guards
    <3> QED  BY <3>2, <3>3, KeptKeeps
  <2>3. /\ UNCHANGED task
        /\ \/ fs' = fs /\ stack' = Front(stack)
           \/ /\ guard.steps # <<>>
              /\ fs' = Undone(fs, Last(guard.steps))
              /\ stack' = Append(Front(stack), [guard EXCEPT !.steps = Front(@)])
    <3> HIDE DEF FileInv
    <3> QED  BY <1>5 DEF Unwind
  <2> HIDE DEF guard
  <2>4. CASE fs' = fs /\ stack' = Front(stack)
    BY <2>1, <2>3, <2>4 DEF task
  <2>5. CASE /\ guard.steps # <<>>
             /\ fs' = Undone(fs, Last(guard.steps))
             /\ stack' = Append(Front(stack), [guard EXCEPT !.steps = Front(@)])
    <3>1. stack' \in Seq(Guards(p))
      BY <2>1, <2>2, <2>5
    <3> QED  BY <2>2, <2>3, <2>5, <3>1 DEF task
  <2> QED  BY <2>3, <2>4, <2>5
<1>6. CASE UNCHANGED vars
  BY <1>6 DEF vars, task
<1> QED
  BY <1>1, <1>2, <1>3, <1>4, <1>5, <1>6 DEF Next, Main

\* What outlives its failed batch had begun under the lock, and is over when
\* the call returns (orchestrator/mod.rs:285).
THEOREM OutlivesBounded == Spec => OnlyBegunOutlive
BY QuietOnceReturned, NoneBegins DEF OnlyBegunOutlive

\* A file that was there before the hooks, and that they only touch, outlives
\* every failure and every undoing of theirs.
THEOREM TouchedStay == Spec => []TouchedFilesStay
<1> DEFINE FilesInv == \A p \in Present : OnlyTouched(p) => FileInv(p)
<1>1. Init => FilesInv
  BY InitFile
<1>2. FilesInv /\ [Next]_vars => FilesInv'
  <2> SUFFICES ASSUME FilesInv, [Next]_vars, NEW p \in Present, OnlyTouched(p)
               PROVE  FileInv(p)'
    OBVIOUS
  <2> QED  BY NextFile, HookAssumption
<1>3. FilesInv => TouchedFilesStay
  <2> SUFFICES ASSUME FilesInv, NEW p \in Present,
                      \A h \in Hooks : \A i \in DOMAIN Program[h] :
                         p \in PathsOf(<<Program[h][i]>>) => Program[h][i].kind = "touch",
                      p \notin PathsOf(Earlier)
               PROVE  fs[p] = p
    BY DEF TouchedFilesStay
  <2>1. OnlyTouched(p)
    BY DEF OnlyTouched
  <2> QED  BY <2>1 DEF FileInv
<1> QED
  BY <1>1, <1>2, <1>3, PTL DEF Spec
----------------------------------------------------------------------------
(***************************************************************************)
(* Rollback: what the steps under a guard have made of a set of files, and *)
(* what taking them back leads to.                                         *)
(***************************************************************************)
\* The steps that concern only files of P, overwriting none that was there, and
\* those that concern none of them.
Inside(P)  == {s \in Steps : s.path \in P /\ (s.kind = "move" => s.to \in P \ Present)}
Outside(P) == {s \in Steps : s.path \notin P /\ (s.kind = "move" => s.to \notin P)}
Either(P)  == Inside(P) \cup Outside(P)

On(P, f) == [p \in P |-> f[p]]

\* T is what the files of P were in the course of some steps.
Course(P, steps, T) ==
    /\ T[0] = On(P, Initially)
    /\ \A i \in 1 .. Len(steps) :
          IF steps[i] \in Inside(P) THEN Makes(T[i - 1], steps[i], T[i]) ELSE T[i] = T[i - 1]

Courses(P, steps) == {T \in [0 .. Len(steps) -> [P -> Contents]] : Course(P, steps, T)}

\* The files of P are what these steps have made of them.
Result(P, steps, f) == \E T \in Courses(P, steps) : T[Len(steps)] = On(P, f)

\* So they are, but for files that are gone: a move that overwrote another of
\* them does not bring it back.  The step that made such a file cannot be taken
\* back, and one that was there before is not among them.
Owed(P, steps, f) ==
    \E T \in Courses(P, steps) : \A p \in P :
       f[p] = T[Len(steps)][p] \/ (f[p] = None /\ p \notin Present)

LEMMA OutsideKeeps ==
    ASSUME NEW P \in SUBSET Paths, NEW s \in Outside(P), NEW f \in [Paths -> Contents]
    PROVE  \A p \in P : After(f, s)[p] = f[p] /\ Undone(f, s)[p] = f[p]
  BY DEF Outside, Steps, After, Undone

\* The types of the primitives' effects.
LEMMA StepTypes ==
    ASSUME NEW s \in Steps, NEW f \in [Paths -> Contents]
    PROVE  After(f, s) \in [Paths -> Contents] /\ Undone(f, s) \in [Paths -> Contents]
  BY DEF Steps, Contents, After, Undone

\* Whether a course fits is a matter of the files of P.
LEMMA SameOwed ==
    ASSUME NEW P, NEW steps, NEW f, NEW g, \A p \in P : g[p] = f[p]
    PROVE  /\ Result(P, steps, f) => Result(P, steps, g)
           /\ Owed(P, steps, f) => Owed(P, steps, g)
<1>1. On(P, g) = On(P, f)
  BY DEF On
<1> QED
  BY <1>1 DEF Result, Owed

LEMMA ResultOwed ==
    ASSUME NEW P, NEW steps, NEW f, Result(P, steps, f)
    PROVE  Owed(P, steps, f)
  BY DEF Result, Owed, On

LEMMA NothingOwed ==
    ASSUME NEW P \in SUBSET Paths, NEW f
    PROVE  /\ Owed(P, <<>>, f) => \A p \in P : f[p] = Initially[p]
           /\ (\A p \in P : f[p] = Initially[p]) => Result(P, <<>>, f)
<1>1. ASSUME Owed(P, <<>>, f), NEW p \in P PROVE f[p] = Initially[p]
  <2>1. PICK T \in Courses(P, <<>>) : f[p] = T[0][p] \/ (f[p] = None /\ p \notin Present)
    BY <1>1 DEF Owed
  <2>2. T[0] = On(P, Initially)
    BY DEF Courses, Course
  <2> QED  BY <2>1, <2>2 DEF On, Initially
<1>2. ASSUME \A p \in P : f[p] = Initially[p] PROVE Result(P, <<>>, f)
  <2> DEFINE T == [i \in 0 .. 0 |-> On(P, Initially)]
  <2>1. On(P, Initially) \in [P -> Contents] /\ On(P, f) = On(P, Initially)
    BY <1>2 DEF On, Initially, Contents
  <2>2. T \in Courses(P, <<>>)
    BY <2>1 DEF Courses, Course
  <2>3. T[Len(<<>>)] = On(P, f)
    BY <2>1
  <2> QED  BY <2>2, <2>3 DEF Result
<1> QED  BY <1>1, <1>2

\* One more step is done.
LEMMA ResultPush ==
    ASSUME NEW P \in SUBSET Paths, NEW steps \in Seq(Steps), NEW s \in Inside(P),
           NEW f \in [Paths -> Contents], NEW g \in [Paths -> Contents],
           Result(P, steps, f), Makes(f, s, g)
    PROVE  Result(P, Append(steps, s), g)
<1> DEFINE n    == Len(steps)
           more == Append(steps, s)
<1>1. PICK T \in Courses(P, steps) : T[n] = On(P, f)
  BY DEF Result
<1>2. /\ n \in Nat /\ Len(more) = n + 1 /\ more[n + 1] = s
      /\ \A i \in 1 .. n : more[i] = steps[i]
  OBVIOUS
<1>3. On(P, f) \in [P -> Contents] /\ On(P, g) \in [P -> Contents]
  BY DEF On
<1>4. Makes(On(P, f), s, On(P, g))
  BY DEF Makes, Can, After, On, Inside, Steps
<1> DEFINE U == [i \in 0 .. n + 1 |-> IF i <= n THEN T[i] ELSE On(P, g)]
<1> HIDE DEF n, more
<1>5. T \in [0 .. n -> [P -> Contents]] /\ Course(P, steps, T)
  BY DEF Courses, n
<1>6. U \in [0 .. n + 1 -> [P -> Contents]] /\ U[n + 1] = On(P, g)
  BY <1>2, <1>3, <1>5
<1>7. U[0] = On(P, Initially)
  BY <1>2, <1>5 DEF Course
<1>8. ASSUME NEW i \in 1 .. n + 1
      PROVE  IF more[i] \in Inside(P) THEN Makes(U[i - 1], more[i], U[i]) ELSE U[i] = U[i - 1]
  <2>1. CASE i \in 1 .. n
    <3>1. i - 1 \in 0 .. n /\ i \in 0 .. n
      BY <1>2, <2>1
    <3>2. U[i - 1] = T[i - 1] /\ U[i] = T[i] /\ more[i] = steps[i]
      BY <1>2, <2>1, <3>1
    <3> QED  BY <1>5, <2>1, <3>2 DEF Course, n
  <2>2. CASE i = n + 1
    <3>1. U[i - 1] = T[n] /\ U[i] = On(P, g) /\ more[i] = s
      BY <1>2, <2>2
    <3> QED  BY <1>1, <1>4, <3>1
  <2> QED  BY <1>2, <2>1, <2>2
<1>9. U \in Courses(P, more)
  <2> HIDE DEF U
  <2> QED  BY <1>2, <1>6, <1>7, <1>8 DEF Courses, Course
<1> QED
  <2> HIDE DEF U
  <2> QED  BY <1>2, <1>6, <1>9 DEF Result, more

\* The newest step is taken back.
LEMMA OwedPop ==
    ASSUME NEW P \in SUBSET Paths, NEW steps \in Seq(Either(P)), steps # <<>>,
           NEW f \in [Paths -> Contents],
           Owed(P, steps, f), Undoable(f, Last(steps))
    PROVE  Owed(P, Front(steps), Undone(f, Last(steps)))
<1> DEFINE n == Len(steps)
           s == Last(steps)
           less == Front(steps)
           g == Undone(f, s)
<1>1. PICK T \in Courses(P, steps) : \A p \in P :
           f[p] = T[n][p] \/ (f[p] = None /\ p \notin Present)
  BY DEF Owed
<1>2. /\ n \in Nat \ {0} /\ s = steps[n] /\ s \in Either(P)
      /\ Len(less) = n - 1 /\ \A i \in 1 .. n - 1 : less[i] = steps[i]
  <2> HIDE DEF Either
  <2> QED  BY Ends, Fronts
<1> DEFINE U == [i \in 0 .. n - 1 |-> T[i]]
<1>3. T \in [0 .. n -> [P -> Contents]] /\ Course(P, steps, T)
  BY DEF Courses
<1> HIDE DEF n, s, less
<1>4. U \in Courses(P, less) /\ U[Len(less)] = T[n - 1]
  <2>1. U \in [0 .. n - 1 -> [P -> Contents]] /\ U[0] = T[0]
    BY <1>2, <1>3
  <2>2. ASSUME NEW i \in 1 .. n - 1
        PROVE  /\ i \in 1 .. n
               /\ less[i] = steps[i] /\ U[i] = T[i] /\ U[i - 1] = T[i - 1]
    BY <1>2, <2>2
  <2>3. Course(P, less, U)
    <3> HIDE DEF U
    <3> QED  BY <1>2, <1>3, <2>1, <2>2 DEF Course, n
  <2> QED  BY <1>2, <2>1, <2>3 DEF Courses
<1>5. ASSUME NEW p \in P
      PROVE  g[p] = T[n - 1][p] \/ (g[p] = None /\ p \notin Present)
  <2>0. f[p] = T[n][p] \/ (f[p] = None /\ p \notin Present)
    BY <1>1
  <2>1. CASE s \in Inside(P)
    <3>1. Makes(T[n - 1], s, T[n])
      <4>1. n \in 1 .. n
        BY <1>2
      <4> QED  BY <1>2, <1>3, <2>1, <4>1 DEF Course, n
    <3>2. T[n - 1] \in [P -> Contents] /\ T[n] \in [P -> Contents]
      BY <1>2, <1>3
    <3>3. Undoable(f, s)
      BY DEF s
    <3>4. CASE s.kind = "touch"
      BY <2>0, <2>1, <3>1, <3>2, <3>4 DEF Makes, After, Undone, Inside, Steps
    <3>5. CASE s.kind = "link"
      BY <2>0, <2>1, <3>1, <3>2, <3>5 DEF Makes, Can, After, Undone, Inside, Steps
    <3>6. CASE s.kind = "move"
      <4>1. /\ s.path \in P /\ s.to \in P \ Present /\ f[s.to] # None
            /\ f[s.to] = T[n][s.to] \/ f[s.to] = None
        BY <1>1, <2>1, <3>3, <3>6 DEF Inside, Undoable
      <4>2. T[n] = [T[n - 1] EXCEPT ![s.path] = None, ![s.to] = T[n - 1][s.path]]
        BY <3>1, <3>6 DEF Makes, After
      <4>3. g = [f EXCEPT ![s.to] = None, ![s.path] = f[s.to]]
        BY <3>6 DEF Undone
      <4> QED  BY <2>0, <3>2, <4>1, <4>2, <4>3
    <3> QED  BY <2>1, <3>4, <3>5, <3>6 DEF Inside, Steps
  <2>2. CASE s \notin Inside(P)
    <3>1. T[n] = T[n - 1]
      <4>1. n \in 1 .. n
        BY <1>2
      <4> QED  BY <1>2, <1>3, <2>2, <4>1 DEF Course, n
    <3>2. g[p] = f[p]
      BY <1>2, <2>2, OutsideKeeps DEF Either
    <3> QED  BY <2>0, <3>1, <3>2
  <2> QED  BY <2>1, <2>2
<1> QED
  <2> HIDE DEF g, U
  <2> QED  BY <1>4, <1>5 DEF Owed, g, s, less
----------------------------------------------------------------------------
(***************************************************************************)
(* Types: a task's steps are those of its program, and the stack's guards  *)
(* are of hooks that were joined.                                          *)
(***************************************************************************)
Guard == [of : Hooks \cup {None}, steps : Seq(Steps)]

\* How many steps of its program a task has gone past.
Past(h) == Len(Program[h]) - Len(todo[h])

\* A step as its program has it.
Bare(s) == [s EXCEPT !.created = FALSE]

\* What TypeOK says of a task that is at work or has come to an end.
Follows(h) ==
    /\ Len(executed[h]) = Past(h)
    /\ \A i \in 1 .. Past(h) : Bare(executed[h][i]) = Program[h][i]

TypeInv ==
    /\ fs \in [Paths -> Contents]
    /\ phase \in [Hooks -> Phases]
    /\ todo \in [Hooks -> Seq({s \in Steps : ~s.created})]
    /\ executed \in [Hooks -> Seq(Steps)]
    /\ seen \in [Hooks -> BOOLEAN]
    /\ stack \in Seq(Guard)
    /\ main \in {"batch", "unwind", "failed", "returned", "done"}
    /\ locked \in BOOLEAN
    /\ orphans \subseteq Hooks /\ stuck \subseteq Hooks \cup {None}

SplitInv ==
    \A h \in Hooks :
       /\ Past(h) \in Nat
       /\ todo[h] = SubSeq(Program[h], Past(h) + 1, Len(Program[h]))
       /\ phase[h] = "queued" => todo[h] = Program[h] /\ executed[h] = <<>>
       /\ phase[h] \in {"running", "ok"} => Follows(h)
       /\ seen[h] => todo[h] # <<>> /\ Step(h).kind = "touch"

Begins == TypeInv /\ SplitInv

LEMMA BeginsTypes == Begins => TypeOK
<1> SUFFICES ASSUME Begins PROVE TypeOK
  OBVIOUS
<1>1. todo \in [Hooks -> Seq(Steps)]
  <2>1. todo \in [Hooks -> Seq({s \in Steps : ~s.created})]
    BY DEF Begins, TypeInv
  <2>2. ASSUME NEW h \in Hooks PROVE todo[h] \in Seq(Steps)
    <3>1. todo[h] \in Seq({s \in Steps : ~s.created})
      BY <2>1
    <3> QED  BY <3>1
  <2> QED  BY <2>1, <2>2
<1>2. ASSUME NEW h \in Hooks
      PROVE  LET n == Len(Program[h]) - Len(todo[h])
             IN  /\ n \in Nat /\ todo[h] = SubSeq(Program[h], n + 1, Len(Program[h]))
                 /\ phase[h] \in {"running", "ok"} =>
                       /\ Len(executed[h]) = n
                       /\ \A i \in 1 .. n :
                             [executed[h][i] EXCEPT !.created = FALSE] = Program[h][i]
  BY Zenon DEF Begins, SplitInv, Past, Follows, Bare
<1> QED
  BY <1>1, <1>2, Zenon DEF Begins, TypeInv, TypeOK, Phases

LEMMA InitBegins == Init => Begins
<1> SUFFICES ASSUME Init PROVE Begins
  OBVIOUS
<1>1. Begun \in [Paths -> Contents]
  BY HookAssumption, EarlierAssumption DEF Begun
<1>2. [of |-> None, steps |-> Earlier] \in Guard
  BY HookAssumption DEF Guard
<1>3. TypeInv
  BY <1>1, <1>2, HookAssumption DEF Init, TypeInv, Phases
<1>4. ASSUME NEW h \in Hooks
      PROVE  /\ Past(h) = 0
             /\ todo[h] = SubSeq(Program[h], 1, Len(Program[h]))
  <2>1. todo[h] = Program[h] /\ Program[h] \in Seq({s \in Steps : ~s.created})
    BY HookAssumption DEF Init
  <2> QED  BY <2>1, SubSeqFull DEF Past
<1>5. SplitInv
  BY <1>4 DEF SplitInv, Init
<1> QED
  BY <1>3, <1>5 DEF Begins

\* The rest of a program, its next step gone past.
LEMMA NextOfRest ==
    ASSUME NEW S, NEW program \in Seq(S), NEW rest \in Seq(S), rest # <<>>,
           NEW n \in Nat, n = Len(program) - Len(rest),
           rest = SubSeq(program, n + 1, Len(program))
    PROVE  /\ Head(rest) = program[n + 1]
           /\ Len(program) - Len(Tail(rest)) = n + 1
           /\ Tail(rest) = SubSeq(program, (n + 1) + 1, Len(program))
<1> DEFINE m == n + 1
           l == Len(program)
<1>1. /\ Len(rest) \in Nat \ {0} /\ l \in Nat
      /\ Len(Tail(rest)) = Len(rest) - 1
  BY HeadTailProperties
<1>2. m \in 1 .. l /\ l \in m .. l
  BY <1>1
<1>3. rest = SubSeq(program, m, l)
  OBVIOUS
<1>4. Len(program) - Len(Tail(rest)) = n + 1
  <2>1. \A a, b \in Int : a - (b - 1) = (a - b) + 1
    OBVIOUS
  <2>2. l \in Int /\ Len(rest) \in Int
    BY <1>1
  <2> QED  BY <1>1, <2>1, <2>2, Zenon
<1> HIDE DEF m
<1>5. /\ Head(SubSeq(program, m, l)) = program[m]
      /\ Tail(SubSeq(program, m, l)) = SubSeq(program, m + 1, l)
  BY <1>2, HeadTailOfSubSeq
<1> QED
  BY <1>3, <1>4, <1>5 DEF m

\* One more step done, in a program's order.
LEMMA OneMore ==
    ASSUME NEW S, NEW program, NEW done \in Seq(S), NEW s \in S, NEW n \in Nat,
           Len(done) = n, \A i \in 1 .. n : Bare(done[i]) = program[i], Bare(s) = program[n + 1]
    PROVE  /\ Append(done, s) \in Seq(S) /\ Len(Append(done, s)) = n + 1
           /\ \A i \in 1 .. n + 1 : Bare(Append(done, s)[i]) = program[i]
<1>1. /\ Append(done, s) \in Seq(S) /\ Len(Append(done, s)) = n + 1
      /\ Append(done, s)[n + 1] = s
      /\ \A i \in 1 .. n : Append(done, s)[i] = done[i]
  BY AppendProperties
<1>2. \A i \in 1 .. n + 1 : i \in 1 .. n \/ i = n + 1
  OBVIOUS
<1> QED
  BY <1>1, <1>2, Zenon

\* A task that notes its next step as done, with what the rollback needs.
LEMMA DidBegins ==
    ASSUME Begins, NEW h \in Hooks, todo[h] # <<>>, phase[h] = "running", phase' = phase,
           NEW s \in Steps, Bare(s) = Step(h), Did(h, s)
    PROVE  /\ todo' \in [Hooks -> Seq({x \in Steps : ~x.created})]
           /\ executed' \in [Hooks -> Seq(Steps)]
           /\ seen' \in [Hooks -> BOOLEAN]
           /\ SplitInv'
<1> DEFINE program == Program[h]
           rest    == todo[h]
           n       == Past(h)
           done    == executed[h]
           Unmade  == {x \in Steps : ~x.created}
           more    == Append(done, s)
<1>1. /\ program \in Seq(Unmade) /\ rest \in Seq(Unmade) /\ done \in Seq(Steps)
  BY HookAssumption DEF Begins, TypeInv
<1>2. /\ n \in Nat /\ n = Len(program) - Len(rest)
      /\ rest = SubSeq(program, n + 1, Len(program))
      /\ Len(done) = n
      /\ \A i \in 1 .. n : Bare(done[i]) = program[i]
  BY DEF Begins, SplitInv, Past, Follows
<1>3. /\ todo' = [todo EXCEPT ![h] = Tail(rest)]
      /\ executed' = [executed EXCEPT ![h] = more]
      /\ seen' = [seen EXCEPT ![h] = FALSE]
  BY DEF Did
<1>4. /\ todo \in [Hooks -> Seq(Unmade)] /\ executed \in [Hooks -> Seq(Steps)]
      /\ seen \in [Hooks -> BOOLEAN]
  BY DEF Begins, TypeInv
<1>5. Step(h) = Head(rest) /\ rest # <<>>
  BY DEF Step
<1> HIDE DEF Unmade, n, program, rest, done
<1>6. Tail(rest) \in Seq(Unmade)
  BY <1>1, <1>5, Ends
<1>7. /\ Step(h) = program[n + 1] /\ Len(program) - Len(Tail(rest)) = n + 1
      /\ Tail(rest) = SubSeq(program, (n + 1) + 1, Len(program))
  BY <1>1, <1>2, <1>5, NextOfRest
<1>8. /\ more \in Seq(Steps) /\ Len(more) = n + 1
      /\ \A i \in 1 .. n + 1 : Bare(more[i]) = program[i]
  <2>1. Bare(s) = program[n + 1]
    BY <1>7
  <2>2. done \in Seq(Steps) /\ n \in Nat /\ Len(done) = n
    BY <1>1, <1>2
  <2>3. \A i \in 1 .. n : Bare(done[i]) = program[i]
    BY <1>2
  <2> QED  BY <2>1, <2>2, <2>3, OneMore
<1> HIDE DEF more
<1>9. /\ todo' \in [Hooks -> Seq(Unmade)] /\ executed' \in [Hooks -> Seq(Steps)]
      /\ seen' \in [Hooks -> BOOLEAN]
      /\ todo'[h] = Tail(rest) /\ executed'[h] = more /\ seen'[h] = FALSE
  BY <1>3, <1>4, <1>6, <1>8
<1>10. Past(h)' = n + 1 /\ n + 1 \in Nat
  <2>1. Past(h)' = Len(program) - Len(Tail(rest))
    BY <1>9 DEF Past, program
  <2>2. n + 1 \in Nat
    BY <1>2
  <2> QED  BY <1>7, <2>1, <2>2
<1>11. Follows(h)'
  BY <1>8, <1>9, <1>10, Zenon DEF Follows, program
<1>12. todo'[h] = SubSeq(Program[h], Past(h)' + 1, Len(Program[h]))
  BY <1>7, <1>9, <1>10, Zenon DEF program
<1>13. SplitInv'
  <2> SUFFICES ASSUME NEW g \in Hooks
               PROVE  (/\ Past(g) \in Nat
                       /\ todo[g] = SubSeq(Program[g], Past(g) + 1, Len(Program[g]))
                       /\ phase[g] = "queued" => todo[g] = Program[g] /\ executed[g] = <<>>
                       /\ phase[g] \in {"running", "ok"} => Follows(g)
                       /\ seen[g] => todo[g] # <<>> /\ Step(g).kind = "touch")'
    BY Zenon DEF SplitInv
  <2>1. CASE g = h
    <3>1. Past(h)' \in Nat /\ phase'[h] # "queued" /\ ~seen'[h]
      BY <1>9, <1>10
    <3> QED  BY <1>11, <1>12, <2>1, <3>1, Zenon
  <2>2. CASE g # h
    <3>1. todo'[g] = todo[g] /\ executed'[g] = executed[g] /\ seen'[g] = seen[g] /\ phase'[g] = phase[g]
      BY <1>3, <1>4, <2>2
    <3> QED  BY <3>1, Zenon DEF Begins, SplitInv, Past, Follows, Step
  <2> QED  BY <2>1, <2>2
<1> QED
  BY <1>9, <1>13 DEF Unmade

\* The step a task is at.
LEMMA AtStep ==
    ASSUME Begins, NEW h \in Hooks, todo[h] # <<>>
    PROVE  Step(h) \in Steps /\ ~Step(h).created
<1>1. todo[h] \in Seq({s \in Steps : ~s.created})
  BY DEF Begins, TypeInv
<1>2. Head(todo[h]) \in {s \in Steps : ~s.created}
  BY <1>1, Ends
<1> QED
  BY <1>2 DEF Step

\* A step of a task that changes neither what it has done nor what it has to do.
LEMMA SameSplit ==
    ASSUME SplitInv, TypeInv, UNCHANGED <<todo, executed, seen>>,
           \A g \in Hooks : /\ phase'[g] = "queued" => phase[g] = "queued"
                            /\ phase'[g] \in {"running", "ok"} =>
                                  phase[g] \in {"queued", "running", "ok"}
    PROVE  SplitInv'
<1> SUFFICES ASSUME NEW g \in Hooks
             PROVE  (/\ Past(g) \in Nat
                     /\ todo[g] = SubSeq(Program[g], Past(g) + 1, Len(Program[g]))
                     /\ phase[g] = "queued" => todo[g] = Program[g] /\ executed[g] = <<>>
                     /\ phase[g] \in {"running", "ok"} => Follows(g)
                     /\ seen[g] => todo[g] # <<>> /\ Step(g).kind = "touch")'
  BY Zenon DEF SplitInv
<1>1. Past(g)' = Past(g) /\ Step(g)' = Step(g) /\ (Follows(g)' <=> Follows(g))
  BY DEF Past, Step, Follows
<1>2. phase[g] = "queued" => Follows(g)
  <2> SUFFICES ASSUME phase[g] = "queued" PROVE Follows(g)
    OBVIOUS
  <2>1. todo[g] = Program[g] /\ executed[g] = <<>> /\ Program[g] \in Seq({s \in Steps : ~s.created})
    BY HookAssumption DEF SplitInv
  <2>2. Past(g) = 0 /\ Len(executed[g]) = 0
    BY <2>1 DEF Past
  <2> QED  BY <2>2 DEF Follows
<1> QED
  BY <1>1, <1>2 DEF SplitInv

LEMMA BareSame ==
    ASSUME NEW s \in Steps, ~s.created
    PROVE  /\ Bare(s) = s
           /\ [s EXCEPT !.created = TRUE] \in Steps /\ Bare([s EXCEPT !.created = TRUE]) = s
  BY DEF Bare, Steps

LEMMA TaskBegins == ASSUME Begins, NEW h \in Hooks, Task(h) PROVE Begins'
<1> USE DEF Begins, TypeInv
<1>1. CASE Start(h) \/ StepFails(h) \/ Finish(h) \/ Panic(h)
  <2>1. TypeInv'
    BY <1>1 DEF Start, StepFails, Finish, Panic, Phases
  <2>2. SplitInv'
    BY <1>1, SameSplit DEF Start, StepFails, Finish, Panic
  <2> QED  BY <2>1, <2>2
<1>2. CASE LookFirst(h)
  <2>1. CASE fs[Step(h).path] # None
    <3>1. Step(h) \in Steps /\ Bare(Step(h)) = Step(h)
      BY <1>2, AtStep, BareSame DEF LookFirst
    <3>2. /\ Did(h, Step(h)) /\ todo[h] # <<>> /\ phase[h] = "running"
          /\ UNCHANGED <<fs, phase, stack, main, locked, orphans, stuck>>
      BY <1>2, <2>1 DEF LookFirst
    <3> HIDE DEF Begins, TypeInv
    <3>3. /\ todo' \in [Hooks -> Seq({x \in Steps : ~x.created})]
          /\ executed' \in [Hooks -> Seq(Steps)]
          /\ seen' \in [Hooks -> BOOLEAN] /\ SplitInv'
      BY <3>1, <3>2, DidBegins
    <3> QED  BY <3>2, <3>3 DEF Begins, TypeInv
  <2>2. CASE fs[Step(h).path] = None
    <3>1. TypeInv'
      BY <1>2, <2>2 DEF LookFirst
    <3>2. SplitInv'
      <4>1. /\ UNCHANGED <<todo, executed, phase>>
            /\ seen' = [seen EXCEPT ![h] = TRUE]
            /\ todo[h] # <<>> /\ Step(h).kind = "touch"
        BY <1>2, <2>2 DEF LookFirst
      <4> QED  BY <4>1 DEF SplitInv, Past, Follows, Step
    <3> QED  BY <3>1, <3>2
  <2> QED  BY <2>1, <2>2
<1>3. CASE Create(h)
  <2> DEFINE s == [Step(h) EXCEPT !.created = TRUE]
  <2>1. /\ Did(h, s) /\ phase[h] = "running" /\ seen[h] /\ fs' = After(fs, Step(h))
        /\ UNCHANGED <<phase, stack, main, locked, orphans, stuck>>
    BY <1>3 DEF Create
  <2>2. todo[h] # <<>>
    BY <2>1 DEF SplitInv
  <2>3. Step(h) \in Steps /\ s \in Steps /\ Bare(s) = Step(h)
    BY <2>2, AtStep, BareSame
  <2>4. fs' \in [Paths -> Contents]
    BY <2>1, <2>3, StepTypes
  <2> HIDE DEF Begins, TypeInv, s
  <2>5. /\ todo' \in [Hooks -> Seq({x \in Steps : ~x.created})]
        /\ executed' \in [Hooks -> Seq(Steps)]
        /\ seen' \in [Hooks -> BOOLEAN] /\ SplitInv'
    BY <2>1, <2>2, <2>3, DidBegins
  <2> QED  BY <2>1, <2>4, <2>5 DEF Begins, TypeInv
<1>4. CASE Execute(h)
  <2>1. /\ Did(h, Step(h)) /\ phase[h] = "running" /\ todo[h] # <<>> /\ fs' = After(fs, Step(h))
        /\ UNCHANGED <<phase, stack, main, locked, orphans, stuck>>
    BY <1>4 DEF Execute
  <2>2. Step(h) \in Steps /\ Bare(Step(h)) = Step(h)
    BY <2>1, AtStep, BareSame
  <2>3. fs' \in [Paths -> Contents]
    BY <2>1, <2>2, StepTypes
  <2> HIDE DEF Begins, TypeInv
  <2>4. /\ todo' \in [Hooks -> Seq({x \in Steps : ~x.created})]
        /\ executed' \in [Hooks -> Seq(Steps)]
        /\ seen' \in [Hooks -> BOOLEAN] /\ SplitInv'
    BY <2>1, <2>2, DidBegins
  <2> QED  BY <2>1, <2>3, <2>4 DEF Begins, TypeInv
<1>5. CASE UndoOwn(h)
  <2> DEFINE s == Last(executed[h])
             less == Front(executed[h])
  <2>1. CASE executed[h] = <<>>
    <3>1. TypeInv'
      BY <1>5, <2>1 DEF UndoOwn, Phases
    <3>2. SplitInv'
      BY <1>5, <2>1, SameSplit DEF UndoOwn
    <3> QED  BY <3>1, <3>2
  <2>2. CASE executed[h] # <<>>
    <3>1. s \in Steps /\ less \in Seq(Steps) /\ Undone(fs, s) \in [Paths -> Contents]
      BY <2>2, Ends, StepTypes
    <3> HIDE DEF Begins, TypeInv
    <3>2. /\ phase[h] = "undoing"
          /\ UNCHANGED <<phase, todo, seen, stack, main, locked, orphans>>
          /\ \/ /\ fs' = Undone(fs, s) /\ executed' = [executed EXCEPT ![h] = less]
                /\ stuck' = stuck
             \/ /\ fs' = fs /\ executed' = [executed EXCEPT ![h] = <<>>]
                /\ stuck' = stuck \cup {h}
      BY <1>5, <2>2 DEF UndoOwn
    <3> HIDE DEF s, less
    <3>0. executed \in [Hooks -> Seq(Steps)] /\ fs \in [Paths -> Contents] /\ stuck \subseteq Hooks \cup {None}
      BY DEF Begins, TypeInv
    <3>3. TypeInv'
      <4>1. executed' \in [Hooks -> Seq(Steps)]
        <5>1. <<>> \in Seq(Steps)
          OBVIOUS
        <5> QED  BY <3>0, <3>1, <3>2, <5>1
      <4>2. fs' \in [Paths -> Contents] /\ stuck' \subseteq Hooks \cup {None}
        BY <3>0, <3>1, <3>2
      <4> QED  BY <3>2, <4>1, <4>2 DEF Begins, TypeInv
    <3>4. \A g \in Hooks \ {h} : executed'[g] = executed[g]
      BY <3>0, <3>2
    <3>5. SplitInv'
      <4> SUFFICES ASSUME NEW g \in Hooks
                   PROVE  (/\ Past(g) \in Nat
                           /\ todo[g] = SubSeq(Program[g], Past(g) + 1, Len(Program[g]))
                           /\ phase[g] = "queued" => todo[g] = Program[g] /\ executed[g] = <<>>
                           /\ phase[g] \in {"running", "ok"} => Follows(g)
                           /\ seen[g] => todo[g] # <<>> /\ Step(g).kind = "touch")'
        BY Zenon DEF SplitInv
      <4>1. CASE g = h
        BY <3>2, <4>1 DEF Begins, SplitInv, Past, Step
      <4>2. CASE g # h
        <5>1. executed'[g] = executed[g] /\ UNCHANGED <<phase, todo, seen>>
          BY <3>2, <3>4, <4>2
        <5>2. Past(g)' = Past(g) /\ Step(g)' = Step(g) /\ (Follows(g)' <=> Follows(g))
          BY <5>1 DEF Past, Step, Follows
        <5> QED  BY <5>1, <5>2 DEF Begins, SplitInv
      <4> QED  BY <4>1, <4>2
    <3> QED  BY <3>3, <3>5 DEF Begins
  <2> QED  BY <2>1, <2>2
<1> QED
  BY <1>1, <1>2, <1>3, <1>4, <1>5 DEF Task

LEMMA NextBegins == ASSUME Begins, [Next]_vars PROVE Begins'
<1> USE DEF Begins, TypeInv
<1>1. ASSUME NEW h \in Hooks, Task(h) PROVE Begins'
  <2> HIDE DEF Begins
  <2> QED  BY <1>1, TaskBegins
<1>2. ASSUME NEW h \in Hooks, JoinOk(h) \/ JoinErr(h) PROVE Begins'
  <2>1. [of |-> h, steps |-> executed[h]] \in Guard
    BY DEF Guard
  <2>2. TypeInv'
    <3>1. CASE JoinOk(h)
      <4>1. stack' \in Seq(Guard)
        BY <3>1, <2>1 DEF JoinOk
      <4> QED  BY <3>1, <4>1 DEF JoinOk, Phases
    <3>2. CASE JoinErr(h)
      BY <3>2 DEF JoinErr, Phases
    <3> QED  BY <1>2, <3>1, <3>2
  <2>3. SplitInv'
    BY <1>2, SameSplit DEF JoinOk, JoinErr
  <2> QED  BY <2>2, <2>3
<1>3. CASE AllJoined \/ Return \/ LaterFails \/ UNCHANGED vars
  <2>1. TypeInv'
    BY <1>3 DEF AllJoined, Return, LaterFails, vars, task
  <2>2. SplitInv'
    BY <1>3, SameSplit DEF AllJoined, Return, LaterFails, vars, task
  <2> QED  BY <2>1, <2>2
<1>4. CASE Fail
  <2>1. TypeInv'
    BY <1>4 DEF Fail, Phases
  <2>2. SplitInv'
    BY <1>4, SameSplit DEF Fail
  <2> QED  BY <2>1, <2>2
<1>5. CASE Unwind
  <2> DEFINE guard == Last(stack)
  <2>1. stack # <<>> /\ guard \in Guard /\ Front(stack) \in Seq(Guard)
    BY <1>5, Ends DEF Unwind
  <2>2. ASSUME guard.steps # <<>>
        PROVE  /\ Undone(fs, Last(guard.steps)) \in [Paths -> Contents]
               /\ [guard EXCEPT !.steps = Front(@)] \in Guard
    <3>1. guard.steps \in Seq(Steps)
      BY <2>1 DEF Guard
    <3>2. Last(guard.steps) \in Steps /\ Front(guard.steps) \in Seq(Steps)
      BY <2>2, <3>1, Ends
    <3> QED  BY <2>1, <3>2, StepTypes DEF Guard
  <2>3. /\ UNCHANGED <<phase, todo, executed, seen, main, locked, orphans>>
        /\ \/ fs' = fs /\ stack' = Front(stack) /\ stuck' \in {stuck, stuck \cup {guard.of}}
           \/ /\ guard.steps # <<>> /\ stuck' = stuck
              /\ fs' = Undone(fs, Last(guard.steps))
              /\ stack' = Append(Front(stack), [guard EXCEPT !.steps = Front(@)])
    <3> HIDE DEF Begins, TypeInv
    <3> QED  BY <1>5 DEF Unwind, task
  <2>4. guard.of \in Hooks \cup {None}
    BY <2>1 DEF Guard
  <2> HIDE DEF guard
  <2>5. TypeInv'
    <3>1. stack' \in Seq(Guard) /\ fs' \in [Paths -> Contents]
      <4> DEFINE less == [guard EXCEPT !.steps = Front(@)]
      <4>1. CASE fs' = fs /\ stack' = Front(stack)
        BY <2>1, <4>1
      <4>2. CASE /\ guard.steps # <<>>
                 /\ fs' = Undone(fs, Last(guard.steps)) /\ stack' = Append(Front(stack), less)
        <5>1. less \in Guard /\ Undone(fs, Last(guard.steps)) \in [Paths -> Contents]
          BY <2>2, <4>2
        <5> HIDE DEF less
        <5> QED  BY <2>1, <4>2, <5>1
      <4> QED  BY <2>3, <4>1, <4>2
    <3>2. stuck' \subseteq Hooks \cup {None}
      BY <2>3, <2>4
    <3> QED  BY <2>3, <3>1, <3>2
  <2>6. SplitInv'
    BY <2>3, SameSplit
  <2> QED  BY <2>5, <2>6
<1> QED
  BY <1>1, <1>2, <1>3, <1>4, <1>5 DEF Next, Main

\* The types, and that a task's done and coming steps make up its program.
THEOREM TypesKept == Spec => []TypeOK
<1>1. Begins /\ [Next]_vars => Begins'
  BY NextBegins
<1> QED
  BY InitBegins, <1>1, BeginsTypes, PTL DEF Spec
----------------------------------------------------------------------------
(***************************************************************************)
(* The stack: a guard for each hook that was joined with success, one for  *)
(* the stages before.                                                      *)
(***************************************************************************)
\* What is under the guards of w in a stack.
UnderIn(s, w) == {s[i].steps : i \in {j \in DOMAIN s : s[j].of = w}}
Under(w) == UnderIn(stack, w)

Distinct(s) == \A i, j \in DOMAIN s : s[i].of = s[j].of => i = j

StackInv ==
    /\ Distinct(stack)
    /\ \A h \in Hooks : phase[h] # "joined" => Under(h) = {}
    /\ main \in {"failed", "returned"} => stack = <<>>
    /\ main = "batch" => orphans = {}
    /\ main # "batch" => \A h \in Hooks \ orphans : phase[h] = "joined"

LEMMA Pushed ==
    ASSUME NEW s \in Seq(Guard), NEW g \in Guard, Distinct(s), UnderIn(s, g.of) = {}
    PROVE  /\ Distinct(Append(s, g))
           /\ UnderIn(Append(s, g), g.of) = {g.steps}
           /\ \A w : w # g.of => UnderIn(Append(s, g), w) = UnderIn(s, w)
<1> DEFINE n == Len(s)
           more == Append(s, g)
<1>1. /\ n \in Nat /\ DOMAIN s = 1 .. n /\ DOMAIN more = 1 .. n + 1 /\ more[n + 1] = g
      /\ \A i \in 1 .. n : more[i] = s[i]
  OBVIOUS
<1>2. \A i \in DOMAIN s : s[i].of # g.of
  BY DEF UnderIn
<1> HIDE DEF n, more
<1>3. \A i \in DOMAIN more : i \in DOMAIN s \/ i = n + 1
  BY <1>1
<1>4. DOMAIN s \subseteq DOMAIN more /\ n + 1 \in DOMAIN more
  BY <1>1
<1>5. Distinct(more)
  <2>1. \A i \in DOMAIN s : more[i] = s[i]
    BY <1>1
  <2> QED  BY <1>1, <1>2, <1>3, <2>1, Zenon DEF Distinct
<1>6. UnderIn(more, g.of) = {g.steps}
  BY <1>1, <1>2, <1>3, <1>4 DEF UnderIn
<1>7. ASSUME NEW w, w # g.of PROVE UnderIn(more, w) = UnderIn(s, w)
  BY <1>1, <1>3, <1>4, <1>7 DEF UnderIn
<1> QED
  BY <1>5, <1>6, <1>7 DEF more

LEMMA Popped ==
    ASSUME NEW s \in Seq(Guard), s # <<>>, Distinct(s)
    PROVE  /\ Distinct(Front(s))
           /\ Last(s).steps \in UnderIn(s, Last(s).of)
           /\ UnderIn(Front(s), Last(s).of) = {}
           /\ \A w : w # Last(s).of => UnderIn(Front(s), w) = UnderIn(s, w)
<1> DEFINE n == Len(s)
           less == Front(s)
<1>1. /\ n \in Nat \ {0} /\ DOMAIN s = 1 .. n /\ Last(s) = s[n]
      /\ less \in Seq(Guard) /\ Len(less) = n - 1
      /\ \A i \in 1 .. n - 1 : less[i] = s[i]
  BY Ends, Fronts
<1>2. DOMAIN less = 1 .. n - 1
  BY <1>1
<1> HIDE DEF n, less
<1>3. /\ n \in DOMAIN s /\ DOMAIN less \subseteq DOMAIN s /\ n \notin DOMAIN less
      /\ \A i \in DOMAIN s : i \in DOMAIN less \/ i = n
  BY <1>1, <1>2
<1>4. \A i \in DOMAIN less : less[i] = s[i] /\ s[i].of # s[n].of
  BY <1>1, <1>2, <1>3 DEF Distinct
<1>5. Distinct(less)
  BY <1>3, <1>4 DEF Distinct
<1>6. s[n].steps \in UnderIn(s, s[n].of) /\ UnderIn(less, s[n].of) = {}
  BY <1>3, <1>4 DEF UnderIn
<1>7. ASSUME NEW w, w # s[n].of PROVE UnderIn(less, w) = UnderIn(s, w)
  BY <1>3, <1>4, <1>7 DEF UnderIn
<1> QED
  BY <1>1, <1>5, <1>6, <1>7 DEF less

\* What a step of Unwind does: the last guard is gone, or less is under it.
LEMMA Unwinds ==
    ASSUME TypeInv, StackInv, Unwind
    PROVE  LET guard == Last(stack)
               s     == Last(guard.steps)
               less  == Front(guard.steps)
           IN  /\ UNCHANGED <<phase, todo, executed, seen, main, locked, orphans>>
               /\ main = "unwind"
               /\ guard \in Guard /\ guard.steps \in Under(guard.of)
               /\ Distinct(stack')
               /\ \A w : w # guard.of => Under(w)' = Under(w)
               /\ \/ /\ guard.steps = <<>> \/ guard.of \in stuck'
                     /\ fs' = fs /\ stuck \subseteq stuck' /\ UnderIn(stack', guard.of) = {}
                  \/ /\ guard.steps # <<>> /\ Undoable(fs, s) /\ stuck' = stuck
                     /\ fs' = Undone(fs, s) /\ UnderIn(stack', guard.of) = {less}
<1> DEFINE guard == Last(stack)
           s     == Last(guard.steps)
           less  == Front(guard.steps)
           other == [guard EXCEPT !.steps = Front(@)]
<1>1. stack \in Seq(Guard) /\ stack # <<>> /\ Distinct(stack)
  BY DEF TypeInv, StackInv, Unwind
<1>2. guard \in Guard /\ Front(stack) \in Seq(Guard)
  BY <1>1, Ends
<1>3. /\ Distinct(Front(stack)) /\ guard.steps \in Under(guard.of)
      /\ UnderIn(Front(stack), guard.of) = {}
      /\ \A w : w # guard.of => UnderIn(Front(stack), w) = Under(w)
  BY <1>1, Popped DEF Under
<1>4. ASSUME guard.steps # <<>>
      PROVE  /\ Distinct(Append(Front(stack), other))
             /\ UnderIn(Append(Front(stack), other), guard.of) = {less}
             /\ \A w : w # guard.of => UnderIn(Append(Front(stack), other), w) = Under(w)
  <2>1. less \in Seq(Steps)
    BY <1>2, <1>4, Ends DEF Guard
  <2>2. other \in Guard /\ other.of = guard.of /\ other.steps = less
    BY <1>2, <2>1 DEF Guard
  <2> HIDE DEF other, less, guard
  <2> QED  BY <1>2, <1>3, <2>2, Pushed
<1>5. /\ UNCHANGED <<phase, todo, executed, seen, main, locked, orphans>> /\ main = "unwind"
      /\ \/ /\ guard.steps = <<>> \/ guard.of \in stuck'
            /\ fs' = fs /\ stuck \subseteq stuck' /\ stack' = Front(stack)
         \/ /\ guard.steps # <<>> /\ Undoable(fs, s) /\ stuck' = stuck
            /\ fs' = Undone(fs, s) /\ stack' = Append(Front(stack), other)
  BY DEF Unwind, task
<1> HIDE DEF guard, less, s, other
<1>6. CASE /\ guard.steps = <<>> \/ guard.of \in stuck'
           /\ fs' = fs /\ stuck \subseteq stuck' /\ stack' = Front(stack)
  <2>1. \A w : Under(w)' = UnderIn(Front(stack), w)
    BY <1>6 DEF Under
  <2>2. Distinct(stack') /\ UnderIn(stack', guard.of) = {}
    BY <1>3, <1>6, <2>1
  <2>3. \A w : w # guard.of => Under(w)' = Under(w)
    BY <1>3, <2>1
  <2> QED
    BY <1>2, <1>3, <1>5, <1>6, <2>2, <2>3, Zenon DEF guard, less, s
<1>7. CASE /\ guard.steps # <<>> /\ Undoable(fs, s) /\ stuck' = stuck
           /\ fs' = Undone(fs, s) /\ stack' = Append(Front(stack), other)
  <2>1. \A w : Under(w)' = UnderIn(Append(Front(stack), other), w)
    BY <1>7 DEF Under
  <2>2. Distinct(stack') /\ UnderIn(stack', guard.of) = {less}
    BY <1>4, <1>7, <2>1
  <2>3. \A w : w # guard.of => Under(w)' = Under(w)
    BY <1>4, <1>7, <2>1
  <2> QED
    BY <1>2, <1>3, <1>5, <1>7, <2>2, <2>3, Zenon DEF guard, less, s
<1> QED
  BY <1>5, <1>6, <1>7, Zenon

LEMMA InitStack == Init => StackInv
<1> SUFFICES ASSUME Init PROVE StackInv
  OBVIOUS
<1>1. stack = <<[of |-> None, steps |-> Earlier]>>
  BY DEF Init
<1>2. DOMAIN stack = {1} /\ stack[1].of = None
  BY <1>1
<1>3. Distinct(stack)
  BY <1>2 DEF Distinct
<1>4. ASSUME NEW h \in Hooks PROVE Under(h) = {}
  BY <1>2, HookAssumption DEF Under, UnderIn
<1> QED
  BY <1>3, <1>4 DEF Init, StackInv

\* What joining a hook does to the stack.
LEMMA Joins ==
    ASSUME TypeInv, StackInv, NEW h \in Hooks, JoinOk(h)
    PROVE  /\ Distinct(stack') /\ Under(h) = {} /\ Under(h)' = {executed[h]}
           /\ \A w : w # h => Under(w)' = Under(w)
<1> DEFINE guard == [of |-> h, steps |-> executed[h]]
<1>1. guard \in Guard /\ stack \in Seq(Guard)
  BY DEF TypeInv, Guard
<1>2. Distinct(stack) /\ Under(h) = {}
  BY DEF StackInv, JoinOk
<1>3. guard.of = h /\ guard.steps = executed[h] /\ stack' = Append(stack, guard)
  BY DEF JoinOk
<1> HIDE DEF guard
<1> QED
  BY <1>1, <1>2, <1>3, Pushed DEF Under

LEMMA NextStack == ASSUME TypeInv, StackInv, [Next]_vars PROVE StackInv'
<1>1. ASSUME NEW h \in Hooks, Task(h) PROVE StackInv'
  <2>1. UNCHANGED <<stack, main, orphans>>
    BY <1>1 DEF Task, Start, LookFirst, Create, Execute, StepFails, UndoOwn, Finish, Panic
  <2>2. \A g \in Hooks : phase'[g] = "joined" <=> phase[g] = "joined"
    BY <1>1 DEF Task, Start, LookFirst, Create, Execute, StepFails, UndoOwn, Finish, Panic, TypeInv
  <2> QED  BY <2>1, <2>2 DEF StackInv, Under
<1>2. ASSUME NEW h \in Hooks, JoinOk(h) PROVE StackInv'
  <2>1. /\ Distinct(stack') /\ \A w : w # h => Under(w)' = Under(w)
        /\ phase' = [phase EXCEPT ![h] = "joined"] /\ phase \in [Hooks -> Phases]
        /\ main = "batch" /\ UNCHANGED <<main, orphans>>
    BY <1>2, Joins DEF JoinOk, TypeInv
  <2> QED  BY <2>1 DEF StackInv
<1>3. ASSUME NEW h \in Hooks, JoinErr(h) PROVE StackInv'
  <2>1. /\ UNCHANGED stack /\ main' = "unwind"
        /\ phase' = [phase EXCEPT ![h] = "joined"] /\ phase \in [Hooks -> Phases]
        /\ orphans' = {g \in Hooks : g = h /\ phase[h] = "panicked"}
                         \cup {g \in Hooks \ {h} : phase[g] # "joined"}
    BY <1>3 DEF JoinErr, TypeInv
  <2> QED  BY <2>1 DEF StackInv, Under
<1>4. CASE AllJoined \/ Return \/ LaterFails \/ UNCHANGED vars
  BY <1>4 DEF AllJoined, Return, LaterFails, vars, task, StackInv, Under
<1>5. CASE Fail
  <2>1. \A g \in Hooks : phase[g] = "joined" <=> phase'[g] = "joined"
    BY <1>5 DEF Fail
  <2> QED  BY <1>5, <2>1 DEF Fail, StackInv, Under
<1>6. CASE Unwind
  <2> DEFINE guard == Last(stack)
  <2>1. /\ UNCHANGED <<phase, main, orphans>> /\ main = "unwind"
        /\ Distinct(stack') /\ guard.steps \in Under(guard.of)
        /\ \A w : w # guard.of => Under(w)' = Under(w)
    BY <1>6, Unwinds
  <2> HIDE DEF guard
  <2>2. ASSUME NEW h \in Hooks, phase'[h] # "joined" PROVE Under(h)' = {}
    <3>1. Under(h) = {}
      BY <2>1, <2>2 DEF StackInv
    <3> QED  BY <2>1, <3>1
  <2> QED  BY <2>1, <2>2 DEF StackInv
<1> QED
  BY <1>1, <1>2, <1>3, <1>4, <1>5, <1>6 DEF Next, Main
----------------------------------------------------------------------------
(***************************************************************************)
(* Owners: a hook, or the stage before, that has some files to itself.     *)
(* What its steps have made of them is on record, in its task until it is  *)
(* joined and under its guard from then on; nothing else moves them.       *)
(***************************************************************************)
Scope(w, P, g) == IF g = w THEN Inside(P) ELSE Outside(P)
Mine(w, P, g)  == IF g = w THEN Either(P) ELSE Outside(P)

Owns(w, P) ==
    /\ w \in Hooks \cup {None} /\ P \in SUBSET Paths
    /\ \A g \in Hooks : Program[g] \in Seq(Scope(w, P, g))
    /\ Earlier \in Seq(Mine(w, P, None))
    /\ w \in Hooks => P \cap PathsOf(Earlier) = {}

ScopeInv(w, P) ==
    /\ todo \in [Hooks -> Seq(Steps)]
    /\ \A g \in Hooks : todo[g] \in Seq(Scope(w, P, g)) /\ executed[g] \in Seq(Scope(w, P, g))
    /\ \A g \in Hooks \cup {None} : \A st \in Under(g) : st \in Seq(Mine(w, P, g))

\* What is under the guard of w leads back, and what is not has led back.
Leads(w, P) ==
    /\ \A st \in Under(w) : Owed(P, st, fs)
    /\ Under(w) = {} => Owed(P, <<>>, fs)

\* Where the record of a hook that has not failed is.
Joined(w) == w \in Hooks => phase[w] = "joined" /\ w \notin orphans

Record(w, P) ==
    /\ w \in Hooks /\ phase[w] \in {"queued", "running"} /\ seen[w] => fs[Step(w).path] = None
    /\ w \in Hooks \ stuck =>
          /\ phase[w] \in {"queued", "running", "ok"} => Result(P, executed[w], fs)
          /\ phase[w] = "undoing" => Owed(P, executed[w], fs)
          /\ phase[w] = "err" => Owed(P, <<>>, fs)
    /\ w \notin stuck /\ Joined(w) => Leads(w, P)

OwnerInv(w, P) == Begins /\ StackInv /\ ScopeInv(w, P) /\ Record(w, P)

\* The owner's task and guard rest, and so do the files.
LEMMA Rests ==
    ASSUME NEW w \in Hooks \cup {None}, NEW P, Record(w, P), \A p \in P : fs'[p] = fs[p],
           w \in Hooks => /\ phase'[w] = phase[w] /\ executed'[w] = executed[w]
                          /\ todo'[w] = todo[w] /\ seen'[w] = seen[w]
                          /\ (w \in orphans => w \in orphans')
                          /\ (phase[w] \in {"queued", "running"} /\ seen[w] => Step(w).path \in P),
           w \in stuck => w \in stuck',
           Under(w)' = Under(w)
    PROVE  Record(w, P)'
<1>1. \A st : /\ Result(P, st, fs) => Result(P, st, fs')
              /\ Owed(P, st, fs) => Owed(P, st, fs')
  BY SameOwed
<1>2. w \in Hooks => Step(w)' = Step(w)
  BY DEF Step
<1>3. Leads(w, P) => Leads(w, P)'
  BY <1>1 DEF Leads
<1>4. Joined(w)' => Joined(w)
  BY DEF Joined
<1> QED
  BY <1>1, <1>2, <1>3, <1>4 DEF Record

\* The steps of a task are its owner's business only.
LEMMA ScopeOfStep ==
    ASSUME NEW w, NEW P, ScopeInv(w, P), NEW g \in Hooks
    PROVE  /\ todo[g] # <<>> => Step(g) \in Scope(w, P, g) /\ Tail(todo[g]) \in Seq(Scope(w, P, g))
           /\ executed[g] # <<>> =>
                 /\ Last(executed[g]) \in Scope(w, P, g)
                 /\ Front(executed[g]) \in Seq(Scope(w, P, g))
  BY Ends DEF ScopeInv, Step

LEMMA ScopeMade ==
    ASSUME NEW w, NEW P, NEW g, NEW s \in Scope(w, P, g)
    PROVE  [s EXCEPT !.created = TRUE] \in Scope(w, P, g)
  BY DEF Scope, Inside, Outside, Steps

LEMMA ScopeIsMine ==
    ASSUME NEW w, NEW P, NEW g, NEW steps \in Seq(Scope(w, P, g))
    PROVE  steps \in Seq(Mine(w, P, g))
<1>1. Scope(w, P, g) \subseteq Mine(w, P, g)
  BY DEF Scope, Mine, Either
<1> HIDE DEF Scope, Mine
<1>2. \A i \in DOMAIN steps : steps[i] \in Mine(w, P, g)
  BY <1>1, Elements
<1> QED
  BY <1>2, ByElements

LEMMA DidScope ==
    ASSUME NEW w, NEW P, ScopeInv(w, P), NEW h \in Hooks, todo[h] # <<>>, Begins,
           NEW s \in Scope(w, P, h), Did(h, s), UNCHANGED stack
    PROVE  /\ ScopeInv(w, P)'
           /\ todo'[h] = Tail(todo[h]) /\ executed'[h] = Append(executed[h], s) /\ ~seen'[h]
           /\ \A g \in Hooks \ {h} :
                 todo'[g] = todo[g] /\ executed'[g] = executed[g] /\ seen'[g] = seen[g]
<1>1. /\ todo \in [Hooks -> Seq(Steps)] /\ executed \in [Hooks -> Seq(Steps)]
      /\ seen \in [Hooks -> BOOLEAN]
  BY DEF ScopeInv, Begins, TypeInv
<1>2. /\ todo' = [todo EXCEPT ![h] = Tail(todo[h])]
      /\ executed' = [executed EXCEPT ![h] = Append(executed[h], s)]
      /\ seen' = [seen EXCEPT ![h] = FALSE]
  BY DEF Did
<1>3. /\ todo'[h] = Tail(todo[h]) /\ executed'[h] = Append(executed[h], s) /\ ~seen'[h]
      /\ \A g \in Hooks \ {h} :
            todo'[g] = todo[g] /\ executed'[g] = executed[g] /\ seen'[g] = seen[g]
  BY <1>1, <1>2
<1>4. /\ Tail(todo[h]) \in Seq(Scope(w, P, h)) /\ Tail(todo[h]) \in Seq(Steps)
      /\ Append(executed[h], s) \in Seq(Scope(w, P, h))
  <2>1. Tail(todo[h]) \in Seq(Steps)
    BY <1>1, Ends
  <2>2. executed[h] \in Seq(Scope(w, P, h))
    BY DEF ScopeInv
  <2> HIDE DEF Scope
  <2> QED  BY <2>1, <2>2, ScopeOfStep, AppendProperties
<1>5. todo' \in [Hooks -> Seq(Steps)]
  BY <1>1, <1>2, <1>4
<1>6. \A g \in Hooks : todo'[g] \in Seq(Scope(w, P, g)) /\ executed'[g] \in Seq(Scope(w, P, g))
  BY <1>3, <1>4 DEF ScopeInv
<1> QED
  BY <1>3, <1>5, <1>6 DEF ScopeInv, Under

LEMMA NextScope ==
    ASSUME NEW w, NEW P, Begins, StackInv, ScopeInv(w, P), [Next]_vars
    PROVE  ScopeInv(w, P)'
<1>1. ASSUME NEW h \in Hooks, Task(h) PROVE ScopeInv(w, P)'
  <2>1. CASE Start(h) \/ StepFails(h) \/ Finish(h) \/ Panic(h)
    BY <2>1 DEF Start, StepFails, Finish, Panic, ScopeInv, Under
  <2>2. CASE LookFirst(h)
    <3>1. CASE fs[Step(h).path] # None
      <4>1. todo[h] # <<>> /\ Did(h, Step(h)) /\ UNCHANGED stack
        BY <2>2, <3>1 DEF LookFirst
      <4> QED  BY <4>1, ScopeOfStep, DidScope
    <3>2. CASE fs[Step(h).path] = None
      BY <2>2, <3>2 DEF LookFirst, ScopeInv, Under
    <3> QED  BY <3>1, <3>2
  <2>3. CASE Create(h)
    <3>1. Did(h, [Step(h) EXCEPT !.created = TRUE]) /\ UNCHANGED stack /\ seen[h]
      BY <2>3 DEF Create
    <3>2. todo[h] # <<>>
      BY <3>1 DEF Begins, SplitInv
    <3>3. [Step(h) EXCEPT !.created = TRUE] \in Scope(w, P, h)
      BY <3>2, ScopeOfStep, ScopeMade
    <3> QED  BY <3>1, <3>2, <3>3, DidScope
  <2>4. CASE Execute(h)
    <3>1. todo[h] # <<>> /\ Did(h, Step(h)) /\ UNCHANGED stack
      BY <2>4 DEF Execute
    <3> QED  BY <3>1, ScopeOfStep, DidScope
  <2>5. CASE UndoOwn(h)
    <3>1. UNCHANGED <<todo, stack>>
      BY <2>5 DEF UndoOwn
    <3>2. executed' \in {executed, [executed EXCEPT ![h] = <<>>]}
            \/ (executed[h] # <<>> /\ executed' = [executed EXCEPT ![h] = Front(executed[h])])
      BY <2>5 DEF UndoOwn
    <3>3. executed \in [Hooks -> Seq(Steps)]
      BY DEF Begins, TypeInv
    <3>4. ASSUME NEW g \in Hooks PROVE executed'[g] \in Seq(Scope(w, P, g))
      <4>1. CASE executed'[g] = executed[g]
        BY <4>1 DEF ScopeInv
      <4>2. CASE executed'[g] = <<>>
        BY <4>2
      <4>3. CASE g = h /\ executed[h] # <<>> /\ executed'[h] = Front(executed[h])
        BY <4>3, ScopeOfStep
      <4> QED  BY <3>2, <3>3, <4>1, <4>2, <4>3
    <3> QED  BY <3>1, <3>4 DEF ScopeInv, Under
  <2> QED  BY <1>1, <2>1, <2>2, <2>3, <2>4, <2>5 DEF Task
<1>2. ASSUME NEW h \in Hooks, JoinOk(h) PROVE ScopeInv(w, P)'
  <2>1. /\ UNCHANGED <<todo, executed>> /\ Under(h)' = {executed[h]}
        /\ \A g : g # h => Under(g)' = Under(g)
    BY <1>2, Joins DEF JoinOk, Begins
  <2>2. executed[h] \in Seq(Mine(w, P, h))
    BY ScopeIsMine DEF ScopeInv
  <2> QED  BY <2>1, <2>2 DEF ScopeInv
<1>3. ASSUME NEW h \in Hooks, JoinErr(h) PROVE ScopeInv(w, P)'
  BY <1>3 DEF JoinErr, ScopeInv, Under
<1>4. CASE AllJoined \/ Fail \/ Return \/ LaterFails \/ UNCHANGED vars
  BY <1>4 DEF AllJoined, Fail, Return, LaterFails, vars, task, ScopeInv, Under
<1>5. CASE Unwind
  <2> DEFINE guard == Last(stack)
  <2>1. /\ UNCHANGED <<todo, executed>> /\ guard.steps \in Under(guard.of) /\ guard \in Guard
        /\ \A g : g # guard.of => Under(g)' = Under(g)
        /\ \/ UnderIn(stack', guard.of) = {}
           \/ guard.steps # <<>> /\ UnderIn(stack', guard.of) = {Front(guard.steps)}
    BY <1>5, Unwinds DEF Begins
  <2> HIDE DEF guard
  <2>2. guard.of \in Hooks \cup {None} /\ guard.steps \in Seq(Mine(w, P, guard.of))
    BY <2>1 DEF Guard, ScopeInv
  <2>3. guard.steps # <<>> => Front(guard.steps) \in Seq(Mine(w, P, guard.of))
    BY <2>2, Ends
  <2>4. ASSUME NEW g \in Hooks \cup {None}, NEW st \in UnderIn(stack', g)
        PROVE  st \in Seq(Mine(w, P, g))
    <3>1. CASE g = guard.of
      BY <2>1, <2>3, <2>4, <3>1
    <3>2. CASE g # guard.of
      BY <2>1, <2>4, <3>2 DEF ScopeInv, Under
    <3> QED  BY <3>1, <3>2
  <2> QED  BY <2>1, <2>4 DEF ScopeInv, Under
<1> QED
  BY <1>1, <1>2, <1>3, <1>4, <1>5 DEF Next, Main

\* A task's own step keeps the record of its files.
LEMMA OwnRecord ==
    ASSUME NEW w \in Hooks, NEW P \in SUBSET Paths, OwnerInv(w, P), Task(w)
    PROVE  Record(w, P)'
<1> USE DEF OwnerInv
<1>0. /\ fs \in [Paths -> Contents] /\ phase \in [Hooks -> Phases]
      /\ executed \in [Hooks -> Seq(Steps)] /\ seen \in [Hooks -> BOOLEAN]
      /\ executed[w] \in Seq(Steps)
  BY DEF Begins, TypeInv
<1>1. todo[w] # <<>> => Step(w) \in Inside(P)
  BY ScopeOfStep DEF Scope
<1>2. phase[w] # "joined" => Under(w) = {}
  BY DEF StackInv
<1>3. CASE Start(w)
  BY <1>0, <1>3 DEF Start, Record, Joined, Step
<1>4. CASE StepFails(w)
  <2>1. /\ phase[w] = "running" /\ phase'[w] \in {"undoing", "ok"}
        /\ UNCHANGED <<fs, executed, stuck>>
    BY <1>0, <1>4 DEF StepFails
  <2>2. w \notin stuck => Result(P, executed[w], fs) /\ Owed(P, executed[w], fs)
    BY <2>1, ResultOwed DEF Record
  <2> QED  BY <2>1, <2>2 DEF Record, Joined
<1>5. CASE Finish(w) \/ Panic(w)
  BY <1>0, <1>5 DEF Finish, Panic, Record, Joined
<1>6. CASE LookFirst(w) /\ fs[Step(w).path] = None
  <2>1. /\ phase[w] = "running" /\ UNCHANGED <<fs, phase, todo, executed, stuck>>
    BY <1>6 DEF LookFirst
  <2>2. Step(w)' = Step(w)
    BY <2>1 DEF Step
  <2> QED  BY <1>6, <2>1, <2>2 DEF Record, Joined
<1>7. ASSUME NEW s \in Inside(P), Did(w, s), todo[w] # <<>>, phase[w] = "running",
             Makes(fs, s, fs'), UNCHANGED <<phase, stack, stuck>>, fs' \in [Paths -> Contents]
      PROVE  Record(w, P)'
  <2>1. s \in Scope(w, P, w)
    BY <1>7 DEF Scope
  <2>2. executed'[w] = Append(executed[w], s) /\ ~seen'[w]
    BY <1>7, <2>1, DidScope
  <2>3. w \notin stuck => Result(P, executed'[w], fs')
    <3> SUFFICES ASSUME w \notin stuck PROVE Result(P, Append(executed[w], s), fs')
      BY <2>2
    <3>1. Result(P, executed[w], fs)
      BY <1>7 DEF Record
    <3> HIDE DEF OwnerInv
    <3> QED  BY <1>0, <1>7, <3>1, ResultPush
  <2> QED  BY <1>7, <2>2, <2>3 DEF Record, Joined
<1>8. CASE LookFirst(w) /\ fs[Step(w).path] # None
  <2>1. /\ phase[w] = "running" /\ todo[w] # <<>> /\ Did(w, Step(w)) /\ Step(w).kind = "touch"
        /\ UNCHANGED <<fs, phase, stack, stuck>>
    BY <1>8 DEF LookFirst
  <2>2. Step(w).created = FALSE
    BY <2>1, AtStep DEF Steps
  <2>3. Makes(fs, Step(w), fs')
    BY <1>8, <2>1, <2>2 DEF Makes, Can
  <2> QED  BY <1>0, <1>1, <1>7, <2>1, <2>3
<1>9. CASE Create(w)
  <2> DEFINE s == [Step(w) EXCEPT !.created = TRUE]
  <2>1. /\ phase[w] = "running" /\ seen[w] /\ Did(w, s) /\ fs' = After(fs, Step(w))
        /\ UNCHANGED <<phase, stack, stuck>>
    BY <1>9 DEF Create
  <2>2. todo[w] # <<>> /\ Step(w).kind = "touch"
    BY <2>1 DEF Begins, SplitInv
  <2>3. fs[Step(w).path] = None
    BY <2>1 DEF Record
  <2>4. Step(w) \in Steps /\ Step(w) \in Inside(P)
    BY <1>1, <2>2 DEF Inside
  <2>5. s \in Inside(P) /\ s.kind = "touch" /\ s.created /\ s.path = Step(w).path
    BY <2>2, <2>4 DEF Inside, Steps
  <2>6. fs' = After(fs, s)
    BY <2>1, <2>2, <2>5 DEF After
  <2>7. fs' \in [Paths -> Contents]
    BY <1>0, <2>1, <2>4, StepTypes
  <2> HIDE DEF s
  <2>8. Makes(fs, s, fs')
    BY <2>3, <2>5, <2>6 DEF Makes, Can
  <2> QED  BY <1>7, <2>1, <2>2, <2>5, <2>7, <2>8
<1>10. CASE Execute(w)
  <2>1. /\ phase[w] = "running" /\ todo[w] # <<>> /\ Did(w, Step(w)) /\ Step(w).kind # "touch"
        /\ Can(fs, Step(w)) /\ fs' = After(fs, Step(w))
        /\ UNCHANGED <<phase, stack, stuck>>
    BY <1>10 DEF Execute
  <2>2. Step(w) \in Steps
    BY <1>1, <2>1 DEF Inside
  <2>3. Makes(fs, Step(w), fs') /\ fs' \in [Paths -> Contents]
    BY <1>0, <2>1, <2>2, StepTypes DEF Makes
  <2> QED  BY <1>1, <1>7, <2>1, <2>3
<1>11. CASE UndoOwn(w) /\ executed[w] = <<>>
  BY <1>0, <1>11 DEF UndoOwn, Record, Joined
<1>12. CASE UndoOwn(w) /\ executed[w] # <<>>
  <2> DEFINE s == Last(executed[w])
  <2>1. /\ phase[w] = "undoing" /\ phase' = phase
        /\ \/ /\ Undoable(fs, s) /\ fs' = Undone(fs, s) /\ stuck' = stuck
              /\ executed' = [executed EXCEPT ![w] = Front(executed[w])]
           \/ w \in stuck'
    BY <1>12 DEF UndoOwn
  <2>2. executed[w] \in Seq(Either(P))
    BY ScopeIsMine DEF ScopeInv, Mine
  <2> HIDE DEF s
  <2>3. CASE w \in stuck'
    BY <2>1, <2>3 DEF Record
  <2>4. CASE /\ Undoable(fs, s) /\ fs' = Undone(fs, s) /\ stuck' = stuck
             /\ executed' = [executed EXCEPT ![w] = Front(executed[w])]
    <3>1. executed'[w] = Front(executed[w])
      BY <1>0, <2>4
    <3>2. w \notin stuck => Owed(P, executed'[w], fs')
      BY <1>0, <1>12, <2>1, <2>2, <2>4, <3>1, OwedPop DEF Record, s
    <3> QED  BY <2>1, <2>4, <3>2 DEF Record, Joined
  <2> QED  BY <2>1, <2>3, <2>4
<1> QED
  BY <1>3, <1>4, <1>5, <1>6, <1>8, <1>9, <1>10, <1>11, <1>12 DEF Task, LookFirst

\* Where the owner's next step is, should it be about to create a file.
LEMMA SeenInside ==
    ASSUME NEW w \in Hooks, NEW P, OwnerInv(w, P), seen[w]
    PROVE  Step(w).path \in P
<1>1. todo[w] # <<>>
  BY DEF OwnerInv, Begins, SplitInv
<1> QED
  BY <1>1, ScopeOfStep DEF OwnerInv, Scope, Inside

\* A step of another task leaves the owner's files and record alone.
LEMMA OtherRecord ==
    ASSUME NEW w \in Hooks \cup {None}, NEW P \in SUBSET Paths, OwnerInv(w, P),
           NEW h \in Hooks, h # w, Task(h)
    PROVE  Record(w, P)'
<1>0. /\ fs \in [Paths -> Contents] /\ phase \in [Hooks -> Phases]
      /\ todo \in [Hooks -> Seq(Steps)] /\ executed \in [Hooks -> Seq(Steps)]
      /\ seen \in [Hooks -> BOOLEAN]
  BY DEF OwnerInv, Begins, TypeInv, ScopeInv
<1>1. /\ UNCHANGED <<stack, orphans>> /\ stuck' \in {stuck, stuck \cup {h}}
      /\ \A g \in Hooks \ {h} : /\ phase'[g] = phase[g] /\ executed'[g] = executed[g]
                                /\ todo'[g] = todo[g] /\ seen'[g] = seen[g]
  BY <1>0 DEF Task, Start, LookFirst, Create, Execute, StepFails, UndoOwn, Finish, Panic, Did
<1>2. \A p \in P : fs'[p] = fs[p]
  <2>1. CASE Create(h) \/ Execute(h)
    <3>1. todo[h] # <<>> /\ fs' = After(fs, Step(h))
      BY <2>1 DEF Create, Execute, OwnerInv, Begins, SplitInv
    <3>2. Step(h) \in Outside(P)
      BY <3>1, ScopeOfStep DEF OwnerInv, Scope
    <3> QED  BY <1>0, <3>1, <3>2, OutsideKeeps
  <2>2. CASE UndoOwn(h)
    <3>1. fs' = fs \/ (executed[h] # <<>> /\ fs' = Undone(fs, Last(executed[h])))
      BY <2>2 DEF UndoOwn
    <3>2. executed[h] # <<>> => Last(executed[h]) \in Outside(P)
      BY ScopeOfStep DEF OwnerInv, Scope
    <3> QED  BY <1>0, <3>1, <3>2, OutsideKeeps
  <2>3. CASE Start(h) \/ LookFirst(h) \/ StepFails(h) \/ Finish(h) \/ Panic(h)
    BY <2>3 DEF Start, LookFirst, StepFails, Finish, Panic
  <2> QED  BY <2>1, <2>2, <2>3 DEF Task
<1>3. w \in Hooks => /\ phase'[w] = phase[w] /\ executed'[w] = executed[w]
                     /\ todo'[w] = todo[w] /\ seen'[w] = seen[w]
                     /\ (seen[w] => Step(w).path \in P)
  BY <1>1, SeenInside
<1>4. Record(w, P) /\ Under(w)' = Under(w)
  BY <1>1 DEF OwnerInv, Under
<1> QED
  BY <1>1, <1>2, <1>3, <1>4, Rests

\* So do most steps of the command's thread.
LEMMA MainRecord ==
    ASSUME NEW w \in Hooks \cup {None}, NEW P \in SUBSET Paths, OwnerInv(w, P),
           AllJoined \/ Return \/ LaterFails \/ UNCHANGED vars
    PROVE  Record(w, P)'
<1>1. UNCHANGED <<fs, phase, executed, todo, seen, stack, orphans, stuck>>
  BY DEF AllJoined, Return, LaterFails, vars, task
<1>2. Record(w, P) /\ Under(w)' = Under(w)
  BY <1>1 DEF OwnerInv, Under
<1> QED
  BY <1>1, <1>2, SeenInside, Rests

LEMMA FailRecord ==
    ASSUME NEW w \in Hooks \cup {None}, NEW P \in SUBSET Paths, OwnerInv(w, P), Fail
    PROVE  Record(w, P)'
<1>1. UNCHANGED <<fs, executed, todo, seen, stack, orphans, stuck>>
  BY DEF Fail
<1>2. \A h \in Hooks : phase'[h] = IF phase[h] = "queued" THEN "aborted" ELSE phase[h]
  BY DEF Fail
<1>3. Record(w, P) /\ Under(w)' = Under(w)
  BY <1>1 DEF OwnerInv, Under
<1>4. CASE w \in Hooks /\ phase[w] = "queued"
  BY <1>1, <1>2, <1>3, <1>4 DEF Record, Joined
<1>5. CASE w \in Hooks => phase[w] # "queued"
  BY <1>1, <1>2, <1>3, <1>5, SeenInside, Rests
<1> QED
  BY <1>4, <1>5

\* A hook that is joined with success leaves its record under its guard.
LEMMA JoinRecord ==
    ASSUME NEW w \in Hooks \cup {None}, NEW P \in SUBSET Paths, OwnerInv(w, P),
           NEW h \in Hooks, JoinOk(h) \/ JoinErr(h)
    PROVE  Record(w, P)'
<1>0. phase \in [Hooks -> Phases] /\ main = "batch" /\ orphans = {} /\ Record(w, P)
  BY DEF OwnerInv, Begins, TypeInv, StackInv, JoinOk, JoinErr
<1>1. /\ UNCHANGED <<fs, executed, todo, seen, stuck>>
      /\ phase' = [phase EXCEPT ![h] = "joined"]
  BY DEF JoinOk, JoinErr
<1>2. CASE JoinOk(h) /\ h # w
  <2>1. Under(w)' = Under(w)
    BY <1>2, Joins DEF OwnerInv, Begins
  <2> QED  BY <1>0, <1>1, <1>2, <2>1, SeenInside, Rests
<1>3. CASE JoinOk(h) /\ h = w
  <2>1. Under(w)' = {executed[w]} /\ phase[w] = "ok"
    BY <1>3, Joins DEF OwnerInv, Begins, JoinOk
  <2>2. w \notin stuck => Owed(P, executed[w], fs)
    BY <1>0, <1>3, <2>1, ResultOwed DEF Record
  <2>3. w \notin stuck => Leads(w, P)'
    BY <1>1, <2>1, <2>2 DEF Leads
  <2> QED  BY <1>0, <1>1, <1>3, <2>3 DEF Record
<1>4. CASE JoinErr(h) /\ h # w
  <2>1. Under(w)' = Under(w)
    BY <1>4 DEF JoinErr, Under
  <2> QED  BY <1>0, <1>1, <1>4, <2>1, SeenInside, Rests
<1>5. CASE JoinErr(h) /\ h = w
  <2>1. Under(w)' = Under(w) /\ Under(w) = {}
    BY <1>5 DEF JoinErr, Under, OwnerInv, StackInv
  <2>2. phase[w] = "err" \/ w \in orphans'
    BY <1>5 DEF JoinErr
  <2>3. w \notin stuck /\ phase[w] = "err" => Leads(w, P)'
    BY <1>0, <1>1, <1>5, <2>1 DEF Record, Leads
  <2> QED  BY <1>0, <1>1, <1>5, <2>2, <2>3 DEF Record, Joined
<1> QED
  BY <1>2, <1>3, <1>4, <1>5

\* A guard that is run takes back what is on record under it.
LEMMA UnwindRecord ==
    ASSUME NEW w \in Hooks \cup {None}, NEW P \in SUBSET Paths, OwnerInv(w, P), Unwind
    PROVE  Record(w, P)'
<1> DEFINE guard == Last(stack)
           s     == Last(guard.steps)
           less  == Front(guard.steps)
<1>0. /\ fs \in [Paths -> Contents] /\ Record(w, P) /\ StackInv
      /\ (w \in Hooks /\ seen[w] => Step(w).path \in P)
  BY SeenInside DEF OwnerInv, Begins, TypeInv
<1>1. /\ UNCHANGED <<phase, todo, executed, seen, main, locked, orphans>>
      /\ guard \in Guard /\ guard.steps \in Under(guard.of)
      /\ \A g : g # guard.of => Under(g)' = Under(g)
      /\ \/ /\ guard.steps = <<>> \/ guard.of \in stuck'
            /\ fs' = fs /\ stuck \subseteq stuck' /\ UnderIn(stack', guard.of) = {}
         \/ /\ guard.steps # <<>> /\ Undoable(fs, s) /\ stuck' = stuck
            /\ fs' = Undone(fs, s) /\ UnderIn(stack', guard.of) = {less}
  BY Unwinds DEF OwnerInv, Begins
<1> HIDE DEF guard
<1>2. guard.steps \in Seq(Mine(w, P, guard.of))
  BY <1>1 DEF OwnerInv, ScopeInv, Guard
<1>3. CASE guard.of # w
  <2>1. \A p \in P : fs'[p] = fs[p]
    <3>1. CASE fs' = fs
      BY <3>1
    <3>2. CASE guard.steps # <<>> /\ fs' = Undone(fs, s)
      <4>1. guard.steps \in Seq(Outside(P))
        BY <1>2, <1>3 DEF Mine
      <4>2. s \in Outside(P)
        BY <3>2, <4>1, Ends
      <4> QED  BY <1>0, <3>2, <4>2, OutsideKeeps
    <3> QED  BY <1>1, <3>1, <3>2
  <2>2. Under(w)' = Under(w) /\ (w \in stuck => w \in stuck')
    BY <1>1, <1>3
  <2> QED  BY <1>0, <1>1, <2>1, <2>2, Rests
<1>4. CASE guard.of = w
  <2>1. w \in Hooks => phase[w] = "joined"
    BY <1>0, <1>1, <1>4 DEF StackInv
  <2>2. w \notin stuck /\ Joined(w) => Owed(P, guard.steps, fs)
    BY <1>0, <1>1, <1>4 DEF Record, Leads
  <2>3. Joined(w)' <=> Joined(w)
    BY <1>1 DEF Joined
  <2>4. CASE w \in stuck'
    BY <1>1, <2>1, <2>4 DEF Record
  <2>5. CASE /\ guard.steps = <<>> /\ fs' = fs /\ stuck \subseteq stuck'
             /\ UnderIn(stack', guard.of) = {}
    <3>1. w \notin stuck' /\ Joined(w)' => Leads(w, P)'
      BY <1>4, <2>2, <2>3, <2>5 DEF Leads, Under
    <3> QED  BY <1>1, <2>1, <3>1 DEF Record
  <2>6. CASE /\ guard.steps # <<>> /\ Undoable(fs, s) /\ stuck' = stuck
             /\ fs' = Undone(fs, s) /\ UnderIn(stack', guard.of) = {less}
    <3>1. guard.steps \in Seq(Either(P))
      BY <1>2, <1>4 DEF Mine
    <3>2. w \notin stuck /\ Joined(w) => Owed(P, less, fs')
      <4> SUFFICES ASSUME w \notin stuck, Joined(w) PROVE Owed(P, less, Undone(fs, s))
        BY <2>6
      <4>1. Owed(P, guard.steps, fs)
        BY <2>2
      <4> QED  BY <1>0, <2>6, <3>1, <4>1, OwedPop
    <3>3. w \notin stuck' /\ Joined(w)' => Leads(w, P)'
      BY <1>4, <2>3, <2>6, <3>2 DEF Leads, Under
    <3> QED  BY <1>1, <2>1, <3>3 DEF Record
  <2> QED  BY <1>1, <1>4, <2>4, <2>5, <2>6
<1> QED
  BY <1>3, <1>4

LEMMA NextOwner ==
    ASSUME NEW w \in Hooks \cup {None}, NEW P \in SUBSET Paths, OwnerInv(w, P), [Next]_vars
    PROVE  OwnerInv(w, P)'
<1>1. Begins' /\ StackInv' /\ ScopeInv(w, P)'
  BY NextBegins, NextStack, NextScope DEF OwnerInv, Begins
<1>2. Record(w, P)'
  BY OwnRecord, OtherRecord, MainRecord, FailRecord, JoinRecord, UnwindRecord DEF Next, Main
<1> QED
  BY <1>1, <1>2 DEF OwnerInv

\* What the earlier stage has done to its owner's files.
LEMMA InitResult ==
    ASSUME NEW P \in SUBSET Paths, Earlier \in Seq(Either(P))
    PROVE  Result(P, Earlier, Begun)
<1> DEFINE n == Len(Earlier)
           T == [i \in 0 .. n |-> On(P, Ran[i])]
<1>1. n \in Nat /\ \A i \in 0 .. n : Ran[i] \in [Paths -> Contents]
  BY EarlierAssumption
<1>2. T \in [0 .. n -> [P -> Contents]]
  BY <1>1 DEF On
<1>3. T[0] = On(P, Initially) /\ T[n] = On(P, Begun)
  BY <1>1, EarlierAssumption DEF Begun
<1>4. ASSUME NEW i \in 1 .. n
      PROVE  IF Earlier[i] \in Inside(P) THEN Makes(T[i - 1], Earlier[i], T[i]) ELSE T[i] = T[i - 1]
  <2>1. /\ i - 1 \in 0 .. n /\ i \in 0 .. n /\ i \in DOMAIN Earlier
        /\ Makes(Ran[i - 1], Earlier[i], Ran[i])
    BY <1>1, EarlierAssumption
  <2>2. Earlier[i] \in Either(P)
    BY <2>1, Elements
  <2>3. T[i - 1] = On(P, Ran[i - 1]) /\ T[i] = On(P, Ran[i])
    BY <2>1
  <2> DEFINE f == Ran[i - 1]
             g == Ran[i]
             s == Earlier[i]
  <2>4. f \in [Paths -> Contents] /\ g \in [Paths -> Contents]
    BY <1>1, <2>1
  <2> HIDE DEF T, f, g, s
  <2>5. Makes(f, s, g)
    BY <2>1 DEF f, g, s
  <2>6. CASE s \in Inside(P)
    <3>1. Makes(On(P, f), s, On(P, g))
      BY <2>4, <2>5, <2>6 DEF Makes, Can, After, On, Inside, Steps
    <3> QED  BY <2>3, <2>6, <3>1 DEF f, g, s
  <2>7. CASE s \notin Inside(P)
    <3>1. s \in Outside(P)
      BY <2>2, <2>7 DEF Either, s
    <3>2. \A p \in P : g[p] = f[p]
      BY <2>4, <2>5, <3>1, OutsideKeeps DEF Makes
    <3>3. On(P, g) = On(P, f)
      BY <3>2 DEF On
    <3> QED  BY <2>3, <2>7, <3>3 DEF f, g, s
  <2> QED  BY <2>6, <2>7
<1> HIDE DEF T
<1>5. T \in Courses(P, Earlier)
  BY <1>2, <1>3, <1>4 DEF Courses, Course
<1> QED
  BY <1>3, <1>5 DEF Result

LEMMA InitOwner == ASSUME NEW w, NEW P, Owns(w, P), Init PROVE OwnerInv(w, P)
<1>1. Begins /\ StackInv
  BY InitBegins, InitStack
<1>2. stack = <<[of |-> None, steps |-> Earlier]>> /\ None \notin Hooks
  BY HookAssumption DEF Init
<1>3. Under(None) = {Earlier} /\ \A g \in Hooks : Under(g) = {}
  <2>1. DOMAIN stack = {1} /\ stack[1].of = None /\ stack[1].steps = Earlier
    BY <1>2
  <2> QED  BY <1>2, <2>1 DEF Under, UnderIn
<1>4. ScopeInv(w, P)
  <2>1. Program \in [Hooks -> Seq(Steps)]
    <3>1. Program \in [Hooks -> Seq({s \in Steps : ~s.created})]
      BY HookAssumption
    <3>2. ASSUME NEW h \in Hooks PROVE Program[h] \in Seq(Steps)
      <4>1. Program[h] \in Seq({s \in Steps : ~s.created})
        BY <3>1
      <4> QED  BY <4>1
    <3> QED  BY <3>1, <3>2
  <2>2. \A g \in Hooks : Program[g] \in Seq(Scope(w, P, g)) /\ <<>> \in Seq(Scope(w, P, g))
    BY DEF Owns
  <2>3. Earlier \in Seq(Mine(w, P, None))
    BY DEF Owns
  <2> QED  BY <1>3, <2>1, <2>2, <2>3 DEF Init, ScopeInv
<1>5. CASE w \in Hooks
  <2>1. \A p \in P : Begun[p] = Initially[p]
    BY <1>5, EarlierFrame DEF Owns
  <2>2. Result(P, <<>>, Begun)
    BY <2>1, NothingOwed DEF Owns
  <2>3. Record(w, P)
    BY <1>5, <2>2 DEF Init, Record, Joined
  <2> QED  BY <1>1, <1>4, <2>3 DEF OwnerInv
<1>6. CASE w = None
  <2>1. Owed(P, Earlier, Begun)
    BY <1>6, InitResult, ResultOwed DEF Owns, Mine
  <2>2. Leads(None, P)
    BY <1>3, <2>1 DEF Leads, Init
  <2>3. Record(w, P)
    BY <1>2, <1>6, <2>2 DEF Record, Init
  <2> QED  BY <1>1, <1>4, <2>3 DEF OwnerInv
<1> QED
  BY <1>5, <1>6 DEF Owns

\* When the command has failed, the files of an owner are what they were.
LEMMA OwnerRestored ==
    ASSUME NEW w \in Hooks \cup {None}, NEW P \in SUBSET Paths, OwnerInv(w, P),
           main \in {"failed", "returned"}, w \notin orphans \cup stuck
    PROVE  \A p \in P : fs[p] = Initially[p]
<1>1. Under(w) = {}
  BY DEF OwnerInv, StackInv, Under, UnderIn
<1>2. Joined(w)
  BY DEF OwnerInv, StackInv, Joined
<1>3. Owed(P, <<>>, fs)
  BY <1>1, <1>2 DEF OwnerInv, Record, Leads
<1> QED
  BY <1>3, NothingOwed

\* A hook that works on its own paths owns them.
LEMMA ApartOwns == ASSUME NEW h \in Hooks, Apart(h) PROVE Owns(h, PathsOf(Program[h]))
<1> DEFINE P == PathsOf(Program[h])
<1>1. ASSUME NEW g \in Hooks, NEW i \in DOMAIN Program[g]
      PROVE  /\ Program[g][i] \in Steps
             /\ {Program[g][i].path, Program[g][i].to} \subseteq PathsOf(Program[g])
  <2>1. Program[g][i] \in {s \in Steps : ~s.created}
    BY HookAssumption, Elements
  <2> QED  BY <2>1 DEF PathsOf
<1>2. P \in SUBSET Paths
  BY <1>1 DEF PathsOf, Steps
<1>3. ASSUME NEW g \in Hooks PROVE Program[g] \in Seq(Scope(h, P, g))
  <2>1. ASSUME NEW i \in DOMAIN Program[g] PROVE Program[g][i] \in Scope(h, P, g)
    BY <1>1, <2>1 DEF Apart, Scope, Inside, Outside
  <2>2. Program[g] \in Seq({s \in Steps : ~s.created})
    BY HookAssumption
  <2> QED  BY <2>1, <2>2, ByElements
<1>4. P \cap PathsOf(Earlier) = {}
  BY DEF Apart
<1>5. Earlier \in Seq(Mine(h, P, None))
  <2>1. ASSUME NEW i \in DOMAIN Earlier PROVE Earlier[i] \in Mine(h, P, None)
    <3>1. Earlier[i] \in Steps
      BY HookAssumption, Elements
    <3>2. {Earlier[i].path, Earlier[i].to} \subseteq PathsOf(Earlier)
      BY DEF PathsOf
    <3> QED  BY <1>4, <3>1, <3>2, HookAssumption DEF Mine, Outside
  <2> QED  BY <2>1, HookAssumption, ByElements
<1> QED
  BY <1>2, <1>3, <1>4, <1>5 DEF Owns

\* The stages before own what no hook names.
LEMMA EarlierOwns == ASSUME EarlierApart PROVE Owns(None, EarlierPaths)
<1> DEFINE P == EarlierPaths
<1>1. ASSUME NEW i \in DOMAIN Earlier
      PROVE  Earlier[i] \in Steps /\ {Earlier[i].path, Earlier[i].to} \subseteq PathsOf(Earlier)
  BY HookAssumption, Elements DEF PathsOf
<1>2. P \in SUBSET Paths
  BY <1>1 DEF EarlierPaths, PathsOf, Steps
<1>3. ASSUME NEW g \in Hooks PROVE Program[g] \in Seq(Scope(None, P, g))
  <2>1. ASSUME NEW i \in DOMAIN Program[g] PROVE Program[g][i] \in Scope(None, P, g)
    <3>1. Program[g][i] \in {s \in Steps : ~s.created}
      BY HookAssumption, Elements
    <3>2. {Program[g][i].path, Program[g][i].to} \subseteq PathsOf(Program[g])
      BY DEF PathsOf
    <3>3. {Program[g][i].path, Program[g][i].to} \cap P = {}
      BY <3>2 DEF EarlierPaths
    <3> QED  BY <3>1, <3>3, HookAssumption DEF Scope, Outside
  <2>2. Program[g] \in Seq({s \in Steps : ~s.created})
    BY HookAssumption
  <2> QED  BY <2>1, <2>2, ByElements
<1>4. Earlier \in Seq(Mine(None, P, None))
  <2>1. ASSUME NEW i \in DOMAIN Earlier PROVE Earlier[i] \in Mine(None, P, None)
    BY <1>1, <2>1 DEF EarlierApart, Mine, Either, Inside, Outside
  <2> QED  BY <2>1, HookAssumption, ByElements
<1> QED
  BY <1>2, <1>3, <1>4, HookAssumption DEF Owns

\* A failed command has taken back all that a hook did to paths of its own, if
\* it was joined before the unwinding and no rollback of its own failed.
THEOREM OrphansOnly == Spec => []OnlyOrphansStay
<1> DEFINE Owners == \A h \in Hooks : Apart(h) => OwnerInv(h, PathsOf(Program[h]))
<1>1. Init => Owners
  BY ApartOwns, InitOwner
<1>2. Owners /\ [Next]_vars => Owners'
  <2> SUFFICES ASSUME Owners, [Next]_vars, NEW h \in Hooks, Apart(h)
               PROVE  OwnerInv(h, PathsOf(Program[h]))'
    OBVIOUS
  <2>1. PathsOf(Program[h]) \in SUBSET Paths
    BY ApartOwns DEF Owns
  <2> QED  BY <2>1, NextOwner
<1>3. Owners => OnlyOrphansStay
  <2> SUFFICES ASSUME Owners, main \in {"failed", "returned"},
                      NEW h \in Hooks \ (orphans \cup stuck), Apart(h)
               PROVE  \A p \in PathsOf(Program[h]) : fs[p] = Initially[p]
    BY DEF OnlyOrphansStay
  <2>1. PathsOf(Program[h]) \in SUBSET Paths
    BY ApartOwns DEF Owns
  <2> QED  BY <2>1, OwnerRestored
<1> QED
  BY <1>1, <1>2, <1>3, PTL DEF Spec

\* A failed command has taken back what its earlier stages did to files the
\* hooks do not name, even if guards of the hooks failed before theirs was run.
THEOREM EarlierUndone == Spec => []EarlierIsUndone
<1> DEFINE Owner == EarlierApart => OwnerInv(None, EarlierPaths)
<1>1. Init => Owner
  BY EarlierOwns, InitOwner
<1>2. Owner /\ [Next]_vars => Owner'
  <2> SUFFICES ASSUME Owner, [Next]_vars, EarlierApart PROVE OwnerInv(None, EarlierPaths)'
    OBVIOUS
  <2>1. EarlierPaths \in SUBSET Paths
    BY EarlierOwns DEF Owns
  <2> QED  BY <2>1, NextOwner
<1>3. Owner => EarlierIsUndone
  <2> SUFFICES ASSUME Owner, EarlierApart, main \in {"failed", "returned"}, None \notin stuck
               PROVE  \A p \in EarlierPaths : fs[p] = Initially[p]
    BY DEF EarlierIsUndone
  <2>1. EarlierPaths \in SUBSET Paths /\ OwnerInv(None, EarlierPaths)
    BY EarlierOwns DEF Owns
  <2>2. None \notin orphans
    BY <2>1, HookAssumption DEF OwnerInv, Begins, TypeInv
  <2> QED  BY <2>1, <2>2, OwnerRestored
<1> QED
  BY <1>1, <1>2, <1>3, PTL DEF Spec
=============================================================================
