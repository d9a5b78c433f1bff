------------------------------- MODULE Calls -------------------------------
(***************************************************************************)
(* A process that uses the library: the command line program upac-cli, or  *)
(* any other frontend with one call.  It builds a request, the exported    *)
(* function converts it, sets up a Context, takes the lock if the command  *)
(* writes, and lets the engine run the stages of Pipelines one after the   *)
(* other; the outcome goes back as a code, a CError and, for a query, a    *)
(* response that the frontend reads and frees.  The token of the process   *)
(* may be set by Ctrl-C at any moment.                                     *)
(*                                                                         *)
(* What a stage does to the disk is in DeployStore, Packages and           *)
(* EtcConfig, how it is unwound in Orchestrator: here a stage only moves   *)
(* slots, fails with an error its command can carry, or panics.            *)
(***************************************************************************)
EXTENDS Pipelines, Kinds, Requests, Responses, Naturals, Sequences

CONSTANT MaxItems       \* the most packages, files or deploys a call goes through

ASSUME MaxItemsAssumption == MaxItems \in Nat \ {0}

VARIABLES
    client,             \* "cli", or "foreign": a frontend that checks nothing
    calls,              \* the calls the process has still to make, the current one first
    fault,              \* the field of the foreign request that is not a good one, and its value
    items,              \* how many packages or files the request names
    phase,              \* where the process is
    token,              \* the CancelToken of the process
    signalled,          \* whether it was ever set
    index,              \* the stage the cursor is at, from 0
    left,               \* what the queue of that stage still holds
    have,               \* the slots of the Context
    answer,             \* the code and the CError
    held                \* the blocks of the response

vars == <<client, calls, fault, items, phase, token, signalled, index, left, have, answer, held>>
request == <<client, calls, fault, items>>

Phases ==
    {"loading", "idle", "setup", "locking", "looking", "telling", "running", "reporting", "returning",
     "answered", "freed", "choosing", "ended"}

Commands == Writers \cup Queries
call == calls[1]
stages == Stages[call]
stage == stages[index + 1]

Answer(state, kind, cause, at) == [state |-> state, kind |-> kind, cause |-> cause, at |-> at]
NoAnswer == Answer("none", "none", "none", 0)

---------------------------------------------------------------------------
(* The commands of upac-cli: what each calls, in order. *)

PkgInstall == <<"install">>
PkgUpdate == <<"update">>
PkgRemove == {<<"list_packages", "uninstall">>, <<"uninstall">>}
PkgList == <<"list_packages">>
PkgDiff == <<"diff_packages">>
PkgSearch == {<<"search_meta">>, <<"search_in_meta">>}
FileAdd == <<"files">>
FileRemove == <<"files">>
FileDiff == <<"diff_prefix">>
FileSearch == {<<"search_files">>, <<"search_in_package_files">>}
CommitDiff == <<"diff_config">>
CommitHistory == <<"list_history">>
CommitList == <<"list_config">>
CommitNew == <<"commit">>
CommitPin == <<"pin_deploy">>
CommitPrefixes == <<"list_prefix">>
CommitUnpin == <<"pin_deploy">>
Diff == <<"diff">>
Gc == <<"gc">>
Mime == <<"mime">>
Rollback == <<"rollback">>

Package == {PkgInstall, PkgUpdate, PkgList, PkgDiff} \cup PkgRemove \cup PkgSearch
File == {FileAdd, FileRemove, FileDiff} \cup FileSearch
Commit == {CommitDiff, CommitHistory, CommitList, CommitNew, CommitPin, CommitPrefixes, CommitUnpin}
Programs == Package \cup File \cup Commit \cup {Diff, Gc, Mime, Rollback}

NoFault == [field |-> "struct_size", value |-> "Good"]
Good(f) == f.value = "Good"

Init ==
    /\ \/ /\ client = "cli"
          /\ calls \in Programs
          /\ fault = NoFault
       \/ /\ client = "foreign"
          /\ \E c \in Commands :
                /\ calls = <<c>>
                /\ \E f \in DOMAIN Requests[c], v \in Values :
                      /\ v \in Faults[Requests[c][f]]
                      /\ fault = [field |-> f, value |-> v]
    /\ items \in IF fault.value = "Empty" THEN {0} ELSE 1 .. MaxItems
    /\ phase = "loading"
    /\ token = FALSE
    /\ signalled = FALSE
    /\ index = 0
    /\ left = 0
    /\ have = {}
    /\ answer = NoAnswer
    /\ held = {}

(* Ctrl-C, and the exported `cancel'. *)
Signal ==
    /\ phase \notin {"loading", "ended"}
    /\ ~token
    /\ token' = TRUE
    /\ signalled' = TRUE
    /\ UNCHANGED <<request, phase, index, left, have, answer, held>>

(* The library is loaded and speaks the same version, or the process ends. *)
Load ==
    /\ phase = "loading"
    /\ phase' \in {"idle", "ended"}
    /\ UNCHANGED <<request, token, signalled, index, left, have, answer, held>>

(* The program hands out the functions that write only to root. *)
RequireWrite ==
    /\ phase = "idle"
    /\ client = "cli"
    /\ call \in Writers
    /\ phase' = "ended"
    /\ UNCHANGED <<request, token, signalled, index, left, have, answer, held>>

---------------------------------------------------------------------------
(* The way out of a call.  The token is reset where the run function of a command that writes       *)
(* returns: not when it panics, and not before the engine was built.                                *)

ReturnResetting(state, kind, cause) ==
    /\ answer' = Answer(state, kind, cause, index)
    /\ phase' = "answered"
    /\ token' = FALSE
    /\ UNCHANGED <<request, signalled, index, left, have>>

Return(state, kind, cause) ==
    /\ answer' = Answer(state, kind, cause, index)
    /\ phase' = "answered"
    /\ token' = (token /\ call \in Queries)
    /\ UNCHANGED <<request, signalled, index, left, have>>

LeaveEarly(kind, cause) ==
    /\ answer' = Answer("Setup", kind, cause, index)
    /\ phase' = "answered"
    /\ held' = {}
    /\ UNCHANGED <<request, token, signalled, index, left, have>>

Panicked(cause) == LeaveEarly("Unexpected", cause)

(* from_stage_index has no state for a position past the last one, and panics. *)
FromStageIndex(i) == States[call][i + 1]

FailAt(kind, cause) ==
    IF index < Len(States[call]) THEN Return(FromStageIndex(index), kind, cause) /\ held' = {}
                                 ELSE Panicked("unnamed")

---------------------------------------------------------------------------
(* Before the engine: the request, the deploy or the search, the lock. *)

Convert ==
    /\ phase = "idle"
    /\ LET verdict == IF Good(fault) THEN "Accepted" ELSE Verdict(call, fault.field, fault.value)
       IN \/ /\ verdict = "Accepted"
             /\ phase' = "setup"
             /\ have' = {}
             /\ index' = 0
             /\ left' = 0
             /\ UNCHANGED <<request, token, signalled, answer, held>>
          \/ verdict # "Accepted" /\ LeaveEarly(verdict, "refused")

SetupErrors(command) ==
    (IF command \in Writers \ {"mime"} THEN {Error("Sysroot", v) : v \in SysrootRaised} ELSE {})
    \cup (IF command \in {"install", "update"} THEN {Error("Decoder", v) : v \in DecoderRaised} ELSE {})
    \cup (IF "Search" \in Given[command] THEN {Error("Command", "InvalidSearchPattern")} ELSE {})

Setup ==
    /\ phase = "setup"
    /\ \/ /\ have' = Given[call]
          /\ phase' = IF call \in Writers THEN "locking" ELSE "looking"
          /\ UNCHANGED <<request, token, signalled, index, left, answer, held>>
       \/ \E e \in SetupErrors(call) : LeaveEarly(KindOf(call, e), "setup")

Acquire ==
    /\ phase = "locking"
    /\ \/ /\ phase' = "looking"
          /\ UNCHANGED <<request, token, signalled, index, left, have, answer, held>>
       \/ \E v \in LockRaised :
             /\ Return("Setup", LockKind[v], "lock")
             /\ held' = {}

---------------------------------------------------------------------------
(* The engine: the token, the frontend, the stage, the frontend, and again. *)

(* What a query may hand out: any field may be absent, any text empty. *)
HandedOut ==
    [q \in Queries |->
        {Allocated(q, absent, blanks) :
            absent \in {{}} \cup {{a} : a \in MayBeAbsent(q)},
            blanks \in {{}} \cup {{t} : t \in Texts(q)}}]

Complete == Results[call] \subseteq have

Look ==
    /\ phase = "looking"
    /\ \/ /\ token
          /\ FailAt(CommonKind["Cancelled"], "cancelled")
       \/ /\ ~token
          /\ index < Len(stages)
          /\ phase' = "telling"
          /\ UNCHANGED <<request, token, signalled, index, left, have, answer, held>>
       \/ /\ ~token
          /\ index = Len(stages)
          /\ phase' = "returning"
          /\ UNCHANGED <<request, token, signalled, index, left, have, answer, held>>

(* The run is over; what is set from here to the reset of a command that writes is forgotten. *)
Finish ==
    /\ phase = "returning"
    /\ IF call \in Writers THEN Return("none", "none", "done") /\ held' = {}
       ELSE IF Complete THEN Return("none", "none", "done") /\ held' \in HandedOut[call]
       ELSE Return("Setup", CommonKind["MissingResult"], "missing") /\ held' = {}

(* send_progress asks again as long as the frontend says so.  upac-cli never does. *)
OnProgressBusy == {"Retry"}
OnProgress == {"Delivered"}
Acks == IF client = "cli" THEN OnProgress ELSE {"Delivered", "Retry"}

SendProgress(from, to) ==
    /\ phase = from
    /\ \E ack \in Acks : phase' = IF ack = "Retry" THEN from ELSE to
    /\ UNCHANGED <<request, token, signalled, index, left, have, answer, held>>

Tell == SendProgress("telling", "running")
Report == SendProgress("reporting", "looking")

Ready == stage.take \cup stage.get \subseteq have /\ (stage.queue = NoQueue \/ left > 0)

Misses ==
    /\ phase = "running"
    /\ ~Ready
    /\ FailAt(CommonKind["MissingResult"], "missing")

(* How much a queue holds when its stage is reached. *)
Queued(queue) ==
    IF queue = "PendingDeploys" THEN 1 .. MaxItems
    ELSE IF queue = "PendingWrites" THEN {2}
    ELSE {items}

Repeats == stage.queue # NoQueue /\ left > 1

RunStage ==
    /\ phase = "running"
    /\ Ready
    /\ have' = (have \ stage.take) \cup stage.put
    /\ IF Repeats
       THEN index' = index /\ left' = left - 1
       ELSE /\ index' = index + 1
            /\ left' \in IF index + 1 < Len(stages) /\ stages[index + 2].queue # NoQueue
                         THEN Queued(stages[index + 2].queue) ELSE {0}
    /\ phase' = "reporting"
    /\ UNCHANGED <<request, token, signalled, answer, held>>

(* The stages that only pass through have nothing that can fail. *)
CanFail == stage \notin {InstallFetching, UpdateFetching}

FailureKinds == [c \in Commands |-> {KindOf(c, e) : e \in StageErrors(c)}]

Fails ==
    /\ phase = "running"
    /\ Ready /\ CanFail
    /\ \E kind \in FailureKinds[call] : FailAt(kind, "failed")

(* A stage that looks at the token itself: the batch of a hook stage, the decoder that unpacks a   *)
(* package, the import of a directory.  The first gives up with the common error, the second with  *)
(* the error every failure of a decoder becomes, the third with the one of the repository.         *)
ImportCancelled == RepoKind["Cancelled"]
DecodingCancelled == DecoderKind["Failed"]

Hooks == {PreHooks, Declarative, PostHooks}
Importing == {InstallImport, UpdateImport}
Unpacking == {InstallPreparation, UpdatePreparation}

GivesUp ==
    /\ phase = "running"
    /\ Ready /\ token
    /\ \/ stage \in Hooks /\ FailAt(CommonKind["Cancelled"], "cancelled")
       \/ stage \in Importing /\ call \in {"install", "update"} /\ FailAt(ImportCancelled, "cancelled")
       \/ stage \in Unpacking /\ call \in {"install", "update"}
            /\ FailAt(DecodingCancelled, "cancelled")

(* A library the stage calls panics; the exported function catches it. *)
Panics ==
    /\ phase = "running"
    /\ Ready /\ CanFail
    /\ Panicked("panic")

---------------------------------------------------------------------------
(* The frontend again. *)

(* It reads the response and gives it back. *)
Free ==
    /\ phase = "answered"
    /\ answer.cause = "done"
    /\ call \in Queries
    /\ held' = held \ Freed(call, held)
    /\ phase' = "freed"
    /\ UNCHANGED <<request, token, signalled, index, left, have, answer>>

(* `pkg remove' leaves with the response in its hands when a name in it is not a text. *)
ReadsNoText ==
    /\ phase = "answered"
    /\ answer.cause = "done"
    /\ Len(calls) > 1
    /\ phase' = "ended"
    /\ UNCHANGED <<request, token, signalled, index, left, have, answer, held>>

Proceed ==
    /\ \/ phase = "freed"
       \/ phase = "answered" /\ (answer.cause # "done" \/ call \in Writers)
    /\ IF answer.cause = "done" /\ Len(calls) > 1
       THEN calls' = Tail(calls) /\ phase' = "choosing"
       ELSE calls' = calls /\ phase' = "ended"
    /\ UNCHANGED <<client, fault, items, token, signalled, index, left, have, answer, held>>

(* The user says which of several packages is meant; no package, or a bad choice, ends it. *)
Choose ==
    /\ phase = "choosing"
    /\ phase' \in {"idle", "ended"}
    /\ UNCHANGED <<request, token, signalled, index, left, have, answer, held>>

Work ==
    \/ Load \/ RequireWrite \/ Convert \/ Setup \/ Acquire \/ Look \/ Finish \/ Tell \/ Report
    \/ Misses \/ RunStage \/ Fails \/ GivesUp \/ Panics \/ Free \/ ReadsNoText \/ Proceed

Next == Work \/ Choose \/ Signal

(* Nothing waits in the process but the prompt; the user need not answer it, nor ever cancel. *)
Spec == Init /\ [][Next]_vars /\ WF_vars(Work)

---------------------------------------------------------------------------
(* Properties *)

StateNames(command) == {States[command][i] : i \in DOMAIN States[command]}

\* Every variable keeps to its kind; what a frontend is told is a state of the
\* command and an ErrorKind.
TypeOK ==
    /\ client \in {"cli", "foreign"}
    /\ calls \in Seq(Commands) /\ calls # <<>>
    /\ items \in 0 .. MaxItems
    /\ phase \in Phases
    /\ token \in BOOLEAN /\ signalled \in BOOLEAN
    /\ index \in 0 .. Len(stages)
    /\ left \in 0 .. MaxItems + 2
    /\ have \subseteq UNION {Given[c] \cup UNION {Stages[c][i].put : i \in DOMAIN Stages[c]} : c \in Commands}
    /\ phase = "answered" /\ answer.cause # "done" =>
         answer.state \in StateNames(call) /\ answer.kind \in ErrorKinds
    /\ \A c \in held : c.blank \in BOOLEAN

\* Through every pipeline, with every queue emptied one item a time, each stage
\* finds the slots the ones before it have put, and a query its results
\* (ctx_take!, ctx_get!): all but the hooks of the packages in install and
\* update, which look for what only uninstall puts, and a list the frontend
\* sent empty.
StagesFindTheirSlots ==
    phase = "answered" /\ answer.cause = "missing" =>
        \/ call \in {"install", "update"} /\ stages[answer.at + 1] = Declarative
        \/ fault.value = "Empty"

Named(command, position) ==
    \A i \in 1 .. position : Stages[command][i] \notin {Declarative, Retention}

\* The state a failure is told with is the stage that was at work, up to the
\* first that no command has a state for (the hooks of the packages, the
\* retention); before the engine it
\* is Setup.  No stage is ever announced to the frontend under a position
\* without a name, which would end upac-cli (StageName).
ReportedStage ==
    /\ phase \in {"telling", "running"} => index < Len(States[call])
    /\ phase = "answered" /\ answer.cause \in {"failed", "cancelled", "missing"} =>
          /\ answer.at < Len(stages) /\ Named(call, answer.at + 1)
               => answer.state = stages[answer.at + 1].name
          /\ answer.at = Len(stages) => answer.state \in {"Done", "Setup"}
    /\ phase = "answered" /\ answer.cause \in {"refused", "setup", "lock", "panic"} =>
          answer.state = "Setup"

\* Once Ctrl-C was pressed no stage of the program begins, neither of the call
\* that is running nor of one that follows: the listing of `pkg remove' does
\* not forget it (no reset in run_unmutated!).
CancelHolds ==
    [][phase = "looking" /\ phase' = "telling" => ~signalled]_vars

\* Cancelled is told of nothing but a cancelled call, and a call that gave up
\* for the token is told as Cancelled: but one that noticed it inside a
\* decoder, and an uninstall that noticed it when all was done.
CancelledIsToldApart ==
    phase = "answered" =>
        /\ answer.kind = "Cancelled" => answer.cause = "cancelled" /\ signalled
        /\ answer.cause = "cancelled" =>
              \/ answer.kind = "Cancelled"
              \/ answer.at < Len(stages) /\ stages[answer.at + 1] \in Unpacking
        /\ answer.cause = "unnamed" => call = "uninstall" /\ signalled

\* What a frontend gives back with `free' is all there was, but for the
\* terminators of empty texts: lists in lists included.
NothingLeaks == phase = "freed" => \A c \in held : c.blank

\* upac-cli always gets its answer: no pipeline repeats a stage for ever and no
\* frontend of its own asks for a message again.
ProgramsEnd ==
    (client = "cli" /\ phase # "choosing") ~> (phase \in {"ended", "choosing"})
=============================================================================
