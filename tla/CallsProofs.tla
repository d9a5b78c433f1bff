----------------------------- MODULE CallsProofs -----------------------------
(***************************************************************************)
(* Theorems of Calls, for any number of packages in a request.  The first  *)
(* ones are about the token alone: a cancel is not forgotten.  The tables  *)
(* of Kinds, Requests, Pipelines and Responses then have a section each,   *)
(* with what the calls need of them, and the invariant of a call follows:  *)
(* at each position of a pipeline the slots that the rest of it counts on  *)
(* are there (ContextInv), and an answer was given at the position the     *)
(* cursor is at (AnswerInv).                                               *)
(***************************************************************************)
EXTENDS Calls, TLAPS

\* All calls of a program but the last are queries.
CallsInv ==
    /\ calls \in Seq(Commands) /\ calls # <<>>
    /\ \A i \in 1 .. Len(calls) : i < Len(calls) => calls[i] \in Queries

\* The token is down after Ctrl-C only where a command that writes has reset it,
\* and such a command is the last of its program.
TokenInv ==
    /\ token \in BOOLEAN /\ signalled \in BOOLEAN
    /\ signalled /\ ~token => phase = "ended" \/ (phase = "answered" /\ call \notin Queries)

Inv == CallsInv /\ TokenInv

LEMMA InitInv == Init => Inv
<1> SUFFICES ASSUME Init PROVE Inv
  OBVIOUS
<1>1. CASE calls \in Programs
  <2>1. \E c \in Commands : calls = <<c>> \/ calls = <<"list_packages", "uninstall">>
    BY <1>1 DEF Programs, Package, File, Commit, PkgInstall, PkgUpdate, PkgRemove, PkgList, PkgDiff,
       PkgSearch, FileAdd, FileRemove, FileDiff, FileSearch, CommitDiff, CommitHistory, CommitList,
       CommitNew, CommitPin, CommitPrefixes, CommitUnpin, Diff, Gc, Mime, Rollback, Commands, Writers,
       Queries
  <2>2. CallsInv
    <3>1. CASE \E c \in Commands : calls = <<c>>
      BY <3>1 DEF CallsInv
    <3>2. CASE calls = <<"list_packages", "uninstall">>
      <4> DEFINE first == "list_packages"  second == "uninstall"
      <4>1. first \in Queries /\ first \in Commands /\ second \in Commands
        BY DEF Commands, Writers, Queries
      <4>2. calls = <<first, second>>
        BY <3>2
      <4> HIDE DEF first, second
      <4> QED  BY <4>1, <4>2 DEF CallsInv
    <3> QED  BY <2>1, <3>1, <3>2
  <2> QED  BY <2>2 DEF Init, Inv, TokenInv
<1>2. CASE \E c \in Commands : calls = <<c>>
  <2>1. CallsInv
    BY <1>2 DEF CallsInv
  <2> QED  BY <2>1 DEF Init, Inv, TokenInv
<1> QED
  BY <1>1, <1>2 DEF Init

\* The steps of a call before its end leave calls and token alone, and the call
\* unanswered.
LEMMA InsideKeeps ==
    ASSUME Inv, UNCHANGED <<calls, token, signalled>>,
           phase \notin {"answered", "ended"}
    PROVE  Inv'
  BY DEF Inv, CallsInv, TokenInv, call

\* A call returns, with or without a reset of the token.
LEMMA ReturnKeeps ==
    ASSUME Inv, UNCHANGED <<calls, signalled>>, phase \notin {"answered", "ended"},
           phase' = "answered", token' = token \/ token' = (token /\ call \in Queries)
    PROVE  Inv'
  BY DEF Inv, CallsInv, TokenInv, call

LEMMA FailAtKeeps ==
    ASSUME Inv, phase \notin {"answered", "ended"}, NEW kind, NEW cause, FailAt(kind, cause)
    PROVE  Inv'
  BY ReturnKeeps DEF FailAt, Return, Panicked, LeaveEarly, request

LEMMA NextInv == Inv /\ [Next]_vars => Inv'
<1> SUFFICES ASSUME Inv, [Next]_vars PROVE Inv'
  OBVIOUS
<1>1. CASE Signal
  BY <1>1 DEF Signal, request, Inv, CallsInv, TokenInv, call
<1>2. CASE Load \/ RequireWrite \/ Choose
  BY <1>2, InsideKeeps DEF Load, RequireWrite, Choose, request
<1>3. CASE Convert
  BY <1>3, InsideKeeps, ReturnKeeps DEF Convert, LeaveEarly, request
<1>4. CASE Setup
  BY <1>4, InsideKeeps, ReturnKeeps DEF Setup, LeaveEarly, request
<1>5. CASE Acquire
  BY <1>5, InsideKeeps, ReturnKeeps DEF Acquire, Return, request
<1>6. CASE Look
  BY <1>6, InsideKeeps, FailAtKeeps DEF Look, request
<1>7. CASE Finish
  BY <1>7, ReturnKeeps DEF Finish, Return, request
<1>8. CASE Tell \/ Report \/ RunStage
  BY <1>8, InsideKeeps DEF Tell, Report, SendProgress, RunStage, request
<1>9. CASE Misses \/ Fails \/ GivesUp
  BY <1>9, FailAtKeeps DEF Misses, Fails, GivesUp
<1>10. CASE Panics
  BY <1>10, ReturnKeeps DEF Panics, Panicked, LeaveEarly, request
<1>11. CASE Free \/ ReadsNoText
  BY <1>11 DEF Free, ReadsNoText, request, Inv, CallsInv, TokenInv, call
<1>12. CASE Proceed
  <2>1. CASE Len(calls) > 1 /\ phase' = "choosing" /\ calls' = Tail(calls)
    <3>1. call \in Queries
      BY <2>1 DEF Inv, CallsInv, call
    <3>2. CallsInv'
      <4>1. calls \in Seq(Commands) /\ Len(calls) \in Nat
        BY DEF Inv, CallsInv
      <4>2. calls' \in Seq(Commands) /\ Len(calls') = Len(calls) - 1 /\ calls' # <<>>
        BY <2>1, <4>1
      <4>3. ASSUME NEW i \in 1 .. Len(calls'), i < Len(calls') PROVE calls'[i] \in Queries
        <5>1. calls'[i] = calls[i + 1] /\ i + 1 \in 1 .. Len(calls) /\ i + 1 < Len(calls)
          BY <2>1, <4>1, <4>2, <4>3
        <5> QED  BY <5>1 DEF Inv, CallsInv
      <4> QED  BY <4>2, <4>3 DEF CallsInv
    <3> QED  BY <1>12, <2>1, <3>1, <3>2 DEF Proceed, Inv, TokenInv
  <2>2. CASE phase' = "ended" /\ calls' = calls
    BY <1>12, <2>2 DEF Proceed, Inv, CallsInv, TokenInv, call
  <2> QED  BY <1>12, <2>1, <2>2 DEF Proceed
<1>13. CASE UNCHANGED vars
  BY <1>13 DEF vars, Inv, CallsInv, TokenInv, call
<1> QED
  BY <1>1, <1>2, <1>3, <1>4, <1>5, <1>6, <1>7, <1>8, <1>9, <1>10, <1>11, <1>12, <1>13
  DEF Next, Work

\* After Ctrl-C no stage begins, neither in the call that runs nor in one that
\* the program makes after it.
THEOREM CancelIsNotForgotten == Spec => CancelHolds
<1>1. Inv /\ [Next]_vars => [phase = "looking" /\ phase' = "telling" => ~signalled]_vars
  <2> SUFFICES ASSUME Inv, Next, phase = "looking", phase' = "telling" PROVE ~signalled
    BY DEF vars
  <2>1. ~Signal /\ ~Choose
    BY DEF Signal, Choose
  <2>2. Work => Look
    BY DEF Work, Load, RequireWrite, Convert, Setup, Acquire, Finish, Tell, Report, SendProgress,
       Misses, RunStage, Fails, GivesUp, Panics, Free, ReadsNoText, Proceed
  <2>3. Look => ~token
    BY DEF Look, FailAt, Return, Panicked, LeaveEarly
  <2> QED  BY <2>1, <2>2, <2>3 DEF Next, Inv, TokenInv
<1> QED
  BY <1>1, InitInv, NextInv, PTL DEF Spec, CancelHolds

---------------------------------------------------------------------------
(* Kinds: nothing but a cancelled call is told as Cancelled. *)

NotCancelled == ErrorKinds \ {"Cancelled"}

LEMMA CommonKinds ==
    CommonKind["Cancelled"] = "Cancelled" /\ CommonKind["MissingResult"] \in NotCancelled
  BY DEF CommonKind, ++, As, NotCancelled, ErrorKinds

LEMMA OwnCancels == ImportCancelled = "Cancelled" /\ DecodingCancelled \in NotCancelled
  BY DEF ImportCancelled, DecodingCancelled, RepoKind, DecoderKind, ++, As, NotCancelled, ErrorKinds

LEMMA DatabaseKinds == \A v \in DatabaseRaised : DatabaseKind[v] \in NotCancelled
  BY DEF DatabaseRaised, DatabaseKind, Range, NotCancelled, ErrorKinds

LEMMA DeployRecordKinds == \A v \in DeployRecordRaised : DeployRecordKind[v] \in NotCancelled
  BY DEF DeployRecordRaised, DeployRecordKind, Range, NotCancelled, ErrorKinds

LEMMA RepoKinds == \A v \in RepoRaised : RepoKind[v] \in NotCancelled
  BY DEF RepoRaised, RepoKind, Range, NotCancelled, ErrorKinds

LEMMA SysrootKinds == \A v \in SysrootRaised : SysrootKind[v] \in NotCancelled
  BY DEF SysrootRaised, SysrootKind, Range, NotCancelled, ErrorKinds, As, ++

LEMMA BootKinds ==
    \A v \in {"NoBootResource", "AmbiguousBootResource", "Unexpected"} : BootKind[v] \in NotCancelled
  BY DEF BootKind, NotCancelled, ErrorKinds

LEMMA LockKinds == \A v \in LockRaised : LockKind[v] \in NotCancelled
  BY DEF LockRaised, LockKind, Range, NotCancelled, ErrorKinds

LEMMA HookKinds == \A v \in HookRaised : HookKind[v] \in NotCancelled
  BY DEF HookRaised, HookKind, Range, NotCancelled, ErrorKinds, As, ++

LEMMA DecoderKinds == \A v \in DecoderRaised : DecoderKind[v] \in NotCancelled
  BY DEF DecoderRaised, DecoderKind, Range, NotCancelled, ErrorKinds, As, ++

LEMMA BootPluginKinds == \A v \in BootPluginRaised : BootPluginKind[v] \in NotCancelled
<1>1. Reported \subseteq NotCancelled
  BY DEF Reported, Range, BlsKind, RefindKind, UkiKind, GrubKind, NotCancelled, ErrorKinds
<1>2. ASSUME NEW v \in NotCancelled PROVE BootPluginKind[v] \in NotCancelled
  BY DEF BootPluginKind, As, ++, NotCancelled, ErrorKinds
<1>3. ASSUME NEW v \in BootPluginRaised \ Reported PROVE BootPluginKind[v] \in NotCancelled
  BY DEF BootPluginRaised, BootPluginKind, As, ++, NotCancelled, ErrorKinds
<1> QED  BY <1>1, <1>2, <1>3

LEMMA ComponentKinds ==
    \A x \in DOMAIN Raised : \A v \in Raised[x] : ComponentKind[x][v] \in NotCancelled
  BY DatabaseKinds, DeployRecordKinds, RepoKinds, SysrootKinds, BootKinds, LockKinds, HookKinds,
     DecoderKinds, BootPluginKinds DEF Raised, ComponentKind

LEMMA Carried == \A c \in Commands : CommandError[c].carries \subseteq DOMAIN Raised
  BY DEF Commands, Writers, Queries, CommandError, Raised, InstallError, UpdateError, UninstallError,
     FilesError, RollbackError, CommitError, GcError, PinError, MimeError, DiffError, DiffConfigError,
     DiffPrefixError, DiffPackagesError, ListConfigError, ListHistoryError, ListPackagesError,
     ListPrefixError, SearchFilesError, SearchMetaError, SearchInMetaError, SearchInPackageFilesError

LEMMA OwnKinds ==
    \A c \in Commands : \A v \in DOMAIN CommandError[c].own : CommandError[c].own[v] \in NotCancelled
<1> DEFINE Fine(error) == \A v \in DOMAIN error.own : error.own[v] \in NotCancelled
<1>1. Fine(InstallError) /\ Fine(CommitError) /\ Fine(GcError) /\ Fine(PinError)
  BY DEF InstallError, CommitError, GcError, PinError
<1>2. Fine(UpdateError) /\ Fine(UninstallError) /\ Fine(FilesError) /\ Fine(RollbackError)
  BY DEF UpdateError, UninstallError, FilesError, RollbackError, NotCancelled, ErrorKinds
<1>3. Fine(MimeError) /\ Fine(DiffError) /\ Fine(DiffConfigError)
  BY DEF MimeError, DiffError, DiffConfigError, NotCancelled, ErrorKinds
<1>4. /\ Fine(DiffPrefixError) /\ Fine(DiffPackagesError) /\ Fine(ListConfigError)
      /\ Fine(ListHistoryError) /\ Fine(ListPackagesError) /\ Fine(ListPrefixError)
  BY DEF DiffPrefixError, DiffPackagesError, ListConfigError, ListHistoryError, ListPackagesError,
     ListPrefixError
<1>5. /\ Fine(SearchFilesError) /\ Fine(SearchMetaError) /\ Fine(SearchInMetaError)
      /\ Fine(SearchInPackageFilesError)
  BY DEF SearchFilesError, SearchMetaError, SearchInMetaError, SearchInPackageFilesError, NotCancelled,
     ErrorKinds
<1> HIDE DEF Fine
<1>6. \A c \in Commands : Fine(CommandError[c])
  BY <1>1, <1>2, <1>3, <1>4, <1>5 DEF Commands, Writers, Queries, CommandError
<1> QED  BY <1>6 DEF Fine

LEMMA Searches ==
    \A c \in Commands : "Search" \in Given[c] => "InvalidSearchPattern" \in DOMAIN CommandError[c].own
  BY DEF Commands, Writers, Queries, CommandError, Given, InstallGiven, UpdateGiven, UninstallGiven,
     FilesGiven, CommitGiven, RollbackGiven, GcGiven, PinGiven, DiffGiven, DiffConfigGiven,
     DiffPrefixGiven, DiffPackagesGiven, ListConfigGiven, SearchFilesError, SearchMetaError,
     SearchInMetaError, SearchInPackageFilesError

\* No failure of a stage is told as Cancelled.
LEMMA StageKinds == \A c \in Commands : FailureKinds[c] \subseteq NotCancelled
<1> SUFFICES ASSUME NEW c \in Commands, NEW e \in StageErrors(c) PROVE KindOf(c, e) \in NotCancelled
  BY DEF FailureKinds
<1>1. CASE \E v \in DOMAIN CommandError[c].own : e = Error("Command", v)
  BY <1>1, OwnKinds DEF KindOf, Error
<1>2. CASE \E x \in CommandError[c].carries : \E v \in Raised[x] : e = Error(x, v)
  <2>1. PICK x \in DOMAIN Raised : \E v \in Raised[x] : e = Error(x, v)
    BY <1>2, Carried
  <2>2. x # "Command"
    BY DEF Raised
  <2> QED  BY <2>1, <2>2, ComponentKinds DEF KindOf, Error
<1> QED  BY <1>1, <1>2 DEF StageErrors

\* Nor is one of the preparation of a call.
LEMMA SetupKinds == \A c \in Commands : \A e \in SetupErrors(c) : KindOf(c, e) \in NotCancelled
<1> SUFFICES ASSUME NEW c \in Commands, NEW e \in SetupErrors(c) PROVE KindOf(c, e) \in NotCancelled
  OBVIOUS
<1>1. CASE \E v \in SysrootRaised : e = Error("Sysroot", v)
  BY <1>1, SysrootKinds DEF KindOf, Error, ComponentKind
<1>2. CASE \E v \in DecoderRaised : e = Error("Decoder", v)
  BY <1>2, DecoderKinds DEF KindOf, Error, ComponentKind
<1>3. CASE "Search" \in Given[c] /\ e = Error("Command", "InvalidSearchPattern")
  BY <1>3, Searches, OwnKinds DEF KindOf, Error
<1> QED  BY <1>1, <1>2, <1>3 DEF SetupErrors

---------------------------------------------------------------------------
(* Requests: the refusals. *)

LEMMA RefusedKinds ==
    \A class \in DOMAIN Validated : \A v \in DOMAIN Validated[class] :
        Validated[class][v] \in {"AbiMismatch", "InvalidEntry"}
  BY DEF Validated, SizeRefused, TextRefused, OptionalRefused, NonEmptyTextRefused, ListRefused,
     TextsRefused, CompositesRefused, CompositeRefused, PointerRefused, Refused, ++

LEMMA ConvertedKinds == \A v \in DOMAIN Converted : Converted[v] = "InvalidEntry"
  BY DEF Converted, Refused

LEMMA Classes ==
    \A c \in Commands : \A f \in DOMAIN Requests[c] : Requests[c][f] \in DOMAIN Validated
<1> DEFINE Fine(fields) == \A f \in DOMAIN fields : fields[f] \in DOMAIN Validated
<1>1. Fine(InstallRequest) /\ Fine(UpdateRequest) /\ Fine(UninstallRequest)
  BY DEF InstallRequest, UpdateRequest, UninstallRequest, Base, ++, Validated
<1>2. Fine(FilesRequest) /\ Fine(CommitRequest) /\ Fine(RollbackRequest)
  BY DEF FilesRequest, CommitRequest, RollbackRequest, Base, ++, Validated
<1>3. /\ Fine(GcRequest) /\ Fine(PinRequest) /\ Fine(MimeRequest) /\ Fine(ListConfigRequest)
      /\ Fine(ListHistoryRequest) /\ Fine(ListPackagesRequest) /\ Fine(ListPrefixRequest)
  BY DEF GcRequest, PinRequest, MimeRequest, ListConfigRequest, ListHistoryRequest,
     ListPackagesRequest, ListPrefixRequest, Base, ++, Validated
<1>4. /\ Fine(DiffRequest) /\ Fine(DiffConfigRequest) /\ Fine(DiffPrefixRequest)
      /\ Fine(DiffPackagesRequest)
  BY DEF DiffRequest, DiffConfigRequest, DiffPrefixRequest, DiffPackagesRequest, Base, ++, Validated
<1>5. /\ Fine(SearchFilesRequest) /\ Fine(SearchMetaRequest) /\ Fine(SearchInMetaRequest)
      /\ Fine(SearchInPackageFilesRequest)
  BY DEF SearchFilesRequest, SearchMetaRequest, SearchInMetaRequest, SearchInPackageFilesRequest, Base,
     ++, Validated
<1> HIDE DEF Fine
<1>6. \A c \in Commands : Fine(Requests[c])
  BY <1>1, <1>2, <1>3, <1>4, <1>5 DEF Commands, Writers, Queries, Requests
<1> QED  BY <1>6 DEF Fine

LEMMA Verdicts ==
    ASSUME NEW c \in Commands, NEW f \in DOMAIN Requests[c], NEW v, Verdict(c, f, v) # "Accepted"
    PROVE  Verdict(c, f, v) \in NotCancelled
  BY RefusedKinds, ConvertedKinds, Classes DEF Verdict, NotCancelled, ErrorKinds

---------------------------------------------------------------------------
(* Pipelines: what a Context holds at each position. *)

\* A slot that the stages up to the position i have put, or the request has,
\* and none has taken away since.
Takes(c, m) == Stages[c][m].take \ Stages[c][m].put
Holds(c, i, slot) ==
    \/ slot \in Given[c] /\ \A m \in 1 .. i : slot \notin Takes(c, m)
    \/ \E k \in 1 .. i : slot \in Stages[c][k].put /\ \A m \in k + 1 .. i : slot \notin Takes(c, m)

Asks(c, j) == Stages[c][j].take \cup Stages[c][j].get
Served(c, j) == \A slot \in Asks(c, j) : Holds(c, j - 1, slot)

Lengths ==
    [install |-> 12, update |-> 12, uninstall |-> 11, files |-> 8, commit |-> 4, rollback |-> 6, gc
     |-> 3, pin_deploy |-> 1, mime |-> 3, diff |-> 2, diff_config |-> 2, diff_prefix |-> 2,
     diff_packages |-> 2, list_config |-> 1, list_history |-> 1, list_packages |-> 1, list_prefix
     |-> 1, search_files |-> 1, search_meta |-> 1, search_in_meta |-> 1, search_in_package_files
     |-> 1]

LEMMA StageCount ==
    \A c \in Commands : Len(Stages[c]) = Lengths[c] /\ DOMAIN Stages[c] = 1 .. Lengths[c]
<1> DEFINE Right(c) == Len(Stages[c]) = Lengths[c] /\ DOMAIN Stages[c] = 1 .. Lengths[c]
<1>1. Right("install") /\ Right("update") /\ Right("uninstall") /\ Right("files")
  BY DEF Lengths, Stages, InstallStages, UpdateStages, UninstallStages, FilesStages
<1>2. Right("commit") /\ Right("rollback") /\ Right("gc") /\ Right("mime") /\ Right("pin_deploy")
  BY DEF Lengths, Stages, CommitStages, RollbackStages, GcStages, PinStages, MimeStages
<1>3. Right("diff") /\ Right("diff_config") /\ Right("diff_prefix") /\ Right("diff_packages")
  BY DEF Lengths, Stages, DiffStages, DiffConfigStages, DiffPrefixStages, DiffPackagesStages
<1>4. /\ Right("list_config") /\ Right("list_history") /\ Right("list_packages") /\ Right("list_prefix")
      /\ Right("search_files") /\ Right("search_meta") /\ Right("search_in_meta")
      /\ Right("search_in_package_files")
  BY DEF Lengths, Stages
<1> HIDE DEF Right
<1>5. \A c \in Commands : Right(c)
  BY <1>1, <1>2, <1>3, <1>4 DEF Commands, Writers, Queries
<1> QED  BY <1>5 DEF Right

LEMMA InstallServed == \A j \in (1 .. 12) \ {10} : Served("install", j)
  BY DEF Served, Asks, Takes, Holds, Stages, InstallStages, Given, InstallGiven, Once, Each, NoQueue,
     PreHooks, InstallFetching, InstallPreparation, InstallOpen, InstallImport, InstallCommit,
     InstallMerge, InstallCheckout, InstallSwap, Declarative, PostHooks, Retention

LEMMA UpdateServed == \A j \in (1 .. 12) \ {10} : Served("update", j)
  BY DEF Served, Asks, Takes, Holds, Stages, UpdateStages, Given, InstallGiven, UpdateGiven, Once, Each,
     NoQueue, PreHooks, UpdateFetching, UpdatePreparation, UpdateOpen, UpdateImport, UpdateCommit,
     UpdateMerge, UpdateCheckout, UpdateSwap, Declarative, PostHooks, Retention

LEMMA UninstallServed == \A j \in 1 .. 11 : Served("uninstall", j)
  BY DEF Served, Asks, Takes, Holds, Stages, UninstallStages, Given, UninstallGiven, Once, Each,
     NoQueue, PreHooks, UninstallPreparation, UninstallOpen, UninstallRemove, UninstallCommit,
     UninstallMerge, UninstallCheckout, UninstallSwap, Declarative, PostHooks, Retention

LEMMA FilesServed == \A j \in 1 .. 8 : Served("files", j)
  BY DEF Served, Asks, Takes, Holds, Stages, FilesStages, Given, FilesGiven, Once, Each, NoQueue,
     PreHooks, FilesOpen, FilesApply, FilesCommit, FilesCheckout, FilesSwap, PostHooks, Retention

LEMMA CommitServed == \A j \in 1 .. 4 : Served("commit", j)
  BY DEF Served, Asks, Takes, Holds, Stages, Given, Once, NoQueue, CommitStages, CommitGiven, PreHooks,
     CommitTransaction, PostHooks, Retention

LEMMA RollbackServed == \A j \in 1 .. 6 : Served("rollback", j)
  BY DEF Served, Asks, Takes, Holds, Stages, Given, Once, NoQueue, RollbackStages, RollbackGiven,
     PreHooks, RollbackMerge, RollbackCheckout, RollbackSwap, PostHooks, Retention

LEMMA RestServed ==
    /\ \A j \in 1 .. 3 : Served("gc", j) /\ Served("mime", j)
    /\ Served("pin_deploy", 1)
  BY DEF Served, Asks, Takes, Holds, Stages, Given, Once, Each, NoQueue, GcStages, PinStages, MimeStages,
     GcGiven, PinGiven, GcPrune, GcCollect, GcCleaning, PinSetPinned, MimePreparing, MimeRendering,
     MimeWriting

LEMMA ComparisonsServed ==
    \A c \in {"diff", "diff_config", "diff_prefix", "diff_packages"} :
        Served(c, 1) /\ Served(c, 2) /\ \A slot \in Results[c] : Holds(c, 2, slot)
<1> DEFINE Right(c) == Served(c, 1) /\ Served(c, 2) /\ \A slot \in Results[c] : Holds(c, 2, slot)
<1>1. Right("diff")
  BY DEF Served, Asks, Takes, Holds, Stages, Given, Once, NoQueue, Results, DiffStages,
     DiffPreparing, DiffComparing, DiffGiven, DiffResults
<1>2. Right("diff_config")
  BY DEF Served, Asks, Takes, Holds, Stages, Given, Once, NoQueue, Results, DiffConfigStages,
     DiffConfigPreparing, DiffConfigComparing, DiffConfigGiven, DiffConfigResults
<1>3. Right("diff_prefix")
  BY DEF Served, Asks, Takes, Holds, Stages, Given, Once, NoQueue, Results, DiffPrefixStages,
     DiffPrefixPreparing, DiffPrefixComparing, DiffPrefixGiven, DiffPrefixResults
<1>4. Right("diff_packages")
  BY DEF Served, Asks, Takes, Holds, Stages, Given, Once, NoQueue, Results, DiffPackagesStages,
     DiffPackagesPreparing, DiffPackagesComparing, DiffPackagesGiven, DiffPackagesResults
<1> HIDE DEF Right
<1>5. \A c \in {"diff", "diff_config", "diff_prefix", "diff_packages"} : Right(c)
  BY <1>1, <1>2, <1>3, <1>4
<1> QED  BY <1>5 DEF Right

LEMMA ListingsServed ==
    \A c \in {"list_config", "list_history", "list_packages", "list_prefix"} :
        Served(c, 1) /\ \A slot \in Results[c] : Holds(c, 1, slot)
  BY DEF Served, Asks, Takes, Holds, Stages, Given, Once, Results, ListConfigFetching,
     ListHistoryFetching, ListPackagesFetching, ListPrefixFetching, ListConfigGiven, ListConfigResults,
     ListHistoryResults, ListPackagesResults, ListPrefixResults

LEMMA SearchesServed ==
    \A c \in {"search_files", "search_meta", "search_in_meta", "search_in_package_files"} :
        Served(c, 1) /\ \A slot \in Results[c] : Holds(c, 1, slot)
  BY DEF Served, Asks, Takes, Holds, Stages, Given, Once, Results, SearchFilesSearching,
     SearchMetaSearching, SearchInMetaSearching, SearchInPackageFilesSearching, SearchFilesGiven,
     SearchMetaGiven, SearchInMetaGiven, SearchInPackageFilesGiven, SearchFilesResults,
     SearchMetaResults, SearchInMetaResults, SearchInPackageFilesResults

\* Every stage is served, but for the hooks of the packages in install and update.
LEMMA StagesServed ==
    ASSUME NEW c \in Commands, NEW j \in 1 .. Len(Stages[c]), ~(c \in {"install", "update"} /\ j = 10)
    PROVE  Served(c, j)
<1>1. j \in 1 .. Lengths[c]
  BY StageCount
<1>2. CASE c \in {"install", "update", "uninstall", "files"}
  BY <1>1, <1>2, InstallServed, UpdateServed, UninstallServed, FilesServed DEF Lengths
<1>3. CASE c \in {"commit", "rollback", "gc", "mime", "pin_deploy"}
  BY <1>1, <1>3, CommitServed, RollbackServed, RestServed DEF Lengths
<1>4. CASE c \in Queries
  BY <1>1, <1>4, ComparisonsServed, ListingsServed, SearchesServed DEF Lengths, Queries
<1> QED  BY <1>2, <1>3, <1>4 DEF Commands, Writers

LEMMA ResultsServed == \A q \in Queries : \A slot \in Results[q] : Holds(q, Len(Stages[q]), slot)
  BY StageCount, ComparisonsServed, ListingsServed, SearchesServed DEF Lengths, Queries, Commands

\* The hooks of the packages in install and update look for what nothing puts there.
Puts(c) == UNION {Stages[c][i].put : i \in 1 .. Len(Stages[c])}

LEMMA NoTriggers ==
    \A c \in {"install", "update"} :
        /\ Stages[c][10] = Declarative
        /\ "DeclarativeTriggers" \notin Given[c] \cup Puts(c)
<1>1. Stages["install"][10] = Declarative /\ Stages["update"][10] = Declarative
  BY DEF Stages, InstallStages, UpdateStages
<1>2. \A c \in {"install", "update"} : "DeclarativeTriggers" \notin Given[c]
  BY DEF Given, InstallGiven, UpdateGiven
<1>3. \A i \in 1 .. 12 : "DeclarativeTriggers" \notin Stages["install"][i].put
  BY DEF Stages, InstallStages, Once, Each, NoQueue, PreHooks, InstallFetching, InstallPreparation,
     InstallOpen, InstallImport, InstallCommit, InstallMerge, InstallCheckout, InstallSwap, Declarative,
     PostHooks, Retention
<1>4. \A i \in 1 .. 12 : "DeclarativeTriggers" \notin Stages["update"][i].put
  BY DEF Stages, UpdateStages, Once, Each, NoQueue, PreHooks, UpdateFetching, UpdatePreparation,
     UpdateOpen, UpdateImport, UpdateCommit, UpdateMerge, UpdateCheckout, UpdateSwap, Declarative,
     PostHooks, Retention
<1>5. Len(Stages["install"]) = 12 /\ Len(Stages["update"]) = 12
  BY DEF Stages, InstallStages, UpdateStages
<1> QED  BY <1>1, <1>2, <1>3, <1>4, <1>5 DEF Puts

LEMMA NeedsTriggers == "DeclarativeTriggers" \in Declarative.get /\ Declarative.queue = NoQueue
  BY DEF Declarative, Once

\* A stage with a queue puts back all it takes, and no pipeline begins with one.
LEMMA QueuesReturn ==
    \A c \in Commands : \A j \in 1 .. Len(Stages[c]) :
        Stages[c][j].queue # NoQueue => Stages[c][j].take \subseteq Stages[c][j].put /\ j > 1
<1> DEFINE Back(c, j) == 
       Stages[c][j].queue # NoQueue => Stages[c][j].take \subseteq Stages[c][j].put /\ j > 1
<1>1. \A j \in 1 .. 12 : Back("install", j)
  BY DEF Stages, InstallStages, Once, Each, NoQueue, PreHooks, InstallFetching, InstallPreparation,
     InstallOpen, InstallImport, InstallCommit, InstallMerge, InstallCheckout, InstallSwap, Declarative,
     PostHooks, Retention
<1>2. \A j \in 1 .. 12 : Back("update", j)
  BY DEF Stages, UpdateStages, Once, Each, NoQueue, PreHooks, UpdateFetching, UpdatePreparation,
     UpdateOpen, UpdateImport, UpdateCommit, UpdateMerge, UpdateCheckout, UpdateSwap, Declarative,
     PostHooks, Retention
<1>3. \A j \in 1 .. 11 : Back("uninstall", j)
  BY DEF Stages, UninstallStages, Once, Each, NoQueue, PreHooks, UninstallPreparation, UninstallOpen,
     UninstallRemove, UninstallCommit, UninstallMerge, UninstallCheckout, UninstallSwap, Declarative,
     PostHooks, Retention
<1>4. \A j \in 1 .. 8 : Back("files", j)
  BY DEF Stages, FilesStages, Once, Each, NoQueue, PreHooks, FilesOpen, FilesApply, FilesCommit,
     FilesCheckout, FilesSwap, PostHooks, Retention
<1>5. /\ \A j \in 1 .. 4 : Back("commit", j)
      /\ \A j \in 1 .. 6 : Back("rollback", j)
      /\ \A c \in {"gc", "mime"}, j \in 1 .. 3 : Back(c, j)
      /\ Back("pin_deploy", 1)
  BY DEF Stages, Once, Each, NoQueue, CommitStages, RollbackStages, GcStages, PinStages, MimeStages,
     PreHooks, CommitTransaction, RollbackMerge, RollbackCheckout, RollbackSwap, PostHooks, Retention,
     GcPrune, GcCollect, GcCleaning, PinSetPinned, MimePreparing, MimeRendering, MimeWriting
<1>6. /\ \A c \in {"diff", "diff_config", "diff_prefix", "diff_packages"}, j \in 1 .. 2 : Back(c, j)
      /\ \A c \in {"list_config", "list_history", "list_packages", "list_prefix", "search_files",
                   "search_meta", "search_in_meta", "search_in_package_files"} : Back(c, 1)
  BY DEF Stages, Once, NoQueue, DiffStages, DiffConfigStages, DiffPrefixStages, DiffPackagesStages,
     DiffPreparing, DiffComparing, DiffConfigPreparing, DiffConfigComparing, DiffPrefixPreparing,
     DiffPrefixComparing, DiffPackagesPreparing, DiffPackagesComparing, ListConfigFetching,
     ListHistoryFetching, ListPackagesFetching, ListPrefixFetching, SearchFilesSearching,
     SearchMetaSearching, SearchInMetaSearching, SearchInPackageFilesSearching
<1> HIDE DEF Back
<1>7. \A c \in Commands : \A j \in 1 .. Lengths[c] : Back(c, j)
  <2>1. ASSUME NEW c \in Writers, NEW j \in 1 .. Lengths[c] PROVE Back(c, j)
    BY <2>1, <1>1, <1>2, <1>3, <1>4, <1>5 DEF Lengths, Writers
  <2>2. ASSUME NEW c \in Queries, NEW j \in 1 .. Lengths[c] PROVE Back(c, j)
    BY <2>2, <1>6 DEF Lengths, Queries
  <2> QED  BY <2>1, <2>2 DEF Commands
<1>8. \A c \in Commands : \A j \in 1 .. Len(Stages[c]) : Back(c, j)
  BY <1>7, StageCount
<1> QED  BY <1>8 DEF Back

---------------------------------------------------------------------------
(* States: the name of each position. *)

StateCounts ==
    [install |-> 12, update |-> 12, uninstall |-> 11, files |-> 9, commit |-> 5, rollback |-> 7, gc
     |-> 5, pin_deploy |-> 3, mime |-> 5, diff |-> 4, diff_config |-> 4, diff_prefix |-> 4,
     diff_packages |-> 4, list_config |-> 3, list_history |-> 3, list_packages |-> 3, list_prefix
     |-> 3, search_files |-> 3, search_meta |-> 3, search_in_meta |-> 3, search_in_package_files
     |-> 3]

LEMMA StateCount ==
    \A c \in Commands : /\ Len(States[c]) = StateCounts[c] /\ DOMAIN States[c] = 1 .. StateCounts[c]
                        /\ States[c][StateCounts[c]] = "Setup"
<1> DEFINE Right(c) ==
        /\ Len(States[c]) = StateCounts[c] /\ DOMAIN States[c] = 1 .. StateCounts[c]
        /\ States[c][StateCounts[c]] = "Setup"
<1>1. Right("install") /\ Right("update") /\ Right("uninstall") /\ Right("files")
  BY DEF StateCounts, States, InstallStates, UpdateStates, UninstallStates, FilesStates
<1>2. Right("commit") /\ Right("rollback") /\ Right("gc") /\ Right("mime") /\ Right("pin_deploy")
  BY DEF StateCounts, States, CommitStates, RollbackStates, GcStates, PinStates, MimeStates
<1>3. Right("diff") /\ Right("diff_config") /\ Right("diff_prefix") /\ Right("diff_packages")
  BY DEF StateCounts, States, DiffStates, DiffConfigStates, DiffPrefixStates, DiffPackagesStates
<1>4. /\ Right("list_config") /\ Right("list_history") /\ Right("list_packages") /\ Right("list_prefix")
      /\ Right("search_files") /\ Right("search_meta") /\ Right("search_in_meta")
      /\ Right("search_in_package_files")
  BY DEF StateCounts, States, ListConfigStates, ListHistoryStates, ListPackagesStates,
     ListPrefixStates, SearchFilesStates, SearchMetaStates, SearchInMetaStates,
     SearchInPackageFilesStates
<1> HIDE DEF Right
<1>5. \A c \in Commands : Right(c)
  BY <1>1, <1>2, <1>3, <1>4 DEF Commands, Writers, Queries
<1> QED  BY <1>5 DEF Right

LEMMA CountsAgree ==
    \A c \in Commands : /\ Lengths[c] \in 1 .. 12 /\ StateCounts[c] \in 1 .. 12
                        /\ Lengths[c] <= StateCounts[c]
                        /\ Lengths[c] = StateCounts[c] => c \in {"install", "update", "uninstall"}
  BY DEF Commands, Writers, Queries, Lengths, StateCounts

LEMMA AfterTheLast ==
    \A c \in Commands \ {"install", "update", "uninstall"} :
        States[c][Lengths[c] + 1] \in {"Done", "Setup"}
  BY DEF Commands, Writers, Queries, Lengths, States,
     FilesStates, CommitStates, RollbackStates, GcStates, PinStates, MimeStates, DiffStates,
     DiffConfigStates, DiffPrefixStates, DiffPackagesStates, ListConfigStates, ListHistoryStates,
     ListPackagesStates, ListPrefixStates, SearchFilesStates, SearchMetaStates, SearchInMetaStates,
     SearchInPackageFilesStates

\* Up to the first stage without one, the state at a position has the name of
\* the stage.
SameName(c, i) == States[c][i] = Stages[c][i].name

LEMMA InstallNames == \A i \in 1 .. 9 : SameName("install", i)
  BY DEF SameName, States, InstallStates, Stages, InstallStages, Once, Each, PreHooks, InstallFetching,
     InstallPreparation, InstallOpen, InstallImport, InstallCommit, InstallMerge, InstallCheckout,
     InstallSwap

LEMMA UpdateNames == \A i \in 1 .. 9 : SameName("update", i)
  BY DEF SameName, States, UpdateStates, Stages, UpdateStages, Once, Each, PreHooks, UpdateFetching,
     UpdatePreparation, UpdateOpen, UpdateImport, UpdateCommit, UpdateMerge, UpdateCheckout, UpdateSwap

LEMMA UninstallNames == \A i \in 1 .. 8 : SameName("uninstall", i)
  BY DEF SameName, States, UninstallStates, Stages, UninstallStages, Once, Each, PreHooks,
     UninstallPreparation, UninstallOpen, UninstallRemove, UninstallCommit, UninstallMerge,
     UninstallCheckout, UninstallSwap

LEMMA OtherNames ==
    /\ \A i \in 1 .. 7 : SameName("files", i)
    /\ \A i \in 1 .. 3 : SameName("commit", i)
    /\ \A i \in 1 .. 5 : SameName("rollback", i)
    /\ \A i \in 1 .. 3 : SameName("gc", i) /\ SameName("mime", i)
    /\ SameName("pin_deploy", 1)
  BY DEF SameName, States, Stages, Once, Each, FilesStates, FilesStages, CommitStates, CommitStages,
     RollbackStates, RollbackStages, GcStates, GcStages, PinStates, PinStages, MimeStates, MimeStages,
     PreHooks, PostHooks, FilesOpen, FilesApply, FilesCommit, FilesCheckout, FilesSwap,
     CommitTransaction, RollbackMerge, RollbackCheckout, RollbackSwap, GcPrune, GcCollect, GcCleaning,
     PinSetPinned, MimePreparing, MimeRendering, MimeWriting

LEMMA ComparisonNames ==
    \A i \in 1 .. 2 : /\ SameName("diff", i) /\ SameName("diff_config", i)
                      /\ SameName("diff_prefix", i) /\ SameName("diff_packages", i)
  BY DEF SameName, States, Stages, Once, DiffStates, DiffStages, DiffConfigStates, DiffConfigStages,
     DiffPrefixStates, DiffPrefixStages, DiffPackagesStates, DiffPackagesStages, DiffPreparing,
     DiffComparing, DiffConfigPreparing, DiffConfigComparing, DiffPrefixPreparing, DiffPrefixComparing,
     DiffPackagesPreparing, DiffPackagesComparing

LEMMA SingleNames ==
    /\ SameName("list_config", 1) /\ SameName("list_history", 1) /\ SameName("list_packages", 1)
    /\ SameName("list_prefix", 1) /\ SameName("search_files", 1) /\ SameName("search_meta", 1)
    /\ SameName("search_in_meta", 1) /\ SameName("search_in_package_files", 1)
  BY DEF SameName, States, Stages, Once, ListConfigStates, ListHistoryStates, ListPackagesStates,
     ListPrefixStates, SearchFilesStates, SearchMetaStates, SearchInMetaStates,
     SearchInPackageFilesStates, ListConfigFetching, ListHistoryFetching, ListPackagesFetching,
     ListPrefixFetching, SearchFilesSearching, SearchMetaSearching, SearchInMetaSearching,
     SearchInPackageFilesSearching

LEMMA UnnamedStages ==
    /\ Stages["install"][10] = Declarative /\ Stages["update"][10] = Declarative
    /\ Stages["uninstall"][9] = Declarative /\ Stages["files"][8] = Retention
    /\ Stages["commit"][4] = Retention /\ Stages["rollback"][6] = Retention
  BY DEF Stages, InstallStages, UpdateStages, UninstallStages, FilesStages, CommitStages, RollbackStages

LEMMA NamesAgree ==
    ASSUME NEW c \in Commands, NEW i \in 1 .. Lengths[c], Named(c, i)
    PROVE  SameName(c, i)
<1>1. CASE c \in {"install", "update", "uninstall"}
  BY <1>1, InstallNames, UpdateNames, UninstallNames, UnnamedStages DEF Named, Lengths
<1>2. CASE c \in {"files", "commit", "rollback", "gc", "mime", "pin_deploy"}
  BY <1>2, OtherNames, UnnamedStages DEF Named, Lengths
<1>3. CASE c \in Queries
  BY <1>3, ComparisonNames, SingleNames DEF Lengths, Queries
<1> QED  BY <1>1, <1>2, <1>3 DEF Commands, Writers

---------------------------------------------------------------------------
(* Responses: every struct that is handed out is one `free' knows. *)

\* The structs, and those one level beyond some of them.
Beyond(q, follows, structs) ==
    structs \cup {FieldsOf(q)[sf[1]][sf[2]].of : sf \in {l \in follows : l[1] \in structs}}

LEMMA ReachedInSteps ==
    ASSUME NEW q, NEW follows
    PROVE  ReachedBy(q, follows) = Beyond(q, follows, Beyond(q, follows, Beyond(q, follows, {q})))
  BY DEF ReachedBy, Beyond

LEMMA BeyondGrows ==
    ASSUME NEW q, NEW some, NEW more, some \subseteq more, NEW S, NEW T, S \subseteq T
    PROVE  Beyond(q, some, S) \subseteq Beyond(q, more, T)
  BY DEF Beyond

\* Fewer fields reach fewer structs.
LEMMA ReachedGrows ==
    ASSUME NEW q, NEW some, NEW more, some \subseteq more
    PROVE  ReachedBy(q, some) \subseteq ReachedBy(q, more)
<1>1. Beyond(q, some, {q}) \subseteq Beyond(q, more, {q})
  BY BeyondGrows
<1>2. Beyond(q, some, Beyond(q, some, {q})) \subseteq Beyond(q, more, Beyond(q, more, {q}))
  BY <1>1, BeyondGrows
<1>3. Beyond(q, some, Beyond(q, some, Beyond(q, some, {q})))
        \subseteq Beyond(q, more, Beyond(q, more, Beyond(q, more, {q})))
  BY <1>2, BeyondGrows
<1> QED  BY <1>3, ReachedInSteps

Composite(field) == field.class \in {"one", "many"} => field.of \in VALIDATABLE_COMPOSITES

LEMMA StructFields ==
    \A s \in DOMAIN Structs : \A f \in DOMAIN Structs[s] : Composite(Structs[s][f])
<1> DEFINE Known(struct) == \A f \in DOMAIN struct : Composite(struct[f])
<1>1. Known(CVersion) /\ Known(CPackageMeta) /\ Known(CDiffFileEntryCommon)
  BY DEF CVersion, CPackageMeta, CDiffFileEntryCommon, Composite, VALIDATABLE_COMPOSITES, Text, Maybe,
     One, Many
<1>2. Known(CDiffPrefixFileEntry) /\ Known(CDiffConfigFileEntry) /\ Known(CDiffUntrackedFileEntry)
  BY DEF CDiffPrefixFileEntry, CDiffConfigFileEntry, CDiffUntrackedFileEntry, Composite,
     VALIDATABLE_COMPOSITES, Text, Maybe, One, Many
<1>3. Known(CDiffPackageEntry) /\ Known(CConfigCommitEntry) /\ Known(CSearchFileEntry)
  BY DEF CDiffPackageEntry, CConfigCommitEntry, CSearchFileEntry, Composite, VALIDATABLE_COMPOSITES,
     Text, Maybe, One, Many
<1>4. Known(CPrefixEntry) /\ Known(CHistoryEntry)
  BY DEF CPrefixEntry, CHistoryEntry, Composite, VALIDATABLE_COMPOSITES, Text, Maybe, One, Many
<1> HIDE DEF Known
<1>5. \A s \in DOMAIN Structs : Known(Structs[s])
  BY <1>1, <1>2, <1>3, <1>4 DEF Structs
<1> QED  BY <1>5 DEF Known

LEMMA ResponseFields ==
    \A q \in DOMAIN Responses : \A f \in DOMAIN Responses[q] : Composite(Responses[q][f])
<1> DEFINE Known(struct) == \A f \in DOMAIN struct : Composite(struct[f])
<1>1. /\ Known(CListConfigResponse) /\ Known(CListPackagesResponse) /\ Known(CListPrefixResponse)
      /\ Known(CListHistoryResponse)
  BY DEF CListConfigResponse, CListPackagesResponse, CListPrefixResponse, CListHistoryResponse,
     Composite, VALIDATABLE_COMPOSITES, Many
<1>2. /\ Known(CSearchMetaResponse) /\ Known(CSearchInMetaResponse) /\ Known(CSearchFilesResponse)
      /\ Known(CSearchInPackageFilesResponse)
  BY DEF CSearchMetaResponse, CSearchInMetaResponse, CSearchFilesResponse,
     CSearchInPackageFilesResponse, Composite, VALIDATABLE_COMPOSITES, Many
<1>3. /\ Known(CDiffPrefixResponse) /\ Known(CDiffConfigResponse) /\ Known(CDiffPackagesResponse)
      /\ Known(CDiffResponse)
  BY DEF CDiffPrefixResponse, CDiffConfigResponse, CDiffPackagesResponse, CDiffResponse, Composite,
     VALIDATABLE_COMPOSITES, Many
<1> HIDE DEF Known
<1>4. \A q \in DOMAIN Responses : Known(Responses[q])
  BY <1>1, <1>2, <1>3 DEF Responses
<1> QED  BY <1>4 DEF Known

LEMMA EveryLinkIsFollowed == \A q \in DOMAIN Responses : FreeFollows(q) = Links(q)
<1> SUFFICES ASSUME NEW q \in DOMAIN Responses, NEW sf \in Links(q)
             PROVE  FieldsOf(q)[sf[1]][sf[2]].of \in VALIDATABLE_COMPOSITES
  BY DEF FreeFollows
<1>1. PICK s \in DOMAIN FieldsOf(q) : \E f \in DOMAIN FieldsOf(q)[s] :
         sf = <<s, f>> /\ FieldsOf(q)[s][f].class \in {"one", "many"}
  BY DEF Links
<1>2. FieldsOf(q)[s] = IF s \in DOMAIN Structs THEN Structs[s] ELSE Responses[q]
  BY <1>1 DEF FieldsOf, ++, At
<1> QED  BY <1>1, <1>2, StructFields, ResponseFields DEF Composite

LEMMA ResponsesOfQueries == DOMAIN Responses = Queries
  BY DEF Responses, Queries

\* Whatever is absent, the blocks of a response are in structs that `free' reaches.
LEMMA AllocatedIsFreeable ==
    ASSUME NEW q \in Queries, NEW absent, NEW blanks, NEW c \in Allocated(q, absent, blanks)
    PROVE  c.struct \in Freeable[q] /\ c.blank \in BOOLEAN
<1>1. c.struct \in ReachedBy(q, Links(q) \ absent) /\ c.blank \in BOOLEAN
  <2>1. PICK s \in ReachedBy(q, Links(q) \ absent) :
           \E f \in DOMAIN FieldsOf(q)[s] : c = Cell(s, f, <<s, f>> \in blanks)
    BY DEF Allocated
  <2>2. PICK f : c = Cell(s, f, <<s, f>> \in blanks)
    BY <2>1
  <2>3. c.struct = s /\ c.blank = (<<s, f>> \in blanks)
    BY <2>2, Zenon DEF Cell
  <2>4. c.blank \in BOOLEAN
    <3>1. CASE <<s, f>> \in blanks
      <4>1. c.blank = TRUE
        BY <2>3, <3>1, Zenon
      <4> QED  BY <4>1
    <3>2. CASE <<s, f>> \notin blanks
      <4>1. (<<s, f>> \in blanks) = FALSE
        BY <3>2
      <4>2. c.blank = FALSE
        BY <2>3, <4>1
      <4> QED  BY <4>2
    <3> QED  BY <3>1, <3>2
  <2> QED  BY <2>3, <2>4
<1>2. ReachedBy(q, Links(q) \ absent) \subseteq ReachedBy(q, Links(q))
  BY ReachedGrows
<1> QED  BY <1>1, <1>2, EveryLinkIsFollowed, ResponsesOfQueries DEF Freeable

LEMMA HandedOutIsFreeable ==
    ASSUME NEW q \in Queries, NEW h \in HandedOut[q], NEW c \in h
    PROVE  c.struct \in Freeable[q] /\ c.blank \in BOOLEAN
  BY AllocatedIsFreeable DEF HandedOut

---------------------------------------------------------------------------
(* The invariant of a call. *)

\* What the frontend asks for, and the token: it is up only after Ctrl-C.
ProgramInv ==
    /\ client \in {"cli", "foreign"}
    /\ items \in 0 .. MaxItems
    /\ items = 0 => fault.value = "Empty"
    /\ Len(calls) = 1 \/ (Len(calls) = 2 /\ calls[1] = "list_packages" /\ calls[2] = "uninstall")
    /\ Good(fault) \/ (Len(calls) = 1 /\ fault.field \in DOMAIN Requests[call])
    /\ token => signalled

Slots(c) == Given[c] \cup Puts(c)
Underway == {"locking", "looking", "telling", "running", "reporting", "returning"}

\* The position in the pipeline.
CursorInv ==
    /\ phase \in Phases
    /\ index \in 0 .. Len(stages)
    /\ left \in 0 .. MaxItems + 2
    /\ phase = "setup" => index = 0 /\ left = 0
    /\ phase \in {"telling", "running"} => index < Len(stages)
    /\ phase = "returning" => index = Len(stages)

\* The slots: all that the position can count on is there, and nothing else
\* than the pipeline handles.
ContextInv ==
    /\ have \subseteq UNION {Slots(c) : c \in Commands}
    /\ phase \in Underway =>
         /\ {slot \in Slots(call) : Holds(call, index, slot)} \subseteq have
         /\ have \subseteq Slots(call)
         /\ call \in {"install", "update"} => index < 10
         /\ index < Len(stages) /\ stage.queue # NoQueue => left > 0 \/ items = 0

\* The answer of a call, at the position where it was given.
AnswerInv ==
    phase = "answered" =>
        /\ answer.at = index
        /\ answer.cause # "done" => answer.state \in StateNames(call) /\ answer.kind \in ErrorKinds
        /\ answer.cause = "done" /\ call \in Queries => \A c \in held : c.struct \in Freeable[call]

HeldInv == \A c \in held : c.blank \in BOOLEAN

AnswersInv == AnswerInv /\ StagesFindTheirSlots /\ ReportedStage /\ CancelledIsToldApart /\ NothingLeaks
CallInv == Inv /\ ProgramInv /\ CursorInv /\ ContextInv /\ HeldInv /\ AnswersInv

---------------------------------------------------------------------------
(* Facts about the current call. *)

LEMMA CallIs == Inv /\ ProgramInv => call \in Commands
  BY DEF Inv, CallsInv, ProgramInv, call

\* A pipeline has no more stages than its command has states.
LEMMA StatesAre ==
    ASSUME NEW c \in Commands
    PROVE  /\ Len(Stages[c]) \in 1 .. 12 /\ Len(States[c]) \in 1 .. 12
           /\ Len(Stages[c]) <= Len(States[c])
           /\ "Setup" \in StateNames(c)
           /\ \A i \in 0 .. 12 : i < Len(States[c]) => States[c][i + 1] \in StateNames(c)
<1>1. /\ Len(States[c]) = StateCounts[c] /\ States[c][StateCounts[c]] = "Setup"
      /\ DOMAIN States[c] = 1 .. StateCounts[c]
      /\ StateCounts[c] \in 1 .. 12 /\ Lengths[c] \in 1 .. 12 /\ Lengths[c] <= StateCounts[c]
      /\ Len(Stages[c]) = Lengths[c]
  BY StateCount, StageCount, CountsAgree
<1>2. "Setup" \in StateNames(c)
  BY <1>1 DEF StateNames
<1>3. ASSUME NEW i \in 0 .. 12, i < Len(States[c]) PROVE States[c][i + 1] \in StateNames(c)
  <2>1. i + 1 \in 1 .. StateCounts[c]
    BY <1>1, <1>3
  <2> QED  BY <2>1, <1>1 DEF StateNames
<1> QED  BY <1>1, <1>2, <1>3

LEMMA CallStays ==
    ASSUME UNCHANGED request
    PROVE  call' = call /\ stages' = stages /\ calls' = calls /\ fault' = fault /\ items' = items
  BY DEF request, call, stages

---------------------------------------------------------------------------
(* How a step can end. *)

\* In a call that goes on.
LEMMA GoesOn ==
    ASSUME CallInv, UNCHANGED request, phase' \notin {"answered", "freed"}, CursorInv'
    PROVE  AnswersInv'
<1>1. call \in Commands /\ call' = call /\ stages' = stages
  BY CallIs, CallStays DEF CallInv
<1>2. phase' \in {"telling", "running"} => index' < Len(States[call])
  BY <1>1, StatesAre DEF CursorInv, stages
<1> QED
  BY <1>1, <1>2 DEF AnswersInv, AnswerInv, StagesFindTheirSlots, ReportedStage, CancelledIsToldApart,
     NothingLeaks

\* With the answer of a call that failed.
LEMMA Answered ==
    ASSUME CallInv, UNCHANGED <<request, signalled, index, left, have>>,
           phase' = "answered", held' = {},
           NEW state \in StateNames(call), NEW kind \in ErrorKinds, NEW cause,
           answer' = Answer(state, kind, cause, index), cause # "done",
           cause = "missing" => \/ call \in {"install", "update"} /\ stages[index + 1] = Declarative
                                \/ fault.value = "Empty",
           cause \in {"failed", "cancelled", "missing"} =>
              \/ index < Len(stages) /\ state = States[call][index + 1]
              \/ index = Len(stages) /\ state \in {"Done", "Setup"},
           cause \in {"refused", "setup", "lock", "panic"} => state = "Setup",
           kind = "Cancelled" => cause = "cancelled" /\ signalled,
           cause = "cancelled" => \/ kind = "Cancelled"
                                  \/ index < Len(stages) /\ stages[index + 1] \in Unpacking,
           cause = "unnamed" => call = "uninstall" /\ signalled
    PROVE  CursorInv' /\ ContextInv' /\ HeldInv' /\ AnswersInv'
<1>1. call \in Commands /\ call' = call /\ stages' = stages /\ fault' = fault
  BY CallIs, CallStays DEF CallInv
<1>2. answer'.state = state /\ answer'.kind = kind /\ answer'.cause = cause /\ answer'.at = index
  BY DEF Answer
<1>3. CursorInv' /\ ContextInv' /\ HeldInv'
  BY <1>1 DEF CallInv, CursorInv, ContextInv, HeldInv, Phases, Underway
<1>4. AnswerInv' /\ NothingLeaks'
  BY <1>1, <1>2 DEF AnswerInv, NothingLeaks, StateNames
<1>5. StagesFindTheirSlots'
  BY <1>1, <1>2 DEF StagesFindTheirSlots
<1>6. ReportedStage'
  <2>1. ASSUME index < Len(stages), state = States[call][index + 1], Named(call, index + 1)
        PROVE  state = stages[index + 1].name
    <3>1. index + 1 \in 1 .. Lengths[call]
      BY <1>1, <2>1, StageCount, CountsAgree DEF CallInv, CursorInv, stages
    <3> QED  BY <1>1, <2>1, <3>1, NamesAgree DEF SameName, stages
  <2>2. index \in Nat /\ Len(stages) \in Nat
    BY <1>1, StatesAre DEF CallInv, CursorInv, stages
  <2> QED  BY <1>1, <1>2, <2>1, <2>2 DEF ReportedStage
<1>7. CancelledIsToldApart'
  BY <1>1, <1>2 DEF CancelledIsToldApart
<1> QED  BY <1>3, <1>4, <1>5, <1>6, <1>7 DEF AnswersInv

LEMMA LeavesEarly ==
    ASSUME CallInv, NEW kind \in NotCancelled, NEW cause, LeaveEarly(kind, cause),
           \/ cause \in {"refused", "setup", "panic"}
           \/ cause = "unnamed" /\ call = "uninstall" /\ signalled
    PROVE  CursorInv' /\ ContextInv' /\ HeldInv' /\ AnswersInv'
<1>1. "Setup" \in StateNames(call)
  BY CallIs, StatesAre DEF CallInv
<1>2. kind \in ErrorKinds /\ kind # "Cancelled"
  BY DEF NotCancelled
<1> QED  BY <1>1, <1>2, Answered DEF LeaveEarly

\* The position has a state, but for one past the last of uninstall.
LEMMA FailsAt ==
    ASSUME CallInv, phase \in {"looking", "running"}, NEW kind \in ErrorKinds, NEW cause,
           FailAt(kind, cause), cause \in {"failed", "cancelled", "missing"},
           phase = "looking" => cause = "cancelled",
           cause = "missing" => \/ call \in {"install", "update"} /\ stages[index + 1] = Declarative
                                \/ fault.value = "Empty",
           kind = "Cancelled" => cause = "cancelled",
           cause = "cancelled" => /\ token
                                  /\ \/ kind = "Cancelled"
                                     \/ index < Len(stages) /\ stages[index + 1] \in Unpacking
    PROVE  CursorInv' /\ ContextInv' /\ HeldInv' /\ AnswersInv'
<1>1. call \in Commands /\ Len(stages) = Lengths[call] /\ Len(States[call]) = StateCounts[call]
  BY CallIs, StageCount, StateCount DEF CallInv, stages
<1>2. /\ Lengths[call] \in 1 .. 12 /\ StateCounts[call] \in 1 .. 12
      /\ Lengths[call] <= StateCounts[call]
      /\ Lengths[call] = StateCounts[call] => call \in {"install", "update", "uninstall"}
  BY <1>1, CountsAgree
<1>3. index \in 0 .. Lengths[call] /\ (phase = "running" => index < Lengths[call])
  BY <1>1 DEF CallInv, CursorInv
<1>4. cause = "cancelled" => signalled
  BY DEF CallInv, ProgramInv
<1>5. CASE index < Len(States[call])
  <2>1. States[call][index + 1] \in StateNames(call)
    <3>1. index \in 0 .. 12
      BY <1>2, <1>3
    <3> QED  BY <1>1, <1>5, <3>1, StatesAre
  <2>2. index = Len(stages) => States[call][index + 1] \in {"Done", "Setup"}
    <3>1. index = Len(stages) => call \notin {"install", "update", "uninstall"}
      BY <1>1, <1>5 DEF Lengths, StateCounts
    <3> QED  BY <1>1, <3>1, AfterTheLast
  <2>3. index < Len(stages) \/ index = Len(stages)
    BY <1>1, <1>2, <1>3
  <2>4. /\ answer' = Answer(States[call][index + 1], kind, cause, index) /\ phase' = "answered"
        /\ UNCHANGED <<request, signalled, index, left, have>> /\ held' = {}
    BY <1>5 DEF FailAt, Return, FromStageIndex
  <2> QED  BY <1>4, <2>1, <2>2, <2>3, <2>4, Answered
<1>6. CASE ~(index < Len(States[call]))
  <2>1. phase = "looking" /\ index = Lengths[call] /\ Lengths[call] = StateCounts[call]
    BY <1>1, <1>2, <1>3, <1>6
  <2>2. call \notin {"install", "update"}
    BY <2>1 DEF CallInv, ContextInv, Underway, Lengths
  <2>3. Panicked("unnamed")
    BY <1>6 DEF FailAt
  <2>4. "Unexpected" \in NotCancelled
    BY DEF NotCancelled, ErrorKinds
  <2> QED  BY <1>2, <1>4, <2>1, <2>2, <2>3, <2>4, LeavesEarly DEF Panicked
<1> QED  BY <1>5, <1>6

---------------------------------------------------------------------------
(* The steps. *)

LEMMA ProgramStarts == Init => ProgramInv
<1> SUFFICES ASSUME Init PROVE ProgramInv
  OBVIOUS
<1>1. CASE client = "cli"
  <2>1. calls \in Programs /\ fault = NoFault
    BY <1>1 DEF Init
  <2>2. (\E c \in Commands : calls = <<c>>) \/ calls = <<"list_packages", "uninstall">>
    BY <2>1 DEF Programs, Package, File, Commit, PkgInstall, PkgUpdate, PkgRemove, PkgList, PkgDiff,
       PkgSearch, FileAdd, FileRemove, FileDiff, FileSearch, CommitDiff, CommitHistory, CommitList,
       CommitNew, CommitPin, CommitPrefixes, CommitUnpin, Diff, Gc, Mime, Rollback, Commands, Writers,
       Queries
  <2>3. fault.value = "Good"
    BY <2>1 DEF NoFault
  <2> QED  BY <1>1, <2>2, <2>3, MaxItemsAssumption DEF Init, ProgramInv, Good
<1>2. CASE client = "foreign"
  <2>1. PICK c \in Commands : /\ calls = <<c>>
                              /\ \E f \in DOMAIN Requests[c] : \E v : fault = [field |-> f, value |-> v]
    BY <1>2 DEF Init
  <2>2. Len(calls) = 1 /\ call = c /\ fault.field \in DOMAIN Requests[c]
    BY <2>1 DEF call
  <2> QED  BY <1>2, <2>2, MaxItemsAssumption DEF Init, ProgramInv
<1> QED  BY <1>1, <1>2 DEF Init

LEMMA CallStarts == Init => CallInv
<1> SUFFICES ASSUME Init PROVE CallInv
  OBVIOUS
<1>1. Inv /\ ProgramInv
  BY InitInv, ProgramStarts
<1>2. Len(stages) \in 1 .. 12
  BY <1>1, CallIs, StatesAre DEF stages
<1>3. CursorInv
  BY <1>2, MaxItemsAssumption DEF Init, CursorInv, Phases
<1>4. ContextInv /\ HeldInv /\ AnswersInv
  BY DEF Init, ContextInv, Underway, HeldInv, AnswersInv, AnswerInv, StagesFindTheirSlots,
     ReportedStage, CancelledIsToldApart, NothingLeaks
<1> QED  BY <1>1, <1>3, <1>4 DEF CallInv

LEMMA FailAtSame ==
    ASSUME NEW kind, NEW cause, FailAt(kind, cause)
    PROVE  UNCHANGED request /\ signalled' = signalled /\ (token' => token)
  BY DEF FailAt, Return, Panicked, LeaveEarly

LEMMA ProgramKept == CallInv /\ [Next]_vars => ProgramInv'
<1> SUFFICES ASSUME CallInv, [Next]_vars PROVE ProgramInv'
  OBVIOUS
<1>1. ASSUME UNCHANGED request, ((token' => token) /\ signalled' = signalled) \/ signalled' = TRUE
      PROVE  ProgramInv'
  BY <1>1, CallStays DEF CallInv, ProgramInv, request, Good
<1>2. CASE Signal
  BY <1>1, <1>2 DEF Signal
<1>3. CASE Proceed
  <2>1. CASE calls' = calls
    BY <1>1, <1>3, <2>1 DEF Proceed, request
  <2>2. CASE answer.cause = "done" /\ Len(calls) > 1 /\ calls' = Tail(calls)
    <3>1. Len(calls) = 2 /\ calls \in Seq(Commands)
      BY <2>2 DEF CallInv, Inv, CallsInv, ProgramInv
    <3>2. Len(calls') = 1
      BY <2>2, <3>1
    <3> QED  BY <1>3, <3>1, <3>2 DEF Proceed, CallInv, ProgramInv, Good
  <2> QED  BY <1>3, <2>1, <2>2 DEF Proceed
<1>4. CASE Load \/ RequireWrite \/ Convert \/ Setup \/ Choose
  BY <1>1, <1>4 DEF Load, RequireWrite, Convert, Setup, Choose, LeaveEarly
<1>5. CASE Acquire \/ Finish
  BY <1>1, <1>5 DEF Acquire, Finish, Return
<1>6. CASE Look \/ Misses \/ Fails \/ GivesUp
  BY <1>1, <1>6, FailAtSame DEF Look, Misses, Fails, GivesUp
<1>7. CASE Tell \/ Report \/ RunStage \/ Panics \/ Free \/ ReadsNoText
  BY <1>1, <1>7 DEF Tell, Report, SendProgress, RunStage, Panics, Panicked, LeaveEarly, Free,
     ReadsNoText
<1>8. CASE UNCHANGED vars
  BY <1>1, <1>8 DEF vars, request
<1> QED  BY <1>2, <1>3, <1>4, <1>5, <1>6, <1>7, <1>8 DEF Next, Work

LEMMA Bounds ==
    CallInv => /\ call \in Commands /\ Len(stages) = Lengths[call] /\ Len(stages) \in 1 .. 12
               /\ index \in 0 .. Len(stages)
  BY CallIs, StageCount, CountsAgree DEF CallInv, CursorInv, stages

\* The invariant but for the program and the token.
Rest == CursorInv /\ ContextInv /\ HeldInv /\ AnswersInv

LEMMA ConvertKeeps == CallInv /\ Convert => Rest'
<1> SUFFICES ASSUME CallInv, Convert PROVE Rest'
  OBVIOUS
<1>1. CASE phase' = "setup"
  <2>1. UNCHANGED request /\ index' = 0 /\ left' = 0 /\ have' = {} /\ UNCHANGED held
    BY <1>1 DEF Convert, LeaveEarly
  <2>2. CursorInv'
    BY <1>1, <2>1, Bounds, CallStays, MaxItemsAssumption DEF CursorInv, Phases
  <2>3. ContextInv' /\ HeldInv'
    BY <1>1, <2>1 DEF ContextInv, HeldInv, Underway, CallInv
  <2> QED  BY <1>1, <2>1, <2>2, <2>3, GoesOn DEF Rest
<1>2. CASE phase' # "setup"
  <2>1. PICK verdict :
           verdict = IF Good(fault) THEN "Accepted" ELSE Verdict(call, fault.field, fault.value)
    OBVIOUS
  <2>2. verdict # "Accepted" /\ LeaveEarly(verdict, "refused")
    BY <1>2, <2>1 DEF Convert
  <2>3. verdict \in NotCancelled
    BY <2>1, <2>2, Verdicts, Bounds DEF CallInv, ProgramInv
  <2> QED  BY <2>2, <2>3, LeavesEarly DEF Rest
<1> QED  BY <1>1, <1>2

LEMMA SetupKeeps == CallInv /\ Setup => Rest'
<1> SUFFICES ASSUME CallInv, Setup PROVE Rest'
  OBVIOUS
<1>1. CASE phase' # "answered"
  <2>1. /\ UNCHANGED <<request, index, left, held>> /\ have' = Given[call]
        /\ phase' \in {"locking", "looking"}
        /\ index = 0 /\ left = 0 /\ call' = call /\ stages' = stages /\ stage' = stage /\ items' = items
    BY <1>1, CallStays DEF Setup, LeaveEarly, CallInv, CursorInv, stage
  <2>2. CursorInv'
    BY <2>1, Bounds DEF CursorInv, Phases, CallInv
  <2>3. \A slot : Holds(call, 0, slot) => slot \in Given[call]
    BY DEF Holds
  <2>4. index < Len(stages) => stage.queue = NoQueue
    BY <2>1, Bounds, QueuesReturn DEF stage, stages
  <2>5. ContextInv'
    BY <2>1, <2>3, <2>4, Bounds DEF ContextInv, Slots
  <2> QED  BY <2>1, <2>2, <2>5, GoesOn DEF Rest, HeldInv, CallInv
<1>2. CASE phase' = "answered"
  <2>1. PICK e \in SetupErrors(call) : LeaveEarly(KindOf(call, e), "setup")
    BY <1>2 DEF Setup
  <2> QED  BY <2>1, Bounds, SetupKinds, LeavesEarly DEF Rest
<1> QED  BY <1>1, <1>2

\* A step that only goes on to the next phase of the call.
LEMMA PhaseMoves ==
    ASSUME CallInv, UNCHANGED <<request, index, left, have, held>>,
           phase' \in Phases \ {"answered", "freed", "setup"},
           phase' \in {"telling", "running"} => index < Len(stages),
           phase' = "returning" => index = Len(stages),
           phase' \in Underway => phase \in Underway
    PROVE  Rest'
<1>1. call' = call /\ stages' = stages /\ stage' = stage /\ items' = items
  BY CallStays DEF stage
<1>2. CursorInv' /\ ContextInv' /\ HeldInv'
  BY <1>1 DEF CallInv, CursorInv, ContextInv, HeldInv
<1> QED  BY <1>2, GoesOn DEF Rest

LEMMA PhasesKeep ==
    CallInv /\ (Load \/ RequireWrite \/ Choose \/ ReadsNoText \/ Tell \/ Report) => Rest'
<1>1. CallInv /\ (Load \/ RequireWrite \/ Choose \/ ReadsNoText) => Rest'
  BY PhaseMoves DEF Load, RequireWrite, Choose, ReadsNoText, Phases, Underway
<1>2. CallInv /\ (Tell \/ Report) => Rest'
  BY PhaseMoves DEF Tell, Report, SendProgress, Phases, Underway, CallInv, CursorInv
<1> QED  BY <1>1, <1>2

LEMMA AcquireKeeps == CallInv /\ Acquire => Rest'
<1> SUFFICES ASSUME CallInv, Acquire PROVE Rest'
  OBVIOUS
<1>1. CASE phase' # "answered"
  BY <1>1, PhaseMoves DEF Acquire, Return, Phases, Underway
<1>2. CASE phase' = "answered"
  <2>1. PICK v \in LockRaised : Return("Setup", LockKind[v], "lock") /\ held' = {}
    BY <1>2 DEF Acquire
  <2>2. LockKind[v] \in ErrorKinds /\ LockKind[v] # "Cancelled"
    BY LockKinds DEF NotCancelled
  <2>3. "Setup" \in StateNames(call)
    BY Bounds, StatesAre
  <2> QED  BY <2>1, <2>2, <2>3, Answered DEF Return, Rest
<1> QED  BY <1>1, <1>2

LEMMA LookKeeps == CallInv /\ Look => Rest'
<1> SUFFICES ASSUME CallInv, Look PROVE Rest'
  OBVIOUS
<1>1. CASE ~token
  BY <1>1, PhaseMoves DEF Look, Phases, Underway
<1>2. CASE token
  BY <1>2, CommonKinds, FailsAt DEF Look, Rest, ErrorKinds
<1> QED  BY <1>1, <1>2

\* Where the engine asks for them, the slots of a stage are there.
LEMMA ServedIsReady ==
    ASSUME CallInv, phase = "running",
           ~(call \in {"install", "update"} /\ stages[index + 1] = Declarative)
    PROVE  /\ stage.take \cup stage.get \subseteq have
           /\ Ready \/ fault.value = "Empty"
<1>1. index + 1 \in 1 .. Len(Stages[call]) /\ index \in Nat
  BY Bounds DEF CallInv, CursorInv, stages
<1>2. ~(call \in {"install", "update"} /\ index + 1 = 10)
  BY NoTriggers DEF stages
<1>3. Served(call, index + 1)
  BY <1>1, <1>2, Bounds, StagesServed
<1>4. ASSUME NEW slot \in Asks(call, index + 1) PROVE slot \in have
  <2>1. Holds(call, index, slot)
    BY <1>1, <1>3, <1>4 DEF Served
  <2>2. slot \in Slots(call)
    BY <1>1, <2>1 DEF Holds, Slots, Puts
  <2> QED  BY <2>1, <2>2 DEF CallInv, ContextInv, Underway
<1>5. stage.queue # NoQueue => left > 0 \/ items = 0
  BY DEF CallInv, CursorInv, ContextInv, Underway
<1> QED  BY <1>4, <1>5 DEF Asks, stage, stages, Ready, CallInv, ProgramInv

LEMMA MissesKeeps == CallInv /\ Misses => Rest'
<1> SUFFICES ASSUME CallInv, Misses PROVE Rest'
  OBVIOUS
<1>1. \/ call \in {"install", "update"} /\ stages[index + 1] = Declarative
      \/ fault.value = "Empty"
  BY ServedIsReady DEF Misses
<1>2. CommonKind["MissingResult"] \in ErrorKinds /\ CommonKind["MissingResult"] # "Cancelled"
  BY CommonKinds DEF NotCancelled
<1> QED  BY <1>1, <1>2, FailsAt DEF Misses, Rest

LEMMA FinishKeeps == CallInv /\ Finish => Rest'
<1> SUFFICES ASSUME CallInv, Finish PROVE Rest'
  OBVIOUS
<1>1. ASSUME call \in Queries PROVE Complete
  <2>1. ASSUME NEW slot \in Results[call] PROVE slot \in have
    <3>1. Holds(call, index, slot)
      BY <1>1, <2>1, ResultsServed DEF Finish, CallInv, CursorInv, stages
    <3>2. slot \in Slots(call)
      BY <3>1, Bounds DEF Holds, Slots, Puts, stages
    <3> QED  BY <3>1, <3>2 DEF Finish, CallInv, ContextInv, Underway
  <2> QED  BY <2>1 DEF Complete
<1>2. /\ UNCHANGED <<request, signalled, index, left, have>> /\ phase' = "answered"
      /\ answer' = Answer("none", "none", "done", index)
      /\ held' = {} \/ (call \in Queries /\ held' \in HandedOut[call])
  BY <1>1, Bounds DEF Finish, Return, Commands
<1>3. call' = call /\ stages' = stages
  BY <1>2, CallStays
<1>4. /\ answer'.kind = "none" /\ answer'.cause = "done" /\ answer'.at = index
  BY <1>2 DEF Answer
<1>5. CursorInv' /\ ContextInv'
  BY <1>2, <1>3 DEF CallInv, CursorInv, ContextInv, Phases, Underway
<1>6. \A c \in held' : c.blank \in BOOLEAN /\ (call \in Queries => c.struct \in Freeable[call])
  BY <1>2, HandedOutIsFreeable
<1> QED
  BY <1>2, <1>3, <1>4, <1>5, <1>6 DEF Rest, HeldInv, AnswersInv, AnswerInv, StagesFindTheirSlots,
     ReportedStage, CancelledIsToldApart, NothingLeaks

LEMMA FailsKeeps == CallInv /\ Fails => Rest'
<1> SUFFICES ASSUME CallInv, Fails PROVE Rest'
  OBVIOUS
<1>1. PICK kind \in FailureKinds[call] : FailAt(kind, "failed")
  BY DEF Fails
<1>2. kind \in ErrorKinds /\ kind # "Cancelled"
  BY StageKinds, Bounds DEF NotCancelled
<1> QED  BY <1>1, <1>2, FailsAt DEF Fails, Rest

LEMMA GivesUpKeeps == CallInv /\ GivesUp => Rest'
<1> SUFFICES ASSUME CallInv, GivesUp PROVE Rest'
  OBVIOUS
<1>1. phase = "running" /\ token /\ index < Len(stages)
  BY DEF GivesUp, CallInv, CursorInv
<1>2. CASE FailAt("Cancelled", "cancelled")
  BY <1>1, <1>2, FailsAt DEF Rest, ErrorKinds
<1>3. CASE stage \in Unpacking /\ FailAt(DecodingCancelled, "cancelled")
  <2>1. DecodingCancelled \in ErrorKinds
    BY OwnCancels DEF NotCancelled
  <2> QED  BY <1>1, <1>3, <2>1, FailsAt DEF Rest, stage
<1> QED  BY <1>2, <1>3, CommonKinds, OwnCancels DEF GivesUp

LEMMA PanicsKeeps == CallInv /\ Panics => Rest'
<1>1. "Unexpected" \in NotCancelled
  BY DEF NotCancelled, ErrorKinds
<1> QED  BY <1>1, LeavesEarly DEF Panics, Panicked, Rest

LEMMA FreeKeeps == CallInv /\ Free => Rest'
<1> SUFFICES ASSUME CallInv, Free PROVE Rest'
  OBVIOUS
<1>1. /\ UNCHANGED <<request, index, left, have>> /\ phase' = "freed"
      /\ held' = {c \in held : c.struct \notin Freeable[call] \/ c.blank}
  BY DEF Free, Freed
<1>2. call' = call /\ stages' = stages
  BY <1>1, CallStays
<1>3. CursorInv' /\ ContextInv' /\ HeldInv'
  BY <1>1, <1>2 DEF CallInv, CursorInv, ContextInv, HeldInv, Phases, Underway
<1>4. \A c \in held : c.struct \in Freeable[call]
  BY DEF Free, CallInv, AnswersInv, AnswerInv
<1> QED
  BY <1>1, <1>3, <1>4 DEF Rest, AnswersInv, AnswerInv, StagesFindTheirSlots, ReportedStage,
     CancelledIsToldApart, NothingLeaks

LEMMA ProceedKeeps == CallInv /\ Proceed => Rest'
<1> SUFFICES ASSUME CallInv, Proceed PROVE Rest'
  OBVIOUS
<1>1. UNCHANGED <<index, left, have, held>> /\ phase' \in {"choosing", "ended"}
  BY DEF Proceed
<1>2. index \in 0 .. Len(stages')
  <2>1. CASE calls' = calls
    BY <2>1, Bounds DEF stages, call
  <2>2. CASE Len(calls) > 1 /\ calls' = Tail(calls)
    <3>1. /\ Len(calls) = 2 /\ calls \in Seq(Commands)
          /\ calls[1] = "list_packages" /\ calls[2] = "uninstall"
      BY <2>2 DEF CallInv, Inv, CallsInv, ProgramInv
    <3>2. call = "list_packages" /\ call' = "uninstall"
      <4>1. Tail(calls)[1] = calls[2]
        BY <3>1
      <4>2. call' = Tail(calls)[1]
        BY <2>2 DEF call
      <4> QED  BY <3>1, <4>1, <4>2 DEF call
    <3>3. Len(stages') = 11 /\ Len(stages) = 1
      BY <3>2, Bounds DEF stages, Lengths, Stages, UninstallStages
    <3> QED  BY <3>3, Bounds
  <2> QED  BY <2>1, <2>2 DEF Proceed
<1>3. CursorInv' /\ ContextInv' /\ HeldInv'
  BY <1>1, <1>2 DEF CallInv, CursorInv, ContextInv, HeldInv, Phases, Underway
<1> QED
  BY <1>1, <1>3 DEF Rest, AnswersInv, AnswerInv, StagesFindTheirSlots, ReportedStage,
     CancelledIsToldApart, NothingLeaks

\* The token alone; an answer that tells of a cancel does so still.
LEMMA SignalKeeps == CallInv /\ Signal => Rest'
<1> SUFFICES ASSUME CallInv, Signal PROVE Rest'
  OBVIOUS
<1>1. UNCHANGED <<request, phase, index, left, have, answer, held>> /\ signalled'
  BY DEF Signal
<1>2. call' = call /\ stages' = stages /\ stage' = stage /\ items' = items /\ fault' = fault
  BY <1>1, CallStays DEF stage
<1> QED
  BY <1>1, <1>2 DEF CallInv, Rest, CursorInv, ContextInv, HeldInv, AnswersInv, AnswerInv,
     StagesFindTheirSlots, ReportedStage, CancelledIsToldApart, NothingLeaks

LEMMA StutterKeeps == CallInv /\ UNCHANGED vars => Rest'
<1> SUFFICES ASSUME CallInv, UNCHANGED vars PROVE Rest'
  OBVIOUS
<1>1. UNCHANGED <<request, phase, index, left, have, answer, held, signalled>>
  BY DEF vars, request
<1>2. call' = call /\ stages' = stages /\ stage' = stage /\ items' = items /\ fault' = fault
  BY <1>1, CallStays DEF stage
<1> QED
  BY <1>1, <1>2 DEF CallInv, Rest, CursorInv, ContextInv, HeldInv, AnswersInv, AnswerInv,
     StagesFindTheirSlots, ReportedStage, CancelledIsToldApart, NothingLeaks

LEMMA RunStageKeeps == CallInv /\ RunStage => Rest'
<1> SUFFICES ASSUME CallInv, RunStage PROVE Rest'
  OBVIOUS
<1>1. /\ phase = "running" /\ phase' = "reporting" /\ UNCHANGED <<request, held>>
      /\ have' = (have \ stage.take) \cup stage.put
  BY DEF RunStage
<1>2. call' = call /\ stages' = stages /\ items' = items /\ fault' = fault
  BY <1>1, CallStays
<1>3. /\ call \in Commands /\ index \in Nat /\ index < Len(stages)
      /\ index + 1 \in 1 .. Len(Stages[call])
      /\ stages = Stages[call] /\ stage = Stages[call][index + 1] /\ Len(stages) \in 1 .. 12
  BY <1>1, Bounds DEF CallInv, CursorInv, stage, stages
<1>4. have' \subseteq Slots(call)
  BY <1>1, <1>3 DEF CallInv, ContextInv, Underway, Slots, Puts
<1>5. left \in 0 .. MaxItems + 2 /\ items \in 0 .. MaxItems /\ MaxItems \in Nat \ {0}
  BY MaxItemsAssumption DEF CallInv, CursorInv, ProgramInv
<1>6. CASE Repeats
  <2>1. index' = index /\ left' = left - 1 /\ left > 1 /\ stage.queue # NoQueue
    BY <1>6 DEF RunStage, Repeats
  <2>2. CursorInv'
    BY <1>1, <1>2, <1>3, <1>5, <2>1 DEF CursorInv, Phases
  <2>3. stage.take \subseteq stage.put
    BY <1>3, <2>1, QueuesReturn
  <2>4. ContextInv'
    <3>1. have \subseteq have'
      BY <1>1, <2>3
    <3>2. left' > 0
      BY <1>5, <2>1
    <3> QED
      BY <1>1, <1>2, <1>3, <1>4, <2>1, <3>1, <3>2 DEF CallInv, ContextInv, Underway
  <2> QED  BY <1>1, <2>2, <2>4, GoesOn DEF Rest, HeldInv, CallInv
<1>7. CASE ~Repeats
  <2>1. /\ index' = index + 1
        /\ left' \in IF index + 1 < Len(stages) /\ stages[index + 2].queue # NoQueue
                     THEN Queued(stages[index + 2].queue) ELSE {0}
    BY <1>7 DEF RunStage
  <2>2. \A queue : \A n \in Queued(queue) : n \in 0 .. MaxItems + 2 /\ (n > 0 \/ items = 0)
    BY <1>5 DEF Queued
  <2>3. left' \in 0 .. MaxItems + 2
    BY <1>5, <2>1, <2>2
  <2>4. CursorInv'
    BY <1>1, <1>2, <1>3, <2>1, <2>3 DEF CursorInv, Phases
  <2>5. ASSUME NEW slot \in Slots(call), Holds(call, index + 1, slot) PROVE slot \in have'
    <3>1. CASE slot \in stage.put
      BY <1>1, <3>1
    <3>2. CASE slot \notin stage.put
      <4>1. Holds(call, index, slot) /\ slot \notin Takes(call, index + 1)
        BY <1>3, <2>5, <3>2 DEF Holds
      <4>2. slot \in have /\ slot \notin stage.take
        BY <1>1, <1>3, <3>2, <4>1 DEF CallInv, ContextInv, Underway, Takes
      <4> QED  BY <1>1, <4>2
    <3> QED  BY <3>1, <3>2
  <2>6. call \in {"install", "update"} => index + 1 < 10
    <3>1. ASSUME call \in {"install", "update"}, index + 1 = 10 PROVE FALSE
      <4>1. stage = Declarative /\ "DeclarativeTriggers" \notin Slots(call)
        BY <1>3, <3>1, NoTriggers DEF Slots
      <4> QED
        BY <1>1, <4>1, NeedsTriggers DEF RunStage, Ready, CallInv, ContextInv, Underway
    <3> QED  BY <1>1, <1>3, <3>1 DEF CallInv, ContextInv, Underway
  <2>7. index' < Len(stages) /\ stages[index' + 1].queue # NoQueue => left' > 0 \/ items = 0
    <3>1. index' + 1 = index + 2
      BY <1>3, <2>1
    <3> QED  BY <2>1, <2>2, <3>1
  <2>8. ContextInv'
    BY <1>1, <1>2, <1>3, <1>4, <2>1, <2>5, <2>6, <2>7 DEF ContextInv, stage
  <2> QED  BY <1>1, <2>4, <2>8, GoesOn DEF Rest, HeldInv, CallInv
<1> QED  BY <1>6, <1>7

LEMMA CallKept == CallInv /\ [Next]_vars => CallInv'
<1> SUFFICES ASSUME CallInv, [Next]_vars PROVE CallInv'
  OBVIOUS
<1>1. Inv' /\ ProgramInv'
  BY NextInv, ProgramKept DEF CallInv
<1>2. Rest'
  <2>1. CASE Load \/ RequireWrite \/ Choose \/ ReadsNoText \/ Tell \/ Report
    BY <2>1, PhasesKeep
  <2>2. CASE Convert \/ Setup \/ Acquire \/ Look \/ Finish
    BY <2>2, ConvertKeeps, SetupKeeps, AcquireKeeps, LookKeeps, FinishKeeps
  <2>3. CASE Misses \/ RunStage \/ Fails \/ GivesUp \/ Panics
    BY <2>3, MissesKeeps, RunStageKeeps, FailsKeeps, GivesUpKeeps, PanicsKeeps
  <2>4. CASE Free \/ Proceed \/ Signal \/ UNCHANGED vars
    BY <2>4, FreeKeeps, ProceedKeeps, SignalKeeps, StutterKeeps
  <2> QED  BY <2>1, <2>2, <2>3, <2>4 DEF Next, Work
<1> QED  BY <1>1, <1>2 DEF CallInv, Rest

LEMMA CallInvHolds == Spec => []CallInv
  BY CallStarts, CallKept, PTL DEF Spec

---------------------------------------------------------------------------
(* The invariants of the run. *)

\* Every variable keeps to its kind; a failure is told with a state of its
\* command and an ErrorKind.
THEOREM CallTypes == Spec => []TypeOK
<1>1. CallInv => TypeOK
  <2> SUFFICES ASSUME CallInv PROVE TypeOK
    OBVIOUS
  <2>1. have \subseteq UNION {Given[c] \cup UNION {Stages[c][i].put : i \in DOMAIN Stages[c]} :
                             c \in Commands}
    <3>1. \A c \in Commands : DOMAIN Stages[c] = 1 .. Len(Stages[c])
      BY StageCount
    <3> QED  BY <3>1 DEF CallInv, ContextInv, Slots, Puts
  <2> QED
    BY <2>1 DEF TypeOK, CallInv, Inv, CallsInv, TokenInv, ProgramInv, CursorInv, HeldInv, AnswersInv,
       AnswerInv
<1> QED  BY <1>1, CallInvHolds, PTL

\* Through every pipeline each stage finds the slots it asks for, but the hooks
\* of the packages in install and update, and a list the frontend sent empty;
\* a query finds its results.
THEOREM SlotsAreFound == Spec => []StagesFindTheirSlots
  BY CallInvHolds, PTL DEF CallInv, AnswersInv

\* A failure is told with the name of the stage that was at work, as far as the
\* command has names; no stage is announced under a position without one.
THEOREM StagesAreTold == Spec => []ReportedStage
  BY CallInvHolds, PTL DEF CallInv, AnswersInv

\* Cancelled tells of a cancelled call and of nothing else, and a cancelled call
\* is told otherwise only from inside a decoder and at the end of an uninstall.
THEOREM CancelIsToldApart == Spec => []CancelledIsToldApart
  BY CallInvHolds, PTL DEF CallInv, AnswersInv

\* `free' gives back every block of a response but the terminators of empty texts.
THEOREM ResponsesAreFreed == Spec => []NothingLeaks
  BY CallInvHolds, PTL DEF CallInv, AnswersInv
=============================================================================
