----------------------------- MODULE Pipelines -----------------------------
(***************************************************************************)
(* The stages of every exported command and the slots of the Context they  *)
(* exchange.  A slot is a type: a stage takes it, looks at it, or puts it. *)
(* A stage that works through a queue handles one item a time and repeats  *)
(* itself until the queue is empty; it puts back everything it took.       *)
(*                                                                         *)
(* XGiven are the slots the run function of the command X fills from the   *)
(* request, XStages its pipeline and XStates the states it can name.       *)
(***************************************************************************)
EXTENDS Sequences, FiniteSets

NoQueue == "none"

Once(name, take, get, put) ==
    [name |-> name, take |-> take, get |-> get, put |-> put, queue |-> NoQueue]

Each(name, queue, take, get) ==
    [name |-> name, take |-> take \cup {queue}, get |-> get, put |-> take \cup {queue}, queue |-> queue]

PreHooks == Once("PreHooks", {}, {}, {})
PostHooks == Once("PostHooks", {}, {}, {})
Declarative == Once("Declarative", {}, {"DeclarativeTriggers"}, {})
Retention == Once("Retention", {}, {"Deploy"}, {})

---------------------------------------------------------------------------
(* install and update *)

InstallGiven ==
    {"Deploy", "UnpackerState", "PendingPackagePaths", "PendingPackages", "TotalPackages", "TmpPath",
     "Subject", "CommitMessage", "RequestedBootPlugin", "AllowConflictFiles", "Message"}

InstallFetching == Once("Fetching", {}, {}, {})
InstallPreparation ==
    Each("Preparation", "PendingPackagePaths", {"UnpackerState", "PendingPackages"},
         {"TmpPath", "TotalPackages"})
InstallOpen ==
    Once("OpenTransaction", {}, {"Deploy"},
         {"ImportedTree", "ImportedConfigDefaults", "ImportedDatabase", "ImportContext"})
InstallImport ==
    Each("ImportPackage", "PendingPackages",
         {"ImportedTree", "ImportedConfigDefaults", "ImportedDatabase", "ImportContext"},
         {"TotalPackages", "Deploy"})
InstallCommit ==
    Once("CommitTransaction",
         {"ImportedTree", "ImportedConfigDefaults", "ImportedDatabase", "ImportContext"},
         {"TmpPath", "Deploy"}, {"NewPrefixDigest", "NewConfigDefaults"})
InstallMerge ==
    Once("Merge", {"NewConfigDefaults"},
         {"NewPrefixDigest", "Deploy", "Subject", "CommitMessage", "AllowConflictFiles"}, {})
InstallCheckout ==
    Once("Checkout", {}, {"NewPrefixDigest", "Deploy", "RequestedBootPlugin"}, {"ResolvedBootEntry"})
InstallSwap == Once("Swap", {"ResolvedBootEntry"}, {}, {})

InstallStages ==
    <<PreHooks, InstallFetching, InstallPreparation, InstallOpen, InstallImport, InstallCommit,
      InstallMerge, InstallCheckout, InstallSwap, Declarative, PostHooks, Retention>>

UpdateGiven == InstallGiven \cup {"AllowDowngrade"}

UpdateFetching == Once("Fetching", {}, {}, {})
UpdatePreparation ==
    Each("Preparation", "PendingPackagePaths", {"UnpackerState", "PendingPackages"},
         {"TmpPath", "TotalPackages"})
UpdateOpen ==
    Once("OpenTransaction", {}, {"Deploy"},
         {"ImportedTree", "ImportedConfigDefaults", "ImportedDatabase", "ImportedRemovedConfigPaths",
          "ImportContext"})
UpdateImport ==
    Each("ImportPackage", "PendingPackages",
         {"ImportedTree", "ImportedConfigDefaults", "ImportedDatabase", "ImportedRemovedConfigPaths",
          "ImportContext"}, {"TotalPackages", "AllowDowngrade", "Deploy"})
UpdateCommit ==
    Once("CommitTransaction",
         {"ImportedTree", "ImportedConfigDefaults", "ImportedDatabase", "ImportedRemovedConfigPaths",
          "ImportContext"}, {"TmpPath", "Deploy"},
         {"NewPrefixDigest", "NewConfigDefaults", "RemovedConfigPaths"})
UpdateMerge ==
    Once("Merge", {"NewConfigDefaults", "RemovedConfigPaths"},
         {"NewPrefixDigest", "Deploy", "Subject", "CommitMessage", "AllowConflictFiles"}, {})
UpdateCheckout ==
    Once("Checkout", {}, {"NewPrefixDigest", "Deploy", "RequestedBootPlugin"}, {"ResolvedBootEntry"})
UpdateSwap == Once("Swap", {"ResolvedBootEntry"}, {}, {})

UpdateStages ==
    <<PreHooks, UpdateFetching, UpdatePreparation, UpdateOpen, UpdateImport, UpdateCommit,
      UpdateMerge, UpdateCheckout, UpdateSwap, Declarative, PostHooks, Retention>>

---------------------------------------------------------------------------
(* uninstall *)

UninstallGiven ==
    {"Targets", "Deploy", "TmpPath", "Subject", "CommitMessage", "RequestedBootPlugin", "Purge",
     "Message"}

UninstallPreparation ==
    Once("Preparation", {}, {"Targets", "Deploy"}, {"PackageUuidsToRemove", "DeclarativeTriggers"})
UninstallOpen ==
    Once("OpenTransaction", {"PackageUuidsToRemove"}, {"Deploy"},
         {"WorkingTree", "WorkingDatabase", "WorkingRemovedConfigPaths", "PendingUuids", "TotalPackages"})
UninstallRemoveKeeping ==
    [Once("RemovePackage", {"PendingUuids", "WorkingTree", "WorkingDatabase",
                            "WorkingRemovedConfigPaths"}, {"TotalPackages", "Purge"},
          {"PendingUuids", "WorkingDatabase", "WorkingRemovedConfigPaths"})
       EXCEPT !.queue = "PendingUuids"]
UninstallRemove ==
    Each("RemovePackage", "PendingUuids",
         {"WorkingTree", "WorkingDatabase", "WorkingRemovedConfigPaths"}, {"TotalPackages", "Purge"})
UninstallCommit ==
    Once("CommitTransaction", {"WorkingTree", "WorkingDatabase", "WorkingRemovedConfigPaths"},
         {"TmpPath", "Deploy"}, {"NewPrefixDigest", "RemovedConfigPaths"})
UninstallMerge ==
    Once("Merge", {"RemovedConfigPaths"}, {"NewPrefixDigest", "Deploy", "Subject", "CommitMessage"}, {})
UninstallCheckout ==
    Once("Checkout", {}, {"NewPrefixDigest", "Deploy", "RequestedBootPlugin"}, {"ResolvedBootEntry"})
UninstallSwap == Once("Swap", {"ResolvedBootEntry"}, {}, {})

UninstallStages ==
    <<PreHooks, UninstallPreparation, UninstallOpen, UninstallRemove, UninstallCommit,
      UninstallMerge, UninstallCheckout, UninstallSwap, Declarative, PostHooks, Retention>>

---------------------------------------------------------------------------
(* files, commit and rollback *)

FilesGiven ==
    {"Deploy", "Files", "RequestedFileKind", "RequestedFileScope", "RequestedFilePackage", "TmpPath",
     "Subject", "CommitMessage", "RequestedBootPlugin", "Message"}

FilesOpen ==
    Once("OpenTransaction", {"Files"}, {"RequestedFilePackage", "Deploy"},
         {"WorkingTree", "WorkingDatabase", "ImportContext", "EtcUpperDir", "TargetUuid",
          "PendingFiles", "TotalFiles"})
FilesApply ==
    Each("ApplyFile", "PendingFiles", {"WorkingTree", "WorkingDatabase", "ImportContext"},
         {"EtcUpperDir", "TargetUuid", "RequestedFileKind", "RequestedFileScope", "TotalFiles",
          "Deploy"})
FilesCommit ==
    Once("CommitTransaction", {"WorkingTree", "WorkingDatabase", "ImportContext"},
         {"TmpPath", "Deploy", "Subject", "CommitMessage"}, {"NewPrefixDigest"})
FilesCheckout ==
    Once("Checkout", {}, {"NewPrefixDigest", "Deploy", "RequestedBootPlugin"}, {"ResolvedBootEntry"})
FilesSwap == Once("Swap", {"ResolvedBootEntry"}, {}, {})

FilesStages ==
    <<PreHooks, FilesOpen, FilesApply, FilesCommit, FilesCheckout, FilesSwap, PostHooks, Retention>>

CommitGiven == {"Deploy", "TmpPath", "Subject", "CommitMessage", "Message"}

CommitTransaction == Once("Transaction", {}, {"Deploy", "Subject", "CommitMessage"}, {})

CommitStages == <<PreHooks, CommitTransaction, PostHooks, Retention>>

RollbackGiven == {"Deploy", "RequestedConfigDigest", "RequestedBootPlugin", "TmpPath", "Message"}

RollbackMerge == Once("Merge", {}, {"RequestedConfigDigest", "Deploy"}, {"TargetPrefixDigest"})
RollbackCheckout ==
    Once("Checkout", {}, {"TargetPrefixDigest", "Deploy", "RequestedBootPlugin"}, {"ResolvedBootEntry"})
RollbackSwap == Once("Swap", {"ResolvedBootEntry"}, {}, {})

RollbackStages == <<PreHooks, RollbackMerge, RollbackCheckout, RollbackSwap, PostHooks, Retention>>

---------------------------------------------------------------------------
(* gc, pin and mime *)

GcGiven == {"Deploy", "Message"}

GcPrune == Once("Pruning", {}, {"Deploy"}, {"PendingDeploys", "TotalDeploys", "CollectedRoots"})
GcCollect == Each("CollectRoots", "PendingDeploys", {"CollectedRoots"}, {"TotalDeploys", "Deploy"})
GcCleaning == Once("Cleaning", {"CollectedRoots", "Deploy"}, {}, {})

GcStages == <<GcPrune, GcCollect, GcCleaning>>

PinGiven == {"Deploy", "RequestedPrefixDigest", "RequestedPinned", "Message"}

PinSetPinned == Once("SetPinned", {}, {"Deploy", "RequestedPrefixDigest", "RequestedPinned"}, {})

PinStages == <<PinSetPinned>>

MimePreparing == Once("Preparing", {}, {}, {"Manifests", "DesktopContent"})
MimeRendering ==
    Once("Rendering", {"Manifests", "DesktopContent"}, {}, {"PendingWrites", "TotalWrites"})
MimeWriting == Each("Writing", "PendingWrites", {}, {"TotalWrites"})

MimeStages == <<MimePreparing, MimeRendering, MimeWriting>>

---------------------------------------------------------------------------
(* The queries.  run_unmutated! takes their results from the context at the end. *)

DiffGiven == {"RequestedPrefixDigestRange", "RequestedConfigDigestRange", "Message"}
DiffPreparing ==
    Once("Preparing", {}, {"RequestedPrefixDigestRange", "RequestedConfigDigestRange"}, {"DiffSnapshot"})
DiffComparing ==
    Once("Comparing", {"DiffSnapshot"}, {}, {"DiffPackageEntries", "DiffUntrackedFileEntries"})

DiffConfigGiven == {"RequestedConfigDigestRange", "Message"}
DiffConfigPreparing ==
    Once("Preparing", {}, {"RequestedConfigDigestRange"}, {"DiffConfigSnapshot"})
DiffConfigComparing == Once("Comparing", {"DiffConfigSnapshot"}, {}, {"DiffConfigFileEntries"})

DiffPrefixGiven == {"RequestedPrefixDigestRange", "Message"}
DiffPrefixPreparing ==
    Once("Preparing", {}, {"RequestedPrefixDigestRange"}, {"DiffPrefixSnapshot"})
DiffPrefixComparing == Once("Comparing", {"DiffPrefixSnapshot"}, {}, {"DiffPrefixFileEntries"})

DiffPackagesGiven == {"RequestedPrefixDigestRange", "Message"}
DiffPackagesPreparing ==
    Once("Preparing", {}, {"RequestedPrefixDigestRange"}, {"DiffPackagesSnapshot"})
DiffPackagesComparing == Once("Comparing", {"DiffPackagesSnapshot"}, {}, {"DiffPackageEntries"})

ListConfigGiven == {"RequestedPrefixDigest", "Message"}
ListConfigFetching == Once("Fetching", {}, {"RequestedPrefixDigest"}, {"ConfigCommitEntries"})
ListHistoryFetching == Once("Fetching", {}, {}, {"HistoryEntries"})
ListPackagesFetching == Once("Fetching", {}, {}, {"PackageMetas"})
ListPrefixFetching == Once("Fetching", {}, {}, {"PrefixEntries"})

SearchFilesGiven == {"Search", "Message"}
SearchFilesSearching == Once("Searching", {}, {"Search"}, {"SearchFileEntries"})
SearchMetaGiven == {"Search", "Message"}
SearchMetaSearching == Once("Searching", {}, {"Search"}, {"PackageMetas"})
SearchInMetaGiven == {"PackageEntry", "Search", "Message"}
SearchInMetaSearching == Once("Searching", {}, {"PackageEntry", "Search"}, {"PackageMetas"})
SearchInPackageFilesGiven == {"PackageEntry", "Search", "Message"}
SearchInPackageFilesSearching ==
    Once("Searching", {}, {"PackageEntry", "Search"}, {"SearchFileEntries"})

(* Every file search and listing has a single stage, both halves of a comparison two. *)
DiffStages == <<DiffPreparing, DiffComparing>>
DiffConfigStages == <<DiffConfigPreparing, DiffConfigComparing>>
DiffPrefixStages == <<DiffPrefixPreparing, DiffPrefixComparing>>
DiffPackagesStages == <<DiffPackagesPreparing, DiffPackagesComparing>>

---------------------------------------------------------------------------
(* All the commands *)

Writers == {"install", "update", "uninstall", "files", "commit", "rollback", "gc", "pin_deploy", "mime"}
Queries ==
    {"diff", "diff_config", "diff_prefix", "diff_packages", "list_config", "list_history",
     "list_packages", "list_prefix", "search_files", "search_meta", "search_in_meta",
     "search_in_package_files"}

Given ==
    [install |-> InstallGiven, update |-> UpdateGiven, uninstall |-> UninstallGiven,
     files |-> FilesGiven, commit |-> CommitGiven, rollback |-> RollbackGiven, gc |-> GcGiven,
     pin_deploy |-> PinGiven, mime |-> {"Message"}, diff |-> DiffGiven,
     diff_config |-> DiffConfigGiven, diff_prefix |-> DiffPrefixGiven,
     diff_packages |-> DiffPackagesGiven, list_config |-> ListConfigGiven,
     list_history |-> {"Message"}, list_packages |-> {"Message"}, list_prefix |-> {"Message"},
     search_files |-> SearchFilesGiven, search_meta |-> SearchMetaGiven,
     search_in_meta |-> SearchInMetaGiven, search_in_package_files |-> SearchInPackageFilesGiven]

Stages ==
    [install |-> InstallStages, update |-> UpdateStages, uninstall |-> UninstallStages,
     files |-> FilesStages, commit |-> CommitStages, rollback |-> RollbackStages, gc |-> GcStages,
     pin_deploy |-> PinStages, mime |-> MimeStages, diff |-> DiffStages,
     diff_config |-> DiffConfigStages, diff_prefix |-> DiffPrefixStages,
     diff_packages |-> DiffPackagesStages, list_config |-> <<ListConfigFetching>>,
     list_history |-> <<ListHistoryFetching>>, list_packages |-> <<ListPackagesFetching>>,
     list_prefix |-> <<ListPrefixFetching>>, search_files |-> <<SearchFilesSearching>>,
     search_meta |-> <<SearchMetaSearching>>, search_in_meta |-> <<SearchInMetaSearching>>,
     search_in_package_files |-> <<SearchInPackageFilesSearching>>]

---------------------------------------------------------------------------
(* The states of each command, in the order of the declaration.  A failure at the stage of index i *)
(* is told as the state at that position; there is no state for the hooks of the packages           *)
(* themselves, nor for the retention.                                                               *)

InstallStates ==
    <<"PreHooks", "Fetching", "Preparation", "OpenTransaction", "ImportPackage",
      "CommitTransaction", "Merge", "Checkout", "Swap", "PostHooks", "Done", "Setup">>
UpdateStatesFetched ==
    <<"PreHooks", "Preparation", "OpenTransaction", "ImportPackage", "CommitTransaction", "Merge",
      "Checkout", "Swap", "PostHooks", "Done", "Setup">>
UpdateStates ==
    <<"PreHooks", "Fetching", "Preparation", "OpenTransaction", "ImportPackage",
      "CommitTransaction", "Merge", "Checkout", "Swap", "PostHooks", "Done", "Setup">>
UninstallStates ==
    <<"PreHooks", "Preparation", "OpenTransaction", "RemovePackage", "CommitTransaction",
      "Merge", "Checkout", "Swap", "PostHooks", "Done", "Setup">>
FilesStates ==
    <<"PreHooks", "OpenTransaction", "ApplyFile", "CommitTransaction", "Checkout", "Swap",
      "PostHooks", "Done", "Setup">>
CommitStates ==
    <<"PreHooks", "Transaction", "PostHooks", "Done", "Setup">>
RollbackStates ==
    <<"PreHooks", "Merge", "Checkout", "Swap", "PostHooks", "Done", "Setup">>
GcStates ==
    <<"Pruning", "CollectRoots", "Cleaning", "Done", "Setup">>
PinStates ==
    <<"SetPinned", "Done", "Setup">>
MimeStates ==
    <<"Preparing", "Rendering", "Writing", "Done", "Setup">>
DiffStates == <<"Preparing", "Comparing", "Done", "Setup">>
DiffConfigStates == <<"Preparing", "Comparing", "Done", "Setup">>
DiffPrefixStates == <<"Preparing", "Comparing", "Done", "Setup">>
DiffPackagesStates == <<"Preparing", "Comparing", "Done", "Setup">>
ListConfigStates == <<"Fetching", "Done", "Setup">>
ListHistoryStates == <<"Fetching", "Done", "Setup">>
ListPackagesStates == <<"Fetching", "Done", "Setup">>
ListPrefixStates == <<"Fetching", "Done", "Setup">>
SearchFilesStates == <<"Searching", "Done", "Setup">>
SearchMetaStates == <<"Searching", "Done", "Setup">>
SearchInMetaStates == <<"Searching", "Done", "Setup">>
SearchInPackageFilesStates == <<"Searching", "Done", "Setup">>

States ==
    [install |-> InstallStates, update |-> UpdateStates, uninstall |-> UninstallStates,
     files |-> FilesStates, commit |-> CommitStates, rollback |-> RollbackStates,
     gc |-> GcStates, pin_deploy |-> PinStates, mime |-> MimeStates, diff |-> DiffStates,
     diff_config |-> DiffConfigStates, diff_prefix |-> DiffPrefixStates,
     diff_packages |-> DiffPackagesStates, list_config |-> ListConfigStates,
     list_history |-> ListHistoryStates, list_packages |-> ListPackagesStates,
     list_prefix |-> ListPrefixStates, search_files |-> SearchFilesStates,
     search_meta |-> SearchMetaStates, search_in_meta |-> SearchInMetaStates,
     search_in_package_files |-> SearchInPackageFilesStates]

(* The slots run_unmutated! takes when the last stage of a query is over. *)
DiffResults == {"DiffPackageEntries", "DiffUntrackedFileEntries"}
DiffConfigResults == {"DiffConfigFileEntries"}
DiffPrefixResults == {"DiffPrefixFileEntries"}
DiffPackagesResults == {"DiffPackageEntries"}
ListConfigResults == {"ConfigCommitEntries"}
ListHistoryResults == {"HistoryEntries"}
ListPackagesResults == {"PackageMetas"}
ListPrefixResults == {"PrefixEntries"}
SearchFilesResults == {"SearchFileEntries"}
SearchMetaResults == {"PackageMetas"}
SearchInMetaResults == {"PackageMetas"}
SearchInPackageFilesResults == {"SearchFileEntries"}

Results ==
    [diff |-> DiffResults, diff_config |-> DiffConfigResults, diff_prefix |-> DiffPrefixResults,
     diff_packages |-> DiffPackagesResults, list_config |-> ListConfigResults,
     list_history |-> ListHistoryResults, list_packages |-> ListPackagesResults,
     list_prefix |-> ListPrefixResults, search_files |-> SearchFilesResults,
     search_meta |-> SearchMetaResults, search_in_meta |-> SearchInMetaResults,
     search_in_package_files |-> SearchInPackageFilesResults]
=============================================================================
