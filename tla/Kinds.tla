------------------------------- MODULE Kinds -------------------------------
(***************************************************************************)
(* How a failure is told to a frontend.  An error of the library is an     *)
(* enumeration inside an enumeration: each command has its own, most of    *)
(* whose values wrap a CommonError, which wraps the error of a component.  *)
(* Across the C interface only an ErrorKind is left.                       *)
(*                                                                         *)
(* A function XKind gives the kind of every variant of an enumeration X,   *)
(* and XRaised the variants the code can produce, from the failures of the *)
(* libraries it calls (LET) and on its own.  An error is a record of the   *)
(* enumeration, `in', and the variant, `of'.                               *)
(***************************************************************************)
EXTENDS Functions, Tables

ErrorKinds ==
    {"Unexpected", "OutOfMemory", "NotFound", "AlreadyExists", "PermissionDenied", "InvalidPath",
     "NoSpaceLeft", "Cancelled", "ReadFailed", "WriteFailed", "NotInitialized", "AbiMismatch",
     "InvalidEntry"}

As(kind, variants) == [v \in variants |-> kind]

---------------------------------------------------------------------------
(* The errors of the components. *)

DatabaseKind ==
    [PackageNotFound |-> "NotFound", FileNotFound |-> "NotFound", ArchitectureNotFound |-> "NotFound",
     PackageAlreadyExists |-> "AlreadyExists", PackageFilesExist |-> "AlreadyExists",
     DatabaseNotInitialized |-> "NotInitialized", AllocZFailed |-> "OutOfMemory",
     AccessDenied |-> "PermissionDenied", WriteError |-> "WriteFailed", ReadError |-> "ReadFailed"]

DatabaseRaised ==
    LET storage == [Corrupted |-> "ReadError", DatabaseClosed |-> "DatabaseNotInitialized",
                    LockPoisoned |-> "WriteError", Io |-> "WriteError", Other |-> "ReadError"]
        table == [TableDoesNotExist |-> "DatabaseNotInitialized", Other |-> "WriteError"]
        database == [DatabaseAlreadyOpen |-> "AccessDenied", Other |-> "ReadError"]
        io == [PermissionDenied |-> "AccessDenied", Other |-> "WriteError"]
    IN Range(storage) \cup Range(table) \cup Range(database) \cup Range(io)
         \cup {"PackageNotFound", "FileNotFound"}

DeployRecordKind ==
    [NotFound |-> "NotFound", AccessDenied |-> "PermissionDenied", MalformedJson |-> "ReadFailed",
     InvalidField |-> "ReadFailed", WriteFailed |-> "WriteFailed"]

DeployRecordRaised ==
    LET io == [NotFound |-> "NotFound", PermissionDenied |-> "AccessDenied", Other |-> "WriteFailed"]
    IN Range(io) \cup {"MalformedJson", "InvalidField"}

RepoKind ==
    [NotInitialized |-> "NotInitialized", Corrupted |-> "ReadFailed", AlgorithmMismatch |-> "Unexpected",
     UnsupportedVersion |-> "Unexpected", IncompatibleFeatures |-> "Unexpected",
     NotFound |-> "NotFound", AccessDenied |-> "PermissionDenied", InvalidPath |-> "InvalidPath",
     InvalidDigest |-> "InvalidPath", NotADirectory |-> "InvalidEntry", IsADirectory |-> "InvalidEntry",
     NotRegularFile |-> "InvalidEntry", NotASymlink |-> "InvalidEntry", Cancelled |-> "Cancelled",
     Unexpected |-> "Unexpected"]

(* Cancelled is not among them: only import_directory returns it (ImportCancelled in Calls). *)
RepoRaised ==
    LET io == [NotFound |-> "NotFound", PermissionDenied |-> "AccessDenied", Other |-> "Unexpected"]
        open == [MetadataMissing |-> "NotInitialized", OldFormatRepository |-> "NotInitialized",
                 MetadataInvalid |-> "Corrupted", AlgorithmMismatch |-> "AlgorithmMismatch",
                 UnsupportedVersion |-> "UnsupportedVersion",
                 IncompatibleFeatures |-> "IncompatibleFeatures"]
        image == [InvalidFilename |-> "InvalidPath", NotFound |-> "NotFound",
                  NotADirectory |-> "NotADirectory", IsADirectory |-> "IsADirectory",
                  IsNotRegular |-> "NotRegularFile", OrphanedLeaves |-> "Unexpected"]
    IN Range(io) \cup Range(open) \cup Range(image) \cup {"InvalidDigest", "NotASymlink"}

SysrootKind ==
    As("Unexpected", {"MountInfoUnavailable", "ProbeUnavailable", "System"}) ++
    As("NotFound", {"RootDeviceNotFound", "CanonicalDeviceNotFound", "SysrootDirUnavailable",
                    "DeploysDirNotFound", "RepoDirNotFound", "FilesystemTypeNotFound",
                    "CurrentPrefixDigestNotFound", "EspNotFound"})

SysrootRaised ==
    LET foreign == [MountInfo |-> "MountInfoUnavailable", ProbeBuilder |-> "ProbeUnavailable",
                    Probe |-> "ProbeUnavailable", Io |-> "SysrootDirUnavailable", Errno |-> "System",
                    Anyhow |-> "CurrentPrefixDigestNotFound"]
    IN Range(foreign) \cup
       {"RootDeviceNotFound", "CanonicalDeviceNotFound", "DeploysDirNotFound", "RepoDirNotFound",
        "FilesystemTypeNotFound", "EspNotFound"}

BootKind ==
    [NoBootResource |-> "NotFound", AmbiguousBootResource |-> "InvalidEntry",
     UnsupportedBootResource |-> "InvalidEntry", Unexpected |-> "Unexpected"]

LockKindBusy ==
    [Busy |-> "Busy", ReadOnly |-> "PermissionDenied", Denied |-> "PermissionDenied",
     PathMissing |-> "InvalidPath", Unexpected |-> "Unexpected"]

LockKind ==
    [Busy |-> "Unexpected", ReadOnly |-> "PermissionDenied", Denied |-> "PermissionDenied",
     PathMissing |-> "InvalidPath", Unexpected |-> "Unexpected"]

LockRaised ==
    LET errno == [EADDRINUSE |-> "Busy", EROFS |-> "ReadOnly", EPERM |-> "Denied", EACCES |-> "Denied",
                  ENOENT |-> "PathMissing", Other |-> "Unexpected"]
    IN Range(errno)

HookKind ==
    As("InvalidEntry", {"Parse", "InvalidTrigger", "NoTrigger", "Encoding", "MalformedSignature",
                        "InvalidSignature", "TriggerConflict"}) ++ [Io |-> "ReadFailed"]

HookRaised ==
    LET foreign == [Toml |-> "Parse", Io |-> "Io", Utf8 |-> "Encoding", PkiMalformed |-> "MalformedSignature",
                    PkiInvalidSignature |-> "InvalidSignature", PkiGeneration |-> "Parse"]
    IN Range(foreign) \cup {"InvalidTrigger", "NoTrigger", "TriggerConflict"}

DecoderKind ==
    As("NotFound", {"Load", "UnknownFormat", "NoDecoders"}) ++
    As("AbiMismatch", {"Symbol", "AbiMismatch"}) ++
    As("InvalidEntry", {"InvalidResponse", "Manifest", "DuplicateFormat", "InvalidMimeType"}) ++
    [Failed |-> "Unexpected", Io |-> "ReadFailed"]

(* A decoder answers a code; whatever the code is, the library keeps Failed. *)
DecodeErrors ==
    {"InvalidRequest", "Io", "ChecksumMismatch", "UnsupportedFormat", "MissingMetadata",
     "MalformedMetadata", "InvalidUtf8", "Cancelled"}

DecoderRaised ==
    LET foreign == [ErrorKind |-> "InvalidResponse", Io |-> "Io", Toml |-> "Manifest",
                    MimeParse |-> "InvalidMimeType"]
    IN Range(foreign) \cup
       {"Load", "Symbol", "AbiMismatch", "DuplicateFormat", "UnknownFormat", "NoDecoders"}

---------------------------------------------------------------------------
(* The boot plugins of the repository report a kind of their own, which passes through unchanged. *)

BlsKind ==
    [EfiUnavailable |-> "NotInitialized", PermissionDenied |-> "PermissionDenied",
     InvalidRequest |-> "InvalidEntry", Unexpected |-> "Unexpected"]

RefindKind ==
    [EfiUnavailable |-> "NotInitialized", PermissionDenied |-> "PermissionDenied",
     InvalidRequest |-> "InvalidEntry", Unexpected |-> "Unexpected"]

UkiKind ==
    [EfiUnavailable |-> "NotInitialized", PermissionDenied |-> "PermissionDenied",
     EntryNotFound |-> "NotFound", InvalidRequest |-> "InvalidEntry", Unexpected |-> "Unexpected"]

GrubKind ==
    [ToolNotFound |-> "NotFound", PermissionDenied |-> "PermissionDenied",
     InvalidRequest |-> "InvalidEntry", Unexpected |-> "Unexpected"]

Reported == UNION {Range(k) : k \in {BlsKind, RefindKind, UkiKind, GrubKind}}

(* Reported(kind) is the variant whose name is the kind. *)
BootPluginKind ==
    As("NotFound", {"Load", "UnknownName", "NoClaimant"}) ++
    As("AbiMismatch", {"Symbol", "BadAbi"}) ++
    As("InvalidEntry", {"Manifest", "DuplicateName", "AmbiguousClaim"}) ++
    [Io |-> "ReadFailed"] ++ [k \in ErrorKinds |-> k]

BootPluginRaised ==
    {"Load", "Symbol", "BadAbi", "Io", "Manifest", "DuplicateName", "UnknownName", "NoClaimant",
     "AmbiguousClaim"} \cup Reported

---------------------------------------------------------------------------
(* The common error, and what each command adds to it. *)

CommonKindCoarse ==
    As("Unexpected", {"OutOfMemory", "Cancelled", "AccessDenied", "StageNotFound", "StagePanicked",
                      "MissingResult", "PipelineInvalid", "RuntimeInit"})

CommonKind ==
    [OutOfMemory |-> "OutOfMemory", Cancelled |-> "Cancelled", AccessDenied |-> "PermissionDenied"] ++
    As("Unexpected", {"StageNotFound", "StagePanicked", "MissingResult", "PipelineInvalid", "RuntimeInit"})

ComponentKind ==
    [Common |-> CommonKind, Database |-> DatabaseKind, DeployRecord |-> DeployRecordKind,
     Repo |-> RepoKind, Sysroot |-> SysrootKind, Boot |-> BootKind, Lock |-> LockKind,
     Hook |-> HookKind, Decoder |-> DecoderKind, BootPlugin |-> BootPluginKind]

Raised ==
    [Database |-> DatabaseRaised, DeployRecord |-> DeployRecordRaised, Repo |-> RepoRaised,
     Sysroot |-> SysrootRaised, Boot |-> {"NoBootResource", "AmbiguousBootResource", "Unexpected"},
     Lock |-> LockRaised, Hook |-> HookRaised, Decoder |-> DecoderRaised, BootPlugin |-> BootPluginRaised]

---------------------------------------------------------------------------
(* The error of each command: its own variants, and the components whose errors it can carry.  A   *)
(* hook stage adds Hook, the preparation of packages Decoder.                                       *)

InstallError ==
    [own |-> <<>>, carries |-> {"Database", "Repo", "Sysroot", "Lock", "Boot", "BootPlugin",
                                "DeployRecord", "Hook", "Decoder"}]
UpdateError ==
    [own |-> [PackageNotFound |-> "NotFound", DowngradeNotAllowed |-> "InvalidEntry"],
     carries |-> {"Database", "Repo", "Sysroot", "Lock", "Boot", "BootPlugin", "DeployRecord", "Hook",
                  "Decoder"}]
UninstallError ==
    [own |-> [PackageNotFound |-> "NotFound"],
     carries |-> {"Database", "Repo", "Sysroot", "Lock", "Boot", "BootPlugin", "DeployRecord", "Hook"}]
FilesError ==
    [own |-> [PackageNotFound |-> "NotFound"],
     carries |-> {"Database", "Repo", "Sysroot", "Lock", "Boot", "BootPlugin", "DeployRecord", "Hook"}]
RollbackError ==
    [own |-> [ConfigDigestNotFound |-> "NotFound"],
     carries |-> {"Database", "Repo", "Sysroot", "Lock", "Boot", "BootPlugin", "DeployRecord", "Hook"}]
CommitError ==
    [own |-> <<>>, carries |-> {"Database", "Repo", "Sysroot", "Lock", "DeployRecord", "Hook"}]
GcError == [own |-> <<>>, carries |-> {"Database", "Repo", "Sysroot", "Lock", "DeployRecord"}]
PinError == [own |-> <<>>, carries |-> {"Sysroot", "Lock", "DeployRecord"}]
MimeError ==
    [own |-> [IoNotFound |-> "NotFound", IoPermissionDenied |-> "PermissionDenied",
              IoOther |-> "Unexpected", DesktopFileMalformed |-> "InvalidEntry"],
     carries |-> {"Lock", "Decoder"}]

DiffError ==
    [own |-> [ConfigDigestNotFound |-> "NotFound"],
     carries |-> {"Database", "Repo", "Sysroot", "Lock", "DeployRecord"}]
DiffConfigError ==
    [own |-> [ConfigDigestNotFound |-> "NotFound"],
     carries |-> {"Database", "Repo", "Sysroot", "Lock", "DeployRecord"}]
DiffPrefixError == [own |-> <<>>, carries |-> {"Database", "Repo", "Sysroot", "Lock"}]
DiffPackagesError == [own |-> <<>>, carries |-> {"Database", "Repo", "Sysroot", "Lock"}]
ListConfigError == [own |-> <<>>, carries |-> {"Database", "Sysroot", "Lock", "DeployRecord"}]
ListHistoryError == [own |-> <<>>, carries |-> {"Database", "Sysroot", "Lock", "DeployRecord"}]
ListPackagesError == [own |-> <<>>, carries |-> {"Database", "Repo", "Sysroot", "Lock"}]
ListPrefixError == [own |-> <<>>, carries |-> {"Database", "Sysroot", "Lock", "DeployRecord"}]
SearchFilesError ==
    [own |-> [InvalidSearchPattern |-> "InvalidEntry"], carries |-> {"Database", "Repo", "Sysroot", "Lock"}]
SearchMetaError ==
    [own |-> [InvalidSearchPattern |-> "InvalidEntry"], carries |-> {"Database", "Repo", "Sysroot", "Lock"}]
SearchInMetaError ==
    [own |-> [InvalidSearchPattern |-> "InvalidEntry"], carries |-> {"Database", "Repo", "Sysroot", "Lock"}]
SearchInPackageFilesError ==
    [own |-> [InvalidSearchPattern |-> "InvalidEntry"], carries |-> {"Database", "Repo", "Sysroot", "Lock"}]

CommandError ==
    [install |-> InstallError, update |-> UpdateError, uninstall |-> UninstallError,
     files |-> FilesError, commit |-> CommitError, rollback |-> RollbackError, gc |-> GcError,
     pin_deploy |-> PinError, mime |-> MimeError, diff |-> DiffError, diff_config |-> DiffConfigError,
     diff_prefix |-> DiffPrefixError, diff_packages |-> DiffPackagesError,
     list_config |-> ListConfigError, list_history |-> ListHistoryError,
     list_packages |-> ListPackagesError, list_prefix |-> ListPrefixError,
     search_files |-> SearchFilesError, search_meta |-> SearchMetaError,
     search_in_meta |-> SearchInMetaError, search_in_package_files |-> SearchInPackageFilesError]

Error(enumeration, variant) == [in |-> enumeration, of |-> variant]

(* What a stage of the command may fail with.  The lock is taken before the first of them. *)
StageErrors(command) ==
    {Error("Command", v) : v \in DOMAIN CommandError[command].own} \cup
    UNION {{Error(c, v) : v \in Raised[c]} : c \in CommandError[command].carries \ {"Lock"}}

KindOf(command, error) ==
    IF error.in = "Command" THEN CommandError[command].own[error.of]
                            ELSE ComponentKind[error.in][error.of]
=============================================================================
