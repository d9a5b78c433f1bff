------------------------------ MODULE Requests ------------------------------
(***************************************************************************)
(* What crosses the C interface on the way in.  XRequest gives the class   *)
(* of every field of the request of the command X, as `validate', derived  *)
(* for the struct, looks at it; XData the fields that the conversion to    *)
(* Rust reads as text.  A plain number, flag or enumeration is not looked  *)
(* at and left out.  A value is a member of Values.                        *)
(***************************************************************************)
EXTENDS Functions, Tables

(* BadItem: one of the items is null or has no terminator.  BadSize: struct_size is not that of *)
(* the struct, or of one of the items.  NullToken: the base has no cancel token.                *)
Values == {"Good", "Empty", "Null", "Unterminated", "NotUtf8", "BadItem", "BadSize", "NullToken"}

Refused(kind, values) == [v \in values |-> kind]

---------------------------------------------------------------------------
(* validate, by the class of the field. *)

SizeRefused == Refused("AbiMismatch", {"BadSize"})

TextRefused == Refused("InvalidEntry", {"Null", "Unterminated"})

OptionalRefused == Refused("InvalidEntry", {"Unterminated"})

(* The attribute non_empty is looked at when the field is a CVec, and no CVec carries it. *)
NonEmptyTextRefused == TextRefused

(* Null is a list without storage that claims to have items. *)
ListRefused == Refused("InvalidEntry", {"Null"})
TextsRefused == ListRefused ++ Refused("InvalidEntry", {"BadItem"})
CompositesRefused == TextsRefused ++ SizeRefused

CompositeRefused == SizeRefused ++ TextRefused
PointerRefused == Refused("InvalidEntry", {"Null"}) ++ CompositeRefused

Validated ==
    [Size |-> SizeRefused, Base |-> SizeRefused, Text |-> TextRefused, Optional |-> OptionalRefused,
     NonEmptyText |-> NonEmptyTextRefused, Texts |-> TextsRefused, Composite |-> CompositeRefused,
     Composites |-> CompositesRefused, Pointer |-> PointerRefused]

(* What is left for the conversion: text is UTF-8, the token is not null. *)
Converted == Refused("InvalidEntry", {"NotUtf8", "NullToken"})

---------------------------------------------------------------------------
(* The requests, and what the conversion of each reads. *)

Base == [struct_size |-> "Size", base |-> "Base"]

InstallRequest ==
    Base ++ [tmp_path |-> "Text", subject |-> "Text", message |-> "Optional",
             packages |-> "Texts", boot_plugin |-> "Optional"]
InstallData == {"base", "tmp_path", "subject", "message", "packages", "boot_plugin"}

UpdateRequest ==
    Base ++ [tmp_path |-> "Text", subject |-> "Text", message |-> "Optional",
             packages |-> "Texts", boot_plugin |-> "Optional"]
UpdateData == {"base", "tmp_path", "subject", "message", "packages", "boot_plugin"}

UninstallRequest ==
    Base ++ [tmp_path |-> "Text", subject |-> "Text", message |-> "Optional",
             packages |-> "Composites", boot_plugin |-> "Optional"]
UninstallData == {"base", "tmp_path", "subject", "message", "packages", "boot_plugin"}

FilesRequest ==
    Base ++ [tmp_path |-> "Text", subject |-> "Text", message |-> "Optional",
             files |-> "Texts", file_package |-> "Pointer", boot_plugin |-> "Optional"]
FilesData == {"base", "tmp_path", "subject", "message", "files", "file_package", "boot_plugin"}

CommitRequest ==
    Base ++ [tmp_path |-> "Text", subject |-> "Text", message |-> "Optional"]
CommitData == {"base", "tmp_path", "subject", "message"}

RollbackRequest ==
    Base ++ [tmp_path |-> "Text", config_digest |-> "Text", boot_plugin |-> "Optional"]
RollbackData == {"base", "tmp_path", "config_digest", "boot_plugin"}

GcRequest == Base
GcData == {"base"}

PinRequest == Base ++ [prefix_digest |-> "NonEmptyText"]
PinData == {"base", "prefix_digest"}

MimeRequest == Base
MimeData == {"base"}

DiffRequest ==
    Base ++ [from_prefix_digest |-> "Optional", to_prefix_digest |-> "Optional",
             from_config_digest |-> "Optional", to_config_digest |-> "Optional"]
DiffData ==
    {"base", "from_prefix_digest", "to_prefix_digest", "from_config_digest", "to_config_digest"}

DiffConfigRequest == Base ++ [from_config_digest |-> "Optional", to_config_digest |-> "Optional"]
DiffConfigData == {"base", "from_config_digest", "to_config_digest"}

DiffPrefixRequest == Base ++ [from_prefix_digest |-> "Optional", to_prefix_digest |-> "Optional"]
DiffPrefixData == {"base", "from_prefix_digest", "to_prefix_digest"}

DiffPackagesRequest ==
    Base ++ [from_prefix_digest |-> "Optional", to_prefix_digest |-> "Optional"]
DiffPackagesData == {"base", "from_prefix_digest", "to_prefix_digest"}

ListConfigRequest == Base ++ [prefix_digest |-> "Optional"]
ListConfigData == {"base", "prefix_digest"}

ListHistoryRequest == Base
ListHistoryData == {"base"}

ListPackagesRequest == Base
ListPackagesData == {"base"}

ListPrefixRequest == Base
ListPrefixData == {"base"}

SearchFilesRequest == Base ++ [search |-> "Text"]
SearchFilesData == {"base", "search"}

SearchMetaRequest == Base ++ [search |-> "Text"]
SearchMetaData == {"base", "search"}

SearchInMetaRequest == Base ++ [package |-> "Composite", search |-> "Text"]
SearchInMetaData == {"base", "package", "search"}

SearchInPackageFilesRequest == Base ++ [package |-> "Composite", search |-> "Text"]
SearchInPackageFilesData == {"base", "package", "search"}

Requests ==
    [install |-> InstallRequest, update |-> UpdateRequest, uninstall |-> UninstallRequest,
     files |-> FilesRequest, commit |-> CommitRequest, rollback |-> RollbackRequest,
     gc |-> GcRequest, pin_deploy |-> PinRequest, mime |-> MimeRequest, diff |-> DiffRequest,
     diff_config |-> DiffConfigRequest, diff_prefix |-> DiffPrefixRequest,
     diff_packages |-> DiffPackagesRequest, list_config |-> ListConfigRequest,
     list_history |-> ListHistoryRequest, list_packages |-> ListPackagesRequest,
     list_prefix |-> ListPrefixRequest, search_files |-> SearchFilesRequest,
     search_meta |-> SearchMetaRequest, search_in_meta |-> SearchInMetaRequest,
     search_in_package_files |-> SearchInPackageFilesRequest]

Reads ==
    [install |-> InstallData, update |-> UpdateData, uninstall |-> UninstallData,
     files |-> FilesData, commit |-> CommitData, rollback |-> RollbackData, gc |-> GcData,
     pin_deploy |-> PinData, mime |-> MimeData, diff |-> DiffData, diff_config |-> DiffConfigData,
     diff_prefix |-> DiffPrefixData, diff_packages |-> DiffPackagesData,
     list_config |-> ListConfigData, list_history |-> ListHistoryData,
     list_packages |-> ListPackagesData, list_prefix |-> ListPrefixData,
     search_files |-> SearchFilesData, search_meta |-> SearchMetaData,
     search_in_meta |-> SearchInMetaData, search_in_package_files |-> SearchInPackageFilesData]

(* What the call answers to a value of a field: accepted, or the kind of the refusal. *)
Verdict(command, field, value) ==
    LET validated == Validated[Requests[command][field]]
    IN IF value \in DOMAIN validated THEN validated[value]
       ELSE IF field \in Reads[command] /\ value \in DOMAIN Converted THEN Converted[value]
       ELSE "Accepted"

(* The values a frontend can give a field of that class. *)
Faults ==
    [Size |-> {"BadSize"}, Base |-> {"BadSize", "NullToken"},
     Text |-> {"Empty", "Null", "Unterminated", "NotUtf8"},
     Optional |-> {"Empty", "Null", "Unterminated", "NotUtf8"},
     NonEmptyText |-> {"Empty", "Null", "Unterminated", "NotUtf8"},
     Texts |-> {"Empty", "Null", "BadItem", "NotUtf8"},
     Composite |-> {"Null", "Unterminated", "NotUtf8", "BadSize"},
     Composites |-> {"Empty", "Null", "BadItem", "NotUtf8", "BadSize"},
     Pointer |-> {"Null", "Unterminated", "NotUtf8", "BadSize"}]
=============================================================================
