----------------------------- MODULE Responses -----------------------------
(***************************************************************************)
(* What a query hands to the frontend, and what free_response's derived    *)
(* `free' gives back.  A struct is a function from its fields to what they *)
(* hold: a text, a text that may be absent, another struct or a list of    *)
(* them.  Every text and every list is a block of the C allocator; a cell  *)
(* stands for the blocks of one field.  Plain fields are left out.         *)
(***************************************************************************)
EXTENDS Naturals, FiniteSets, Tables

Text == [class |-> "text", of |-> "bytes"]
Maybe == [class |-> "maybe", of |-> "bytes"]
One(struct) == [class |-> "one", of |-> struct]
Many(struct) == [class |-> "many", of |-> struct]

---------------------------------------------------------------------------
(* The structs of the answers. *)

CVersion == [raw |-> Text]
CPackageMeta ==
    [name |-> Text, version |-> One("CVersion"), arch |-> Text, arch_sub |-> Maybe,
     maintainer |-> Text, description |-> Text, license |-> Maybe, url |-> Maybe]
CDiffFileEntryCommon == [path |-> Text]
CDiffPrefixFileEntry == [common |-> One("CDiffFileEntryCommon"), package_name |-> Text]
CDiffConfigFileEntry == [common |-> One("CDiffFileEntryCommon"), package_name |-> Maybe]
CDiffUntrackedFileEntry == [common |-> One("CDiffFileEntryCommon")]
CDiffPackageEntry ==
    [name |-> Text, version |-> One("CVersion"), files |-> Many("CDiffPrefixFileEntry")]
CConfigCommitEntry == [config_digest |-> Text, subject |-> Text, message |-> Maybe]
CSearchFileEntry == [path |-> Text, package_name |-> Text]
CPrefixEntry ==
    [prefix_digest |-> Text, subject |-> Text, message |-> Maybe, working_config |-> Maybe]
CHistoryEntry ==
    [prefix_digest |-> Text, subject |-> Text, message |-> Maybe, working_config |-> Maybe,
     config_history |-> Many("CConfigCommitEntry")]

(* The answers themselves. *)
CListConfigResponse == [commits |-> Many("CConfigCommitEntry")]
CListPackagesResponse == [metas |-> Many("CPackageMeta")]
CListPrefixResponse == [prefixes |-> Many("CPrefixEntry")]
CListHistoryResponse == [history |-> Many("CHistoryEntry")]
CSearchMetaResponse == [metas |-> Many("CPackageMeta")]
CSearchInMetaResponse == [metas |-> Many("CPackageMeta")]
CSearchFilesResponse == [files |-> Many("CSearchFileEntry")]
CSearchInPackageFilesResponse == [files |-> Many("CSearchFileEntry")]
CDiffPrefixResponse == [files |-> Many("CDiffPrefixFileEntry")]
CDiffConfigResponse == [files |-> Many("CDiffConfigFileEntry")]
CDiffPackagesResponse == [diff_packages |-> Many("CDiffPackageEntry")]
CDiffResponse ==
    [diff_packages |-> Many("CDiffPackageEntry"), unattached_files |-> Many("CDiffUntrackedFileEntry")]

Structs ==
    [CVersion |-> CVersion, CPackageMeta |-> CPackageMeta,
     CDiffFileEntryCommon |-> CDiffFileEntryCommon, CDiffPrefixFileEntry |-> CDiffPrefixFileEntry,
     CDiffConfigFileEntry |-> CDiffConfigFileEntry,
     CDiffUntrackedFileEntry |-> CDiffUntrackedFileEntry, CDiffPackageEntry |-> CDiffPackageEntry,
     CConfigCommitEntry |-> CConfigCommitEntry, CSearchFileEntry |-> CSearchFileEntry,
     CPrefixEntry |-> CPrefixEntry, CHistoryEntry |-> CHistoryEntry]

Responses ==
    [list_config |-> CListConfigResponse, list_packages |-> CListPackagesResponse,
     list_prefix |-> CListPrefixResponse, list_history |-> CListHistoryResponse,
     search_meta |-> CSearchMetaResponse, search_in_meta |-> CSearchInMetaResponse,
     search_files |-> CSearchFilesResponse, search_in_package_files |-> CSearchInPackageFilesResponse,
     diff_prefix |-> CDiffPrefixResponse, diff_config |-> CDiffConfigResponse,
     diff_packages |-> CDiffPackagesResponse, diff |-> CDiffResponse]

(* The fields of a response and of every struct. *)
FieldsOf(query) == Structs ++ At(query, Responses[query])

---------------------------------------------------------------------------
(* What follows a struct into the answer, one level a time. *)

(* Structs reached from the response through the fields `follows' admits: no struct is more than  *)
(* three levels down.                                                                             *)
ReachedBy(query, follows) ==
    LET Beyond(structs) ==
            structs \cup {FieldsOf(query)[sf[1]][sf[2]].of : sf \in {l \in follows : l[1] \in structs}}
    IN Beyond(Beyond(Beyond({query})))

(* Every field that leads on, of the query's answer and of the structs. *)
Links(query) ==
    LET fields == FieldsOf(query)
    IN UNION {{<<s, f>> : f \in {g \in DOMAIN fields[s] : fields[s][g].class \in {"one", "many"}}} :
              s \in DOMAIN fields}

Cell(struct, field, blank) == [struct |-> struct, field |-> field, blank |-> blank]

(* What the conversion to C allocates when the fields of `absent' hold nothing and the texts of    *)
(* `blanks' are empty.  An empty text still has its terminator; an empty list has no block.        *)
Allocated(query, absent, blanks) ==
    LET fields == FieldsOf(query)
        present == ReachedBy(query, Links(query) \ absent)
    IN UNION {{Cell(s, f, <<s, f>> \in blanks) :
                 f \in {g \in DOMAIN fields[s] : /\ fields[s][g].class # "one"
                                                 /\ <<s, g>> \notin absent}} : s \in present}

WithoutHistory ==
    {"CVersion", "CPackageMeta", "CDiffFileEntryCommon", "CDiffPrefixFileEntry",
     "CDiffConfigFileEntry", "CDiffUntrackedFileEntry", "CDiffPackageEntry", "CConfigCommitEntry",
     "CSearchFileEntry", "CPrefixEntry"}

(* The structs whose name the derived code knows, of those an answer can hold; a field of a struct *)
(* with another name it takes for plain.                                                           *)
VALIDATABLE_COMPOSITES ==
    {"CVersion", "CPackageMeta", "CDiffFileEntryCommon", "CDiffPrefixFileEntry",
     "CDiffConfigFileEntry", "CDiffUntrackedFileEntry", "CDiffPackageEntry", "CConfigCommitEntry",
     "CSearchFileEntry", "CPrefixEntry", "CHistoryEntry"}

FreeFollows(query) ==
    {sf \in Links(query) : FieldsOf(query)[sf[1]][sf[2]].of \in VALIDATABLE_COMPOSITES}

Freeable == [query \in DOMAIN Responses |-> ReachedBy(query, FreeFollows(query))]

(* free_cslice and free_cvec return at once when there is no length. *)
Freed(query, held) == {c \in held : c.struct \in Freeable[query] /\ ~c.blank}

(* The fields that may be absent, and those that may be empty texts. *)
MayBeAbsent(query) ==
    LET fields == FieldsOf(query)
    IN UNION {{<<s, f>> : f \in {g \in DOMAIN fields[s] : fields[s][g].class \in {"maybe", "many"}}} :
              s \in ReachedBy(query, Links(query))}

Texts(query) ==
    LET fields == FieldsOf(query)
    IN UNION {{<<s, f>> : f \in {g \in DOMAIN fields[s] : fields[s][g].class \in {"text", "maybe"}}} :
              s \in ReachedBy(query, Links(query))}
=============================================================================
