------------------------------ MODULE PackageDb ------------------------------
(***************************************************************************)
(* The package database of an image: its five tables, what the stores do   *)
(* to them and what the queries read from them.  A uuid is a number that   *)
(* is handed out once; a package is known by its name (which stands for    *)
(* name, arch and arch_sub); a file row is keyed by the uuid and the path. *)
(* The scope is no part of the key.  A table is a function, as a tree is.  *)
(***************************************************************************)
EXTENDS Trees, Naturals

CONSTANT Nobody  \* no uuid, no package

NoTable == [k \in {} |-> Nobody]

NewInMemory ==
    [metas |-> NoTable, byName |-> NoTable, triggers |-> NoTable,
     files |-> NoTable, byPath |-> NoTable]

Drop(table, key) == Restrict(table, DOMAIN table \ {key})

----------------------------------------------------------------------------
(***************************************************************************)
(* MetaStore and TriggerStore.                                             *)
(***************************************************************************)
HasPackage(db, name) == name \in DOMAIN db.byName
MetaOf(db, name) == db.metas[db.byName[name]]

InsertPackageMeta(db, uuid, meta) ==
    [db EXCEPT !.metas = At(uuid, meta) ++ @, !.byName = At(meta.name, uuid) ++ @]

UpdatePackageMeta(db, meta) == [db EXCEPT !.metas[db.byName[meta.name]] = meta]

RemovePackageMeta(db, name) ==
    [db EXCEPT !.metas = Drop(@, db.byName[name]), !.byName = Drop(@, name)]

SetTriggers(db, uuid, trigger) == [db EXCEPT !.triggers = At(uuid, trigger) ++ @]
RemoveTriggers(db, uuid) == [db EXCEPT !.triggers = Drop(@, uuid)]

----------------------------------------------------------------------------
(***************************************************************************)
(* FileStore.                                                              *)
(***************************************************************************)
Row(isUser, scope) == [isUser |-> isUser, scope |-> scope]

PathsOf(db, uuid) == {key[2] : key \in {k \in DOMAIN db.files : k[1] = uuid}}
IsUserRow(db, uuid, path) == <<uuid, path>> \in DOMAIN db.files /\ db.files[<<uuid, path>>].isUser
UserPaths(db, uuid) == {p \in PathsOf(db, uuid) : IsUserRow(db, uuid, p)}
InScope(db, uuid, scope) == {p \in PathsOf(db, uuid) : db.files[<<uuid, p>>].scope = scope}

\* insert_package_file for each of the paths: a row of the user stays.
InsertFiles(db, uuid, paths, row) ==
    LET taken == paths \ UserPaths(db, uuid)
    IN  [db EXCEPT !.files = [key \in {uuid} \X taken |-> row] ++ @,
                   !.byPath = [p \in taken |-> uuid] ++ @]

\* Mutant: the paths stay in the table by path.
RemoveFilesHalf(db, uuid, paths) ==
    [db EXCEPT !.files = Restrict(@, DOMAIN @ \ ({uuid} \X paths))]

\* Mutant: the rows are keyed by the path alone.
RemoveFilesOfAll(db, uuid, paths) ==
    [db EXCEPT !.files = Restrict(@, {k \in DOMAIN @ : k[2] \notin paths}),
               !.byPath = Restrict(@, DOMAIN @ \ paths)]

\* remove_package_file or remove_user_file for each of the paths; the table by
\* path loses the row whosever it is.
RemoveFiles(db, uuid, paths) ==
    [db EXCEPT !.files = Restrict(@, DOMAIN @ \ ({uuid} \X paths)),
               !.byPath = Restrict(@, DOMAIN @ \ paths)]

\* remove_package_file answers AccessDenied to a row of the user.
CanRemovePackageFiles(db, uuid, paths) == paths \cap UserPaths(db, uuid) = {}
CanRemoveUserFile(db, uuid, path) == IsUserRow(db, uuid, path)

----------------------------------------------------------------------------
(***************************************************************************)
(* What the queries answer.                                                *)
(***************************************************************************)
FindFileOwner(db, path) == IF path \in DOMAIN db.byPath THEN db.byPath[path] ELSE Nobody

\* attribute_file: the owner, its meta and its row, or nothing.
AttributeFile(db, path) ==
    LET uuid == FindFileOwner(db, path)
    IN  IF uuid \in DOMAIN db.metas /\ path \in PathsOf(db, uuid)
        THEN db.metas[uuid].name ELSE Nobody

ListPackages(db) == {db.metas[u] : u \in DOMAIN db.metas}

\* Rows without a package are passed over.
SearchFiles(db) == {<<k[2], db.metas[k[1]].name>> : k \in {key \in DOMAIN db.files : key[1] \in DOMAIN db.metas}}

\* Of several packages of one name the map keeps one.
ByIdentity(metas) == [name \in {m.name : m \in metas} |-> CHOOSE m \in metas : m.name = name]

\* diff_packages: every name that only one side has, or with another archive.
DiffPackages(from, to) ==
    LET old == ByIdentity(ListPackages(from))
        new == ByIdentity(ListPackages(to))
    IN  [name \in {n \in DOMAIN old \cap DOMAIN new : old[n].sha256 # new[n].sha256} |-> "Modified"]
          ++ [name \in DOMAIN old \ DOMAIN new |-> "Removed"]
          ++ [name \in DOMAIN new \ DOMAIN old |-> "Added"]

\* Mutant: a removed file is looked for where it no longer is.
BlamedInNew(from, to, changes, path) == AttributeFile(to, path)

\* The database that knows a changed file: a removed one is looked for in the
\* old image, the others in the new one.
Blamed(from, to, changes, path) ==
    AttributeFile(IF changes[path] = "Removed" THEN from ELSE to, path)

Unattached(from, to, changes) == {p \in DOMAIN changes : Blamed(from, to, changes, p) = Nobody}

\* diff: the packages that changed and those whose files did.
Diff(from, to, changes) ==
    DiffPackages(from, to)
      ++ [name \in {Blamed(from, to, changes, p) : p \in DOMAIN changes \ Unattached(from, to, changes)}
            |-> "FilesChanged"]
=============================================================================
