------------------------------ MODULE Packages ------------------------------
(***************************************************************************)
(* Packages in the tree of /usr.  A command reads the tree that is booted  *)
(* with the database inside it, works on both in memory, package by        *)
(* package, puts the database back and arms the tree for the next boot.    *)
(* A failure throws the working copies away, and so does a reboot.         *)
(*                                                                         *)
(* How records, retention and the boot option go along is DeployStore;     *)
(* what becomes of /etc is EtcConfig: here a file of /etc is a row.        *)
(***************************************************************************)
EXTENDS PackageDb

CONSTANTS
    Archives,      \* the packages that may be installed
    Genesis,       \* the system that setup has installed, a package as well
    UserFiles,     \* what the user may put at a path of /usr: path and leaf
    ConfigPaths,   \* the paths of /etc the user may attach
    DbDir,         \* the directory the database is in
    DbName,        \* its name there
    Before(_, _),  \* the order of the rows of a package: of the hashes of their paths
    CommandBound,  \* how many commands are run
    None

DbPath == Append(DbDir, DbName)

Meta(a) == [name |-> a.name, version |-> a.version, sha256 |-> a.sha256]

Known == Archives \cup {Genesis}
Names == {a.name : a \in Known}

\* The hash tells the archives apart, and setup could put the database into the
\* system.
ASSUME PackagesAssumption ==
    /\ \A a \in Known : WellFormed(a.usr) /\ WellFormed(a.etc) /\ a.version \in Nat
    /\ \A a, b \in Known : Meta(a) = Meta(b) => a = b
    /\ \A d \in Ancestors(DbPath) \cap DOMAIN Genesis.usr : Genesis.usr[d] = Dir
    /\ IsPath(DbPath) /\ \A f \in UserFiles : IsPath(f.path)
    /\ CommandBound \in Nat

VARIABLES
    booted,    \* the tree of the booted deploy
    armed,     \* the tree of the armed deploy, or None
    work,      \* the working copies of the command that runs, or None
    minted,    \* counts the uuids
    commands   \* counts the commands

vars == <<booted, armed, work, minted, commands>>

Database(tree) == tree[DbPath].data

WithFiles(db, uuid, a) ==
    InsertFiles(InsertFiles(db, uuid, Imported(a.usr), Row(FALSE, "prefix")),
                uuid, Imported(a.etc), Row(FALSE, "config"))

\* The directories above p that the tree has not.
Missing(tree, p) == Ancestors(p) \ DOMAIN tree

\* The directories a file needs are made, what is at its path is replaced.
WithFile(tree, p, leaf) == Insert([a \in Missing(tree, p) |-> Dir] ++ tree, p, leaf)

\* Genesis: the first package, without triggers, and its database.
Init ==
    LET db == WithFiles(InsertPackageMeta(NewInMemory, 1, Meta(Genesis)), 1, Genesis)
    IN  /\ booted = WithFile(ImportDirectory(Empty, Genesis.usr), DbPath, Leaf(db, None))
        /\ armed = None /\ work = None
        /\ minted = 1 /\ commands = 0

----------------------------------------------------------------------------
(***************************************************************************)
(* What a stage makes of the working copies: the next ones, or None, the   *)
(* command having failed.                                                  *)
(***************************************************************************)
\* ImportPackageStage of install: a new uuid, whatever has the name.
ImportPackage(w, a) ==
    LET db == SetTriggers(InsertPackageMeta(w.db, w.next, Meta(a)), w.next, a.triggers)
    IN  [w EXCEPT !.tree = ImportDirectory(@, a.usr), !.db = WithFiles(db, w.next, a), !.next = @ + 1]

\* The paths go one by one, a directory with all that is in it.
CanRemoveAll(tree, paths) ==
    \A p \in paths : CanReach(tree, p) /\ ~\E q \in paths : IsStrictPrefix(q, p) /\ Before(q, p)

\* Mutant: the rows of the old version stay.
ReplacePackageOver(w, a) ==
    LET uuid == w.db.byName[a.name]
        db   == SetTriggers(UpdatePackageMeta(w.db, Meta(a)), uuid, a.triggers)
    IN  IF HasPackage(w.db, a.name)
        THEN [w EXCEPT !.tree = ImportDirectory(@, a.usr), !.db = WithFiles(db, uuid, a)]
        ELSE None

\* Mutant: the files of the old version stay in the tree.
ReplacePackageRows(w, a) ==
    LET uuid == w.db.byName[a.name]
        db   == SetTriggers(UpdatePackageMeta(RemoveFiles(w.db, uuid, PathsOf(w.db, uuid)), Meta(a)), uuid, a.triggers)
    IN  IF HasPackage(w.db, a.name) /\ UserPaths(w.db, uuid) = {}
        THEN [w EXCEPT !.tree = ImportDirectory(@, a.usr), !.db = WithFiles(db, uuid, a)]
        ELSE None

\* ImportPackageStage of update: the old files go, then the new ones come.
ReplacePackage(w, a) ==
    LET uuid == w.db.byName[a.name]
        old  == PathsOf(w.db, uuid)
        gone == InScope(w.db, uuid, "prefix")
        db   == SetTriggers(UpdatePackageMeta(RemoveFiles(w.db, uuid, old), Meta(a)), uuid, a.triggers)
    IN  IF /\ HasPackage(w.db, a.name)
           /\ w.command = "downgrade" \/ a.version >= MetaOf(w.db, a.name).version
           /\ CanRemoveAll(w.tree, gone) /\ CanRemovePackageFiles(w.db, uuid, old)
        THEN [w EXCEPT !.tree = ImportDirectory(Without(@, gone), a.usr), !.db = WithFiles(db, uuid, a)]
        ELSE None

\* Mutant: purge or not, all files go.
RemovePackageWhole(w, name) ==
    LET uuid == w.db.byName[name]
    IN  IF HasPackage(w.db, name)
        THEN [w EXCEPT !.tree = Without(@, InScope(w.db, uuid, "prefix")),
                       !.db = RemoveTriggers(RemovePackageMeta(
                                 RemoveFiles(@, uuid, PathsOf(w.db, uuid)), name), uuid)]
        ELSE None

\* RemovePackageStage: without purge the files of the user stay, and their rows.
RemovePackage(w, name) ==
    LET uuid == w.db.byName[name]
        rows == PathsOf(w.db, uuid) \ IF w.command = "purge" THEN {} ELSE UserPaths(w.db, uuid)
        gone == rows \cap InScope(w.db, uuid, "prefix")
    IN  IF HasPackage(w.db, name) /\ CanRemoveAll(w.tree, gone)
        THEN [w EXCEPT !.tree = Without(@, gone),
                       !.db = RemoveTriggers(RemovePackageMeta(RemoveFiles(@, uuid, rows), name), uuid)]
        ELSE None

\* ApplyFileStage, under /usr ...
AddFile(w, uuid, file) ==
    IF \A a \in Ancestors(file.path) \cap DOMAIN w.tree : w.tree[a] = Dir
    THEN [w EXCEPT !.tree = WithFile(@, file.path, file.leaf),
                   !.db = InsertFiles(@, uuid, {file.path}, Row(TRUE, "prefix"))]
    ELSE None

RemoveFile(w, uuid, p) ==
    IF CanReach(w.tree, p) /\ CanRemoveUserFile(w.db, uuid, p)
    THEN [w EXCEPT !.tree = RemoveInTree(@, p), !.db = RemoveFiles(@, uuid, {p})]
    ELSE None

\* ... and in the scope of /etc: the tree stays, only the row is written.
AttachConfig(w, uuid, p) == [w EXCEPT !.db = InsertFiles(@, uuid, {p}, Row(TRUE, "config"))]

DetachConfig(w, uuid, p) ==
    IF CanRemoveUserFile(w.db, uuid, p) THEN [w EXCEPT !.db = RemoveFiles(@, uuid, {p})] ELSE None

----------------------------------------------------------------------------
(***************************************************************************)
(* The commands.  "downgrade" is an update that may go back to an older    *)
(* version, "purge" an uninstall that takes the user's files as well.      *)
(***************************************************************************)
\* OpenTransactionStage: what is booted is copied.
Opened(command, names, rest) ==
    [command |-> command, names |-> names, rest |-> rest,
     tree |-> booted, db |-> Database(booted), next |-> minted + 1]

Open(command, names, rest) ==
    /\ work = None /\ commands < CommandBound
    /\ work' = Opened(command, names, rest)
    /\ commands' = commands + 1
    /\ UNCHANGED <<booted, armed, minted>>

NamesOf(archives) == {archives[i].name : i \in DOMAIN archives}

Install(archives) == Open("install", NamesOf(archives), archives)

Update(archives, allowDowngrade) ==
    Open(IF allowDowngrade THEN "downgrade" ELSE "update", NamesOf(archives), archives)

\* PreparationStage looks all the names up before anything is done.
Uninstall(names, purge) ==
    /\ \A i \in DOMAIN names : HasPackage(Database(booted), names[i])
    /\ Open(IF purge THEN "purge" ELSE "uninstall", Range(names), names)

Files(name) == HasPackage(Database(booted), name) /\ Open("files", {name}, <<name>>)

\* A stage has run for the package in turn, and is run for the next one.
Turn(names) == work # None /\ work.command \in names /\ work.rest # <<>>

Leads(done) ==
    /\ work' = IF done = None THEN None ELSE [done EXCEPT !.rest = Tail(@)]
    /\ UNCHANGED <<booted, armed, minted, commands>>

InstallOne == Turn({"install"}) /\ Leads(ImportPackage(work, Head(work.rest)))
UpdateOne  == Turn({"update", "downgrade"}) /\ Leads(ReplacePackage(work, Head(work.rest)))
RemoveOne  == Turn({"uninstall", "purge"}) /\ Leads(RemovePackage(work, Head(work.rest)))

FilePaths == {f.path : f \in UserFiles}

ApplyFile ==
    /\ Turn({"files"})
    /\ LET uuid == work.db.byName[Head(work.rest)]
       IN  \/ \E file \in UserFiles : Leads(AddFile(work, uuid, file))
           \/ \E p \in FilePaths : Leads(RemoveFile(work, uuid, p))
           \/ \E p \in ConfigPaths : \/ Leads(AttachConfig(work, uuid, p))
                                    \/ Leads(DetachConfig(work, uuid, p))

\* CommitTransactionStage: the database goes back to its path.
Commit ==
    /\ work # None /\ work.rest = <<>>
    /\ IF CanReach(work.tree, DbPath)
       THEN armed' = Insert(work.tree, DbPath, Leaf(work.db, None)) /\ minted' = work.next - 1
       ELSE UNCHANGED <<armed, minted>>
    /\ work' = None
    /\ UNCHANGED <<booted, commands>>

\* The machine boots what is armed, whatever a command was at.
Boot ==
    /\ armed # None
    /\ booted' = armed /\ armed' = None /\ work' = None
    /\ UNCHANGED <<minted, commands>>

\* One package or two.
Batches(S) == {<<a>> : a \in S} \cup {pair \in S \X S : pair[1] # pair[2]}

Next ==
    \/ \E archives \in Batches(Archives) :
          Install(archives) \/ \E allowDowngrade \in BOOLEAN : Update(archives, allowDowngrade)
    \/ \E names \in Batches(Names), purge \in BOOLEAN : Uninstall(names, purge)
    \/ \E name \in Names : Files(name)
    \/ InstallOne \/ UpdateOne \/ RemoveOne \/ ApplyFile
    \/ Commit \/ Boot

Spec == Init /\ [][Next]_vars

----------------------------------------------------------------------------
Images == {booted, armed} \ {None}

\* The tables of both images: a name leads to a package of that name, triggers
\* are of a package and every path in the table by path has its row.
TypeOK ==
    \A tree \in Images :
       LET db == Database(tree)
       IN  /\ WellFormed(tree)
           /\ \A name \in DOMAIN db.byName : /\ db.byName[name] \in DOMAIN db.metas
                                             /\ MetaOf(db, name).name = name
           /\ DOMAIN db.triggers \subseteq DOMAIN db.metas
           /\ \A p \in DOMAIN db.byPath : p \in PathsOf(db, db.byPath[p])

ArchiveOf(meta) == CHOOSE a \in Known : Meta(a) = meta

\* A row that is not the user's is of a file in the archive the package is at:
\* no sequence of installs, updates and files leaves one of an old version.
RowsAreTheArchives ==
    \A tree \in Images :
       LET db == Database(tree)
       IN  \A u \in DOMAIN db.metas :
              LET a == ArchiveOf(db.metas[u])
              IN  PathsOf(db, u) \ UserPaths(db, u) \subseteq Leaves(a.usr) \cup Leaves(a.etc)

Owners(db, p) == {k[1] : k \in {key \in DOMAIN db.files : key[2] = p}}

EtcPaths == ConfigPaths \cup UNION {Leaves(a.etc) : a \in Known}

\* Every file under /usr, but the database, is on some package's list: what an
\* update or an uninstall takes off the lists, of whatever version, it takes
\* out of the tree.  A path that is also one of /etc has one row for both.
EveryFileIsListed ==
    \A tree \in Images :
       \A p \in Leaves(tree) \ ({DbPath} \cup EtcPaths) : Owners(Database(tree), p) # {}

\* One of these commands arms a new image.
Arms(names) == work # None /\ work.command \in names /\ armed' # armed /\ armed' # None

\* What is done to some packages leaves the metas, the triggers and the rows of
\* all others alone, also on a path they share.
OthersKeepTheirRows ==
    [][Arms({"install", "update", "downgrade", "uninstall", "purge", "files"}) =>
         LET old == Database(booted)
             new == Database(armed')
         IN  \A u \in DOMAIN old.metas : old.metas[u].name \notin work.names =>
                /\ u \in DOMAIN new.metas /\ new.metas[u] = old.metas[u]
                /\ u \in DOMAIN old.triggers =>
                      u \in DOMAIN new.triggers /\ new.triggers[u] = old.triggers[u]
                /\ \A p \in PathsOf(old, u) : u \in Owners(new, p)
                                              /\ new.files[<<u, p>>] = old.files[<<u, p>>]]_vars

\* What a command lays into the tree.
Brought == {DbPath} \cup IF work.command \in {"install", "update", "downgrade"}
                         THEN UNION {DOMAIN a.usr : a \in {b \in Archives : b.name \in work.names}}
                         ELSE {}

\* A file the user has attached under /usr stays, with its row, until the user
\* takes it away or purges: unless the command brings something at its path or
\* on the way to it, or another package had the path, or any the way, as a file.
UserFilesStay ==
    [][Arms({"install", "update", "downgrade", "uninstall"}) =>
         LET old == Database(booted)
             new == Database(armed')
         IN  \A u \in {k[1] : k \in DOMAIN old.files} : \A p \in UserPaths(old, u) :
                /\ IsUserRow(new, u, p)
                /\ \/ p \notin DOMAIN booted \/ p \in DOMAIN armed'
                   \/ \E q \in Brought : IsPrefix(q, p)
                   \/ Owners(old, p) # {u} \/ \E q \in Ancestors(p) : Owners(old, q) # {}]_vars

\* One package has the file, the table by path has the row, and nothing above
\* it is on a list.
HasOneOwner(db, p) ==
    /\ p \in DOMAIN db.byPath
    /\ \E u \in Owners(db, p) : Owners(db, p) = {u}
    /\ \A q \in Ancestors(p) : Owners(db, q) = {}

\* The diff of the two images explains an uninstall: no package is reported as
\* removed but those named, and every file that changed and had one owner is
\* laid to one of them.  (The database changes with every commit.)
DiffExplainsUninstall ==
    [][Arms({"uninstall", "purge"}) =>
         LET old     == Database(booted)
             new     == Database(armed')
             changes == TreeDiff(booted, armed')
             report  == Diff(old, new, changes)
         IN  /\ \A name \in DOMAIN report : report[name] = "Removed" => name \in work.names
             /\ \A p \in DOMAIN changes : ~IsPrefix(DbPath, p) /\ HasOneOwner(old, p) =>
                   Blamed(old, new, changes, p) \in work.names]_vars

\* doc/eng/Upac chapter 5.md:98: the new tree is built from the current one.
\* What other packages have there is there afterwards.
InstallKeepsTheRest ==
    [][Arms({"install"}) =>
         \A p \in DOMAIN booted \ {DbPath} : p \in DOMAIN armed']_vars

\* doc/eng/Upac chapter 1.md:60: a file of the user is tracked as part of the
\* package, and removed along with it.
UserFilesHaveTheirPackage ==
    \A tree \in Images :
       LET db == Database(tree)
       IN  \A k \in DOMAIN db.files : k[1] \in DOMAIN db.metas

\* A path that a query lists for a package is attributed to some package.
ListedIsAttributed ==
    \A tree \in Images :
       LET db == Database(tree)
       IN  \A entry \in SearchFiles(db) : AttributeFile(db, entry[1]) # Nobody

\* An install keeps what an earlier command of the same boot has installed.
DoneIsBooted ==
    [][armed # None /\ Arms({"install"}) =>
         DOMAIN Database(armed).metas \subseteq DOMAIN Database(armed').metas]_vars
=============================================================================
