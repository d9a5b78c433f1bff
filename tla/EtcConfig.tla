------------------------------ MODULE EtcConfig ------------------------------
(***************************************************************************)
(* /etc through edits, commands and boots.  The kernel mounts an overlay:  *)
(* the config image of the deploy below, the upper directory of the deploy *)
(* above.  The commands never see the mount: they rebuild the live tree    *)
(* from the working config of the record and the upper directory, merge it *)
(* and seal the result as the config of the next deploy.                   *)
(*                                                                         *)
(* One package ships files in /etc; Releases are the trees of its versions.*)
(***************************************************************************)
EXTENDS Trees, Naturals

CONSTANTS
    Names,         \* the paths that may be there
    Data,          \* what a file may hold
    Blank,         \* what a file holds that was cut to nothing
    Modes,         \* the modes it may have
    Shipped,       \* /etc as it was first deployed
    Releases,      \* the configuration trees of the package's versions
    EditBound,     \* how often the user edits /etc
    CommandBound,  \* how many commands are run
    None

Files == {Leaf(d, m) : d \in Data, m \in Modes}
Contents == Files \cup {Leaf(Blank, m) : m \in Modes}

\* A tree of files and directories, and the upper directory a kernel leaves:
\* nothing is below a file or a whiteout.
IsConfig(t) == t \in [DOMAIN t -> Contents \cup {Dir}] /\ WellFormed(t)
IsUpper(u) ==
    /\ u \in [DOMAIN u -> Contents \cup Marks]
    /\ \A p \in DOMAIN u : /\ IsPath(p)
                           /\ \A a \in Ancestors(p) : a \in DOMAIN u /\ u[a] \in {Dir, Opaque}

ASSUME EtcAssumption ==
    /\ Dir # Opaque /\ Dir # Whiteout /\ Opaque # Whiteout
    /\ Marks \cap Contents = {}
    /\ \A p \in Names : IsPath(p)
    /\ IsConfig(Shipped) /\ DOMAIN Shipped \subseteq Names
    /\ \A r \in Releases : IsConfig(r) /\ DOMAIN r \subseteq Names
    /\ EditBound \in Nat /\ CommandBound \in Nat

VARIABLES
    lower,     \* the config image that is mounted
    base,      \* the working config in the record of the booted deploy
    upper,     \* the upper directory of the booted deploy
    etc,       \* history: what the user sees in /etc
    owned,     \* the package's config files in the database, or None
    armed,     \* the deploy the next boot enters, or None
    reported,  \* the conflicts the last merge has sent
    edits,     \* counts the edits
    commands   \* counts the commands

vars == <<lower, base, upper, etc, owned, armed, reported, edits, commands>>

\* The rows of the package: the files it has brought and those of the user;
\* history: the release it is at.
Owned(brought, user, release) == [brought |-> brought, user |-> user, from |-> release]

\* A deploy that is armed; history: the command that did it.
Deploy(config, rows, command) == [config |-> config, owned |-> rows, by |-> command]

Init ==
    /\ lower = Shipped /\ base = Shipped /\ etc = Shipped
    /\ upper = Empty /\ owned = None
    /\ armed = None /\ reported = {}
    /\ edits = 0 /\ commands = 0

----------------------------------------------------------------------------
(***************************************************************************)
(* The user and the kernel's overlay.                                      *)
(***************************************************************************)
\* Directories are made on the way to p.
CopiedUp(p) == [a \in Ancestors(p) \ DOMAIN upper |-> Dir]

\* The image below has something at p that the layer above does not hide.
LowerHas(p) ==
    /\ p \in DOMAIN lower
    /\ \A a \in Hidden(upper) : ~IsStrictPrefix(a, p)

Edit ==
    /\ edits < EditBound
    /\ edits' = edits + 1
    /\ UNCHANGED <<lower, base, owned, armed, reported, commands>>

Write(p, file) ==
    /\ IsDir(etc, Parent(p)) /\ ~IsDir(etc, p)
    /\ etc' = At(p, file) ++ etc
    /\ etc' # etc
    /\ upper' = At(p, file) ++ CopiedUp(p) ++ upper
    /\ Edit

MakeDir(p) ==
    /\ IsDir(etc, Parent(p)) /\ p \notin DOMAIN etc
    /\ etc' = At(p, Dir) ++ etc
    /\ upper' = At(p, Opaque) ++ CopiedUp(p) ++ upper
    /\ Edit

Delete(p) ==
    /\ p \in DOMAIN etc
    /\ etc' = Without(etc, {p})
    /\ upper' = IF LowerHas(p)
                THEN At(p, Whiteout) ++ CopiedUp(p) ++ Without(upper, {p})
                ELSE Without(upper, {p})
    /\ Edit

\* A boot into the armed deploy, whose upper directory is empty, or again into
\* this one, which keeps its own and mounts what the record names.
Boot ==
    /\ IF armed # None
       THEN /\ base' = armed.config /\ upper' = Empty
            /\ owned' = armed.owned
       ELSE /\ lower # base
            /\ UNCHANGED <<base, upper, owned>>
    /\ lower' = base'
    /\ etc' = ApplyOverlayUpper(base', upper')
    /\ armed' = None
    /\ UNCHANGED <<reported, edits, commands>>

----------------------------------------------------------------------------
(***************************************************************************)
(* The commands that merge.                                                *)
(***************************************************************************)
Live == ApplyOverlayUpper(base, upper)

Command ==
    /\ commands < CommandBound
    /\ commands' = commands + 1
    /\ UNCHANGED <<lower, base, owned, edits>>

CanBuild(new, allowConflictFiles) ==
    CanApplyUpper(base, upper) /\ CanMerge(base, new, Live, allowConflictFiles)

\* The merge stage and, after it, the stages that arm the deploy.
Merge(new, rows, allowConflictFiles, command) ==
    /\ CanBuild(new, allowConflictFiles)
    /\ armed' = Deploy(MergeConfig(base, new, Live, allowConflictFiles), rows, command)
    /\ Command
    /\ UNCHANGED <<upper, etc>>

\* A walk fails, or a row of the user refuses to be removed.
Fails(why) ==
    /\ why
    /\ Command
    /\ UNCHANGED <<upper, etc, armed, reported>>

RowsOf(release) == Owned(Leaves(release), {}, release)

Install(release, allowConflictFiles) ==
    LET new == ApplyTreeOverlay(base, release)
    IN  /\ owned = None
        /\ \/ /\ CanOverlay(base, release)
              /\ Merge(new, RowsOf(release), allowConflictFiles, "install")
              /\ reported' = Conflicts(base, new, Live)
           \/ Fails(~CanOverlay(base, release) \/ ~CanBuild(new, allowConflictFiles))

\* The files of the old version leave the tree before those of the new one
\* come; remove_package_file refuses a row of the user.
Update(release, allowConflictFiles) ==
    /\ owned # None
    /\ LET rest == Without(base, owned.brought)
           new  == ApplyTreeOverlay(rest, release)
       IN  \/ /\ owned.user = {} /\ CanOverlay(rest, release)
              /\ Merge(new, RowsOf(release), allowConflictFiles, "update")
              /\ reported' = Conflicts(base, new, Live)
           \/ Fails(owned.user # {} \/ ~CanOverlay(rest, release) \/ ~CanBuild(new, allowConflictFiles))

\* Conflicts are not sent, and always leave their files.
Uninstall(purge) ==
    /\ owned # None
    /\ LET new == Without(base, owned.brought \cup IF purge THEN owned.user ELSE {})
       IN  \/ Merge(new, None, TRUE, "uninstall") /\ reported' = {}
           \/ Fails(~CanBuild(new, TRUE))

\* commit seals the live tree as the working config of the booted deploy.
Commit ==
    /\ commands < CommandBound
    /\ commands' = commands + 1
    /\ CanApplyUpper(base, upper)
    /\ base' = Live
    /\ UNCHANGED <<lower, upper, etc, owned, armed, reported, edits>>

----------------------------------------------------------------------------
(***************************************************************************)
(* files in the scope of /etc: it works on the upper directory itself,     *)
(* with no guard, and then arms a deploy that inherits the record's config.*)
(***************************************************************************)
Inherit(rows) ==
    /\ armed' = Deploy(base, rows, "files")
    /\ UNCHANGED reported

\* A stage after the body fails, and nothing takes the body back.
FailsLater == UNCHANGED <<armed, reported>>

\* fs::copy from the mount to the directory below it: what is there already
\* is opened for writing, and cut, before it is read.
CopiedFrom(p) == IF p \in DOMAIN upper THEN Leaf(Blank, etc[p].mode) ELSE etc[p]

AddFile(p) ==
    /\ owned # None
    /\ p \in Leaves(etc)
    /\ upper' = At(p, CopiedFrom(p)) ++ CopiedUp(p) ++ upper
    /\ etc' = At(p, CopiedFrom(p)) ++ etc
    /\ Command
    /\ \/ Inherit(Owned(owned.brought \ {p}, owned.user \cup {p}, owned.from))
       \/ FailsLater

\* remove_file takes a whiteout away as well, and comes before the row that
\* may be missing.
RemoveFile(p) ==
    /\ owned # None
    /\ p \in DOMAIN upper /\ upper[p] \notin {Dir, Opaque}
    /\ upper' = Restrict(upper, DOMAIN upper \ {p})
    /\ etc' = ApplyOverlayUpper(lower, upper')
    /\ Command
    /\ \/ /\ p \in owned.user
          /\ Inherit(Owned(owned.brought, owned.user \ {p}, owned.from))
       \/ FailsLater

User ==
    \/ \E p \in Names : \/ \E file \in Files : Write(p, file)
                        \/ MakeDir(p)
                        \/ Delete(p)
    \/ Boot

Manager ==
    \/ \E release \in Releases, allow \in BOOLEAN : Install(release, allow) \/ Update(release, allow)
    \/ \E purge \in BOOLEAN : Uninstall(purge)
    \/ Commit
    \/ \E p \in Names : AddFile(p) \/ RemoveFile(p)

Next == User \/ Manager

Spec == Init /\ [][Next]_vars

----------------------------------------------------------------------------
\* The trees are trees: no sequence of edits, merges and commits leaves a file
\* below another, or below nothing, in an image, in /etc or above the image.
TypeOK ==
    /\ IsConfig(lower) /\ IsConfig(base) /\ IsConfig(etc)
    /\ IsUpper(upper)
    /\ armed # None => IsConfig(armed.config)

\* What the commands rebuild from the record and the upper directory
\* (apply_overlay_upper) is what the user sees, as long as no commit has moved
\* the record away from the image that is mounted.
LiveIsWhatIsSeen == lower = base => Live = etc

\* The user's changes as the user sees them.
Edited(p) == p \in Leaves(etc) /\ (p \in Leaves(base) => etc[p].data # base[p].data)
Deleted(p) == p \in Leaves(base) /\ p \notin Leaves(etc)

Merges == commands' # commands /\ armed' # armed /\ armed'.by # "files"

\* Every file the user has created or whose content the user has changed, since
\* the image below was sealed, is in the config that a merge arms, with the
\* content and the mode it has, whatever the package brings.
EditsSurvive ==
    [][lower = base /\ Merges =>
         \A p \in Names : Edited(p) => p \in DOMAIN armed'.config /\ armed'.config[p] = etc[p]]_vars

\* No file the user has deleted comes back in silence: where it was is a file
\* only if the package brings one of another content, which install and update
\* report, or if the path is the one beside a file that they report.
DeletionsSurvive ==
    [][lower = base /\ Merges =>
         \A p \in Names : Deleted(p) /\ p \in Leaves(armed'.config) =>
            p \in reported' \/ \E q \in reported' : p = Sidecar(q)]_vars

\* No file of a release is lost in silence: it is in the config that is armed,
\* or its path was reported, or the user has deleted or chmodded what is the same file,
\* or a file of the user is where its directory was.
DefaultsArrive ==
    [][lower = base /\ Merges /\ armed'.owned # None =>
         \A p \in Leaves(armed'.owned.from) :
            \/ p \in Leaves(armed'.config) /\ SameContent(armed'.config[p], armed'.owned.from[p])
            \/ p \in reported'
            \/ p \in Leaves(base) /\ SameContent(base[p], armed'.owned.from[p])
            \/ \E q \in Ancestors(p) : q \in Leaves(etc)]_vars

\* What doc/eng/Upac chapter 5.md:18 says of every command that changes /usr:
\* the deploy it arms has the user's edits.  files inherits the record's config.
EveryDeployCarriesTheEdits ==
    [][lower = base /\ armed' # armed /\ armed' # None =>
         \A p \in Names : Edited(p) => p \in DOMAIN armed'.config /\ armed'.config[p] = etc[p]]_vars

\* What chapter 5:14-23 says live is: the state of the user's /etc.  A commit
\* leaves the upper directory and the mount as they are, so a file it has
\* sealed, when the user deletes it, leaves no whiteout behind.
LiveIsTheUsersEtc == Leaves(Live) = Leaves(etc)

\* What chapter 5:30 says: conflicts and edits never block an operation.
EditsNeverBlock ==
    [][commands' # commands /\ UNCHANGED <<armed, base, upper>> => owned # None /\ owned.user # {}]_vars

\* What chapter 5:28 says of a conflict: the package's file is put beside the
\* user's, and what is there is no file of the user's.
ConflictsLeaveTheirFile ==
    [][Merges /\ armed'.by \in {"install", "update"} =>
         \A p \in reported' : Edited(p) =>
            \/ Sidecar(p) \notin DOMAIN armed'.config
            \/ armed'.config[Sidecar(p)] = armed'.owned.from[p]]_vars

\* What chapter 5:28 says of a conflict whose files are allowed: the package's
\* file is there beside the user's, and nothing makes a change of the user of
\* it ("excluded from future classification").
ConflictFilesArrive ==
    [][\A release \in Releases :
          Install(release, TRUE) \/ Update(release, TRUE) =>
             armed' = armed \/ \A p \in reported' : Edited(p) => Sidecar(p) \in Leaves(armed'.config)]_vars

\* A files command that fails has changed nothing of /etc.
FailedFilesChangeNothing ==
    [][commands' # commands /\ armed' = armed /\ base' = base => etc' = etc]_vars
=============================================================================
