-------------------------------- MODULE Trees --------------------------------
(***************************************************************************)
(* File system trees as the library edits them: the operations of          *)
(* FileHandle, the two overlays, the diff and the three-way merge of /etc. *)
(*                                                                         *)
(* A tree maps the paths it has, which are sequences of names, to Dir or   *)
(* to a leaf: what the leaf holds and the mode it has.  The recursive      *)
(* walks of the code are written as what they leave behind; a step of a    *)
(* walk that fails makes a "Can" operator false.                           *)
(***************************************************************************)
EXTENDS Sequences, FiniteSets, SequencesExt, Functions, Tables

CONSTANTS
    Dir,         \* what a path holds that is a directory
    Opaque,      \* in an overlay: a directory that hides the one below
    Whiteout,    \* in an overlay: nothing, whatever is below
    Suffixed(_)  \* a name with ".upac-new" after it

Marks == {Dir, Opaque, Whiteout}

Leaf(data, mode) == [data |-> data, mode |-> mode]

Empty == [p \in {} |-> Dir]

IsPath(p) == p # <<>> /\ p \in Seq(Range(p))
Parent(p) == Front(p)
Ancestors(p) == {SubSeq(p, 1, n) : n \in 1..Len(p) - 1}

Leaves(t) == {p \in DOMAIN t : t[p] \notin Marks}
IsDir(t, p) == p = <<>> \/ (p \in DOMAIN t /\ t[p] = Dir)

\* Every entry is in directories of the tree.
WellFormed(t) ==
    \A p \in DOMAIN t : /\ IsPath(p)
                        /\ \A a \in Ancestors(p) : a \in DOMAIN t /\ t[a] = Dir

\* The paths at or below one of a set.
Under(ps, t) == {p \in DOMAIN t : \E q \in ps : IsPrefix(q, p)}

Without(t, ps) == Restrict(t, DOMAIN t \ Under(ps, t))

----------------------------------------------------------------------------
(***************************************************************************)
(* FileHandle.                                                             *)
(***************************************************************************)
\* split_mut: the parent is there and is a directory.
CanReach(t, p) == IsDir(t, Parent(p))

\* Directory::insert replaces what the name held, a directory with all it has.
Insert(t, p, v) == At(p, v) ++ Without(t, {p})

RemoveInTree(t, p) == Without(t, {p})

\* All of the leaves ps are copied, each over what it finds.
CopyFromTree(dest, source, ps) == Restrict(source, ps) ++ Without(dest, ps)

\* import_directory: entry by entry, insert_in_tree for a directory, before
\* its own entries, and insert_file or symlink_in_tree for the others.
ImportDirectory(t, source) == source ++ Without(t, DOMAIN source)

\* The paths it returns.
Imported(source) == Leaves(source)

----------------------------------------------------------------------------
(***************************************************************************)
(* Overlays.                                                               *)
(***************************************************************************)
\* update_in_tree fails on a leaf.
CanOverlay(base, overlay) ==
    \A p \in DOMAIN overlay \cap DOMAIN base : overlay[p] = Dir => base[p] = Dir

ApplyTreeOverlay(base, overlay) == overlay ++ Without(base, Leaves(overlay))

Hidden(upper) == {p \in DOMAIN upper : upper[p] # Dir}

CanApplyUpper(base, upper) ==
    \A p \in DOMAIN upper \cap DOMAIN base :
       upper[p] = Dir /\ p \notin Under(Hidden(upper), base) => base[p] = Dir

\* Mutant: opaque directories are merged like the others.
ApplyUpperMerging(base, upper) ==
    LET shown == {p \in DOMAIN upper : upper[p] # Whiteout}
    IN  [p \in shown |-> IF upper[p] = Opaque THEN Dir ELSE upper[p]]
          ++ Without(base, {p \in DOMAIN upper : upper[p] \notin {Dir, Opaque}})

\* apply_overlay_upper: whiteouts and opaque directories hide what is below,
\* leaves replace it, directories are merged.
ApplyOverlayUpper(base, upper) ==
    LET shown == {p \in DOMAIN upper : upper[p] # Whiteout}
    IN  [p \in shown |-> IF upper[p] = Opaque THEN Dir ELSE upper[p]]
          ++ Without(base, Hidden(upper))

----------------------------------------------------------------------------
(***************************************************************************)
(* TreeDiff and merge_config.                                              *)
(***************************************************************************)
\* content_matches looks at the content only, not at the mode.
SameContent(a, b) == a.data = b.data

\* Mutant: what only the first tree has is passed over.
TreeDiffForward(from, to) ==
    LET both == Leaves(from) \cap Leaves(to)
    IN  [p \in {q \in both : ~SameContent(from[q], to[q])} |-> "Modified"]
          ++ [p \in Leaves(to) \ both |-> "Added"]

\* The leaves that differ, with how.
TreeDiff(from, to) ==
    LET both    == Leaves(from) \cap Leaves(to)
        changed == {p \in both : ~SameContent(from[p], to[p])}
    IN  [p \in changed |-> "Modified"]
          ++ [p \in Leaves(from) \ both |-> "Removed"]
          ++ [p \in Leaves(to) \ both |-> "Added"]

Come(diff) == {p \in DOMAIN diff : diff[p] \in {"Added", "Modified"}}
Gone(diff) == DOMAIN diff \ Come(diff)

Sidecar(p) == Append(Front(p), Suffixed(Last(p)))

\* Mutant: a change the user and the package both added is no conflict.
ConflictsOfModified(base, new, live) ==
    LET user == TreeDiff(base, live)
    IN  {p \in DOMAIN user : user[p] # "Added"} \cap Come(TreeDiff(base, new))

\* Those the walk reports: changed by the user, and brought by the package.
Conflicts(base, new, live) ==
    DOMAIN TreeDiff(base, live) \cap Come(TreeDiff(base, new))

\* Mutant: a copy makes the directories it needs, or so it thinks.
CanMergeAlways(base, new, live, allowConflictFiles) == TRUE

\* What is put beside the files of a conflict.
Sidecars(base, new, live, allowConflictFiles) ==
    IF allowConflictFiles
    THEN {Sidecar(p) : p \in Come(TreeDiff(base, live)) \cap Come(TreeDiff(base, new))} ELSE {}

\* What the user has deleted and the package has not touched.
TakenAway(base, new, live) == Gone(TreeDiff(base, live)) \ DOMAIN TreeDiff(base, new)

\* copy_from_tree makes no directories, and no path below a sidecar can be
\* reached any more.
CanMerge(base, new, live, allowConflictFiles) ==
    LET mine == Come(TreeDiff(base, live))
    IN  /\ \A p \in mine : CanReach(new, p)
        /\ \A p \in mine \cup TakenAway(base, new, live) :
           \A s \in Sidecars(base, new, live, allowConflictFiles) : ~IsStrictPrefix(s, p)

\* Mutant: a file both sides have changed is taken from the package.
MergePackageWins(base, new, live, allowConflictFiles) ==
    LET mine == Come(TreeDiff(base, live)) \ Come(TreeDiff(base, new))
    IN  CopyFromTree(Without(new, TakenAway(base, new, live)), live, mine)

\* The user's changes on top of the package's tree.  A conflict leaves the
\* package's file beside the user's; as the changes come in the order of
\* their names, a change of the user to that very name comes after it.
MergeConfig(base, new, live, allowConflictFiles) ==
    LET mine      == Come(TreeDiff(base, live))
        sidecars  == Sidecars(base, new, live, allowConflictFiles)
        Beside(s) == CHOOSE p \in mine \cap Come(TreeDiff(base, new)) : Sidecar(p) = s
        placed    == [s \in sidecars |-> new[Beside(s)]] ++ Without(new, sidecars)
    IN  CopyFromTree(Without(placed, TakenAway(base, new, live)), live, mine)
=============================================================================
